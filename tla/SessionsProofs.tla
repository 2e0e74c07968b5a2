---------------------------- MODULE SessionsProofs ----------------------------
(***************************************************************************)
(* Theorems about a session's files and its turns: the lease of a queued   *)
(* turn (QueueLease), for any number of runtimes, starts of them and clock *)
(* readings; the state file (SessionFiles), for any number of savers,      *)
(* saves and kills; the agent loop (ProviderLoop), for any number of       *)
(* answering requests, models, retries, steps and kills and any batches;   *)
(* and the event files of turns and their readers (BridgeEvents), for any  *)
(* number of turns, events and clock readings.                             *)
(***************************************************************************)
EXTENDS QueueLease, SessionFiles, ProviderLoop, BridgeEvents, OrdersProofs, SequenceTheorems,
        FiniteSetTheorems, TLAPS

-----------------------------------------------------------------------------
(* The queue lease.                                                        *)

Stages == Claiming \cup {"down", "recover", "serve", "clean"}

LeaseTyped ==
  /\ lease \in [owner : 0..MaxBoots, expires : 0..(LeaseClock + Ttl), full : BOOLEAN]
  /\ waiting \in BOOLEAN /\ indexed \in {"queued", "running"}
  /\ runtime \in [Runtimes -> [at : Stages, owner : 0..MaxBoots, queued : BOOLEAN]]
  /\ beat \subseteq Runtimes
  /\ now \in 0..LeaseClock /\ boots \in 0..MaxBoots /\ starts \in Nat
  /\ excused \in BOOLEAN

\* The runtimes that will start the turn without another look at its lease.
Holders == {r \in Runtimes : runtime[r].at = "fill" \/ runtime[r].queued}

\* At most one runtime claims, at most one holds, and nobody holds a turn that
\* was started.
OneHolds ==
  /\ \A r, o \in Runtimes : runtime[r].at \in Claiming /\ runtime[o].at \in Claiming => r = o
  /\ \A r, o \in Holders : r = o
  /\ Holders # {} => starts = 0

\* The index follows the start.
IndexFollows ==
  /\ indexed = IF starts = 0 THEN "queued" ELSE "running"
  /\ starts <= 1
  /\ \A r \in Runtimes : runtime[r].at = "clean" => starts = 1

\* The lease is the holder's, and is only removed when there is none.
LeaseIsTheirs ==
  /\ \A r \in Runtimes :
       /\ runtime[r].queued => lease.full /\ lease.owner = runtime[r].owner
       /\ runtime[r].at = "fill" => lease = Empty(runtime[r].owner)
       /\ runtime[r].at \in {"remove", "again"} => Holders = {}

LeaseInv ==
  /\ LeaseTyped
  /\ \A r \in Runtimes : runtime[r].queued => runtime[r].at = "serve"
  /\ ~excused => OneHolds /\ IndexFollows /\ LeaseIsTheirs

LEMMA LeaseRecords ==
  ASSUME LeaseTyped, NEW o \in 0..MaxBoots
  PROVE  /\ LeaseOf(o) \in [owner : 0..MaxBoots, expires : 0..(LeaseClock + Ttl), full : BOOLEAN]
         /\ Empty(o) \in [owner : 0..MaxBoots, expires : 0..(LeaseClock + Ttl), full : BOOLEAN]
         /\ NoLease \in [owner : 0..MaxBoots, expires : 0..(LeaseClock + Ttl), full : BOOLEAN]
         /\ LeaseOf(o).full /\ LeaseOf(o).owner = o /\ ~Empty(o).full /\ ~NoLease.full
  BY LeaseAssumption DEF LeaseTyped, LeaseOf, Empty, NoLease

\* One runtime goes on; the others stay where they are.
LEMMA RuntimeSteps ==
  ASSUME LeaseTyped, NEW r \in Runtimes, NEW s \in Stages, Steps(r, s)
  PROVE  /\ runtime' \in [Runtimes -> [at : Stages, owner : 0..MaxBoots, queued : BOOLEAN]]
         /\ runtime'[r].at = s /\ runtime'[r].owner = runtime[r].owner
         /\ runtime'[r].queued = runtime[r].queued
         /\ \A o \in Runtimes \ {r} : runtime'[o] = runtime[o]
  BY DEF LeaseTyped, Steps

LEMMA LeaseInitInv == LeaseInit => LeaseInv
<1> SUFFICES ASSUME LeaseInit PROVE LeaseInv
  OBVIOUS
<1>1. PICK first \in Runtimes :
        runtime = [r \in Runtimes |-> IF r = first
                                      THEN [at |-> "serve", owner |-> 1, queued |-> TRUE]
                                      ELSE Down]
  BY DEF LeaseInit
<1>2. /\ runtime \in [Runtimes -> [at : Stages, owner : 0..MaxBoots, queued : BOOLEAN]]
      /\ \A r \in Runtimes : runtime[r].at \in {"serve", "down"}
      /\ \A r \in Runtimes : runtime[r].queued => r = first
      /\ runtime[first].at = "serve" /\ runtime[first].owner = 1
  BY <1>1, LeaseAssumption DEF Down, Stages
<1>3. lease = [owner |-> 1, expires |-> Ttl, full |-> TRUE]
  BY LeaseAssumption DEF LeaseInit, LeaseOf
<1>4. LeaseTyped
  <2>1. /\ 1 \in 0..MaxBoots /\ 0 \in 0..LeaseClock /\ Ttl \in 0..(LeaseClock + Ttl)
        /\ starts \in Nat /\ now \in 0..LeaseClock /\ boots \in 0..MaxBoots
    BY LeaseAssumption DEF LeaseInit
  <2>2. lease \in [owner : 0..MaxBoots, expires : 0..(LeaseClock + Ttl), full : BOOLEAN]
    BY <1>3, <2>1
  <2>3. waiting \in BOOLEAN /\ indexed \in {"queued", "running"} /\ beat \subseteq Runtimes
        /\ excused \in BOOLEAN
    BY DEF LeaseInit
  <2> QED
    BY <1>2, <2>1, <2>2, <2>3 DEF LeaseTyped
<1>5. Holders = {first} \/ Holders = {}
  BY <1>2 DEF Holders
<1>6. OneHolds /\ IndexFollows /\ LeaseIsTheirs
  BY <1>2, <1>3, <1>5 DEF LeaseInit, OneHolds, IndexFollows, LeaseIsTheirs, Claiming
<1>7. \A r \in Runtimes : runtime[r].queued => runtime[r].at = "serve"
  BY <1>2
<1> QED
  BY <1>4, <1>6, <1>7 DEF LeaseInv

LEMMA LeaseNextInv == LeaseInv /\ [LeaseNext]_leaseVars => LeaseInv'
<1> SUFFICES ASSUME LeaseInv, [LeaseNext]_leaseVars PROVE LeaseInv'
  OBVIOUS
<1> USE DEF LeaseInv
<1>1. ASSUME NEW r \in Runtimes, Boots(r) PROVE LeaseInv'
  <2>1. /\ boots' \in 0..MaxBoots
        /\ runtime' = [runtime EXCEPT ![r] = [at |-> "recover", owner |-> boots', queued |-> FALSE]]
        /\ UNCHANGED <<lease, waiting, indexed, beat, now, starts, excused>>
    BY <1>1, LeaseAssumption DEF Boots, LeaseTyped
  <2>2. /\ runtime' \in [Runtimes -> [at : Stages, owner : 0..MaxBoots, queued : BOOLEAN]]
        /\ runtime'[r].at = "recover" /\ ~runtime'[r].queued
        /\ \A o \in Runtimes \ {r} : runtime'[o] = runtime[o]
    BY <2>1 DEF LeaseTyped, Stages
  <2>3. LeaseTyped'
    BY <2>1, <2>2 DEF LeaseTyped
  <2>4. Holders' \subseteq Holders
    BY <2>2 DEF Holders
  <2>5. ~excused => OneHolds' /\ IndexFollows' /\ LeaseIsTheirs'
    BY <2>1, <2>2, <2>4 DEF OneHolds, IndexFollows, LeaseIsTheirs, Claiming, Empty
  <2> QED
    BY <2>1, <2>2, <2>3, <2>5
<1>2. ASSUME NEW r \in Runtimes, ReadsQueue(r) PROVE LeaseInv'
  <2> DEFINE s == IF waiting /\ indexed = "queued" THEN "claim" ELSE "serve"
  <2>1. /\ Steps(r, s) /\ runtime[r].at = "recover"
        /\ UNCHANGED <<indexed, beat, now, boots, starts>>
        /\ (lease' = lease /\ waiting' = waiting)
           \/ (indexed # "queued" /\ waiting' = FALSE /\ lease' = NoLease)
    BY <1>2 DEF ReadsQueue, Is
  <2>2. s \in Stages /\ s \notin {"fill", "look", "remove", "again", "clean"}
    BY DEF Stages, Claiming
  <2>3. ~excused' => ~excused /\ \A o \in Runtimes \ {r} : runtime[o].at \notin Claiming
    BY <1>2 DEF ReadsQueue
  <2> HIDE DEF s
  <2>4. /\ runtime' \in [Runtimes -> [at : Stages, owner : 0..MaxBoots, queued : BOOLEAN]]
        /\ runtime'[r].at = s /\ runtime'[r].owner = runtime[r].owner
        /\ runtime'[r].queued = runtime[r].queued
        /\ \A o \in Runtimes \ {r} : runtime'[o] = runtime[o]
    BY <2>1, <2>2, RuntimeSteps
  <2>5. LeaseTyped'
    <3>1. 0 \in 0..MaxBoots
      BY LeaseAssumption
    <3>2. excused' \in BOOLEAN
      BY <1>2 DEF ReadsQueue
    <3> QED
      BY <2>1, <2>4, <3>1, <3>2, LeaseRecords DEF LeaseTyped
  <2>6. Holders' \subseteq Holders /\ ~runtime[r].queued
    BY <2>1, <2>2, <2>4 DEF Holders
  <2>7. ~excused' => OneHolds' /\ IndexFollows'
    BY <2>1, <2>2, <2>3, <2>4, <2>6 DEF OneHolds, IndexFollows
  <2>8. ~excused' => LeaseIsTheirs'
    BY <2>1, <2>2, <2>3, <2>4, <2>6 DEF LeaseIsTheirs, OneHolds, IndexFollows, Holders, Empty
  <2> QED
    BY <2>4, <2>5, <2>6, <2>7, <2>8
<1>3. ASSUME NEW r \in Runtimes, Claims(r) PROVE LeaseInv'
  <2>1. UNCHANGED <<waiting, indexed, beat, now, boots, starts>>
    BY <1>3 DEF Claims
  <2>2. excused' \in BOOLEAN
    BY <1>3 DEF Claims
  <2>3. ~excused' => ~excused /\ waiting /\ indexed = "queued"
    BY <1>3 DEF Claims
  <2>4. CASE lease = NoLease
    <3>1. Steps(r, "fill") /\ lease' = Empty(runtime[r].owner)
      BY <1>3, <2>4 DEF Claims
    <3>2. "fill" \in Stages /\ runtime[r].owner \in 0..MaxBoots
      BY DEF Stages, Claiming, LeaseTyped
    <3>3. /\ runtime' \in [Runtimes -> [at : Stages, owner : 0..MaxBoots, queued : BOOLEAN]]
          /\ runtime'[r].at = "fill" /\ runtime'[r].owner = runtime[r].owner
          /\ runtime'[r].queued = runtime[r].queued
          /\ \A o \in Runtimes \ {r} : runtime'[o] = runtime[o]
      BY <3>1, <3>2, RuntimeSteps
    <3>4. LeaseTyped'
      BY <2>1, <2>2, <3>1, <3>2, <3>3, LeaseRecords DEF LeaseTyped
    <3>5. ~runtime[r].queued
      BY <1>3 DEF Claims
    <3>6. ~excused' => Holders = {}
      <4>1. ~NoLease.full
        BY DEF NoLease
      <4>2. runtime[r].at \in Claiming /\ runtime[r].at # "fill"
        BY <1>3 DEF Claims, Claiming
      <4> QED
        BY <2>3, <2>4, <4>1, <4>2 DEF OneHolds, LeaseIsTheirs, Holders, Claiming
    <3>7. Holders' \subseteq Holders \cup {r}
      BY <3>3 DEF Holders
    <3>8. ~excused' => OneHolds' /\ IndexFollows'
      <4>1. runtime[r].at \in Claiming
        BY <1>3 DEF Claims, Claiming
      <4> QED
        BY <2>1, <2>3, <3>3, <3>6, <3>7, <4>1 DEF OneHolds, IndexFollows
    <3>9. ~excused' => LeaseIsTheirs'
      <4>1. runtime[r].at \in Claiming
        BY <1>3 DEF Claims, Claiming
      <4>2. ~excused' => \A o \in Runtimes \ {r} : runtime'[o].at \notin Claiming
        BY <2>3, <3>3, <4>1 DEF OneHolds
      <4>3. ~excused' => \A o \in Runtimes : ~runtime'[o].queued
        BY <3>3, <3>5, <3>6 DEF Holders
      <4> QED
        BY <2>1, <3>1, <3>3, <4>2, <4>3 DEF LeaseIsTheirs, Claiming, Empty
    <3> QED
      BY <3>3, <3>4, <3>5, <3>8, <3>9
  <2>5. CASE lease # NoLease
    <3> DEFINE s == IF Is(r, "claim") THEN "look" ELSE "serve"
    <3>1. Steps(r, s) /\ lease' = lease
      BY <1>3, <2>5 DEF Claims
    <3>2. s \in Stages /\ s \notin {"fill", "remove", "again", "clean"}
      BY DEF Stages, Claiming
    <3> HIDE DEF s
    <3>3. /\ runtime' \in [Runtimes -> [at : Stages, owner : 0..MaxBoots, queued : BOOLEAN]]
          /\ runtime'[r].at = s /\ runtime'[r].owner = runtime[r].owner
          /\ runtime'[r].queued = runtime[r].queued
          /\ \A o \in Runtimes \ {r} : runtime'[o] = runtime[o]
      BY <3>1, <3>2, RuntimeSteps
    <3>4. LeaseTyped'
      BY <2>1, <2>2, <3>1, <3>3 DEF LeaseTyped
    <3>5. runtime[r].at \in Claiming /\ ~runtime[r].queued /\ runtime[r].at # "fill"
      BY <1>3 DEF Claims, Claiming
    <3>6. Holders' \subseteq Holders
      BY <3>2, <3>3 DEF Holders
    <3>7. ~excused' => OneHolds' /\ IndexFollows'
      BY <2>1, <2>3, <3>2, <3>3, <3>5, <3>6 DEF OneHolds, IndexFollows
    <3>8. ~excused' => LeaseIsTheirs'
      BY <2>3, <3>1, <3>2, <3>3, <3>5, <3>6 DEF LeaseIsTheirs, Empty
    <3> QED
      BY <3>3, <3>4, <3>5, <3>7, <3>8
  <2> QED
    BY <2>4, <2>5
<1>4. ASSUME NEW r \in Runtimes, Fills(r) PROVE LeaseInv'
  <2>1. /\ runtime' = [runtime EXCEPT ![r].at = "serve", ![r].queued = TRUE]
        /\ runtime[r].at = "fill"
        /\ UNCHANGED <<waiting, indexed, beat, now, boots, starts, excused>>
    BY <1>4 DEF Fills, Is
  <2>2. /\ runtime' \in [Runtimes -> [at : Stages, owner : 0..MaxBoots, queued : BOOLEAN]]
        /\ runtime'[r].at = "serve" /\ runtime'[r].owner = runtime[r].owner
        /\ runtime'[r].queued
        /\ \A o \in Runtimes \ {r} : runtime'[o] = runtime[o]
    BY <2>1 DEF LeaseTyped, Stages
  <2>3. runtime[r].owner \in 0..MaxBoots
    BY DEF LeaseTyped
  <2>4. LeaseTyped'
    BY <1>4, <2>1, <2>2, <2>3, LeaseRecords DEF LeaseTyped, Fills
  <2>5. Holders' = Holders /\ r \in Holders
    BY <2>1, <2>2 DEF Holders
  <2>6. ~excused => OneHolds' /\ IndexFollows'
    BY <2>1, <2>2, <2>5 DEF OneHolds, IndexFollows, Claiming
  <2>7. ~excused => LeaseIsTheirs'
    <3>1. ~excused => lease' = LeaseOf(runtime[r].owner)
      BY <1>4, <2>1 DEF Fills, LeaseIsTheirs
    <3>2. ~excused => \A o \in Runtimes \ {r} :
            runtime'[o].at \notin Claiming /\ ~runtime'[o].queued
      BY <2>1, <2>2, <2>5 DEF OneHolds, Claiming, Holders
    <3>3. LeaseOf(runtime[r].owner).full /\ LeaseOf(runtime[r].owner).owner = runtime[r].owner
      BY <2>3, LeaseRecords
    <3> QED
      BY <2>2, <3>1, <3>2, <3>3 DEF LeaseIsTheirs, Claiming
  <2> QED
    BY <2>1, <2>2, <2>4, <2>6, <2>7
<1>5. ASSUME NEW r \in Runtimes, LooksAtLease(r) PROVE LeaseInv'
  <2>1. /\ UNCHANGED <<lease, waiting, indexed, beat, now, boots, starts>>
        /\ runtime[r].at = "look" /\ runtime[r].at \in Claiming /\ ~runtime[r].queued
        /\ excused' \in BOOLEAN /\ (~excused' => ~excused)
    BY <1>5 DEF LooksAtLease, Is, Claiming, LeaseTyped
  <2>2. PICK s \in {"remove", "serve"} : Steps(r, s) /\ (s = "remove" => Expired(lease))
    BY <1>5 DEF LooksAtLease
  <2>3. "remove" \in Stages /\ "serve" \in Stages
    BY DEF Stages, Claiming
  <2>4. /\ runtime' \in [Runtimes -> [at : Stages, owner : 0..MaxBoots, queued : BOOLEAN]]
        /\ runtime'[r].at = s /\ runtime'[r].owner = runtime[r].owner
        /\ runtime'[r].queued = runtime[r].queued
        /\ \A o \in Runtimes \ {r} : runtime'[o] = runtime[o]
    BY <2>2, <2>3, RuntimeSteps
  <2>5. LeaseTyped'
    BY <2>1, <2>4 DEF LeaseTyped
  <2>6. Holders' = Holders
    BY <2>1, <2>2, <2>4 DEF Holders
  <2>7. ~excused' => OneHolds' /\ IndexFollows'
    BY <2>1, <2>2, <2>4, <2>6 DEF OneHolds, IndexFollows
  \* A holder's lease is full and its owner lives, so it is not taken quietly.
  <2>8. ~excused' /\ s = "remove" => Holders = {}
    <3> SUFFICES ASSUME ~excused', s = "remove", NEW h \in Holders PROVE FALSE
      OBVIOUS
    <3>1. runtime[h].at # "fill"
      BY <2>1 DEF OneHolds, Claiming, Holders
    <3>2. runtime[h].queued /\ runtime[h].at = "serve" /\ h \in Runtimes
      BY <3>1 DEF Holders
    <3>3. lease.full /\ lease.owner = runtime[h].owner
      BY <2>1, <3>2 DEF LeaseIsTheirs
    <3>4. RuntimeAlive(lease.owner)
      BY <3>2, <3>3 DEF RuntimeAlive
    <3>5. lease.expires <= now
      BY <2>2, <3>3 DEF Expired
    <3>6. Expired(lease)
      BY <2>2
    <3> QED
      BY <1>5, <3>4, <3>5, <3>6 DEF LooksAtLease
  <2>9. ~excused' => LeaseIsTheirs'
    BY <2>1, <2>2, <2>4, <2>6, <2>8 DEF LeaseIsTheirs, OneHolds, Claiming, Empty
  <2> QED
    BY <2>1, <2>4, <2>5, <2>7, <2>9
<1>6. ASSUME NEW r \in Runtimes, RemovesLease(r) PROVE LeaseInv'
  <2>1. /\ UNCHANGED <<waiting, indexed, beat, now, boots, starts, excused>>
        /\ runtime[r].at = "remove" /\ ~runtime[r].queued
        /\ Steps(r, "again") /\ lease' = NoLease
    BY <1>6 DEF RemovesLease, Is
  <2>2. "again" \in Stages
    BY DEF Stages, Claiming
  <2>3. /\ runtime' \in [Runtimes -> [at : Stages, owner : 0..MaxBoots, queued : BOOLEAN]]
        /\ runtime'[r].at = "again" /\ runtime'[r].owner = runtime[r].owner
        /\ runtime'[r].queued = runtime[r].queued
        /\ \A o \in Runtimes \ {r} : runtime'[o] = runtime[o]
    BY <2>1, <2>2, RuntimeSteps
  <2>4. LeaseTyped'
    <3>1. 0 \in 0..MaxBoots
      BY LeaseAssumption
    <3> QED
      BY <2>1, <2>3, <3>1, LeaseRecords DEF LeaseTyped
  <2>5. Holders' = Holders
    BY <2>1, <2>3 DEF Holders
  <2>6. ~excused => OneHolds' /\ IndexFollows'
    BY <2>1, <2>3, <2>5 DEF OneHolds, IndexFollows, Claiming
  <2>7. ~excused => Holders = {}
    BY <2>1 DEF LeaseIsTheirs
  <2>8. ~excused => LeaseIsTheirs'
    BY <2>3, <2>5, <2>7 DEF LeaseIsTheirs, Holders
  <2> QED
    BY <2>1, <2>3, <2>4, <2>6, <2>8
<1>7. ASSUME NEW r \in Runtimes, Beats(r) PROVE LeaseInv'
  <2>1. /\ UNCHANGED <<waiting, indexed, runtime, now, boots, starts, excused>>
        /\ runtime[r].at = "serve" /\ runtime[r].queued
        /\ beat' \subseteq Runtimes
        /\ lease' = lease \/ lease' = LeaseOf(runtime[r].owner)
    BY <1>7 DEF Beats, Is, LeaseTyped
  <2>2. runtime[r].owner \in 0..MaxBoots
    BY DEF LeaseTyped
  <2>3. LeaseTyped'
    BY <2>1, <2>2, LeaseRecords DEF LeaseTyped
  <2>4. Holders' = Holders /\ r \in Holders
    BY <2>1 DEF Holders
  <2>5. ~excused => OneHolds' /\ IndexFollows'
    BY <2>1, <2>4 DEF OneHolds, IndexFollows
  <2>6. ~excused => LeaseIsTheirs'
    BY <2>1, <2>2, <2>4, LeaseRecords DEF LeaseIsTheirs, OneHolds, Holders, Empty
  <2> QED
    BY <2>1, <2>3, <2>5, <2>6
<1>8. ASSUME NEW r \in Runtimes, Starts(r) PROVE LeaseInv'
  <2>1. /\ UNCHANGED <<lease, waiting, now, boots, excused>>
        /\ runtime[r].at = "serve" /\ runtime[r].queued
        /\ runtime' = [runtime EXCEPT ![r].at = "clean", ![r].queued = FALSE]
        /\ starts' = starts + 1 /\ indexed' = "running" /\ beat' \subseteq Runtimes
    BY <1>8 DEF Starts, Is, LeaseTyped
  <2>2. /\ runtime' \in [Runtimes -> [at : Stages, owner : 0..MaxBoots, queued : BOOLEAN]]
        /\ runtime'[r].at = "clean" /\ ~runtime'[r].queued
        /\ \A o \in Runtimes \ {r} : runtime'[o] = runtime[o]
    BY <2>1 DEF LeaseTyped, Stages
  <2>3. LeaseTyped'
    BY <2>1, <2>2 DEF LeaseTyped
  <2>4. r \in Holders /\ Holders' = Holders \ {r}
    BY <2>1, <2>2 DEF Holders
  <2>5. ~excused => OneHolds' /\ IndexFollows'
    BY <2>1, <2>2, <2>4 DEF OneHolds, IndexFollows, Claiming, LeaseTyped
  <2>6. ~excused => LeaseIsTheirs'
    BY <2>1, <2>2, <2>4 DEF LeaseIsTheirs, Empty
  <2> QED
    BY <2>1, <2>2, <2>3, <2>5, <2>6
<1>9. ASSUME NEW r \in Runtimes, Cleans(r) PROVE LeaseInv'
  <2>1. /\ UNCHANGED <<indexed, beat, now, boots, starts, excused>>
        /\ runtime[r].at = "clean" /\ ~runtime[r].queued
        /\ Steps(r, "serve") /\ lease' = NoLease /\ waiting' = FALSE
    BY <1>9 DEF Cleans, Is
  <2>2. "serve" \in Stages
    BY DEF Stages
  <2>3. /\ runtime' \in [Runtimes -> [at : Stages, owner : 0..MaxBoots, queued : BOOLEAN]]
        /\ runtime'[r].at = "serve" /\ runtime'[r].owner = runtime[r].owner
        /\ runtime'[r].queued = runtime[r].queued
        /\ \A o \in Runtimes \ {r} : runtime'[o] = runtime[o]
    BY <2>1, <2>2, RuntimeSteps
  <2>4. LeaseTyped'
    <3>1. 0 \in 0..MaxBoots
      BY LeaseAssumption
    <3> QED
      BY <2>1, <2>3, <3>1, LeaseRecords DEF LeaseTyped
  <2>5. Holders' = Holders
    BY <2>1, <2>3 DEF Holders
  <2>6. ~excused => OneHolds' /\ IndexFollows'
    BY <2>1, <2>3, <2>5 DEF OneHolds, IndexFollows, Claiming
  <2>7. ~excused => Holders = {}
    BY <2>1 DEF OneHolds, IndexFollows
  <2>8. ~excused => LeaseIsTheirs'
    BY <2>3, <2>5, <2>7 DEF LeaseIsTheirs, Holders
  <2> QED
    BY <2>1, <2>3, <2>4, <2>6, <2>8
<1>10. ASSUME NEW r \in Runtimes, Crashes(r) PROVE LeaseInv'
  <2>1. /\ UNCHANGED <<lease, waiting, indexed, now, boots, starts, excused>>
        /\ runtime' = [runtime EXCEPT ![r] = Down] /\ beat' \subseteq Runtimes
    BY <1>10 DEF Crashes, LeaseTyped
  <2>2. Down \in [at : Stages, owner : 0..MaxBoots, queued : BOOLEAN]
    BY LeaseAssumption DEF Down, Stages
  <2>3. /\ runtime' \in [Runtimes -> [at : Stages, owner : 0..MaxBoots, queued : BOOLEAN]]
        /\ runtime'[r].at = "down" /\ ~runtime'[r].queued
        /\ \A o \in Runtimes \ {r} : runtime'[o] = runtime[o]
    BY <2>1, <2>2 DEF LeaseTyped, Down
  <2>4. LeaseTyped'
    BY <2>1, <2>3 DEF LeaseTyped
  <2>5. Holders' \subseteq Holders
    BY <2>3 DEF Holders
  <2>6. ~excused => OneHolds' /\ IndexFollows'
    BY <2>1, <2>3, <2>5 DEF OneHolds, IndexFollows, Claiming
  <2>7. ~excused => LeaseIsTheirs'
    BY <2>1, <2>3, <2>5 DEF LeaseIsTheirs, Empty
  <2> QED
    BY <2>1, <2>3, <2>4, <2>6, <2>7
<1>11. CASE LeaseTick
  <2>1. UNCHANGED <<lease, waiting, indexed, runtime, beat, boots, starts, excused>>
    BY <1>11 DEF LeaseTick
  <2>2. LeaseTyped'
    BY <1>11, <2>1, LeaseAssumption DEF LeaseTyped, LeaseTick
  <2>3. Holders' = Holders
    BY <2>1 DEF Holders
  <2> QED
    BY <2>1, <2>2, <2>3 DEF OneHolds, IndexFollows, LeaseIsTheirs, Empty
<1>12. CASE UNCHANGED leaseVars
  <2>1. Holders' = Holders
    BY <1>12 DEF Holders, leaseVars
  <2> QED
    BY <1>12, <2>1 DEF leaseVars, LeaseTyped, OneHolds, IndexFollows, LeaseIsTheirs, Empty
<1> QED
  BY <1>1, <1>2, <1>3, <1>4, <1>5, <1>6, <1>7, <1>8, <1>9, <1>10, <1>11, <1>12 DEF LeaseNext

LEMMA LeaseInvHolds == LeaseSpec => []LeaseInv
  BY LeaseInitInv, LeaseNextInv, PTL DEF LeaseSpec

\* A lease file, a queue entry and a job index only hold what claim, heartbeat
\* and start write there.
THEOREM LeaseTypeCorrect == LeaseSpec => []LeaseTypeOK
<1>1. LeaseInv => LeaseTypeOK
  BY DEF LeaseInv, LeaseTyped, LeaseTypeOK, Stages
<1> QED
  BY <1>1, LeaseInvHolds, PTL

\* Over any number of starts and kills of runtimes a queued turn is started
\* once, unless the lease of a live runtime ran out, two recoveries overlapped
\* or one went on with what it had read before the turn was started.
THEOREM TurnIsStartedOnce == LeaseSpec => []StartedByOne
<1>1. LeaseInv => StartedByOne
  BY DEF LeaseInv, IndexFollows, StartedByOne
<1> QED
  BY <1>1, LeaseInvHolds, PTL

-----------------------------------------------------------------------------
(* The state file.                                                         *)

Files == {"state", "tmp"} \cup Savers
Contents == (SUBSET Changes) \cup {Mixed, Blank}
Points == {"away", "count", "record", "create", "fill", "aside", "place", "remove"}

FilesTyped ==
  /\ inode \in Seq(Contents)
  /\ name \in [Files -> Nat] /\ \A f \in Files : name[f] <= Len(inode)
  /\ left \subseteq 1..Len(inode)
  /\ numbers \in Seq(Nat)
  /\ saver \in [Savers -> [at : Points, change : 0..MaxSaves, copy : SUBSET Changes,
                           fd : Nat, number : Nat]]
  /\ \A t \in Savers : /\ ~Stands(t, "away") => saver[t].change # 0
                       /\ Stands(t, "fill") => saver[t].fd \in 1..Len(inode)
  /\ begun \in 0..MaxSaves /\ deaths \in 0..MaxDeaths
  /\ saved \subseteq Changes /\ overlapped \in BOOLEAN

OnlyOne == \A t, o \in Savers : ~Stands(t, "away") /\ ~Stands(o, "away") => t = o

\* What is written next is no file anybody looks into.
TmpIsApart == name["tmp"] = 0 \/ name["tmp"] \notin Reachable

\* What a saver relies on at each point of its save.
KnowsItsFiles(t) ==
  /\ saver[t].at \notin {"place", "remove"} => name[t] = 0
  /\ saver[t].at \in {"count", "record", "create", "fill", "aside"} /\ name["state"] # 0
       => saver[t].copy = Content("state")
  /\ Stands(t, "record") => saver[t].number = Len(numbers) + 1
  /\ Stands(t, "fill") => /\ name["tmp"] # 0 /\ saver[t].fd = name["tmp"]
                          /\ Content("tmp") = Blank
  /\ saver[t].at \in {"aside", "place"} =>
       name["tmp"] # 0 /\ Content("tmp") = saver[t].copy \cup {saver[t].change}
  /\ Stands(t, "aside") => name["state"] # 0
  /\ Stands(t, "place") => name["state"] = 0
  /\ saver[t].at \in {"place", "remove"} /\ name[t] # 0 => inode[name[t]] = saver[t].copy
  /\ Stands(t, "remove") =>
       name["state"] # 0 /\ Content("state") = saver[t].copy \cup {saver[t].change}

StateIsWhole == name["state"] # 0 => Whole(Content("state"))
SavedIsThere == \A c \in saved : \E i \in Reachable : c \in inode[i]
NumbersFollow == \A i \in 1..Len(numbers) : numbers[i] = i

OneAtATime ==
  /\ OnlyOne /\ TmpIsApart /\ \A t \in Savers : KnowsItsFiles(t)
  /\ StateIsWhole /\ SavedIsThere /\ NumbersFollow

FilesInv == FilesTyped /\ (~overlapped => OneAtATime)

LEMMA NamesAreApart ==
  /\ "state" \in Files /\ "tmp" \in Files /\ Savers \subseteq Files
  /\ "state" \notin Savers /\ "tmp" \notin Savers
  BY SessionFilesAssumption DEF Files

\* One saver goes on; the others stay where they are.
LEMMA SaverMoves ==
  ASSUME FilesTyped, NEW t \in Savers, NEW p \in Points \ {"away", "fill"},
         saver[t].at # "away", Moves(t, p), Len(inode') = Len(inode)
  PROVE  /\ saver' \in [Savers -> [at : Points, change : 0..MaxSaves, copy : SUBSET Changes,
                                   fd : Nat, number : Nat]]
         /\ saver'[t].at = p /\ saver'[t].change = saver[t].change
         /\ saver'[t].copy = saver[t].copy /\ saver'[t].number = saver[t].number
         /\ \A o \in Savers \ {t} : saver'[o] = saver[o]
         /\ (\A o \in Savers : /\ ~Stands(o, "away") => saver[o].change # 0
                               /\ Stands(o, "fill") => saver[o].fd \in 1..Len(inode))'
  BY DEF FilesTyped, Moves, Stands

LEMMA SaverReturns ==
  ASSUME FilesTyped, NEW t \in Savers, saver' = [saver EXCEPT ![t] = Away],
         Len(inode') = Len(inode)
  PROVE  /\ saver' \in [Savers -> [at : Points, change : 0..MaxSaves, copy : SUBSET Changes,
                                   fd : Nat, number : Nat]]
         /\ saver'[t].at = "away"
         /\ \A o \in Savers \ {t} : saver'[o] = saver[o]
         /\ (\A o \in Savers : /\ ~Stands(o, "away") => saver[o].change # 0
                               /\ Stands(o, "fill") => saver[o].fd \in 1..Len(inode))'
<1>1. Away \in [at : Points, change : 0..MaxSaves, copy : SUBSET Changes, fd : Nat, number : Nat]
  BY SessionFilesAssumption DEF Away, Points
<1>2. Away.at = "away"
  BY DEF Away
<1> QED
  BY <1>1, <1>2 DEF FilesTyped, Stands

\* Whoever is not at it relies on nothing but that nothing of it is aside.
LEMMA AwayKnows ==
  ASSUME NEW t \in Savers, saver[t].at = "away", name[t] = 0
  PROVE  KnowsItsFiles(t)
  BY DEF KnowsItsFiles, Stands

\* The others of a saver that is alone, after a step of it.
LEMMA OthersKnow ==
  ASSUME NEW t \in Savers,
         \A o \in Savers \ {t} : saver'[o].at = "away" /\ name'[o] = 0, KnowsItsFiles(t)'
  PROVE  OnlyOne' /\ \A o \in Savers : KnowsItsFiles(o)'
<1>1. OnlyOne'
  BY DEF OnlyOne, Stands
<1>2. ASSUME NEW o \in Savers \ {t} PROVE KnowsItsFiles(o)'
  BY <1>2 DEF KnowsItsFiles, Stands
<1> QED
  BY <1>1, <1>2

\* While a saver is at it alone, nobody else has anything aside.
LEMMA OthersAreAway ==
  ASSUME OneAtATime, NEW t \in Savers, ~Stands(t, "away")
  PROVE  \A o \in Savers \ {t} : saver[o].at = "away" /\ name[o] = 0
  BY DEF OneAtATime, OnlyOne, KnowsItsFiles, Stands

LEMMA FilesInitInv == FilesInit => FilesInv
<1> SUFFICES ASSUME FilesInit PROVE FilesInv
  OBVIOUS
<1>1. /\ inode \in Seq(Contents) /\ Len(inode) = 1 /\ inode[1] = {}
      /\ numbers \in Seq(Nat) /\ Len(numbers) = 0
  <2>1. {} \in Contents
    BY DEF Contents
  <2> QED
    BY <2>1 DEF FilesInit
<1>2. /\ name \in [Files -> Nat] /\ name["state"] = 1 /\ name["tmp"] = 0
      /\ \A t \in Savers : name[t] = 0
      /\ \A f \in Files : name[f] \in {0, 1}
  BY NamesAreApart DEF FilesInit, Files
<1>3. Away \in [at : Points, change : 0..MaxSaves, copy : SUBSET Changes, fd : Nat, number : Nat]
  BY SessionFilesAssumption DEF Away, Points
<1>4. /\ saver \in [Savers -> [at : Points, change : 0..MaxSaves, copy : SUBSET Changes,
                               fd : Nat, number : Nat]]
      /\ \A t \in Savers : saver[t].at = "away"
  BY <1>3 DEF FilesInit, Away
<1>5. FilesTyped
  <2>1. \A f \in Files : name[f] <= Len(inode)
    BY <1>1, <1>2
  <2>2. /\ left \subseteq 1..Len(inode) /\ saved \subseteq Changes /\ overlapped \in BOOLEAN
        /\ begun \in 0..MaxSaves /\ deaths \in 0..MaxDeaths
    <3>1. begun = 0 /\ deaths = 0 /\ left = {} /\ saved = {} /\ overlapped = FALSE
      BY DEF FilesInit
    <3>2. 0 \in 0..MaxSaves /\ 0 \in 0..MaxDeaths
      BY SessionFilesAssumption
    <3> QED
      BY <3>1, <3>2
  <2>3. \A t \in Savers : /\ ~Stands(t, "away") => saver[t].change # 0
                          /\ Stands(t, "fill") => saver[t].fd \in 1..Len(inode)
    BY <1>4 DEF Stands
  <2> QED
    BY <1>1, <1>2, <1>4, <2>1, <2>2, <2>3 DEF FilesTyped
<1>6. OnlyOne /\ TmpIsApart /\ StateIsWhole /\ SavedIsThere /\ NumbersFollow
  BY <1>1, <1>2, <1>4 DEF FilesInit, OnlyOne, TmpIsApart, StateIsWhole, SavedIsThere,
                          NumbersFollow, Stands, Content, Whole
<1>7. \A t \in Savers : KnowsItsFiles(t)
  BY <1>2, <1>4, AwayKnows
<1> QED
  BY <1>5, <1>6, <1>7 DEF FilesInv, OneAtATime

\* A step that touches no file keeps what is said of the files.
LEMMA FilesStayPut ==
  ASSUME OneAtATime, UNCHANGED <<inode, name, left, saved>>
  PROVE  TmpIsApart' /\ StateIsWhole' /\ SavedIsThere'
  BY DEF OneAtATime, TmpIsApart, StateIsWhole, SavedIsThere, Reachable, Content

LEMMA LoadKeeps == ASSUME FilesInv, NEW t \in Savers, LoadState(t) PROVE FilesInv'
<1> USE DEF FilesInv
<1>1. /\ UNCHANGED <<inode, name, left, numbers, deaths, saved>>
      /\ begun' = begun + 1 /\ begun < MaxSaves /\ saver[t].at = "away"
  BY DEF LoadState, StateKept, Stands
<1>2. /\ overlapped' \in BOOLEAN
      /\ ~overlapped' => ~overlapped /\ \A o \in Savers \ {t} : saver[o].at = "away"
  BY DEF LoadState, FilesTyped, Stands
<1>3. begun' \in 1..MaxSaves
  <2>1. begun \in 0..MaxSaves /\ MaxSaves \in Nat
    BY SessionFilesAssumption DEF FilesTyped
  <2> QED
    BY <1>1, <2>1
<1>4. CASE name["state"] # 0 /\ ~Whole(Content("state"))
  <2>1. saver' = [saver EXCEPT ![t] = Away]
    BY <1>4 DEF LoadState
  <2>2. /\ saver' \in [Savers -> [at : Points, change : 0..MaxSaves, copy : SUBSET Changes,
                                  fd : Nat, number : Nat]]
        /\ saver'[t].at = "away"
        /\ \A o \in Savers \ {t} : saver'[o] = saver[o]
        /\ (\A o \in Savers : /\ ~Stands(o, "away") => saver[o].change # 0
                              /\ Stands(o, "fill") => saver[o].fd \in 1..Len(inode))'
    BY <1>1, <2>1, SaverReturns
  <2>3. FilesTyped'
    BY <1>1, <1>2, <1>3, <2>2 DEF FilesTyped
  <2>4. ~overlapped' => OneAtATime'
    BY <1>2, <1>4 DEF OneAtATime, StateIsWhole
  <2> QED
    BY <2>3, <2>4
<1>5. CASE ~(name["state"] # 0 /\ ~Whole(Content("state")))
  <2> DEFINE c == IF name["state"] = 0 THEN {} ELSE Content("state")
  <2>1. c \in SUBSET Changes
    BY <1>5 DEF Whole
  <2>2. saver' = [saver EXCEPT ![t] = [at |-> "count", change |-> begun', copy |-> c,
                                       fd |-> 0, number |-> 0]]
    BY <1>5 DEF LoadState
  <2>3. name["state"] # 0 => c = Content("state")
    OBVIOUS
  <2> HIDE DEF c
  <2>4. [at |-> "count", change |-> begun', copy |-> c, fd |-> 0, number |-> 0]
          \in [at : Points, change : 0..MaxSaves, copy : SUBSET Changes, fd : Nat, number : Nat]
    BY <1>3, <2>1 DEF Points
  <2>5. /\ saver' \in [Savers -> [at : Points, change : 0..MaxSaves, copy : SUBSET Changes,
                                  fd : Nat, number : Nat]]
        /\ saver'[t].at = "count" /\ saver'[t].change = begun' /\ saver'[t].copy = c
        /\ \A o \in Savers \ {t} : saver'[o] = saver[o]
    BY <2>2, <2>4 DEF FilesTyped
  <2>6. (\A o \in Savers : /\ ~Stands(o, "away") => saver[o].change # 0
                           /\ Stands(o, "fill") => saver[o].fd \in 1..Len(inode))'
    <3>1. inode' = inode /\ begun' # 0
      BY <1>1, <1>3
    <3> QED
      BY <2>5, <3>1 DEF FilesTyped, Stands
  <2>7. FilesTyped'
    BY <1>1, <1>2, <1>3, <2>5, <2>6 DEF FilesTyped
  <2>8. ASSUME ~overlapped' PROVE OneAtATime'
    <3>1. OneAtATime /\ \A o \in Savers : saver[o].at = "away"
      BY <1>1, <1>2, <2>8
    <3>2. \A o \in Savers : name[o] = 0
      BY <3>1 DEF OneAtATime, KnowsItsFiles
    <3>3. \A o \in Savers \ {t} : saver'[o].at = "away" /\ name'[o] = 0
      BY <1>1, <2>5, <3>1, <3>2
    <3>4. KnowsItsFiles(t)'
      BY <1>1, <2>3, <2>5, <3>2 DEF KnowsItsFiles, Stands, Content
    <3>5. OnlyOne' /\ \A o \in Savers : KnowsItsFiles(o)'
      BY <3>3, <3>4, OthersKnow
    <3>6. TmpIsApart' /\ StateIsWhole' /\ SavedIsThere'
      BY <1>1, <3>1, FilesStayPut
    <3>7. NumbersFollow'
      BY <1>1, <3>1 DEF OneAtATime, NumbersFollow
    <3> QED
      BY <3>5, <3>6, <3>7 DEF OneAtATime
  <2> QED
    BY <2>7, <2>8
<1> QED
  BY <1>4, <1>5

LEMMA EventKeeps ==
  ASSUME FilesInv, NEW t \in Savers, CountEvents(t) \/ RecordEvent(t)
  PROVE  FilesInv'
<1> USE DEF FilesInv
<1>1. UNCHANGED <<inode, name, left, begun, deaths, saved, overlapped>>
  BY DEF CountEvents, RecordEvent, StateKept, GhostsKept
<1>2. CASE CountEvents(t)
  <2>1. /\ saver[t].at = "count" /\ numbers' = numbers
        /\ saver' = [saver EXCEPT ![t].at = "record", ![t].number = Len(numbers) + 1]
    BY <1>2 DEF CountEvents, Stands
  <2>2. Len(numbers) + 1 \in Nat
    BY DEF FilesTyped
  <2>3. /\ saver' \in [Savers -> [at : Points, change : 0..MaxSaves, copy : SUBSET Changes,
                                  fd : Nat, number : Nat]]
        /\ saver'[t].at = "record" /\ saver'[t].number = Len(numbers) + 1
        /\ saver'[t].copy = saver[t].copy /\ saver'[t].change = saver[t].change
        /\ \A o \in Savers \ {t} : saver'[o] = saver[o]
    BY <2>1, <2>2 DEF FilesTyped, Points
  <2>4. (\A o \in Savers : /\ ~Stands(o, "away") => saver[o].change # 0
                           /\ Stands(o, "fill") => saver[o].fd \in 1..Len(inode))'
    BY <1>1, <2>1, <2>3 DEF FilesTyped, Stands
  <2>5. FilesTyped'
    BY <1>1, <2>1, <2>3, <2>4 DEF FilesTyped
  <2>6. ASSUME ~overlapped PROVE OneAtATime'
    <3>1. OneAtATime
      BY <2>6
    <3>2. \A o \in Savers \ {t} : saver'[o].at = "away" /\ name'[o] = 0
      BY <1>1, <2>1, <2>3, <3>1, OthersAreAway DEF Stands
    <3>3. KnowsItsFiles(t)'
      BY <1>1, <2>1, <2>3, <3>1 DEF OneAtATime, KnowsItsFiles, Stands, Content
    <3>4. OnlyOne' /\ \A o \in Savers : KnowsItsFiles(o)'
      BY <3>2, <3>3, OthersKnow
    <3>5. TmpIsApart' /\ StateIsWhole' /\ SavedIsThere'
      BY <1>1, <3>1, FilesStayPut
    <3> QED
      BY <2>1, <3>1, <3>4, <3>5 DEF OneAtATime, NumbersFollow
  <2> QED
    BY <1>1, <2>5, <2>6
<1>3. CASE RecordEvent(t)
  <2>1. /\ saver[t].at = "record" /\ numbers' = Append(numbers, saver[t].number)
        /\ Moves(t, "create")
    BY <1>3 DEF RecordEvent, Stands
  <2>2. numbers \in Seq(Nat) /\ saver[t].number \in Nat
    BY DEF FilesTyped
  <2>3. /\ numbers' \in Seq(Nat) /\ Len(numbers') = Len(numbers) + 1
        /\ \A i \in 1..Len(numbers) : numbers'[i] = numbers[i]
        /\ numbers'[Len(numbers) + 1] = saver[t].number
    BY <2>1, <2>2, AppendProperties
  <2>4. /\ saver' \in [Savers -> [at : Points, change : 0..MaxSaves, copy : SUBSET Changes,
                                  fd : Nat, number : Nat]]
        /\ saver'[t].at = "create" /\ saver'[t].copy = saver[t].copy
        /\ saver'[t].change = saver[t].change
        /\ \A o \in Savers \ {t} : saver'[o] = saver[o]
        /\ (\A o \in Savers : /\ ~Stands(o, "away") => saver[o].change # 0
                              /\ Stands(o, "fill") => saver[o].fd \in 1..Len(inode))'
    <3>1. "create" \in Points \ {"away", "fill"} /\ Len(inode') = Len(inode)
      BY <1>1 DEF Points
    <3> QED
      BY <2>1, <3>1, SaverMoves
  <2>5. FilesTyped'
    BY <1>1, <2>3, <2>4 DEF FilesTyped
  <2>6. ASSUME ~overlapped PROVE OneAtATime'
    <3>1. OneAtATime
      BY <2>6
    <3>2. \A o \in Savers \ {t} : saver'[o].at = "away" /\ name'[o] = 0
      BY <1>1, <2>1, <2>4, <3>1, OthersAreAway DEF Stands
    <3>3. KnowsItsFiles(t)'
      BY <1>1, <2>1, <2>4, <3>1 DEF OneAtATime, KnowsItsFiles, Stands, Content
    <3>4. OnlyOne' /\ \A o \in Savers : KnowsItsFiles(o)'
      BY <3>2, <3>3, OthersKnow
    <3>5. TmpIsApart' /\ StateIsWhole' /\ SavedIsThere'
      BY <1>1, <3>1, FilesStayPut
    <3>6. NumbersFollow'
      <4>1. saver[t].number = Len(numbers) + 1
        BY <2>1, <3>1 DEF OneAtATime, KnowsItsFiles, Stands
      <4> QED
        BY <2>2, <2>3, <3>1, <4>1 DEF OneAtATime, NumbersFollow
    <3> QED
      BY <3>4, <3>5, <3>6 DEF OneAtATime
  <2> QED
    BY <1>1, <2>5, <2>6
<1> QED
  BY <1>2, <1>3

LEMMA WhoIsReachable ==
  /\ \A i : i \in Reachable <=> /\ i # 0
                                /\ i = name["state"] \/ i \in left \/ \E o \in Savers : i = name[o]
  /\ \A i : i \in Reachable' <=> /\ i # 0
                                 /\ i = name'["state"] \/ i \in left' \/ \E o \in Savers : i = name'[o]
  BY DEF Reachable

LEMMA ReachableFiles == ASSUME FilesTyped PROVE Reachable \subseteq 1..Len(inode)
<1>1. \A f \in Files : name[f] # 0 => name[f] \in 1..Len(inode)
  <2>1. Len(inode) \in Nat
    BY DEF FilesTyped
  <2> QED
    BY <2>1 DEF FilesTyped
<1>2. /\ name["state"] # 0 => name["state"] \in 1..Len(inode)
      /\ \A o \in Savers : name[o] # 0 => name[o] \in 1..Len(inode)
  BY <1>1, NamesAreApart
<1>3. left \subseteq 1..Len(inode)
  BY DEF FilesTyped
<1>4. ASSUME NEW i \in Reachable PROVE i \in 1..Len(inode)
  <2>1. i # 0 /\ (i = name["state"] \/ i \in left \/ \E o \in Savers : i = name[o])
    BY <1>4, WhoIsReachable
  <2> QED
    BY <1>2, <1>3, <2>1
<1> QED
  BY <1>4

\* Of the file that is written next nobody but its writer knows.
LEMMA TmpKeeps ==
  ASSUME OneAtATime, NEW t \in Savers,
         \A o \in Savers \ {t} : saver[o].at = "away" /\ name[o] = 0,
         UNCHANGED <<left, saved>>, \A f \in {"state"} \cup Savers : name'[f] = name[f],
         name'["tmp"] # 0, name'["tmp"] \notin Reachable,
         \A i \in Reachable : inode'[i] = inode[i]
  PROVE  TmpIsApart' /\ StateIsWhole' /\ SavedIsThere'
<1>1. Reachable' = Reachable
  <2>1. name'["state"] = name["state"] /\ \A o \in Savers : name'[o] = name[o]
    OBVIOUS
  <2>2. \A i : i \in Reachable' <=> i \in Reachable
    BY <2>1, WhoIsReachable
  <2> QED
    BY <2>2
<1>2. name["state"] # 0 => name["state"] \in Reachable
  BY DEF Reachable
<1> QED
  BY <1>1, <1>2 DEF OneAtATime, TmpIsApart, StateIsWhole, SavedIsThere, Content

LEMMA CreateKeeps == ASSUME FilesInv, NEW t \in Savers, CreateTmp(t) PROVE FilesInv'
<1> USE DEF FilesInv
<1>1. /\ UNCHANGED <<left, numbers, begun, deaths, saved, overlapped>>
      /\ saver[t].at = "create"
      /\ saver' = [saver EXCEPT ![t].at = "fill", ![t].fd = name'["tmp"]]
  BY DEF CreateTmp, Stands, GhostsKept
<1>2. inode \in Seq(Contents) /\ Blank \in Contents /\ Len(inode) \in Nat
  BY DEF FilesTyped, Contents
<1>3. /\ inode' \in Seq(Contents) /\ Len(inode') >= Len(inode)
      /\ name' \in [Files -> Nat] /\ name'["tmp"] \in 1..Len(inode')
      /\ \A f \in Files \ {"tmp"} : name'[f] = name[f]
      /\ inode'[name'["tmp"]] = Blank
      /\ \A i \in 1..Len(inode) : i # name'["tmp"] => inode'[i] = inode[i]
      /\ name'["tmp"] = name["tmp"] \/ name'["tmp"] = Len(inode) + 1
  <2>1. CASE name["tmp"] = 0
    <3>1. inode' = Append(inode, Blank) /\ name' = [name EXCEPT !["tmp"] = Len(inode')]
      BY <2>1 DEF CreateTmp
    <3>2. /\ inode' \in Seq(Contents) /\ Len(inode') = Len(inode) + 1
          /\ \A i \in 1..Len(inode) : inode'[i] = inode[i]
          /\ inode'[Len(inode) + 1] = Blank
      BY <1>2, <3>1, AppendProperties
    <3>3. /\ name' \in [Files -> Nat] /\ name'["tmp"] = Len(inode) + 1
          /\ \A f \in Files \ {"tmp"} : name'[f] = name[f]
      BY <1>2, <3>1, <3>2, NamesAreApart DEF FilesTyped
    <3> QED
      BY <1>2, <3>2, <3>3
  <2>2. CASE name["tmp"] # 0
    <3>1. inode' = [inode EXCEPT ![name["tmp"]] = Blank] /\ name' = name
      BY <2>2 DEF CreateTmp
    <3>2. name["tmp"] \in 1..Len(inode)
      BY <1>2, <2>2, NamesAreApart DEF FilesTyped
    <3>3. /\ inode' \in Seq(Contents) /\ Len(inode') = Len(inode)
          /\ \A j \in 1..Len(inode) : inode'[j] = IF j = name["tmp"] THEN Blank ELSE inode[j]
      BY <1>2, <3>1, <3>2, ExceptSeq
    <3> QED
      BY <1>2, <3>1, <3>2, <3>3 DEF FilesTyped
  <2> QED
    BY <2>1, <2>2
<1>4. name'["tmp"] \in Nat
  BY <1>3
<1>5. /\ saver' \in [Savers -> [at : Points, change : 0..MaxSaves, copy : SUBSET Changes,
                                fd : Nat, number : Nat]]
      /\ saver'[t].at = "fill" /\ saver'[t].fd = name'["tmp"]
      /\ saver'[t].copy = saver[t].copy /\ saver'[t].change = saver[t].change
      /\ \A o \in Savers \ {t} : saver'[o] = saver[o]
  BY <1>1, <1>4 DEF FilesTyped, Points
<1>6. FilesTyped'
  <2>1. \A f \in Files : name'[f] <= Len(inode')
    <3>1. \A f \in Files \ {"tmp"} : name[f] \in Nat /\ name[f] <= Len(inode)
      BY DEF FilesTyped
    <3> QED
      BY <1>2, <1>3, <3>1
  <2>2. left' \subseteq 1..Len(inode')
    BY <1>1, <1>2, <1>3 DEF FilesTyped
  <2>3. (\A o \in Savers : /\ ~Stands(o, "away") => saver[o].change # 0
                           /\ Stands(o, "fill") => saver[o].fd \in 1..Len(inode))'
    <3>1. 1..Len(inode) \subseteq 1..Len(inode')
      BY <1>2, <1>3
    <3>2. saver'[t].change # 0 /\ saver'[t].fd \in 1..Len(inode')
      BY <1>1, <1>3, <1>5 DEF FilesTyped, Stands
    <3>3. ASSUME NEW o \in Savers \ {t}
          PROVE  (/\ ~Stands(o, "away") => saver[o].change # 0
                  /\ Stands(o, "fill") => saver[o].fd \in 1..Len(inode))'
      BY <1>5, <3>1, <3>3 DEF FilesTyped, Stands
    <3> QED
      BY <3>2, <3>3 DEF Stands
  <2> QED
    BY <1>1, <1>3, <1>5, <2>1, <2>2, <2>3 DEF FilesTyped
<1>7. ASSUME ~overlapped PROVE OneAtATime'
  <2>1. OneAtATime
    BY <1>7
  <2>2. \A o \in Savers \ {t} : saver[o].at = "away" /\ name[o] = 0
    BY <1>1, <2>1, OthersAreAway DEF Stands
  <2>3. \A f \in {"state"} \cup Savers : name'[f] = name[f]
    BY <1>3, NamesAreApart
  <2>4. Reachable \subseteq 1..Len(inode)
    BY ReachableFiles
  <2>5. name'["tmp"] # 0 /\ name'["tmp"] \notin Reachable
    <3>1. Len(inode) + 1 \notin Reachable
      BY <1>2, <2>4
    <3>2. name["tmp"] # 0 => name["tmp"] \notin Reachable
      BY <2>1 DEF OneAtATime, TmpIsApart
    <3> QED
      BY <1>3, <3>1, <3>2
  <2>6. \A i \in Reachable : inode'[i] = inode[i]
    BY <1>3, <2>4, <2>5
  <2>7. TmpIsApart' /\ StateIsWhole' /\ SavedIsThere'
    BY <1>1, <2>1, <2>2, <2>3, <2>5, <2>6, TmpKeeps
  <2>8. \A o \in Savers \ {t} : saver'[o].at = "away" /\ name'[o] = 0
    BY <1>5, <2>2, <2>3
  <2>9. KnowsItsFiles(t)'
    <3>1. name["state"] # 0 => inode'[name["state"]] = inode[name["state"]]
      BY <2>6 DEF Reachable
    <3>2. name["state"] # 0 => saver[t].copy = inode[name["state"]]
      BY <1>1, <2>1 DEF OneAtATime, KnowsItsFiles, Content
    <3>3. name[t] = 0
      BY <1>1, <2>1 DEF OneAtATime, KnowsItsFiles
    <3> QED
      BY <1>3, <1>5, <2>3, <2>5, <3>1, <3>2, <3>3 DEF KnowsItsFiles, Stands, Content
  <2>10. OnlyOne' /\ \A o \in Savers : KnowsItsFiles(o)'
    BY <2>8, <2>9, OthersKnow
  <2> QED
    BY <1>1, <2>1, <2>7, <2>10 DEF OneAtATime, NumbersFollow
<1> QED
  BY <1>1, <1>6, <1>7

LEMMA FillKeeps == ASSUME FilesInv, NEW t \in Savers, FillTmp(t) PROVE FilesInv'
<1> USE DEF FilesInv
<1> DEFINE mine == saver[t].copy \cup {saver[t].change}
           to == IF name["state"] # 0 THEN "aside" ELSE "place"
<1>1. /\ UNCHANGED <<name, left, numbers, begun, deaths, saved, overlapped>>
      /\ saver[t].at = "fill" /\ Moves(t, to)
  BY DEF FillTmp, Stands, GhostsKept
<1>2. PICK content \in {mine, Mixed} :
        /\ inode' = [inode EXCEPT ![saver[t].fd] = content]
        /\ inode[saver[t].fd] = Blank => content = mine
  BY DEF FillTmp
<1>3. inode \in Seq(Contents) /\ Len(inode) \in Nat /\ saver[t].fd \in 1..Len(inode)
  BY <1>1 DEF FilesTyped, Stands
<1>4. mine \subseteq Changes /\ mine # Blank
  <2>1. saver[t].copy \subseteq 1..MaxSaves /\ saver[t].change \in 1..MaxSaves
    BY <1>1 DEF FilesTyped, Stands, Changes
  <2> QED
    BY <2>1 DEF Changes, Blank
<1>5. content \in Contents
  BY <1>4 DEF Contents
<1>6. /\ inode' \in Seq(Contents) /\ Len(inode') = Len(inode)
      /\ \A j \in 1..Len(inode) : inode'[j] = IF j = saver[t].fd THEN content ELSE inode[j]
  BY <1>2, <1>3, <1>5, ExceptSeq
<1>7. to \in {"aside", "place"} /\ (to = "aside" <=> name["state"] # 0)
  OBVIOUS
<1> HIDE DEF to
<1>8. /\ saver' \in [Savers -> [at : Points, change : 0..MaxSaves, copy : SUBSET Changes,
                                fd : Nat, number : Nat]]
      /\ saver'[t].at = to /\ saver'[t].copy = saver[t].copy
      /\ saver'[t].change = saver[t].change
      /\ \A o \in Savers \ {t} : saver'[o] = saver[o]
      /\ (\A o \in Savers : /\ ~Stands(o, "away") => saver[o].change # 0
                            /\ Stands(o, "fill") => saver[o].fd \in 1..Len(inode))'
  <2>1. to \in Points \ {"away", "fill"} /\ saver[t].at # "away"
    BY <1>1, <1>7 DEF Points
  <2> QED
    BY <1>1, <1>6, <2>1, SaverMoves
<1>9. FilesTyped'
  BY <1>1, <1>6, <1>8 DEF FilesTyped
<1>10. ASSUME ~overlapped PROVE OneAtATime'
  <2>1. OneAtATime
    BY <1>10
  <2>2. \A o \in Savers \ {t} : saver[o].at = "away" /\ name[o] = 0
    BY <1>1, <2>1, OthersAreAway DEF Stands
  <2>3. /\ name["tmp"] # 0 /\ saver[t].fd = name["tmp"] /\ content = mine /\ name[t] = 0
        /\ name["state"] # 0 => saver[t].copy = inode[name["state"]]
    BY <1>1, <1>2, <2>1 DEF OneAtATime, KnowsItsFiles, Stands, Content
  <2>4. name["tmp"] \notin Reachable /\ Reachable \subseteq 1..Len(inode)
    BY <2>1, <2>3, ReachableFiles DEF OneAtATime, TmpIsApart
  <2>5. \A i \in Reachable : inode'[i] = inode[i]
    BY <1>6, <2>3, <2>4
  <2>6. TmpIsApart' /\ StateIsWhole' /\ SavedIsThere'
    BY <1>1, <2>1, <2>2, <2>3, <2>4, <2>5, TmpKeeps
  <2>7. \A o \in Savers \ {t} : saver'[o].at = "away" /\ name'[o] = 0
    BY <1>1, <1>8, <2>2
  <2>8. KnowsItsFiles(t)'
    <3>1. inode'[name["tmp"]] = saver[t].copy \cup {saver[t].change}
      BY <1>3, <1>6, <2>3
    <3>2. name["state"] # 0 => inode'[name["state"]] = inode[name["state"]]
      BY <2>5 DEF Reachable
    <3> QED
      BY <1>1, <1>7, <1>8, <2>3, <3>1, <3>2 DEF KnowsItsFiles, Stands, Content
  <2>9. OnlyOne' /\ \A o \in Savers : KnowsItsFiles(o)'
    BY <2>7, <2>8, OthersKnow
  <2> QED
    BY <1>1, <2>1, <2>6, <2>9 DEF OneAtATime, NumbersFollow
<1> QED
  BY <1>1, <1>9, <1>10

LEMMA AsideKeeps == ASSUME FilesInv, NEW t \in Savers, MoveAside(t) PROVE FilesInv'
<1> USE DEF FilesInv
<1>1. /\ UNCHANGED <<inode, left, numbers, begun, deaths, overlapped>>
      /\ saver[t].at = "aside"
  BY DEF MoveAside, Stands, GhostsKept, StateKept, Returned
<1>2. CASE name["state"] = 0
  <2>1. /\ saver' = [saver EXCEPT ![t] = Away] /\ UNCHANGED <<name, saved>>
        /\ Len(inode') = Len(inode)
    BY <1>1, <1>2 DEF MoveAside, Returned, StateKept
  <2>2. FilesTyped'
    BY <1>1, <2>1, SaverReturns DEF FilesTyped
  <2>3. overlapped
    BY <1>1, <1>2 DEF OneAtATime, KnowsItsFiles, Stands, FilesTyped
  <2> QED
    BY <1>1, <2>2, <2>3
<1>3. CASE name["state"] # 0
  <2>1. /\ name' = [name EXCEPT ![t] = name["state"], !["state"] = 0]
        /\ Moves(t, "place") /\ saved' = saved /\ Len(inode') = Len(inode)
    BY <1>1, <1>3 DEF MoveAside, GhostsKept
  <2>2. /\ name' \in [Files -> Nat] /\ name'["state"] = 0 /\ name'[t] = name["state"]
        /\ \A f \in Files \ {t, "state"} : name'[f] = name[f]
    BY <2>1, NamesAreApart DEF FilesTyped
  <2>3. /\ saver' \in [Savers -> [at : Points, change : 0..MaxSaves, copy : SUBSET Changes,
                                  fd : Nat, number : Nat]]
        /\ saver'[t].at = "place" /\ saver'[t].copy = saver[t].copy
        /\ saver'[t].change = saver[t].change
        /\ \A o \in Savers \ {t} : saver'[o] = saver[o]
        /\ (\A o \in Savers : /\ ~Stands(o, "away") => saver[o].change # 0
                              /\ Stands(o, "fill") => saver[o].fd \in 1..Len(inode))'
    <3>1. "place" \in Points \ {"away", "fill"}
      BY DEF Points
    <3> QED
      BY <1>1, <2>1, <3>1, SaverMoves
  <2>4. \A f \in Files : name'[f] <= Len(inode')
    <3>1. Len(inode) \in Nat /\ \A f \in Files : name[f] <= Len(inode)
      BY DEF FilesTyped
    <3> QED
      BY <1>1, <2>2, <3>1, NamesAreApart
  <2>5. FilesTyped'
    BY <1>1, <2>1, <2>2, <2>3, <2>4 DEF FilesTyped
  <2>6. ASSUME ~overlapped PROVE OneAtATime'
    <3>1. OneAtATime
      BY <2>6
    <3>2. \A o \in Savers \ {t} : saver[o].at = "away" /\ name[o] = 0
      BY <1>1, <3>1, OthersAreAway DEF Stands
    <3>3. /\ name["tmp"] # 0 /\ inode[name["tmp"]] = saver[t].copy \cup {saver[t].change}
          /\ saver[t].copy = inode[name["state"]]
      BY <1>1, <1>3, <3>1 DEF OneAtATime, KnowsItsFiles, Stands, Content
    <3>4. name[t] = 0
      BY <1>1, <3>1 DEF OneAtATime, KnowsItsFiles
    <3>5. \A o \in Savers \ {t} : name'[o] = name[o]
      BY <2>2, NamesAreApart
    <3>6. Reachable' = Reachable
      <4>1. \A i : i \in Reachable' <=> i \in Reachable
        BY <1>1, <2>2, <3>2, <3>4, <3>5, WhoIsReachable
      <4> QED
        BY <4>1
    <3>7. name'["tmp"] = name["tmp"]
      BY <2>2, NamesAreApart
    <3>8. TmpIsApart' /\ StateIsWhole' /\ SavedIsThere'
      BY <1>1, <2>1, <2>2, <3>1, <3>6, <3>7
         DEF OneAtATime, TmpIsApart, StateIsWhole, SavedIsThere
    <3>9. KnowsItsFiles(t)'
      BY <1>1, <2>2, <2>3, <3>3, <3>7 DEF KnowsItsFiles, Stands, Content
    <3>10. \A o \in Savers \ {t} : saver'[o].at = "away" /\ name'[o] = 0
      BY <2>3, <3>2, <3>5
    <3>11. OnlyOne' /\ \A o \in Savers : KnowsItsFiles(o)'
      BY <3>9, <3>10, OthersKnow
    <3> QED
      BY <1>1, <3>1, <3>8, <3>11 DEF OneAtATime, NumbersFollow
  <2> QED
    BY <1>1, <2>5, <2>6
<1> QED
  BY <1>2, <1>3

LEMMA InKeeps == ASSUME FilesInv, NEW t \in Savers, MoveIn(t) PROVE FilesInv'
<1> USE DEF FilesInv
<1>1. /\ UNCHANGED <<inode, left, numbers, begun, deaths, overlapped>>
      /\ Len(inode') = Len(inode) /\ saver[t].at = "place"
  BY DEF MoveIn, Stands, GhostsKept, Returned
<1>2. /\ saver[t].change \in Changes /\ Len(inode) \in Nat
      /\ \A f \in Files : name[f] \in Nat /\ name[f] <= Len(inode)
  BY <1>1 DEF FilesTyped, Stands, Changes
<1>3. /\ name' \in [Files -> Nat] /\ \A f \in Files : name'[f] <= Len(inode)
      /\ \A o \in Savers \ {t} : name'[o] = name[o]
  <2>1. CASE name["tmp"] # 0
    <3>1. name' = [name EXCEPT !["state"] = name["tmp"], !["tmp"] = 0]
      BY <2>1 DEF MoveIn
    <3>2. /\ name' \in [Files -> Nat] /\ name'["state"] = name["tmp"] /\ name'["tmp"] = 0
          /\ \A f \in Files \ {"state", "tmp"} : name'[f] = name[f]
      BY <1>2, <3>1, NamesAreApart DEF FilesTyped
    <3>3. \A f \in Files : name'[f] <= Len(inode)
      BY <1>2, <3>2, NamesAreApart
    <3> QED
      BY <3>2, <3>3, NamesAreApart
  <2>2. CASE name["tmp"] = 0
    <3>1. PICK n \in {name[t], name["state"]} :
            name' = [name EXCEPT !["state"] = n, ![t] = 0]
      BY <2>2 DEF MoveIn
    <3>2. n \in Nat /\ n <= Len(inode)
      BY <1>2, NamesAreApart
    <3>3. /\ name' \in [Files -> Nat] /\ name'["state"] = n /\ name'[t] = 0
          /\ \A f \in Files \ {"state", t} : name'[f] = name[f]
      BY <3>1, <3>2, NamesAreApart DEF FilesTyped
    <3>4. \A f \in Files : name'[f] <= Len(inode)
      BY <1>2, <3>2, <3>3, NamesAreApart
    <3> QED
      BY <3>3, <3>4, NamesAreApart
  <2> QED
    BY <2>1, <2>2
<1>4. saved' \subseteq Changes
  BY <1>2 DEF MoveIn, Returned, GhostsKept, FilesTyped
<1>5. /\ saver' \in [Savers -> [at : Points, change : 0..MaxSaves, copy : SUBSET Changes,
                                fd : Nat, number : Nat]]
      /\ \A o \in Savers \ {t} : saver'[o] = saver[o]
      /\ (\A o \in Savers : /\ ~Stands(o, "away") => saver[o].change # 0
                            /\ Stands(o, "fill") => saver[o].fd \in 1..Len(inode))'
      /\ Moves(t, "remove") =>
           saver'[t].at = "remove" /\ saver'[t].copy = saver[t].copy
           /\ saver'[t].change = saver[t].change
      /\ saver' = [saver EXCEPT ![t] = Away] => saver'[t].at = "away"
  <2>1. "remove" \in Points \ {"away", "fill"} /\ saver[t].at # "away"
    BY <1>1 DEF Points
  <2>2. Moves(t, "remove") \/ saver' = [saver EXCEPT ![t] = Away]
    BY DEF MoveIn, Returned
  <2>3. ASSUME Moves(t, "remove") PROVE saver'[t].at = "remove"
    BY <1>1, <2>1, <2>3, SaverMoves
  <2>4. ASSUME saver' = [saver EXCEPT ![t] = Away] PROVE saver'[t].at = "away"
    BY <1>1, <2>4, SaverReturns
  <2>5. CASE Moves(t, "remove")
    BY <1>1, <2>1, <2>3, <2>4, <2>5, SaverMoves
  <2>6. CASE saver' = [saver EXCEPT ![t] = Away]
    <3>1. ~Moves(t, "remove")
      BY <2>3, <2>4, <2>6
    <3> QED
      BY <1>1, <2>4, <2>6, <3>1, SaverReturns
  <2> QED
    BY <2>2, <2>5, <2>6
<1>6. FilesTyped'
  BY <1>1, <1>3, <1>4, <1>5 DEF FilesTyped
<1>7. ASSUME ~overlapped PROVE OneAtATime'
  <2>1. OneAtATime
    BY <1>7
  <2>2. \A o \in Savers \ {t} : saver[o].at = "away" /\ name[o] = 0
    BY <1>1, <2>1, OthersAreAway DEF Stands
  <2>3. /\ name["tmp"] # 0 /\ inode[name["tmp"]] = saver[t].copy \cup {saver[t].change}
        /\ name["state"] = 0 /\ (name[t] # 0 => inode[name[t]] = saver[t].copy)
    BY <1>1, <2>1 DEF OneAtATime, KnowsItsFiles, Stands, Content
  <2>4. name' = [name EXCEPT !["state"] = name["tmp"], !["tmp"] = 0]
    BY <2>3 DEF MoveIn
  <2>5. /\ name'["state"] = name["tmp"] /\ name'["tmp"] = 0 /\ name'[t] = name[t]
        /\ \A o \in Savers : name'[o] = name[o]
    BY <2>4, NamesAreApart DEF FilesTyped
  <2>6. \A i : i \in Reachable' <=> i \in Reachable \/ i = name["tmp"]
    BY <1>1, <2>3, <2>5, WhoIsReachable
  <2>7. saver[t].copy \cup {saver[t].change} \subseteq Changes
    BY <1>2 DEF FilesTyped
  <2>8. TmpIsApart' /\ StateIsWhole'
    BY <1>1, <2>3, <2>5, <2>7 DEF TmpIsApart, StateIsWhole, Content, Whole
  <2>9. SavedIsThere'
    <3>1. saved' \subseteq saved \cup {saver[t].change}
      BY DEF MoveIn, Returned, GhostsKept
    <3>2. \E i \in Reachable' : saver[t].change \in inode[i]
      BY <2>3, <2>6
    <3> QED
      BY <1>1, <2>1, <2>6, <3>1, <3>2 DEF OneAtATime, SavedIsThere
  <2>10. KnowsItsFiles(t)'
    <3>1. CASE name[t] # 0
      <4>1. Moves(t, "remove")
        BY <2>3, <3>1 DEF MoveIn
      <4>2. saver'[t].at = "remove" /\ saver'[t].copy = saver[t].copy
            /\ saver'[t].change = saver[t].change
        BY <1>5, <4>1
      <4> QED
        BY <1>1, <2>3, <2>5, <4>2 DEF KnowsItsFiles, Stands, Content
    <3>2. CASE name[t] = 0
      <4>1. saver' = [saver EXCEPT ![t] = Away]
        BY <2>3, <3>2 DEF MoveIn, Returned
      <4>2. saver'[t].at = "away" /\ name'[t] = 0
        BY <1>5, <2>5, <3>2, <4>1
      <4> QED
        BY <4>2 DEF KnowsItsFiles, Stands
    <3> QED
      BY <3>1, <3>2
  <2>11. \A o \in Savers \ {t} : saver'[o].at = "away" /\ name'[o] = 0
    BY <1>5, <2>2, <2>5
  <2>12. OnlyOne' /\ \A o \in Savers : KnowsItsFiles(o)'
    BY <2>10, <2>11, OthersKnow
  <2> QED
    BY <1>1, <2>1, <2>8, <2>9, <2>12 DEF OneAtATime, NumbersFollow
<1> QED
  BY <1>1, <1>6, <1>7

LEMMA RemoveKeeps == ASSUME FilesInv, NEW t \in Savers, RemoveAside(t) PROVE FilesInv'
<1> USE DEF FilesInv
<1>1. /\ UNCHANGED <<inode, left, numbers, begun, deaths, overlapped>>
      /\ Len(inode') = Len(inode) /\ saver[t].at = "remove"
      /\ saver' = [saver EXCEPT ![t] = Away] /\ name' = [name EXCEPT ![t] = 0]
      /\ saved' = saved \cup {saver[t].change}
  BY DEF RemoveAside, Stands, Returned
<1>2. saver[t].change \in Changes /\ Len(inode) \in Nat
  BY <1>1 DEF FilesTyped, Stands, Changes
<1>3. /\ name' \in [Files -> Nat] /\ name'[t] = 0
      /\ \A f \in Files \ {t} : name'[f] = name[f]
  BY <1>1, NamesAreApart DEF FilesTyped
<1>4. \A f \in Files : name'[f] <= Len(inode)
  <2>1. \A f \in Files : name[f] <= Len(inode)
    BY DEF FilesTyped
  <2>2. 0 <= Len(inode)
    BY <1>2
  <2> QED
    BY <1>3, <2>1, <2>2
<1>5. saved' \subseteq Changes
  BY <1>1, <1>2 DEF FilesTyped
<1>6. FilesTyped'
  BY <1>1, <1>3, <1>4, <1>5, SaverReturns DEF FilesTyped
<1>7. ASSUME ~overlapped PROVE OneAtATime'
  <2>1. OneAtATime
    BY <1>7
  <2>2. \A o \in Savers \ {t} : saver[o].at = "away" /\ name[o] = 0
    BY <1>1, <2>1, OthersAreAway DEF Stands
  <2>3. /\ name["state"] # 0 /\ inode[name["state"]] = saver[t].copy \cup {saver[t].change}
        /\ (name[t] # 0 => inode[name[t]] = saver[t].copy)
    BY <1>1, <2>1 DEF OneAtATime, KnowsItsFiles, Stands, Content
  <2>4. /\ name'["state"] = name["state"] /\ name'["tmp"] = name["tmp"]
        /\ \A o \in Savers \ {t} : name'[o] = name[o]
    BY <1>3, NamesAreApart
  <2>5. /\ \A i : i \in Reachable' => i \in Reachable
        /\ \A i \in Reachable : i \in Reachable' \/ i = name[t]
        /\ name["state"] \in Reachable'
    BY <1>1, <2>3, <2>4, <1>3, WhoIsReachable
  <2>6. TmpIsApart' /\ StateIsWhole'
    BY <1>1, <2>1, <2>4, <2>5 DEF OneAtATime, TmpIsApart, StateIsWhole, Content
  \* What was aside is all in the state that took its place.
  <2>7. SavedIsThere'
    <3>1. ASSUME NEW c \in saved' PROVE \E i \in Reachable' : c \in inode[i]
      <4>1. CASE c \in inode[name["state"]]
        BY <2>5, <4>1
      <4>2. CASE c \notin inode[name["state"]]
        <5>1. c \in saved
          BY <1>1, <2>3, <3>1, <4>2
        <5>2. PICK i \in Reachable : c \in inode[i]
          BY <2>1, <5>1 DEF OneAtATime, SavedIsThere
        <5>3. i # name[t]
          <6>1. i # 0
            BY <5>2, WhoIsReachable
          <6> QED
            BY <2>3, <4>2, <5>2, <6>1
        <5> QED
          BY <2>5, <5>2, <5>3
      <4> QED
        BY <4>1, <4>2
    <3> QED
      BY <1>1, <3>1 DEF SavedIsThere
  <2>8. \A o \in Savers : saver'[o].at = "away" /\ name'[o] = 0
    BY <1>1, <1>3, <2>2, <2>4, SaverReturns
  <2>9. OnlyOne' /\ \A o \in Savers : KnowsItsFiles(o)'
    BY <2>8 DEF OnlyOne, KnowsItsFiles, Stands
  <2> QED
    BY <1>1, <2>1, <2>6, <2>7, <2>9 DEF OneAtATime, NumbersFollow
<1> QED
  BY <1>1, <1>6, <1>7

LEMMA DeathKeeps == ASSUME FilesInv, Die PROVE FilesInv'
<1> USE DEF FilesInv
<1>1. /\ UNCHANGED <<inode, numbers, begun, saved, overlapped>>
      /\ deaths < MaxDeaths /\ deaths' = deaths + 1
      /\ saver' = [t \in Savers |-> Away]
      /\ left' = left \cup ({name[t] : t \in Savers} \ {0})
      /\ name' = [f \in DOMAIN name |-> IF f \in Savers THEN 0 ELSE name[f]]
  BY DEF Die
<1>2. /\ name' \in [Files -> Nat] /\ \A t \in Savers : name'[t] = 0
      /\ \A f \in Files \ Savers : name'[f] = name[f]
  <2>1. name \in [Files -> Nat] /\ DOMAIN name = Files
    BY DEF FilesTyped
  <2> QED
    BY <1>1, <2>1, NamesAreApart
<1>3. Len(inode) \in Nat /\ \A f \in Files : name[f] \in Nat /\ name[f] <= Len(inode)
  BY DEF FilesTyped
<1>4. \A f \in Files : name'[f] <= Len(inode)
  BY <1>2, <1>3
<1>5. left' \subseteq 1..Len(inode)
  <2>1. \A t \in Savers : name[t] # 0 => name[t] \in 1..Len(inode)
    BY <1>3, NamesAreApart
  <2>2. left \subseteq 1..Len(inode)
    BY DEF FilesTyped
  <2> QED
    BY <1>1, <2>1, <2>2
<1>6. deaths' \in 0..MaxDeaths
  <2>1. deaths \in 0..MaxDeaths /\ MaxDeaths \in Nat
    BY SessionFilesAssumption DEF FilesTyped
  <2> QED
    BY <1>1, <2>1
<1>7. Away \in [at : Points, change : 0..MaxSaves, copy : SUBSET Changes, fd : Nat, number : Nat]
  BY SessionFilesAssumption DEF Away, Points
<1>8. /\ saver' \in [Savers -> [at : Points, change : 0..MaxSaves, copy : SUBSET Changes,
                                fd : Nat, number : Nat]]
      /\ \A t \in Savers : saver'[t].at = "away"
  BY <1>1, <1>7 DEF Away
<1>9. FilesTyped'
  BY <1>1, <1>2, <1>4, <1>5, <1>6, <1>8 DEF FilesTyped, Stands
<1>10. ASSUME ~overlapped PROVE OneAtATime'
  <2>1. OneAtATime
    BY <1>10
  <2>2. name'["state"] = name["state"] /\ name'["tmp"] = name["tmp"]
    BY <1>2, NamesAreApart
  <2>3. Reachable' = Reachable
    <3>1. \A i : i \in left' <=> i \in left \/ (i # 0 /\ \E t \in Savers : i = name[t])
      BY <1>1
    <3>2. \A i : i \in Reachable' <=> i \in Reachable
      <4>1. 0 \notin left
        BY <1>3 DEF FilesTyped
      <4> QED
        BY <1>2, <2>2, <3>1, <4>1, WhoIsReachable
    <3> QED
      BY <3>2
  <2>4. TmpIsApart' /\ StateIsWhole' /\ SavedIsThere'
    BY <1>1, <2>1, <2>2, <2>3 DEF OneAtATime, TmpIsApart, StateIsWhole, SavedIsThere, Content
  <2>5. OnlyOne' /\ \A t \in Savers : KnowsItsFiles(t)'
    BY <1>2, <1>8 DEF OnlyOne, KnowsItsFiles, Stands
  <2> QED
    BY <1>1, <2>1, <2>4, <2>5 DEF OneAtATime, NumbersFollow
<1> QED
  BY <1>1, <1>9, <1>10

LEMMA FilesNextInv == FilesInv /\ [FilesNext]_filesVars => FilesInv'
<1>1. CASE UNCHANGED filesVars
  BY <1>1 DEF filesVars, FilesInv, FilesTyped, OneAtATime, OnlyOne, TmpIsApart, KnowsItsFiles,
              StateIsWhole, SavedIsThere, NumbersFollow, Stands, Content, Reachable
<1> QED
  BY <1>1, LoadKeeps, EventKeeps, CreateKeeps, FillKeeps, AsideKeeps, InKeeps, RemoveKeeps,
     DeathKeeps DEF FilesNext

LEMMA FilesInvHolds == FilesSpec => []FilesInv
  BY FilesInitInv, FilesNextInv, PTL DEF FilesSpec

\* Every file of a session holds the changes of one save, or was cut off, or
\* was written by two at once; names and what was left aside lead to files.
THEOREM FilesTypeCorrect == FilesSpec => []FilesTypeOK
<1>1. ASSUME FilesInv PROVE FilesTypeOK
  <2>1. FilesTyped
    BY <1>1 DEF FilesInv
  <2>2. \A i \in DOMAIN inode : Whole(inode[i]) \/ inode[i] \in {Mixed, Blank}
    <3>1. \A i \in DOMAIN inode : inode[i] \in Contents
      BY <2>1 DEF FilesTyped
    <3> QED
      BY <3>1 DEF Contents, Whole
  <2>3. \A f \in DOMAIN name : name[f] \in 0..Len(inode)
    BY <2>1 DEF FilesTyped
  <2> QED
    BY <2>1, <2>2, <2>3 DEF FilesTyped, FilesTypeOK
<1> QED
  BY <1>1, FilesInvHolds, PTL

\* As long as no two threads save at once, no kill between any two calls costs
\* a change whose save has returned, whatever is found in the state file is
\* whole, and the event lines are numbered as they stand.
THEOREM SavesSurviveKills == FilesSpec => []OneAtATimeKeepsAll
<1>1. ASSUME FilesInv PROVE OneAtATimeKeepsAll
  <2> SUFFICES ASSUME ~overlapped
               PROVE  /\ name["state"] # 0 => Whole(Content("state"))
                      /\ saved \subseteq UNION {inode[i] : i \in Reachable}
                      /\ \A i \in DOMAIN numbers : numbers[i] = i
    BY DEF OneAtATimeKeepsAll
  <2>1. OneAtATime /\ FilesTyped
    BY <1>1 DEF FilesInv
  <2>2. saved \subseteq UNION {inode[i] : i \in Reachable}
    BY <2>1 DEF OneAtATime, SavedIsThere
  <2>3. DOMAIN numbers = 1..Len(numbers)
    BY <2>1 DEF FilesTyped
  <2> QED
    BY <2>1, <2>2, <2>3 DEF OneAtATime, StateIsWhole, NumbersFollow
<1> QED
  BY <1>1, FilesInvHolds, PTL

-----------------------------------------------------------------------------
(* The provider loop.                                                      *)

Stops == {"rest", "check", "send", "stream", "batch", "given", "returned", "allow", "deny"}
LoopResults == {"none", "completed", "failed", "interrupted", "waiting", "error"}
LoopKeys == {"at", "carry", "model", "attempt", "text", "streamed", "index", "result", "copy"}
Messages == [step : Nat, text : Seq(Nat), calls : Seq(CallKinds), results : SUBSET Nat]

ThreadTyped(l) ==
  /\ DOMAIN l = LoopKeys
  /\ l.at \in Stops /\ l.carry \in Carries /\ l.model \in Nat /\ l.text \in Seq(Nat)
  /\ l.index \in Nat /\ l.result \in LoopResults /\ l.copy \in Sessions

LoopTyped ==
  /\ disk \in Sessions
  /\ runStatus \in {"running"} \cup Execution!Terminal
  /\ job \in [status : Execution!Status, cancel : BOOLEAN]
  /\ talk \in Seq(Messages)
  /\ screen \in [step : Nat, text : Seq(Nat)]
  /\ terminals \in Seq(Execution!Terminal)
  /\ DOMAIN loops = Threads /\ \A t \in Threads : ThreadTyped(loops[t])
  /\ interrupter \in [at : {"rest", "record"}, copy : Sessions]
  /\ interrupts \in Nat /\ restarts \in Nat
  /\ IsFiniteSet(ran) /\ tokens \in Nat
  /\ late \in BOOLEAN /\ doubled \in BOOLEAN /\ broken \in BOOLEAN

\* The calls somebody may still be asked about: of the request on the disk, of
\* the copy an interrupt will write back, and of the answers under way.
CallOf(request) == <<request.step, request.index>>
Noted(request) == IF request = NoRequest THEN {} ELSE {CallOf(request)}
Answering(t) == loops[t].at \in {"allow", "deny"}
Open == UNION {Noted(disk.request), Noted(interrupter.copy.request),
               {Call(t) : t \in {r \in Threads : Answering(r)}}}

\* Nothing said, shown or asked so far is of this step or a later one.
Before(s) ==
  /\ \A i \in 1..Len(talk) : talk[i].step < s
  /\ disk.request.step < s /\ interrupter.copy.request.step < s
Unshown(s) == screen.step < s

\* What a saved rest of a turn promises the thread that goes on with it.
Promises(rest, call) ==
  rest # NoResume =>
    /\ Before(rest.step) /\ Unshown(rest.step)
    /\ Open \subseteq ran \cup {call}
    /\ Cardinality(ran \cup {call}) <= rest.calls /\ rest.calls <= MaxToolCalls
    /\ tokens <= rest.tokens /\ rest.tokens <= MaxTokens

\* A call that is run or asked about is one its message has.
Fitting(call) ==
  \A i \in 1..Len(talk) : talk[i].step = call[1] => call[2] \in 1..Len(talk[i].calls)

InLoop(t) == loops[t].at \in {"check", "send", "stream", "batch"}
Busy(t) == loops[t].at \notin {"rest", "returned"}
Occupied(t) == IF t = "worker" THEN Busy(t) \/ (At(t, "returned") /\ loops[t].result # "waiting")
               ELSE ~At(t, "rest")

\* One thread at a time works on the turn.
OneAtWork ==
  /\ \A t, u \in Threads : Occupied(t) /\ Occupied(u) => t = u
  /\ Occupied("worker") => disk.request = NoRequest /\ interrupter.copy.request = NoRequest
  /\ ~Answering("worker") /\ \A r \in Responders : ~At(r, "given")

SavedSound ==
  /\ disk.request = NoRequest => disk.resume = NoResume
  /\ Promises(disk.resume, CallOf(disk.request))

LoopSound(t) ==
  InLoop(t) =>
    /\ Copy(t).resume = NoResume
    /\ Open \subseteq ran
    /\ Cardinality(ran) <= loops[t].carry.calls /\ loops[t].carry.calls <= MaxToolCalls
    /\ tokens <= loops[t].carry.tokens /\ loops[t].carry.tokens <= MaxTokens
    /\ At(t, "check") => Before(Step(t)) /\ Unshown(Step(t))
    /\ At(t, "send") => /\ Before(Step(t)) /\ ~loops[t].streamed
                        /\ screen.step <= Step(t) /\ loops[t].text = <<>>
                        /\ screen.step = Step(t) => screen.text = <<>>
    /\ At(t, "stream") => /\ Before(Step(t)) /\ loops[t].streamed
                          /\ screen = [step |-> Step(t), text |-> loops[t].text]
    /\ At(t, "batch") => /\ Len(talk) > 0 /\ Batch(t).step = Step(t)
                         /\ \A i \in 1..Len(talk) : i # Len(talk) => talk[i].step < Step(t)
                         /\ disk.request.step < Step(t)
                         /\ interrupter.copy.request.step < Step(t)
                         /\ screen.step = Step(t)
                         /\ loops[t].index > 0
    /\ ~At(t, "check") => disk.resume = NoResume

GivenSound(t) ==
  At(t, "given") =>
    /\ Len(talk) = 1 /\ talk[1].step = 1 /\ Step(t) = 1 /\ screen.step = 0
    /\ loops[t].index > 0 /\ Cardinality(ran) < loops[t].index
    /\ Cardinality(ran) <= MaxToolCalls
    /\ tokens = 0

AnswerSound(t) == Answering(t) => Promises(Copy(t).resume, Call(t))

CopySound(t) ==
  ~(At(t, "returned") /\ loops[t].result = "waiting") => Copy(t).request = NoRequest

Tallied ==
  /\ Cardinality(ran \cup Open) <= MaxToolCalls /\ tokens <= MaxTokens + 1
  /\ \A call \in Open : Fitting(call)
  /\ \A i \in 1..Len(talk) : /\ talk[i].results \subseteq 1..Len(talk[i].calls)
                             /\ screen.step = talk[i].step => screen.text = talk[i].text

\* As long as nothing cuts in, the turn goes on or has ended everywhere.
Still == interrupts = 0 /\ restarts = 0 /\ ~broken
GoesOn ==
  /\ runStatus = "running" /\ terminals = <<>> /\ job.status \in {"running", "waiting"}
  /\ \A t \in Threads : At(t, "returned") => loops[t].result \in {"waiting", "error"}
HasEnded(status) ==
  /\ runStatus = status /\ terminals = <<status>>
  /\ job.status \in {"running", "waiting", status}
  /\ disk = Session(NoRequest, NoResume, "idle")
  /\ \A t \in Threads : /\ ~Busy(t)
                        /\ At(t, "returned") => loops[t].result \in {"waiting", status}
Ending == Still => /\ ~job.cancel /\ interrupter.at = "rest"
                   /\ GoesOn \/ \E status \in {"completed", "failed"} : HasEnded(status)

LoopInv ==
  /\ LoopTyped
  /\ ~doubled => /\ OneAtWork /\ SavedSound /\ Tallied /\ Ending
                 /\ \A t \in Threads : LoopSound(t) /\ GivenSound(t) /\ AnswerSound(t) /\ CopySound(t)

-----------------------------------------------------------------------------
\* What the updates of one thread's record leave in it.
Moved(t) == DOMAIN loops' = Threads /\ \A u \in Threads : u # t => loops'[u] = loops[u]

LEMMA Constants == NoRequest.step = 0 /\ NoRequest \in [step : Nat, index : Nat, kind : Asking \cup {"none"}]
                   /\ NoResume \in Carries /\ FirstCarry \in Carries
  BY DEF NoRequest, NoResume, FirstCarry, Carries

LEMMA IsReturned ==
  ASSUME LoopTyped, NEW t \in Threads, NEW copy \in Sessions, NEW result \in LoopResults,
         Returns(t, copy, result)
  PROVE  /\ Moved(t) /\ ThreadTyped(loops'[t])
         /\ loops'[t].at = "returned" /\ loops'[t].result = result /\ loops'[t].copy = copy
  BY DEF LoopTyped, ThreadTyped, Returns, Moved, LoopKeys, Stops, LoopResults

LEMMA IsBegun ==
  ASSUME LoopTyped, NEW t \in Threads,
         loops' = [loops EXCEPT ![t].at = "send", ![t].model = 1, ![t].attempt = 0,
                                ![t].text = <<>>, ![t].streamed = FALSE]
  PROVE  /\ Moved(t) /\ ThreadTyped(loops'[t])
         /\ loops'[t].at = "send" /\ loops'[t].text = <<>> /\ loops'[t].streamed = FALSE
         /\ loops'[t].carry = loops[t].carry /\ loops'[t].copy = loops[t].copy
  BY DEF LoopTyped, ThreadTyped, Moved, LoopKeys, Stops, LoopResults

LEMMA IsRetried ==
  ASSUME LoopTyped, NEW t \in Threads, loops' = [loops EXCEPT ![t].attempt = @ + 1]
  PROVE  /\ Moved(t) /\ ThreadTyped(loops'[t])
         /\ loops'[t].at = loops[t].at /\ loops'[t].text = loops[t].text
         /\ loops'[t].streamed = loops[t].streamed
         /\ loops'[t].carry = loops[t].carry /\ loops'[t].copy = loops[t].copy
  BY DEF LoopTyped, ThreadTyped, Moved, LoopKeys, Stops, LoopResults

LEMMA IsFallback ==
  ASSUME LoopTyped, NEW t \in Threads, loops' = [loops EXCEPT ![t] = FallsBack(t)]
  PROVE  /\ Moved(t) /\ ThreadTyped(loops'[t])
         /\ loops'[t].at = "send" /\ loops'[t].text = <<>> /\ loops'[t].streamed = FALSE
         /\ loops'[t].carry = loops[t].carry /\ loops'[t].copy = loops[t].copy
  BY DEF LoopTyped, ThreadTyped, Moved, LoopKeys, Stops, LoopResults, FallsBack

LEMMA IsStreaming ==
  ASSUME LoopTyped, NEW t \in Threads,
         loops' = [loops EXCEPT ![t].at = "stream", ![t].streamed = TRUE,
                            ![t].text = Append(@, loops[t].model)]
  PROVE  /\ Moved(t) /\ ThreadTyped(loops'[t])
         /\ loops'[t].at = "stream" /\ loops'[t].streamed = TRUE
         /\ loops'[t].text = Append(loops[t].text, loops[t].model)
         /\ loops'[t].carry = loops[t].carry /\ loops'[t].copy = loops[t].copy
<1>1. Append(loops[t].text, loops[t].model) \in Seq(Nat)
  BY DEF LoopTyped, ThreadTyped
<1> QED
  BY <1>1 DEF LoopTyped, ThreadTyped, Moved, LoopKeys, Stops, LoopResults

LEMMA IsInBatch ==
  ASSUME LoopTyped, NEW t \in Threads, NEW carry \in Carries,
         loops' = [loops EXCEPT ![t].at = "batch", ![t].carry = carry,
                                             ![t].index = 1, ![t].text = <<>>]
  PROVE  /\ Moved(t) /\ ThreadTyped(loops'[t])
         /\ loops'[t].at = "batch" /\ loops'[t].carry = carry /\ loops'[t].index = 1
         /\ loops'[t].copy = loops[t].copy
  BY DEF LoopTyped, ThreadTyped, Moved, LoopKeys, Stops, LoopResults

LEMMA CarryMoves ==
  ASSUME NEW c \in Carries
  PROVE  /\ [c EXCEPT !.calls = c.calls + 1] \in Carries
         /\ [c EXCEPT !.calls = c.calls + 1].calls = c.calls + 1
         /\ [c EXCEPT !.calls = c.calls + 1].step = c.step
         /\ [c EXCEPT !.calls = c.calls + 1].tokens = c.tokens
         /\ [c EXCEPT !.step = c.step + 1] \in Carries
         /\ [c EXCEPT !.step = c.step + 1].calls = c.calls
         /\ [c EXCEPT !.step = c.step + 1].step = c.step + 1
         /\ [c EXCEPT !.step = c.step + 1].tokens = c.tokens
         /\ \A s \in Nat : /\ [c EXCEPT !.step = s] \in Carries
                           /\ [c EXCEPT !.step = s].step = s
  BY DEF Carries

LEMMA IsCounted ==
  ASSUME LoopTyped, NEW t \in Threads,
         loops' = [loops EXCEPT ![t].index = @ + 1, ![t].carry.calls = @ + 1]
  PROVE  /\ Moved(t) /\ ThreadTyped(loops'[t])
         /\ loops'[t].at = loops[t].at /\ loops'[t].index = loops[t].index + 1
         /\ loops'[t].carry.calls = loops[t].carry.calls + 1
         /\ loops'[t].carry.step = loops[t].carry.step
         /\ loops'[t].carry.tokens = loops[t].carry.tokens
         /\ loops'[t].copy = loops[t].copy
<1>1. DOMAIN loops = Threads /\ ThreadTyped(loops[t])
  BY DEF LoopTyped
<1>2. DOMAIN loops[t] = LoopKeys
  BY <1>1 DEF ThreadTyped
<1>3. /\ Moved(t) /\ loops'[t].carry = [loops[t].carry EXCEPT !.calls = loops[t].carry.calls + 1]
      /\ DOMAIN loops'[t] = LoopKeys
      /\ loops'[t].at = loops[t].at /\ loops'[t].index = loops[t].index + 1
      /\ loops'[t].copy = loops[t].copy /\ loops'[t].text = loops[t].text
      /\ loops'[t].model = loops[t].model /\ loops'[t].result = loops[t].result
  BY <1>1, <1>2 DEF Moved, LoopKeys
<1>4. loops[t].carry \in Carries
  BY <1>1 DEF ThreadTyped
<1>5. /\ loops'[t].carry \in Carries
      /\ loops'[t].carry.calls = loops[t].carry.calls + 1
      /\ loops'[t].carry.step = loops[t].carry.step
      /\ loops'[t].carry.tokens = loops[t].carry.tokens
  BY <1>3, <1>4, CarryMoves
<1> QED
  BY <1>1, <1>3, <1>5 DEF ThreadTyped

LEMMA IsNextStep ==
  ASSUME LoopTyped, NEW t \in Threads,
         loops' = [loops EXCEPT ![t].at = "check", ![t].carry.step = @ + 1]
  PROVE  /\ Moved(t) /\ ThreadTyped(loops'[t])
         /\ loops'[t].at = "check"
         /\ loops'[t].carry.step = loops[t].carry.step + 1
         /\ loops'[t].carry.calls = loops[t].carry.calls
         /\ loops'[t].carry.tokens = loops[t].carry.tokens
         /\ loops'[t].copy = loops[t].copy
<1>1. DOMAIN loops = Threads /\ ThreadTyped(loops[t])
  BY DEF LoopTyped
<1>2. DOMAIN loops[t] = LoopKeys
  BY <1>1 DEF ThreadTyped
<1>3. /\ Moved(t) /\ loops'[t].carry = [loops[t].carry EXCEPT !.step = loops[t].carry.step + 1]
      /\ DOMAIN loops'[t] = LoopKeys
      /\ loops'[t].at = "check" /\ loops'[t].index = loops[t].index
      /\ loops'[t].copy = loops[t].copy /\ loops'[t].text = loops[t].text
      /\ loops'[t].model = loops[t].model /\ loops'[t].result = loops[t].result
  BY <1>1, <1>2 DEF Moved, LoopKeys
<1>4. loops[t].carry \in Carries
  BY <1>1 DEF ThreadTyped
<1>5. /\ loops'[t].carry \in Carries
      /\ loops'[t].carry.calls = loops[t].carry.calls
      /\ loops'[t].carry.step = loops[t].carry.step + 1
      /\ loops'[t].carry.tokens = loops[t].carry.tokens
  BY <1>3, <1>4, CarryMoves
<1> QED
  BY <1>1, <1>3, <1>5 DEF ThreadTyped, Stops

LEMMA IsFurther ==
  ASSUME LoopTyped, NEW t \in Threads, loops' = [loops EXCEPT ![t].index = @ + 1]
  PROVE  /\ Moved(t) /\ ThreadTyped(loops'[t])
         /\ loops'[t].at = loops[t].at /\ loops'[t].index = loops[t].index + 1
         /\ loops'[t].carry = loops[t].carry /\ loops'[t].copy = loops[t].copy
  BY DEF LoopTyped, ThreadTyped, Moved, LoopKeys, Stops, LoopResults

LEMMA IsLoaded ==
  ASSUME LoopTyped, NEW t \in Threads, NEW stop \in {"allow", "deny"},
         loops' = [loops EXCEPT ![t].at = stop,
                            ![t].copy = [disk EXCEPT !.request = NoRequest],
                            ![t].index = disk.request.index,
                            ![t].carry.step = disk.request.step]
  PROVE  /\ Moved(t) /\ ThreadTyped(loops'[t])
         /\ loops'[t].at = stop /\ loops'[t].index = disk.request.index
         /\ loops'[t].carry.step = disk.request.step
         /\ loops'[t].copy.request = NoRequest /\ loops'[t].copy.resume = disk.resume
<1>1. DOMAIN loops = Threads /\ ThreadTyped(loops[t])
  BY DEF LoopTyped
<1>2. DOMAIN loops[t] = LoopKeys /\ loops[t].carry \in Carries
  BY <1>1 DEF ThreadTyped
<1>3. /\ [disk EXCEPT !.request = NoRequest] \in Sessions
      /\ [disk EXCEPT !.request = NoRequest].request = NoRequest
      /\ [disk EXCEPT !.request = NoRequest].resume = disk.resume
  BY Constants DEF LoopTyped, Sessions
<1>4. disk.request.index \in Nat /\ disk.request.step \in Nat
  BY DEF LoopTyped, Sessions
<1>5. /\ Moved(t) /\ loops'[t].carry = [loops[t].carry EXCEPT !.step = disk.request.step]
      /\ DOMAIN loops'[t] = LoopKeys
      /\ loops'[t].at = stop /\ loops'[t].index = disk.request.index
      /\ loops'[t].copy = [disk EXCEPT !.request = NoRequest] /\ loops'[t].text = loops[t].text
      /\ loops'[t].model = loops[t].model /\ loops'[t].result = loops[t].result
  BY <1>1, <1>2 DEF Moved, LoopKeys
<1>6. /\ [loops[t].carry EXCEPT !.step = disk.request.step] \in Carries
      /\ [loops[t].carry EXCEPT !.step = disk.request.step].step = disk.request.step
  BY <1>2, <1>4, CarryMoves
<1> QED
  BY <1>1, <1>3, <1>4, <1>5, <1>6 DEF ThreadTyped, Stops

LEMMA IsResumed ==
  ASSUME LoopTyped, NEW t \in Threads, NEW carry \in Carries, NEW copy \in Sessions,
         loops' = [loops EXCEPT ![t].at = "check", ![t].carry = carry, ![t].copy = copy]
  PROVE  /\ Moved(t) /\ ThreadTyped(loops'[t])
         /\ loops'[t].at = "check" /\ loops'[t].carry = carry /\ loops'[t].copy = copy
  BY DEF LoopTyped, ThreadTyped, Moved, LoopKeys, Stops, LoopResults

LEMMA RestingTyped == ThreadTyped(Resting) /\ Resting.at = "rest" /\ Resting.copy.request = NoRequest
<1>1. Session(NoRequest, NoResume, "idle") \in Sessions
  BY Constants DEF Session, Sessions
<1>2. <<>> \in Seq(Nat)
  OBVIOUS
<1>3. DOMAIN Resting = LoopKeys
  BY DEF Resting, LoopKeys
<1>4. Resting.copy = Session(NoRequest, NoResume, "idle") /\ Resting.carry = NoResume
      /\ Resting.text = <<>> /\ Resting.at = "rest" /\ Resting.result = "none"
      /\ Resting.model = 1 /\ Resting.index = 0
  BY DEF Resting
<1>5. Session(NoRequest, NoResume, "idle").request = NoRequest
  BY DEF Session
<1> QED
  BY <1>1, <1>2, <1>3, <1>4, <1>5, Constants DEF ThreadTyped, Stops, LoopResults

LEMMA IsRested ==
  ASSUME LoopTyped, NEW t \in Threads, loops' = [loops EXCEPT ![t] = Resting]
  PROVE  /\ Moved(t) /\ ThreadTyped(loops'[t])
         /\ loops'[t].at = "rest" /\ loops'[t].copy.request = NoRequest
  BY RestingTyped DEF LoopTyped, Moved

-----------------------------------------------------------------------------
\* What the others are while one thread is at work, and remain.
LEMMA OthersRest ==
  ASSUME LoopInv, ~doubled, NEW t \in Threads, Occupied(t), Moved(t)
  PROVE  \A u \in Threads : u # t =>
           /\ ~Occupied(u) /\ ~Occupied(u)' /\ ~Busy(u) /\ ~Busy(u)' /\ ~Answering(u) /\ ~Answering(u)'
           /\ ~At(u, "given") /\ ~At(u, "given")'
           /\ LoopSound(u)' /\ GivenSound(u)' /\ AnswerSound(u)' /\ CopySound(u)'
           /\ At(u, "returned")' => loops'[u].result = "waiting"
           /\ loops'[u] = loops[u]
<1> SUFFICES ASSUME NEW u \in Threads, u # t
             PROVE  /\ ~Occupied(u) /\ ~Occupied(u)' /\ ~Busy(u) /\ ~Busy(u)' /\ ~Answering(u) /\ ~Answering(u)'
                    /\ ~At(u, "given") /\ ~At(u, "given")'
                    /\ LoopSound(u)' /\ GivenSound(u)' /\ AnswerSound(u)' /\ CopySound(u)'
                    /\ At(u, "returned")' => loops'[u].result = "waiting"
                    /\ loops'[u] = loops[u]
  OBVIOUS
<1>1. loops'[u] = loops[u] /\ ~Occupied(u) /\ CopySound(u)
  BY DEF LoopInv, OneAtWork, Moved
<1>2. ~Busy(u) /\ (At(u, "returned") => loops[u].result = "waiting")
  BY <1>1 DEF Occupied, Busy, At
<1>3. loops[u].at \in {"rest", "returned"}
  BY <1>2 DEF Busy
<1>4. ~Answering(u) /\ ~At(u, "given")
  BY <1>3 DEF Answering, At
<1>5. ~Occupied(u)' /\ ~Busy(u)' /\ ~Answering(u)' /\ ~At(u, "given")' /\ CopySound(u)'
  BY <1>1, <1>2, <1>4 DEF Occupied, Busy, Answering, At, CopySound, Copy
<1>6. LoopSound(u)' /\ GivenSound(u)' /\ AnswerSound(u)'
  BY <1>1, <1>3, <1>5 DEF LoopSound, InLoop, GivenSound, AnswerSound
<1> QED
  BY <1>1, <1>2, <1>4, <1>5, <1>6 DEF At

LEMMA OnlyAsked ==
  ASSUME \A u \in Threads : ~Answering(u)
  PROVE  Open = Noted(disk.request) \cup Noted(interrupter.copy.request)
  BY DEF Open

LEMMA OpenFinite ==
  ASSUME LoopInv, ~doubled
  PROVE  IsFiniteSet(Open) /\ Open \subseteq Nat \X Nat
<1>1. IsFiniteSet(Noted(disk.request)) /\ IsFiniteSet(Noted(interrupter.copy.request))
  BY FS_EmptySet, FS_Singleton DEF Noted
<1>2. PICK t \in Threads : \A u \in Threads : Answering(u) => u = t
  <2>1. CASE \E t \in Threads : Answering(t)
    <3>1. \A t \in Threads : Answering(t) => Occupied(t)
      BY DEF Answering, Occupied, Busy, At
    <3> QED
      BY <2>1, <3>1 DEF LoopInv, OneAtWork
  <2>2. CASE ~\E t \in Threads : Answering(t)
    BY <2>2 DEF Threads
  <2> QED
    BY <2>1, <2>2
<1>3. {Call(u) : u \in {r \in Threads : Answering(r)}} \subseteq {Call(t)}
  BY <1>2
<1>4. IsFiniteSet({Call(u) : u \in {r \in Threads : Answering(r)}})
  BY <1>3, FS_Singleton, FS_Subset
<1>5. IsFiniteSet(Open)
  <2>1. Open = (Noted(disk.request) \cup Noted(interrupter.copy.request))
               \cup {Call(u) : u \in {r \in Threads : Answering(r)}}
    BY DEF Open
  <2> QED
    BY <1>1, <1>4, <2>1, FS_Union
<1>6. Noted(disk.request) \subseteq Nat \X Nat /\ Noted(interrupter.copy.request) \subseteq Nat \X Nat
  BY DEF LoopInv, LoopTyped, Noted, CallOf, Sessions
<1>7. \A u \in Threads : Call(u) \in Nat \X Nat
  BY DEF LoopInv, LoopTyped, ThreadTyped, Call, Step, Carries
<1> QED
  BY <1>5, <1>6, <1>7 DEF Open

LEMMA SessionIs ==
  ASSUME NEW c \in Sessions
  PROVE  /\ \A status \in {"running", "paused", "idle", "stop"} :
              /\ [c EXCEPT !.resume = NoResume, !.status = status] \in Sessions
              /\ [c EXCEPT !.resume = NoResume, !.status = status].request = c.request
              /\ [c EXCEPT !.resume = NoResume, !.status = status].resume = NoResume
              /\ c.request = NoRequest =>
                   [c EXCEPT !.resume = NoResume, !.status = status] = Session(NoRequest, NoResume, status)
<1> SUFFICES ASSUME NEW status \in {"running", "paused", "idle", "stop"}
             PROVE  /\ [c EXCEPT !.resume = NoResume, !.status = status] \in Sessions
                    /\ [c EXCEPT !.resume = NoResume, !.status = status].request = c.request
                    /\ [c EXCEPT !.resume = NoResume, !.status = status].resume = NoResume
                    /\ c.request = NoRequest =>
                         [c EXCEPT !.resume = NoResume, !.status = status] = Session(NoRequest, NoResume, status)
  OBVIOUS
<1> DEFINE new == [c EXCEPT !.resume = NoResume, !.status = status]
<1>1. new \in Sessions
  BY Constants DEF Sessions
<1>2. new.request = c.request /\ new.resume = NoResume /\ new.status = status
  BY DEF Sessions
<1>3. \A s \in Sessions : Session(s.request, s.resume, s.status) = s
  BY DEF Session, Sessions
<1> QED
  BY <1>1, <1>2, <1>3

LEMMA SessionHas ==
  ASSUME NEW request \in [step : Nat, index : Nat, kind : Asking \cup {"none"}],
         NEW resume \in Carries, NEW status \in {"running", "paused", "idle", "stop"}
  PROVE  /\ Session(request, resume, status) \in Sessions
         /\ Session(request, resume, status).request = request
         /\ Session(request, resume, status).resume = resume
         /\ Session(request, resume, status).status = status
  BY DEF Session, Sessions

LEMMA FewerOpen ==
  ASSUME LoopInv, ~doubled, UNCHANGED ran, Open' \subseteq Open
  PROVE  Cardinality(ran' \cup Open') <= MaxToolCalls
<1>1. IsFiniteSet(ran \cup Open) /\ ran' \cup Open' \subseteq ran \cup Open
  BY OpenFinite, FS_Union DEF LoopInv, LoopTyped
<1>2. /\ Cardinality(ran' \cup Open') <= Cardinality(ran \cup Open)
      /\ Cardinality(ran' \cup Open') \in Nat /\ Cardinality(ran \cup Open) \in Nat
  BY <1>1, FS_Subset, FS_CardinalityType
<1> QED
  BY <1>2, LoopAssumption DEF LoopInv, Tallied

LEMMA IsTallied ==
  ASSUME Cardinality(ran' \cup Open') <= MaxToolCalls, tokens' <= MaxTokens + 1,
         \A c \in Open' : Fitting(c)',
         \A i \in 1..Len(talk') : /\ talk'[i].results \subseteq 1..Len(talk'[i].calls)
                                  /\ screen'.step = talk'[i].step => screen'.text = talk'[i].text
  PROVE  Tallied'
<1>1. (\A c \in Open : Fitting(c))'
  BY DEF Fitting
<1>2. (\A i \in 1..Len(talk) : /\ talk[i].results \subseteq 1..Len(talk[i].calls)
                               /\ screen.step = talk[i].step => screen.text = talk[i].text)'
  OBVIOUS
<1>3. (Cardinality(ran \cup Open) <= MaxToolCalls /\ tokens <= MaxTokens + 1)'
  OBVIOUS
<1> QED
  BY <1>1, <1>2, <1>3 DEF Tallied

\* Fewer calls may be asked about, and nothing else is said or run.
LEMMA TallyStays ==
  ASSUME LoopInv, ~doubled, UNCHANGED <<talk, screen, ran>>, tokens' <= MaxTokens + 1,
         Open' \subseteq Open
  PROVE  Tallied'
<1>1. Cardinality(ran' \cup Open') <= MaxToolCalls
  BY FewerOpen
<1>2. \A call \in Open' : Fitting(call)'
  BY DEF LoopInv, Tallied, Fitting
<1> QED
  BY <1>1, <1>2 DEF LoopInv, Tallied

\* A thread that was at work leaves the loop for good: with the session it
\* clears, with an error, or interrupted.
LEMMA LeavingWith ==
  ASSUME LoopInv, ~doubled, UNCHANGED doubled, NEW t \in Threads, Busy(t), LoopTyped',
         NEW copy \in Sessions, copy.request = NoRequest,
         NEW result \in LoopResults \ {"waiting"}, Returns(t, copy, result),
         disk'.resume = NoResume, disk'.request \in {disk.request, NoRequest},
         UNCHANGED <<interrupter, interrupts, restarts, broken>>, Tallied',
         \/ /\ result = "error" /\ UNCHANGED <<runStatus, terminals, job>>
         \/ /\ result \in {"completed", "failed"}
            /\ job'.cancel = job.cancel /\ job'.status \in {job.status, "running"}
            /\ Ends(Session(NoRequest, NoResume, "idle"), result, result)
         \/ job.cancel
  PROVE  LoopInv'
<1>1. Moved(t) /\ loops'[t].at = "returned" /\ loops'[t].result = result /\ loops'[t].copy = copy
  BY IsReturned DEF LoopInv
<1>2. Occupied(t)
  BY DEF Occupied, Busy, At
<1>3. \A u \in Threads : u # t =>
           /\ ~Occupied(u) /\ ~Occupied(u)' /\ ~Busy(u) /\ ~Busy(u)' /\ ~Answering(u) /\ ~Answering(u)'
           /\ ~At(u, "given")'
           /\ LoopSound(u)' /\ GivenSound(u)' /\ AnswerSound(u)' /\ CopySound(u)'
           /\ At(u, "returned")' => loops'[u].result = "waiting"
  BY <1>1, <1>2, OthersRest
<1>4. ~InLoop(t)' /\ ~Answering(t)' /\ ~Busy(t)' /\ ~At(t, "given")' /\ At(t, "returned")'
  BY <1>1 DEF InLoop, Answering, Busy, At
<1>5. LoopSound(t)' /\ GivenSound(t)' /\ AnswerSound(t)' /\ CopySound(t)'
  BY <1>1, <1>4 DEF LoopSound, GivenSound, AnswerSound, CopySound, At, Copy
<1>6. OneAtWork'
  <2>1. \A u, v \in Threads : Occupied(u)' /\ Occupied(v)' => u = v
    BY <1>3
  <2>2. Occupied("worker")' => t = "worker"
    BY <1>3 DEF Threads
  <2>3. t = "worker" => disk'.request = NoRequest /\ interrupter'.copy.request = NoRequest
    BY <1>2 DEF LoopInv, OneAtWork
  <2>4. ~Answering("worker")' /\ \A r \in Responders : ~At(r, "given")'
    BY <1>3, <1>4 DEF Threads
  <2> QED
    BY <2>1, <2>2, <2>3, <2>4 DEF OneAtWork
<1>8. SavedSound'
  <2>1. ~(disk'.resume # NoResume)
    OBVIOUS
  <2> QED
    BY <2>1 DEF SavedSound, Promises
<1>10. Ending'
  <2> SUFFICES ASSUME Still'
               PROVE (~job.cancel /\ interrupter.at = "rest" /\ (GoesOn \/ \E status \in {"completed", "failed"} : HasEnded(status)))'
    BY DEF Ending
  <2>1. Still /\ ~job.cancel /\ interrupter'.at = "rest" /\ GoesOn
    BY DEF LoopInv, Ending, Still, HasEnded
  <2>2. CASE result = "error" /\ UNCHANGED <<runStatus, terminals, job>>
    <3>1. \A u \in Threads : At(u, "returned")' => loops'[u].result \in {"waiting", "error"}
      BY <1>1, <1>3, <2>2
    <3> QED
      BY <2>1, <2>2, <3>1 DEF GoesOn
  <2>3. CASE /\ result \in {"completed", "failed"}
             /\ job'.cancel = job.cancel /\ job'.status \in {job.status, "running"}
             /\ Ends(Session(NoRequest, NoResume, "idle"), result, result)
    <3>1. \A u \in Threads : ~Busy(u)' /\ (At(u, "returned")' => loops'[u].result \in {"waiting", result})
      BY <1>1, <1>3, <1>4
    <3>2. runStatus' = result /\ disk' = Session(NoRequest, NoResume, "idle") /\ terminals' = <<result>>
      BY <2>1, <2>3 DEF GoesOn, Ends
    <3>3. job'.status \in {"running", "waiting"} /\ ~job'.cancel
      BY <2>1, <2>3 DEF GoesOn
    <3>4. HasEnded(result)'
      BY <3>1, <3>2, <3>3 DEF HasEnded
    <3> QED
        BY <2>1, <2>3, <3>3, <3>4
  <2> QED
    BY <2>1, <2>2, <2>3
<1>11. \A u \in Threads : LoopSound(u)' /\ GivenSound(u)' /\ AnswerSound(u)' /\ CopySound(u)'
  BY <1>3, <1>5
<1> QED
  BY <1>6, <1>8, <1>10, <1>11 DEF LoopInv

\* What has been said, run and asked about stays.
LEMMA Leaving ==
  ASSUME LoopInv, ~doubled, UNCHANGED doubled, NEW t \in Threads, Busy(t), LoopTyped',
         NEW copy \in Sessions, copy.request = NoRequest,
         NEW result \in LoopResults \ {"waiting"}, Returns(t, copy, result),
         disk'.resume = NoResume, disk'.request \in {disk.request, NoRequest},
         UNCHANGED <<talk, screen, ran, interrupter, interrupts, restarts, broken>>,
         tokens' <= MaxTokens + 1,
         \/ /\ result = "error" /\ UNCHANGED <<runStatus, terminals, job>>
         \/ /\ result \in {"completed", "failed"} /\ UNCHANGED job
            /\ Ends(Session(NoRequest, NoResume, "idle"), result, result)
         \/ job.cancel
  PROVE  LoopInv'
<1>1. Moved(t) /\ loops'[t].at = "returned" /\ Occupied(t)
  BY IsReturned DEF LoopInv, Occupied, Busy, At
<1>2. Open' \subseteq Open
  <2>1. \A u \in Threads : ~Answering(u)'
    BY <1>1, OthersRest DEF Answering
  <2>2. Open' = Noted(disk'.request) \cup Noted(interrupter'.copy.request)
    BY <2>1 DEF Open
  <2> QED
    BY <2>2 DEF Open, Noted
<1>3. Tallied'
  BY <1>2, TallyStays
<1> QED
  BY <1>3, LeavingWith

LEMMA IsMarked ==
  ASSUME LoopTyped, NEW status \in Execution!Status
  PROVE  /\ Marked(status) \in [status : Execution!Status, cancel : BOOLEAN]
         /\ Marked(status).cancel = job.cancel /\ Marked(status).status \in {job.status, status}
  BY DEF LoopTyped, Marked

LEMMA IsInterrupted ==
  ASSUME LoopTyped, NEW copy \in Sessions, Interrupted(copy)
  PROVE  /\ disk' \in Sessions /\ disk'.request = copy.request /\ disk'.resume = NoResume
         /\ runStatus' \in Execution!Terminal
         /\ job' \in [status : Execution!Status, cancel : BOOLEAN]
         /\ terminals' \in Seq(Execution!Terminal)
<1>1. "interrupted" \in Execution!Status /\ "interrupted" \in Execution!Terminal
  BY DEF Execution!Status, Execution!Terminal
<1>2. job' \in [status : Execution!Status, cancel : BOOLEAN]
  BY <1>1, IsMarked DEF Interrupted
<1>3. Append(terminals, "interrupted") \in Seq(Execution!Terminal)
  BY <1>1, AppendProperties DEF LoopTyped
<1>4. terminals' \in Seq(Execution!Terminal)
  BY <1>3 DEF Interrupted, LoopTyped
<1>5. disk' = [copy EXCEPT !.resume = NoResume, !.status = "stop"]
  BY DEF Interrupted
<1> QED
  BY <1>1, <1>2, <1>4, <1>5, SessionIs DEF Interrupted

LEMMA ThreadsTyped ==
  ASSUME LoopTyped, NEW t \in Threads, Moved(t), ThreadTyped(loops'[t])
  PROVE  DOMAIN loops' = Threads /\ \A u \in Threads : ThreadTyped(loops'[u])
  BY DEF LoopTyped, Moved

\* Whoever works for the turn and does not answer has no request in its copy.
LEMMA CopyIsClear ==
  ASSUME LoopInv, ~doubled, NEW t \in Threads, Busy(t)
  PROVE  Copy(t) \in Sessions /\ Copy(t).request = NoRequest
  BY DEF LoopInv, LoopTyped, ThreadTyped, CopySound, Busy, At, Copy

LEMMA Failing ==
  ASSUME LoopInv, NEW t \in Threads, Busy(t), Fails(t),
         UNCHANGED <<job, talk, screen, interrupter, interrupts, restarts, late, ran, doubled, broken>>,
         tokens' \in Nat, ~doubled => tokens' <= MaxTokens + 1
  PROVE  LoopInv'
<1> DEFINE copy == [Copy(t) EXCEPT !.resume = NoResume, !.status = "idle"]
<1>1. Ends(copy, "failed", "failed") /\ Returns(t, copy, "failed")
  BY DEF Fails
<1>2. Copy(t) \in Sessions
  BY DEF LoopInv, LoopTyped, ThreadTyped, Copy
<1>3. copy \in Sessions /\ copy.resume = NoResume /\ copy.request = Copy(t).request
      /\ (Copy(t).request = NoRequest => copy = Session(NoRequest, NoResume, "idle"))
  BY <1>2, SessionIs
<1> HIDE DEF copy
<1>4. "failed" \in Execution!Terminal /\ "failed" \in LoopResults
  BY DEF Execution!Terminal, LoopResults
<1>5. LoopTyped'
  <2>1. Moved(t) /\ ThreadTyped(loops'[t])
    BY <1>1, <1>3, <1>4, IsReturned DEF LoopInv
  <2>2. DOMAIN loops' = Threads /\ \A u \in Threads : ThreadTyped(loops'[u])
    BY <2>1, ThreadsTyped DEF LoopInv
  <2>3. terminals' \in Seq(Execution!Terminal) /\ disk' \in Sessions /\ runStatus' = "failed"
    BY <1>1, <1>3, <1>4, AppendProperties DEF Ends, LoopInv, LoopTyped
  <2> QED
    BY <1>4, <2>2, <2>3 DEF LoopInv, LoopTyped
<1>6. CASE doubled
  BY <1>5, <1>6 DEF LoopInv
<1>7. CASE ~doubled
  <2>1. Copy(t).request = NoRequest
    BY <1>7, CopyIsClear
  <2>2. disk' = copy /\ disk'.resume = NoResume /\ disk'.request = NoRequest
        /\ Ends(Session(NoRequest, NoResume, "idle"), "failed", "failed")
    BY <1>1, <1>3, <2>1 DEF Ends
  <2> QED
    BY <1>1, <1>3, <1>4, <1>5, <1>7, <2>1, <2>2, Leaving
<1> QED
  BY <1>6, <1>7

LEMMA StepsRunOutKeeps ==
  ASSUME LoopInv, NEW t \in Threads, StepsRunOut(t) \/ BudgetRunsOut(t) \/ CallTooMany(t) \/ RunsOverGiven(t)
  PROVE  LoopInv'
<1>1. Busy(t) /\ Fails(t)
  BY DEF StepsRunOut, BudgetRunsOut, CallTooMany, RunsOverGiven, HasCall, At, Busy
<1>2. UNCHANGED <<job, talk, screen, interrupter, interrupts, restarts, late, ran, doubled, broken, tokens>>
  BY DEF StepsRunOut, BudgetRunsOut, CallTooMany, RunsOverGiven, world, ghosts
<1>3. tokens' \in Nat /\ (~doubled => tokens' <= MaxTokens + 1)
  BY <1>2 DEF LoopInv, LoopTyped, Tallied
<1> QED
  BY <1>1, <1>2, <1>3, Failing

LEMMA Stopping ==
  ASSUME LoopInv, NEW t \in Threads, Busy(t), job.cancel, Interrupted(Copy(t)),
         Returns(t, disk', "interrupted"),
         UNCHANGED <<talk, screen, interrupter, interrupts, restarts, late, ran, tokens, doubled, broken>>
  PROVE  LoopInv'
<1>1. Copy(t) \in Sessions
  BY DEF LoopInv, LoopTyped, ThreadTyped, Copy
<1>2. /\ disk' \in Sessions /\ disk'.request = Copy(t).request /\ disk'.resume = NoResume
      /\ runStatus' \in Execution!Terminal
      /\ job' \in [status : Execution!Status, cancel : BOOLEAN]
      /\ terminals' \in Seq(Execution!Terminal)
  BY <1>1, IsInterrupted DEF LoopInv
<1>3. LoopTyped'
  <2>1. Moved(t) /\ ThreadTyped(loops'[t])
    BY <1>2, IsReturned DEF LoopInv, LoopResults
  <2>2. DOMAIN loops' = Threads /\ \A u \in Threads : ThreadTyped(loops'[u])
    BY <2>1, ThreadsTyped DEF LoopInv
  <2> QED
    BY <1>2, <2>2 DEF LoopInv, LoopTyped
<1>4. CASE doubled
  BY <1>3, <1>4 DEF LoopInv
<1>5. CASE ~doubled
  <2>1. Copy(t).request = NoRequest
    BY <1>5, CopyIsClear
  <2>2. "interrupted" \in LoopResults \ {"waiting"} /\ tokens' <= MaxTokens + 1
    BY <1>5 DEF LoopResults, LoopInv, Tallied
  <2> QED
    BY <1>2, <1>3, <1>5, <2>1, <2>2, Leaving
<1> QED
  BY <1>4, <1>5

LEMMA NoticesInterruptKeeps ==
  ASSUME LoopInv, NEW t \in Threads, NoticesInterrupt(t)
  PROVE  LoopInv'
  BY Stopping DEF NoticesInterrupt, At, Busy, world, ghosts

LEMMA CancelsCallKeeps ==
  ASSUME LoopInv, NEW t \in Threads, CancelsCall(t)
  PROVE  LoopInv'
<1>1. Busy(t)
  BY DEF CancelsCall, Busy
<1>2. UNCHANGED <<talk, screen, interrupter, interrupts, restarts, late, ran, tokens, doubled, broken>>
  BY DEF CancelsCall, world, ghosts
<1>3. CASE late
  <2>1. Fails(t) /\ UNCHANGED job
    BY <1>3 DEF CancelsCall
  <2>2. tokens' \in Nat /\ (~doubled => tokens' <= MaxTokens + 1)
    BY <1>2 DEF LoopInv, LoopTyped, Tallied
  <2> QED
    BY <1>1, <1>2, <2>1, <2>2, Failing
<1>4. CASE ~late
  <2>1. Interrupted(Copy(t)) /\ Returns(t, disk', "interrupted") /\ job.cancel
    BY <1>4 DEF CancelsCall, ShouldCancel
  <2> QED
    BY <1>1, <1>2, <2>1, Stopping
<1> QED
  BY <1>3, <1>4

\* The context cannot be built, or the provider's answer is no answer.
LEMMA Erring ==
  ASSUME LoopInv, NEW t \in Threads, InLoop(t), Returns(t, Copy(t), "error"),
         disk' = Copy(t) \/ (UNCHANGED disk /\ ~At(t, "check")),
         UNCHANGED <<talk, screen, interrupter, interrupts, restarts, late, ran, tokens, doubled,
                     broken, runStatus, terminals, job>>
  PROVE  LoopInv'
<1>1. Copy(t) \in Sessions /\ Busy(t)
  BY DEF LoopInv, LoopTyped, ThreadTyped, Copy, InLoop, Busy
<1>2. LoopTyped'
  <2>1. Moved(t) /\ ThreadTyped(loops'[t])
    BY <1>1, IsReturned DEF LoopInv, LoopResults
  <2>2. DOMAIN loops' = Threads /\ \A u \in Threads : ThreadTyped(loops'[u])
    BY <2>1, ThreadsTyped DEF LoopInv
  <2> QED
    BY <1>1, <2>2 DEF LoopInv, LoopTyped
<1>3. CASE doubled
  BY <1>2, <1>3 DEF LoopInv
<1>4. CASE ~doubled
  <2>1. Copy(t).request = NoRequest
    BY <1>1, <1>4, CopyIsClear
  <2>2. disk'.resume = NoResume /\ disk'.request \in {disk.request, NoRequest}
    BY <1>4, <2>1 DEF LoopInv, LoopSound
  <2>3. "error" \in LoopResults \ {"waiting"} /\ tokens' <= MaxTokens + 1
    BY <1>4 DEF LoopResults, LoopInv, Tallied
  <2> QED
    BY <1>1, <1>2, <1>4, <2>1, <2>2, <2>3, Leaving
<1> QED
  BY <1>3, <1>4

LEMMA ContextFailsKeeps ==
  ASSUME LoopInv, NEW t \in Threads, ContextFails(t)
  PROVE  LoopInv'
  BY Erring DEF ContextFails, MayBegin, At, InLoop, world, ghosts

LEMMA RefusedKeeps ==
  ASSUME LoopInv, NEW t \in Threads, Refused(t)
  PROVE  LoopInv'
  BY Erring DEF Refused, At, InLoop, world, ghosts

\* A thread moves within the loop.
LEMMA StayingWith ==
  ASSUME LoopInv, ~doubled, NEW t \in Threads, InLoop(t), InLoop(t)', LoopTyped', Moved(t),
         UNCHANGED <<runStatus, job, terminals, interrupter, interrupts, restarts, doubled, broken>>,
         loops'[t].copy = loops[t].copy, LoopSound(t)', Tallied', SavedSound',
         disk' = Copy(t) \/ UNCHANGED disk
  PROVE  LoopInv'
<1>1. Busy(t) /\ Occupied(t) /\ Occupied(t)' /\ ~At(t, "returned") /\ ~At(t, "returned")' /\ Busy(t)'
  BY DEF InLoop, Busy, Occupied, At
<1>2. \A u \in Threads : u # t =>
           /\ ~Occupied(u) /\ ~Occupied(u)' /\ ~Busy(u) /\ ~Busy(u)' /\ ~Answering(u) /\ ~Answering(u)'
           /\ ~At(u, "given") /\ ~At(u, "given")'
           /\ LoopSound(u)' /\ GivenSound(u)' /\ AnswerSound(u)' /\ CopySound(u)'
           /\ At(u, "returned")' => loops'[u].result = "waiting"
  BY <1>1, OthersRest
<1>3. ~Answering(t) /\ ~Answering(t)' /\ ~At(t, "given") /\ ~At(t, "given")'
  BY DEF InLoop, Answering, At
<1>4. Copy(t).request = NoRequest /\ Copy(t).resume = NoResume
  BY <1>1, CopyIsClear DEF LoopInv, LoopSound
<1>6. OneAtWork'
  <2>1. \A u, v \in Threads : Occupied(u)' /\ Occupied(v)' => u = v
    BY <1>2
  <2>2. Occupied("worker")' => t = "worker"
    BY <1>2 DEF Threads
  <2>3. t = "worker" => disk'.request = NoRequest /\ interrupter'.copy.request = NoRequest
    BY <1>1, <1>4 DEF LoopInv, OneAtWork
  <2>4. ~Answering("worker")' /\ \A r \in Responders : ~At(r, "given")'
    BY <1>2, <1>3 DEF Threads
  <2> QED
    BY <2>1, <2>2, <2>3, <2>4 DEF OneAtWork
<1>9. Ending'
  BY <1>1, <1>2 DEF LoopInv, Ending, Still, GoesOn, HasEnded
<1>10. \A u \in Threads : LoopSound(u)' /\ GivenSound(u)' /\ AnswerSound(u)' /\ CopySound(u)'
  <2>1. GivenSound(t)' /\ AnswerSound(t)'
    BY <1>3 DEF GivenSound, AnswerSound
  <2>2. CopySound(t)'
    BY <1>4 DEF CopySound, Copy
  <2> QED
    BY <1>2, <2>1, <2>2
<1> QED
  BY <1>6, <1>9, <1>10 DEF LoopInv

\* A thread moves within the loop and says, runs and spends nothing.
LEMMA Staying ==
  ASSUME LoopInv, ~doubled, NEW t \in Threads, InLoop(t), InLoop(t)', LoopTyped', Moved(t),
         UNCHANGED <<runStatus, job, talk, terminals, interrupter, late, interrupts, restarts,
                     ran, tokens, doubled, broken>>,
         loops'[t].copy = loops[t].copy, LoopSound(t)',
         disk' = Copy(t) \/ UNCHANGED disk,
         UNCHANGED screen \/ (/\ disk'.resume = NoResume
                              /\ \A i \in 1..Len(talk) : talk[i].step # screen'.step)
  PROVE  LoopInv'
<1>1. Busy(t) /\ Occupied(t) /\ ~Answering(t)'
  BY DEF InLoop, Busy, Occupied, At, Answering
<1>2. Copy(t).request = NoRequest /\ Copy(t).resume = NoResume
  BY <1>1, CopyIsClear DEF LoopInv, LoopSound
<1>3. Open' \subseteq Open
  <2>1. \A u \in Threads : ~Answering(u)'
    BY <1>1, OthersRest
  <2>2. Open' = Noted(disk'.request) \cup Noted(interrupter'.copy.request)
    BY <2>1 DEF Open
  <2> QED
    BY <1>2, <2>2 DEF Open, Noted
<1>4. SavedSound'
  <2>1. CASE disk'.resume = NoResume
    BY <2>1 DEF SavedSound, Promises
  <2>2. CASE UNCHANGED <<disk, screen>>
    <3>1. SavedSound
      BY DEF LoopInv
    <3> QED
      BY <1>3, <2>2, <3>1 DEF SavedSound, Promises, Before, Unshown, CallOf
  <2> QED
    BY <1>2, <2>1, <2>2
<1>5. CASE UNCHANGED screen
  <2>1. tokens' <= MaxTokens + 1
    BY DEF LoopInv, Tallied
  <2>2. Tallied'
    BY <1>3, <1>5, <2>1, TallyStays
  <2> QED
    BY <1>4, <2>2, StayingWith
<1>6. CASE \A i \in 1..Len(talk) : talk[i].step # screen'.step
  <2>1. Tallied'
    <3>1. Cardinality(ran' \cup Open') <= MaxToolCalls
      BY <1>3, FewerOpen
    <3>2. \A call \in Open' : Fitting(call)'
      BY <1>3 DEF LoopInv, Tallied, Fitting
    <3> QED
      BY <1>6, <3>1, <3>2 DEF LoopInv, Tallied
  <2> QED
    BY <1>4, <2>1, StayingWith
<1> QED
  BY <1>5, <1>6

\* What stays sound of a loop whose counts and whose step stay.
LEMMA SameCounts ==
  ASSUME LoopInv, ~doubled, NEW t \in Threads, InLoop(t), Moved(t), ~Answering(t)',
         loops'[t].copy = loops[t].copy,
         UNCHANGED <<interrupter, ran, tokens>>, disk' = Copy(t) \/ UNCHANGED disk,
         loops'[t].carry.calls = loops[t].carry.calls,
         loops'[t].carry.tokens = loops[t].carry.tokens
  PROVE  /\ Copy(t)'.resume = NoResume /\ Open' \subseteq ran'
         /\ Cardinality(ran') <= loops'[t].carry.calls /\ loops'[t].carry.calls <= MaxToolCalls
         /\ tokens' <= loops'[t].carry.tokens /\ loops'[t].carry.tokens <= MaxTokens
<1>1. LoopSound(t) /\ Occupied(t) /\ Busy(t)
  BY DEF LoopInv, InLoop, Occupied, Busy, At
<1>2. Copy(t).request = NoRequest /\ Copy(t).resume = NoResume
  BY <1>1, CopyIsClear DEF LoopSound
<1>3. Open' \subseteq Open
  <2>1. \A u \in Threads : ~Answering(u)'
    BY <1>1, OthersRest
  <2>2. Open' = Noted(disk'.request) \cup Noted(interrupter'.copy.request)
    BY <2>1 DEF Open
  <2> QED
    BY <1>2, <2>2 DEF Open, Noted
<1> QED
  BY <1>1, <1>2, <1>3 DEF LoopSound, Copy

LEMMA CopyOnDisk ==
  ASSUME LoopInv, ~doubled, NEW t \in Threads, InLoop(t), UNCHANGED <<talk, interrupter>>,
         disk' = Copy(t) \/ UNCHANGED disk, NEW s \in Nat, Before(s), s > 0
  PROVE  Before(s)'
<1>1. Copy(t).request = NoRequest
  BY CopyIsClear DEF InLoop, Busy
<1> QED
  BY <1>1, Constants DEF Before

LEMMA BeginsStepKeeps ==
  ASSUME LoopInv, NEW t \in Threads, BeginsStep(t)
  PROVE  LoopInv'
<1>1. /\ Moved(t) /\ ThreadTyped(loops'[t])
      /\ loops'[t].at = "send" /\ loops'[t].text = <<>> /\ loops'[t].streamed = FALSE
      /\ loops'[t].carry = loops[t].carry /\ loops'[t].copy = loops[t].copy
  BY IsBegun DEF LoopInv, BeginsStep
<1>2. At(t, "check") /\ InLoop(t) /\ disk' = Copy(t) /\ Copy(t) \in Sessions
  BY DEF BeginsStep, MayBegin, At, InLoop, LoopInv, LoopTyped, ThreadTyped, Copy
<1>3. UNCHANGED <<runStatus, job, talk, screen, terminals, interrupter, late, interrupts, restarts,
                  ran, tokens, doubled, broken>>
  BY DEF BeginsStep, world, ghosts
<1>4. LoopTyped'
  <2>1. DOMAIN loops' = Threads /\ \A u \in Threads : ThreadTyped(loops'[u])
    BY <1>1, ThreadsTyped DEF LoopInv
  <2> QED
    BY <1>2, <1>3, <2>1 DEF LoopInv, LoopTyped
<1>5. CASE doubled
  BY <1>3, <1>4, <1>5 DEF LoopInv
<1>6. CASE ~doubled
  <2>1. InLoop(t)' /\ ~Answering(t)' /\ Step(t)' = Step(t) /\ Step(t) \in Nat
    BY <1>1 DEF InLoop, Answering, Step, LoopInv, LoopTyped, ThreadTyped, Carries
  <2>2. Before(Step(t)) /\ screen.step < Step(t) /\ screen.step \in Nat
    BY <1>2, <1>6 DEF LoopInv, LoopSound, LoopTyped, Unshown
  <2>3. Before(Step(t))'
    BY <1>2, <1>3, <1>6, <2>1, <2>2, CopyOnDisk
  <2>4. /\ Copy(t)'.resume = NoResume /\ Open' \subseteq ran'
        /\ Cardinality(ran') <= loops'[t].carry.calls /\ loops'[t].carry.calls <= MaxToolCalls
        /\ tokens' <= loops'[t].carry.tokens /\ loops'[t].carry.tokens <= MaxTokens
    BY <1>1, <1>2, <1>3, <1>6, <2>1, SameCounts
  <2>5. disk'.resume = NoResume
    BY <1>2, <1>6 DEF LoopInv, LoopSound
  <2>6. LoopSound(t)'
    BY <1>1, <1>3, <2>1, <2>2, <2>3, <2>4, <2>5 DEF LoopSound, At
  <2> QED
    BY <1>1, <1>2, <1>3, <1>4, <1>6, <2>1, <2>6, Staying
<1> QED
  BY <1>5, <1>6

LEMMA TalkHas ==
  ASSUME LoopTyped
  PROVE  \A i \in 1..Len(talk) : /\ talk[i] \in Messages /\ talk[i].step \in Nat
                                 /\ talk[i].text \in Seq(Nat) /\ talk[i].calls \in Seq(CallKinds)
<1> SUFFICES ASSUME NEW i \in 1..Len(talk)
             PROVE  /\ talk[i] \in Messages /\ talk[i].step \in Nat
                    /\ talk[i].text \in Seq(Nat) /\ talk[i].calls \in Seq(CallKinds)
  OBVIOUS
<1>1. talk \in Seq(Messages)
  BY DEF LoopTyped
<1>2. talk[i] \in Messages
  BY <1>1, ElementOfSeq
<1> QED
  BY <1>2 DEF Messages

LEMMA RetriesCallKeeps ==
  ASSUME LoopInv, NEW t \in Threads, RetriesCall(t)
  PROVE  LoopInv'
<1>1. /\ Moved(t) /\ ThreadTyped(loops'[t])
      /\ loops'[t].at = loops[t].at /\ loops'[t].text = loops[t].text
      /\ loops'[t].streamed = loops[t].streamed
      /\ loops'[t].carry = loops[t].carry /\ loops'[t].copy = loops[t].copy
  BY IsRetried DEF LoopInv, RetriesCall
<1>2. At(t, "send") /\ InLoop(t)
  BY DEF RetriesCall, At, InLoop
<1>3. UNCHANGED <<disk, runStatus, job, talk, screen, terminals, interrupter, late, interrupts, restarts,
                  ran, tokens, doubled, broken>>
  BY DEF RetriesCall, world, ghosts
<1>4. LoopTyped'
  <2>1. DOMAIN loops' = Threads /\ \A u \in Threads : ThreadTyped(loops'[u])
    BY <1>1, ThreadsTyped DEF LoopInv
  <2> QED
    BY <1>3, <2>1 DEF LoopInv, LoopTyped
<1>5. CASE doubled
  BY <1>3, <1>4, <1>5 DEF LoopInv
<1>6. CASE ~doubled
  <2>1. InLoop(t)' /\ ~Answering(t)' /\ Step(t)' = Step(t)
    BY <1>1, <1>2 DEF InLoop, Answering, Step, At
  <2>2. /\ Copy(t)'.resume = NoResume /\ Open' \subseteq ran'
        /\ Cardinality(ran') <= loops'[t].carry.calls /\ loops'[t].carry.calls <= MaxToolCalls
        /\ tokens' <= loops'[t].carry.tokens /\ loops'[t].carry.tokens <= MaxTokens
    BY <1>1, <1>2, <1>3, <1>6, <2>1, SameCounts
  <2>3. LoopSound(t)'
    BY <1>1, <1>2, <1>3, <1>6, <2>1, <2>2 DEF LoopInv, LoopSound, At, Before
  <2> QED
    BY <1>1, <1>2, <1>3, <1>4, <1>6, <2>1, <2>3, Staying
<1> QED
  BY <1>5, <1>6

LEMMA GivesUpModelKeeps ==
  ASSUME LoopInv, NEW t \in Threads, GivesUpModel(t)
  PROVE  LoopInv'
<1>1. loops[t].at \in {"send", "stream"} /\ InLoop(t) /\ ~At(t, "check")
  BY DEF GivesUpModel, At, InLoop
<1>2. UNCHANGED <<disk, runStatus, job, talk, terminals, interrupter, late, interrupts, restarts,
                  ran, tokens, doubled, broken>>
  BY DEF GivesUpModel, world, ghosts
<1>3. CASE loops[t].model < Models
  <2>1. loops' = [loops EXCEPT ![t] = FallsBack(t)] /\ screen' = [step |-> Step(t), text |-> <<>>]
    BY <1>3 DEF GivesUpModel
  <2>2. /\ Moved(t) /\ ThreadTyped(loops'[t])
        /\ loops'[t].at = "send" /\ loops'[t].text = <<>> /\ loops'[t].streamed = FALSE
        /\ loops'[t].carry = loops[t].carry /\ loops'[t].copy = loops[t].copy
    BY <2>1, IsFallback DEF LoopInv
  <2>3. Step(t) \in Nat
    BY DEF LoopInv, LoopTyped, ThreadTyped, Carries, Step
  <2>4. LoopTyped'
    <3>1. DOMAIN loops' = Threads /\ \A u \in Threads : ThreadTyped(loops'[u])
      BY <2>2, ThreadsTyped DEF LoopInv
    <3>2. screen' \in [step : Nat, text : Seq(Nat)]
      BY <2>1, <2>3
    <3> QED
      BY <1>2, <3>1, <3>2 DEF LoopInv, LoopTyped
  <2>5. CASE doubled
    BY <1>2, <2>4, <2>5 DEF LoopInv
  <2>6. CASE ~doubled
    <3>1. InLoop(t)' /\ ~Answering(t)' /\ Step(t)' = Step(t)
      BY <2>2 DEF InLoop, Answering, Step, At
    <3>2. /\ Copy(t)'.resume = NoResume /\ Open' \subseteq ran'
          /\ Cardinality(ran') <= loops'[t].carry.calls /\ loops'[t].carry.calls <= MaxToolCalls
          /\ tokens' <= loops'[t].carry.tokens /\ loops'[t].carry.tokens <= MaxTokens
      BY <1>1, <1>2, <2>2, <2>6, <3>1, SameCounts
    <3>3. Before(Step(t)) /\ disk.resume = NoResume
      BY <1>1, <2>6 DEF LoopInv, LoopSound, At
    <3>4. LoopSound(t)'
      BY <1>2, <2>1, <2>2, <2>3, <3>1, <3>2, <3>3 DEF LoopSound, At, Before
    <3>5. \A i \in 1..Len(talk) : talk[i].step # screen'.step
      <4>1. \A i \in 1..Len(talk) : talk[i].step \in Nat
        BY TalkHas DEF LoopInv
      <4> QED
        BY <2>1, <2>3, <3>3, <4>1 DEF Before
    <3> QED
      BY <1>1, <1>2, <2>2, <2>4, <2>6, <3>1, <3>3, <3>4, <3>5, Staying
  <2> QED
    BY <2>5, <2>6
<1>4. CASE ~(loops[t].model < Models)
  <2>1. Returns(t, Copy(t), "error") /\ UNCHANGED screen
    BY <1>4 DEF GivesUpModel
  <2> QED
    BY <1>1, <1>2, <2>1, Erring
<1> QED
  BY <1>3, <1>4

LEMMA StreamsKeeps ==
  ASSUME LoopInv, NEW t \in Threads, Streams(t)
  PROVE  LoopInv'
<1>1. loops[t].at \in {"send", "stream"} /\ InLoop(t) /\ ~At(t, "check")
  BY DEF Streams, At, InLoop
<1>2. UNCHANGED <<disk, runStatus, job, talk, terminals, interrupter, late, interrupts, restarts,
                  ran, tokens, doubled, broken>>
  BY DEF Streams, world, ghosts
<1>3. /\ Moved(t) /\ ThreadTyped(loops'[t])
      /\ loops'[t].at = "stream" /\ loops'[t].streamed = TRUE
      /\ loops'[t].text = Append(loops[t].text, loops[t].model)
      /\ loops'[t].carry = loops[t].carry /\ loops'[t].copy = loops[t].copy
  BY IsStreaming DEF LoopInv, Streams
<1>4. screen' = [step |-> Step(t),
                 text |-> Append(IF screen.step = Step(t) THEN screen.text ELSE <<>>, loops[t].model)]
  BY DEF Streams
<1>5. Step(t) \in Nat /\ loops[t].model \in Nat /\ screen.text \in Seq(Nat)
  BY DEF LoopInv, LoopTyped, ThreadTyped, Carries, Step
<1>6. LoopTyped'
  <2>1. DOMAIN loops' = Threads /\ \A u \in Threads : ThreadTyped(loops'[u])
    BY <1>3, ThreadsTyped DEF LoopInv
  <2>2. (IF screen.step = Step(t) THEN screen.text ELSE <<>>) \in Seq(Nat)
    BY <1>5
  <2>3. Append(IF screen.step = Step(t) THEN screen.text ELSE <<>>, loops[t].model) \in Seq(Nat)
    BY <1>5, <2>2, AppendProperties
  <2>4. screen' \in [step : Nat, text : Seq(Nat)]
    BY <1>4, <1>5, <2>3
  <2> QED
    BY <1>2, <2>1, <2>4 DEF LoopInv, LoopTyped
<1>7. CASE doubled
  BY <1>2, <1>6, <1>7 DEF LoopInv
<1>8. CASE ~doubled
  <2>1. InLoop(t)' /\ ~Answering(t)' /\ Step(t)' = Step(t)
    BY <1>3 DEF InLoop, Answering, Step, At
  <2>2. /\ Copy(t)'.resume = NoResume /\ Open' \subseteq ran'
        /\ Cardinality(ran') <= loops'[t].carry.calls /\ loops'[t].carry.calls <= MaxToolCalls
        /\ tokens' <= loops'[t].carry.tokens /\ loops'[t].carry.tokens <= MaxTokens
    BY <1>1, <1>2, <1>3, <1>8, <2>1, SameCounts
  <2>3. Before(Step(t)) /\ disk.resume = NoResume
    BY <1>1, <1>8 DEF LoopInv, LoopSound, At
  <2>4. (IF screen.step = Step(t) THEN screen.text ELSE <<>>) = loops[t].text
    BY <1>1, <1>8 DEF LoopInv, LoopSound, At
  <2>5. LoopSound(t)'
    BY <1>2, <1>3, <1>4, <2>1, <2>2, <2>3, <2>4 DEF LoopSound, At, Before
  <2>6. \A i \in 1..Len(talk) : talk[i].step # screen'.step
    <3>1. \A i \in 1..Len(talk) : talk[i].step \in Nat
      BY TalkHas DEF LoopInv
    <3> QED
      BY <1>4, <1>5, <2>3, <3>1 DEF Before
  <2> QED
    BY <1>1, <1>2, <1>3, <1>6, <1>8, <2>1, <2>3, <2>5, <2>6, Staying
<1> QED
  BY <1>7, <1>8

LEMMA EndsStepKeeps ==
  ASSUME LoopInv, NEW t \in Threads, EndsStep(t)
  PROVE  LoopInv'
<1>1. /\ Moved(t) /\ ThreadTyped(loops'[t])
      /\ loops'[t].at = "check"
      /\ loops'[t].carry.step = loops[t].carry.step + 1
      /\ loops'[t].carry.calls = loops[t].carry.calls
      /\ loops'[t].carry.tokens = loops[t].carry.tokens
      /\ loops'[t].copy = loops[t].copy
  BY IsNextStep DEF LoopInv, EndsStep
<1>2. At(t, "batch") /\ InLoop(t)
  BY DEF EndsStep, At, InLoop
<1>3. UNCHANGED <<disk, runStatus, job, talk, screen, terminals, interrupter, late, interrupts, restarts,
                  ran, tokens, doubled, broken>>
  BY DEF EndsStep, world, ghosts
<1>4. LoopTyped'
  <2>1. DOMAIN loops' = Threads /\ \A u \in Threads : ThreadTyped(loops'[u])
    BY <1>1, ThreadsTyped DEF LoopInv
  <2> QED
    BY <1>3, <2>1 DEF LoopInv, LoopTyped
<1>5. CASE doubled
  BY <1>3, <1>4, <1>5 DEF LoopInv
<1>6. CASE ~doubled
  <2>1. InLoop(t)' /\ ~Answering(t)' /\ Step(t)' = Step(t) + 1 /\ Step(t) \in Nat
    BY <1>1, <1>2 DEF InLoop, Answering, Step, At, LoopInv, LoopTyped, ThreadTyped, Carries
  <2>2. /\ Copy(t)'.resume = NoResume /\ Open' \subseteq ran'
        /\ Cardinality(ran') <= loops'[t].carry.calls /\ loops'[t].carry.calls <= MaxToolCalls
        /\ tokens' <= loops'[t].carry.tokens /\ loops'[t].carry.tokens <= MaxTokens
    BY <1>1, <1>2, <1>3, <1>6, <2>1, SameCounts
  <2>3. Before(Step(t) + 1) /\ Unshown(Step(t) + 1)
    <3>1. /\ Len(talk) > 0 /\ talk[Len(talk)].step = Step(t)
          /\ \A i \in 1..Len(talk) : i # Len(talk) => talk[i].step < Step(t)
          /\ disk.request.step < Step(t) /\ interrupter.copy.request.step < Step(t)
          /\ screen.step = Step(t)
      BY <1>2, <1>6 DEF LoopInv, LoopSound, At, Batch
    <3>2. /\ disk.request.step \in Nat /\ interrupter.copy.request.step \in Nat
          /\ \A i \in 1..Len(talk) : talk[i].step \in Nat
      BY TalkHas DEF LoopInv, LoopTyped, Sessions
    <3>3. \A i \in 1..Len(talk) : talk[i].step < Step(t) + 1
      BY <2>1, <3>1, <3>2
    <3> QED
      BY <2>1, <3>1, <3>2, <3>3 DEF Before, Unshown
  <2>4. LoopSound(t)'
    BY <1>1, <1>3, <2>1, <2>2, <2>3 DEF LoopSound, At, Before, Unshown
  <2> QED
    BY <1>1, <1>2, <1>3, <1>4, <1>6, <2>1, <2>4, Staying
<1> QED
  BY <1>5, <1>6

LEMMA OneMoreSaid ==
  ASSUME LoopInv, ~doubled, NEW t \in Threads, loops[t].at \in {"send", "stream"},
         NEW m, NEW text, m.step = Step(t), m.text = text, m.results = {},
         screen'.step = Step(t), screen'.text = text,
         Len(talk') = Len(talk) + 1, talk'[Len(talk')] = m,
         \A i \in 1..Len(talk') : i # Len(talk') => talk'[i] = talk[i] /\ i \in 1..Len(talk),
         UNCHANGED ran, Open' \subseteq Open, tokens' <= MaxTokens + 1
  PROVE  Tallied'
<1>1. InLoop(t) /\ Tallied /\ Step(t) \in Nat /\ Before(Step(t)) /\ Len(talk) \in Nat
  BY LenProperties DEF LoopInv, InLoop, LoopSound, LoopTyped, ThreadTyped, Carries, Step, At
<1>2. Cardinality(ran' \cup Open') <= MaxToolCalls
  BY FewerOpen
<1>3. \A call \in Open' : Fitting(call)'
  <2> SUFFICES ASSUME NEW call \in Open', NEW i \in 1..Len(talk'), talk'[i].step = call[1]
               PROVE  call[2] \in 1..Len(talk'[i].calls)
    BY DEF Fitting
  <2>1. call \in Open /\ call[1] < Step(t) /\ call[1] \in Nat
    <3>1. Open = Noted(disk.request) \cup Noted(interrupter.copy.request)
      <4>1. Occupied(t) /\ ~Answering(t)
        BY <1>1 DEF InLoop, Occupied, Busy, At, Answering
      <4>2. \A u \in Threads : ~Answering(u)
        <5> TAKE u \in Threads
        <5>1. Answering(u) => Occupied(u)
          BY DEF Answering, Occupied, Busy, At
        <5> QED
          BY <4>1, <5>1 DEF LoopInv, OneAtWork
      <4> QED
        BY <4>2 DEF Open
    <3> QED
      BY <1>1, <3>1, OpenFinite DEF Before, Noted, CallOf, LoopInv, LoopTyped, Sessions
  <2>2. i # Len(talk')
    BY <1>1, <2>1
  <2> QED
    BY <1>1, <2>1, <2>2 DEF Tallied, Fitting
<1>4. \A i \in 1..Len(talk') : /\ talk'[i].results \subseteq 1..Len(talk'[i].calls)
                               /\ screen'.step = talk'[i].step => screen'.text = talk'[i].text
  <2> SUFFICES ASSUME NEW i \in 1..Len(talk')
               PROVE  /\ talk'[i].results \subseteq 1..Len(talk'[i].calls)
                      /\ screen'.step = talk'[i].step => screen'.text = talk'[i].text
    OBVIOUS
  <2>1. CASE i = Len(talk')
    <3>1. talk'[i] = m
      BY <2>1
    <3> QED
      BY <3>1
  <2>2. CASE i # Len(talk')
    <3>1. talk'[i] = talk[i] /\ i \in 1..Len(talk) /\ talk[i].step < Step(t) /\ talk[i].step \in Nat
      BY <1>1, <2>2, TalkHas DEF Before, LoopInv
    <3> QED
      BY <1>1, <3>1 DEF Tallied
  <2> QED
    BY <2>1, <2>2
<1>5. tokens' <= MaxTokens + 1
  OBVIOUS
<1> QED
  BY <1>2, <1>3, <1>4, <1>5, IsTallied

\* The provider has answered within the budget: its message is said and shown.
LEMMA Said ==
  ASSUME LoopInv, ~doubled, NEW t \in Threads, loops[t].at \in {"send", "stream"},
         NEW text \in Seq(Nat), NEW calls \in Seq(CallKinds),
         At(t, "stream") => text = loops[t].text,
         talk' = Append(talk, Message(t, text, calls)),
         screen' = IF loops[t].streamed THEN screen
                   ELSE [step |-> Step(t),
                         text |-> (IF screen.step = Step(t) THEN screen.text ELSE <<>>) \o text],
         UNCHANGED ran, Open' \subseteq Open, tokens' <= MaxTokens + 1
  PROVE  /\ Tallied' /\ screen' = [step |-> Step(t), text |-> text]
         /\ Len(talk') = Len(talk) + 1 /\ talk'[Len(talk')] = Message(t, text, calls)
         /\ \A i \in 1..Len(talk') : i # Len(talk') => talk'[i] = talk[i] /\ i \in 1..Len(talk)
<1>1. LoopSound(t) /\ InLoop(t) /\ Step(t) \in Nat
  BY DEF LoopInv, InLoop, LoopSound, LoopTyped, ThreadTyped, Carries, Step, At
<1>2. screen' = [step |-> Step(t), text |-> text]
  <2>1. CASE At(t, "stream")
    BY <1>1, <2>1 DEF LoopSound, At
  <2>2. CASE At(t, "send")
    <3>1. (IF screen.step = Step(t) THEN screen.text ELSE <<>>) = <<>> /\ ~loops[t].streamed
      BY <1>1, <2>2 DEF LoopSound, At
    <3>2. <<>> \o text = text
      OBVIOUS
    <3> QED
      BY <3>1, <3>2
  <2> QED
    BY <2>1, <2>2 DEF At
<1>3. talk \in Seq(Messages) /\ Len(talk) \in Nat
  BY LenProperties DEF LoopInv, LoopTyped
<1>4. Message(t, text, calls) \in Messages
  BY <1>1 DEF Message, Messages
<1>5. /\ Len(talk') = Len(talk) + 1 /\ talk'[Len(talk')] = Message(t, text, calls)
      /\ \A i \in 1..Len(talk) : talk'[i] = talk[i]
  BY <1>3, <1>4, AppendProperties
<1>6. \A i \in 1..Len(talk') : i # Len(talk') => talk'[i] = talk[i] /\ i \in 1..Len(talk)
  BY <1>3, <1>5
<1>7. /\ Message(t, text, calls).step = Step(t) /\ Message(t, text, calls).text = text
      /\ Message(t, text, calls).results = {} /\ Message(t, text, calls).calls = calls
  BY DEF Message
<1>8. Tallied'
  <2> DEFINE m == Message(t, text, calls)
  <2>1. m.step = Step(t) /\ m.text = text /\ m.results = {} /\ talk'[Len(talk')] = m
    BY <1>5, <1>7
  <2> HIDE DEF m
  <2>2. screen'.step = Step(t) /\ screen'.text = text /\ Len(talk') = Len(talk) + 1
    BY <1>2, <1>5
  <2> QED
    BY <1>6, <2>1, <2>2, OneMoreSaid
<1> QED
  BY <1>2, <1>5, <1>6, <1>8

LEMMA CarrySpends ==
  ASSUME NEW c \in Carries
  PROVE  /\ [c EXCEPT !.tokens = c.tokens + 1] \in Carries
         /\ [c EXCEPT !.tokens = c.tokens + 1].calls = c.calls
         /\ [c EXCEPT !.tokens = c.tokens + 1].step = c.step
         /\ [c EXCEPT !.tokens = c.tokens + 1].tokens = c.tokens + 1
  BY DEF Carries

LEMMA SettlesKeeps ==
  ASSUME LoopInv, NEW t \in Threads, loops[t].at \in {"send", "stream"},
         NEW text \in Seq(Nat), NEW calls \in Batches, Settles(t, text, calls),
         At(t, "stream") => text = loops[t].text
  PROVE  LoopInv'
<1> DEFINE carry == [loops[t].carry EXCEPT !.tokens = @ + 1]
           done == [Copy(t) EXCEPT !.resume = NoResume, !.status = "idle"]
<1>1. /\ tokens' = tokens + 1 /\ tokens \in Nat
      /\ UNCHANGED <<job, ran, interrupter, late, interrupts, restarts, doubled, broken>>
  BY DEF Settles, world, LoopInv, LoopTyped
<1>2. Busy(t) /\ InLoop(t) /\ calls \in Seq(CallKinds) /\ ~At(t, "check")
  BY LoopAssumption DEF Busy, InLoop, At
<1>3. /\ Copy(t) \in Sessions /\ loops[t].carry \in Carries /\ Step(t) \in Nat
      /\ screen.text \in Seq(Nat)
  BY DEF LoopInv, LoopTyped, ThreadTyped, Copy, Step, Carries
<1>4. ~doubled => tokens + 1 <= MaxTokens + 1
  BY <1>1, <1>2, <1>3, LoopAssumption DEF LoopInv, LoopSound, Carries
<1>5. CASE OverBudget(carry) /\ Fails(t) /\ UNCHANGED <<talk, screen>>
  <2>1. tokens' \in Nat /\ (~doubled => tokens' <= MaxTokens + 1)
    BY <1>1, <1>4
  <2> QED
    BY <1>1, <1>2, <1>5, <2>1, Failing
<1>6. CASE ~(OverBudget(carry) /\ Fails(t) /\ UNCHANGED <<talk, screen>>)
  <2>1. /\ ~OverBudget(carry)
        /\ talk' = Append(talk, Message(t, text, calls))
        /\ screen' = IF loops[t].streamed THEN screen
                   ELSE [step |-> Step(t),
                         text |-> (IF screen.step = Step(t) THEN screen.text ELSE <<>>) \o text]
        /\ IF calls = <<>>
              THEN Ends(done, "completed", "completed") /\ Returns(t, done, "completed")
              ELSE /\ loops' = [loops EXCEPT ![t].at = "batch", ![t].carry = carry,
                                             ![t].index = 1, ![t].text = <<>>]
                   /\ UNCHANGED <<disk, runStatus, terminals>>
    BY <1>6 DEF Settles
  <2>2. /\ done \in Sessions /\ done.resume = NoResume /\ done.request = Copy(t).request
        /\ (Copy(t).request = NoRequest => done = Session(NoRequest, NoResume, "idle"))
    BY <1>3, SessionIs
  <2>3. /\ carry \in Carries /\ carry.step = Step(t) /\ carry.calls = loops[t].carry.calls
        /\ carry.tokens = loops[t].carry.tokens + 1
    BY <1>3, CarrySpends DEF Step
  <2>4. Message(t, text, calls) \in Messages
    BY <1>2, <1>3 DEF Message, Messages
  <2>5. talk' \in Seq(Messages)
    BY <2>1, <2>4, AppendProperties DEF LoopInv, LoopTyped
  <2>6. screen' \in [step : Nat, text : Seq(Nat)]
    <3>1. (IF screen.step = Step(t) THEN screen.text ELSE <<>>) \in Seq(Nat)
      BY <1>3
    <3>2. (IF screen.step = Step(t) THEN screen.text ELSE <<>>) \o text \in Seq(Nat)
      BY <3>1, ConcatProperties
    <3> QED
      BY <1>3, <2>1, <3>2 DEF LoopInv, LoopTyped
  <2> HIDE DEF carry, done
  <2>7. CASE calls = <<>>
    <3>1. Ends(done, "completed", "completed") /\ Returns(t, done, "completed")
      BY <2>1, <2>7
    <3>2. "completed" \in Execution!Terminal /\ "completed" \in LoopResults \ {"waiting"}
      BY DEF Execution!Terminal, LoopResults
    <3>3. /\ Moved(t) /\ ThreadTyped(loops'[t]) /\ loops'[t].at = "returned"
      BY <2>2, <3>1, <3>2, IsReturned DEF LoopInv
    <3>4. LoopTyped'
      <4>1. DOMAIN loops' = Threads /\ \A u \in Threads : ThreadTyped(loops'[u])
        BY <3>3, ThreadsTyped DEF LoopInv
      <4>2. terminals' \in Seq(Execution!Terminal) /\ disk' \in Sessions /\ runStatus' = "completed"
        BY <2>2, <3>1, <3>2, AppendProperties DEF Ends, LoopInv, LoopTyped
      <4> QED
        BY <1>1, <2>5, <2>6, <3>2, <4>1, <4>2 DEF LoopInv, LoopTyped
    <3>5. CASE doubled
      BY <1>1, <3>4, <3>5 DEF LoopInv
    <3>6. CASE ~doubled
      <4>1. Copy(t).request = NoRequest
        BY <1>2, <3>6, CopyIsClear
      <4>2. disk' = done /\ disk'.resume = NoResume /\ disk'.request = NoRequest
            /\ Ends(Session(NoRequest, NoResume, "idle"), "completed", "completed")
        BY <2>2, <3>1, <4>1 DEF Ends
      <4>3. Open' \subseteq Open
        <5>1. Occupied(t) /\ ~Answering(t)'
          BY <1>2, <3>3 DEF Occupied, Busy, At, Answering
        <5>2. \A u \in Threads : ~Answering(u)'
          BY <3>3, <3>6, <5>1, OthersRest
        <5>3. Open' = Noted(disk'.request) \cup Noted(interrupter'.copy.request)
          BY <5>2 DEF Open
        <5> QED
          BY <1>1, <4>2, <5>3 DEF Open, Noted
      <4>4. Tallied'
        BY <1>1, <1>2, <1>4, <2>1, <3>6, <4>3, Said
      <4> QED
        BY <1>1, <1>2, <2>2, <3>1, <3>2, <3>4, <3>6, <4>1, <4>2, <4>4, LeavingWith
    <3> QED
      BY <3>5, <3>6
  <2>8. CASE calls # <<>>
    <3>1. /\ loops' = [loops EXCEPT ![t].at = "batch", ![t].carry = carry,
                                             ![t].index = 1, ![t].text = <<>>]
          /\ UNCHANGED <<disk, runStatus, terminals>>
      BY <2>1, <2>8
    <3>2. /\ Moved(t) /\ ThreadTyped(loops'[t])
          /\ loops'[t].at = "batch" /\ loops'[t].carry = carry /\ loops'[t].index = 1
          /\ loops'[t].copy = loops[t].copy
      BY <2>3, <3>1, IsInBatch DEF LoopInv
    <3>3. LoopTyped'
      <4>1. DOMAIN loops' = Threads /\ \A u \in Threads : ThreadTyped(loops'[u])
        BY <3>2, ThreadsTyped DEF LoopInv
      <4> QED
        BY <1>1, <2>5, <2>6, <3>1, <4>1 DEF LoopInv, LoopTyped
    <3>4. CASE doubled
      BY <1>1, <3>3, <3>4 DEF LoopInv
    <3>5. CASE ~doubled
      <4>1. Occupied(t) /\ ~Answering(t)' /\ InLoop(t)' /\ Step(t)' = Step(t)
        BY <1>2, <2>3, <3>2 DEF Occupied, Busy, At, Answering, InLoop, Step
      <4>2. Open' \subseteq Open
        <5>1. \A u \in Threads : ~Answering(u)'
          BY <3>2, <3>5, <4>1, OthersRest
        <5>2. Open' = Noted(disk'.request) \cup Noted(interrupter'.copy.request)
          BY <5>1 DEF Open
        <5> QED
          BY <1>1, <3>1, <5>2 DEF Open
      <4>3. /\ Tallied' /\ screen' = [step |-> Step(t), text |-> text]
            /\ Len(talk') = Len(talk) + 1 /\ talk'[Len(talk')] = Message(t, text, calls)
            /\ \A i \in 1..Len(talk') : i # Len(talk') => talk'[i] = talk[i] /\ i \in 1..Len(talk)
        BY <1>1, <1>2, <1>4, <2>1, <3>5, <4>2, Said
      <4>4. disk.resume = NoResume /\ Before(Step(t)) /\ LoopSound(t)
        BY <1>2, <3>5 DEF LoopInv, LoopSound, At
      <4>5. SavedSound'
        BY <3>1, <3>5, <4>4 DEF LoopInv, SavedSound, Promises
      <4>6. carry.tokens <= MaxTokens /\ tokens' <= carry.tokens
        <5>1. tokens <= loops[t].carry.tokens
          BY <1>2, <4>4 DEF LoopSound
        <5>2. loops[t].carry.tokens \in Nat /\ MaxTokens \in Nat
          BY <1>3, LoopAssumption DEF Carries
        <5>3. ~(carry.tokens > MaxTokens)
          BY <2>1 DEF OverBudget
        <5> QED
          BY <1>1, <2>3, <5>1, <5>2, <5>3
      <4>7. Batch(t)'.step = Step(t) /\ Len(talk') > 0
        BY <4>3, LenProperties DEF Batch, Message, LoopInv, LoopTyped
      <4>8. LoopSound(t)'
        BY <1>1, <1>2, <2>3, <3>1, <3>2, <4>1, <4>2, <4>3, <4>4, <4>6, <4>7
        DEF LoopSound, Before, At, Copy
      <4> QED
        BY <1>1, <1>2, <3>1, <3>2, <3>3, <3>5, <4>1, <4>3, <4>5, <4>8, StayingWith
    <3> QED
      BY <3>4, <3>5
  <2> QED
    BY <2>7, <2>8
<1> QED
  BY <1>5, <1>6

LEMMA AnswersKeeps ==
  ASSUME LoopInv, NEW t \in Threads, Answers(t)
  PROVE  LoopInv'
<1>1. loops[t].model \in Nat /\ loops[t].text \in Seq(Nat)
  BY DEF LoopInv, LoopTyped, ThreadTyped
<1>2. <<loops[t].model>> \in Seq(Nat)
  BY <1>1
<1>3. CASE At(t, "send") /\ ~ShouldCancel /\ \E calls \in Batches : Settles(t, <<loops[t].model>>, calls)
  <2>1. loops[t].at \in {"send", "stream"} /\ ~At(t, "stream")
    BY <1>3 DEF At
  <2> QED
    BY <1>2, <1>3, <2>1, SettlesKeeps
<1>4. CASE At(t, "stream") /\ \E calls \in Batches : Settles(t, loops[t].text, calls)
  <2>1. loops[t].at \in {"send", "stream"}
    BY <1>4 DEF At
  <2> QED
    BY <1>1, <1>4, <2>1, SettlesKeeps
<1> QED
  BY <1>3, <1>4 DEF Answers

-----------------------------------------------------------------------------
LEMMA OneMore ==
  ASSUME IsFiniteSet(ran), NEW call
  PROVE  /\ IsFiniteSet(ran \cup {call}) /\ Cardinality(ran) \in Nat
         /\ Cardinality(ran \cup {call}) \in Nat
         /\ Cardinality(ran \cup {call}) <= Cardinality(ran) + 1
         /\ Cardinality(ran) <= Cardinality(ran \cup {call})
  BY FS_AddElement, FS_CardinalityType

\* A result joins the messages of its step; nothing else of them changes.
LEMMA Resulting ==
  ASSUME LoopTyped, NEW call \in Nat \X Nat, talk' = Resulted(call)
  PROVE  /\ talk' \in Seq(Messages) /\ Len(talk') = Len(talk) /\ Len(talk) \in Nat
         /\ \A i \in 1..Len(talk) :
              /\ talk'[i].step = talk[i].step /\ talk'[i].text = talk[i].text
              /\ talk'[i].calls = talk[i].calls
              /\ talk'[i].results =
                   IF talk[i].step = call[1] THEN talk[i].results \cup {call[2]} ELSE talk[i].results
<1>1. talk \in Seq(Messages) /\ DOMAIN talk = 1..Len(talk) /\ Len(talk) \in Nat
  BY LenProperties DEF LoopTyped
<1> DEFINE new(i) == IF talk[i].step = call[1] THEN [talk[i] EXCEPT !.results = @ \cup {call[2]}] ELSE talk[i]
<1>2. \A i \in 1..Len(talk) :
        /\ new(i) \in Messages /\ new(i).step = talk[i].step /\ new(i).text = talk[i].text
        /\ new(i).calls = talk[i].calls
        /\ new(i).results =
             IF talk[i].step = call[1] THEN talk[i].results \cup {call[2]} ELSE talk[i].results
  <2> SUFFICES ASSUME NEW i \in 1..Len(talk)
               PROVE  /\ new(i) \in Messages /\ new(i).step = talk[i].step /\ new(i).text = talk[i].text
                      /\ new(i).calls = talk[i].calls
                      /\ new(i).results =
                           IF talk[i].step = call[1] THEN talk[i].results \cup {call[2]} ELSE talk[i].results
    OBVIOUS
  <2>1. talk[i] \in Messages /\ call[2] \in Nat
    BY TalkHas
  <2> QED
    BY <2>1 DEF Messages
<1>3. talk' = [i \in 1..Len(talk) |-> new(i)]
  BY <1>1 DEF Resulted
<1> HIDE DEF new
<1>4. talk' \in [1..Len(talk) -> Messages] /\ \A i \in 1..Len(talk) : talk'[i] = new(i)
  BY <1>2, <1>3
<1>5. talk' \in Seq(Messages) /\ Len(talk') = Len(talk)
  <2>1. talk' \in Seq(Messages)
    BY <1>1, <1>4, SeqDef
  <2>2. DOMAIN talk' = 1..Len(talk)
    BY <1>4
  <2> QED
    BY <1>1, <2>1, <2>2, LenProperties
<1> QED
  BY <1>1, <1>2, <1>4, <1>5

\* A call that is run is one its message has, and the counts still hold.
LEMMA TallyRuns ==
  ASSUME LoopInv, ~doubled, NEW call \in Nat \X Nat, Fitting(call),
         Len(talk') = Len(talk),
         \A i \in 1..Len(talk) :
            /\ talk'[i].step = talk[i].step /\ talk'[i].text = talk[i].text
            /\ talk'[i].calls = talk[i].calls
            /\ talk'[i].results =
                 IF talk[i].step = call[1] THEN talk[i].results \cup {call[2]} ELSE talk[i].results,
         Cardinality(ran' \cup Open') <= MaxToolCalls, \A c \in Open' : c \in Open \/ c = call,
         UNCHANGED <<screen, tokens>>
  PROVE  Tallied'
<1>1. Tallied
  BY DEF LoopInv
<1>2. tokens' <= MaxTokens + 1
  BY <1>1 DEF Tallied
<1>3. \A c \in Open' : Fitting(c)'
  <2> SUFFICES ASSUME NEW c \in Open', NEW i \in 1..Len(talk'), talk'[i].step = c[1]
               PROVE  c[2] \in 1..Len(talk'[i].calls)
    BY DEF Fitting
  <2>1. Fitting(c)
    BY <1>1 DEF Tallied
  <2>2. i \in 1..Len(talk) /\ talk[i].step = c[1] /\ talk'[i].calls = talk[i].calls
    OBVIOUS
  <2> QED
    BY <2>1, <2>2 DEF Fitting
<1>4. \A i \in 1..Len(talk') : /\ talk'[i].results \subseteq 1..Len(talk'[i].calls)
                               /\ screen'.step = talk'[i].step => screen'.text = talk'[i].text
  <2> SUFFICES ASSUME NEW i \in 1..Len(talk')
               PROVE  /\ talk'[i].results \subseteq 1..Len(talk'[i].calls)
                      /\ screen'.step = talk'[i].step => screen'.text = talk'[i].text
    OBVIOUS
  <2>1. /\ i \in 1..Len(talk) /\ talk'[i].step = talk[i].step /\ talk'[i].text = talk[i].text
        /\ talk'[i].calls = talk[i].calls
        /\ talk'[i].results =
             IF talk[i].step = call[1] THEN talk[i].results \cup {call[2]} ELSE talk[i].results
    OBVIOUS
  <2>2. /\ talk[i].results \subseteq 1..Len(talk[i].calls)
        /\ screen.step = talk[i].step => screen.text = talk[i].text
    BY <1>1, <2>1 DEF Tallied
  <2>3. talk[i].step = call[1] => call[2] \in 1..Len(talk[i].calls)
    BY <2>1 DEF Fitting
  <2> QED
    BY <2>1, <2>2, <2>3
<1>5. Cardinality(ran' \cup Open') <= MaxToolCalls
  OBVIOUS
<1> QED
  BY <1>2, <1>3, <1>4, <1>5, IsTallied

LEMMA RunsCallKeeps ==
  ASSUME LoopInv, NEW t \in Threads, RunsCall(t)
  PROVE  LoopInv'
<1>1. /\ Moved(t) /\ ThreadTyped(loops'[t])
      /\ loops'[t].at = loops[t].at /\ loops'[t].index = loops[t].index + 1
      /\ loops'[t].carry.calls = loops[t].carry.calls + 1
      /\ loops'[t].carry.step = loops[t].carry.step
      /\ loops'[t].carry.tokens = loops[t].carry.tokens
      /\ loops'[t].copy = loops[t].copy
  BY IsCounted DEF LoopInv, RunsCall
<1>2. At(t, "batch") /\ InLoop(t) /\ loops[t].index <= Len(Batch(t).calls) /\ Affordable(t)
  BY DEF RunsCall, HasCall, At, InLoop
<1>3. UNCHANGED <<disk, runStatus, job, screen, terminals, interrupter, late, interrupts, restarts,
                  tokens, doubled, broken>>
  BY DEF RunsCall, world
<1>4. talk' = Resulted(Call(t)) /\ (ran' = ran \/ ran' = ran \cup {Call(t)})
  BY DEF RunsCall
<1>5. /\ Call(t) \in Nat \X Nat /\ Call(t)[1] = Step(t) /\ Call(t)[2] = loops[t].index
      /\ loops[t].carry \in Carries /\ Step(t) \in Nat /\ loops[t].index \in Nat
  BY DEF Call, LoopInv, LoopTyped, ThreadTyped, Carries, Step
<1>6. /\ talk' \in Seq(Messages) /\ Len(talk') = Len(talk) /\ Len(talk) \in Nat
      /\ \A i \in 1..Len(talk) :
              /\ talk'[i].step = talk[i].step /\ talk'[i].text = talk[i].text
              /\ talk'[i].calls = talk[i].calls
              /\ talk'[i].results =
                   IF talk[i].step = Call(t)[1] THEN talk[i].results \cup {Call(t)[2]} ELSE talk[i].results
  BY <1>4, <1>5, Resulting DEF LoopInv
<1>6a. /\ IsFiniteSet(ran') /\ Cardinality(ran') \in Nat /\ Cardinality(ran) \in Nat
       /\ Cardinality(ran') <= Cardinality(ran) + 1
  <2>1. IsFiniteSet(ran)
    BY DEF LoopInv, LoopTyped
  <2>2. CASE ran' = ran
    <3>1. Cardinality(ran) \in Nat
      BY <2>1, FS_CardinalityType
    <3> QED
      BY <2>1, <2>2, <3>1
  <2>3. CASE ran' = ran \cup {Call(t)}
    BY <2>1, <2>3, OneMore
  <2> QED
    BY <1>4, <2>2, <2>3
<1>7. LoopTyped'
  <2>1. DOMAIN loops' = Threads /\ \A u \in Threads : ThreadTyped(loops'[u])
    BY <1>1, ThreadsTyped DEF LoopInv
  <2> QED
    BY <1>3, <1>6, <1>6a, <2>1 DEF LoopInv, LoopTyped
<1>8. CASE doubled
  BY <1>3, <1>7, <1>8 DEF LoopInv
<1>9. CASE ~doubled
  <2>1. LoopSound(t) /\ Occupied(t) /\ InLoop(t)' /\ ~Answering(t)' /\ Step(t)' = Step(t)
    BY <1>1, <1>2, <1>9 DEF LoopInv, InLoop, Occupied, Busy, At, Answering, Step
  <2>2. /\ Open \subseteq ran /\ disk.resume = NoResume
        /\ Cardinality(ran) <= loops[t].carry.calls
        /\ Len(talk) > 0 /\ talk[Len(talk)].step = Step(t)
        /\ \A i \in 1..Len(talk) : i # Len(talk) => talk[i].step < Step(t)
        /\ loops[t].index > 0
    BY <1>2, <2>1 DEF LoopSound, At, Batch
  <2>3. Open' \subseteq Open
    <3>1. \A u \in Threads : ~Answering(u)'
      BY <1>1, <1>9, <2>1, OthersRest
    <3>2. Open' = Noted(disk'.request) \cup Noted(interrupter'.copy.request)
      BY <3>1 DEF Open
    <3> QED
      BY <1>3, <3>2 DEF Open
  <2>4. /\ Cardinality(ran') <= loops'[t].carry.calls /\ loops'[t].carry.calls <= MaxToolCalls
    <3>1. loops[t].carry.calls + 1 <= MaxToolCalls
      <4>1. [loops[t].carry EXCEPT !.calls = @ + 1].calls = loops[t].carry.calls + 1
        BY <1>5, CarryMoves
      <4>2. ~([loops[t].carry EXCEPT !.calls = @ + 1].calls > MaxToolCalls)
        BY <1>2 DEF Affordable, OverBudget
      <4> QED
        BY <1>5, <4>1, <4>2, LoopAssumption DEF Carries
    <3> QED
      BY <1>1, <1>5, <1>6a, <2>2, <3>1, LoopAssumption DEF Carries
  <2>5. Fitting(Call(t))
    <3>1. \A i \in 1..Len(talk) : talk[i].step = Step(t) => i = Len(talk)
      BY <1>5, <2>2, TalkHas DEF LoopInv
    <3> QED
      BY <1>2, <1>5, <2>2, <3>1 DEF Fitting, Batch
  <2>6. Tallied'
    <3>1. Cardinality(ran') <= MaxToolCalls
      <4>1. loops'[t].carry.calls \in Nat
        BY <1>1, <1>5 DEF Carries
      <4> QED
        BY <1>6a, <2>4, <4>1, LoopAssumption
    <3>2. Open' \subseteq ran' /\ ran' \cup Open' = ran'
      BY <1>4, <2>2, <2>3
    <3> QED
      BY <1>3, <1>5, <1>6, <1>9, <2>3, <2>5, <3>1, <3>2, TallyRuns
  <2>7. SavedSound'
    BY <1>3, <1>9, <2>2 DEF LoopInv, SavedSound, Promises
  <2>8. LoopSound(t)'
    <3>1. Batch(t)'.step = Step(t) /\ Len(talk') > 0
      <4>1. Len(talk) \in 1..Len(talk) /\ Batch(t)' = talk'[Len(talk)]
        BY <1>6, <2>2 DEF Batch
      <4>2. talk'[Len(talk)].step = talk[Len(talk)].step
        BY <1>6, <4>1
      <4> QED
        BY <1>6, <2>2, <4>1, <4>2
    <3>2. \A i \in 1..Len(talk') : i # Len(talk') => talk'[i].step < Step(t)
      BY <1>6, <2>2
    <3>3. Open' \subseteq ran'
      BY <1>4, <2>2, <2>3
    <3> QED
      BY <1>1, <1>2, <1>3, <1>5, <2>1, <2>2, <2>4, <3>1, <3>2, <3>3 DEF LoopSound, At, Copy
  <2> QED
    BY <1>1, <1>2, <1>3, <1>7, <1>9, <2>1, <2>6, <2>7, <2>8, StayingWith
<1> QED
  BY <1>8, <1>9

\* A file fails under a call that fits its message: the loop ends in an error.
LEMMA Breaking ==
  ASSUME LoopInv, NEW t \in Threads, Busy(t), Returns(t, Copy(t), "error"),
         talk' \in {talk, Resulted(Call(t))}, ran' \in {ran, ran \cup {Call(t)}},
         UNCHANGED <<disk, screen, interrupter, interrupts, restarts, late, tokens, doubled,
                     broken, runStatus, terminals, job>>,
         ~doubled => /\ Fitting(Call(t)) /\ Copy(t).request = NoRequest
                     /\ disk.resume = NoResume /\ Open' \subseteq Open
                     /\ Cardinality(ran' \cup Open') <= MaxToolCalls
  PROVE  LoopInv'
<1>1. Copy(t) \in Sessions /\ Call(t) \in Nat \X Nat
  BY DEF LoopInv, LoopTyped, ThreadTyped, Copy, Call, Step, Carries
<1>2. ASSUME talk' = Resulted(Call(t))
      PROVE  /\ talk' \in Seq(Messages) /\ Len(talk') = Len(talk)
             /\ \A i \in 1..Len(talk) :
                  /\ talk'[i].step = talk[i].step /\ talk'[i].text = talk[i].text
                  /\ talk'[i].calls = talk[i].calls
                  /\ talk'[i].results =
                       IF talk[i].step = Call(t)[1] THEN talk[i].results \cup {Call(t)[2]}
                       ELSE talk[i].results
  BY <1>1, <1>2, Resulting DEF LoopInv
<1>3. IsFiniteSet(ran')
  <2>1. IsFiniteSet(ran)
    BY DEF LoopInv, LoopTyped
  <2> QED
    BY <2>1, FS_AddElement
<1>4. LoopTyped'
  <2>1. Moved(t) /\ ThreadTyped(loops'[t])
    BY <1>1, IsReturned DEF LoopInv, LoopResults
  <2>2. DOMAIN loops' = Threads /\ \A u \in Threads : ThreadTyped(loops'[u])
    BY <2>1, ThreadsTyped DEF LoopInv
  <2>3. talk' \in Seq(Messages)
    BY <1>2 DEF LoopInv, LoopTyped
  <2> QED
    BY <1>3, <2>2, <2>3 DEF LoopInv, LoopTyped
<1>5. CASE doubled
  BY <1>4, <1>5 DEF LoopInv
<1>6. CASE ~doubled
  <2>1. Fitting(Call(t)) /\ Tallied
    BY <1>6 DEF LoopInv
  <2>2. Len(talk') = Len(talk)
        /\ \A i \in 1..Len(talk) :
             /\ talk'[i].step = talk[i].step /\ talk'[i].text = talk[i].text
             /\ talk'[i].calls = talk[i].calls
             /\ talk'[i].results \subseteq talk[i].results
                  \cup (IF talk[i].step = Call(t)[1] THEN {Call(t)[2]} ELSE {})
    <3>1. CASE talk' = talk
      BY <3>1
    <3>2. CASE talk' = Resulted(Call(t))
      BY <1>2, <3>2
    <3> QED
      BY <3>1, <3>2
  <2>3. \A c \in Open' : Fitting(c)'
    <3> SUFFICES ASSUME NEW c \in Open', NEW i \in 1..Len(talk'), talk'[i].step = c[1]
                 PROVE  c[2] \in 1..Len(talk'[i].calls)
      BY DEF Fitting
    <3>1. Fitting(c) /\ i \in 1..Len(talk)
      BY <1>6, <2>1, <2>2 DEF Tallied
    <3> QED
      BY <2>2, <3>1 DEF Fitting
  <2>4. \A i \in 1..Len(talk') : /\ talk'[i].results \subseteq 1..Len(talk'[i].calls)
                                 /\ screen'.step = talk'[i].step => screen'.text = talk'[i].text
    <3> SUFFICES ASSUME NEW i \in 1..Len(talk)
                 PROVE  /\ talk'[i].results \subseteq 1..Len(talk'[i].calls)
                        /\ screen'.step = talk'[i].step => screen'.text = talk'[i].text
      BY <2>2
    <3>1. /\ talk[i].results \subseteq 1..Len(talk[i].calls)
          /\ screen.step = talk[i].step => screen.text = talk[i].text
      BY <2>1 DEF Tallied
    <3>2. talk[i].step = Call(t)[1] => Call(t)[2] \in 1..Len(talk[i].calls)
      BY <2>1 DEF Fitting
    <3> QED
      BY <2>2, <3>1, <3>2
  <2>5. Tallied'
    BY <1>6, <2>1, <2>3, <2>4, IsTallied DEF Tallied
  <2>6. "error" \in LoopResults \ {"waiting"}
    BY DEF LoopResults
  <2> QED
    BY <1>1, <1>4, <1>6, <2>5, <2>6, LeavingWith
<1> QED
  BY <1>5, <1>6

LEMMA CallBreaksKeeps ==
  ASSUME LoopInv, NEW t \in Threads, CallBreaks(t)
  PROVE  LoopInv'
<1>1. /\ At(t, "batch") /\ InLoop(t) /\ Busy(t) /\ loops[t].index <= Len(Batch(t).calls)
      /\ Affordable(t) /\ Returns(t, Copy(t), "error")
  BY DEF CallBreaks, HasCall, At, InLoop, Busy
<1>2. UNCHANGED <<disk, runStatus, job, screen, terminals, interrupter, late, interrupts, restarts,
                  tokens, doubled, broken>>
  BY DEF CallBreaks, world
<1>3. talk' \in {talk, Resulted(Call(t))} /\ ran' \in {ran, ran \cup {Call(t)}}
  BY DEF CallBreaks
<1>4. /\ Call(t) \in Nat \X Nat /\ Call(t)[1] = Step(t) /\ Call(t)[2] = loops[t].index
      /\ loops[t].carry \in Carries /\ Step(t) \in Nat /\ loops[t].index \in Nat
  BY DEF Call, LoopInv, LoopTyped, ThreadTyped, Carries, Step
<1>5. ASSUME ~doubled
      PROVE  /\ Fitting(Call(t)) /\ Copy(t).request = NoRequest
             /\ disk.resume = NoResume /\ Open' \subseteq Open
             /\ Cardinality(ran' \cup Open') <= MaxToolCalls
  <2>1. LoopSound(t) /\ Occupied(t)
    BY <1>1, <1>5 DEF LoopInv, Occupied, Busy, At
  <2>2. /\ Open \subseteq ran /\ disk.resume = NoResume
        /\ Cardinality(ran) <= loops[t].carry.calls
        /\ Len(talk) > 0 /\ talk[Len(talk)].step = Step(t)
        /\ \A i \in 1..Len(talk) : i # Len(talk) => talk[i].step < Step(t)
        /\ loops[t].index > 0
    BY <1>1, <2>1 DEF LoopSound, At, Batch
  <2>3. Moved(t) /\ loops'[t].at = "returned"
    BY <1>1, IsReturned DEF LoopInv, LoopResults, LoopTyped, ThreadTyped, Copy
  <2>4. Open' \subseteq Open
    <3>1. \A u \in Threads : ~Answering(u)'
      BY <1>5, <2>1, <2>3, OthersRest DEF Answering
    <3>2. Open' = Noted(disk'.request) \cup Noted(interrupter'.copy.request)
      BY <3>1 DEF Open
    <3> QED
      BY <1>2, <3>2 DEF Open
  <2>5. Fitting(Call(t))
    <3>1. \A i \in 1..Len(talk) : talk[i].step = Step(t) => i = Len(talk)
      BY <1>4, <2>2, TalkHas DEF LoopInv
    <3> QED
      BY <1>1, <1>4, <2>2, <3>1 DEF Fitting, Batch
  <2>6. loops[t].carry.calls + 1 <= MaxToolCalls
    <3>1. [loops[t].carry EXCEPT !.calls = @ + 1].calls = loops[t].carry.calls + 1
      BY <1>4, CarryMoves
    <3>2. ~([loops[t].carry EXCEPT !.calls = @ + 1].calls > MaxToolCalls)
      BY <1>1 DEF Affordable, OverBudget
    <3> QED
      BY <1>4, <3>1, <3>2, LoopAssumption DEF Carries
  <2>7. ran' \cup Open' = ran'
    BY <1>3, <2>2, <2>4
  <2>8. /\ Cardinality(ran') \in Nat /\ Cardinality(ran) \in Nat
        /\ Cardinality(ran') <= Cardinality(ran) + 1
    <3>1. IsFiniteSet(ran)
      BY DEF LoopInv, LoopTyped
    <3>2. Cardinality(ran) \in Nat
      BY <3>1, FS_CardinalityType
    <3>3. CASE ran' = ran
      BY <3>2, <3>3
    <3>4. CASE ran' = ran \cup {Call(t)}
      BY <3>1, <3>4, OneMore
    <3> QED
      BY <1>3, <3>3, <3>4
  <2>9. Cardinality(ran') <= MaxToolCalls
    BY <1>4, <2>2, <2>6, <2>8, LoopAssumption DEF Carries
  <2> QED
    BY <1>1, <1>5, <2>2, <2>4, <2>5, <2>7, <2>9, CopyIsClear
<1> QED
  BY <1>1, <1>2, <1>3, <1>5, Breaking

LEMMA Pausing ==
  ASSUME LoopInv, ~doubled, NEW t \in Threads, Busy(t), LoopTyped',
         NEW request \in [step : Nat, index : Nat, kind : Asking], NEW resume \in Carries,
         disk' = Session(request, resume, "paused"), Returns(t, disk', "waiting"),
         job' = Marked("waiting"), Tallied', Promises(disk.resume, CallOf(disk.request))',
         UNCHANGED <<runStatus, terminals, interrupter, interrupts, restarts, broken, doubled>>
  PROVE  LoopInv'
<1>1. /\ request \in [step : Nat, index : Nat, kind : Asking \cup {"none"}] /\ request # NoRequest
  BY DEF NoRequest, Asking
<1>2. disk' \in Sessions /\ disk'.request = request
  BY <1>1, SessionHas
<1>3. Moved(t) /\ loops'[t].at = "returned" /\ loops'[t].result = "waiting"
  BY <1>2, IsReturned DEF LoopInv, LoopResults
<1>4. Occupied(t)
  BY DEF Occupied, Busy, At
<1>5. \A u \in Threads : u # t =>
           /\ ~Occupied(u) /\ ~Occupied(u)' /\ ~Busy(u) /\ ~Busy(u)' /\ ~Answering(u) /\ ~Answering(u)'
           /\ ~At(u, "given")'
           /\ LoopSound(u)' /\ GivenSound(u)' /\ AnswerSound(u)' /\ CopySound(u)'
           /\ At(u, "returned")' => loops'[u].result = "waiting"
  BY <1>3, <1>4, OthersRest
<1>6. ~InLoop(t)' /\ ~Answering(t)' /\ ~Busy(t)' /\ ~At(t, "given")' /\ At(t, "returned")'
  BY <1>3 DEF InLoop, Answering, Busy, At
<1>7. LoopSound(t)' /\ GivenSound(t)' /\ AnswerSound(t)' /\ CopySound(t)'
  BY <1>3, <1>6 DEF LoopSound, GivenSound, AnswerSound, CopySound
<1>8. OneAtWork'
  <2>1. \A u, v \in Threads : Occupied(u)' /\ Occupied(v)' => u = v
    BY <1>5
  <2>2. ~Occupied("worker")'
    <3>1. CASE t = "worker"
      BY <1>3, <1>6, <3>1 DEF Occupied
    <3>2. CASE t # "worker"
      BY <1>5, <3>2 DEF Threads
    <3> QED
      BY <3>1, <3>2
  <2>3. ~Answering("worker")' /\ \A r \in Responders : ~At(r, "given")'
    BY <1>5, <1>6 DEF Threads
  <2> QED
    BY <2>1, <2>2, <2>3 DEF OneAtWork
<1>9. SavedSound'
  BY <1>1, <1>2 DEF SavedSound
<1>10. Ending'
  <2> SUFFICES ASSUME Still'
               PROVE (~job.cancel /\ interrupter.at = "rest" /\ (GoesOn \/ \E status \in {"completed", "failed"} : HasEnded(status)))'
    BY DEF Ending
  <2>1. Still /\ ~job.cancel /\ interrupter'.at = "rest" /\ GoesOn
    BY DEF LoopInv, Ending, Still, HasEnded
  <2>2. job'.cancel = job.cancel /\ job'.status \in {job.status, "waiting"}
    BY IsMarked DEF LoopInv, Execution!Status
  <2>3. \A u \in Threads : At(u, "returned")' => loops'[u].result \in {"waiting", "error"}
    BY <1>3, <1>5
  <2> QED
    BY <2>1, <2>2, <2>3 DEF GoesOn
<1>11. \A u \in Threads : LoopSound(u)' /\ GivenSound(u)' /\ AnswerSound(u)' /\ CopySound(u)'
  BY <1>5, <1>7
<1> QED
  BY <1>8, <1>9, <1>10, <1>11 DEF LoopInv

\* The call a thread is at is one the last message has.
LEMMA CallFits ==
  ASSUME LoopTyped, NEW t \in Threads, Len(talk) > 0, Batch(t).step = Step(t),
         \A i \in 1..Len(talk) : i # Len(talk) => talk[i].step < Step(t),
         loops[t].index > 0, loops[t].index <= Len(Batch(t).calls)
  PROVE  Fitting(Call(t))
<1>1. Call(t)[1] = Step(t) /\ Call(t)[2] = loops[t].index /\ Step(t) \in Nat /\ loops[t].index \in Nat
  BY DEF Call, LoopTyped, ThreadTyped, Carries, Step
<1>2. Len(talk) \in 1..Len(talk) /\ Batch(t) = talk[Len(talk)]
  BY LenProperties DEF LoopTyped, Batch
<1>3. talk[Len(talk)].calls \in Seq(CallKinds)
  BY <1>2, TalkHas
<1>4. Len(talk[Len(talk)].calls) \in Nat
  BY <1>3, LenProperties
<1> SUFFICES ASSUME NEW i \in 1..Len(talk), talk[i].step = Call(t)[1]
             PROVE  Call(t)[2] \in 1..Len(talk[i].calls)
  BY DEF Fitting
<1>5. i = Len(talk)
  BY <1>1, <1>2, TalkHas
<1> QED
  BY <1>1, <1>2, <1>4, <1>5

\* A question about one more call.
LEMMA TallyAsks ==
  ASSUME LoopInv, ~doubled, NEW t \in Threads, Fitting(Call(t)), Open \subseteq ran,
         \A u \in Threads : ~Answering(u)', Noted(disk'.request) \subseteq {Call(t)},
         UNCHANGED <<talk, screen, ran, tokens, interrupter>>,
         Cardinality(ran) + 1 <= MaxToolCalls
  PROVE  /\ Tallied' /\ Open' \subseteq ran \cup {Call(t)}
         /\ Cardinality(ran \cup {Call(t)}) <= Cardinality(ran) + 1
         /\ Cardinality(ran \cup {Call(t)}) \in Nat /\ Cardinality(ran) \in Nat
<1>1. Open' = Noted(disk'.request) \cup Noted(interrupter'.copy.request)
  BY DEF Open
<1>2. Open' \subseteq ran \cup {Call(t)}
  BY <1>1 DEF Open
<1>3. IsFiniteSet(ran)
  BY DEF LoopInv, LoopTyped
<1>4. /\ Cardinality(ran \cup {Call(t)}) <= Cardinality(ran) + 1
      /\ Cardinality(ran \cup {Call(t)}) \in Nat /\ Cardinality(ran) \in Nat
      /\ IsFiniteSet(ran \cup {Call(t)})
  BY <1>3, OneMore
<1>5. Cardinality(ran' \cup Open') <= MaxToolCalls
  <2>1. ran' \cup Open' \subseteq ran \cup {Call(t)}
    BY <1>2
  <2>2. /\ Cardinality(ran' \cup Open') <= Cardinality(ran \cup {Call(t)})
        /\ Cardinality(ran' \cup Open') \in Nat
    BY <1>4, <2>1, FS_Subset, FS_CardinalityType
  <2> QED
    BY <1>4, <2>2, LoopAssumption
<1>6. \A c \in Open' : Fitting(c)'
  <2>1. \A c \in Open' : Fitting(c)
    BY <1>1 DEF LoopInv, Tallied, Open
  <2> QED
    BY <2>1 DEF Fitting
<1>7. /\ tokens' <= MaxTokens + 1
      /\ \A i \in 1..Len(talk') : /\ talk'[i].results \subseteq 1..Len(talk'[i].calls)
                                  /\ screen'.step = talk'[i].step => screen'.text = talk'[i].text
  BY DEF LoopInv, Tallied
<1> QED
  BY <1>2, <1>4, <1>5, <1>6, <1>7, IsTallied

LEMMA PauseTyped ==
  ASSUME LoopInv, NEW t \in Threads,
         NEW request \in [step : Nat, index : Nat, kind : Asking], NEW resume \in Carries,
         disk' = Session(request, resume, "paused"), Returns(t, disk', "waiting"),
         job' = Marked("waiting"),
         UNCHANGED <<runStatus, talk, screen, terminals, interrupter, late, interrupts, restarts,
                     ran, tokens, broken, doubled>>
  PROVE  /\ LoopTyped' /\ disk'.request = request /\ disk'.resume = resume
         /\ Moved(t) /\ loops'[t].at = "returned"
<1>1. /\ request \in [step : Nat, index : Nat, kind : Asking \cup {"none"}]
  OBVIOUS
<1>2. disk' \in Sessions /\ disk'.request = request /\ disk'.resume = resume
  BY <1>1, SessionHas
<1>3. Moved(t) /\ loops'[t].at = "returned" /\ ThreadTyped(loops'[t])
  BY <1>2, IsReturned DEF LoopInv, LoopResults
<1>4. DOMAIN loops' = Threads /\ \A u \in Threads : ThreadTyped(loops'[u])
  BY <1>3, ThreadsTyped DEF LoopInv
<1>5. job' \in [status : Execution!Status, cancel : BOOLEAN]
  BY IsMarked DEF LoopInv, Execution!Status
<1>6. LoopTyped'
  BY <1>2, <1>4, <1>5 DEF LoopInv, LoopTyped
<1> QED
  BY <1>2, <1>3, <1>6

LEMMA CarryPends ==
  ASSUME NEW c \in Carries
  PROVE  /\ [c EXCEPT !.step = @ + 1, !.calls = @ + 1] \in Carries
         /\ [c EXCEPT !.step = @ + 1, !.calls = @ + 1].step = c.step + 1
         /\ [c EXCEPT !.step = @ + 1, !.calls = @ + 1].calls = c.calls + 1
         /\ [c EXCEPT !.step = @ + 1, !.calls = @ + 1].tokens = c.tokens
<1> DEFINE moved == [c EXCEPT !.step = c.step + 1]
           new == [c EXCEPT !.step = @ + 1, !.calls = @ + 1]
<1>1. /\ moved \in Carries /\ moved.step = c.step + 1 /\ moved.calls = c.calls /\ moved.tokens = c.tokens
  BY CarryMoves
<1>2. new = [moved EXCEPT !.calls = moved.calls + 1]
  BY Zenon
<1> HIDE DEF moved, new
<1>3. /\ new \in Carries /\ new.step = c.step + 1
      /\ new.calls = c.calls + 1 /\ new.tokens = c.tokens
  BY <1>1, <1>2, CarryMoves
<1> QED
  BY <1>3 DEF new

LEMMA PausesKeeps ==
  ASSUME LoopInv, NEW t \in Threads, Pauses(t)
  PROVE  LoopInv'
<1> DEFINE request == [step |-> Step(t), index |-> loops[t].index, kind |-> NextKind(t)]
<1>1. /\ At(t, "batch") /\ InLoop(t) /\ loops[t].index <= Len(Batch(t).calls) /\ Affordable(t)
      /\ Busy(t) /\ Occupied(t)
  BY DEF Pauses, HasCall, At, InLoop, Busy, Occupied
<1>2. /\ UNCHANGED <<runStatus, talk, screen, terminals, interrupter, late, interrupts, restarts,
                     ran, tokens, broken, doubled>>
      /\ job' = Marked("waiting")
  BY DEF Pauses, world
<1>3. /\ loops[t].carry \in Carries /\ Step(t) \in Nat /\ loops[t].index \in Nat
  BY DEF LoopInv, LoopTyped, ThreadTyped, Carries, Step
<1>4. request \in [step : Nat, index : Nat, kind : Asking]
  BY <1>3 DEF Pauses
<1>5. /\ PendingCarry(t) \in Carries /\ PendingCarry(t).step = Step(t) + 1
      /\ PendingCarry(t).calls = loops[t].carry.calls + 1
      /\ PendingCarry(t).tokens = loops[t].carry.tokens
  BY <1>3, CarryPends DEF PendingCarry, Step
<1>6. disk' = Session(request, PendingCarry(t), "paused") /\ Returns(t, disk', "waiting")
  BY DEF Pauses
<1>7. CallOf(request) = Call(t) /\ request.step = Step(t)
  BY DEF CallOf, Call
<1> HIDE DEF request
<1>8. /\ LoopTyped' /\ disk'.request = request /\ disk'.resume = PendingCarry(t)
      /\ Moved(t) /\ loops'[t].at = "returned"
  BY <1>2, <1>4, <1>5, <1>6, PauseTyped
<1>9. CASE doubled
  BY <1>2, <1>8, <1>9 DEF LoopInv
<1>10. CASE ~doubled
  <2>1. /\ Open \subseteq ran /\ Cardinality(ran) <= loops[t].carry.calls
        /\ tokens <= loops[t].carry.tokens /\ loops[t].carry.tokens <= MaxTokens
        /\ Len(talk) > 0 /\ Batch(t).step = Step(t)
        /\ \A i \in 1..Len(talk) : i # Len(talk) => talk[i].step < Step(t)
        /\ interrupter.copy.request.step < Step(t)
        /\ screen.step = Step(t) /\ loops[t].index > 0
    BY <1>1, <1>10 DEF LoopInv, LoopSound, At
  <2>2. Fitting(Call(t))
    BY <1>1, <2>1, CallFits DEF LoopInv
  <2>3. loops[t].carry.calls + 1 <= MaxToolCalls
    <3>1. [loops[t].carry EXCEPT !.calls = @ + 1].calls = loops[t].carry.calls + 1
      BY <1>3, CarryMoves
    <3>2. ~([loops[t].carry EXCEPT !.calls = @ + 1].calls > MaxToolCalls)
      BY <1>1 DEF Affordable, OverBudget
    <3> QED
      BY <1>3, <3>1, <3>2, LoopAssumption DEF Carries
  <2>4. Cardinality(ran) \in Nat
    BY FS_CardinalityType DEF LoopInv, LoopTyped
  <2>5. Cardinality(ran) + 1 <= MaxToolCalls
    BY <1>3, <2>1, <2>3, <2>4, LoopAssumption DEF Carries
  <2>6. \A u \in Threads : ~Answering(u)'
    <3>1. ~Answering(t)'
      BY <1>8 DEF Answering
    <3> QED
      BY <1>1, <1>8, <1>10, <3>1, OthersRest
  <2>7. Noted(disk'.request) \subseteq {Call(t)}
    BY <1>7, <1>8 DEF Noted
  <2>8. /\ Tallied' /\ Open' \subseteq ran \cup {Call(t)}
        /\ Cardinality(ran \cup {Call(t)}) <= Cardinality(ran) + 1
        /\ Cardinality(ran \cup {Call(t)}) \in Nat
    BY <1>2, <1>10, <2>1, <2>2, <2>5, <2>6, <2>7, TallyAsks
  <2>9. \A i \in 1..Len(talk) : talk[i].step < Step(t) + 1
    <3> TAKE i \in 1..Len(talk)
    <3>1. talk[i].step \in Nat
      BY TalkHas DEF LoopInv
    <3>2. CASE i = Len(talk)
      BY <1>3, <2>1, <3>2 DEF Batch
    <3>3. CASE i # Len(talk)
      BY <1>3, <2>1, <3>1, <3>3
    <3> QED
      BY <3>2, <3>3
  <2>10. Promises(disk.resume, CallOf(disk.request))'
    <3>1. CallOf(disk.request)' = Call(t) /\ disk'.resume = PendingCarry(t) /\ disk'.request.step = Step(t)
      BY <1>7, <1>8 DEF CallOf
    <3>2. interrupter.copy.request.step \in Nat
      BY DEF LoopInv, LoopTyped, Sessions
    <3>3. Before(disk.resume.step)' /\ Unshown(disk.resume.step)'
      BY <1>2, <1>3, <1>5, <2>1, <2>9, <3>1, <3>2 DEF Before, Unshown
    <3>4. Cardinality(ran' \cup {CallOf(disk.request)'}) <= disk'.resume.calls
      BY <1>2, <1>3, <1>5, <2>1, <2>4, <2>8, <3>1 DEF Carries
    <3>5. disk'.resume.calls <= MaxToolCalls /\ tokens' <= disk'.resume.tokens /\ disk'.resume.tokens <= MaxTokens
      BY <1>2, <1>5, <2>1, <2>3, <3>1
    <3>6. Open' \subseteq ran' \cup {CallOf(disk.request)'}
      BY <1>2, <2>8, <3>1
    <3> QED
      BY <3>3, <3>4, <3>5, <3>6 DEF Promises
  <2> QED
    BY <1>1, <1>2, <1>4, <1>5, <1>6, <1>8, <1>10, <2>8, <2>10, Pausing
<1> QED
  BY <1>9, <1>10

-----------------------------------------------------------------------------
\* The calls a turn was started with are run by the worker, alone.
LEMMA GivenAlone ==
  ASSUME LoopInv, ~doubled, NEW t \in Threads, At(t, "given")
  PROVE  /\ t = "worker" /\ Open = {} /\ disk.request = NoRequest /\ disk.resume = NoResume
         /\ interrupter.copy.request = NoRequest /\ Occupied(t) /\ Busy(t)
         /\ Copy(t).request = NoRequest
<1>1. t = "worker"
  BY DEF LoopInv, OneAtWork, Threads
<1>2. Occupied(t) /\ Busy(t)
  BY DEF Occupied, Busy, At
<1>3. disk.request = NoRequest /\ interrupter.copy.request = NoRequest /\ disk.resume = NoResume
  BY <1>1, <1>2 DEF LoopInv, OneAtWork, SavedSound
<1>4. \A u \in Threads : ~Answering(u)
  <2> TAKE u \in Threads
  <2>1. Answering(u) => Occupied(u)
    BY DEF Answering, Occupied, Busy, At
  <2>2. ~Answering(t)
    BY DEF Answering, At
  <2> QED
    BY <1>2, <2>1, <2>2 DEF LoopInv, OneAtWork
<1>5. Open = {}
  BY <1>3, <1>4 DEF Open, Noted
<1> QED
  BY <1>1, <1>2, <1>3, <1>5, CopyIsClear

LEMMA RunsGivenKeeps ==
  ASSUME LoopInv, NEW t \in Threads, RunsGiven(t)
  PROVE  LoopInv'
<1>1. /\ Moved(t) /\ ThreadTyped(loops'[t])
      /\ loops'[t].at = loops[t].at /\ loops'[t].index = loops[t].index + 1
      /\ loops'[t].carry = loops[t].carry /\ loops'[t].copy = loops[t].copy
  BY IsFurther DEF LoopInv, RunsGiven
<1>2. /\ At(t, "given") /\ loops[t].index <= Len(Batch(t).calls) /\ Len(Batch(t).calls) <= MaxToolCalls
  BY DEF RunsGiven, HasGiven
<1>3. UNCHANGED <<disk, runStatus, job, screen, terminals, interrupter, late, interrupts, restarts,
                  tokens, doubled, broken>>
  BY DEF RunsGiven, world
<1>4. talk' = Resulted(Call(t)) /\ ran' = ran \cup {Call(t)}
  BY DEF RunsGiven
<1>5. /\ Call(t) \in Nat \X Nat /\ loops[t].index \in Nat /\ Step(t) \in Nat
  BY DEF Call, LoopInv, LoopTyped, ThreadTyped, Carries, Step
<1>6. /\ talk' \in Seq(Messages) /\ Len(talk') = Len(talk) /\ Len(talk) \in Nat
      /\ \A i \in 1..Len(talk) :
              /\ talk'[i].step = talk[i].step /\ talk'[i].text = talk[i].text
              /\ talk'[i].calls = talk[i].calls
              /\ talk'[i].results =
                   IF talk[i].step = Call(t)[1] THEN talk[i].results \cup {Call(t)[2]} ELSE talk[i].results
  BY <1>4, <1>5, Resulting DEF LoopInv
<1>7. /\ IsFiniteSet(ran') /\ Cardinality(ran') \in Nat /\ Cardinality(ran) \in Nat
      /\ Cardinality(ran') <= Cardinality(ran) + 1
  BY <1>4, OneMore DEF LoopInv, LoopTyped
<1>8. LoopTyped'
  <2>1. DOMAIN loops' = Threads /\ \A u \in Threads : ThreadTyped(loops'[u])
    BY <1>1, ThreadsTyped DEF LoopInv
  <2> QED
    BY <1>3, <1>6, <1>7, <2>1 DEF LoopInv, LoopTyped
<1>9. CASE doubled
  BY <1>3, <1>8, <1>9 DEF LoopInv
<1>10. CASE ~doubled
  <2>1. /\ t = "worker" /\ Open = {} /\ disk.request = NoRequest /\ disk.resume = NoResume
        /\ interrupter.copy.request = NoRequest /\ Occupied(t) /\ Busy(t)
        /\ Copy(t).request = NoRequest
    BY <1>2, <1>10, GivenAlone
  <2>2. /\ Len(talk) = 1 /\ talk[1].step = 1 /\ Step(t) = 1 /\ screen.step = 0
        /\ loops[t].index > 0 /\ Cardinality(ran) < loops[t].index /\ tokens = 0
    BY <1>2, <1>10 DEF LoopInv, GivenSound
  <2>3. Moved(t) /\ ~InLoop(t)' /\ ~Answering(t)' /\ At(t, "given")' /\ ~At(t, "returned")' /\ Busy(t)' /\ Occupied(t)'
    BY <1>1, <1>2 DEF InLoop, Answering, At, Busy, Occupied
  <2>4. \A u \in Threads : u # t =>
           /\ ~Occupied(u) /\ ~Occupied(u)' /\ ~Busy(u) /\ ~Busy(u)' /\ ~Answering(u)'
           /\ ~At(u, "given")'
           /\ LoopSound(u)' /\ GivenSound(u)' /\ AnswerSound(u)' /\ CopySound(u)'
           /\ At(u, "returned")' => loops'[u].result = "waiting"
    BY <1>10, <2>1, <2>3, OthersRest
  <2>5. Open' = {}
    <3>1. \A u \in Threads : ~Answering(u)'
      BY <2>3, <2>4
    <3>2. Open' = Noted(disk'.request) \cup Noted(interrupter'.copy.request)
      BY <3>1 DEF Open
    <3> QED
      BY <1>3, <2>1, <3>2 DEF Noted
  <2>6. Fitting(Call(t))
    <3>1. Batch(t).step = Step(t) /\ \A i \in 1..Len(talk) : i # Len(talk) => talk[i].step < Step(t)
      BY <2>2 DEF Batch
    <3> QED
      BY <1>2, <2>2, <3>1, CallFits DEF LoopInv
  <2>7. Cardinality(ran') <= MaxToolCalls /\ Cardinality(ran') < loops'[t].index
    <3>1. Len(Batch(t).calls) \in Nat
      <4>1. Batch(t) = talk[1]
        BY <2>2 DEF Batch
      <4>2. talk[1].calls \in Seq(CallKinds)
        BY <2>2, TalkHas DEF LoopInv
      <4> QED
        BY <4>1, <4>2, LenProperties
    <3> QED
      BY <1>1, <1>2, <1>5, <1>7, <2>2, <3>1, LoopAssumption
  <2>8. Tallied'
    <3>1. ran' \cup Open' = ran'
      BY <2>5
    <3> QED
      BY <1>3, <1>5, <1>6, <1>10, <2>5, <2>6, <2>7, <3>1, TallyRuns
  <2>9. OneAtWork'
    <3>1. \A u, v \in Threads : Occupied(u)' /\ Occupied(v)' => u = v
      BY <2>4
    <3>2. ~Answering("worker")' /\ \A r \in Responders : ~At(r, "given")'
      BY <2>1, <2>3, <2>4, LoopAssumption DEF Threads
    <3> QED
      BY <1>3, <2>1, <3>1, <3>2 DEF OneAtWork
  <2>10. SavedSound'
    BY <1>3, <2>1 DEF SavedSound, Promises
  <2>11. Ending'
    <3> SUFFICES ASSUME Still'
                 PROVE (~job.cancel /\ interrupter.at = "rest" /\ GoesOn)'
      BY DEF Ending
    <3>1. Still /\ ~job.cancel /\ interrupter.at = "rest" /\ GoesOn
      BY <1>3, <1>10, <2>1 DEF LoopInv, Ending, Still, HasEnded
    <3>2. \A u \in Threads : At(u, "returned")' => loops'[u].result \in {"waiting", "error"}
      BY <2>3, <2>4
    <3> QED
      BY <1>3, <3>1, <3>2 DEF GoesOn
  <2>12. GivenSound(t)'
    <3>1. talk'[1].step = 1 /\ Len(talk') = 1
      BY <1>6, <2>2
    <3>2. Step(t)' = 1
      BY <1>1, <2>2 DEF Step
    <3> QED
      BY <1>1, <1>3, <1>5, <2>2, <2>7, <3>1, <3>2 DEF GivenSound
  <2>13. LoopSound(t)' /\ AnswerSound(t)' /\ CopySound(t)'
    BY <1>1, <2>1, <2>3 DEF LoopSound, AnswerSound, CopySound, Copy
  <2>14. \A u \in Threads : LoopSound(u)' /\ GivenSound(u)' /\ AnswerSound(u)' /\ CopySound(u)'
    BY <2>4, <2>12, <2>13
  <2> QED
    BY <1>8, <2>8, <2>9, <2>10, <2>11, <2>14 DEF LoopInv
<1> QED
  BY <1>9, <1>10

LEMMA GivenBreaksKeeps ==
  ASSUME LoopInv, NEW t \in Threads, GivenBreaks(t)
  PROVE  LoopInv'
<1>1. /\ At(t, "given") /\ Busy(t) /\ loops[t].index <= Len(Batch(t).calls)
      /\ Len(Batch(t).calls) <= MaxToolCalls /\ Returns(t, Copy(t), "error")
  BY DEF GivenBreaks, HasGiven, At, Busy
<1>2. UNCHANGED <<disk, runStatus, job, screen, terminals, interrupter, late, interrupts, restarts,
                  tokens, doubled, broken>>
  BY DEF GivenBreaks, world
<1>3. talk' \in {talk, Resulted(Call(t))} /\ ran' \in {ran, ran \cup {Call(t)}}
  BY DEF GivenBreaks
<1>4. /\ Call(t) \in Nat \X Nat /\ loops[t].index \in Nat /\ Step(t) \in Nat
  BY DEF Call, LoopInv, LoopTyped, ThreadTyped, Carries, Step
<1>5. ASSUME ~doubled
      PROVE  /\ Fitting(Call(t)) /\ Copy(t).request = NoRequest
             /\ disk.resume = NoResume /\ Open' \subseteq Open
             /\ Cardinality(ran' \cup Open') <= MaxToolCalls
  <2>1. /\ Open = {} /\ disk.request = NoRequest /\ disk.resume = NoResume
        /\ interrupter.copy.request = NoRequest /\ Occupied(t) /\ Copy(t).request = NoRequest
    BY <1>1, <1>5, GivenAlone
  <2>2. /\ Len(talk) = 1 /\ talk[1].step = 1 /\ Step(t) = 1
        /\ loops[t].index > 0 /\ Cardinality(ran) < loops[t].index
    BY <1>1, <1>5 DEF LoopInv, GivenSound
  <2>3. Moved(t) /\ loops'[t].at = "returned"
    BY <1>1, IsReturned DEF LoopInv, LoopResults, LoopTyped, ThreadTyped, Copy
  <2>4. Open' = {}
    <3>1. \A u \in Threads : ~Answering(u)'
      BY <1>5, <2>1, <2>3, OthersRest DEF Answering
    <3>2. Open' = Noted(disk'.request) \cup Noted(interrupter'.copy.request)
      BY <3>1 DEF Open
    <3> QED
      BY <1>2, <2>1, <3>2 DEF Noted
  <2>5. Fitting(Call(t))
    <3>1. Batch(t).step = Step(t) /\ \A i \in 1..Len(talk) : i # Len(talk) => talk[i].step < Step(t)
      BY <2>2 DEF Batch
    <3> QED
      BY <1>1, <2>2, <3>1, CallFits DEF LoopInv
  <2>6. Len(Batch(t).calls) \in Nat
    <3>1. Batch(t) = talk[1]
      BY <2>2 DEF Batch
    <3>2. talk[1].calls \in Seq(CallKinds)
      BY <2>2, TalkHas DEF LoopInv
    <3> QED
      BY <3>1, <3>2, LenProperties
  <2>7. /\ Cardinality(ran') \in Nat /\ Cardinality(ran) \in Nat
        /\ Cardinality(ran') <= Cardinality(ran) + 1
    <3>1. IsFiniteSet(ran)
      BY DEF LoopInv, LoopTyped
    <3>2. Cardinality(ran) \in Nat
      BY <3>1, FS_CardinalityType
    <3>3. CASE ran' = ran
      BY <3>2, <3>3
    <3>4. CASE ran' = ran \cup {Call(t)}
      BY <3>1, <3>4, OneMore
    <3> QED
      BY <1>3, <3>3, <3>4
  <2>8. Cardinality(ran') <= MaxToolCalls
    BY <1>1, <1>4, <2>2, <2>6, <2>7, LoopAssumption
  <2>9. ran' \cup Open' = ran'
    BY <2>4
  <2> QED
    BY <2>1, <2>4, <2>5, <2>8, <2>9
<1> QED
  BY <1>1, <1>2, <1>3, <1>5, Breaking

LEMMA PausesGivenKeeps ==
  ASSUME LoopInv, NEW t \in Threads, PausesGiven(t)
  PROVE  LoopInv'
<1> DEFINE request == [step |-> Step(t), index |-> loops[t].index, kind |-> NextKind(t)]
<1>1. /\ At(t, "given") /\ loops[t].index <= Len(Batch(t).calls) /\ Len(Batch(t).calls) <= MaxToolCalls
      /\ Busy(t)
  BY DEF PausesGiven, HasGiven, At, Busy
<1>2. /\ UNCHANGED <<runStatus, talk, screen, terminals, interrupter, late, interrupts, restarts,
                     ran, tokens, broken, doubled>>
      /\ job' = Marked("waiting")
  BY DEF PausesGiven, world
<1>3. /\ Step(t) \in Nat /\ loops[t].index \in Nat
  BY DEF LoopInv, LoopTyped, ThreadTyped, Carries, Step
<1>4. request \in [step : Nat, index : Nat, kind : Asking]
  BY <1>3 DEF PausesGiven, Asking
<1>6. disk' = Session(request, NoResume, "paused") /\ Returns(t, disk', "waiting")
  BY DEF PausesGiven
<1>7. CallOf(request) = Call(t) /\ request.step = Step(t)
  BY DEF CallOf, Call
<1> HIDE DEF request
<1>8. /\ LoopTyped' /\ disk'.request = request /\ disk'.resume = NoResume
      /\ Moved(t) /\ loops'[t].at = "returned"
  BY <1>2, <1>4, <1>6, PauseTyped, Constants
<1>9. CASE doubled
  BY <1>2, <1>8, <1>9 DEF LoopInv
<1>10. CASE ~doubled
  <2>1. /\ Open = {} /\ Occupied(t)
    BY <1>1, <1>10, GivenAlone
  <2>2. /\ Len(talk) = 1 /\ talk[1].step = 1 /\ Step(t) = 1
        /\ loops[t].index > 0 /\ Cardinality(ran) < loops[t].index
    BY <1>1, <1>10 DEF LoopInv, GivenSound
  <2>3. Fitting(Call(t))
    <3>1. Batch(t).step = Step(t) /\ \A i \in 1..Len(talk) : i # Len(talk) => talk[i].step < Step(t)
      BY <2>2 DEF Batch
    <3> QED
      BY <1>1, <2>2, <3>1, CallFits DEF LoopInv
  <2>4. Cardinality(ran) + 1 <= MaxToolCalls
    <3>1. Len(Batch(t).calls) \in Nat
      <4>1. Batch(t) = talk[1]
        BY <2>2 DEF Batch
      <4>2. talk[1].calls \in Seq(CallKinds)
        BY <2>2, TalkHas DEF LoopInv
      <4> QED
        BY <4>1, <4>2, LenProperties
    <3>2. Cardinality(ran) \in Nat
      BY FS_CardinalityType DEF LoopInv, LoopTyped
    <3> QED
      BY <1>1, <1>3, <2>2, <3>1, <3>2, LoopAssumption
  <2>5. \A u \in Threads : ~Answering(u)'
    <3>1. ~Answering(t)'
      BY <1>8 DEF Answering
    <3> QED
      BY <1>8, <1>10, <2>1, <3>1, OthersRest
  <2>6. Noted(disk'.request) \subseteq {Call(t)} /\ Open \subseteq ran
    BY <1>7, <1>8, <2>1 DEF Noted
  <2>7. Tallied'
    BY <1>2, <1>10, <2>3, <2>4, <2>5, <2>6, TallyAsks
  <2>8. Promises(disk.resume, CallOf(disk.request))'
    BY <1>8 DEF Promises
  <2> QED
    BY <1>1, <1>2, <1>4, <1>6, <1>8, <1>10, <2>7, <2>8, Constants, Pausing
<1> QED
  BY <1>9, <1>10

\* The run ends with the session cleared.
LEMMA EndTyped ==
  ASSUME LoopInv, NEW t \in Threads, NEW status \in {"completed", "failed"},
         Ends(Session(NoRequest, NoResume, "idle"), status, status),
         Returns(t, Session(NoRequest, NoResume, "idle"), status),
         talk' \in Seq(Messages), IsFiniteSet(ran'),
         job' \in [status : Execution!Status, cancel : BOOLEAN],
         UNCHANGED <<screen, interrupter, late, interrupts, restarts, tokens, doubled, broken>>
  PROVE  LoopTyped' /\ disk'.request = NoRequest /\ disk'.resume = NoResume
<1> DEFINE copy == Session(NoRequest, NoResume, "idle")
<1>1. copy \in Sessions /\ copy.request = NoRequest /\ copy.resume = NoResume
  BY Constants, SessionHas
<1>2. status \in Execution!Terminal /\ status \in LoopResults
  BY DEF Execution!Terminal, LoopResults
<1>3. Moved(t) /\ ThreadTyped(loops'[t])
  BY <1>1, <1>2, IsReturned DEF LoopInv
<1>4. DOMAIN loops' = Threads /\ \A u \in Threads : ThreadTyped(loops'[u])
  BY <1>3, ThreadsTyped DEF LoopInv
<1>5. terminals' \in Seq(Execution!Terminal) /\ disk' = copy /\ runStatus' = status
  BY <1>2, AppendProperties DEF Ends, LoopInv, LoopTyped
<1> QED
  BY <1>1, <1>2, <1>4, <1>5 DEF LoopInv, LoopTyped

LEMMA EndsGivenKeeps ==
  ASSUME LoopInv, NEW t \in Threads, EndsGiven(t) \/ Denies(t)
  PROVE  LoopInv'
<1>1. Busy(t)
  BY DEF EndsGiven, Denies, At, Busy
<1>2. PICK status \in {"completed", "failed"} :
        /\ Ends(Session(NoRequest, NoResume, "idle"), status, status)
        /\ Returns(t, Session(NoRequest, NoResume, "idle"), status)
  BY DEF EndsGiven, Denies
<1>3. UNCHANGED <<job, talk, screen, interrupter, late, interrupts, restarts, ran, tokens, doubled, broken>>
  BY DEF EndsGiven, Denies, world, ghosts
<1>4. LoopTyped' /\ disk'.request = NoRequest /\ disk'.resume = NoResume
  <2>1. talk' \in Seq(Messages) /\ IsFiniteSet(ran') /\ job' \in [status : Execution!Status, cancel : BOOLEAN]
    BY <1>3 DEF LoopInv, LoopTyped
  <2> QED
    BY <1>2, <1>3, <2>1, EndTyped
<1>5. CASE doubled
  BY <1>3, <1>4, <1>5 DEF LoopInv
<1>6. CASE ~doubled
  <2>1. /\ Session(NoRequest, NoResume, "idle") \in Sessions
        /\ Session(NoRequest, NoResume, "idle").request = NoRequest
    BY Constants, SessionHas
  <2>2. status \in LoopResults \ {"waiting"} /\ tokens' <= MaxTokens + 1
    BY <1>3, <1>6 DEF LoopResults, LoopInv, Tallied
  <2> QED
    BY <1>1, <1>2, <1>3, <1>4, <1>6, <2>1, <2>2, Leaving
<1> QED
  BY <1>5, <1>6

-----------------------------------------------------------------------------
\* What only takes back questions leaves every thread that does not move sound.
LEMMA BeforeStays ==
  ASSUME UNCHANGED talk, NEW s, Before(s),
         disk'.request \in {disk.request, interrupter.copy.request},
         interrupter'.copy.request \in {disk.request, interrupter.copy.request}
  PROVE  Before(s)'
  BY DEF Before

LEMMA PromiseStays ==
  ASSUME UNCHANGED <<talk, screen, ran, tokens>>, Open' \subseteq Open,
         disk'.request \in {disk.request, interrupter.copy.request},
         interrupter'.copy.request \in {disk.request, interrupter.copy.request},
         NEW rest, NEW call, Promises(rest, call)
  PROVE  Promises(rest, call)'
  BY BeforeStays DEF Promises, Unshown

LEMMA Untouched ==
  ASSUME LoopInv, ~doubled, UNCHANGED <<talk, screen, ran, tokens>>, Open' \subseteq Open,
         disk'.request \in {disk.request, interrupter.copy.request},
         interrupter'.copy.request \in {disk.request, interrupter.copy.request},
         disk'.resume \in {disk.resume, NoResume},
         NEW u \in Threads, loops'[u] = loops[u]
  PROVE  LoopSound(u)' /\ GivenSound(u)' /\ AnswerSound(u)' /\ CopySound(u)'
<1>1. LoopSound(u) /\ GivenSound(u) /\ AnswerSound(u) /\ CopySound(u)
  BY DEF LoopInv
<1>2. LoopSound(u)'
  <2> SUFFICES ASSUME InLoop(u)
               PROVE  LoopSound(u)'
    BY DEF LoopSound, InLoop
  <2>1. Before(Step(u)) => Before(loops[u].carry.step)'
    BY BeforeStays DEF Step
  <2>2. /\ disk.request.step < Step(u) /\ interrupter.copy.request.step < Step(u)
        => disk'.request.step < Step(u) /\ interrupter'.copy.request.step < Step(u)
    OBVIOUS
  <2> QED
    BY <1>1, <2>1, <2>2 DEF LoopSound, InLoop, At, Copy, Step, Unshown, Batch
<1>3. GivenSound(u)'
  BY <1>1 DEF GivenSound, At, Step
<1>4. AnswerSound(u)'
  BY <1>1, PromiseStays DEF AnswerSound, Answering, Copy, Call, Step
<1>5. CopySound(u)'
  BY <1>1 DEF CopySound, At, Copy
<1> QED
  BY <1>2, <1>3, <1>4, <1>5

\* One that rests owes nothing.
LEMMA AtRest ==
  ASSUME NEW u \in Threads, loops'[u].at = "rest", loops'[u].copy.request = NoRequest
  PROVE  /\ LoopSound(u)' /\ GivenSound(u)' /\ AnswerSound(u)' /\ CopySound(u)'
         /\ ~Occupied(u)' /\ ~Answering(u)' /\ ~At(u, "given")' /\ ~Busy(u)' /\ ~At(u, "returned")'
<1>1. ~InLoop(u)' /\ ~Answering(u)' /\ ~At(u, "given")' /\ ~Busy(u)' /\ ~At(u, "returned")' /\ At(u, "rest")'
  BY DEF InLoop, Answering, At, Busy
<1>2. ~Occupied(u)'
  BY <1>1 DEF Occupied
<1>3. CopySound(u)'
  BY DEF CopySound, Copy
<1> QED
  BY <1>1, <1>2, <1>3 DEF LoopSound, GivenSound, AnswerSound

LEMMA SavedStays ==
  ASSUME LoopInv, ~doubled, UNCHANGED <<talk, screen, ran, tokens>>, Open' \subseteq Open,
         interrupter'.copy.request \in {disk.request, interrupter.copy.request},
         UNCHANGED disk \/ disk'.resume = NoResume
  PROVE  SavedSound'
<1>1. CASE disk'.resume = NoResume
  BY <1>1 DEF SavedSound, Promises
<1>2. CASE UNCHANGED disk
  <2>1. SavedSound
    BY DEF LoopInv
  <2>2. Promises(disk.resume, CallOf(disk.request)) => Promises(disk.resume, CallOf(disk.request))'
    <3> DEFINE rest == disk.resume
               call == CallOf(disk.request)
    <3>1. Before(disk.resume.step) => Before(disk.resume.step)'
      BY <1>2 DEF Before
    <3> QED
      BY <1>2, <3>1 DEF Promises, Unshown, CallOf
  <2> QED
    BY <1>2, <2>1, <2>2 DEF SavedSound
<1> QED
  BY <1>1, <1>2

\* A thread leaves its work; all else is as before.
LEMMA GoesToRest ==
  ASSUME LoopInv, ~doubled, UNCHANGED doubled, NEW t \in Threads, LoopTyped', Moved(t),
         loops'[t].at = "rest", loops'[t].copy.request = NoRequest,
         UNCHANGED <<disk, talk, screen, interrupter, ran, tokens>>, Ending'
  PROVE  LoopInv'
<1>1. \A u \in Threads : u # t => loops'[u] = loops[u]
  BY DEF Moved
<1>2. /\ LoopSound(t)' /\ GivenSound(t)' /\ AnswerSound(t)' /\ CopySound(t)'
      /\ ~Occupied(t)' /\ ~Answering(t)' /\ ~At(t, "given")'
  BY AtRest
<1>3. \A u \in Threads : /\ Occupied(u)' => Occupied(u)
                         /\ Answering(u)' => Answering(u) /\ Call(u)' = Call(u)
                         /\ At(u, "given")' => At(u, "given")
  BY <1>1, <1>2 DEF Occupied, Answering, At, Busy, Call, Step
<1>4. Open' \subseteq Open
  BY <1>3 DEF Open
<1>5. \A u \in Threads : LoopSound(u)' /\ GivenSound(u)' /\ AnswerSound(u)' /\ CopySound(u)'
  <2> TAKE u \in Threads
  <2>1. CASE u = t
    BY <1>2, <2>1
  <2>2. CASE u # t
    BY <1>1, <1>4, <2>2, Untouched
  <2> QED
    BY <2>1, <2>2
<1>6. OneAtWork'
  BY <1>3 DEF LoopInv, OneAtWork, Threads
<1>7. SavedSound'
  BY <1>4, SavedStays
<1>8. Tallied'
  <2>1. tokens' <= MaxTokens + 1
    BY DEF LoopInv, Tallied
  <2> QED
    BY <1>4, <2>1, TallyStays
<1> QED
  BY <1>5, <1>6, <1>7, <1>8 DEF LoopInv

LEMMA StatusesLead ==
  ASSUME NEW s \in Execution!Status
  PROVE  Execution!Successors[s] \subseteq Execution!Status
<1>1. CASE s \in {"queued", "running", "waiting"}
  BY <1>1 DEF Execution!Successors, Execution!Status, Execution!Terminal
<1>2. CASE s \in Execution!Terminal
  BY <1>2 DEF Execution!Successors, Execution!Status, Execution!Terminal
<1> QED
  BY <1>1, <1>2 DEF Execution!Status

LEMMA ResultMarked ==
  ASSUME LoopTyped, NEW result \in LoopResults
  PROVE  /\ Marked(result) \in [status : Execution!Status, cancel : BOOLEAN]
         /\ Marked(result).cancel = job.cancel /\ Marked(result).status \in {job.status, result}
<1>1. CASE result \in {"none", "error"}
  <2>1. job.status \in Execution!Status /\ result \notin Execution!Status
    BY <1>1 DEF LoopTyped, Execution!Status, Execution!Terminal
  <2>2. Execution!Successors[job.status] \subseteq Execution!Status
    BY <2>1, StatusesLead
  <2>3. ~Execution!CanTransition(job.status, result)
    BY <2>1, <2>2 DEF Execution!CanTransition
  <2> QED
    BY <2>3 DEF Marked, LoopTyped
<1>2. CASE result \in {"completed", "failed", "interrupted", "waiting"}
  BY <1>2, IsMarked DEF Execution!Status, Execution!Terminal
<1> QED
  BY <1>1, <1>2 DEF LoopResults

LEMMA WorkerReturnsKeeps == ASSUME LoopInv, WorkerReturns PROVE LoopInv'
<1> DEFINE t == "worker"
           copy == [Copy(t) EXCEPT !.resume = NoResume, !.status = "idle"]
<1>1. t \in Threads /\ At(t, "returned") /\ ~Busy(t)
  BY DEF WorkerReturns, Threads, At, Busy
<1>2. /\ loops' = [loops EXCEPT ![t] = Resting]
      /\ UNCHANGED <<talk, screen, interrupter, late, interrupts, restarts, ran, tokens, doubled, broken>>
  BY DEF WorkerReturns, world, ghosts
<1>3. loops[t].result \in LoopResults /\ Copy(t) \in Sessions
  BY <1>1 DEF LoopInv, LoopTyped, ThreadTyped, Copy
<1>4. /\ Moved(t) /\ ThreadTyped(loops'[t]) /\ loops'[t].at = "rest" /\ loops'[t].copy.request = NoRequest
  BY <1>1, <1>2, IsRested DEF LoopInv
<1>5. DOMAIN loops' = Threads /\ \A u \in Threads : ThreadTyped(loops'[u])
  BY <1>1, <1>4, ThreadsTyped DEF LoopInv
<1>6. ~Busy(t)' /\ ~At(t, "returned")'
  BY <1>4 DEF Busy, At
<1>7. CASE loops[t].result = "error"
  <2>1. Ends(copy, "failed", "failed") /\ job' = Marked("failed")
    BY <1>7 DEF WorkerReturns
  <2>2. copy \in Sessions /\ copy.resume = NoResume
        /\ (Copy(t).request = NoRequest => copy = Session(NoRequest, NoResume, "idle"))
    BY <1>3, SessionIs
  <2> HIDE DEF copy
  <2>3. /\ job' \in [status : Execution!Status, cancel : BOOLEAN]
        /\ job'.cancel = job.cancel /\ job'.status \in {job.status, "failed"}
    BY <2>1, ResultMarked DEF LoopInv, LoopResults
  <2>4. LoopTyped'
    <3>1. "failed" \in Execution!Terminal
      BY DEF Execution!Terminal
    <3>2. terminals' \in Seq(Execution!Terminal) /\ disk' \in Sessions /\ runStatus' = "failed"
      BY <2>1, <2>2, <3>1, AppendProperties DEF Ends, LoopInv, LoopTyped
    <3> QED
      BY <1>2, <1>5, <2>3, <3>1, <3>2 DEF LoopInv, LoopTyped
  <2>5. CASE doubled
    BY <1>2, <2>4, <2>5 DEF LoopInv
  <2>6. CASE ~doubled
    <3>1. Copy(t).request = NoRequest
      BY <1>1, <1>7, <2>6 DEF LoopInv, CopySound
    <3>2. disk' = Session(NoRequest, NoResume, "idle") /\ disk'.request = NoRequest /\ disk'.resume = NoResume
          /\ runStatus' = "failed" /\ terminals' = Append(terminals, "failed")
      BY <2>1, <2>2, <3>1, Constants, SessionHas DEF Ends
    <3>3. Occupied(t)
      BY <1>1, <1>7 DEF Occupied
    <3>4. \A u \in Threads : u # t =>
             /\ ~Occupied(u)' /\ ~Busy(u)' /\ ~Answering(u)' /\ ~At(u, "given")'
             /\ LoopSound(u)' /\ GivenSound(u)' /\ AnswerSound(u)' /\ CopySound(u)'
             /\ At(u, "returned")' => loops'[u].result = "waiting"
      BY <1>1, <1>4, <2>6, <3>3, OthersRest
    <3>5. /\ LoopSound(t)' /\ GivenSound(t)' /\ AnswerSound(t)' /\ CopySound(t)'
          /\ ~Occupied(t)' /\ ~Answering(t)' /\ ~At(t, "given")'
      BY <1>1, <1>4, AtRest
    <3>6. Open' \subseteq Open
      <4>1. \A u \in Threads : ~Answering(u)'
        BY <3>4, <3>5
      <4>2. Open' = Noted(disk'.request) \cup Noted(interrupter'.copy.request)
        BY <4>1 DEF Open
      <4> QED
        BY <1>2, <3>2, <4>2 DEF Open, Noted
    <3>7. Tallied'
      <4>1. tokens' <= MaxTokens + 1
        BY <1>2, <2>6 DEF LoopInv, Tallied
      <4> QED
        BY <1>2, <2>6, <3>6, <4>1, TallyStays
    <3>8. OneAtWork'
      <4>1. \A r \in Responders : ~At(r, "given")'
        BY <3>4, <3>5 DEF Threads
      <4> QED
        BY <3>4, <3>5, <4>1 DEF OneAtWork, Threads
    <3>9. SavedSound'
      BY <3>2 DEF SavedSound, Promises
    <3>10. Ending'
      <4> SUFFICES ASSUME Still'
                   PROVE (~job.cancel /\ interrupter.at = "rest" /\ HasEnded("failed"))'
        BY DEF Ending
      <4>1. Still /\ ~job.cancel /\ interrupter.at = "rest" /\ GoesOn
        BY <1>1, <1>2, <1>7, <2>6 DEF LoopInv, Ending, Still, HasEnded
      <4>2. \A u \in Threads : ~Busy(u)' /\ (At(u, "returned")' => loops'[u].result \in {"waiting", "failed"})
        BY <1>6, <3>4
      <4>3. terminals' = <<"failed">> /\ job'.status \in {"running", "waiting", "failed"}
        BY <2>3, <3>2, <4>1 DEF GoesOn
      <4> QED
        BY <1>2, <2>3, <3>2, <4>1, <4>2, <4>3 DEF HasEnded
    <3>11. \A u \in Threads : LoopSound(u)' /\ GivenSound(u)' /\ AnswerSound(u)' /\ CopySound(u)'
      BY <3>4, <3>5
    <3> QED
      BY <2>4, <3>7, <3>8, <3>9, <3>10, <3>11 DEF LoopInv
  <2> QED
    BY <2>5, <2>6
<1>8. CASE loops[t].result # "error"
  <2>1. job' = Marked(loops[t].result) /\ UNCHANGED <<disk, runStatus, terminals>>
    BY <1>8 DEF WorkerReturns
  <2>2. /\ job' \in [status : Execution!Status, cancel : BOOLEAN]
        /\ job'.cancel = job.cancel /\ job'.status \in {job.status, loops[t].result}
    BY <1>3, <2>1, ResultMarked DEF LoopInv
  <2>3. LoopTyped'
    BY <1>2, <1>5, <2>1, <2>2 DEF LoopInv, LoopTyped
  <2>4. CASE doubled
    BY <1>2, <2>3, <2>4 DEF LoopInv
  <2>5. CASE ~doubled
    <3>1. Ending'
      <4> SUFFICES ASSUME Still'
                   PROVE (/\ ~job.cancel /\ interrupter.at = "rest"
                          /\ GoesOn \/ \E status \in {"completed", "failed"} : HasEnded(status))'
        BY DEF Ending
      <4>1. /\ Still /\ ~job.cancel /\ interrupter.at = "rest"
            /\ GoesOn \/ \E status \in {"completed", "failed"} : HasEnded(status)
        BY <1>2, <2>5 DEF LoopInv, Ending, Still
      <4>2. \A u \in Threads : (At(u, "returned")' => At(u, "returned") /\ loops'[u] = loops[u])
                               /\ (~Busy(u) => ~Busy(u)')
        BY <1>4, <1>6 DEF Moved, At, Busy
      <4>3. CASE GoesOn
        <5>1. job'.status \in {"running", "waiting"}
          BY <1>1, <1>8, <2>2, <4>3 DEF GoesOn
        <5>2. \A u \in Threads : At(u, "returned")' => loops'[u].result \in {"waiting", "error"}
          BY <4>2, <4>3 DEF GoesOn
        <5>3. GoesOn'
          BY <2>1, <4>3, <5>1, <5>2 DEF GoesOn
        <5> QED
          BY <1>2, <2>2, <4>1, <5>3
      <4>4. CASE \E status \in {"completed", "failed"} : HasEnded(status)
        <5>1. PICK status \in {"completed", "failed"} : HasEnded(status)
          BY <4>4
        <5>2. job'.status \in {"running", "waiting", status}
          BY <1>1, <2>2, <5>1 DEF HasEnded
        <5>3. \A u \in Threads : ~Busy(u)' /\ (At(u, "returned")' => loops'[u].result \in {"waiting", status})
          BY <4>2, <5>1 DEF HasEnded
        <5>4. HasEnded(status)'
          BY <2>1, <5>1, <5>2, <5>3 DEF HasEnded
        <5> QED
          BY <1>2, <2>2, <4>1, <5>4
      <4> QED
        BY <4>1, <4>3, <4>4
    <3> QED
      BY <1>1, <1>2, <1>4, <2>1, <2>3, <2>5, <3>1, GoesToRest
  <2> QED
    BY <2>4, <2>5
<1> QED
  BY <1>7, <1>8

LEMMA ResponderReturnsKeeps ==
  ASSUME LoopInv, NEW t \in Responders, ResponderReturns(t) \/ AllowFails(t)
  PROVE  LoopInv'
<1>1. t \in Threads
  BY DEF Threads
<1>2. /\ loops' = [loops EXCEPT ![t] = Resting]
      /\ UNCHANGED <<disk, runStatus, talk, screen, terminals, interrupter, late, interrupts, restarts, ran,
                     tokens, doubled>>
  BY DEF ResponderReturns, AllowFails, world
<1>3. /\ Moved(t) /\ ThreadTyped(loops'[t]) /\ loops'[t].at = "rest" /\ loops'[t].copy.request = NoRequest
  BY <1>1, <1>2, IsRested DEF LoopInv
<1>4. DOMAIN loops' = Threads /\ \A u \in Threads : ThreadTyped(loops'[u])
  BY <1>1, <1>3, ThreadsTyped DEF LoopInv
<1>5. loops[t].result \in LoopResults
  BY <1>1 DEF LoopInv, LoopTyped, ThreadTyped
<1>6. /\ job' \in [status : Execution!Status, cancel : BOOLEAN] /\ broken' \in BOOLEAN
      /\ ~broken' => /\ ~broken /\ At(t, "returned") /\ loops[t].result # "error"
                     /\ job'.cancel = job.cancel /\ job'.status \in {job.status, loops[t].result}
  <2>1. CASE AllowFails(t)
    <3>1. "running" \in Execution!Status
      BY DEF Execution!Status
    <3> QED
      BY <2>1, <3>1, IsMarked DEF AllowFails, LoopInv
  <2>2. CASE ResponderReturns(t)
    <3>1. CASE loops[t].result = "error"
      <4>1. "failed" \in LoopResults /\ job' = Marked("failed") /\ broken'
        BY <2>2, <3>1 DEF ResponderReturns, LoopResults
      <4>2. broken' \in BOOLEAN
        BY <2>2 DEF ResponderReturns, LoopInv, LoopTyped
      <4> QED
        BY <4>1, <4>2, ResultMarked DEF LoopInv
    <3>2. CASE loops[t].result # "error"
      <4>1. job' = Marked(loops[t].result) /\ broken' = broken /\ broken \in BOOLEAN
        BY <2>2, <3>2 DEF ResponderReturns, LoopInv, LoopTyped
      <4> QED
        BY <1>5, <2>2, <3>2, <4>1, ResultMarked DEF ResponderReturns, LoopInv
    <3> QED
      BY <3>1, <3>2
  <2> QED
    BY <2>1, <2>2
<1>7. LoopTyped'
  BY <1>2, <1>4, <1>6 DEF LoopInv, LoopTyped
<1>8. CASE doubled
  BY <1>2, <1>7, <1>8 DEF LoopInv
<1>9. CASE ~doubled
  <2>1. Ending'
    <3> SUFFICES ASSUME Still'
                 PROVE (/\ ~job.cancel /\ interrupter.at = "rest"
                        /\ GoesOn \/ \E status \in {"completed", "failed"} : HasEnded(status))'
      BY DEF Ending
    <3>1. ~broken' /\ Still
      BY <1>2, <1>6 DEF Still
    <3>2. /\ ~job.cancel /\ interrupter.at = "rest"
          /\ GoesOn \/ \E status \in {"completed", "failed"} : HasEnded(status)
      BY <1>9, <3>1 DEF LoopInv, Ending
    <3>3. \A u \in Threads : (At(u, "returned")' => At(u, "returned") /\ loops'[u] = loops[u])
                             /\ (~Busy(u) => ~Busy(u)')
      BY <1>3 DEF Moved, At, Busy
    <3>4. CASE GoesOn
      <4>1. job'.status \in {"running", "waiting"}
        BY <1>1, <1>6, <3>1, <3>4 DEF GoesOn
      <4>2. \A u \in Threads : At(u, "returned")' => loops'[u].result \in {"waiting", "error"}
        BY <3>3, <3>4 DEF GoesOn
      <4>3. GoesOn'
        BY <1>2, <3>4, <4>1, <4>2 DEF GoesOn
      <4> QED
        BY <1>2, <1>6, <3>1, <3>2, <4>3
    <3>5. CASE \E status \in {"completed", "failed"} : HasEnded(status)
      <4>1. PICK status \in {"completed", "failed"} : HasEnded(status)
        BY <3>5
      <4>2. job'.status \in {"running", "waiting", status}
        BY <1>1, <1>6, <3>1, <4>1 DEF HasEnded
      <4>3. \A u \in Threads : ~Busy(u)' /\ (At(u, "returned")' => loops'[u].result \in {"waiting", status})
        BY <3>3, <4>1 DEF HasEnded
      <4>4. HasEnded(status)'
        BY <1>2, <4>1, <4>2, <4>3 DEF HasEnded
      <4> QED
        BY <1>2, <1>6, <3>1, <3>2, <4>4
    <3> QED
      BY <3>2, <3>4, <3>5
  <2> QED
    BY <1>1, <1>2, <1>3, <1>7, <1>9, <2>1, GoesToRest
<1> QED
  BY <1>8, <1>9

LEMMA LoadsRequestKeeps ==
  ASSUME LoopInv, NEW t \in Responders, NEW allow \in BOOLEAN, LoadsRequest(t, allow)
  PROVE  LoopInv'
<1> DEFINE stop == IF allow THEN "allow" ELSE "deny"
<1>1. t \in Threads /\ At(t, "rest") /\ disk.request # NoRequest
  BY DEF Threads, LoadsRequest
<1>2. UNCHANGED <<disk, runStatus, job, talk, screen, terminals, ran, interrupter, late, interrupts, restarts,
                  tokens, broken>>
  BY DEF LoadsRequest, world
<1>3. stop \in {"allow", "deny"}
  OBVIOUS
<1>4. loops' = [loops EXCEPT ![t].at = stop,
                            ![t].copy = [disk EXCEPT !.request = NoRequest],
                            ![t].index = disk.request.index,
                            ![t].carry.step = disk.request.step]
  BY DEF LoadsRequest
<1> HIDE DEF stop
<1>5. /\ Moved(t) /\ ThreadTyped(loops'[t])
      /\ loops'[t].at = stop /\ loops'[t].index = disk.request.index
      /\ loops'[t].carry.step = disk.request.step
      /\ loops'[t].copy.request = NoRequest /\ loops'[t].copy.resume = disk.resume
  BY <1>1, <1>3, <1>4, IsLoaded DEF LoopInv
<1>6. LoopTyped'
  <2>1. DOMAIN loops' = Threads /\ \A u \in Threads : ThreadTyped(loops'[u])
    BY <1>1, <1>5, ThreadsTyped DEF LoopInv
  <2>2. doubled' \in BOOLEAN
    BY DEF LoadsRequest, LoopInv, LoopTyped
  <2> QED
    BY <1>2, <2>1, <2>2 DEF LoopInv, LoopTyped
<1>7. CASE doubled'
  BY <1>6, <1>7 DEF LoopInv
<1>8. CASE ~doubled'
  <2>1. ~doubled /\ \A u \in Responders : u # t => At(u, "rest")
    BY <1>8 DEF LoadsRequest
  <2>2. ~Occupied("worker")
    BY <1>1, <2>1 DEF LoopInv, OneAtWork
  <2>3. \A u \in Threads : u # t => /\ ~Occupied(u) /\ ~Occupied(u)' /\ ~Answering(u)' /\ ~Answering(u) /\ ~At(u, "given")'
                                    /\ loops'[u] = loops[u]
    <3> TAKE u \in Threads
    <3> HAVE u # t
    <3>1. loops'[u] = loops[u]
      BY <1>5 DEF Moved
    <3>2. ~Occupied(u)
      BY <2>1, <2>2 DEF Threads, Occupied, At
    <3> QED
      BY <3>1, <3>2 DEF Occupied, Busy, At, Answering
  <2>4. Call(t)' = CallOf(disk.request) /\ Answering(t)' /\ ~Answering(t) /\ At(t, stop)'
    BY <1>1, <1>3, <1>5 DEF Call, CallOf, Answering, At, Step
  <2>5. Open' \subseteq Open
    <3>1. Call(t)' \in Noted(disk.request)
      BY <1>1, <2>4 DEF Noted
    <3>2. \A u \in Threads : Answering(u)' => u = t
      BY <2>3
    <3> QED
      BY <1>2, <3>1, <3>2 DEF Open
  <2>6. /\ disk'.request \in {disk.request, interrupter.copy.request}
        /\ interrupter'.copy.request \in {disk.request, interrupter.copy.request}
        /\ disk'.resume \in {disk.resume, NoResume}
    BY <1>2
  <2>7. \A u \in Threads : u # t => LoopSound(u)' /\ GivenSound(u)' /\ AnswerSound(u)' /\ CopySound(u)'
    BY <1>2, <2>1, <2>3, <2>5, <2>6, Untouched
  <2>8. LoopSound(t)' /\ GivenSound(t)' /\ CopySound(t)'
    BY <1>3, <1>5 DEF LoopSound, GivenSound, CopySound, InLoop, At, Copy
  <2>9. SavedSound'
    BY <1>2, <2>1, <2>5, <2>6, SavedStays
  <2>10. AnswerSound(t)'
    <3>1. Promises(disk.resume, CallOf(disk.request))'
      BY <2>9 DEF SavedSound
    <3>2. Copy(t)'.resume = disk'.resume /\ Call(t)' = CallOf(disk.request)'
      BY <1>2, <1>5, <2>4 DEF Copy, CallOf
    <3> QED
      BY <3>1, <3>2 DEF AnswerSound, Promises, Before, Unshown
  <2>11. OneAtWork'
    <3>1. \A u, v \in Threads : Occupied(u)' /\ Occupied(v)' => u = v
      BY <2>3
    <3>2. t # "worker" /\ "worker" \in Threads
      BY LoopAssumption DEF Threads
    <3>3. ~At(t, "given")'
      BY <1>3, <1>5 DEF At
    <3>4. \A r \in Responders : ~At(r, "given")'
      BY <2>3, <3>3 DEF Threads
    <3> QED
      BY <2>3, <3>1, <3>2, <3>4 DEF OneAtWork
  <2>12. Tallied'
    <3>1. tokens' <= MaxTokens + 1
      BY <1>2, <2>1 DEF LoopInv, Tallied
    <3> QED
      BY <1>2, <2>1, <2>5, <3>1, TallyStays
  <2>13. Ending'
    <3> SUFFICES ASSUME Still'
                 PROVE (~job.cancel /\ interrupter.at = "rest" /\ GoesOn)'
      BY DEF Ending
    <3>1. Still /\ ~job.cancel /\ interrupter.at = "rest"
      BY <1>2, <2>1 DEF LoopInv, Ending, Still
    <3>2. GoesOn
      <4>1. \A status : Session(NoRequest, NoResume, status).request = NoRequest
        BY DEF Session
      <4> QED
        BY <1>1, <2>1, <3>1, <4>1 DEF LoopInv, Ending, HasEnded
    <3>3. \A u \in Threads : At(u, "returned")' => loops'[u].result \in {"waiting", "error"}
      BY <1>3, <1>5, <2>3, <3>2 DEF GoesOn, At
    <3> QED
      BY <1>2, <3>1, <3>2, <3>3 DEF GoesOn
  <2>14. \A u \in Threads : LoopSound(u)' /\ GivenSound(u)' /\ AnswerSound(u)' /\ CopySound(u)'
    BY <2>7, <2>8, <2>10
  <2> QED
    BY <1>6, <2>9, <2>11, <2>12, <2>13, <2>14 DEF LoopInv
<1> QED
  BY <1>7, <1>8

LEMMA AllowsKeeps ==
  ASSUME LoopInv, NEW t \in Responders, Allows(t)
  PROVE  LoopInv'
<1> DEFINE rest == Copy(t).resume
           copy == Session(NoRequest, NoResume, "running")
           done == Session(NoRequest, NoResume, "idle")
<1>1. t \in Threads /\ t # "worker" /\ At(t, "allow") /\ Busy(t) /\ Occupied(t) /\ Answering(t) /\ ~InLoop(t)
  BY LoopAssumption DEF Threads, Allows, At, Busy, Occupied, Answering, InLoop
<1>2. /\ ran' = ran \cup {Call(t)} /\ talk' = Resulted(Call(t)) /\ job' = Marked("running")
      /\ UNCHANGED <<screen, interrupter, late, interrupts, restarts, tokens, doubled, broken>>
  BY DEF Allows, world
<1>3. Call(t) \in Nat \X Nat /\ rest \in Carries
  BY <1>1 DEF Call, LoopInv, LoopTyped, ThreadTyped, Carries, Step, Sessions, Copy
<1>4. /\ talk' \in Seq(Messages) /\ Len(talk') = Len(talk) /\ Len(talk) \in Nat
      /\ \A i \in 1..Len(talk) :
              /\ talk'[i].step = talk[i].step /\ talk'[i].text = talk[i].text
              /\ talk'[i].calls = talk[i].calls
              /\ talk'[i].results =
                   IF talk[i].step = Call(t)[1] THEN talk[i].results \cup {Call(t)[2]} ELSE talk[i].results
  BY <1>2, <1>3, Resulting DEF LoopInv
<1>5. IsFiniteSet(ran')
  BY <1>2, OneMore DEF LoopInv, LoopTyped
<1>6. /\ job' \in [status : Execution!Status, cancel : BOOLEAN]
      /\ job'.cancel = job.cancel /\ job'.status \in {job.status, "running"}
  BY <1>2, IsMarked DEF LoopInv, Execution!Status
<1>7. copy \in Sessions /\ done \in Sessions /\ copy.request = NoRequest /\ copy.resume = NoResume
      /\ done.request = NoRequest
  BY Constants, SessionHas
\* What the run of the call leaves of the turn.
<1>8. ASSUME ~doubled, Moved(t), ~Answering(t)', disk'.request \in {disk.request, NoRequest}
      PROVE  /\ Tallied' /\ Open' \subseteq Open
             /\ \A u \in Threads : u # t =>
                  /\ ~Occupied(u) /\ ~Occupied(u)' /\ ~Busy(u) /\ ~Busy(u)' /\ ~Answering(u)'
                  /\ ~At(u, "given")'
                  /\ LoopSound(u)' /\ GivenSound(u)' /\ AnswerSound(u)' /\ CopySound(u)'
                  /\ At(u, "returned")' => loops'[u].result = "waiting"
  <2>1. \A u \in Threads : u # t =>
          /\ ~Occupied(u) /\ ~Occupied(u)' /\ ~Busy(u) /\ ~Busy(u)' /\ ~Answering(u)'
          /\ ~At(u, "given")'
          /\ LoopSound(u)' /\ GivenSound(u)' /\ AnswerSound(u)' /\ CopySound(u)'
          /\ At(u, "returned")' => loops'[u].result = "waiting"
    BY <1>1, <1>8, OthersRest
  <2>2. Open' \subseteq Open
    <3>1. \A u \in Threads : ~Answering(u)'
      BY <1>8, <2>1
    <3>2. Open' = Noted(disk'.request) \cup Noted(interrupter'.copy.request)
      BY <3>1 DEF Open
    <3> QED
      BY <1>2, <1>8, <3>2 DEF Open, Noted
  <2>3. Call(t) \in Open
    BY <1>1 DEF Open
  <2>4. Fitting(Call(t))
    BY <1>8, <2>3 DEF LoopInv, Tallied
  <2>5. Cardinality(ran' \cup Open') <= MaxToolCalls
    <3>1. IsFiniteSet(ran \cup Open) /\ ran' \cup Open' \subseteq ran \cup Open
      BY <1>2, <1>8, <2>2, <2>3, OpenFinite, FS_Union DEF LoopInv, LoopTyped
    <3>2. /\ Cardinality(ran' \cup Open') <= Cardinality(ran \cup Open)
          /\ Cardinality(ran' \cup Open') \in Nat /\ Cardinality(ran \cup Open) \in Nat
      BY <3>1, FS_Subset, FS_CardinalityType
    <3> QED
      BY <1>8, <3>2, LoopAssumption DEF LoopInv, Tallied
  <2>6. Tallied'
    BY <1>2, <1>3, <1>4, <1>8, <2>2, <2>4, <2>5, TallyRuns
  <2> QED
    BY <2>1, <2>2, <2>6
<1>9. CASE rest # NoResume
  <2>1. /\ loops' = [loops EXCEPT ![t].at = "check", ![t].carry = rest, ![t].copy = copy]
        /\ UNCHANGED <<disk, runStatus, terminals>>
    BY <1>9 DEF Allows
  <2>2. /\ Moved(t) /\ ThreadTyped(loops'[t])
        /\ loops'[t].at = "check" /\ loops'[t].carry = rest /\ loops'[t].copy = copy
    BY <1>1, <1>3, <1>7, <2>1, IsResumed DEF LoopInv
  <2> HIDE DEF copy, done, rest
  <2>3. LoopTyped'
    <3>1. DOMAIN loops' = Threads /\ \A u \in Threads : ThreadTyped(loops'[u])
      BY <1>1, <2>2, ThreadsTyped DEF LoopInv
    <3> QED
      BY <1>2, <1>4, <1>5, <1>6, <2>1, <3>1 DEF LoopInv, LoopTyped
  <2>4. CASE doubled
    BY <1>2, <2>3, <2>4 DEF LoopInv
  <2>5. CASE ~doubled
    <3>1. ~Answering(t)' /\ At(t, "check")' /\ ~At(t, "given")' /\ ~At(t, "returned")' /\ Busy(t)' /\ Step(t)' = rest.step
      BY <2>2 DEF Answering, At, Busy, Step
    <3>2. /\ Tallied' /\ Open' \subseteq Open
          /\ \A u \in Threads : u # t =>
               /\ ~Occupied(u) /\ ~Occupied(u)' /\ ~Busy(u) /\ ~Busy(u)' /\ ~Answering(u)'
               /\ ~At(u, "given")'
               /\ LoopSound(u)' /\ GivenSound(u)' /\ AnswerSound(u)' /\ CopySound(u)'
               /\ At(u, "returned")' => loops'[u].result = "waiting"
      BY <1>8, <2>1, <2>2, <2>5, <3>1
    <3>3. Promises(rest, Call(t)) /\ Call(t) \in Open
      BY <1>1, <2>5 DEF LoopInv, AnswerSound, Open, rest
    <3>4. /\ \A i \in 1..Len(talk) : talk[i].step < rest.step
          /\ disk.request.step < rest.step /\ interrupter.copy.request.step < rest.step
          /\ screen.step < rest.step /\ Open \subseteq ran \cup {Call(t)}
          /\ Cardinality(ran \cup {Call(t)}) <= rest.calls /\ rest.calls <= MaxToolCalls
          /\ tokens <= rest.tokens /\ rest.tokens <= MaxTokens
      BY <1>9, <3>3 DEF Promises, Before, Unshown
    <3>5. LoopSound(t)'
      <4>1. Before(Step(t))' /\ Unshown(Step(t))'
        <5>1. \A i \in 1..Len(talk') : talk'[i].step < rest.step
          BY <1>4, <3>4
        <5> QED
          BY <1>2, <2>1, <3>1, <3>4, <5>1 DEF Before, Unshown
      <4>2. Copy(t)'.resume = NoResume
        BY <1>7, <2>2 DEF Copy
      <4> QED
        BY <1>2, <2>2, <3>1, <3>2, <3>4, <4>1, <4>2 DEF LoopSound, At
    <3>6. GivenSound(t)' /\ AnswerSound(t)' /\ CopySound(t)'
      BY <1>7, <2>2, <3>1 DEF GivenSound, AnswerSound, CopySound, Copy
    <3>7. OneAtWork'
      <4>1. \A u, v \in Threads : Occupied(u)' /\ Occupied(v)' => u = v
        BY <3>2
      <4>2. "worker" \in Threads /\ \A r \in Responders : ~At(r, "given")'
        BY <3>1, <3>2 DEF Threads
      <4> QED
        BY <1>1, <3>2, <4>1, <4>2 DEF OneAtWork
    <3>8. SavedSound'
      <4>1. SavedSound
        BY <2>5 DEF LoopInv
      <4>2. CASE disk.resume = NoResume
        BY <2>1, <4>2 DEF SavedSound, Promises
      <4>3. CASE disk.resume # NoResume
        <5>1. disk.request # NoRequest /\ Promises(disk.resume, CallOf(disk.request))
          BY <4>1, <4>3 DEF SavedSound
        <5>2. /\ \A i \in 1..Len(talk) : talk[i].step < disk.resume.step
              /\ disk.request.step < disk.resume.step /\ interrupter.copy.request.step < disk.resume.step
              /\ screen.step < disk.resume.step /\ Open \subseteq ran \cup {CallOf(disk.request)}
              /\ Cardinality(ran \cup {CallOf(disk.request)}) <= disk.resume.calls
              /\ disk.resume.calls <= MaxToolCalls
              /\ tokens <= disk.resume.tokens /\ disk.resume.tokens <= MaxTokens
          BY <4>3, <5>1 DEF Promises, Before, Unshown
        <5>3. ran' \cup {CallOf(disk.request)} = ran \cup {CallOf(disk.request)}
          BY <1>2, <3>3, <5>2
        <5>4. \A i \in 1..Len(talk') : talk'[i].step < disk.resume.step
          BY <1>4, <5>2
        <5>5. CallOf(disk.request)' = CallOf(disk.request)
          BY <2>1 DEF CallOf
        <5>6. Open' \subseteq ran' \cup {CallOf(disk.request)}
          BY <3>2, <5>2, <5>3
        <5>7. Before(disk.resume.step)' /\ Unshown(disk.resume.step)'
          BY <1>2, <2>1, <5>2, <5>4 DEF Before, Unshown
        <5>8. Promises(disk.resume, CallOf(disk.request))'
          BY <1>2, <2>1, <5>2, <5>3, <5>5, <5>6, <5>7 DEF Promises
        <5> QED
          BY <2>1, <5>1, <5>8 DEF SavedSound
      <4> QED
        BY <4>2, <4>3
    <3>9. Ending'
      <4> SUFFICES ASSUME Still'
                   PROVE (~job.cancel /\ interrupter.at = "rest" /\ GoesOn)'
        BY DEF Ending
      <4>1. Still /\ ~job.cancel /\ interrupter.at = "rest" /\ GoesOn
        BY <1>1, <1>2, <2>5 DEF LoopInv, Ending, Still, HasEnded
      <4>2. \A u \in Threads : At(u, "returned")' => loops'[u].result \in {"waiting", "error"}
        BY <3>1, <3>2
      <4> QED
        BY <1>2, <1>6, <2>1, <4>1, <4>2 DEF GoesOn
    <3>10. \A u \in Threads : LoopSound(u)' /\ GivenSound(u)' /\ AnswerSound(u)' /\ CopySound(u)'
      BY <3>2, <3>5, <3>6
    <3> QED
      BY <2>3, <3>2, <3>7, <3>8, <3>9, <3>10 DEF LoopInv
  <2> QED
    BY <2>4, <2>5
<1>10. CASE rest = NoResume
  <2>1. PICK status \in {"completed", "failed"} : Ends(done, status, status) /\ Returns(t, done, status)
    BY <1>10 DEF Allows
  <2>2. LoopTyped' /\ disk'.request = NoRequest /\ disk'.resume = NoResume
    BY <1>1, <1>2, <1>4, <1>5, <1>6, <2>1, EndTyped
  <2>3. CASE doubled
    BY <1>2, <2>2, <2>3 DEF LoopInv
  <2>4. CASE ~doubled
    <3>1. status \in LoopResults \ {"waiting"}
      BY DEF LoopResults
    <3>2. Moved(t) /\ ~Answering(t)'
      BY <1>1, <1>7, <2>1, <3>1, IsReturned DEF LoopInv, Answering
    <3>3. Tallied'
      BY <1>8, <2>2, <2>4, <3>2
    <3> QED
      BY <1>1, <1>2, <1>6, <1>7, <2>1, <2>2, <2>4, <3>1, <3>3, LeavingWith
  <2> QED
    BY <2>3, <2>4
<1> QED
  BY <1>9, <1>10

LEMMA RequestsInterruptKeeps == ASSUME LoopInv, RequestsInterrupt PROVE LoopInv'
<1>1. /\ job' = [status |-> "waiting", cancel |-> TRUE] /\ interrupts' = interrupts + 1
      /\ interrupter' = [at |-> "record", copy |-> disk]
      /\ UNCHANGED <<disk, runStatus, talk, screen, terminals, loops, late, restarts, ran, asked, tokens,
                     doubled, broken>>
  BY DEF RequestsInterrupt, ghosts
<1>2. LoopTyped'
  <2>1. interrupter' \in [at : {"rest", "record"}, copy : Sessions] /\ interrupts' \in Nat
    BY <1>1 DEF LoopInv, LoopTyped
  <2>2. job' \in [status : Execution!Status, cancel : BOOLEAN]
    BY <1>1 DEF Execution!Status
  <2> QED
    BY <1>1, <2>1, <2>2 DEF LoopInv, LoopTyped
<1>3. CASE doubled
  BY <1>1, <1>2, <1>3 DEF LoopInv
<1>4. CASE ~doubled
  <2>1. interrupter'.copy.request = disk.request /\ interrupts' # 0
    BY <1>1 DEF LoopInv, LoopTyped
  <2>2. /\ disk'.request \in {disk.request, interrupter.copy.request}
        /\ interrupter'.copy.request \in {disk.request, interrupter.copy.request}
        /\ disk'.resume \in {disk.resume, NoResume}
    BY <1>1, <2>1
  <2>3. Open' \subseteq Open
    BY <1>1, <2>1 DEF Open, Noted, Answering, Call, Step
  <2>4. \A u \in Threads : LoopSound(u)' /\ GivenSound(u)' /\ AnswerSound(u)' /\ CopySound(u)'
    BY <1>1, <1>4, <2>2, <2>3, Untouched
  <2>5. OneAtWork'
    BY <1>1, <1>4, <2>1 DEF LoopInv, OneAtWork, Occupied, Busy, At, Answering
  <2>6. SavedSound'
    BY <1>1, <1>4, <2>2, <2>3, SavedStays
  <2>7. Tallied'
    <3>1. tokens' <= MaxTokens + 1
      BY <1>1, <1>4 DEF LoopInv, Tallied
    <3> QED
      BY <1>1, <1>4, <2>3, <3>1, TallyStays
  <2>8. Ending'
    BY <2>1 DEF Ending, Still
  <2> QED
    BY <1>2, <2>4, <2>5, <2>6, <2>7, <2>8 DEF LoopInv
<1> QED
  BY <1>3, <1>4

LEMMA RecordsInterruptKeeps == ASSUME LoopInv, RecordsInterrupt PROVE LoopInv'
<1>1. /\ interrupter.at = "record" /\ Interrupted(interrupter.copy)
      /\ interrupter' = [interrupter EXCEPT !.at = "rest"]
      /\ UNCHANGED <<talk, screen, loops, late, interrupts, restarts, ran, asked, tokens, doubled, broken>>
  BY DEF RecordsInterrupt, ghosts
<1>2. interrupter.copy \in Sessions
  BY DEF LoopInv, LoopTyped
<1>3. /\ disk' \in Sessions /\ disk'.request = interrupter.copy.request /\ disk'.resume = NoResume
      /\ runStatus' \in Execution!Terminal
      /\ job' \in [status : Execution!Status, cancel : BOOLEAN]
      /\ terminals' \in Seq(Execution!Terminal)
  BY <1>1, <1>2, IsInterrupted DEF LoopInv
<1>4. interrupter' \in [at : {"rest", "record"}, copy : Sessions] /\ interrupter'.copy = interrupter.copy
  BY <1>1 DEF LoopInv, LoopTyped
<1>5. LoopTyped'
  BY <1>1, <1>3, <1>4 DEF LoopInv, LoopTyped
<1>6. CASE doubled
  BY <1>1, <1>5, <1>6 DEF LoopInv
<1>7. CASE ~doubled
  <2>1. /\ disk'.request \in {disk.request, interrupter.copy.request}
        /\ interrupter'.copy.request \in {disk.request, interrupter.copy.request}
        /\ disk'.resume \in {disk.resume, NoResume}
    BY <1>3, <1>4
  <2>2. Open' \subseteq Open
    BY <1>1, <1>3, <1>4 DEF Open, Noted, Answering, Call, Step
  <2>3. \A u \in Threads : LoopSound(u)' /\ GivenSound(u)' /\ AnswerSound(u)' /\ CopySound(u)'
    BY <1>1, <1>7, <2>1, <2>2, Untouched
  <2>4. OneAtWork'
    BY <1>1, <1>3, <1>4, <1>7 DEF LoopInv, OneAtWork, Occupied, Busy, At, Answering
  <2>5. SavedSound'
    BY <1>1, <1>3, <1>7, <2>1, <2>2, SavedStays
  <2>6. Tallied'
    <3>1. tokens' <= MaxTokens + 1
      BY <1>1, <1>7 DEF LoopInv, Tallied
    <3> QED
      BY <1>1, <1>7, <2>2, <3>1, TallyStays
  <2>7. Ending'
    BY <1>1, <1>7 DEF LoopInv, Ending, Still
  <2> QED
    BY <1>5, <2>3, <2>4, <2>5, <2>6, <2>7 DEF LoopInv
<1> QED
  BY <1>6, <1>7

LEMMA DeadlinePassesKeeps == ASSUME LoopInv, DeadlinePasses \/ UNCHANGED loopVars PROVE LoopInv'
<1>1. UNCHANGED <<disk, runStatus, job, talk, screen, terminals, loops, interrupter, interrupts, restarts,
                  ran, tokens, doubled, broken>>
  BY DEF DeadlinePasses, loopVars, ghosts
<1>2. late' \in BOOLEAN
  BY DEF DeadlinePasses, loopVars, LoopInv, LoopTyped
<1>3. LoopTyped'
  BY <1>1, <1>2 DEF LoopInv, LoopTyped
<1>4. CASE doubled
  BY <1>1, <1>3, <1>4 DEF LoopInv
<1>5. CASE ~doubled
  <2>1. /\ disk'.request \in {disk.request, interrupter.copy.request}
        /\ interrupter'.copy.request \in {disk.request, interrupter.copy.request}
        /\ disk'.resume \in {disk.resume, NoResume}
    BY <1>1
  <2>2. Open' \subseteq Open
    BY <1>1 DEF Open, Noted, Answering, Call, Step
  <2>3. \A u \in Threads : LoopSound(u)' /\ GivenSound(u)' /\ AnswerSound(u)' /\ CopySound(u)'
    BY <1>1, <1>5, <2>1, <2>2, Untouched
  <2>4. OneAtWork'
    BY <1>1, <1>5 DEF LoopInv, OneAtWork, Occupied, Busy, At, Answering
  <2>5. SavedSound'
    BY <1>1, <1>5, <2>1, <2>2, SavedStays
  <2>6. Tallied'
    <3>1. tokens' <= MaxTokens + 1
      BY <1>1, <1>5 DEF LoopInv, Tallied
    <3> QED
      BY <1>1, <1>5, <2>2, <3>1, TallyStays
  <2>7. Ending'
    BY <1>1, <1>5 DEF LoopInv, Ending, Still, GoesOn, HasEnded, Busy, At
  <2> QED
    BY <1>3, <2>3, <2>4, <2>5, <2>6, <2>7 DEF LoopInv
<1> QED
  BY <1>4, <1>5

LEMMA RestartsKeeps == ASSUME LoopInv, Restarts PROVE LoopInv'
<1>1. /\ restarts' = restarts + 1 /\ loops' = [t \in Threads |-> Resting]
      /\ interrupter' = [interrupter EXCEPT !.at = "rest"]
      /\ job' = [status |-> IF job.status = "running" THEN "interrupted" ELSE job.status,
                 cancel |-> FALSE]
      /\ UNCHANGED <<disk, runStatus, talk, screen, terminals, late, interrupts, ran, asked, tokens, doubled,
                     broken>>
  BY DEF Restarts, ghosts
<1>2. interrupter' \in [at : {"rest", "record"}, copy : Sessions] /\ interrupter'.copy = interrupter.copy
  BY <1>1 DEF LoopInv, LoopTyped
<1>3. job' \in [status : Execution!Status, cancel : BOOLEAN]
  BY <1>1 DEF LoopInv, LoopTyped, Execution!Status, Execution!Terminal
<1>4. restarts' \in Nat /\ restarts' # 0
  BY <1>1 DEF LoopInv, LoopTyped
<1>5. /\ DOMAIN loops' = Threads
      /\ \A u \in Threads : /\ ThreadTyped(loops'[u]) /\ loops'[u].at = "rest"
                            /\ loops'[u].copy.request = NoRequest
  BY <1>1, RestingTyped
<1>6. LoopTyped'
  BY <1>1, <1>2, <1>3, <1>4, <1>5 DEF LoopInv, LoopTyped
<1>7. CASE doubled
  BY <1>1, <1>6, <1>7 DEF LoopInv
<1>8. CASE ~doubled
  <2>1. \A u \in Threads : /\ LoopSound(u)' /\ GivenSound(u)' /\ AnswerSound(u)' /\ CopySound(u)'
                           /\ ~Occupied(u)' /\ ~Answering(u)' /\ ~At(u, "given")'
    BY <1>5, AtRest
  <2>2. Open' \subseteq Open
    <3>1. Open' = Noted(disk'.request) \cup Noted(interrupter'.copy.request)
      BY <2>1 DEF Open
    <3> QED
      BY <1>1, <1>2, <3>1 DEF Open, Noted
  <2>3. OneAtWork'
    BY <2>1 DEF OneAtWork, Threads
  <2>4. SavedSound'
    BY <1>1, <1>2, <1>8, <2>2, SavedStays
  <2>5. Tallied'
    <3>1. tokens' <= MaxTokens + 1
      BY <1>1, <1>8 DEF LoopInv, Tallied
    <3> QED
      BY <1>1, <1>8, <2>2, <3>1, TallyStays
  <2>6. Ending'
    BY <1>4 DEF Ending, Still
  <2> QED
    BY <1>6, <2>1, <2>3, <2>4, <2>5, <2>6 DEF LoopInv
<1> QED
  BY <1>7, <1>8

-----------------------------------------------------------------------------
LEMMA LoopInitInv == ASSUME LoopInit PROVE LoopInv
<1> DEFINE first == IF talk = <<>> THEN "check" ELSE "given"
           clear == Session(NoRequest, NoResume, "running")
<1>1. /\ disk = clear /\ interrupter = [at |-> "rest", copy |-> disk]
      /\ runStatus = "running" /\ job = [status |-> "running", cancel |-> FALSE]
      /\ screen = [step |-> 0, text |-> <<>>] /\ terminals = <<>>
      /\ late = FALSE /\ interrupts = 0 /\ restarts = 0
      /\ ran = {} /\ tokens = 0 /\ doubled = FALSE /\ broken = FALSE
  BY DEF LoopInit
<1>2. clear \in Sessions /\ clear.request = NoRequest /\ clear.resume = NoResume
  BY Constants, SessionHas
<1>3. /\ talk \in Seq(Messages)
      /\ talk = <<>> \/ (/\ Len(talk) = 1 /\ talk[1].step = 1 /\ talk[1].text = <<>>
                         /\ talk[1].results = {})
  <2>1. CASE talk = <<>>
    BY <2>1, EmptySeq
  <2>2. CASE talk # <<>>
    <3>1. PICK calls \in Given : talk = <<[step |-> 1, text |-> <<>>, calls |-> calls, results |-> {}]>>
      BY <2>2 DEF LoopInit
    <3>2. calls \in Seq(CallKinds)
      BY LoopAssumption
    <3> DEFINE m == [step |-> 1, text |-> <<>>, calls |-> calls, results |-> {}]
    <3>3. m \in Messages
      BY <3>2 DEF Messages
    <3>4. m.step = 1 /\ m.text = <<>> /\ m.results = {}
      OBVIOUS
    <3> HIDE DEF m
    <3>5. talk = <<m>>
      BY <3>1 DEF m
    <3>6. talk \in Seq(Messages) /\ Len(talk) = 1 /\ talk[1] = m
      BY <3>3, <3>5
    <3> QED
      BY <3>4, <3>6
  <2> QED
    BY <2>1, <2>2
<1>4. /\ DOMAIN loops = Threads
      /\ \A u \in Threads \ {"worker"} : loops[u] = Resting
      /\ "worker" \in Threads
      /\ loops["worker"] = [Resting EXCEPT !.at = first, !.index = Len(talk), !.carry = FirstCarry, !.copy = disk]
  BY DEF LoopInit, Threads
<1> HIDE DEF first, clear
<1>5. first \in {"check", "given"} /\ (first = "check" => talk = <<>>) /\ (first = "given" => talk # <<>>)
  BY DEF first
<1>6. Len(talk) \in Nat
  BY <1>3, LenProperties
<1>7. /\ DOMAIN loops["worker"] = LoopKeys /\ loops["worker"].at = first /\ loops["worker"].index = Len(talk)
      /\ loops["worker"].carry = FirstCarry /\ loops["worker"].copy = clear
      /\ loops["worker"].text = <<>> /\ loops["worker"].model = 1 /\ loops["worker"].result = "none"
      /\ loops["worker"].streamed = FALSE
  BY <1>1, <1>4 DEF Resting, LoopKeys
<1>8. \A u \in Threads : ThreadTyped(loops[u])
  <2>1. ThreadTyped(loops["worker"])
    <3>1. <<>> \in Seq(Nat)
      BY EmptySeq
    <3> QED
      BY <1>2, <1>5, <1>6, <1>7, <3>1, Constants DEF ThreadTyped, Stops, LoopResults
  <2> QED
    BY <1>4, <2>1, RestingTyped
<1>9. LoopTyped
  <2>1. screen \in [step : Nat, text : Seq(Nat)] /\ terminals \in Seq(Execution!Terminal)
    BY <1>1, EmptySeq
  <2>2. interrupter \in [at : {"rest", "record"}, copy : Sessions] /\ disk \in Sessions
    BY <1>1, <1>2
  <2>3. job \in [status : Execution!Status, cancel : BOOLEAN]
    BY <1>1 DEF Execution!Status
  <2>4. IsFiniteSet(ran)
    BY <1>1, FS_EmptySet
  <2> QED
    BY <1>1, <1>3, <1>4, <1>8, <2>1, <2>2, <2>3, <2>4 DEF LoopTyped
<1>10. \A u \in Threads \ {"worker"} :
         /\ LoopSound(u) /\ GivenSound(u) /\ AnswerSound(u) /\ CopySound(u)
         /\ ~Occupied(u) /\ ~Answering(u) /\ ~At(u, "given") /\ ~At(u, "returned")
  <2> TAKE u \in Threads \ {"worker"}
  <2>1. loops[u].at = "rest" /\ loops[u].copy.request = NoRequest
    BY <1>4, RestingTyped
  <2>2. ~InLoop(u) /\ ~Answering(u) /\ ~At(u, "given") /\ ~At(u, "returned") /\ At(u, "rest") /\ ~Busy(u)
    BY <2>1 DEF InLoop, Answering, At, Busy
  <2> QED
    BY <2>1, <2>2 DEF LoopSound, GivenSound, AnswerSound, CopySound, Occupied, Copy
<1>11. ~Answering("worker") /\ ~At("worker", "returned") /\ Step("worker") = 1
  BY <1>5, <1>7 DEF Answering, At, Step, FirstCarry
<1>12. Open = {}
  <2>1. \A u \in Threads : ~Answering(u)
    BY <1>10, <1>11
  <2> QED
    BY <1>1, <1>2, <2>1, OnlyAsked DEF Noted
<1>13. OneAtWork
  <2>1. \A u, v \in Threads : Occupied(u) /\ Occupied(v) => u = v
    BY <1>10
  <2>2. \A r \in Responders : ~At(r, "given")
    BY <1>10, LoopAssumption DEF Threads
  <2> QED
    BY <1>1, <1>2, <1>11, <2>1, <2>2 DEF OneAtWork
<1>14. SavedSound
  BY <1>1, <1>2 DEF SavedSound, Promises
<1>15. Tallied
  <2>1. Cardinality(ran \cup Open) = 0
    BY <1>1, <1>12, FS_EmptySet
  <2>2. \A i \in 1..Len(talk) : /\ talk[i].results \subseteq 1..Len(talk[i].calls)
                                /\ screen.step = talk[i].step => screen.text = talk[i].text
    BY <1>1, <1>3, EmptySeq
  <2>3. Cardinality(ran \cup Open) <= MaxToolCalls /\ tokens <= MaxTokens + 1
    BY <1>1, <2>1, LoopAssumption
  <2>4. \A call \in Open : Fitting(call)
    BY <1>12
  <2> QED
    BY <2>2, <2>3, <2>4 DEF Tallied
<1>16. Ending
  <2>1. \A u \in Threads : ~At(u, "returned")
    BY <1>10, <1>11
  <2> QED
    BY <1>1, <2>1 DEF Ending, GoesOn
<1>17. LoopSound("worker") /\ GivenSound("worker") /\ AnswerSound("worker") /\ CopySound("worker")
  <2>1. Cardinality(ran) = 0 /\ Cardinality(ran) \in Nat
    BY <1>1, FS_EmptySet
  <2>2. FirstCarry.calls = 0 /\ FirstCarry.tokens = 0 /\ FirstCarry.step = 1
    BY DEF FirstCarry
  <2>3. AnswerSound("worker") /\ CopySound("worker")
    BY <1>2, <1>7, <1>11 DEF AnswerSound, CopySound, Copy
  <2>4. CASE first = "check"
    <3>1. Before(1) /\ Unshown(1)
      BY <1>1, <1>2, <1>5, <2>4, Constants, EmptySeq DEF Before, Unshown
    <3>2. LoopSound("worker")
      BY <1>1, <1>2, <1>7, <1>11, <1>12, <2>1, <2>2, <2>4, <3>1, LoopAssumption DEF LoopSound, At, Copy
    <3> QED
      BY <1>7, <2>3, <2>4, <3>2 DEF GivenSound, At
  <2>5. CASE first = "given"
    <3>1. ~InLoop("worker")
      BY <1>7, <2>5 DEF InLoop
    <3>2. GivenSound("worker")
      BY <1>1, <1>3, <1>5, <1>7, <1>11, <2>1, <2>5, LoopAssumption DEF GivenSound
    <3> QED
      BY <2>3, <3>1, <3>2 DEF LoopSound
  <2> QED
    BY <1>5, <2>4, <2>5
<1> QED
  BY <1>9, <1>10, <1>13, <1>14, <1>15, <1>16, <1>17 DEF LoopInv

LEMMA LoopNextInv == LoopInv /\ [LoopNext]_loopVars => LoopInv'
<1> SUFFICES ASSUME LoopInv, [LoopNext]_loopVars PROVE LoopInv'
  OBVIOUS
<1>1. ASSUME NEW t \in Threads, RunsOf(t) PROVE LoopInv'
  <2>1. CASE StepsRunOut(t) \/ BudgetRunsOut(t) \/ CallTooMany(t) \/ RunsOverGiven(t)
    BY <2>1, StepsRunOutKeeps
  <2>2. CASE NoticesInterrupt(t) \/ CancelsCall(t)
    BY <2>2, NoticesInterruptKeeps, CancelsCallKeeps
  <2>3. CASE BeginsStep(t) \/ ContextFails(t) \/ RetriesCall(t) \/ GivesUpModel(t) \/ Refused(t)
    BY <2>3, BeginsStepKeeps, ContextFailsKeeps, RetriesCallKeeps, GivesUpModelKeeps, RefusedKeeps
  <2>4. CASE Streams(t) \/ Answers(t) \/ RunsCall(t) \/ CallBreaks(t) \/ Pauses(t) \/ EndsStep(t)
    BY <2>4, StreamsKeeps, AnswersKeeps, RunsCallKeeps, CallBreaksKeeps, PausesKeeps, EndsStepKeeps
  <2>5. CASE RunsGiven(t) \/ GivenBreaks(t) \/ PausesGiven(t) \/ EndsGiven(t)
    BY <2>5, RunsGivenKeeps, GivenBreaksKeeps, PausesGivenKeeps, EndsGivenKeeps
  <2> QED
    BY <1>1, <2>1, <2>2, <2>3, <2>4, <2>5 DEF RunsOf
<1>2. ASSUME NEW r \in Responders, Finishes(r) PROVE LoopInv'
  <2>1. r \in Threads
    BY DEF Threads
  <2> QED
    BY <1>2, <2>1, ResponderReturnsKeeps, AllowsKeeps, EndsGivenKeeps DEF Finishes
<1>3. CASE WorkerReturns
  BY <1>3, WorkerReturnsKeeps
<1>4. ASSUME NEW r \in Responders, NEW allow \in BOOLEAN, LoadsRequest(r, allow) PROVE LoopInv'
  BY <1>4, LoadsRequestKeeps
<1>5. CASE RequestsInterrupt \/ RecordsInterrupt \/ Restarts
  BY <1>5, RequestsInterruptKeeps, RecordsInterruptKeeps, RestartsKeeps
<1>6. CASE DeadlinePasses \/ UNCHANGED loopVars
  BY <1>6, DeadlinePassesKeeps
<1> QED
  BY <1>1, <1>2, <1>3, <1>4, <1>5, <1>6 DEF LoopNext

LEMMA LoopInvHolds == LoopSpec => []LoopInv
<1>1. LoopInit => LoopInv
  BY LoopInitInv
<1> QED
  BY <1>1, LoopNextInv, PTL DEF LoopSpec

\* Everything a turn keeps has the shape it is written with, the rest of the
\* turn and the request in the session included, and a result is one of a call
\* its message made (run_provider_loop, provider_turn_result).
THEOREM LoopTypeCorrect == LoopSpec => []LoopTypeOK
<1>1. LoopInv => LoopTypeOK
  <2> SUFFICES ASSUME LoopInv PROVE LoopTypeOK
    OBVIOUS
  <2>1. \A t \in Threads : loops[t].carry \in Carries /\ loops[t].copy \in Sessions
    BY DEF LoopInv, LoopTyped, ThreadTyped
  <2>2. job.status \in Execution!Status /\ job.cancel \in BOOLEAN
    BY DEF LoopInv, LoopTyped
  <2>3. ~doubled => \A i \in DOMAIN talk : talk[i].results \subseteq DOMAIN talk[i].calls
    <3> SUFFICES ASSUME ~doubled, NEW i \in DOMAIN talk
                 PROVE  talk[i].results \subseteq DOMAIN talk[i].calls
      OBVIOUS
    <3>1. i \in 1..Len(talk)
      BY LenProperties DEF LoopInv, LoopTyped
    <3>2. talk[i].calls \in Seq(CallKinds)
      BY <3>1, TalkHas DEF LoopInv
    <3>3. DOMAIN talk[i].calls = 1..Len(talk[i].calls)
      BY <3>2, LenProperties
    <3> QED
      BY <3>1, <3>3 DEF LoopInv, Tallied
  <2>4. \A i \in DOMAIN terminals : terminals[i] \in Execution!Terminal
    BY LenProperties, ElementOfSeq DEF LoopInv, LoopTyped
  <2> QED
    BY <2>1, <2>2, <2>3, <2>4 DEF LoopInv, LoopTyped, LoopTypeOK
<1> QED
  BY <1>1, LoopInvHolds, PTL

\* A turn that ends by itself has ended everywhere alike: in run.json, in the
\* job and in its one terminal event, with nobody asked any more, however often
\* it fell back, paused and was answered before (provider_turn_result,
\* respond_approval_payload, respond_question_payload).
THEOREM TurnEndsWhole == LoopSpec => []EndsWhole
<1>1. LoopInv => EndsWhole
  <2> SUFFICES ASSUME LoopInv, Execution!IsTerminal(job.status), \A t \in Threads : At(t, "rest"),
                      interrupts = 0, restarts = 0, ~doubled, ~broken
               PROVE  /\ runStatus = job.status /\ terminals = <<job.status>>
                      /\ disk.request = NoRequest /\ disk.resume = NoResume /\ disk.status = "idle"
    BY DEF EndsWhole
  <2>1. GoesOn \/ \E status \in {"completed", "failed"} : HasEnded(status)
    BY DEF LoopInv, Ending, Still
  <2>2. job.status \notin {"running", "waiting"}
    BY DEF Execution!IsTerminal, Execution!Terminal
  <2>3. PICK status \in {"completed", "failed"} : HasEnded(status)
    BY <2>1, <2>2 DEF GoesOn
  <2>4. job.status = status
    BY <2>2, <2>3 DEF HasEnded
  <2> QED
    BY <2>3, <2>4, Constants, SessionHas DEF HasEnded
<1> QED
  BY <1>1, LoopInvHolds, PTL

\* What the text events of a step left on the screen is what its message says,
\* models that failed in between included; and however often a turn waits for a
\* person, the tools it runs and the answers it uses stay within its budget
\* (PendingCarry, runtime_budget_violation, the reset before a fallback).
THEOREM LoopAddsUp == LoopSpec => []StepsAddUp
<1>1. LoopInv => StepsAddUp
  <2> SUFFICES ASSUME LoopInv, ~doubled PROVE StepsAddUp
    BY DEF StepsAddUp, StreamedIsAnswer, BudgetHolds
  <2>1. Tallied
    BY DEF LoopInv
  <2>2. StreamedIsAnswer
    <3>1. DOMAIN talk = 1..Len(talk)
      BY LenProperties DEF LoopInv, LoopTyped
    <3> QED
      BY <2>1, <3>1 DEF StreamedIsAnswer, Tallied
  <2>3. BudgetHolds
    <3>1. IsFiniteSet(ran \cup Open) /\ ran \subseteq ran \cup Open
      BY OpenFinite, FS_Union DEF LoopInv, LoopTyped
    <3>2. /\ Cardinality(ran) <= Cardinality(ran \cup Open)
          /\ Cardinality(ran) \in Nat /\ Cardinality(ran \cup Open) \in Nat
      BY <3>1, FS_Subset, FS_CardinalityType
    <3> QED
      BY <2>1, <3>2, LoopAssumption DEF BudgetHolds, Tallied
  <2> QED
    BY <2>2, <2>3 DEF StepsAddUp
<1> QED
  BY <1>1, LoopInvHolds, PTL

-----------------------------------------------------------------------------
(* Event files and their readers.                                          *)

EventSet == [turn : AllTurns, seq : 0..(MaxLines + 1), at : 1..MaxClock, last : BOOLEAN]
IdleEvents == [turn : AllTurns, seq : {0}, at : {0}, last : {FALSE}]
WriterSet == [at : {"write", "end"}, event : EventSet] \cup [at : {"idle"}, event : IdleEvents]
AttachedSet == [at : {"asks", "stream", "read", "done"}, cursor : 0..(MaxLines + 1),
                sent : 0..(MaxLines + 1), buffer : Seq(EventSet), shown : Seq(EventSet)]

\* Types; a file has room for those who are about to write.
EventsTyped ==
  /\ files \in [AllTurns -> Seq(Seq(EventSet))]
  /\ \A t \in AllTurns : Len(files[t]) \in 1..(MaxLines + 2)
  /\ clock \in 1..MaxClock
  /\ writers \in [Writers -> WriterSet]
  /\ \A w \in Writers : /\ writers[w].event.turn = w[1]
                        /\ writers[w].at # "idle" => Len(files[w[1]]) <= MaxLines + 1
  /\ \A w, o \in Writers : w # o /\ w[1] = o[1] /\ writers[w].at # "idle" /\ writers[o].at # "idle"
                             => Len(files[w[1]]) <= MaxLines
  /\ attached \in AttachedSet
  /\ poller \in [cursor : Nat, shown : SUBSET (AllTurns \X Nat)]
  /\ client \in {"attached", "poller"}
  /\ tears \in 0..MaxTears /\ crossed \in BOOLEAN /\ jumped \in BOOLEAN

LEMMA WriterTurns == \A w \in Writers : w[1] \in AllTurns
BY EventsAssumption DEF Writers, AllTurns

\* A turn has two writers at most.
LEMMA TwoWriters ==
  \A u, v, w \in Writers : u[1] = v[1] /\ v[1] = w[1] => u = v \/ v = w \/ u = w
<1> SUFFICES ASSUME NEW u \in Writers, NEW v \in Writers, NEW w \in Writers,
                    u[1] = v[1], v[1] = w[1]
             PROVE  u = v \/ v = w \/ u = w
  OBVIOUS
<1>1. \A x \in Writers : x = <<x[1], "driver">> \/ x = <<x[1], "interrupt">>
  BY DEF Writers
<1> QED
  BY <1>1

\* What is read of a file are lines that were written, fewer than it has or as many.
LEMMA RecordedTyped ==
  ASSUME NEW t, files[t] \in Seq(Seq(EventSet))
  PROVE  Recorded(t) \in Seq(EventSet) /\ Len(Recorded(t)) <= Len(files[t])
<1> DEFINE keep == {line \in ToSet(files[t]) : Len(line) = 1}
           whole == Retain(files[t], keep)
<1>0. whole = Retain(files[t], keep) /\ Recorded(t) = [i \in DOMAIN whole |-> whole[i][1]]
  BY DEF Recorded
<1> HIDE DEF whole
<1>1. /\ whole \in Seq(Seq(EventSet))
      /\ \E place \in [1..Len(whole) -> 1..Len(files[t])] :
           /\ \A i \in 1..Len(whole) : whole[i] = files[t][place[i]] /\ files[t][place[i]] \in keep
           /\ \A i, j \in 1..Len(whole) : i < j => place[i] < place[j]
  <2> DEFINE q == files[t]
             A == Seq(EventSet)
  <2>1. q \in Seq(A) /\ whole = Retain(q, keep)
    BY <1>0
  <2> HIDE DEF keep, q, A
  <2>2. /\ whole \in Seq(A)
        /\ \E place \in [1..Len(whole) -> 1..Len(q)] :
              /\ \A i \in 1..Len(whole) : whole[i] = q[place[i]] /\ q[place[i]] \in keep
              /\ \A i, j \in 1..Len(whole) : i < j => place[i] < place[j]
              /\ \A k \in 1..Len(q) : q[k] \in keep => \E i \in 1..Len(whole) : place[i] = k
    BY <2>1, RetainKeeps
  <2> QED
    BY <2>2 DEF q, A
<1>2. PICK place \in [1..Len(whole) -> 1..Len(files[t])] :
           /\ \A i \in 1..Len(whole) : whole[i] = files[t][place[i]] /\ files[t][place[i]] \in keep
           /\ \A i, j \in 1..Len(whole) : i < j => place[i] < place[j]
  BY <1>1
<1>4. /\ Len(whole) \in Nat /\ DOMAIN whole = 1..Len(whole)
      /\ \A i \in 1..Len(whole) : whole[i] \in Seq(EventSet) /\ Len(whole[i]) = 1
  <2>1. Len(whole) \in Nat /\ DOMAIN whole = 1..Len(whole)
    BY <1>1, LenProperties
  <2>2. \A i \in 1..Len(whole) : whole[i] \in Seq(EventSet)
    BY <1>1, ElementOfSeq
  <2>3. \A i \in 1..Len(whole) : Len(whole[i]) = 1
    BY <1>2
  <2> QED
    BY <2>1, <2>2, <2>3
<1> HIDE DEF keep
<1>5. \A i \in 1..Len(whole) : whole[i][1] \in EventSet
  BY <1>4, ElementOfSeq
<1>6. Recorded(t) \in Seq(EventSet) /\ Len(Recorded(t)) = Len(whole)
  BY <1>0, <1>4, <1>5
<1>7. Len(files[t]) \in Nat
  BY LenProperties
<1>8. IsFiniteSet(1..Len(files[t])) /\ Cardinality(1..Len(files[t])) = Len(files[t])
  BY <1>7, UpTo
<1>9. Cardinality(1..Len(whole)) = Len(whole)
  BY <1>4, UpTo
<1>10. place \in Injection(1..Len(whole), 1..Len(files[t]))
  <2>1. \A i, j \in 1..Len(whole) : place[i] = place[j] => i = j
    <3> SUFFICES ASSUME NEW i \in 1..Len(whole), NEW j \in 1..Len(whole), place[i] = place[j]
                 PROVE  i = j
      OBVIOUS
    <3>1. place[i] \in Nat /\ ~(place[i] < place[j]) /\ ~(place[j] < place[i])
      BY <1>7
    <3> QED
      BY <1>2, <1>4, <3>1
  <2> QED
    BY <1>2, <2>1 DEF Injection, IsInjective
<1>11. Cardinality(1..Len(whole)) <= Cardinality(1..Len(files[t]))
  BY <1>8, <1>10, FS_Injection
<1> QED
  BY <1>6, <1>8, <1>9, <1>11

LEMMA AfterTyped ==
  ASSUME NEW A, NEW q \in Seq(A), NEW n
  PROVE  After(q, n) \in Seq(A)
BY RetainKeeps DEF After

\* A set of numbers below a bound has a largest.
LEMMA MaxOfBounded ==
  ASSUME NEW N \in Nat, NEW S \in SUBSET (0..N), S # {}
  PROVE  Max(S) \in S /\ \A x \in S : x <= Max(S)
<1> DEFINE T == {n \in Nat : \A x \in S : x <= n}
<1>1. T \in SUBSET Nat /\ N \in T
  OBVIOUS
<1>2. PICK m \in T : \A y \in T : m <= y
  <2> HIDE DEF T
  <2> QED
    BY <1>1, LeastNat
<1>3. m \in Nat /\ \A x \in S : x <= m
  BY <1>2
<1>4. m \in S
  <2> SUFFICES ASSUME m \notin S PROVE FALSE
    OBVIOUS
  <2>1. \A x \in S : x <= m - 1 /\ x \in Nat
    BY <1>3
  <2>2. PICK x \in S : TRUE
    OBVIOUS
  <2>3. m - 1 \in T
    BY <1>3, <2>1, <2>2
  <2> QED
    BY <1>2, <1>3, <2>3
<1> QED
  BY <1>3, <1>4 DEF Max

LEMMA MaxSeqTyped ==
  ASSUME NEW q \in Seq(EventSet), NEW n \in 0..(MaxLines + 1)
  PROVE  /\ MaxSeq(q, n) \in 0..(MaxLines + 1)
         /\ MaxSeq(q, n) \in {n} \cup {q[i].seq : i \in 1..Len(q)}
         /\ n <= MaxSeq(q, n) /\ \A i \in 1..Len(q) : q[i].seq <= MaxSeq(q, n)
<1> DEFINE S == {n} \cup {q[i].seq : i \in DOMAIN q}
<1>1. DOMAIN q = 1..Len(q) /\ \A i \in 1..Len(q) : q[i].seq \in 0..(MaxLines + 1)
  <2>1. DOMAIN q = 1..Len(q) /\ \A i \in 1..Len(q) : q[i] \in EventSet
    BY LenProperties
  <2> QED
    BY <2>1 DEF EventSet
<1>2. S \in SUBSET (0..(MaxLines + 1)) /\ S # {} /\ MaxLines + 1 \in Nat
  BY <1>1, EventsAssumption
<1>3. Max(S) \in S /\ \A x \in S : x <= Max(S)
  <2> HIDE DEF S
  <2> QED
    BY <1>2, MaxOfBounded
<1> QED
  BY <1>1, <1>2, <1>3 DEF MaxSeq

LEMMA ShowAllTyped ==
  ASSUME NEW A, NEW shown \in Seq(A), NEW q \in Seq(A)
  PROVE  ShowAll(shown, q) \in Seq(A)
<1> DEFINE new == {i \in DOMAIN q : ~Known(shown \o SubSeq(q, 1, i - 1), q[i])}
           key == [i \in new |-> i]
           order == InOrder(new, key)
<1>1. Len(q) \in Nat /\ DOMAIN q = 1..Len(q) /\ \A i \in 1..Len(q) : q[i] \in A
  BY LenProperties
<1>2. new \in SUBSET (1..Len(q))
  BY <1>1
<1> HIDE DEF new
<1>3. IsFiniteSet(new)
  BY <1>1, <1>2, UpTo, FS_Subset
<1>4. (\A e \in new : key[e] \in Nat) /\ (\A d, e \in new : key[d] = key[e] => d = e)
  BY <1>2
<1>5. order \in Seq(new)
  <2> HIDE DEF key
  <2> QED
    BY <1>3, <1>4, InOrderSorts
<1>6. ShowAll(shown, q) = shown \o [k \in DOMAIN order |-> q[order[k]]]
  BY DEF ShowAll, new
<1> HIDE DEF order
<1>7. Len(order) \in Nat /\ DOMAIN order = 1..Len(order) /\ \A k \in 1..Len(order) : order[k] \in new
  BY <1>5, LenProperties
<1>8. \A k \in 1..Len(order) : q[order[k]] \in A
  BY <1>1, <1>2, <1>7
<1>9. [k \in 1..Len(order) |-> q[order[k]]] \in Seq(A)
  BY <1>7, <1>8
<1> QED
  BY <1>6, <1>7, <1>9, ConcatProperties

LEMMA EventsInitTyped == EventsInit => EventsTyped
<1> SUFFICES ASSUME EventsInit PROVE EventsTyped
  OBVIOUS
<1>1. \A t \in AllTurns : files[t] = << <<>> >> /\ Len(files[t]) = 1 /\ files[t] \in Seq(Seq(EventSet))
  BY DEF EventsInit
<1>2. files \in [AllTurns -> Seq(Seq(EventSet))]
  BY <1>1 DEF EventsInit
<1>3. \A w \in Writers : Quiet(w[1]) \in WriterSet
  BY WriterTurns DEF Quiet, Event, WriterSet, IdleEvents
<1>4. writers \in [Writers -> WriterSet] /\ \A w \in Writers : writers[w].at = "idle" /\ writers[w].event.turn = w[1]
  BY <1>3 DEF EventsInit, Quiet, Event
<1>5. attached \in AttachedSet
  BY EventsAssumption DEF EventsInit, AttachedSet
<1>6. /\ clock \in 1..MaxClock /\ tears \in 0..MaxTears /\ crossed \in BOOLEAN /\ jumped \in BOOLEAN
      /\ client \in {"attached", "poller"}
      /\ poller \in [cursor : Nat, shown : SUBSET (AllTurns \X Nat)]
  <2>1. 1 \in 1..MaxClock /\ 0 \in 0..MaxTears
    BY EventsAssumption
  <2>2. poller \in [cursor : Nat, shown : SUBSET (AllTurns \X Nat)]
    BY DEF EventsInit
  <2> QED
    BY <2>1, <2>2 DEF EventsInit
<1>7. \A t \in AllTurns : Len(files[t]) \in 1..(MaxLines + 2)
  <2>1. 1 \in 1..(MaxLines + 2)
    BY EventsAssumption
  <2> QED
    BY <1>1, <2>1
<1> QED
  BY <1>2, <1>4, <1>5, <1>6, <1>7 DEF EventsTyped

\* What a step leaves alone keeps its type.
LEMMA EventsTypedSame ==
  ASSUME EventsTyped, UNCHANGED <<files, clock, writers, client, tears, crossed>>,
         attached' \in AttachedSet, jumped' \in BOOLEAN,
         poller' \in [cursor : Nat, shown : SUBSET (AllTurns \X Nat)]
  PROVE  EventsTyped'
BY DEF EventsTyped

LEMMA CountsTyped ==
  ASSUME EventsTyped, NEW w \in Writers, NEW last \in BOOLEAN, Counts(w, last)
  PROVE  EventsTyped'
<1> DEFINE e == Event(w[1], Numbers(w), clock, last)
           next == [at |-> "write", event |-> e]
<1>1. /\ writers[w].at = "idle" /\ Len(files[w[1]]) <= MaxLines
      /\ writers' = [writers EXCEPT ![w] = next] /\ crossed' \in BOOLEAN
      /\ UNCHANGED <<files, clock, attached, poller, client, tears, jumped>>
  BY DEF Counts
<1>2. w[1] \in AllTurns /\ files[w[1]] \in Seq(Seq(EventSet)) /\ MaxLines \in Nat
  BY WriterTurns, EventsAssumption DEF EventsTyped
<1>3. Numbers(w) \in 0..(MaxLines + 1)
  <2>1. Recorded(w[1]) \in Seq(EventSet) /\ Len(Recorded(w[1])) <= Len(files[w[1]])
    BY <1>2, RecordedTyped
  <2>2. Len(Recorded(w[1])) \in Nat /\ Len(files[w[1]]) \in Nat
    BY <1>2, <2>1, LenProperties
  <2> QED
    BY <1>1, <1>2, <2>1, <2>2 DEF Numbers
<1>4. e \in EventSet /\ e.turn = w[1]
  BY <1>2, <1>3 DEF Event, EventSet, EventsTyped
<1>5. writers' \in [Writers -> WriterSet] /\ \A v \in Writers : writers'[v] = IF v = w THEN next ELSE writers[v]
  BY <1>1, <1>4 DEF EventsTyped, WriterSet
<1> HIDE DEF e
<1>6. \A v \in Writers : /\ writers'[v].event.turn = v[1]
                         /\ writers'[v].at # "idle" => Len(files[v[1]]) <= MaxLines + 1
  <2> SUFFICES ASSUME NEW v \in Writers
               PROVE  /\ writers'[v].event.turn = v[1]
                      /\ writers'[v].at # "idle" => Len(files[v[1]]) <= MaxLines + 1
    OBVIOUS
  <2>1. CASE v = w
    <3>1. Len(files[w[1]]) \in Nat
      BY <1>2, LenProperties
    <3> QED
      BY <1>1, <1>2, <1>4, <1>5, <2>1, <3>1
  <2>2. CASE v # w
    BY <1>5, <2>2 DEF EventsTyped
  <2> QED
    BY <2>1, <2>2
<1>7. \A v, o \in Writers : v # o /\ v[1] = o[1] /\ writers'[v].at # "idle" /\ writers'[o].at # "idle"
                             => Len(files[v[1]]) <= MaxLines
  BY <1>1, <1>5 DEF EventsTyped
<1> QED
  BY <1>1, <1>5, <1>6, <1>7 DEF EventsTyped

\* A file grows by a line, or one of its lines by an event.
LEMMA WriterIs ==
  ASSUME EventsTyped, NEW w \in Writers, writers[w].at # "idle"
  PROVE  writers[w].event \in EventSet /\ writers[w].at \in {"write", "end"}
<1>1. writers[w] \in WriterSet
  BY DEF EventsTyped
<1> QED
  BY <1>1 DEF WriterSet

LEMMA TextTyped == ASSUME EventsTyped, NEW w \in Writers, WritesText(w) PROVE EventsTyped'
<1> DEFINE t == w[1]
           e == writers[w].event
<1>1. /\ writers[w].at = "write" /\ jumped' \in BOOLEAN
      /\ files' = [files EXCEPT ![t][Len(files[t])] = Append(@, e)]
      /\ writers' = [writers EXCEPT ![w].at = "end"]
      /\ UNCHANGED <<clock, attached, poller, client, tears, crossed>>
  BY DEF WritesText, EventsTyped
<1>2. e \in EventSet /\ t \in AllTurns /\ files[t] \in Seq(Seq(EventSet)) /\ Len(files[t]) \in 1..(MaxLines + 2)
  BY <1>1, WriterIs, WriterTurns DEF EventsTyped
<1>3. writers' \in [Writers -> WriterSet] /\ \A v \in Writers : writers'[v].event = writers[v].event
                                                              /\ (writers'[v].at = "idle" <=> writers[v].at = "idle")
  <2>1. writers[w] \in WriterSet /\ writers \in [Writers -> WriterSet]
    BY DEF EventsTyped
  <2>2. [writers[w] EXCEPT !.at = "end"] \in WriterSet /\ [writers[w] EXCEPT !.at = "end"].event = e
        /\ [writers[w] EXCEPT !.at = "end"].at = "end"
    BY <1>1, <2>1 DEF WriterSet
  <2>3. writers' = [writers EXCEPT ![w] = [writers[w] EXCEPT !.at = "end"]]
    BY <1>1, <2>1
  <2> QED
    BY <1>1, <2>1, <2>2, <2>3
<1> HIDE DEF e
<1>4. files'[t] \in Seq(Seq(EventSet)) /\ Len(files'[t]) = Len(files[t])
  <2> DEFINE n == Len(files[t])
         L == Append(files[t][n], e)
         A == Seq(EventSet)
         q == files[t]
  <2>1. n \in 1..Len(q) /\ files[t][n] \in Seq(EventSet)
    BY <1>2, ElementOfSeq
  <2>2. L \in A
    BY <1>2, <2>1, AppendProperties
  <2>3. files'[t] = [q EXCEPT ![n] = L] /\ q \in Seq(A) /\ Len(q) = Len(files[t])
    BY <1>1, <1>2 DEF EventsTyped
  <2> HIDE DEF n, L, A, q
  <2>4. [q EXCEPT ![n] = L] \in Seq(A) /\ Len([q EXCEPT ![n] = L]) = Len(q)
    BY <2>1, <2>2, <2>3, ExceptSeq
  <2> QED
    BY <2>3, <2>4 DEF A
<1>5. \A u \in AllTurns : u # t => files'[u] = files[u]
  BY <1>1 DEF EventsTyped
<1>6. files' \in [AllTurns -> Seq(Seq(EventSet))] /\ \A u \in AllTurns : Len(files'[u]) = Len(files[u])
  <2>1. DOMAIN files' = AllTurns /\ files' = [u \in AllTurns |-> files'[u]]
    BY <1>1 DEF EventsTyped
  <2>2. \A u \in AllTurns : files'[u] \in Seq(Seq(EventSet))
    BY <1>4, <1>5 DEF EventsTyped
  <2> QED
    BY <1>4, <1>5, <2>1, <2>2
<1> QED
  BY <1>1, <1>3, <1>6, WriterTurns DEF EventsTyped

LEMMA QuietTyped ==
  ASSUME EventsTyped, NEW w \in Writers, writers' = [writers EXCEPT ![w] = Quiet(w[1])]
  PROVE  /\ writers' \in [Writers -> WriterSet] /\ writers'[w].at = "idle" /\ writers'[w].event.turn = w[1]
         /\ \A v \in Writers : v # w => writers'[v] = writers[v]
<1>1. Quiet(w[1]) \in WriterSet /\ Quiet(w[1]).at = "idle" /\ Quiet(w[1]).event.turn = w[1]
  BY WriterTurns DEF Quiet, Event, WriterSet, IdleEvents
<1> QED
  BY <1>1 DEF EventsTyped

LEMMA NewlineTyped == ASSUME EventsTyped, NEW w \in Writers, WritesNewline(w) PROVE EventsTyped'
<1> DEFINE t == w[1]
<1>1. /\ writers[w].at = "end"
      /\ files' = [files EXCEPT ![t] = Append(@, <<>>)]
      /\ writers' = [writers EXCEPT ![w] = Quiet(t)]
      /\ UNCHANGED <<clock, attached, poller, client, tears, crossed, jumped>>
  BY DEF WritesNewline
<1>2. t \in AllTurns /\ files[t] \in Seq(Seq(EventSet)) /\ Len(files[t]) \in 1..(MaxLines + 2)
      /\ Len(files[t]) <= MaxLines + 1 /\ MaxLines \in Nat
  BY <1>1, WriterTurns, EventsAssumption DEF EventsTyped
<1>3. /\ writers' \in [Writers -> WriterSet] /\ writers'[w].at = "idle" /\ writers'[w].event.turn = t
      /\ \A v \in Writers : v # w => writers'[v] = writers[v]
  BY <1>1, QuietTyped
<1>4. Append(files[t], <<>>) \in Seq(Seq(EventSet)) /\ Len(Append(files[t], <<>>)) = Len(files[t]) + 1
  <2>1. <<>> \in Seq(EventSet)
    OBVIOUS
  <2> QED
    BY <1>2, <2>1, AppendProperties
<1>5. files' \in [AllTurns -> Seq(Seq(EventSet))]
      /\ \A u \in AllTurns : files'[u] = IF u = t THEN Append(files[t], <<>>) ELSE files[u]
  BY <1>1, <1>2, <1>4 DEF EventsTyped
<1>6. \A u \in AllTurns : Len(files'[u]) \in 1..(MaxLines + 2)
  <2>1. Len(files[t]) + 1 \in 1..(MaxLines + 2)
    BY <1>2
  <2> QED
    BY <1>4, <1>5, <2>1 DEF EventsTyped
<1>7. \A v \in Writers : /\ writers'[v].event.turn = v[1]
                         /\ writers'[v].at # "idle" => Len(files'[v[1]]) <= MaxLines + 1
  <2> SUFFICES ASSUME NEW v \in Writers
               PROVE  /\ writers'[v].event.turn = v[1]
                      /\ writers'[v].at # "idle" => Len(files'[v[1]]) <= MaxLines + 1
    OBVIOUS
  <2>1. CASE v = w
    BY <1>3, <2>1
  <2>2. CASE v # w /\ v[1] # t
    BY <1>3, <1>5, <2>2, WriterTurns DEF EventsTyped
  <2>3. CASE v # w /\ v[1] = t
    <3>1. writers[v].at # "idle" => Len(files[t]) <= MaxLines
      BY <1>1, <2>3 DEF EventsTyped
    <3>2. writers[v].at # "idle" => Len(files[t]) + 1 <= MaxLines + 1
      BY <1>2, <3>1
    <3>3. Len(files'[t]) = Len(files[t]) + 1
      BY <1>2, <1>4, <1>5
    <3>4. writers'[v] = writers[v] /\ writers[v].event.turn = v[1]
      BY <1>3, <2>3 DEF EventsTyped
    <3> QED
      BY <2>3, <3>2, <3>3, <3>4
  <2> QED
    BY <2>1, <2>2, <2>3
<1>8. \A v, o \in Writers : v # o /\ v[1] = o[1] /\ writers'[v].at # "idle" /\ writers'[o].at # "idle"
                             => Len(files'[v[1]]) <= MaxLines
  <2> SUFFICES ASSUME NEW v \in Writers, NEW o \in Writers, v # o, v[1] = o[1],
                      writers'[v].at # "idle", writers'[o].at # "idle"
               PROVE  Len(files'[v[1]]) <= MaxLines
    OBVIOUS
  <2>1. v # w /\ o # w
    BY <1>3
  <2>2. v[1] # t
    BY <2>1, TwoWriters
  <2> QED
    BY <1>3, <1>5, <2>1, <2>2, WriterTurns DEF EventsTyped
<1> QED
  BY <1>1, <1>3, <1>5, <1>6, <1>7, <1>8 DEF EventsTyped

LEMMA TearsTyped == ASSUME EventsTyped, NEW w \in Writers, Tears(w) PROVE EventsTyped'
<1>1. /\ tears < MaxTears /\ tears' = tears + 1
      /\ writers' = [writers EXCEPT ![w] = Quiet(w[1])]
      /\ UNCHANGED <<files, clock, attached, poller, client, crossed, jumped>>
  BY DEF Tears
<1>2. /\ writers' \in [Writers -> WriterSet] /\ writers'[w].at = "idle" /\ writers'[w].event.turn = w[1]
      /\ \A v \in Writers : v # w => writers'[v] = writers[v]
  BY <1>1, QuietTyped
<1>3. tears' \in 0..MaxTears
  BY <1>1, EventsAssumption DEF EventsTyped
<1> QED
  BY <1>1, <1>2, <1>3 DEF EventsTyped

\* The greatest number, whatever it is compared with.
LEMMA MaxSeqNat ==
  ASSUME NEW q \in Seq(EventSet), NEW n \in Nat
  PROVE  MaxSeq(q, n) \in Nat
<1> DEFINE S == {n} \cup {q[i].seq : i \in DOMAIN q}
           N == n + MaxLines + 1
<1>1. \A i \in DOMAIN q : q[i].seq \in 0..(MaxLines + 1)
  <2>1. DOMAIN q = 1..Len(q) /\ \A i \in 1..Len(q) : q[i] \in EventSet
    BY LenProperties
  <2> QED
    BY <2>1 DEF EventSet
<1>2. N \in Nat /\ n \in 0..N /\ 0..(MaxLines + 1) \subseteq 0..N
  BY EventsAssumption
<1> HIDE DEF N
<1>3. S \in SUBSET (0..N) /\ S # {}
  BY <1>1, <1>2
<1> HIDE DEF S
<1>4. Max(S) \in S
  BY <1>2, <1>3, MaxOfBounded
<1> QED
  BY <1>2, <1>3, <1>4 DEF MaxSeq, S

LEMMA FollowsTyped == ASSUME EventsTyped, Follows PROVE EventsTyped'
<1>1. /\ UNCHANGED <<files, clock, writers, poller, client, tears, crossed, jumped>>
  BY DEF Follows, Asks, Sends, Takes, LosesConnection, AttachesAgain
<1>2. attached \in AttachedSet /\ files[1] \in Seq(Seq(EventSet)) /\ MaxLines \in Nat
      /\ <<>> \in Seq(EventSet)
  BY EventsAssumption DEF EventsTyped, AllTurns
<1>3. Recorded(1) \in Seq(EventSet)
  BY <1>2, RecordedTyped
<1>4. attached' \in AttachedSet
  <2>1. CASE Asks
    BY <1>2, <2>1 DEF Asks, AttachedSet
  <2>2. CASE Sends
    <3> DEFINE new == After(Recorded(1), attached.sent)
    <3>1. new \in Seq(EventSet)
      BY <1>3, AfterTyped
    <3>2. PICK ends \in BOOLEAN :
            attached' = [attached EXCEPT !.at = IF ends THEN "read" ELSE "stream",
                                         !.sent = SentUpTo(attached.sent, new),
                                         !.buffer = @ \o new]
      BY <2>2 DEF Sends
    <3> HIDE DEF new
    <3>3. SentUpTo(attached.sent, new) \in 0..(MaxLines + 1)
      <4>1. CASE new = <<>>
        BY <1>2, <4>1 DEF SentUpTo, AttachedSet
      <4>2. CASE new # <<>>
        <5>1. Len(new) \in 1..Len(new)
          BY <3>1, <4>2, EmptySeq
        <5>2. new[Len(new)] \in EventSet
          BY <3>1, <5>1, ElementOfSeq
        <5> QED
          BY <4>2, <5>2 DEF SentUpTo, EventSet
      <4> QED
        BY <4>1, <4>2
    <3>4. attached.buffer \o new \in Seq(EventSet)
      BY <1>2, <3>1, ConcatProperties DEF AttachedSet
    <3> QED
      BY <1>2, <3>2, <3>3, <3>4 DEF AttachedSet
  <2>3. CASE Takes
    <3>1. attached.buffer \in Seq(EventSet) /\ attached.shown \in Seq(EventSet) /\ attached.cursor \in 0..(MaxLines + 1)
      BY <1>2 DEF AttachedSet
    <3> DEFINE shown == ShowAll(attached.shown, attached.buffer)
    <3>2. shown \in Seq(EventSet) /\ MaxSeq(attached.buffer, attached.cursor) \in 0..(MaxLines + 1)
      BY <3>1, ShowAllTyped, MaxSeqTyped
    <3>3. PICK at \in {"done", "asks"} :
            attached' = [attached EXCEPT !.at = at, !.cursor = MaxSeq(attached.buffer, @), !.shown = shown,
                                         !.buffer = <<>>]
      BY <2>3 DEF Takes
    <3> HIDE DEF shown
    <3> QED
      BY <1>2, <3>2, <3>3 DEF AttachedSet
  <2>4. CASE LosesConnection
    BY <1>2, <2>4 DEF LosesConnection, AttachedSet
  <2>5. CASE AttachesAgain
    <3>1. attached' = [attached EXCEPT !.at = "asks", !.cursor = 0, !.shown = <<>>] /\ 0 \in 0..(MaxLines + 1)
      BY <1>2, <2>5 DEF AttachesAgain
    <3> QED
      BY <1>2, <3>1 DEF AttachedSet
  <2> QED
    BY <2>1, <2>2, <2>3, <2>4, <2>5 DEF Follows
<1>5. jumped' \in BOOLEAN /\ poller' \in [cursor : Nat, shown : SUBSET (AllTurns \X Nat)]
  BY <1>1 DEF EventsTyped
<1> QED
  BY <1>1, <1>4, <1>5, EventsTypedSame

LEMMA TickTyped == ASSUME EventsTyped, Tick PROVE EventsTyped'
<1>1. clock' \in 1..MaxClock
  BY EventsAssumption DEF EventsTyped, Tick
<1>2. UNCHANGED <<files, writers, attached, poller, client, tears, crossed, jumped>>
  BY DEF Tick
<1> QED
  BY <1>1, <1>2 DEF EventsTyped

\* An entry of the list is a line of a turn.
LEMMA EntriesAre ==
  ASSUME EventsTyped
  PROVE  /\ IsFiniteSet(Entries)
         /\ \A p \in Entries : /\ p[1] \in AllTurns /\ p[2] \in 1..Len(Recorded(p[1]))
                               /\ p = <<p[1], p[2], Recorded(p[1])[p[2]]>> /\ p[3] \in EventSet
         /\ \A t \in AllTurns : \A i \in 1..Len(Recorded(t)) : <<t, i, Recorded(t)[i]>> \in Entries
         /\ \A t \in AllTurns : Recorded(t) \in Seq(EventSet)
<1>1. \A t \in AllTurns : /\ Recorded(t) \in Seq(EventSet) /\ Len(Recorded(t)) <= Len(files[t])
                          /\ Len(files[t]) \in 1..(MaxLines + 2)
  BY RecordedTyped DEF EventsTyped
<1>2. \A t \in AllTurns : /\ DOMAIN Recorded(t) = 1..Len(Recorded(t))
                          /\ Len(Recorded(t)) \in 0..(MaxLines + 2)
  BY <1>1, LenProperties, EventsAssumption
<1>3. ASSUME NEW p \in Entries
      PROVE  /\ p[1] \in AllTurns /\ p[2] \in 1..Len(Recorded(p[1]))
             /\ p = <<p[1], p[2], Recorded(p[1])[p[2]]>> /\ p[3] \in EventSet
  <2>1. PICK t \in AllTurns : p \in {<<t, i, Recorded(t)[i]>> : i \in DOMAIN Recorded(t)}
    BY DEF Entries
  <2>2. PICK i \in 1..Len(Recorded(t)) : p = <<t, i, Recorded(t)[i]>>
    BY <1>2, <2>1
  <2>3. Recorded(t)[i] \in EventSet
    BY <1>1, <2>2, ElementOfSeq
  <2> QED
    BY <2>2, <2>3
<1>4. ASSUME NEW t \in AllTurns, NEW i \in 1..Len(Recorded(t)) PROVE <<t, i, Recorded(t)[i]>> \in Entries
  <2>1. i \in DOMAIN Recorded(t)
    BY <1>2
  <2> QED
    BY <2>1 DEF Entries
<1>5. IsFiniteSet(Entries)
  <2> DEFINE M == MaxLines + 2
             f == [p \in Entries |-> <<p[1], p[2]>>]
  <2>1. IsFiniteSet(AllTurns) /\ IsFiniteSet(1..M)
    BY UpTo, EventsAssumption DEF AllTurns
  <2>2. IsFiniteSet(AllTurns \X (1..M))
    BY <2>1, FS_Product
  <2>3. \A p \in Entries : p[1] \in AllTurns /\ p[2] \in 1..M
    <3> SUFFICES ASSUME NEW p \in Entries PROVE p[1] \in AllTurns /\ p[2] \in 1..M
      OBVIOUS
    <3>1. p[1] \in AllTurns /\ p[2] \in 1..Len(Recorded(p[1])) /\ Len(Recorded(p[1])) \in 0..M
      BY <1>2, <1>3
    <3> QED
      BY <3>1, EventsAssumption
  <2>4. f \in Injection(Entries, AllTurns \X (1..M))
    <3>1. f \in [Entries -> AllTurns \X (1..M)]
      BY <2>3
    <3>2. \A p, q \in Entries : f[p] = f[q] => p = q
      <4> SUFFICES ASSUME NEW p \in Entries, NEW q \in Entries, <<p[1], p[2]>> = <<q[1], q[2]>> PROVE p = q
        OBVIOUS
      <4>1. p[1] = q[1] /\ p[2] = q[2]
        OBVIOUS
      <4> QED
        BY <1>3, <4>1
    <3> QED
      BY <3>1, <3>2 DEF Injection, IsInjective
  <2> HIDE DEF f, M
  <2> QED
    BY <2>2, <2>4, FS_Injection
<1> QED
  BY <1>1, <1>3, <1>4, <1>5

\* One entry is ahead of another by time and place, and of no two each.
LEMMA PrecedesOrders ==
  ASSUME EventsTyped
  PROVE  /\ \A p, q \in Entries : p # q => Precedes(p, q) \/ Precedes(q, p)
         /\ \A p \in Entries : ~Precedes(p, p)
         /\ \A p, q, r \in Entries : Precedes(p, q) /\ Precedes(q, r) => Precedes(p, r)
<1>1. \A p \in Entries : /\ p[1] \in Nat /\ p[2] \in Nat /\ p[3].at \in Nat
                         /\ p = <<p[1], p[2], Recorded(p[1])[p[2]]>>
  <2> SUFFICES ASSUME NEW p \in Entries
               PROVE  /\ p[1] \in Nat /\ p[2] \in Nat /\ p[3].at \in Nat
                      /\ p = <<p[1], p[2], Recorded(p[1])[p[2]]>>
    OBVIOUS
  <2>1. /\ p[1] \in AllTurns /\ p[2] \in 1..Len(Recorded(p[1])) /\ p[3] \in EventSet
        /\ p = <<p[1], p[2], Recorded(p[1])[p[2]]>>
    BY EntriesAre
  <2> QED
    BY <2>1, EventsAssumption DEF EventSet, AllTurns
<1>2. \A p, q \in Entries : p # q => p[1] # q[1] \/ p[2] # q[2]
  BY <1>1
<1> QED
  BY <1>1, <1>2 DEF Precedes, ListedBefore

RankOf(p) == Cardinality({q \in Entries : Precedes(q, p)})

\* The list has each event once, at the number of those ahead of it.
LEMMA AllEventsIs ==
  ASSUME EventsTyped
  PROVE  /\ Cardinality(Entries) \in Nat /\ DOMAIN AllEvents = 1..Cardinality(Entries)
         /\ Len(AllEvents) = Cardinality(Entries)
         /\ \A p \in Entries : RankOf(p) + 1 \in 1..Cardinality(Entries)
                              /\ AllEvents[RankOf(p) + 1] = p[3]
         /\ \A k \in 1..Cardinality(Entries) : \E p \in Entries : RankOf(p) + 1 = k
<1> DEFINE rank == [p \in Entries |-> RankOf(p)]
           n == Cardinality(Entries)
<1>1. IsFiniteSet(Entries) /\ n \in Nat
  BY EntriesAre, FS_CardinalityType
<1>2. \A p \in Entries : RankOf(p) \in Nat /\ IsFiniteSet({q \in Entries : Precedes(q, p)})
  <2> SUFFICES ASSUME NEW p \in Entries
               PROVE  RankOf(p) \in Nat /\ IsFiniteSet({q \in Entries : Precedes(q, p)})
    OBVIOUS
  <2>1. {q \in Entries : Precedes(q, p)} \in SUBSET Entries
    OBVIOUS
  <2>2. IsFiniteSet({q \in Entries : Precedes(q, p)})
    BY <1>1, <2>1, FS_Subset
  <2> QED
    BY <2>2, FS_CardinalityType DEF RankOf
<1>3. ASSUME NEW p \in Entries, NEW q \in Entries, Precedes(p, q) PROVE RankOf(p) < RankOf(q)
  <2> DEFINE P == {r \in Entries : Precedes(r, p)}
             Q == {r \in Entries : Precedes(r, q)}
  <2>1. P \in SUBSET Q /\ p \in Q /\ p \notin P
    BY <1>3, PrecedesOrders
  <2>2. IsFiniteSet(Q) /\ Cardinality(P) \in Nat /\ Cardinality(Q) \in Nat
    BY <1>2 DEF RankOf
  <2>3. Cardinality(P) = RankOf(p) /\ Cardinality(Q) = RankOf(q)
    BY DEF RankOf
  <2> HIDE DEF P, Q
  <2>4. Cardinality(P) <= Cardinality(Q) /\ Cardinality(P) # Cardinality(Q)
    BY <2>1, <2>2, FS_Subset
  <2> QED
    BY <2>2, <2>3, <2>4
<1> HIDE DEF n
<1>a. \A p, q \in Entries : RankOf(p) <= RankOf(q) <=> Precedes(p, q) \/ p = q
  <2> SUFFICES ASSUME NEW p \in Entries, NEW q \in Entries
               PROVE  RankOf(p) <= RankOf(q) <=> Precedes(p, q) \/ p = q
    OBVIOUS
  <2>1. RankOf(p) \in Nat /\ RankOf(q) \in Nat
    BY <1>2
  <2>2. Precedes(p, q) => RankOf(p) < RankOf(q)
    BY <1>3
  <2>3. Precedes(q, p) => RankOf(q) < RankOf(p)
    BY <1>3
  <2>4. p # q => Precedes(p, q) \/ Precedes(q, p)
    BY PrecedesOrders
  <2> QED
    BY <2>1, <2>2, <2>3, <2>4
<1>b. \A p \in Entries : rank[p] = RankOf(p) /\ rank[p] \in Nat
  BY <1>2
<1>4. \A p, q \in Entries : rank[p] = rank[q] => p = q
  <2> SUFFICES ASSUME NEW p \in Entries, NEW q \in Entries, RankOf(p) = RankOf(q) PROVE p = q
    OBVIOUS
  <2>1. RankOf(p) \in Nat
    BY <1>2
  <2>2. (Precedes(p, q) \/ p = q) /\ (Precedes(q, p) \/ p = q)
    BY <1>a, <2>1
  <2>3. Precedes(p, q) => RankOf(p) < RankOf(q)
    BY <1>3
  <2> QED
    BY <2>1, <2>2, <2>3
<1>5. \A p \in Entries : Cardinality({q \in Entries : rank[q] <= rank[p]}) = RankOf(p) + 1
  <2> SUFFICES ASSUME NEW p \in Entries
               PROVE  Cardinality({q \in Entries : rank[q] <= rank[p]}) = RankOf(p) + 1
    OBVIOUS
  <2> DEFINE P == {q \in Entries : Precedes(q, p)}
  <2>1. \A q \in Entries : rank[q] <= rank[p] <=> Precedes(q, p) \/ q = p
    BY <1>a
  <2>2. {q \in Entries : rank[q] <= rank[p]} = P \cup {p} /\ p \notin P
    BY <2>1, PrecedesOrders
  <2>3. IsFiniteSet(P) /\ Cardinality(P) = RankOf(p)
    BY <1>2 DEF RankOf
  <2> HIDE DEF P
  <2> QED
    BY <2>2, <2>3, FS_AddElement
<1>6. \A k \in 1..n : \E p \in Entries : Cardinality({q \in Entries : rank[q] <= rank[p]}) = k
  <2>1. \A p \in Entries : rank[p] \in Nat
    BY <1>2
  <2>2. IsFiniteSet(Entries) /\ \A p, q \in Entries : rank[p] = rank[q] => p = q
    BY <1>1, <1>4
  <2> HIDE DEF rank
  <2>3. \A k \in 1..Cardinality(Entries) :
          \E p \in Entries : Cardinality({q \in Entries : rank[q] <= rank[p]}) = k
    BY <2>1, <2>2, RanksAreFilled
  <2> QED
    BY <2>3 DEF n
<1>7. \A k \in 1..n : \E p \in Entries : RankOf(p) + 1 = k
  BY <1>5, <1>6
<1>8. \A p \in Entries : RankOf(p) + 1 \in 1..n
  <2> SUFFICES ASSUME NEW p \in Entries PROVE RankOf(p) + 1 \in 1..n
    OBVIOUS
  <2> DEFINE U == {q \in Entries : rank[q] <= rank[p]}
  <2>1. U \in SUBSET Entries
    OBVIOUS
  <2>2. Cardinality(U) = RankOf(p) + 1
    BY <1>5
  <2> HIDE DEF U
  <2>3. Cardinality(U) <= n
    BY <1>1, <2>1, FS_Subset DEF n
  <2> QED
    <3>1. RankOf(p) \in Nat /\ n \in Nat
      BY <1>1, <1>2 DEF n
    <3>2. RankOf(p) + 1 <= n
      BY <2>2, <2>3 DEF n
    <3> QED
      BY <3>1, <3>2
<1>9. AllEvents = [k \in 1..n |-> (CHOOSE p \in Entries : RankOf(p) = k - 1)[3]]
  BY DEF AllEvents, RankOf, n
<1>10. \A p \in Entries : AllEvents[RankOf(p) + 1] = p[3]
  <2> SUFFICES ASSUME NEW p \in Entries PROVE AllEvents[RankOf(p) + 1] = p[3]
    OBVIOUS
  <2>1. RankOf(p) \in Nat /\ RankOf(p) = (RankOf(p) + 1) - 1
    <3>1. RankOf(p) \in Nat
      BY <1>2
    <3> QED
      BY <3>1
  <2>2. \A q \in Entries : RankOf(q) = RankOf(p) => q = p
    BY <1>4, <1>b
  <2>3. (CHOOSE q \in Entries : RankOf(q) = RankOf(p)) = p
    BY <2>2
  <2>4. AllEvents[RankOf(p) + 1] = (CHOOSE q \in Entries : RankOf(q) = (RankOf(p) + 1) - 1)[3]
    BY <1>8, <1>9
  <2> QED
    BY <2>1, <2>3, <2>4
<1>13. Len(AllEvents) = n
  BY <1>1, <1>9
<1> QED
  BY <1>1, <1>7, <1>8, <1>9, <1>10, <1>13 DEF n

-----------------------------------------------------------------------------
(* While no two write one file at once and no line is torn, a file is the  *)
(* numbered events of its turn, and every reader has a stretch of it.      *)

\* One writer at a turn; what it is about to write comes next.
WritersApart ==
  \A w, o \in Writers : w[1] = o[1] /\ writers[w].at # "idle" /\ writers[o].at # "idle" => w = o

Writing(t) == \E w \in Writers : w[1] = t /\ writers[w].at = "end"
Ended(t) == IF Writing(t) THEN Len(files[t]) ELSE Len(files[t]) - 1

\* Each line that has an event has its number, and the last is for the next.
LinesAreNumbered ==
  \A t \in AllTurns :
    /\ \A i \in 1..Len(files[t]) : Len(files[t][i]) = IF i <= Ended(t) THEN 1 ELSE 0
    /\ \A i \in 1..Ended(t) : files[t][i][1].seq = i /\ files[t][i][1].turn = t

NextIsNumbered ==
  \A w \in Writers : writers[w].at = "write" => writers[w].event.seq = Len(files[w[1]])

\* What is written is no younger than the clock, nor than what is being written.
InTime ==
  /\ \A w \in Writers : writers[w].event.at <= clock
  /\ \A t \in AllTurns : \A i \in 1..Ended(t) :
       /\ files[t][i][1].at <= clock
       /\ \A w \in Writers : w[1] = t /\ writers[w].at # "idle"
                               => files[t][i][1].at <= writers[w].event.at

\* The client of the stream has shown the events up to its cursor, and the
\* stream has brought those up to what it has sent.
StreamFollows ==
  /\ attached.cursor <= Ended(1)
  /\ attached.shown = SubSeq(Recorded(1), 1, attached.cursor)
  /\ attached.at \in {"stream", "read"} =>
       /\ attached.cursor <= attached.sent /\ attached.sent <= Ended(1)
       /\ attached.buffer = SubSeq(Recorded(1), attached.cursor + 1, attached.sent)

\* The poller was shown as many events as its cursor says: the first ones.
PollFollows ==
  ~jumped =>
    /\ poller.cursor <= Cardinality(Entries)
    /\ \A p \in Entries : RankOf(p) < poller.cursor => IdOf(p[3]) \in poller.shown

Orderly == WritersApart /\ LinesAreNumbered /\ NextIsNumbered /\ InTime
Undisturbed == ~crossed /\ tears = 0
EventsInv == EventsTyped /\ (Undisturbed => Orderly /\ StreamFollows /\ PollFollows)

\* What is read of such a file are its lines with an event.
LEMMA RecordedIs ==
  ASSUME EventsTyped, LinesAreNumbered, NEW t \in AllTurns
  PROVE  /\ Ended(t) \in 0..Len(files[t]) /\ Len(files[t]) \in 1..(MaxLines + 2)
         /\ Recorded(t) = [i \in 1..Ended(t) |-> files[t][i][1]]
         /\ Recorded(t) \in Seq(EventSet) /\ Len(Recorded(t)) = Ended(t)
         /\ \A i \in 1..Ended(t) : Recorded(t)[i].seq = i /\ Recorded(t)[i].turn = t
<1> DEFINE A == Seq(EventSet)
           q == files[t]
           n == Ended(t)
           keep == {line \in ToSet(q) : Len(line) = 1}
<1>1. q \in Seq(A) /\ Len(q) \in 1..(MaxLines + 2) /\ MaxLines \in Nat
  BY EventsAssumption DEF EventsTyped
<1>2. n \in 0..Len(q) /\ n \in Nat
  BY <1>1 DEF Ended
<1>3. \A i \in 1..Len(q) : Len(q[i]) = IF i <= n THEN 1 ELSE 0
  BY DEF LinesAreNumbered
<1>4. \A i \in 1..n : q[i][1].seq = i /\ q[i][1].turn = t
  BY DEF LinesAreNumbered
<1>5. DOMAIN q = 1..Len(q) /\ \A i \in 1..Len(q) : q[i] \in A
  BY <1>1, LenProperties
<1>6. \A i \in 1..Len(q) : q[i] \in keep <=> (1 <= i /\ i <= n)
  <2> SUFFICES ASSUME NEW i \in 1..Len(q) PROVE q[i] \in keep <=> (1 <= i /\ i <= n)
    OBVIOUS
  <2>1. q[i] \in ToSet(q)
    BY <1>5 DEF ToSet
  <2>2. q[i] \in keep <=> Len(q[i]) = 1
    BY <2>1
  <2>3. 1 <= i /\ Len(q[i]) = IF i <= n THEN 1 ELSE 0
    BY <1>3
  <2> QED
    BY <2>2, <2>3
<1>7. Recorded(t) = [i \in DOMAIN Retain(q, keep) |-> Retain(q, keep)[i][1]]
  BY DEF Recorded
<1> HIDE DEF q, n, keep
<1>8. Retain(q, keep) = SubSeq(q, 1, n)
  <2> HIDE DEF A
  <2>1. 1 \in Nat \ {0} /\ n \in Nat /\ n <= Len(q) /\ 1 <= n + 1
    BY <1>1, <1>2
  <2> QED
    BY <1>1, <1>6, <2>1, RetainStretch
<1>9. /\ SubSeq(q, 1, n) \in Seq(A) /\ Len(SubSeq(q, 1, n)) = n
      /\ \A i \in 1..n : SubSeq(q, 1, n)[i] = q[i]
  <2>1. \A i \in 1..n : q[i] \in A
    BY <1>1, <1>2, <1>5
  <2> HIDE DEF A
  <2>2. /\ SubSeq(q, 1, n) \in Seq(A)
        /\ Len(SubSeq(q, 1, n)) = IF 1 <= n THEN n - 1 + 1 ELSE 0
        /\ \A i \in 1..(n - 1 + 1) : SubSeq(q, 1, n)[i] = q[1 + i - 1]
    BY <1>2, <2>1, SubSeqProperties
  <2> QED
    BY <1>2, <2>2
<1>10. DOMAIN SubSeq(q, 1, n) = 1..n
  BY <1>9, LenProperties
<1>11. Recorded(t) = [i \in 1..n |-> q[i][1]]
  BY <1>7, <1>8, <1>9, <1>10
<1>12. \A i \in 1..n : q[i][1] \in EventSet
  <2> SUFFICES ASSUME NEW i \in 1..n PROVE q[i][1] \in EventSet
    OBVIOUS
  <2>1. i \in 1..Len(q)
    BY <1>1, <1>2
  <2>2. q[i] \in Seq(EventSet) /\ Len(q[i]) = 1
    BY <1>2, <1>3, <1>5, <2>1
  <2> QED
    BY <2>2, ElementOfSeq
<1>13. Recorded(t) \in Seq(EventSet) /\ Len(Recorded(t)) = n
  BY <1>2, <1>11, <1>12
<1>14. \A i \in 1..n : Recorded(t)[i].seq = i /\ Recorded(t)[i].turn = t
  BY <1>4, <1>11
<1> QED
  BY <1>1, <1>2, <1>11, <1>13, <1>14 DEF q, n

RecordedFacts ==
  \A t \in AllTurns : /\ Recorded(t) \in Seq(EventSet) /\ Len(Recorded(t)) = Ended(t) /\ Ended(t) \in Nat
                      /\ Recorded(t) = [i \in 1..Ended(t) |-> files[t][i][1]]

LEMMA RecordedAll == EventsTyped /\ LinesAreNumbered => RecordedFacts
<1> SUFFICES ASSUME EventsTyped, LinesAreNumbered, NEW t \in AllTurns
             PROVE  /\ Recorded(t) \in Seq(EventSet) /\ Len(Recorded(t)) = Ended(t) /\ Ended(t) \in Nat
                    /\ Recorded(t) = [i \in 1..Ended(t) |-> files[t][i][1]]
  BY DEF RecordedFacts
<1>1. Ended(t) \in 0..Len(files[t]) /\ Len(files[t]) \in 1..(MaxLines + 2) /\ MaxLines \in Nat
  BY RecordedIs, EventsAssumption
<1>2. Ended(t) \in Nat
  BY <1>1
<1> QED
  BY <1>2, RecordedIs

LEMMA RecordedAllNext == ASSUME EventsTyped', LinesAreNumbered' PROVE RecordedFacts'
<1>1. (EventsTyped /\ LinesAreNumbered => RecordedFacts)'
  BY RecordedAll, PTL
<1> QED
  BY <1>1

\* What a cursor lets through is the rest of such a file.
LEMMA AfterIs ==
  ASSUME EventsTyped, LinesAreNumbered, NEW t \in AllTurns, NEW n \in 0..Ended(t)
  PROVE  After(Recorded(t), n) = SubSeq(Recorded(t), n + 1, Ended(t))
<1> DEFINE q == Recorded(t)
           m == Ended(t)
           keep == {e \in ToSet(q) : e.seq > n}
<1>1. q \in Seq(EventSet) /\ Len(q) = m /\ m \in Nat /\ \A i \in 1..m : q[i].seq = i
  BY RecordedIs
<1>2. DOMAIN q = 1..m
  BY <1>1, LenProperties
<1>3. \A i \in 1..Len(q) : q[i] \in keep <=> (n + 1 <= i /\ i <= m)
  BY <1>1, <1>2 DEF ToSet
<1>4. n + 1 \in Nat \ {0} /\ m <= Len(q) /\ n + 1 <= m + 1
  BY <1>1
<1>5. After(q, n) = Retain(q, keep)
  BY DEF After
<1> HIDE DEF q, m, keep
<1>6. Retain(q, keep) = SubSeq(q, n + 1, m)
  BY <1>1, <1>3, <1>4, RetainStretch
<1> QED
  BY <1>5, <1>6 DEF q, m

\* Nothing of the next stretch was shown before, so all of it is.
LEMMA ShowAllIs ==
  ASSUME NEW S, NEW s \in Seq(S), NEW q \in Seq(S),
         \A i \in 1..Len(s) : \A j \in 1..Len(q) : s[i].seq # q[j].seq,
         \A i, j \in 1..Len(q) : q[i].seq = q[j].seq => i = j
  PROVE  ShowAll(s, q) = s \o q
<1> DEFINE before(i) == s \o SubSeq(q, 1, i - 1)
           new == {i \in DOMAIN q : ~Known(before(i), q[i])}
           key == [i \in new |-> i]
           order == InOrder(new, key)
           n == Len(q)
<1>1. /\ n \in Nat /\ DOMAIN q = 1..n /\ \A i \in 1..n : q[i] \in S
      /\ Len(s) \in Nat /\ DOMAIN s = 1..Len(s)
  BY LenProperties
<1>2. ASSUME NEW i \in 1..n PROVE ~Known(before(i), q[i])
  <2> DEFINE b == SubSeq(q, 1, i - 1)
  <2>1. \A j \in 1..(i - 1) : q[j] \in S
    BY <1>1
  <2>2. /\ b \in Seq(S) /\ Len(b) = i - 1
        /\ \A j \in 1..(i - 1) : b[j] = q[j]
    <3>1. /\ b \in Seq(S) /\ Len(b) = IF 1 <= i - 1 THEN (i - 1) - 1 + 1 ELSE 0
          /\ \A j \in 1..((i - 1) - 1 + 1) : b[j] = q[1 + j - 1]
      BY <1>1, <2>1, SubSeqProperties
    <3> QED
      BY <1>1, <3>1
  <2> HIDE DEF b
  <2>3. /\ s \o b \in Seq(S) /\ Len(s \o b) = Len(s) + (i - 1)
        /\ \A j \in 1..(Len(s) + (i - 1)) : (s \o b)[j] = IF j <= Len(s) THEN s[j] ELSE b[j - Len(s)]
    <3>1. /\ s \o b \in Seq(S) /\ Len(s \o b) = Len(s) + Len(b)
          /\ \A j \in 1..(Len(s) + Len(b)) : (s \o b)[j] = IF j <= Len(s) THEN s[j] ELSE b[j - Len(s)]
      BY <2>2, ConcatProperties
    <3> QED
      BY <2>2, <3>1
  <2>4. DOMAIN (s \o b) = 1..(Len(s) + (i - 1))
    BY <2>3, LenProperties
  <2>5. \A j \in 1..(Len(s) + (i - 1)) : (s \o b)[j].seq # q[i].seq
    <3> SUFFICES ASSUME NEW j \in 1..(Len(s) + (i - 1)) PROVE (s \o b)[j].seq # q[i].seq
      OBVIOUS
    <3>1. CASE j <= Len(s)
      BY <1>1, <2>3, <3>1
    <3>2. CASE ~(j <= Len(s))
      <4>1. j - Len(s) \in 1..(i - 1) /\ j - Len(s) \in 1..n /\ j - Len(s) # i
        BY <1>1, <3>2
      <4>2. (s \o b)[j] = q[j - Len(s)]
        BY <2>2, <2>3, <3>2, <4>1
      <4> QED
        BY <4>1, <4>2
    <3> QED
      BY <3>1, <3>2
  <2> QED
    BY <2>4, <2>5 DEF Known, b
<1>3. new = 1..n
  BY <1>1, <1>2
<1>4. ShowAll(s, q) = s \o [k \in DOMAIN order |-> q[order[k]]]
  BY DEF ShowAll
<1> HIDE DEF new, before
<1>5. /\ order \in Seq(new)
      /\ \A i, j \in 1..Len(order) : i < j => key[order[i]] < key[order[j]]
      /\ \A e \in new : \E i \in 1..Len(order) : order[i] = e
  <2>1. IsFiniteSet(new) /\ (\A e \in new : key[e] \in Nat) /\ (\A d, e \in new : key[d] = key[e] => d = e)
    BY <1>1, <1>3, UpTo
  <2> HIDE DEF key
  <2> QED
    BY <2>1, InOrderSorts
<1>6. \A k \in 1..n : order[k] = k
  <2> SUFFICES ASSUME NEW k \in 1..n PROVE order[k] = k
    OBVIOUS
  <2>1. order[k] = CHOOSE e \in new : Cardinality({d \in new : key[d] <= key[e]}) = k
    BY <1>1, <1>3, UpTo DEF InOrder
  <2>2. \A e \in new : Cardinality({d \in new : key[d] <= key[e]}) = e
    <3> SUFFICES ASSUME NEW e \in 1..n PROVE Cardinality({d \in 1..n : key[d] <= key[e]}) = e
      BY <1>3
    <3>1. {d \in 1..n : key[d] <= key[e]} = 1..e
      BY <1>1, <1>3
    <3> QED
      <4>1. e \in Nat
        BY <1>1
      <4> QED
        BY <3>1, <4>1, UpTo
  <2>3. k \in new
    BY <1>3
  <2> HIDE DEF key
  <2> QED
    BY <2>1, <2>2, <2>3
<1>7. DOMAIN order = 1..n
  BY <1>1, <1>3, UpTo DEF InOrder
<1> HIDE DEF order
<1>8. [k \in DOMAIN order |-> q[order[k]]] = [k \in 1..n |-> q[k]]
  BY <1>6, <1>7
<1>9. [k \in 1..n |-> q[k]] = q
  BY <1>1, LenProperties
<1> QED
  BY <1>4, <1>8, <1>9

\* Undisturbed now, undisturbed before.
LEMMA DisturbedStays ==
  ASSUME EventsTyped, EventsNext, Undisturbed'
  PROVE  Undisturbed
<1>1. ASSUME tears' = tears \/ tears' = tears + 1, crossed => crossed' PROVE Undisturbed
  <2>1. ~crossed
    BY <1>1 DEF Undisturbed
  <2>2. tears' = 0 /\ tears \in Nat
    BY EventsAssumption DEF EventsTyped, Undisturbed
  <2> QED
    BY <1>1, <2>1, <2>2 DEF Undisturbed
<1>2. ASSUME NEW w \in Writers, NEW last \in BOOLEAN, Counts(w, last) PROVE Undisturbed
  BY <1>1, <1>2 DEF Counts
<1>3. ASSUME NEW w \in Writers, WritesText(w) \/ WritesNewline(w) \/ Tears(w) PROVE Undisturbed
  BY <1>1, <1>3 DEF WritesText, WritesNewline, Tears
<1>4. CASE Tick \/ Polls \/ Asks \/ Sends \/ Takes \/ LosesConnection \/ AttachesAgain
  <2>1. crossed' = crossed /\ tears' = tears
    BY <1>4 DEF Tick, Polls, Asks, Sends, Takes, LosesConnection, AttachesAgain
  <2> QED
    BY <1>1, <2>1
<1>5. ASSUME NEW t \in AllTurns, TakesPayload(t) PROVE Undisturbed
  BY <1>1, <1>5 DEF TakesPayload
<1> QED
  BY <1>2, <1>3, <1>4, <1>5 DEF EventsNext, Follows

\* Times are numbers.
LEMMA TimesAreNumbers ==
  ASSUME EventsTyped, LinesAreNumbered
  PROVE  /\ clock \in Nat /\ \A w \in Writers : writers[w].event.at \in Nat
         /\ \A t \in AllTurns : \A i \in 1..Ended(t) : files[t][i][1].at \in Nat
<1>1. clock \in Nat
  BY EventsAssumption DEF EventsTyped
<1>2. ASSUME NEW w \in Writers PROVE writers[w].event.at \in Nat
  <2>1. writers[w] \in WriterSet
    BY DEF EventsTyped
  <2>2. writers[w].event \in EventSet \/ writers[w].event \in IdleEvents
    BY <2>1 DEF WriterSet
  <2>3. \A e \in EventSet : e.at \in Nat
    BY EventsAssumption DEF EventSet
  <2>4. \A e \in IdleEvents : e.at = 0
    BY DEF IdleEvents
  <2> QED
    BY <2>2, <2>3, <2>4
<1>3. ASSUME NEW t \in AllTurns, NEW i \in 1..Ended(t) PROVE files[t][i][1].at \in Nat
  <2>1. Recorded(t)[i] = files[t][i][1] /\ Recorded(t) \in Seq(EventSet) /\ Len(Recorded(t)) = Ended(t)
    BY RecordedIs
  <2>2. Recorded(t)[i] \in EventSet
    BY <2>1, ElementOfSeq
  <2> QED
    BY <2>1, <2>2, EventsAssumption DEF EventSet
<1> QED
  BY <1>1, <1>2, <1>3

\* The lines with an event, in other words.
LEMMA LinesAre ==
  ASSUME EventsTyped, LinesAreNumbered, NEW t \in AllTurns
  PROVE  /\ Len(files[t]) \in Nat \ {0} /\ Ended(t) \in Nat /\ Ended(t) <= Len(files[t])
         /\ \A i \in 1..Ended(t) : /\ Len(files[t][i]) = 1 /\ files[t][i] \in Seq(EventSet)
                                   /\ files[t][i][1].seq = i /\ files[t][i][1].turn = t
         /\ \A i \in (Ended(t) + 1)..Len(files[t]) : files[t][i] = <<>>
<1>1. /\ files[t] \in Seq(Seq(EventSet)) /\ Len(files[t]) \in 1..(MaxLines + 2)
      /\ Ended(t) \in 0..Len(files[t])
  BY RecordedIs DEF EventsTyped
<1>2. Len(files[t]) \in Nat \ {0} /\ Ended(t) \in Nat /\ Ended(t) <= Len(files[t])
  BY <1>1, EventsAssumption
<1>3. \A i \in 1..Len(files[t]) : files[t][i] \in Seq(EventSet) /\ Len(files[t][i]) = IF i <= Ended(t) THEN 1 ELSE 0
  BY <1>1, ElementOfSeq DEF LinesAreNumbered
<1>4. ASSUME NEW i \in 1..Ended(t) PROVE Len(files[t][i]) = 1 /\ files[t][i] \in Seq(EventSet)
  <2>1. i \in 1..Len(files[t]) /\ i <= Ended(t)
    BY <1>2
  <2> QED
    BY <1>3, <2>1
<1>5. ASSUME NEW i \in (Ended(t) + 1)..Len(files[t]) PROVE files[t][i] = <<>>
  <2>1. i \in 1..Len(files[t]) /\ ~(i <= Ended(t))
    BY <1>2
  <2>2. Len(files[t][i]) = 0 /\ files[t][i] \in Seq(EventSet)
    BY <1>3, <2>1
  <2> QED
    BY <2>2, EmptySeq
<1> QED
  BY <1>2, <1>4, <1>5 DEF LinesAreNumbered

\* Where the files and their writers are left alone, all that is said of them stays.
LEMMA OrderlySame ==
  ASSUME EventsTyped, Orderly, UNCHANGED <<files, writers>>, clock' >= clock, clock' \in Nat
  PROVE  /\ Orderly' /\ Ended(1)' = Ended(1) /\ (\A t \in AllTurns : Recorded(t)' = Recorded(t))
         /\ Entries' = Entries /\ AllEvents' = AllEvents /\ \A p \in Entries : RankOf(p)' = RankOf(p)
<1>1. \A t : Recorded(t)' = Recorded(t)
  BY DEF Recorded
<1>2. Entries' = Entries
  BY <1>1 DEF Entries
<1>3. \A t : Writing(t)' = Writing(t) /\ Ended(t)' = Ended(t)
  BY DEF Writing, Ended
<1>4. WritersApart' /\ NextIsNumbered'
  BY DEF Orderly, WritersApart, NextIsNumbered
<1>5. LinesAreNumbered'
  BY <1>3 DEF Orderly, LinesAreNumbered
<1>6. InTime'
  <2>a. \A w \in Writers : writers[w].event.at <= clock'
    <3> SUFFICES ASSUME NEW w \in Writers PROVE writers[w].event.at <= clock'
      OBVIOUS
    <3>1. writers[w].event.at <= clock
      BY DEF Orderly, InTime
    <3>2. writers[w].event.at \in Nat /\ clock \in Nat
      BY TimesAreNumbers DEF Orderly
    <3> QED
      BY <3>1, <3>2
  <2> SUFFICES ASSUME NEW t \in AllTurns, NEW i \in 1..Ended(t)
               PROVE  /\ files[t][i][1].at <= clock'
                      /\ \A w \in Writers : w[1] = t /\ writers[w].at # "idle"
                                               => files[t][i][1].at <= writers[w].event.at
    BY <1>3, <2>a DEF InTime
  <2>1. files[t][i][1].at <= clock
    BY DEF Orderly, InTime
  <2>2. files[t][i][1].at \in Nat /\ clock \in Nat
    BY TimesAreNumbers DEF Orderly
  <2>3. files[t][i][1].at <= clock'
    BY <2>1, <2>2
  <2> QED
    BY <2>3 DEF Orderly, InTime
<1> QED
  BY <1>1, <1>2, <1>3, <1>4, <1>5, <1>6 DEF Orderly, AllEvents, RankOf

\* A writer that has counted: its event is for the line that is open.
LEMMA CountsOrderly ==
  ASSUME EventsTyped, Orderly, NEW w \in Writers, NEW last \in BOOLEAN, Counts(w, last), ~crossed'
  PROVE  Orderly'
<1> DEFINE t == w[1]
           e == Event(t, Numbers(w), clock, last)
<1>1. /\ writers[w].at = "idle" /\ writers' = [writers EXCEPT ![w] = [at |-> "write", event |-> e]]
      /\ \A o \in Writers \ {w} : o[1] = t => writers[o].at = "idle"
      /\ UNCHANGED <<files, clock>>
  BY DEF Counts
<1>2. t \in AllTurns /\ writers \in [Writers -> WriterSet]
  BY WriterTurns DEF EventsTyped
<1>3. \A v \in Writers : writers'[v] = IF v = w THEN [at |-> "write", event |-> e] ELSE writers[v]
  BY <1>1, <1>2
<1>4. e.at = clock /\ e.seq = Numbers(w)
  BY DEF Event
<1> HIDE DEF e
<1>5. \A u \in AllTurns : Writing(u)' = Writing(u) /\ Ended(u)' = Ended(u)
  <2>1. \A v \in Writers : writers'[v].at = "end" <=> writers[v].at = "end"
    BY <1>1, <1>3
  <2> QED
    BY <1>1, <2>1 DEF Writing, Ended
<1>6. ~Writing(t)
  BY <1>1 DEF Writing
<1>7. Numbers(w) = Len(files[t])
  <2>1. Len(Recorded(t)) = Ended(t) /\ Len(files[t]) \in 1..(MaxLines + 2) /\ MaxLines \in Nat
    BY <1>2, RecordedIs, EventsAssumption DEF Orderly
  <2>2. Ended(t) = Len(files[t]) - 1
    BY <1>6 DEF Ended
  <2> QED
    BY <2>1, <2>2 DEF Numbers
<1>8. WritersApart'
  BY <1>1, <1>3 DEF Orderly, WritersApart
<1>9. LinesAreNumbered'
  BY <1>1, <1>5 DEF Orderly, LinesAreNumbered
<1>10. NextIsNumbered'
  BY <1>1, <1>3, <1>4, <1>7 DEF Orderly, NextIsNumbered
<1>11. InTime'
  <2>1. clock <= clock'
    BY <1>1 DEF EventsTyped
  <2>2. \A v \in Writers : writers'[v].event.at <= clock'
    BY <1>1, <1>3, <1>4, <2>1 DEF Orderly, InTime
  <2>3. ASSUME NEW u \in AllTurns, NEW i \in 1..Ended(u)
        PROVE  /\ files'[u][i][1].at <= clock'
               /\ \A v \in Writers : v[1] = u /\ writers'[v].at # "idle"
                                       => files'[u][i][1].at <= writers'[v].event.at
    BY <1>1, <1>3, <1>4 DEF Orderly, InTime
  <2> QED
    BY <1>5, <2>2, <2>3 DEF InTime
<1> QED
  BY <1>8, <1>9, <1>10, <1>11 DEF Orderly

\* The event is written: the file has one more, with the next number.
LEMMA TextOrderly ==
  ASSUME EventsTyped, EventsTyped', Orderly, NEW w \in Writers, WritesText(w)
  PROVE  /\ Orderly' /\ Ended(w[1])' = Ended(w[1]) + 1
         /\ Recorded(w[1])' = Append(Recorded(w[1]), writers[w].event)
         /\ \A u \in AllTurns : u # w[1] => Recorded(u)' = Recorded(u) /\ Ended(u)' = Ended(u)
         /\ \A i \in 1..Len(Recorded(w[1])) : Recorded(w[1])[i].at <= writers[w].event.at
<1> DEFINE t == w[1]
           e == writers[w].event
           n == Len(files[t])
<1>1. /\ writers[w].at = "write"
      /\ files' = [files EXCEPT ![t][n] = Append(@, e)]
      /\ writers' = [writers EXCEPT ![w].at = "end"]
      /\ UNCHANGED clock
  BY DEF WritesText
<1>2. e \in EventSet /\ t \in AllTurns /\ e.turn = t /\ e.seq = n
  BY <1>1, WriterIs, WriterTurns DEF EventsTyped, Orderly, NextIsNumbered
<1>3. /\ n \in Nat \ {0} /\ DOMAIN files[t] = 1..n /\ files[t] \in Seq(Seq(EventSet))
      /\ Len(files'[t]) = n /\ DOMAIN files'[t] = 1..n
  <2>1. /\ n \in 1..(MaxLines + 2) /\ DOMAIN files[t] = 1..n /\ files[t] \in Seq(Seq(EventSet))
    BY <1>2, LenProperties DEF EventsTyped
  <2>2. files'[t] \in Seq(Seq(EventSet)) /\ DOMAIN files'[t] = DOMAIN files[t]
    BY <1>1, <1>2 DEF EventsTyped
  <2>3. DOMAIN files'[t] = 1..Len(files'[t]) /\ Len(files'[t]) \in Nat
    BY <2>2, LenProperties
  <2>4. Len(files'[t]) = n
    BY <2>1, <2>2, <2>3
  <2> QED
    BY <2>1, <2>3, <2>4, EventsAssumption
<1>4. \A v \in Writers : /\ v # w => writers'[v] = writers[v]
                         /\ writers'[w].at = "end" /\ writers'[w].event = e
  <2>1. writers[w] \in WriterSet /\ writers \in [Writers -> WriterSet]
    BY DEF EventsTyped
  <2>2. [writers[w] EXCEPT !.at = "end"].at = "end" /\ [writers[w] EXCEPT !.at = "end"].event = e
    BY <2>1 DEF WriterSet
  <2>3. writers' = [writers EXCEPT ![w] = [writers[w] EXCEPT !.at = "end"]]
    BY <1>1, <2>1
  <2> QED
    BY <2>1, <2>2, <2>3
<1>5. \A v \in Writers : v # w /\ v[1] = t => writers[v].at = "idle"
  BY <1>1 DEF Orderly, WritersApart
<1>6. /\ ~Writing(t) /\ Writing(t)' /\ \A u \in AllTurns : u # t => Writing(u)' = Writing(u)
  BY <1>1, <1>4, <1>5 DEF Writing
<1>7. \A u \in AllTurns : u # t => files'[u] = files[u]
  BY <1>1 DEF EventsTyped
<1>8. Ended(t) = n - 1 /\ Ended(t)' = n /\ \A u \in AllTurns : u # t => Ended(u)' = Ended(u)
  BY <1>3, <1>6, <1>7 DEF Ended
<1>9. files[t][n] = <<>>
  <2>1. \A i \in (Ended(t) + 1)..Len(files[t]) : files[t][i] = <<>>
    BY <1>2, LinesAre DEF Orderly
  <2>2. n \in (Ended(t) + 1)..n
    BY <1>3, <1>8
  <2> QED
    BY <2>1, <2>2
<1>10. \A i \in 1..n : files'[t][i] = IF i = n THEN <<e>> ELSE files[t][i]
  <2>1. files'[t] = [files[t] EXCEPT ![n] = Append(@, e)]
    BY <1>1, <1>2 DEF EventsTyped
  <2>2. Append(<<>>, e) = <<e>>
    OBVIOUS
  <2> HIDE DEF n, e, t
  <2> QED
    BY <1>3, <1>9, <2>1, <2>2
<1> HIDE DEF e, n
<1>11. LinesAreNumbered'
  <2> SUFFICES ASSUME NEW u \in AllTurns
               PROVE  /\ \A i \in 1..Len(files'[u]) : Len(files'[u][i]) = IF i <= Ended(u)' THEN 1 ELSE 0
                      /\ \A i \in 1..Ended(u)' : files'[u][i][1].seq = i /\ files'[u][i][1].turn = u
    BY DEF LinesAreNumbered
  <2>1. CASE u # t
    <3>1. files'[u] = files[u] /\ Ended(u)' = Ended(u)
      BY <1>7, <1>8, <2>1
    <3> QED
      BY <3>1 DEF Orderly, LinesAreNumbered
  <2>2. CASE u = t
    <3>1. ASSUME NEW i \in 1..n
          PROVE  Len(files'[t][i]) = 1 /\ files'[t][i][1].seq = i /\ files'[t][i][1].turn = t
      <4>1. CASE i = n
        BY <1>2, <1>10, <4>1
      <4>2. CASE i # n
        <5>1. i \in 1..Ended(t)
          BY <1>3, <1>8, <4>2
        <5>2. Len(files[t][i]) = 1 /\ files[t][i][1].seq = i /\ files[t][i][1].turn = t
          BY <1>2, <5>1, LinesAre DEF Orderly
        <5> QED
          BY <1>10, <4>2, <5>2
      <4> QED
        BY <4>1, <4>2
    <3>2. Len(files'[u]) = n /\ Ended(u)' = n /\ \A i \in 1..n : i <= n
      BY <1>3, <1>8, <2>2
    <3> QED
      BY <2>2, <3>1, <3>2
  <2> QED
    BY <2>1, <2>2
<1>12. WritersApart' /\ NextIsNumbered'
  <2>1. \A v \in Writers : writers'[v].at # "idle" <=> writers[v].at # "idle"
    BY <1>1, <1>4
  <2>2. WritersApart'
    BY <2>1 DEF Orderly, WritersApart
  <2>3. ASSUME NEW v \in Writers, writers'[v].at = "write" PROVE writers'[v].event.seq = Len(files'[v[1]])
    <3>1. v # w /\ writers'[v] = writers[v]
      BY <1>4, <2>3
    <3>2. v[1] # t
      BY <1>5, <2>3, <3>1
    <3> QED
      BY <1>7, <2>3, <3>1, <3>2, WriterTurns DEF Orderly, NextIsNumbered
  <2> QED
    BY <2>2, <2>3 DEF NextIsNumbered
<1>13. (\A i \in 1..(n - 1) : files[t][i][1].at <= e.at) /\ e.at <= clock
  BY <1>1, <1>2, <1>8 DEF Orderly, InTime, e
<1>14. \A v \in Writers : writers'[v].event.at <= clock
  BY <1>4, <1>13 DEF Orderly, InTime
<1>15. InTime'
  <2> SUFFICES ASSUME NEW u \in AllTurns, NEW i \in 1..Ended(u)'
               PROVE  /\ files'[u][i][1].at <= clock
                      /\ \A v \in Writers : v[1] = u /\ writers'[v].at # "idle"
                                               => files'[u][i][1].at <= writers'[v].event.at
    BY <1>1, <1>14 DEF InTime
  <2>1. CASE u # t
    <3>1. files'[u] = files[u] /\ i \in 1..Ended(u)
      BY <1>7, <1>8, <2>1
    <3>2. \A v \in Writers : v[1] = u => writers'[v] = writers[v]
      BY <1>4, <2>1
    <3> QED
      BY <3>1, <3>2 DEF Orderly, InTime
  <2>2. CASE u = t /\ i = n
    <3>1. files'[u][i][1] = e
      BY <1>3, <1>10, <2>2
    <3>2. \A v \in Writers : v[1] = u /\ writers'[v].at # "idle" => v = w
      BY <1>4, <1>5, <2>2
    <3>3. e.at <= e.at
      BY <1>2, EventsAssumption DEF EventSet
    <3> QED
      BY <1>4, <1>13, <3>1, <3>2, <3>3
  <2>3. CASE u = t /\ i # n
    <3>1. i \in 1..(n - 1) /\ i \in 1..n
      BY <1>3, <1>8, <2>3
    <3>2. files'[u][i] = files[u][i] /\ i \in 1..Ended(u)
      BY <1>8, <1>10, <2>3, <3>1
    <3>3. \A v \in Writers : v[1] = u /\ writers'[v].at # "idle" => v = w
      BY <1>4, <1>5, <2>3
    <3> QED
      BY <1>4, <1>13, <2>3, <3>1, <3>2, <3>3 DEF Orderly, InTime
  <2> QED
    BY <2>1, <2>2, <2>3
<1>16. Orderly'
  BY <1>11, <1>12, <1>15 DEF Orderly
<1>17. RecordedFacts /\ RecordedFacts'
  BY <1>11, RecordedAll, RecordedAllNext DEF Orderly
<1>18. Recorded(t)' = Append(Recorded(t), e)
  <2>1. /\ Recorded(t) = [i \in 1..(n - 1) |-> files[t][i][1]] /\ Recorded(t) \in Seq(EventSet)
        /\ Len(Recorded(t)) = n - 1
        /\ Recorded(t)' = [i \in 1..n |-> files'[t][i][1]] /\ Recorded(t)' \in Seq(EventSet)
        /\ Len(Recorded(t)') = n
    BY <1>2, <1>8, <1>17 DEF RecordedFacts
  <2>2. /\ Append(Recorded(t), e) \in Seq(EventSet) /\ Len(Append(Recorded(t), e)) = (n - 1) + 1
        /\ \A i \in 1..(n - 1) : Append(Recorded(t), e)[i] = Recorded(t)[i]
        /\ Append(Recorded(t), e)[(n - 1) + 1] = e
    <3> DEFINE r == Recorded(t)
    <3>1. r \in Seq(EventSet) /\ e \in EventSet /\ Len(r) = n - 1
      BY <1>2, <2>1
    <3> HIDE DEF r
    <3>2. /\ Append(r, e) \in Seq(EventSet) /\ Len(Append(r, e)) = Len(r) + 1
          /\ \A i \in 1..Len(r) : Append(r, e)[i] = r[i]
          /\ Append(r, e)[Len(r) + 1] = e
      BY <3>1, AppendProperties
    <3> QED
      BY <3>1, <3>2 DEF r
  <2>3. (n - 1) + 1 = n
    BY <1>3
  <2>4. \A i \in 1..n : Recorded(t)'[i] = Append(Recorded(t), e)[i]
    <3> SUFFICES ASSUME NEW i \in 1..n PROVE files'[t][i][1] = Append(Recorded(t), e)[i]
      BY <2>1
    <3>1. CASE i = n
      BY <1>10, <2>2, <2>3, <3>1
    <3>2. CASE i # n
      <4>1. i \in 1..(n - 1)
        BY <1>3, <3>2
      <4>2. files'[t][i] = files[t][i] /\ Recorded(t)[i] = files[t][i][1]
        BY <1>10, <2>1, <3>2, <4>1
      <4>3. Append(Recorded(t), e)[i] = Recorded(t)[i]
        BY <2>2, <4>1
      <4> QED
        BY <4>2, <4>3
    <3> QED
      BY <3>1, <3>2
  <2> QED
    BY <2>1, <2>2, <2>3, <2>4, SeqEqual
<1>19. \A u \in AllTurns : u # t => Recorded(u)' = Recorded(u)
  BY <1>7 DEF Recorded
<1>20. \A i \in 1..Len(Recorded(t)) : Recorded(t)[i].at <= e.at
  <2>1. Recorded(t) = [i \in 1..(n - 1) |-> files[t][i][1]] /\ Len(Recorded(t)) = n - 1
    BY <1>2, <1>8, <1>17 DEF RecordedFacts
  <2> QED
    BY <1>13, <2>1
<1> QED
  BY <1>3, <1>8, <1>16, <1>18, <1>19, <1>20 DEF e

\* The line is ended: there is an empty one after it, for the next event.
LEMMA NewlineOrderly ==
  ASSUME EventsTyped, EventsTyped', Orderly, NEW w \in Writers, WritesNewline(w)
  PROVE  Orderly' /\ \A u \in AllTurns : Recorded(u)' = Recorded(u) /\ Ended(u)' = Ended(u)
<1> DEFINE t == w[1]
           n == Len(files[t])
<1>1. /\ writers[w].at = "end" /\ files' = [files EXCEPT ![t] = Append(@, <<>>)]
      /\ writers' = [writers EXCEPT ![w] = Quiet(t)] /\ UNCHANGED clock
  BY DEF WritesNewline
<1>2. t \in AllTurns /\ files[t] \in Seq(Seq(EventSet)) /\ n \in Nat \ {0} /\ <<>> \in Seq(EventSet)
  <2>1. n \in 1..(MaxLines + 2)
    BY WriterTurns DEF EventsTyped
  <2> QED
    BY <2>1, WriterTurns, EventsAssumption DEF EventsTyped
<1>3. /\ writers'[w].at = "idle" /\ writers'[w].event.at = 0
      /\ \A v \in Writers : v # w => writers'[v] = writers[v]
  BY <1>1 DEF EventsTyped, Quiet, Event
<1>4. \A v \in Writers : v # w /\ v[1] = t => writers[v].at = "idle"
  BY <1>1 DEF Orderly, WritersApart
<1>5. Writing(t) /\ ~Writing(t)' /\ \A u \in AllTurns : u # t => Writing(u)' = Writing(u)
  BY <1>1, <1>3, <1>4 DEF Writing
<1>6. /\ \A u \in AllTurns : u # t => files'[u] = files[u]
      /\ files'[t] = Append(files[t], <<>>)
  BY <1>1, <1>2 DEF EventsTyped
<1>7. /\ Len(files'[t]) = n + 1 /\ \A i \in 1..n : files'[t][i] = files[t][i]
      /\ files'[t][n + 1] = <<>>
  BY <1>2, <1>6, AppendProperties
<1> HIDE DEF n
<1>8. Ended(t) = n /\ Ended(t)' = n /\ \A u \in AllTurns : Ended(u)' = Ended(u)
  <2>1. Ended(t) = n
    BY <1>5 DEF Ended, n
  <2>2. Ended(t)' = (n + 1) - 1
    BY <1>5, <1>7 DEF Ended
  <2>3. (n + 1) - 1 = n
    BY <1>2 DEF n
  <2>4. \A u \in AllTurns : u # t => Ended(u)' = Ended(u)
    BY <1>5, <1>6 DEF Ended
  <2> QED
    BY <2>1, <2>2, <2>3, <2>4
<1>9. LinesAreNumbered'
  <2> SUFFICES ASSUME NEW u \in AllTurns
               PROVE  /\ \A i \in 1..Len(files'[u]) : Len(files'[u][i]) = IF i <= Ended(u)' THEN 1 ELSE 0
                      /\ \A i \in 1..Ended(u)' : files'[u][i][1].seq = i /\ files'[u][i][1].turn = u
    BY DEF LinesAreNumbered
  <2>1. CASE u # t
    <3>1. files'[u] = files[u] /\ Ended(u)' = Ended(u)
      BY <1>6, <1>8, <2>1
    <3> QED
      BY <3>1 DEF Orderly, LinesAreNumbered
  <2>2. CASE u = t
    <3>1. \A i \in 1..n : Len(files[t][i]) = 1 /\ files[t][i][1].seq = i /\ files[t][i][1].turn = t
      BY <1>2, <1>8, LinesAre DEF Orderly
    <3>2. ASSUME NEW i \in 1..(n + 1) PROVE Len(files'[t][i]) = IF i <= n THEN 1 ELSE 0
      <4>1. CASE i = n + 1
        BY <1>2, <1>7, <4>1
      <4>2. CASE i # n + 1
        <5>1. i \in 1..n /\ i <= n
          BY <1>2, <4>2
        <5> QED
          BY <1>7, <3>1, <5>1
      <4> QED
        BY <4>1, <4>2
    <3> QED
      BY <1>7, <1>8, <2>2, <3>1, <3>2
  <2> QED
    BY <2>1, <2>2
<1>10. WritersApart'
  BY <1>3 DEF Orderly, WritersApart
<1>11. NextIsNumbered'
  <2> SUFFICES ASSUME NEW v \in Writers, writers'[v].at = "write"
               PROVE  writers'[v].event.seq = Len(files'[v[1]])
    BY DEF NextIsNumbered
  <2>1. v # w /\ v[1] # t /\ writers'[v] = writers[v]
    BY <1>3, <1>4
  <2> QED
    BY <1>6, <2>1, WriterTurns DEF Orderly, NextIsNumbered
<1>12. InTime'
  <2>1. \A v \in Writers : writers'[v].event.at <= clock
    BY <1>3, EventsAssumption DEF Orderly, InTime, EventsTyped
  <2>2. ASSUME NEW u \in AllTurns, NEW i \in 1..Ended(u)'
        PROVE  /\ files'[u][i][1].at <= clock
               /\ \A v \in Writers : v[1] = u /\ writers'[v].at # "idle"
                                        => files'[u][i][1].at <= writers'[v].event.at
    <3>1. i \in 1..Ended(u) /\ files'[u][i] = files[u][i]
      BY <1>6, <1>7, <1>8
    <3> QED
      BY <1>3, <3>1 DEF Orderly, InTime
  <2> QED
    BY <1>1, <2>1, <2>2 DEF InTime
<1>13. RecordedFacts /\ RecordedFacts'
  BY <1>9, RecordedAll, RecordedAllNext DEF Orderly
<1>14. \A u \in AllTurns : Recorded(u)' = Recorded(u)
  <2> SUFFICES ASSUME NEW u \in AllTurns PROVE Recorded(u)' = Recorded(u)
    OBVIOUS
  <2>1. Recorded(u) = [i \in 1..Ended(u) |-> files[u][i][1]] /\ Recorded(u)' = [i \in 1..Ended(u) |-> files'[u][i][1]]
    BY <1>8, <1>13 DEF RecordedFacts
  <2>2. \A i \in 1..Ended(u) : files'[u][i] = files[u][i]
    BY <1>6, <1>7, <1>8
  <2> QED
    BY <2>1, <2>2
<1> QED
  BY <1>8, <1>9, <1>10, <1>11, <1>12, <1>14 DEF Orderly

\* A stretch of a sequence.
LEMMA Stretch ==
  ASSUME NEW S, NEW q \in Seq(S), NEW a \in Nat \ {0}, NEW b \in Nat, a <= b + 1, b <= Len(q)
  PROVE  /\ SubSeq(q, a, b) \in Seq(S) /\ Len(SubSeq(q, a, b)) = b - a + 1
         /\ \A k \in 1..(b - a + 1) : SubSeq(q, a, b)[k] = q[a + k - 1]
<1>1. Len(q) \in Nat /\ DOMAIN q = 1..Len(q) /\ \A i \in 1..Len(q) : q[i] \in S
  BY LenProperties
<1>2. \A i \in a..b : q[i] \in S
  BY <1>1
<1>3. /\ SubSeq(q, a, b) \in Seq(S) /\ Len(SubSeq(q, a, b)) = IF a <= b THEN b - a + 1 ELSE 0
      /\ \A k \in 1..(b - a + 1) : SubSeq(q, a, b)[k] = q[a + k - 1]
  BY <1>2, SubSeqProperties
<1>4. ~(a <= b) => b - a + 1 = 0
  OBVIOUS
<1> QED
  BY <1>3, <1>4

\* What is appended is no part of an earlier stretch.
LEMMA StretchOfAppend ==
  ASSUME NEW S, NEW q \in Seq(S), NEW e \in S,
         NEW a \in Nat \ {0}, NEW b \in Nat, a <= b + 1, b <= Len(q)
  PROVE  SubSeq(Append(q, e), a, b) = SubSeq(q, a, b)
<1> DEFINE r == Append(q, e)
           n == b - a + 1
<1>1. r \in Seq(S) /\ Len(r) = Len(q) + 1 /\ \A i \in 1..Len(q) : r[i] = q[i]
  BY AppendProperties
<1>2. Len(q) \in Nat /\ n \in Nat
  BY LenProperties
<1> HIDE DEF r
<1>3. b <= Len(r)
  BY <1>1, <1>2
<1>4. /\ SubSeq(q, a, b) \in Seq(S) /\ Len(SubSeq(q, a, b)) = n
      /\ \A k \in 1..n : SubSeq(q, a, b)[k] = q[a + k - 1]
  BY Stretch
<1>5. /\ SubSeq(r, a, b) \in Seq(S) /\ Len(SubSeq(r, a, b)) = n
      /\ \A k \in 1..n : SubSeq(r, a, b)[k] = r[a + k - 1]
  BY <1>1, <1>3, Stretch
<1>6. \A k \in 1..n : a + k - 1 \in 1..Len(q)
  BY <1>2
<1> HIDE DEF n
<1>7. \A k \in 1..n : SubSeq(r, a, b)[k] = SubSeq(q, a, b)[k]
  BY <1>1, <1>4, <1>5, <1>6
<1>8. SubSeq(r, a, b) = SubSeq(q, a, b)
  BY <1>4, <1>5, <1>7, SeqEqual
<1> QED
  BY <1>8 DEF r

\* Two stretches that meet.
LEMMA StretchesMeet ==
  ASSUME NEW S, NEW q \in Seq(S), NEW a \in Nat \ {0}, NEW k \in Nat, NEW n \in Nat,
         a <= k + 1, k <= n, n <= Len(q)
  PROVE  SubSeq(q, a, k) \o SubSeq(q, k + 1, n) = SubSeq(q, a, n)
<1>1. Len(q) \in Nat
  BY LenProperties
<1>2. a \in 1..(Len(q) + 1) /\ k \in (a - 1)..Len(q) /\ n \in k..Len(q)
  BY <1>1
<1> QED
  BY <1>2, ConcatAdjacentSubSeq

-----------------------------------------------------------------------------
(* The readers.                                                            *)

LEMMA FirstTurn == 1 \in AllTurns
BY EventsAssumption DEF AllTurns

\* What is known of the file that the stream is of.
LEMMA FirstRecorded ==
  ASSUME EventsTyped, Orderly
  PROVE  /\ Recorded(1) \in Seq(EventSet) /\ Len(Recorded(1)) = Ended(1) /\ Ended(1) \in Nat
         /\ \A i \in 1..Ended(1) : Recorded(1)[i].seq = i
         /\ attached.cursor \in Nat /\ attached.sent \in Nat
<1>1. Ended(1) \in Nat
  BY FirstTurn, LinesAre DEF Orderly
<1>2. attached.cursor \in Nat /\ attached.sent \in Nat
  BY EventsAssumption DEF EventsTyped, AttachedSet
<1> QED
  BY <1>1, <1>2, FirstTurn, RecordedIs DEF Orderly

\* Where no file has another event and no reader has moved, they follow as before.
LEMMA ReadersSame ==
  ASSUME StreamFollows, PollFollows, UNCHANGED <<attached, poller, jumped>>,
         \A t \in AllTurns : Recorded(t)' = Recorded(t) /\ Ended(t)' = Ended(t)
  PROVE  StreamFollows' /\ PollFollows'
<1>1. Entries' = Entries
  BY DEF Entries
<1>2. \A p : RankOf(p)' = RankOf(p)
  BY <1>1 DEF RankOf
<1>3. PollFollows'
  BY <1>1, <1>2 DEF PollFollows
<1>4. StreamFollows'
  BY FirstTurn DEF StreamFollows
<1> QED
  BY <1>3, <1>4

\* An event that is added to the file is after all that the stream has brought.
LEMMA TextKeepsStream ==
  ASSUME EventsTyped, EventsTyped', Orderly, StreamFollows, NEW w \in Writers, WritesText(w)
  PROVE  StreamFollows'
<1>1. UNCHANGED attached
  BY DEF WritesText
<1>2. CASE w[1] # 1
  <2>1. Recorded(1)' = Recorded(1) /\ Ended(1)' = Ended(1)
    BY <1>2, TextOrderly, FirstTurn
  <2> QED
    BY <1>1, <2>1 DEF StreamFollows
<1>3. CASE w[1] = 1
  <2> DEFINE q == Recorded(1)
             e == writers[w].event
             r == Append(q, e)
             c == attached.cursor
             n == attached.sent
  <2>1. Recorded(1)' = r /\ Ended(1)' = Ended(1) + 1
    BY <1>3, TextOrderly
  <2>2. e \in EventSet
    BY WriterIs DEF WritesText
  <2>3. q \in Seq(EventSet) /\ Len(q) = Ended(1) /\ Ended(1) \in Nat /\ c \in Nat /\ n \in Nat
    BY FirstRecorded
  <2>4. c <= Ended(1) /\ attached.shown = SubSeq(q, 1, c)
    BY DEF StreamFollows
  <2> HIDE DEF q, e
  <2>5. SubSeq(r, 1, c) = SubSeq(q, 1, c)
    <3>1. 1 \in Nat \ {0} /\ 1 <= c + 1 /\ c <= Len(q)
      BY <2>3, <2>4
    <3> QED
      BY <2>2, <2>3, <3>1, StretchOfAppend
  <2>6. ASSUME attached.at \in {"stream", "read"}
        PROVE  c <= n /\ n <= Ended(1) /\ attached.buffer = SubSeq(r, c + 1, n)
    <3>1. c <= n /\ n <= Ended(1) /\ attached.buffer = SubSeq(q, c + 1, n)
      BY <2>6 DEF StreamFollows, q
    <3>2. c + 1 \in Nat \ {0} /\ c + 1 <= n + 1 /\ n <= Len(q)
      BY <2>3, <3>1
    <3>3. SubSeq(r, c + 1, n) = SubSeq(q, c + 1, n)
      BY <2>2, <2>3, <3>2, StretchOfAppend
    <3> QED
      BY <3>1, <3>3
  <2> HIDE DEF r
  <2>7. c <= Ended(1) + 1 /\ (n <= Ended(1) => n <= Ended(1) + 1)
    BY <2>3, <2>4
  <2> QED
    BY <1>1, <2>1, <2>4, <2>5, <2>6, <2>7 DEF StreamFollows
<1> QED
  BY <1>2, <1>3

\* So is it in the list, unless another turn has one that is no older.
LEMMA TextKeepsPoll ==
  ASSUME EventsTyped, EventsTyped', Orderly, PollFollows, NEW w \in Writers, WritesText(w)
  PROVE  PollFollows'
<1> SUFFICES ASSUME ~jumped' PROVE PollFollows'
  BY DEF PollFollows
<1> DEFINE t == w[1]
           e == writers[w].event
           n == Ended(t) + 1
           new == <<t, n, e>>
<1>1. /\ ~jumped /\ UNCHANGED poller
      /\ \A s \in AllTurns \ {t} : \A i \in DOMAIN Recorded(s) : ~(Recorded(s)[i].at >= e.at)
  BY DEF WritesText
<1>2. t \in AllTurns /\ e \in EventSet /\ e.at \in Nat /\ t \in Nat
  <2>1. e \in EventSet
    BY WriterIs DEF WritesText
  <2> QED
    BY <2>1, WriterTurns, EventsAssumption DEF EventSet, AllTurns
<1>3. /\ Recorded(t)' = Append(Recorded(t), e)
      /\ \A u \in AllTurns : u # t => Recorded(u)' = Recorded(u)
      /\ \A i \in 1..Len(Recorded(t)) : Recorded(t)[i].at <= e.at
  BY TextOrderly
<1>4. /\ \A u \in AllTurns : Recorded(u) \in Seq(EventSet) /\ DOMAIN Recorded(u) = 1..Len(Recorded(u))
      /\ Len(Recorded(t)) = Ended(t) /\ Ended(t) \in Nat
  <2>1. \A u \in AllTurns : Recorded(u) \in Seq(EventSet)
    BY EntriesAre
  <2>2. \A u \in AllTurns : DOMAIN Recorded(u) = 1..Len(Recorded(u))
    BY <2>1, LenProperties
  <2>3. Len(Recorded(t)) = Ended(t) /\ Ended(t) \in Nat
    BY <1>2, RecordedIs, LinesAre DEF Orderly
  <2> QED
    BY <2>1, <2>2, <2>3
<1>5. /\ DOMAIN Recorded(t)' = 1..n /\ Recorded(t)'[n] = e
      /\ \A i \in 1..Ended(t) : Recorded(t)'[i] = Recorded(t)[i]
  <2> DEFINE q == Recorded(t)
             r == Append(q, e)
  <2>1. q \in Seq(EventSet) /\ Len(q) = Ended(t)
    BY <1>2, <1>4
  <2>2. r = Recorded(t)'
    BY <1>3
  <2> HIDE DEF q, e
  <2>3. /\ r \in Seq(EventSet) /\ Len(r) = Len(q) + 1 /\ r[Len(q) + 1] = e
        /\ \A i \in 1..Len(q) : r[i] = q[i]
    BY <1>2, <2>1, AppendProperties
  <2>4. DOMAIN r = 1..Len(r)
    BY <2>3, LenProperties
  <2> HIDE DEF r
  <2> QED
    BY <2>1, <2>2, <2>3, <2>4 DEF q
<1> HIDE DEF e, n
<1>6. Entries' = Entries \cup {new}
  <2>1. \A u \in AllTurns : u # t =>
          {<<u, i, Recorded(u)'[i]>> : i \in DOMAIN Recorded(u)'} = {<<u, i, Recorded(u)[i]>> : i \in DOMAIN Recorded(u)}
    BY <1>3
  <2>2. {<<t, i, Recorded(t)'[i]>> : i \in DOMAIN Recorded(t)'}
          = {<<t, i, Recorded(t)[i]>> : i \in DOMAIN Recorded(t)} \cup {new}
    <3>1. DOMAIN Recorded(t) = 1..Ended(t) /\ 1..n = (1..Ended(t)) \cup {n}
      BY <1>2, <1>4 DEF n
    <3> QED
      BY <1>5, <3>1
  <2>3. Entries' = UNION {{<<u, i, Recorded(u)'[i]>> : i \in DOMAIN Recorded(u)'} : u \in AllTurns}
    BY DEF Entries
  <2>4. Entries = UNION {{<<u, i, Recorded(u)[i]>> : i \in DOMAIN Recorded(u)} : u \in AllTurns}
    BY DEF Entries
  <2> DEFINE before(u) == {<<u, i, Recorded(u)[i]>> : i \in DOMAIN Recorded(u)}
             grown(u) == {<<u, i, Recorded(u)'[i]>> : i \in DOMAIN Recorded(u)'}
  <2>5. /\ \A u \in AllTurns : u # t => grown(u) = before(u)
        /\ grown(t) = before(t) \cup {new}
        /\ Entries' = UNION {grown(u) : u \in AllTurns} /\ Entries = UNION {before(u) : u \in AllTurns}
    BY <2>1, <2>2, <2>3, <2>4
  <2> HIDE DEF before, grown, new
  <2> QED
    BY <1>2, <2>5
<1>7. \A p \in Entries : Precedes(p, new) /\ ~Precedes(new, p)
  <2> SUFFICES ASSUME NEW p \in Entries PROVE Precedes(p, new) /\ ~Precedes(new, p)
    OBVIOUS
  <2>1. /\ p[1] \in AllTurns /\ p[2] \in 1..Len(Recorded(p[1])) /\ p[3] \in EventSet
        /\ p = <<p[1], p[2], Recorded(p[1])[p[2]]>>
    BY EntriesAre
  <2>2. p[3].at \in Nat /\ p[1] \in Nat /\ p[3] = Recorded(p[1])[p[2]]
    BY <2>1, EventsAssumption DEF EventSet, AllTurns
  <2>3. CASE p[1] = t
    <3>1. p[3].at <= e.at /\ p[2] \in 1..Ended(t)
      BY <1>3, <1>4, <2>1, <2>2, <2>3 DEF e
    <3>2. p[2] < n /\ p[2] \in Nat /\ n \in Nat
      BY <1>4, <3>1 DEF n
    <3> QED
      BY <1>2, <2>2, <2>3, <3>1, <3>2 DEF Precedes, ListedBefore
  <2>4. CASE p[1] # t
    <3>1. p[2] \in DOMAIN Recorded(p[1])
      BY <1>4, <2>1
    <3>2. ~(p[3].at >= e.at)
      BY <1>1, <2>1, <2>2, <2>4, <3>1 DEF e
    <3>3. p[3].at < e.at
      BY <1>2, <2>2, <3>2
    <3> QED
      BY <1>2, <2>2, <3>3 DEF Precedes, ListedBefore
  <2> QED
    BY <2>3, <2>4
<1>8. new \notin Entries /\ ~Precedes(new, new)
  <2>1. n \in Nat
    BY <1>4 DEF n
  <2>2. ~Precedes(new, new)
    BY <1>2, <2>1 DEF Precedes, ListedBefore
  <2> QED
    BY <1>7, <2>2
<1> HIDE DEF new
<1>9. ASSUME NEW p \in Entries PROVE RankOf(p)' = RankOf(p)
  <2>1. {q \in Entries' : Precedes(q, p)} = {q \in Entries : Precedes(q, p)}
    BY <1>6, <1>7
  <2>2. RankOf(p)' = Cardinality({q \in Entries' : Precedes(q, p)})
    BY DEF RankOf, Precedes, ListedBefore
  <2> QED
    BY <2>1, <2>2 DEF RankOf
<1>10. Cardinality({q \in Entries' : Precedes(q, new)}) = Cardinality(Entries)
  <2>1. {q \in Entries' : Precedes(q, new)} = Entries
    BY <1>6, <1>7, <1>8
  <2> QED
    BY <2>1
<1>11. Cardinality(Entries') = Cardinality(Entries) + 1 /\ Cardinality(Entries) \in Nat
  <2>1. IsFiniteSet(Entries)
    BY EntriesAre
  <2> QED
    BY <1>6, <1>8, <2>1, FS_AddElement, FS_CardinalityType
<1>12. poller.cursor <= Cardinality(Entries) /\ poller.cursor \in Nat
       /\ \A p \in Entries : RankOf(p) < poller.cursor => IdOf(p[3]) \in poller.shown
  BY <1>1 DEF PollFollows, EventsTyped
<1>13. poller.cursor <= Cardinality(Entries')
  BY <1>11, <1>12
<1>14. ASSUME NEW p \in Entries', Cardinality({q \in Entries' : Precedes(q, p)}) < poller.cursor
       PROVE  IdOf(p[3]) \in poller.shown
  <2>1. p # new
    <3>1. p = new => Cardinality(Entries) < poller.cursor
      BY <1>10, <1>14
    <3>2. ~(Cardinality(Entries) < poller.cursor)
      BY <1>11, <1>12
    <3> QED
      BY <3>1, <3>2
  <2>2. p \in Entries
    BY <1>6, <2>1
  <2>3. {q \in Entries' : Precedes(q, p)} = {q \in Entries : Precedes(q, p)}
    BY <1>6, <1>7, <2>2
  <2>4. RankOf(p) < poller.cursor
    BY <1>14, <2>3 DEF RankOf
  <2> QED
    BY <1>12, <2>2, <2>4
<1> QED
  BY <1>1, <1>13, <1>14 DEF PollFollows, RankOf, Precedes, ListedBefore, IdOf

\* The steps of the client that is attached.
LEMMA AsksFollows ==
  ASSUME EventsTyped, Orderly, StreamFollows, Asks
  PROVE  StreamFollows'
<1>1. /\ attached' = [attached EXCEPT !.at = "stream", !.sent = attached.cursor, !.buffer = <<>>]
      /\ attached \in AttachedSet /\ UNCHANGED <<files, writers>>
  BY DEF Asks, EventsTyped
<1>2. Recorded(1)' = Recorded(1) /\ Ended(1)' = Ended(1)
  BY <1>1 DEF Recorded, Ended, Writing
<1>3. attached.cursor \in Nat /\ Ended(1) \in Nat
  BY FirstRecorded
<1>4. SubSeq(Recorded(1), attached.cursor + 1, attached.cursor) = <<>>
  BY <1>3, SubSeqEmpty
<1>5. /\ attached'.cursor = attached.cursor /\ attached'.sent = attached.cursor /\ attached'.buffer = <<>>
      /\ attached'.shown = attached.shown
  BY <1>1 DEF AttachedSet
<1>6. attached.cursor <= attached.cursor
  BY <1>3
<1> QED
  BY <1>2, <1>4, <1>5, <1>6 DEF StreamFollows

LEMMA SendsFollows ==
  ASSUME EventsTyped, Orderly, StreamFollows, Sends
  PROVE  StreamFollows'
<1> DEFINE q == Recorded(1)
           c == attached.cursor
           n == attached.sent
           m == Ended(1)
           new == After(q, n)
<1>1. /\ attached.at = "stream" /\ attached \in AttachedSet /\ UNCHANGED <<files, writers>>
      /\ \E at \in {"read", "stream"} :
           attached' = [attached EXCEPT !.at = at, !.sent = SentUpTo(n, new), !.buffer = @ \o new]
  BY DEF Sends, EventsTyped
<1>2. q \in Seq(EventSet) /\ Len(q) = m /\ m \in Nat /\ c \in Nat /\ n \in Nat /\ \A i \in 1..m : q[i].seq = i
  BY FirstRecorded
<1>3. c <= n /\ n <= m /\ attached.buffer = SubSeq(q, c + 1, n) /\ attached.shown = SubSeq(q, 1, c)
  BY <1>1 DEF StreamFollows
<1>4. new = SubSeq(q, n + 1, m)
  <2>1. n \in 0..Ended(1)
    BY <1>2, <1>3
  <2> QED
    BY <2>1, FirstTurn, AfterIs DEF Orderly
<1> HIDE DEF q, m, new, c, n
<1>5. attached.buffer \o new = SubSeq(q, c + 1, m)
  <2>1. c + 1 \in Nat \ {0} /\ c + 1 <= n + 1 /\ m <= Len(q)
    BY <1>2, <1>3
  <2> QED
    BY <1>2, <1>3, <1>4, <2>1, StretchesMeet
<1>6. SentUpTo(n, new) = m
  <2>1. n + 1 \in Nat \ {0} /\ n + 1 <= m + 1 /\ m <= Len(q)
    BY <1>2, <1>3
  <2>2. /\ new \in Seq(EventSet) /\ Len(new) = m - (n + 1) + 1
        /\ \A k \in 1..(m - (n + 1) + 1) : new[k] = q[(n + 1) + k - 1]
    BY <1>2, <1>4, <2>1, Stretch
  <2>3. CASE n = m
    <3>1. Len(new) = 0
      BY <1>2, <2>2, <2>3
    <3> QED
      BY <2>2, <2>3, <3>1, EmptySeq DEF SentUpTo
  <2>4. CASE n # m
    <3>1. Len(new) = m - n /\ m - n \in 1..(m - (n + 1) + 1) /\ (n + 1) + (m - n) - 1 = m /\ m \in 1..m
      BY <1>2, <1>3, <2>2, <2>4
    <3>2. new[Len(new)] = q[m] /\ q[m].seq = m
      BY <1>2, <2>2, <3>1
    <3>3. new # <<>>
      BY <1>2, <1>3, <2>4, <3>1
    <3> QED
      BY <3>2, <3>3 DEF SentUpTo
  <2> QED
    BY <2>3, <2>4
<1>7. /\ attached'.cursor = c /\ attached'.sent = m /\ attached'.buffer = SubSeq(q, c + 1, m)
      /\ attached'.shown = attached.shown
  BY <1>1, <1>5, <1>6 DEF AttachedSet, c
<1>8. q' = q /\ m' = m
  BY <1>1 DEF Recorded, Ended, Writing, q, m
<1>9. c <= m /\ m <= m
  BY <1>2, <1>3
<1> QED
  BY <1>3, <1>7, <1>8, <1>9 DEF StreamFollows, q, m, c

LEMMA TakesFollows ==
  ASSUME EventsTyped, Orderly, StreamFollows, Takes
  PROVE  StreamFollows'
<1> DEFINE q == Recorded(1)
           c == attached.cursor
           n == attached.sent
           m == Ended(1)
           s == attached.shown
           b == attached.buffer
<1>1. /\ attached.at = "read" /\ attached \in AttachedSet /\ UNCHANGED <<files, writers>>
      /\ \E at \in {"done", "asks"} :
           attached' = [attached EXCEPT !.at = at, !.cursor = MaxSeq(b, @), !.shown = ShowAll(s, b), !.buffer = <<>>]
  BY DEF Takes, EventsTyped
<1>2. q \in Seq(EventSet) /\ Len(q) = m /\ m \in Nat /\ c \in Nat /\ n \in Nat /\ \A i \in 1..m : q[i].seq = i
  BY FirstRecorded
<1>3. c <= n /\ n <= m /\ b = SubSeq(q, c + 1, n) /\ s = SubSeq(q, 1, c)
  BY <1>1 DEF StreamFollows
<1>a. c \in 0..(MaxLines + 1)
  BY <1>1 DEF AttachedSet
<1> HIDE DEF q, m, s, b, c, n
<1>4. s \in Seq(EventSet) /\ Len(s) = c /\ \A k \in 1..c : s[k].seq = k
  <2>1. 1 \in Nat \ {0} /\ 1 <= c + 1 /\ c <= Len(q)
    BY <1>2, <1>3
  <2>2. s \in Seq(EventSet) /\ Len(s) = c - 1 + 1 /\ \A k \in 1..(c - 1 + 1) : s[k] = q[1 + k - 1]
    BY <1>2, <1>3, <2>1, Stretch
  <2>3. c - 1 + 1 = c /\ \A k \in 1..c : 1 + k - 1 = k /\ k \in 1..m
    BY <1>2, <1>3
  <2> QED
    BY <1>2, <2>2, <2>3
<1>5. b \in Seq(EventSet) /\ Len(b) = n - c /\ \A k \in 1..(n - c) : b[k].seq = c + k
  <2>1. c + 1 \in Nat \ {0} /\ c + 1 <= n + 1 /\ n <= Len(q)
    BY <1>2, <1>3
  <2>2. /\ b \in Seq(EventSet) /\ Len(b) = n - (c + 1) + 1
        /\ \A k \in 1..(n - (c + 1) + 1) : b[k] = q[(c + 1) + k - 1]
    BY <1>2, <1>3, <2>1, Stretch
  <2>3. n - (c + 1) + 1 = n - c /\ \A k \in 1..(n - c) : (c + 1) + k - 1 = c + k /\ c + k \in 1..m
    BY <1>2, <1>3
  <2> QED
    BY <1>2, <2>2, <2>3
<1>6. ShowAll(s, b) = SubSeq(q, 1, n)
  <2>1. \A i \in 1..Len(s) : \A j \in 1..Len(b) : s[i].seq # b[j].seq
    <3> SUFFICES ASSUME NEW i \in 1..Len(s), NEW j \in 1..Len(b) PROVE s[i].seq # b[j].seq
      OBVIOUS
    <3>1. s[i].seq = i /\ i \in 1..c
      BY <1>4
    <3>2. b[j].seq = c + j /\ j \in 1..(n - c)
      BY <1>5
    <3>3. i # c + j
      BY <1>2, <3>1, <3>2
    <3> QED
      BY <3>1, <3>2, <3>3
  <2>2. \A i, j \in 1..Len(b) : b[i].seq = b[j].seq => i = j
    <3> SUFFICES ASSUME NEW i \in 1..Len(b), NEW j \in 1..Len(b), b[i].seq = b[j].seq PROVE i = j
      OBVIOUS
    <3>1. b[i].seq = c + i /\ b[j].seq = c + j /\ i \in Nat /\ j \in Nat
      BY <1>2, <1>5
    <3>2. c + i = c + j
      BY <3>1
    <3> QED
      BY <1>2, <3>1, <3>2
  <2>3. ShowAll(s, b) = s \o b
    BY <1>4, <1>5, <2>1, <2>2, ShowAllIs
  <2>4. 1 \in Nat \ {0} /\ 1 <= c + 1 /\ c <= n /\ n <= Len(q)
    BY <1>2, <1>3
  <2>5. SubSeq(q, 1, c) \o SubSeq(q, c + 1, n) = SubSeq(q, 1, n)
    BY <1>2, <2>4, StretchesMeet
  <2> QED
    BY <1>3, <2>3, <2>5
<1>7. MaxSeq(b, c) = n
  <2>1. /\ MaxSeq(b, c) \in {c} \cup {b[i].seq : i \in 1..Len(b)}
        /\ c <= MaxSeq(b, c) /\ \A i \in 1..Len(b) : b[i].seq <= MaxSeq(b, c)
    BY <1>5, <1>a, MaxSeqTyped
  <2>2. \A i \in 1..Len(b) : b[i].seq = c + i /\ i \in Nat /\ i <= n - c
    BY <1>2, <1>5
  <2>3. MaxSeq(b, c) \in Nat /\ MaxSeq(b, c) <= n
    <3>1. CASE MaxSeq(b, c) = c
      BY <1>2, <1>3, <3>1
    <3>2. CASE MaxSeq(b, c) # c
      <4>1. PICK i \in 1..Len(b) : MaxSeq(b, c) = b[i].seq
        BY <2>1, <3>2
      <4>2. MaxSeq(b, c) = c + i /\ i \in Nat /\ i <= n - c
        BY <2>2, <4>1
      <4> QED
        BY <1>2, <4>2
    <3> QED
      BY <3>1, <3>2
  <2>4. n <= MaxSeq(b, c)
    <3>1. CASE n = c
      BY <2>1, <3>1
    <3>2. CASE n # c
      <4>1. n - c \in 1..Len(b) /\ n - c \in 1..(n - c) /\ c + (n - c) = n
        BY <1>2, <1>3, <1>5, <3>2
      <4>2. b[n - c].seq = n
        BY <1>5, <4>1
      <4> QED
        BY <2>1, <4>1, <4>2
    <3> QED
      BY <3>1, <3>2
  <2> QED
    BY <1>2, <2>3, <2>4
<1>8. attached'.at \in {"done", "asks"} /\ attached'.cursor = n /\ attached'.shown = SubSeq(q, 1, n)
  BY <1>1, <1>6, <1>7 DEF AttachedSet, c
<1>9. q' = q /\ m' = m
  BY <1>1 DEF Recorded, Ended, Writing, q, m
<1> QED
  BY <1>3, <1>8, <1>9 DEF StreamFollows, q, m

LEMMA EndsFollows ==
  ASSUME EventsTyped, Orderly, StreamFollows, LosesConnection \/ AttachesAgain
  PROVE  StreamFollows'
<1>1. attached \in AttachedSet /\ UNCHANGED <<files, writers>>
  BY DEF LosesConnection, AttachesAgain, EventsTyped
<1>2. Recorded(1)' = Recorded(1) /\ Ended(1)' = Ended(1)
  BY <1>1 DEF Recorded, Ended, Writing
<1>3. CASE LosesConnection
  <2>1. attached'.at = "done" /\ attached'.cursor = attached.cursor /\ attached'.shown = attached.shown
    BY <1>1, <1>3 DEF LosesConnection, AttachedSet
  <2> QED
    BY <1>2, <2>1 DEF StreamFollows
<1>4. CASE AttachesAgain
  <2>1. attached'.at = "asks" /\ attached'.cursor = 0 /\ attached'.shown = <<>>
    BY <1>1, <1>4 DEF AttachesAgain, AttachedSet
  <2>2. SubSeq(Recorded(1), 1, 0) = <<>>
    BY SubSeqEmpty
  <2>3. 0 <= Ended(1)
    BY FirstRecorded
  <2> QED
    BY <1>2, <2>1, <2>2, <2>3 DEF StreamFollows
<1> QED
  BY <1>3, <1>4

-----------------------------------------------------------------------------
\* The poller has seen the list up to where its cursor is.
LEMMA PollsTyped == ASSUME EventsTyped, Polls PROVE EventsTyped'
<1> DEFINE all == AllEvents
           c == poller.cursor
           more == {IdOf(all[k]) : k \in (c + 1)..Len(all)}
<1>1. /\ poller' = [cursor |-> Len(all), shown |-> poller.shown \cup more]
      /\ UNCHANGED <<files, clock, writers, attached, client, tears, crossed, jumped>>
  BY DEF Polls
<1>2. /\ Len(all) \in Nat
      /\ \A k \in 1..Len(all) : \E p \in Entries : all[k] = p[3]
  <2>1. /\ Cardinality(Entries) \in Nat /\ Len(all) = Cardinality(Entries)
        /\ \A p \in Entries : all[RankOf(p) + 1] = p[3]
        /\ \A k \in 1..Cardinality(Entries) : \E p \in Entries : RankOf(p) + 1 = k
    BY AllEventsIs
  <2> HIDE DEF all
  <2> QED
    BY <2>1
<1>3. poller \in [cursor : Nat, shown : SUBSET (AllTurns \X Nat)]
  BY DEF EventsTyped
<1> HIDE DEF all
<1>4. ASSUME NEW k \in (c + 1)..Len(all) PROVE IdOf(all[k]) \in AllTurns \X Nat
  <2>1. k \in 1..Len(all)
    BY <1>2, <1>3
  <2>2. PICK p \in Entries : all[k] = p[3]
    BY <1>2, <2>1
  <2>3. p[3] \in EventSet
    BY EntriesAre
  <2> QED
    BY <2>2, <2>3, EventsAssumption DEF IdOf, EventSet
<1>5. more \subseteq AllTurns \X Nat
  BY <1>4
<1> HIDE DEF more
<1>6. poller' \in [cursor : Nat, shown : SUBSET (AllTurns \X Nat)]
  BY <1>1, <1>2, <1>3, <1>5
<1>7. attached' \in AttachedSet /\ jumped' \in BOOLEAN
  BY <1>1 DEF EventsTyped
<1> QED
  BY <1>1, <1>6, <1>7, EventsTypedSame

LEMMA TakesPayloadTyped ==
  ASSUME EventsTyped, NEW t \in AllTurns, TakesPayload(t)
  PROVE  EventsTyped'
<1> DEFINE q == Recorded(t)
           more == {IdOf(q[i]) : i \in DOMAIN q}
<1>1. /\ poller' = [cursor |-> MaxSeq(q, poller.cursor), shown |-> poller.shown \cup more]
      /\ jumped' = TRUE /\ UNCHANGED <<files, clock, writers, attached, client, tears, crossed>>
  BY DEF TakesPayload
<1>2. poller \in [cursor : Nat, shown : SUBSET (AllTurns \X Nat)]
  BY DEF EventsTyped
<1>3. q \in Seq(EventSet)
  BY EntriesAre
<1>4. DOMAIN q = 1..Len(q) /\ \A i \in 1..Len(q) : q[i] \in EventSet
  BY <1>3, LenProperties
<1>5. MaxSeq(q, poller.cursor) \in Nat
  BY <1>2, <1>3, MaxSeqNat
<1>6. \A e \in EventSet : IdOf(e) \in AllTurns \X Nat
  BY EventsAssumption DEF IdOf, EventSet
<1>7. more \subseteq AllTurns \X Nat
  BY <1>4, <1>6
<1> HIDE DEF q, more
<1>8. poller' \in [cursor : Nat, shown : SUBSET (AllTurns \X Nat)]
  BY <1>1, <1>2, <1>5, <1>7
<1>9. attached' \in AttachedSet /\ jumped' \in BOOLEAN
  BY <1>1 DEF EventsTyped
<1> QED
  BY <1>1, <1>8, <1>9, EventsTypedSame

LEMMA PollsFollows ==
  ASSUME EventsTyped, Orderly, PollFollows, Polls
  PROVE  PollFollows'
<1> SUFFICES ASSUME ~jumped' PROVE PollFollows'
  BY DEF PollFollows
<1> DEFINE all == AllEvents
           c == poller.cursor
           n == Cardinality(Entries)
           more == {IdOf(all[k]) : k \in (c + 1)..Len(all)}
<1>1. /\ poller' = [cursor |-> Len(all), shown |-> poller.shown \cup more] /\ ~jumped
      /\ UNCHANGED <<files, writers>>
  BY DEF Polls
<1>2. /\ n \in Nat /\ Len(all) = n
      /\ \A p \in Entries : RankOf(p) + 1 \in 1..n /\ all[RankOf(p) + 1] = p[3]
  BY AllEventsIs
<1>3. c \in Nat /\ \A p \in Entries : RankOf(p) < c => IdOf(p[3]) \in poller.shown
  BY <1>1 DEF EventsTyped, PollFollows
<1>4. Entries' = Entries /\ \A p : RankOf(p)' = RankOf(p)
  <2>1. Entries' = Entries
    BY <1>1 DEF Entries, Recorded
  <2> QED
    BY <2>1 DEF RankOf
<1>5. \A p \in Entries : RankOf(p) \in Nat
  BY EntriesAre, FS_Subset, FS_CardinalityType DEF RankOf
<1> HIDE DEF all, c, n
<1>6. ASSUME NEW p \in Entries, RankOf(p) < n PROVE IdOf(p[3]) \in poller.shown \cup more
  <2>1. CASE RankOf(p) < c
    BY <1>3, <2>1
  <2>2. CASE ~(RankOf(p) < c)
    <3>1. RankOf(p) + 1 \in (c + 1)..Len(all)
      BY <1>2, <1>3, <1>5, <2>2
    <3>2. all[RankOf(p) + 1] = p[3]
      BY <1>2
    <3> QED
      BY <3>1, <3>2
  <2> QED
    BY <2>1, <2>2
<1> HIDE DEF more
<1>7. poller'.cursor = n /\ poller'.shown = poller.shown \cup more /\ n <= n
  BY <1>1, <1>2
<1> QED
  BY <1>4, <1>6, <1>7 DEF PollFollows, n

-----------------------------------------------------------------------------
\* Each step keeps the types.
LEMMA EventsStepTyped == ASSUME EventsTyped, [EventsNext]_eventsVars PROVE EventsTyped'
<1>1. CASE UNCHANGED eventsVars
  BY <1>1 DEF EventsTyped, eventsVars
<1>2. ASSUME NEW w \in Writers, NEW last \in BOOLEAN, Counts(w, last) PROVE EventsTyped'
  BY <1>2, CountsTyped
<1>3. ASSUME NEW w \in Writers, WritesText(w) \/ WritesNewline(w) \/ Tears(w) PROVE EventsTyped'
  BY <1>3, TextTyped, NewlineTyped, TearsTyped
<1>4. CASE Tick \/ Follows \/ Polls
  BY <1>4, TickTyped, FollowsTyped, PollsTyped
<1>5. ASSUME NEW t \in AllTurns, TakesPayload(t) PROVE EventsTyped'
  BY <1>5, TakesPayloadTyped
<1> QED
  BY <1>1, <1>2, <1>3, <1>4, <1>5 DEF EventsNext

\* A writer that counts leaves the files and the readers alone.
LEMMA CountsFollows ==
  ASSUME Orderly, StreamFollows, PollFollows, NEW w \in Writers, NEW last \in BOOLEAN, Counts(w, last)
  PROVE  StreamFollows' /\ PollFollows'
<1>1. /\ writers[w].at = "idle" /\ UNCHANGED <<files, attached, poller, jumped>>
      /\ \E e : writers' = [writers EXCEPT ![w] = [at |-> "write", event |-> e]]
  BY DEF Counts
<1>2. \A v \in Writers : writers'[v].at = "end" <=> writers[v].at = "end"
  BY <1>1
<1>3. \A t \in AllTurns : Recorded(t)' = Recorded(t) /\ Ended(t)' = Ended(t)
  BY <1>1, <1>2 DEF Recorded, Ended, Writing
<1> QED
  BY <1>1, <1>3, ReadersSame

\* Each step keeps the order of the files and their readers in step.
LEMMA EventsStep == ASSUME EventsInv, [EventsNext]_eventsVars PROVE EventsInv'
<1>1. EventsTyped /\ EventsTyped'
  BY EventsStepTyped DEF EventsInv
<1> SUFFICES ASSUME Undisturbed' PROVE Orderly' /\ StreamFollows' /\ PollFollows'
  BY <1>1 DEF EventsInv
<1>2. CASE UNCHANGED eventsVars
  <2>1. Undisturbed
    BY <1>2 DEF Undisturbed, eventsVars
  <2>2. Orderly /\ StreamFollows /\ PollFollows /\ UNCHANGED <<files, writers, attached, poller, jumped, clock>>
    BY <1>2, <2>1 DEF EventsInv, eventsVars
  <2>3. clock' >= clock /\ clock' \in Nat
    BY <1>1, <2>2, EventsAssumption DEF EventsTyped
  <2>4. Orderly' /\ \A t \in AllTurns : Recorded(t)' = Recorded(t)
    BY <1>1, <2>2, <2>3, OrderlySame
  <2>5. \A t \in AllTurns : Ended(t)' = Ended(t)
    BY <2>2 DEF Ended, Writing
  <2> QED
    BY <2>2, <2>4, <2>5, ReadersSame
<1>3. CASE EventsNext
  <2>1. Undisturbed
    BY <1>1, <1>3, DisturbedStays
  <2>2. Orderly /\ StreamFollows /\ PollFollows
    BY <2>1 DEF EventsInv
  <2>3. ASSUME NEW w \in Writers, NEW last \in BOOLEAN, Counts(w, last)
        PROVE  Orderly' /\ StreamFollows' /\ PollFollows'
    BY <1>1, <2>2, <2>3, CountsOrderly, CountsFollows DEF Undisturbed
  <2>4. ASSUME NEW w \in Writers, WritesText(w) PROVE Orderly' /\ StreamFollows' /\ PollFollows'
    BY <1>1, <2>2, <2>4, TextOrderly, TextKeepsStream, TextKeepsPoll
  <2>5. ASSUME NEW w \in Writers, WritesNewline(w) PROVE Orderly' /\ StreamFollows' /\ PollFollows'
    <3>1. UNCHANGED <<attached, poller, jumped>>
      BY <2>5 DEF WritesNewline
    <3> QED
      BY <1>1, <2>2, <2>5, <3>1, NewlineOrderly, ReadersSame
  <2>6. ASSUME NEW w \in Writers, Tears(w) PROVE FALSE
    <3>1. tears' = tears + 1 /\ tears \in Nat /\ tears' = 0
      BY <1>1, <2>6 DEF Tears, EventsTyped, Undisturbed
    <3> QED
      BY <3>1
  <2>7. CASE Tick \/ Follows \/ Polls \/ \E t \in AllTurns : TakesPayload(t)
    <3>1. UNCHANGED <<files, writers>> /\ (clock' = clock \/ clock' = clock + 1)
      BY <2>7 DEF Tick, Follows, Polls, TakesPayload, Asks, Sends, Takes, LosesConnection, AttachesAgain
    <3>2. clock' >= clock /\ clock' \in Nat
      BY <1>1, <3>1, EventsAssumption DEF EventsTyped
    <3>3. Orderly' /\ \A t \in AllTurns : Recorded(t)' = Recorded(t)
      BY <1>1, <2>2, <3>1, <3>2, OrderlySame
    <3>4. \A t \in AllTurns : Ended(t)' = Ended(t)
      BY <3>1 DEF Ended, Writing
    <3>5. Entries' = Entries /\ \A p : RankOf(p)' = RankOf(p)
      <4>1. Entries' = Entries
        BY <3>3 DEF Entries
      <4> QED
        BY <4>1 DEF RankOf
    <3>6. attached' = attached => StreamFollows'
      BY <2>2, <3>3, <3>4, FirstTurn DEF StreamFollows
    <3>7. poller' = poller /\ jumped' = jumped => PollFollows'
      BY <2>2, <3>5 DEF PollFollows
    <3>8. CASE Tick
      BY <3>3, <3>6, <3>7, <3>8 DEF Tick
    <3>9. CASE Follows
      <4>1. poller' = poller /\ jumped' = jumped
        BY <3>9 DEF Follows, Asks, Sends, Takes, LosesConnection, AttachesAgain
      <4>2. StreamFollows'
        BY <1>1, <2>2, <3>9, AsksFollows, SendsFollows, TakesFollows, EndsFollows DEF Follows
      <4> QED
        BY <3>3, <3>7, <4>1, <4>2
    <3>10. CASE Polls
      <4>1. attached' = attached
        BY <3>10 DEF Polls
      <4> QED
        BY <1>1, <2>2, <3>3, <3>6, <3>10, <4>1, PollsFollows
    <3>11. ASSUME NEW t \in AllTurns, TakesPayload(t) PROVE Orderly' /\ StreamFollows' /\ PollFollows'
      <4>1. attached' = attached /\ jumped' = TRUE
        BY <3>11 DEF TakesPayload
      <4>2. PollFollows'
        BY <4>1 DEF PollFollows
      <4> QED
        BY <3>3, <3>6, <4>1, <4>2
    <3> QED
      BY <2>7, <3>8, <3>9, <3>10, <3>11
  <2> QED
    BY <1>3, <2>3, <2>4, <2>5, <2>6, <2>7 DEF EventsNext
<1> QED
  BY <1>2, <1>3

LEMMA EventsStart == EventsInit => EventsInv
<1> SUFFICES ASSUME EventsInit PROVE EventsInv
  OBVIOUS
<1>1. EventsTyped
  BY EventsInitTyped
<1>2. \A w \in Writers : writers[w].at = "idle" /\ writers[w].event.at = 0
  BY DEF EventsInit, Quiet, Event
<1>3. \A t \in AllTurns : /\ files[t] = << <<>> >> /\ Len(files[t]) = 1 /\ ~Writing(t) /\ Ended(t) = 0
                          /\ files[t][1] = <<>>
  BY <1>2 DEF EventsInit, Writing, Ended
<1>4. WritersApart /\ NextIsNumbered
  BY <1>2 DEF WritersApart, NextIsNumbered
<1>5. LinesAreNumbered
  BY <1>3 DEF LinesAreNumbered
<1>6. InTime
  <2>1. clock = 1 /\ 0 <= 1
    BY DEF EventsInit
  <2> QED
    BY <1>2, <1>3, <2>1 DEF InTime
<1>7. Orderly
  BY <1>4, <1>5, <1>6 DEF Orderly
<1>8. /\ attached.at = "asks" /\ attached.cursor = 0 /\ attached.shown = <<>>
      /\ poller.cursor = 0 /\ poller.shown = {}
  BY DEF EventsInit
<1>9. StreamFollows
  <2>1. SubSeq(Recorded(1), 1, 0) = <<>> /\ 0 <= 0
    BY SubSeqEmpty
  <2> QED
    BY <1>3, <1>8, <2>1, FirstTurn DEF StreamFollows
<1>10. PollFollows
  <2>1. IsFiniteSet(Entries)
    BY <1>1, EntriesAre
  <2>2. Cardinality(Entries) \in Nat
    BY <2>1, FS_CardinalityType
  <2>3. \A p \in Entries : RankOf(p) \in Nat
    BY <2>1, FS_Subset, FS_CardinalityType DEF RankOf
  <2> QED
    BY <1>8, <2>2, <2>3 DEF PollFollows
<1> QED
  BY <1>1, <1>7, <1>9, <1>10 DEF EventsInv

LEMMA EventsAreTyped == ASSUME EventsTyped PROVE EventsTypeOK
<1>1. \A t \in AllTurns : Len(files[t]) \in 1..(MaxLines + 3)
  <2>1. \A t \in AllTurns : Len(files[t]) \in 1..(MaxLines + 2)
    BY DEF EventsTyped
  <2>2. 1..(MaxLines + 2) \subseteq 1..(MaxLines + 3)
    BY EventsAssumption
  <2> QED
    BY <2>1, <2>2
<1>2. attached.cursor \in 0..(MaxLines + 2) /\ attached.at \in {"asks", "stream", "read", "done"}
  BY EventsAssumption DEF EventsTyped, AttachedSet
<1>3. \A w \in Writers : writers[w].at \in {"idle", "write", "end"}
  BY DEF EventsTyped, WriterSet
<1> QED
  BY <1>1, <1>2, <1>3 DEF EventsTyped, EventsTypeOK

LEMMA NothingIsLost == ASSUME EventsInv PROVE StreamsLoseNothing
<1> SUFFICES ASSUME ~crossed, tears = 0
             PROVE  /\ attached.shown \o After(Recorded(1), attached.cursor) = Recorded(1)
                    /\ attached.at \in {"stream", "read"} =>
                         attached.shown \o attached.buffer \o After(Recorded(1), attached.sent) = Recorded(1)
                    /\ ~jumped => \A k \in 1..poller.cursor : IdOf(AllEvents[k]) \in poller.shown
  BY DEF StreamsLoseNothing
<1>1. EventsTyped /\ Orderly /\ StreamFollows /\ PollFollows
  BY DEF EventsInv, Undisturbed
<1> DEFINE q == Recorded(1)
           c == attached.cursor
           n == attached.sent
           m == Ended(1)
<1>2. q \in Seq(EventSet) /\ Len(q) = m /\ m \in Nat /\ c \in Nat /\ n \in Nat
  BY <1>1, FirstRecorded
<1>3. c <= m /\ attached.shown = SubSeq(q, 1, c)
  BY <1>1 DEF StreamFollows
<1>4. \A k \in 0..m : After(q, k) = SubSeq(q, k + 1, m)
  BY <1>1, FirstTurn, AfterIs DEF Orderly
<1> HIDE DEF q, c, n, m
<1>5. \A k \in 0..m : SubSeq(q, 1, k) \o SubSeq(q, k + 1, m) = q
  <2> SUFFICES ASSUME NEW k \in 0..m PROVE SubSeq(q, 1, k) \o SubSeq(q, k + 1, m) = q
    OBVIOUS
  <2>1. 1 \in Nat \ {0} /\ 1 <= k + 1 /\ k <= m /\ m <= Len(q) /\ k \in Nat
    BY <1>2
  <2>2. SubSeq(q, 1, k) \o SubSeq(q, k + 1, m) = SubSeq(q, 1, m)
    BY <1>2, <2>1, StretchesMeet
  <2>3. SubSeq(q, 1, Len(q)) = q
    BY <1>2, SubSeqFull
  <2> QED
    BY <1>2, <2>2, <2>3
<1>6. attached.shown \o After(q, c) = q
  <2>1. c \in 0..m
    BY <1>2, <1>3
  <2> QED
    BY <1>3, <1>4, <1>5, <2>1
<1>7. ASSUME attached.at \in {"stream", "read"} PROVE attached.shown \o attached.buffer \o After(q, n) = q
  <2>1. c <= n /\ n <= m /\ attached.buffer = SubSeq(q, c + 1, n)
    BY <1>1, <1>7 DEF StreamFollows, q, c, n, m
  <2>2. 1 \in Nat \ {0} /\ 1 <= c + 1 /\ c <= n /\ n <= Len(q)
    BY <1>2, <2>1
  <2>3. SubSeq(q, 1, c) \o SubSeq(q, c + 1, n) = SubSeq(q, 1, n)
    BY <1>2, <2>2, StretchesMeet
  <2>4. n \in 0..m
    BY <1>2, <2>1
  <2> QED
    BY <1>3, <1>4, <1>5, <2>1, <2>3, <2>4
<1>8. ASSUME ~jumped, NEW k \in 1..poller.cursor PROVE IdOf(AllEvents[k]) \in poller.shown
  <2>1. /\ Cardinality(Entries) \in Nat
        /\ \A p \in Entries : AllEvents[RankOf(p) + 1] = p[3]
        /\ \A j \in 1..Cardinality(Entries) : \E p \in Entries : RankOf(p) + 1 = j
    BY <1>1, AllEventsIs
  <2>2. /\ poller.cursor \in Nat /\ poller.cursor <= Cardinality(Entries)
        /\ \A p \in Entries : RankOf(p) < poller.cursor => IdOf(p[3]) \in poller.shown
    BY <1>1, <1>8 DEF EventsTyped, PollFollows
  <2>3. PICK p \in Entries : RankOf(p) + 1 = k
    BY <2>1, <2>2
  <2>4. RankOf(p) \in Nat
    BY <1>1, EntriesAre, FS_Subset, FS_CardinalityType DEF RankOf
  <2>5. RankOf(p) < poller.cursor
    BY <2>2, <2>3, <2>4
  <2>6. AllEvents[k] = p[3]
    BY <2>1, <2>3
  <2> QED
    BY <2>2, <2>5, <2>6
<1> QED
  BY <1>6, <1>7, <1>8 DEF q, c, n

LEMMA EventsInvariant == EventsSpec => []EventsInv
<1>1. EventsInit => EventsInv
  BY EventsStart
<1>2. EventsInv /\ [EventsNext]_eventsVars => EventsInv'
  BY EventsStep
<1> QED
  BY <1>1, <1>2, PTL DEF EventsSpec

\* The event files, their writers and their readers keep their types
\* (append_bridge_events, write_live_sse_response, poll_bridge_events).
THEOREM EventsTypeCorrect == EventsSpec => []EventsTypeOK
<1>1. EventsInv => EventsTypeOK
  BY EventsAreTyped DEF EventsInv
<1> QED
  BY <1>1, EventsInvariant, PTL

\* Whoever attaches to a turn gets its events in order with none missing and
\* none twice, over any number of streams and however many writes come between
\* two looks at the file; whoever polls the list was shown all of it up to its
\* cursor. For any number of turns and events.
THEOREM StreamsAreWhole == EventsSpec => []StreamsLoseNothing
<1>1. EventsInv => StreamsLoseNothing
  BY NothingIsLost
<1> QED
  BY <1>1, EventsInvariant, PTL
=============================================================================
