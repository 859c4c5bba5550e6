------------------------- MODULE FileArtifactsProofs ------------------------
(***************************************************************************)
(* What FileArtifacts promises holds for any number of artifacts,          *)
(* producers and cleanups, and any number of claims of the job.            *)
(*                                                                         *)
(* The argument: an artifact has one producer in its life, the one that    *)
(* reserved it.  The row stays pending under the lock that a producer or   *)
(* a reclaiming cleanup holds, and only under that lock does the object    *)
(* appear, or a file of a pending row go.  So the object a producer finds  *)
(* in place when it seals is the one it wrote and synced, and the files    *)
(* are gone when a row is marked as removed.                               *)
(***************************************************************************)
EXTENDS FileArtifacts, FiniteSetTheorems, TLAPS

-----------------------------------------------------------------------------
(* The inductive invariant, in parts.                                      *)

\* The tables, the files and the processes keep their shape.
Shapes ==
    /\ DOMAIN row = Artifacts /\ \A a \in Artifacts : DOMAIN row[a] = DOMAIN NoRow
    /\ DOMAIN lease = Artifacts /\ DOMAIN retention = Artifacts
    /\ DOMAIN staging = Artifacts /\ DOMAIN object = Artifacts
    /\ DOMAIN lock = Artifacts /\ DOMAIN told = Artifacts
    /\ DOMAIN producer = Producers /\ \A p \in Producers : DOMAIN producer[p] = DOMAIN Idle
    /\ DOMAIN cleaner = Cleaners /\ \A c \in Cleaners : DOMAIN cleaner[c] = DOMAIN Idle
    /\ DOMAIN job = {"token", "live"}

\* The phases in which a producer, or a cleanup, holds the lock of its row.
Locking == {"created", "locked", "renamed", "limbo", "unstaging", "unlinking", "unlinked"}
Reclaiming == {"unstaging", "unlinking", "unlinked"}

\* The phases in which a producer holds the job to its claim.
Publishing == {"locked", "renamed", "limbo"}

\* What the files of a producer's artifact are in its phase: a slow producer
\* may find its staging file reclaimed, and never finds another one.
Staged(phase, a) ==
    /\ phase \in {"created", "writing"} => staging[a] \in {"partial", "none"}
    /\ phase = "written" => staging[a] \in {"written", "none"}
    /\ phase \in {"produced", "ready", "locked"} => staging[a] \in {"synced", "none"}
    /\ phase \in {"renamed", "limbo"} => staging[a] = "none" /\ object[a] = "synced"
    /\ phase \in {"unlinking", "unlinked"} => staging[a] = "none"
    /\ phase = "unlinked" => object[a] = "none"

\* A producer's artifact is unpublished, and nobody was told a result yet.  A
\* publication in progress keeps the job's claim as it was checked.
Producing(p, a) ==
    /\ row[a].state \in {"pending", "removed"}
    /\ told[a] \in {None, "unknown"} /\ (producer[p].phase = "limbo" => told[a] = "unknown")
    /\ producer[p].phase \in Locking => lock[a] = p /\ row[a].state = "pending"
    /\ Staged(producer[p].phase, a)
    /\ producer[p].phase \in Publishing =>
         ClaimLive(a) /\ (row[a].purpose = "job_output" => p \in sharing)

ProducesFor(p, a) == producer[p].phase # "idle" /\ producer[p].artifact = a

Productions ==
    /\ \A p \in Producers : producer[p].phase # "idle" => producer[p].artifact \in Artifacts
    /\ \A p \in Producers, a \in Artifacts : ProducesFor(p, a) => Producing(p, a)

\* An artifact has one producer.
OneProducer ==
    \A a \in Artifacts : \A p, q \in Producers : ProducesFor(p, a) /\ ProducesFor(q, a) => p = q

Cleaning(c, a) ==
    /\ cleaner[c].phase \in {"expired", "marking"} \cup Reclaiming
    /\ cleaner[c].phase \in {"expired", "marking"} => row[a].state \in {"expired", "removed"}
    /\ cleaner[c].phase = "marking" => object[a] = "none"
    /\ cleaner[c].phase \in Reclaiming => lock[a] = c /\ row[a].state = "pending"
    /\ cleaner[c].phase \in {"unlinking", "unlinked"} => staging[a] = "none"
    /\ cleaner[c].phase = "unlinked" => object[a] = "none"

CleansUp(c, a) == cleaner[c].phase # "idle" /\ cleaner[c].artifact = a

Cleanings ==
    /\ \A c \in Cleaners : cleaner[c].phase # "idle" => cleaner[c].artifact \in Artifacts
    /\ \A c \in Cleaners, a \in Artifacts : CleansUp(c, a) => Cleaning(c, a)

\* What a row says about its files, and about what was told.
Sound(a) ==
    /\ row[a].state = "available" => object[a] = "synced"
    /\ row[a].state # "pending" => staging[a] = "none"
    /\ row[a].state \in {"absent", "removed"} => object[a] = "none"
    /\ row[a].state = "absent" => told[a] = None
    /\ told[a] = "sealed" => \/ row[a].state = "available"
                             \/ row[a].state \in {"expired", "removed"} /\ retention[a] = "overdue"
    /\ told[a] \in {"failed", "lost"} => row[a].state \in {"pending", "removed"}

IInv == Shapes /\ Productions /\ OneProducer /\ Cleanings /\ \A a \in Artifacts : Sound(a)

-----------------------------------------------------------------------------
(* Steps at one artifact.                                                  *)

\* An artifact that a step does not touch.
Same(b) ==
    /\ row'[b] = row[b] /\ retention'[b] = retention[b] /\ lock'[b] = lock[b]
    /\ staging'[b] = staging[b] /\ object'[b] = object[b] /\ told'[b] = told[b]

\* What becomes of a producer when artifact a changes.
ProducerAfter(p, a) ==
    \/ producer'[p].phase = "idle"
    \/ producer'[p] = producer[p] /\ ~ProducesFor(p, a) /\ (p \in sharing => p \in sharing')
    \/ producer'[p].artifact = a /\ Producing(p, a)'

CleanerAfter(c, a) ==
    \/ cleaner'[c].phase = "idle"
    \/ cleaner'[c] = cleaner[c] /\ ~CleansUp(c, a)
    \/ cleaner'[c].artifact = a /\ Cleaning(c, a)'

\* A step that changes one artifact is judged by the processes that work on it.
LEMMA OneArtifact ==
    ASSUME IInv, NEW a \in Artifacts, Shapes', job' = job,
           \A b \in Artifacts \ {a} : Same(b), Sound(a)',
           \A p \in Producers : ProducerAfter(p, a),
           \A p, q \in Producers : ProducesFor(p, a)' /\ ProducesFor(q, a)' => p = q,
           \A c \in Cleaners : CleanerAfter(c, a)
    PROVE  IInv'
<1>1. Productions'
  <2>1. ASSUME NEW p \in Producers, producer'[p].phase # "idle"
        PROVE  producer'[p].artifact \in Artifacts
    BY Zenon, <2>1 DEF IInv, Productions, ProducerAfter, ProducesFor
  <2>2. ASSUME NEW p \in Producers, NEW b \in Artifacts, ProducesFor(p, b)'
        PROVE  Producing(p, b)'
    <3>1. CASE b = a
      BY Zenon, <2>2, <3>1 DEF ProducerAfter, ProducesFor
    <3>2. CASE b # a
      <4>1. producer'[p] = producer[p] /\ ProducesFor(p, b) /\ (p \in sharing => p \in sharing')
        BY Zenon, <2>2, <3>2 DEF ProducerAfter, ProducesFor
      <4>2. Producing(p, b) /\ Same(b)
        BY Zenon, <4>1, <3>2 DEF IInv, Productions
      <4> QED  BY Zenon, <4>1, <4>2 DEF Producing, Staged, Same, ClaimLive
    <3> QED  BY Zenon, <3>1, <3>2
  <2> QED  BY Zenon, <2>1, <2>2 DEF Productions
<1>2. OneProducer'
  BY DEF IInv, OneProducer, ProducerAfter, ProducesFor
<1>3. Cleanings'
  <2>1. ASSUME NEW c \in Cleaners, cleaner'[c].phase # "idle"
        PROVE  cleaner'[c].artifact \in Artifacts
    BY Zenon, <2>1 DEF IInv, Cleanings, CleanerAfter, CleansUp
  <2>2. ASSUME NEW c \in Cleaners, NEW b \in Artifacts, CleansUp(c, b)'
        PROVE  Cleaning(c, b)'
    <3>1. CASE b = a
      BY Zenon, <2>2, <3>1 DEF CleanerAfter, CleansUp
    <3>2. CASE b # a
      <4>1. cleaner'[c] = cleaner[c] /\ CleansUp(c, b)
        BY Zenon, <2>2, <3>2 DEF CleanerAfter, CleansUp
      <4>2. Cleaning(c, b) /\ Same(b)
        BY Zenon, <4>1, <3>2 DEF IInv, Cleanings
      <4> QED  BY Zenon, <4>1, <4>2 DEF Cleaning, Same
    <3> QED  BY Zenon, <3>1, <3>2
  <2> QED  BY Zenon, <2>1, <2>2 DEF Cleanings
<1>4. \A b \in Artifacts : Sound(b)'
  <2> SUFFICES ASSUME NEW b \in Artifacts, b # a PROVE Sound(b)'
    BY Zenon
  <2>1. Same(b) /\ Sound(b)
    BY Zenon DEF IInv
  <2> QED  BY Zenon, <2>1 DEF Sound, Same
<1> QED  BY Zenon, <1>1, <1>2, <1>3, <1>4 DEF IInv

\* What a step of a producer leaves alone.
Frame(p, a) ==
    /\ Shapes' /\ job' = job /\ cleaner' = cleaner
    /\ \A b \in Artifacts \ {a} : Same(b)
    /\ \A q \in Producers \ {p} : producer'[q] = producer[q] /\ (q \in sharing => q \in sharing')

\* A cleanup notices nothing of the step.
Gentle(a) ==
    /\ row'[a] = row[a] /\ lock'[a] = lock[a] /\ object'[a] = object[a]
    /\ staging[a] = "none" => staging'[a] = "none"

\* No cleanup works on the artifact.
Alone(a) == row[a].state = "pending" /\ lock[a] \in Producers \cup {None}

LEMMA ProducerStep ==
    ASSUME IInv, NEW p \in Producers, NEW a \in Artifacts, ProducesFor(p, a), Frame(p, a),
           Alone(a) \/ Gentle(a), Sound(a)',
           producer'[p].phase = "idle" \/ (producer'[p].artifact = a /\ Producing(p, a)')
    PROVE  IInv'
<1>1. \A q \in Producers : ProducerAfter(q, a)
  <2> SUFFICES ASSUME NEW q \in Producers, q # p PROVE ProducerAfter(q, a)
    BY Zenon DEF ProducerAfter
  <2> QED  BY Zenon DEF ProducerAfter, IInv, OneProducer, Frame
<1>2. \A c \in Cleaners : CleanerAfter(c, a)
  <2> SUFFICES ASSUME NEW c \in Cleaners, CleansUp(c, a) PROVE CleanerAfter(c, a)
    BY Zenon DEF CleanerAfter, Frame
  <2>1. Cleaning(c, a)
    BY Zenon DEF IInv, Cleanings
  <2>2. ~Alone(a)
    BY Zenon, <2>1, ProcessAssumption DEF Cleaning, Alone
  <2> QED  BY Zenon, <2>1, <2>2 DEF Gentle, Cleaning, CleanerAfter, CleansUp, Frame
<1>3. \A o, q \in Producers : ProducesFor(o, a)' /\ ProducesFor(q, a)' => o = q
  BY Zenon DEF ProducesFor, IInv, OneProducer, Frame
<1> QED  BY Zenon, <1>1, <1>2, <1>3, OneArtifact DEF Frame

-----------------------------------------------------------------------------
(* The steps of a producer.                                                *)

USE DEF files, locks, clocks

LEMMA CreatePartStep ==
    ASSUME IInv, NEW p \in Producers, CreatePart(p)
    PROVE  IInv'
<1>0. PICK a \in Artifacts : a = producer[p].artifact /\ ProducesFor(p, a) /\ Producing(p, a) /\ Sound(a)
  BY Zenon DEF IInv, Productions, ProducesFor, CreatePart
<1> USE <1>0 DEF CreatePart, Goes, Returns, Idle, Owned
<1>1. Frame(p, a)  BY Zenon DEF Frame, IInv, Shapes, Same, NoRow
<1>2. producer'[p].phase = "idle" \/ (producer'[p].artifact = a /\ Producing(p, a)')
  BY DEF IInv, Shapes, Producing, Staged, Locking, Publishing, ClaimLive
<1>3. Sound(a)'  BY Zenon DEF IInv, Shapes, Sound, Producing, Locking, Staged, NoRow
<1>4. Alone(a) \/ Gentle(a)  BY Zenon DEF IInv, Shapes, Alone, Gentle, Producing, Locking
<1> QED  BY Zenon, <1>1, <1>2, <1>3, <1>4, ProducerStep

LEMMA PartCommitsStep ==
    ASSUME IInv, NEW p \in Producers, PartCommits(p)
    PROVE  IInv'
<1>0. PICK a \in Artifacts : a = producer[p].artifact /\ ProducesFor(p, a) /\ Producing(p, a) /\ Sound(a)
  BY Zenon DEF IInv, Productions, ProducesFor, PartCommits
<1> USE <1>0 DEF PartCommits, Goes, Returns, Idle, Unlocks
<1>1. Frame(p, a)  BY Zenon DEF Frame, IInv, Shapes, Same, NoRow
<1>2. producer'[p].phase = "idle" \/ (producer'[p].artifact = a /\ Producing(p, a)')
  BY DEF IInv, Shapes, Producing, Staged, Locking, Publishing, ClaimLive
<1>3. Sound(a)'  BY Zenon DEF IInv, Shapes, Sound, Producing, Locking, Staged, NoRow
<1>4. Alone(a) \/ Gentle(a)  BY Zenon DEF IInv, Shapes, Alone, Gentle, Producing, Locking
<1> QED  BY Zenon, <1>1, <1>2, <1>3, <1>4, ProducerStep

LEMMA WriteStep ==
    ASSUME IInv, NEW p \in Producers, Write(p)
    PROVE  IInv'
<1>0. PICK a \in Artifacts : a = producer[p].artifact /\ ProducesFor(p, a) /\ Producing(p, a) /\ Sound(a)
  BY Zenon DEF IInv, Productions, ProducesFor, Write
<1> USE <1>0 DEF Write, Goes, Returns, Idle
<1>1. Frame(p, a)  BY Zenon DEF Frame, IInv, Shapes, Same, NoRow
<1>2. producer'[p].phase = "idle" \/ (producer'[p].artifact = a /\ Producing(p, a)')
  BY Zenon DEF IInv, Shapes, Producing, Staged, Locking, Publishing, ClaimLive
<1>3. Sound(a)'  BY Zenon DEF IInv, Shapes, Sound, Producing, Locking, Staged, NoRow
<1>4. Alone(a) \/ Gentle(a)  BY Zenon DEF IInv, Shapes, Alone, Gentle, Producing, Locking
<1> QED  BY Zenon, <1>1, <1>2, <1>3, <1>4, ProducerStep

LEMMA SyncStep ==
    ASSUME IInv, NEW p \in Producers, Sync(p)
    PROVE  IInv'
<1>0. PICK a \in Artifacts : a = producer[p].artifact /\ ProducesFor(p, a) /\ Producing(p, a) /\ Sound(a)
  BY Zenon DEF IInv, Productions, ProducesFor, Sync
<1> USE <1>0 DEF Sync, Goes, Returns, Idle, AfterSync
<1>1. Frame(p, a)  BY Zenon DEF Frame, IInv, Shapes, Same, NoRow
<1>2. producer'[p].phase = "idle" \/ (producer'[p].artifact = a /\ Producing(p, a)')
  BY Zenon DEF IInv, Shapes, Producing, Staged, Locking, Publishing, ClaimLive
<1>3. Sound(a)'  BY Zenon DEF IInv, Shapes, Sound, Producing, Locking, Staged, NoRow
<1>4. Alone(a) \/ Gentle(a)  BY Zenon DEF IInv, Shapes, Alone, Gentle, Producing, Locking
<1> QED  BY Zenon, <1>1, <1>2, <1>3, <1>4, ProducerStep

LEMMA InspectStep ==
    ASSUME IInv, NEW p \in Producers, Inspect(p)
    PROVE  IInv'
<1>0. PICK a \in Artifacts : a = producer[p].artifact /\ ProducesFor(p, a) /\ Producing(p, a) /\ Sound(a)
  BY Zenon DEF IInv, Productions, ProducesFor, Inspect
<1> USE <1>0 DEF Inspect, Goes, Returns, Idle, Owned
<1>1. Frame(p, a)  BY Zenon DEF Frame, IInv, Shapes, Same, NoRow
<1>2. producer'[p].phase = "idle" \/ (producer'[p].artifact = a /\ Producing(p, a)')
  BY Zenon DEF IInv, Shapes, Producing, Staged, Locking, Publishing, ClaimLive
<1>3. Sound(a)'  BY Zenon DEF IInv, Shapes, Sound, Producing, Locking, Staged, NoRow
<1>4. Alone(a) \/ Gentle(a)  BY Zenon DEF IInv, Shapes, Alone, Gentle, Producing, Locking
<1> QED  BY Zenon, <1>1, <1>2, <1>3, <1>4, ProducerStep

LEMMA ProductionFailsStep ==
    ASSUME IInv, NEW p \in Producers, ProductionFails(p)
    PROVE  IInv'
<1>0. PICK a \in Artifacts : a = producer[p].artifact /\ ProducesFor(p, a) /\ Producing(p, a) /\ Sound(a)
  BY Zenon DEF IInv, Productions, ProducesFor, ProductionFails
<1> USE <1>0 DEF ProductionFails, Goes, Returns, Idle
<1>1. Frame(p, a)  BY Zenon DEF Frame, IInv, Shapes, Same, NoRow
<1>2. producer'[p].phase = "idle" \/ (producer'[p].artifact = a /\ Producing(p, a)')
  BY Zenon DEF IInv, Shapes, Producing, Staged, Locking, Publishing, ClaimLive
<1>3. Sound(a)'  BY Zenon DEF IInv, Shapes, Sound, Producing, Locking, Staged, NoRow
<1>4. Alone(a) \/ Gentle(a)  BY Zenon DEF IInv, Shapes, Alone, Gentle, Producing, Locking
<1> QED  BY Zenon, <1>1, <1>2, <1>3, <1>4, ProducerStep

LEMMA LosesLeaseStep ==
    ASSUME IInv, NEW p \in Producers, LosesLease(p)
    PROVE  IInv'
<1>0. PICK a \in Artifacts : a = producer[p].artifact /\ ProducesFor(p, a) /\ Producing(p, a) /\ Sound(a)
  BY Zenon DEF IInv, Productions, ProducesFor, LosesLease
<1> USE <1>0 DEF LosesLease, Goes, Returns, Idle, Owned
<1>1. Frame(p, a)  BY Zenon DEF Frame, IInv, Shapes, Same, NoRow
<1>2. producer'[p].phase = "idle" \/ (producer'[p].artifact = a /\ Producing(p, a)')
  BY Zenon DEF IInv, Shapes, Producing, Staged, Locking, Publishing, ClaimLive
<1>3. Sound(a)'  BY Zenon DEF IInv, Shapes, Sound, Producing, Locking, Staged, NoRow
<1>4. Alone(a) \/ Gentle(a)  BY Zenon DEF IInv, Shapes, Alone, Gentle, Producing, Locking
<1> QED  BY Zenon, <1>1, <1>2, <1>3, <1>4, ProducerStep

LEMMA SealLockStep ==
    ASSUME IInv, NEW p \in Producers, SealLock(p)
    PROVE  IInv'
<1>0. PICK a \in Artifacts : a = producer[p].artifact /\ ProducesFor(p, a) /\ Producing(p, a) /\ Sound(a)
  BY Zenon DEF IInv, Productions, ProducesFor, SealLock
<1> USE <1>0 DEF SealLock, Goes, Returns, Idle, LocksForPublication, NotPublishable, Owned, SharesJob, ClaimLive
<1>1. Frame(p, a)  BY Zenon DEF Frame, IInv, Shapes, Same, NoRow
<1>2. producer'[p].phase = "idle" \/ (producer'[p].artifact = a /\ Producing(p, a)')
  BY DEF IInv, Shapes, Producing, Staged, Locking, Publishing, ClaimLive
<1>3. Sound(a)'  BY Zenon DEF IInv, Shapes, Sound, Producing, Locking, Staged, NoRow
<1>4. Alone(a) \/ Gentle(a)  BY Zenon DEF IInv, Shapes, Alone, Gentle, Producing, Locking
<1> QED  BY Zenon, <1>1, <1>2, <1>3, <1>4, ProducerStep

LEMMA RenameStep ==
    ASSUME IInv, NEW p \in Producers, Rename(p)
    PROVE  IInv'
<1>0. PICK a \in Artifacts : a = producer[p].artifact /\ ProducesFor(p, a) /\ Producing(p, a) /\ Sound(a)
  BY Zenon DEF IInv, Productions, ProducesFor, Rename
<1> USE <1>0 DEF Rename, Goes, Returns, Idle, Unlocks
<1>1. Frame(p, a)  BY DEF Frame, IInv, Shapes, Same, NoRow
<1>2. producer'[p].phase = "idle" \/ (producer'[p].artifact = a /\ Producing(p, a)')
  BY DEF IInv, Shapes, Producing, Staged, Locking, Publishing, ClaimLive
<1>3. Sound(a)'  BY Zenon DEF IInv, Shapes, Sound, Producing, Locking, Staged, NoRow
<1>4. Alone(a) \/ Gentle(a)  BY Zenon DEF IInv, Shapes, Alone, Gentle, Producing, Locking
<1> QED  BY Zenon, <1>1, <1>2, <1>3, <1>4, ProducerStep

LEMMA SealCommitStep ==
    ASSUME IInv, NEW p \in Producers, SealCommit(p)
    PROVE  IInv'
<1>0. PICK a \in Artifacts : a = producer[p].artifact /\ ProducesFor(p, a) /\ Producing(p, a) /\ Sound(a)
  BY Zenon DEF IInv, Productions, ProducesFor, SealCommit
<1> USE <1>0 DEF SealCommit, Goes, Returns, Idle, Seals, Unlocks
<1>1. Frame(p, a)  BY Zenon DEF Frame, IInv, Shapes, Same, NoRow
<1>2. producer'[p].phase = "idle" \/ (producer'[p].artifact = a /\ Producing(p, a)')
  BY DEF IInv, Shapes, Producing, Staged, Locking, Publishing, ClaimLive
<1>3. Sound(a)'
  <2>1. /\ row'[a].state = "available" /\ told'[a] \in {"sealed", "unknown"}
        /\ object'[a] = object[a] /\ staging'[a] = staging[a]
    BY DEF IInv, Shapes, NoRow
  <2>2. object[a] = "synced" /\ staging[a] = "none"
    BY Zenon DEF Producing, Locking, Staged, Sound
  <2> QED  BY Zenon, <2>1, <2>2, NoneAssumption DEF Sound
<1>4. Alone(a) \/ Gentle(a)  BY Zenon DEF IInv, Shapes, Alone, Gentle, Producing, Locking
<1> QED  BY Zenon, <1>1, <1>2, <1>3, <1>4, ProducerStep

LEMMA SealRaisesStep ==
    ASSUME IInv, NEW p \in Producers, SealRaises(p)
    PROVE  IInv'
<1>0. PICK a \in Artifacts : a = producer[p].artifact /\ ProducesFor(p, a) /\ Producing(p, a) /\ Sound(a)
  BY Zenon DEF IInv, Productions, ProducesFor, SealRaises
<1> USE <1>0 DEF SealRaises, Goes, Returns, Idle
<1>1. Frame(p, a)  BY Zenon DEF Frame, IInv, Shapes, Same, NoRow
<1>2. producer'[p].phase = "idle" \/ (producer'[p].artifact = a /\ Producing(p, a)')
  BY Zenon DEF IInv, Shapes, Producing, Staged, Locking, Publishing, ClaimLive
<1>3. Sound(a)'  BY Zenon DEF IInv, Shapes, Sound, Producing, Locking, Staged, NoRow
<1>4. Alone(a) \/ Gentle(a)  BY Zenon DEF IInv, Shapes, Alone, Gentle, Producing, Locking
<1> QED  BY Zenon, <1>1, <1>2, <1>3, <1>4, ProducerStep

LEMMA LimboEndsStep ==
    ASSUME IInv, NEW p \in Producers, LimboEnds(p)
    PROVE  IInv'
<1>0. PICK a \in Artifacts : a = producer[p].artifact /\ ProducesFor(p, a) /\ Producing(p, a) /\ Sound(a)
  BY Zenon DEF IInv, Productions, ProducesFor, LimboEnds
<1> USE <1>0 DEF LimboEnds, Goes, Returns, Idle, Seals, Unlocks
<1>1. Frame(p, a)  BY Zenon DEF Frame, IInv, Shapes, Same, NoRow
<1>2. producer'[p].phase = "idle" \/ (producer'[p].artifact = a /\ Producing(p, a)')
  BY Zenon DEF IInv, Shapes, Producing, Staged, Locking, Publishing, ClaimLive
<1>3. Sound(a)'
  <2>1. told'[a] = "unknown" /\ staging'[a] = "none" /\ object'[a] = "synced"
    BY Zenon DEF Producing, Staged
  <2>2. row[a].state = "pending"
    BY Zenon DEF Producing, Locking
  <2>3. CASE Seals(a)
    <3>1. row'[a].state = "available"
      BY <2>3 DEF IInv, Shapes, NoRow
    <3> QED  BY Zenon, <2>1, <3>1 DEF Sound
  <2>4. CASE row' = row
    BY Zenon, <2>1, <2>2, <2>4 DEF Sound
  <2> QED  BY <2>3, <2>4, Zenon
<1>4. Alone(a) \/ Gentle(a)  BY Zenon DEF IInv, Shapes, Alone, Gentle, Producing, Locking
<1> QED  BY Zenon, <1>1, <1>2, <1>3, <1>4, ProducerStep

LEMMA SealRollbackStep ==
    ASSUME IInv, NEW p \in Producers, SealRollback(p)
    PROVE  IInv'
<1>0. PICK a \in Artifacts : a = producer[p].artifact /\ ProducesFor(p, a) /\ Producing(p, a) /\ Sound(a)
  BY Zenon DEF IInv, Productions, ProducesFor, SealRollback
<1> USE <1>0 DEF SealRollback, Goes, Returns, Idle, Unlocks
<1>1. Frame(p, a)  BY Zenon DEF Frame, IInv, Shapes, Same, NoRow
<1>2. producer'[p].phase = "idle" \/ (producer'[p].artifact = a /\ Producing(p, a)')
  BY Zenon DEF IInv, Shapes, Producing, Staged, Locking, Publishing, ClaimLive
<1>3. Sound(a)'  BY Zenon DEF IInv, Shapes, Sound, Producing, Locking, Staged, NoRow
<1>4. Alone(a) \/ Gentle(a)  BY Zenon DEF IInv, Shapes, Alone, Gentle, Producing, Locking
<1> QED  BY Zenon, <1>1, <1>2, <1>3, <1>4, ProducerStep

LEMMA FailLockStep ==
    ASSUME IInv, NEW p \in Producers, FailLock(p)
    PROVE  IInv'
<1>0. PICK a \in Artifacts : a = producer[p].artifact /\ ProducesFor(p, a) /\ Producing(p, a) /\ Sound(a)
  BY Zenon DEF IInv, Productions, ProducesFor, FailLock
<1> USE <1>0 DEF FailLock, Goes, Returns, Idle, LocksForPublication, NotPublishable, Owned, SharesJob, ClaimLive
<1>1. Frame(p, a)  BY Zenon DEF Frame, IInv, Shapes, Same, NoRow
<1>2. producer'[p].phase = "idle" \/ (producer'[p].artifact = a /\ Producing(p, a)')
  BY SMTT(40) DEF IInv, Shapes, Producing, Staged, Locking, Publishing, ClaimLive
<1>3. Sound(a)'  BY Zenon DEF IInv, Shapes, Sound, Producing, Locking, Staged, NoRow
<1>4. Alone(a) \/ Gentle(a)  BY Zenon DEF IInv, Shapes, Alone, Gentle, Producing, Locking
<1> QED  BY Zenon, <1>1, <1>2, <1>3, <1>4, ProducerStep

LEMMA FailUnstagesStep ==
    ASSUME IInv, NEW p \in Producers, FailUnstages(p)
    PROVE  IInv'
<1>0. PICK a \in Artifacts : a = producer[p].artifact /\ ProducesFor(p, a) /\ Producing(p, a) /\ Sound(a)
  BY Zenon DEF IInv, Productions, ProducesFor, FailUnstages
<1> USE <1>0 DEF FailUnstages, Goes, Returns, Idle, FailUnlocks, Unlocks
<1>1. Frame(p, a)  BY Zenon DEF Frame, IInv, Shapes, Same, NoRow
<1>2. producer'[p].phase = "idle" \/ (producer'[p].artifact = a /\ Producing(p, a)')
  BY DEF IInv, Shapes, Producing, Staged, Locking, Publishing, ClaimLive
<1>3. Sound(a)'  BY Zenon DEF IInv, Shapes, Sound, Producing, Locking, Staged, NoRow
<1>4. Alone(a) \/ Gentle(a)  BY Zenon DEF IInv, Shapes, Alone, Gentle, Producing, Locking
<1> QED  BY Zenon, <1>1, <1>2, <1>3, <1>4, ProducerStep

LEMMA FailUnlinksStep ==
    ASSUME IInv, NEW p \in Producers, FailUnlinks(p)
    PROVE  IInv'
<1>0. PICK a \in Artifacts : a = producer[p].artifact /\ ProducesFor(p, a) /\ Producing(p, a) /\ Sound(a)
  BY Zenon DEF IInv, Productions, ProducesFor, FailUnlinks
<1> USE <1>0 DEF FailUnlinks, Goes, Returns, Idle, FailUnlocks, Unlocks
<1>1. Frame(p, a)  BY Zenon DEF Frame, IInv, Shapes, Same, NoRow
<1>2. producer'[p].phase = "idle" \/ (producer'[p].artifact = a /\ Producing(p, a)')
  BY DEF IInv, Shapes, Producing, Staged, Locking, Publishing, ClaimLive
<1>3. Sound(a)'  BY Zenon DEF IInv, Shapes, Sound, Producing, Locking, Staged, NoRow
<1>4. Alone(a) \/ Gentle(a)  BY Zenon DEF IInv, Shapes, Alone, Gentle, Producing, Locking
<1> QED  BY Zenon, <1>1, <1>2, <1>3, <1>4, ProducerStep

LEMMA FailCommitsStep ==
    ASSUME IInv, NEW p \in Producers, FailCommits(p)
    PROVE  IInv'
<1>0. PICK a \in Artifacts : a = producer[p].artifact /\ ProducesFor(p, a) /\ Producing(p, a) /\ Sound(a)
  BY Zenon DEF IInv, Productions, ProducesFor, FailCommits
<1> USE <1>0 DEF FailCommits, Goes, Returns, Idle, FailUnlocks, Unlocks, Removed
<1>1. Frame(p, a)  BY Zenon DEF Frame, IInv, Shapes, Same, NoRow
<1>2. producer'[p].phase = "idle" \/ (producer'[p].artifact = a /\ Producing(p, a)')
  BY Zenon DEF IInv, Shapes, Producing, Staged, Locking, Publishing, ClaimLive
<1>3. Sound(a)'  BY DEF IInv, Shapes, Sound, Producing, Locking, Staged, NoRow
<1>4. Alone(a) \/ Gentle(a)  BY Zenon DEF IInv, Shapes, Alone, Gentle, Producing, Locking
<1> QED  BY Zenon, <1>1, <1>2, <1>3, <1>4, ProducerStep

-----------------------------------------------------------------------------
(* Reservations, and the steps of a cleanup.                               *)

\* A reservation makes p the producer of an artifact that had none.
LEMMA ReservesStep ==
    ASSUME IInv, NEW p \in Producers, NEW a \in Artifacts, NEW purpose, NEW token,
           Reserves(p, a, purpose, token)
    PROVE  IInv'
<1> USE DEF Reserves
<1>0. Sound(a) /\ row[a].state = "absent"  BY Zenon DEF IInv
<1>1. /\ \A q \in Producers : ~ProducesFor(q, a)
      /\ \A c \in Cleaners : ~CleansUp(c, a)
  BY Zenon, <1>0 DEF IInv, Productions, Producing, Cleanings, Cleaning
<1>2. Shapes'  BY Zenon DEF IInv, Shapes, NoRow, Idle
<1>3. /\ row'[a].state = "pending" /\ told'[a] = None /\ object'[a] = "none" /\ staging'[a] = "none"
      /\ \A b \in Artifacts \ {a} : Same(b)
  BY Zenon, <1>0 DEF IInv, Shapes, Sound, Same
<1>4. Sound(a)'  BY Zenon, <1>0, <1>3 DEF Sound
<1>5. /\ \A q \in Producers \ {p} : producer'[q] = producer[q]
      /\ \/ producer'[p] = producer[p]
         \/ producer'[p].phase = "reserved" /\ producer'[p].artifact = a
  BY DEF IInv, Shapes
<1>6. \A q \in Producers : ProducerAfter(q, a)
  BY Zenon, <1>1, <1>3, <1>5 DEF ProducerAfter, Producing, Locking, Publishing, Staged
<1>7. \A o, q \in Producers : ProducesFor(o, a)' /\ ProducesFor(q, a)' => o = q
  BY <1>1, <1>5 DEF ProducesFor
<1>8. \A c \in Cleaners : CleanerAfter(c, a)
  BY Zenon, <1>1 DEF CleanerAfter
<1> QED  BY Zenon, <1>2, <1>3, <1>4, <1>6, <1>7, <1>8, OneArtifact

\* What a step of a cleanup leaves alone.
Around(c, a) ==
    /\ Shapes' /\ job' = job /\ producer' = producer /\ sharing' = sharing
    /\ told'[a] = told[a]
    /\ row'[a].purpose = row[a].purpose /\ row'[a].token = row[a].token
    /\ \A b \in Artifacts \ {a} : Same(b)
    /\ \A d \in Cleaners \ {c} : cleaner'[d] = cleaner[d]

\* Another cleanup of the same artifact goes on.
Beside(c, a) == \A d \in Cleaners \ {c} : CleansUp(d, a) => Cleaning(d, a)'

LEMMA CleanerStep ==
    ASSUME IInv, NEW c \in Cleaners, NEW a \in Artifacts, Around(c, a), Sound(a)',
           \A p \in Producers : ProducesFor(p, a) => Producing(p, a)', Beside(c, a),
           cleaner'[c].phase = "idle" \/ (cleaner'[c].artifact = a /\ Cleaning(c, a)')
    PROVE  IInv'
<1>1. \A p \in Producers : ProducerAfter(p, a)
  BY Zenon DEF ProducerAfter, Around, ProducesFor
<1>2. \A d \in Cleaners : CleanerAfter(d, a)
  BY Zenon DEF CleanerAfter, Around, Beside, CleansUp
<1>3. \A o, q \in Producers : ProducesFor(o, a)' /\ ProducesFor(q, a)' => o = q
  BY Zenon DEF ProducesFor, IInv, OneProducer, Around
<1> QED  BY Zenon, <1>1, <1>2, <1>3, OneArtifact DEF Around

LEMMA ExpireDueStep ==
    ASSUME IInv, NEW c \in Cleaners, NEW a \in Artifacts, ExpireDue(c, a)
    PROVE  IInv'
<1>0. Sound(a)  BY Zenon DEF IInv
<1> USE <1>0 DEF ExpireDue, Cleans, Idle, Due
<1>1. Around(c, a)  BY Zenon DEF Around, IInv, Shapes, Same, NoRow
<1>2. Sound(a)'  BY Zenon DEF IInv, Shapes, Sound, Cleaning, Reclaiming, NoRow
<1>3. ASSUME NEW p \in Producers, ProducesFor(p, a) PROVE Producing(p, a)'
  <2>1. Producing(p, a)  BY Zenon, <1>3 DEF IInv, Productions
  <2> QED
    BY Zenon, <1>1, <2>1, ProcessAssumption
    DEF Around, IInv, Shapes, Producing, Cleaning, Reclaiming, Locking, Publishing, Staged, ClaimLive
<1>4. ASSUME NEW d \in Cleaners \ {c}, CleansUp(d, a) PROVE Cleaning(d, a)'
  <2>1. Cleaning(d, a)  BY Zenon, <1>4 DEF IInv, Cleanings
  <2> QED  BY <1>1, <2>1, ProcessAssumption DEF Around, IInv, Shapes, Cleaning, Reclaiming, NoRow
<1>5. cleaner'[c].phase = "idle" \/ (cleaner'[c].artifact = a /\ Cleaning(c, a)')
  BY Zenon DEF IInv, Shapes, Cleaning, Reclaiming, NoRow
<1> QED  BY Zenon, <1>1, <1>2, <1>3, <1>4, <1>5, CleanerStep DEF Beside

LEMMA ReclaimLockStep ==
    ASSUME IInv, NEW c \in Cleaners, NEW a \in Artifacts, ReclaimLock(c, a)
    PROVE  IInv'
<1>0. Sound(a)  BY Zenon DEF IInv
<1> USE <1>0 DEF ReclaimLock, Cleans, Idle, Reclaimable
<1>1. Around(c, a)  BY Zenon DEF Around, IInv, Shapes, Same, NoRow
<1>2. Sound(a)'  BY Zenon DEF IInv, Shapes, Sound, Cleaning, Reclaiming, NoRow
<1>3. ASSUME NEW p \in Producers, ProducesFor(p, a) PROVE Producing(p, a)'
  <2>1. Producing(p, a)  BY Zenon, <1>3 DEF IInv, Productions
  <2> QED
    BY <1>1, <2>1, ProcessAssumption
    DEF Around, IInv, Shapes, Producing, Cleaning, Reclaiming, Locking, Publishing, Staged, ClaimLive
<1>4. ASSUME NEW d \in Cleaners \ {c}, CleansUp(d, a) PROVE Cleaning(d, a)'
  <2>1. Cleaning(d, a)  BY Zenon, <1>4 DEF IInv, Cleanings
  <2> QED  BY Zenon, <1>1, <2>1, ProcessAssumption DEF Around, IInv, Shapes, Cleaning, Reclaiming, NoRow
<1>5. cleaner'[c].phase = "idle" \/ (cleaner'[c].artifact = a /\ Cleaning(c, a)')
  BY Zenon DEF IInv, Shapes, Cleaning, Reclaiming, NoRow
<1> QED  BY Zenon, <1>1, <1>2, <1>3, <1>4, <1>5, CleanerStep DEF Beside

LEMMA UnlinkDueStep ==
    ASSUME IInv, NEW c \in Cleaners, UnlinkDue(c)
    PROVE  IInv'
<1>0. PICK a \in Artifacts : a = cleaner[c].artifact /\ CleansUp(c, a) /\ Cleaning(c, a) /\ Sound(a)
  BY Zenon DEF IInv, Cleanings, CleansUp, UnlinkDue
<1> USE <1>0 DEF UnlinkDue, Cleans, Idle
<1>1. Around(c, a)  BY Zenon DEF Around, IInv, Shapes, Same, NoRow
<1>2. Sound(a)'  BY DEF IInv, Shapes, Sound, Cleaning, Reclaiming, NoRow
<1>3. ASSUME NEW p \in Producers, ProducesFor(p, a) PROVE Producing(p, a)'
  <2>1. Producing(p, a)  BY Zenon, <1>3 DEF IInv, Productions
  <2> QED
    BY Zenon, <1>1, <2>1, ProcessAssumption
    DEF Around, IInv, Shapes, Producing, Cleaning, Reclaiming, Locking, Publishing, Staged, ClaimLive
<1>4. ASSUME NEW d \in Cleaners \ {c}, CleansUp(d, a) PROVE Cleaning(d, a)'
  <2>1. Cleaning(d, a)  BY Zenon, <1>4 DEF IInv, Cleanings
  <2> QED  BY Zenon, <1>1, <2>1, ProcessAssumption DEF Around, IInv, Shapes, Cleaning, Reclaiming, NoRow
<1>5. cleaner'[c].phase = "idle" \/ (cleaner'[c].artifact = a /\ Cleaning(c, a)')
  BY DEF IInv, Shapes, Cleaning, Reclaiming, NoRow
<1> QED  BY Zenon, <1>1, <1>2, <1>3, <1>4, <1>5, CleanerStep DEF Beside

LEMMA MarkRemovedStep ==
    ASSUME IInv, NEW c \in Cleaners, MarkRemoved(c)
    PROVE  IInv'
<1>0. PICK a \in Artifacts : a = cleaner[c].artifact /\ CleansUp(c, a) /\ Cleaning(c, a) /\ Sound(a)
  BY Zenon DEF IInv, Cleanings, CleansUp, MarkRemoved
<1> USE <1>0 DEF MarkRemoved, Cleans, Idle
<1>1. Around(c, a)  BY Zenon DEF Around, IInv, Shapes, Same, NoRow
<1>2. Sound(a)'  BY DEF IInv, Shapes, Sound, Cleaning, Reclaiming, NoRow
<1>3. ASSUME NEW p \in Producers, ProducesFor(p, a) PROVE Producing(p, a)'
  <2>1. Producing(p, a)  BY Zenon, <1>3 DEF IInv, Productions
  <2> QED
    BY SMTT(40), <1>1, <2>1, ProcessAssumption
    DEF Around, IInv, Shapes, Producing, Cleaning, Reclaiming, Locking, Publishing, Staged, ClaimLive
<1>4. ASSUME NEW d \in Cleaners \ {c}, CleansUp(d, a) PROVE Cleaning(d, a)'
  <2>1. Cleaning(d, a)  BY Zenon, <1>4 DEF IInv, Cleanings
  <2> QED  BY <1>1, <2>1, ProcessAssumption DEF Around, IInv, Shapes, Cleaning, Reclaiming, NoRow
<1>5. cleaner'[c].phase = "idle" \/ (cleaner'[c].artifact = a /\ Cleaning(c, a)')
  BY Zenon DEF IInv, Shapes, Cleaning, Reclaiming, NoRow
<1> QED  BY Zenon, <1>1, <1>2, <1>3, <1>4, <1>5, CleanerStep DEF Beside

LEMMA ReclaimFailsStep ==
    ASSUME IInv, NEW c \in Cleaners, ReclaimFails(c)
    PROVE  IInv'
<1>0. PICK a \in Artifacts : a = cleaner[c].artifact /\ CleansUp(c, a) /\ Cleaning(c, a) /\ Sound(a)
  BY Zenon DEF IInv, Cleanings, CleansUp, ReclaimFails
<1> USE <1>0 DEF ReclaimFails, Cleans, Idle
<1>1. Around(c, a)  BY Zenon DEF Around, IInv, Shapes, Same, NoRow
<1>2. Sound(a)'  BY Zenon DEF IInv, Shapes, Sound, Cleaning, Reclaiming, NoRow
<1>3. ASSUME NEW p \in Producers, ProducesFor(p, a) PROVE Producing(p, a)'
  <2>1. Producing(p, a)  BY Zenon, <1>3 DEF IInv, Productions
  <2> QED
    BY SMTT(40), <1>1, <2>1, ProcessAssumption
    DEF Around, IInv, Shapes, Producing, Cleaning, Reclaiming, Locking, Publishing, Staged, ClaimLive
<1>4. ASSUME NEW d \in Cleaners \ {c}, CleansUp(d, a) PROVE Cleaning(d, a)'
  <2>1. Cleaning(d, a)  BY Zenon, <1>4 DEF IInv, Cleanings
  <2> QED  BY Zenon, <1>1, <2>1, ProcessAssumption DEF Around, IInv, Shapes, Cleaning, Reclaiming, NoRow
<1>5. cleaner'[c].phase = "idle" \/ (cleaner'[c].artifact = a /\ Cleaning(c, a)')
  BY Zenon DEF IInv, Shapes, Cleaning, Reclaiming, NoRow
<1> QED  BY Zenon, <1>1, <1>2, <1>3, <1>4, <1>5, CleanerStep DEF Beside

LEMMA ReclaimUnstagesStep ==
    ASSUME IInv, NEW c \in Cleaners, ReclaimUnstages(c)
    PROVE  IInv'
<1>0. PICK a \in Artifacts : a = cleaner[c].artifact /\ CleansUp(c, a) /\ Cleaning(c, a) /\ Sound(a)
  BY Zenon DEF IInv, Cleanings, CleansUp, ReclaimUnstages
<1> USE <1>0 DEF ReclaimUnstages, Cleans, Idle
<1>1. Around(c, a)  BY Zenon DEF Around, IInv, Shapes, Same, NoRow
<1>2. Sound(a)'  BY Zenon DEF IInv, Shapes, Sound, Cleaning, Reclaiming, NoRow
<1>3. ASSUME NEW p \in Producers, ProducesFor(p, a) PROVE Producing(p, a)'
  <2>1. Producing(p, a)  BY Zenon, <1>3 DEF IInv, Productions
  <2> QED
    BY SMTT(40), <1>1, <2>1, ProcessAssumption
    DEF Around, IInv, Shapes, Producing, Cleaning, Reclaiming, Locking, Publishing, Staged, ClaimLive
<1>4. ASSUME NEW d \in Cleaners \ {c}, CleansUp(d, a) PROVE Cleaning(d, a)'
  <2>1. Cleaning(d, a)  BY Zenon, <1>4 DEF IInv, Cleanings
  <2> QED  BY Zenon, <1>1, <2>1, ProcessAssumption DEF Around, IInv, Shapes, Cleaning, Reclaiming, NoRow
<1>5. cleaner'[c].phase = "idle" \/ (cleaner'[c].artifact = a /\ Cleaning(c, a)')
  BY Zenon DEF IInv, Shapes, Cleaning, Reclaiming, NoRow
<1> QED  BY Zenon, <1>1, <1>2, <1>3, <1>4, <1>5, CleanerStep DEF Beside

LEMMA ReclaimUnlinksStep ==
    ASSUME IInv, NEW c \in Cleaners, ReclaimUnlinks(c)
    PROVE  IInv'
<1>0. PICK a \in Artifacts : a = cleaner[c].artifact /\ CleansUp(c, a) /\ Cleaning(c, a) /\ Sound(a)
  BY Zenon DEF IInv, Cleanings, CleansUp, ReclaimUnlinks
<1> USE <1>0 DEF ReclaimUnlinks, Cleans, Idle
<1>1. Around(c, a)  BY Zenon DEF Around, IInv, Shapes, Same, NoRow
<1>2. Sound(a)'  BY Zenon DEF IInv, Shapes, Sound, Cleaning, Reclaiming, NoRow
<1>3. ASSUME NEW p \in Producers, ProducesFor(p, a) PROVE Producing(p, a)'
  <2>1. Producing(p, a)  BY Zenon, <1>3 DEF IInv, Productions
  <2> QED
    BY SMTT(40), <1>1, <2>1, ProcessAssumption
    DEF Around, IInv, Shapes, Producing, Cleaning, Reclaiming, Locking, Publishing, Staged, ClaimLive
<1>4. ASSUME NEW d \in Cleaners \ {c}, CleansUp(d, a) PROVE Cleaning(d, a)'
  <2>1. Cleaning(d, a)  BY Zenon, <1>4 DEF IInv, Cleanings
  <2> QED  BY Zenon, <1>1, <2>1, ProcessAssumption DEF Around, IInv, Shapes, Cleaning, Reclaiming, NoRow
<1>5. cleaner'[c].phase = "idle" \/ (cleaner'[c].artifact = a /\ Cleaning(c, a)')
  BY Zenon DEF IInv, Shapes, Cleaning, Reclaiming, NoRow
<1> QED  BY Zenon, <1>1, <1>2, <1>3, <1>4, <1>5, CleanerStep DEF Beside

LEMMA ReclaimCommitsStep ==
    ASSUME IInv, NEW c \in Cleaners, ReclaimCommits(c)
    PROVE  IInv'
<1>0. PICK a \in Artifacts : a = cleaner[c].artifact /\ CleansUp(c, a) /\ Cleaning(c, a) /\ Sound(a)
  BY Zenon DEF IInv, Cleanings, CleansUp, ReclaimCommits
<1> USE <1>0 DEF ReclaimCommits, Cleans, Idle, Removed
<1>1. Around(c, a)  BY Zenon DEF Around, IInv, Shapes, Same, NoRow
<1>2. Sound(a)'  BY SMTT(40) DEF IInv, Shapes, Sound, Cleaning, Reclaiming, NoRow
<1>3. ASSUME NEW p \in Producers, ProducesFor(p, a) PROVE Producing(p, a)'
  <2>1. Producing(p, a)  BY Zenon, <1>3 DEF IInv, Productions
  <2> QED
    BY SMTT(40), <1>1, <2>1, ProcessAssumption
    DEF Around, IInv, Shapes, Producing, Cleaning, Reclaiming, Locking, Publishing, Staged, ClaimLive
<1>4. ASSUME NEW d \in Cleaners \ {c}, CleansUp(d, a) PROVE Cleaning(d, a)'
  <2>1. Cleaning(d, a)  BY Zenon, <1>4 DEF IInv, Cleanings
  <2> QED  BY Zenon, <1>1, <2>1, ProcessAssumption DEF Around, IInv, Shapes, Cleaning, Reclaiming, NoRow
<1>5. cleaner'[c].phase = "idle" \/ (cleaner'[c].artifact = a /\ Cleaning(c, a)')
  BY Zenon DEF IInv, Shapes, Cleaning, Reclaiming, NoRow
<1> QED  BY Zenon, <1>1, <1>2, <1>3, <1>4, <1>5, CleanerStep DEF Beside

-----------------------------------------------------------------------------
(* Time, the job and crashes.                                              *)

LEMMA LeaseRunsStep ==
    ASSUME IInv, NEW a \in Artifacts, LeaseRuns(a)
    PROVE  IInv'
<1>1. /\ UNCHANGED <<row, retention, staging, object, lock, sharing, job, producer, cleaner, told>>
      /\ DOMAIN lease' = DOMAIN lease
  BY Zenon DEF LeaseRuns
<1>2. Shapes'  BY Zenon, <1>1 DEF IInv, Shapes
<1>3. Productions' /\ OneProducer'
  BY <1>1 DEF IInv, Productions, OneProducer, ProducesFor, Producing, Staged, ClaimLive
<1>4. Cleanings'  BY <1>1 DEF IInv, Cleanings, CleansUp, Cleaning
<1>5. \A b \in Artifacts : Sound(b)'  BY Zenon, <1>1 DEF IInv, Sound
<1> QED  BY Zenon, <1>2, <1>3, <1>4, <1>5 DEF IInv

LEMMA RetentionRunsStep ==
    ASSUME IInv, NEW a \in Artifacts, RetentionRuns(a)
    PROVE  IInv'
<1>1. /\ UNCHANGED <<row, staging, object, lock, sharing, job, producer, cleaner, told>>
      /\ DOMAIN lease' = DOMAIN lease /\ DOMAIN retention' = DOMAIN retention
      /\ \A b \in Artifacts : retention[b] = "overdue" => retention'[b] = "overdue"
  BY Zenon DEF RetentionRuns, Later, IInv, Shapes
<1>2. Shapes'  BY Zenon, <1>1 DEF IInv, Shapes
<1>3. Productions' /\ OneProducer'
  BY <1>1 DEF IInv, Productions, OneProducer, ProducesFor, Producing, Staged, ClaimLive
<1>4. Cleanings'  BY <1>1 DEF IInv, Cleanings, CleansUp, Cleaning
<1>5. \A b \in Artifacts : Sound(b)'  BY Zenon, <1>1 DEF IInv, Sound
<1> QED  BY Zenon, <1>2, <1>3, <1>4, <1>5 DEF IInv

\* The job cannot change while a publication of its output holds its row.
LEMMA JobStep ==
    ASSUME IInv, JobClaimed \/ JobLeaves
    PROVE  IInv'
<1>1. /\ UNCHANGED <<row, retention, staging, object, lock, sharing, producer, cleaner, told>>
      /\ UNCHANGED lease /\ sharing = {}
      /\ DOMAIN job = {"token", "live"} => DOMAIN job' = {"token", "live"}
  BY Zenon DEF JobClaimed, JobLeaves
<1>2. Shapes'  BY Zenon, <1>1 DEF IInv, Shapes
<1>3. ASSUME NEW p \in Producers, NEW a \in Artifacts, ProducesFor(p, a)
      PROVE  Producing(p, a)'
  <2>1. Producing(p, a)
    BY Zenon, <1>3 DEF IInv, Productions
  <2>2. producer[p].phase \in Publishing => row[a].purpose # "job_output"
    BY Zenon, <1>1, <2>1 DEF Producing
  <2> QED  BY Zenon, <1>1, <2>1, <2>2 DEF Producing, Staged, ClaimLive
<1>4. Productions' /\ OneProducer'
  BY Zenon, <1>1, <1>3 DEF IInv, Productions, OneProducer, ProducesFor
<1>5. Cleanings'  BY <1>1 DEF IInv, Cleanings, CleansUp, Cleaning
<1>6. \A b \in Artifacts : Sound(b)'  BY Zenon, <1>1 DEF IInv, Sound
<1> QED  BY Zenon, <1>2, <1>4, <1>5, <1>6 DEF IInv

\* A death frees the locks of the one that died, and no others.
LEMMA DiesStep ==
    ASSUME IInv, (\E p \in Producers : ProducerDies(p)) \/ (\E c \in Cleaners : CleanerDies(c))
    PROVE  IInv'
<1>0. PICK dead \in Producers \cup Cleaners :
           (dead \in Producers /\ ProducerDies(dead)) \/ (dead \in Cleaners /\ CleanerDies(dead))
  BY Zenon
<1>1. /\ UNCHANGED <<row, lease, retention, staging, object, job, told>>
      /\ \A p \in Producers \ {dead} : producer'[p] = producer[p] /\ (p \in sharing => p \in sharing')
      /\ \A c \in Cleaners \ {dead} : cleaner'[c] = cleaner[c]
      /\ \A a \in Artifacts : lock[a] # dead => lock'[a] = lock[a]
      /\ dead \in Producers => producer'[dead].phase = "idle"
      /\ dead \in Cleaners => cleaner'[dead].phase = "idle"
  BY <1>0, ProcessAssumption DEF ProducerDies, CleanerDies, IInv, Shapes, Idle
<1>2. Shapes'  BY <1>0 DEF IInv, Shapes, ProducerDies, CleanerDies
<1>3. \A p \in Producers, a \in Artifacts :
         ProducesFor(p, a)' => p # dead /\ ProducesFor(p, a) /\ producer'[p] = producer[p]
  BY Zenon, <1>1 DEF ProducesFor
<1>4. \A p \in Producers, a \in Artifacts : ProducesFor(p, a)' => Producing(p, a)'
  <2> SUFFICES ASSUME NEW p \in Producers, NEW a \in Artifacts, ProducesFor(p, a)'
               PROVE  Producing(p, a)'
    BY Zenon
  <2>1. Producing(p, a) /\ p # dead /\ producer'[p] = producer[p]
    BY Zenon, <1>3 DEF IInv, Productions
  <2> QED  BY Zenon, <1>1, <2>1 DEF Producing, Staged, ClaimLive
<1>5. Productions' /\ OneProducer'
  <2>1. \A p \in Producers : producer'[p].phase # "idle" => producer'[p].artifact \in Artifacts
    BY Zenon, <1>1 DEF IInv, Productions
  <2> QED  BY Zenon, <1>3, <1>4, <2>1 DEF IInv, Productions, OneProducer
<1>6. Cleanings'
  <2>1. \A c \in Cleaners : cleaner'[c].phase # "idle" => c # dead /\ cleaner'[c] = cleaner[c]
    BY Zenon, <1>1
  <2>2. ASSUME NEW c \in Cleaners, NEW a \in Artifacts, CleansUp(c, a)' PROVE Cleaning(c, a)'
    <3>1. c # dead /\ cleaner'[c] = cleaner[c] /\ Cleaning(c, a)
      BY Zenon, <2>1, <2>2 DEF IInv, Cleanings, CleansUp
    <3> QED  BY Zenon, <1>1, <3>1 DEF Cleaning
  <2> QED  BY Zenon, <2>1, <2>2 DEF IInv, Cleanings
<1>7. \A b \in Artifacts : Sound(b)'  BY Zenon, <1>1 DEF IInv, Sound
<1> QED  BY Zenon, <1>2, <1>5, <1>6, <1>7 DEF IInv

\* What a row vouches for was synced.
LEMMA PowerLossStep ==
    ASSUME IInv, PowerLoss
    PROVE  IInv'
<1> USE DEF PowerLoss
<1>1. Shapes'  BY Zenon DEF IInv, Shapes, Idle
<1>2. /\ \A p \in Producers : producer'[p].phase = "idle"
      /\ \A c \in Cleaners : cleaner'[c].phase = "idle"
  BY Zenon DEF Idle
<1>3. Productions' /\ OneProducer' /\ Cleanings'
  BY Zenon, <1>2 DEF Productions, OneProducer, ProducesFor, Cleanings, CleansUp
<1>4. \A b \in Artifacts : Sound(b)'  BY Zenon DEF IInv, Sound, Survives
<1> QED  BY Zenon, <1>1, <1>3, <1>4 DEF IInv

-----------------------------------------------------------------------------
(* The theorems.                                                           *)

LEMMA InitIInv == Init => IInv
<1> SUFFICES ASSUME Init PROVE IInv
  BY Zenon
<1> USE DEF Init
<1>1. Shapes  BY Zenon DEF Shapes, Idle, NoRow
<1>2. Productions /\ OneProducer /\ Cleanings
  BY Zenon DEF Productions, OneProducer, ProducesFor, Cleanings, CleansUp, Idle
<1>3. \A a \in Artifacts : Sound(a)
  <2> SUFFICES ASSUME NEW a \in Artifacts PROVE Sound(a)
    BY Zenon
  <2>1. row[a].state = "absent" /\ told[a] = None /\ staging[a] = "none" /\ object[a] = "none"
    BY Zenon DEF NoRow
  <2> QED  BY Zenon, <2>1, NoneAssumption DEF Sound
<1> QED  BY Zenon, <1>1, <1>2, <1>3 DEF IInv

LEMMA ProduceStep ==
    ASSUME IInv, NEW p \in Producers, Produce(p)
    PROVE  IInv'
BY CreatePartStep, PartCommitsStep, WriteStep, SyncStep, InspectStep, ProductionFailsStep,
   LosesLeaseStep, SealLockStep, RenameStep, SealCommitStep, SealRaisesStep, LimboEndsStep,
   SealRollbackStep, FailLockStep, FailUnstagesStep, FailUnlinksStep, FailCommitsStep, Zenon
   DEF Produce

LEMMA CleanStep ==
    ASSUME IInv, NEW c \in Cleaners, Clean(c)
    PROVE  IInv'
BY ExpireDueStep, ReclaimLockStep, UnlinkDueStep, MarkRemovedStep, ReclaimUnstagesStep,
   ReclaimUnlinksStep, ReclaimCommitsStep, ReclaimFailsStep, Zenon
   DEF Clean

LEMMA NextIInv == IInv /\ [Next]_vars => IInv'
<1> SUFFICES ASSUME IInv, [Next]_vars PROVE IInv'
  BY Zenon
<1>1. CASE \E p \in Producers :
              \/ \E a \in Artifacts : ReserveOutput(p, a) \/ ReserveInput(p, a)
              \/ Produce(p)
  BY <1>1, ReservesStep, ProduceStep, Zenon DEF ReserveOutput, ReserveInput
<1>2. CASE \E c \in Cleaners : Clean(c)
  BY <1>2, CleanStep, Zenon
<1>3. CASE (\E p \in Producers : ProducerDies(p)) \/ (\E c \in Cleaners : CleanerDies(c))
  BY Zenon, <1>3, DiesStep
<1>4. CASE \E a \in Artifacts : LeaseRuns(a) \/ RetentionRuns(a)
  BY <1>4, LeaseRunsStep, RetentionRunsStep, Zenon
<1>5. CASE JobClaimed \/ JobLeaves  BY Zenon, <1>5, JobStep
<1>6. CASE PowerLoss  BY Zenon, <1>6, PowerLossStep
<1>7. CASE UNCHANGED vars
  <2>1. Shapes' /\ Productions' /\ OneProducer' /\ Cleanings'
    BY SMTT(40), <1>7 DEF vars, IInv, Shapes, Productions, OneProducer, ProducesFor, Producing, Staged, ClaimLive,
            Cleanings, CleansUp, Cleaning
  <2>2. \A a \in Artifacts : Sound(a)'
    BY Zenon, <1>7 DEF vars, IInv, Sound
  <2> QED  BY Zenon, <2>1, <2>2 DEF IInv
<1> QED  BY <1>1, <1>2, <1>3, <1>4, <1>5, <1>6, <1>7, Zenon DEF Next

\* The parts of the argument hold in every reachable state.
THEOREM InductiveInvariant == Spec => []IInv
<1> QED  BY InitIInv, NextIInv, PTL DEF Spec

\* An available artifact has its whole, synced file, whatever crashed
\* (_seal, durable_replace and the unlinks of cleanup_once).
THEOREM AvailableWhole == Spec => []AvailableIsWhole
<1>1. IInv => AvailableIsWhole
  BY Zenon DEF IInv, Sound, AvailableIsWhole
<1> QED  BY <1>1, InductiveInvariant, PTL

\* A removed artifact, or one that was never reserved, has no file
\* (D1a, D1b and D2 mark the row after the unlinks).
THEOREM RemovedIsGone == Spec => []RemovedLeavesNothing
<1>1. IInv => RemovedLeavesNothing
  BY Zenon DEF IInv, Sound, RemovedLeavesNothing
<1> QED  BY <1>1, InductiveInvariant, PTL

\* A caller that was told sealed, failed or lost was told the truth for good
\* (the ways publish_output and upload_chat_input return).
THEOREM CallerToldTruly == Spec => []ToldTruly
<1>1. IInv => ToldTruly
  BY Zenon DEF IInv, Sound, ToldTruly
<1> QED  BY <1>1, InductiveInvariant, PTL

\* An artifact becomes available by a seal and in no other way.
LEMMA OnlySealed ==
    ASSUME IInv, [Next]_vars, NEW a \in Artifacts,
           row[a].state = "pending", row'[a].state = "available"
    PROVE  \E p \in Producers : SealCommit(p) \/ LimboEnds(p)
<1>1. row' # row
  BY Zenon
<1>2. ASSUME NEW state, NEW b \in Artifacts, row' = [row EXCEPT ![b].state = state]
      PROVE  state = "available"
  BY Zenon, <1>2 DEF IInv, Shapes, NoRow
<1>3. ASSUME NEW p \in Producers, Produce(p)
      PROVE  SealCommit(p) \/ LimboEnds(p)
  <2>1. CASE CreatePart(p) \/ PartCommits(p) \/ Write(p) \/ Sync(p) \/ Inspect(p)
              \/ ProductionFails(p) \/ LosesLease(p)
    BY Zenon, <1>1, <2>1 DEF CreatePart, PartCommits, Write, Sync, Inspect, ProductionFails, LosesLease
  <2>2. CASE SealLock(p) \/ Rename(p) \/ SealRaises(p) \/ SealRollback(p)
    BY Zenon, <1>1, <2>2 DEF SealLock, Rename, SealRaises, SealRollback
  <2>3. CASE FailLock(p) \/ FailUnstages(p) \/ FailUnlinks(p)
    BY Zenon, <1>1, <2>3 DEF FailLock, FailUnstages, FailUnlinks
  <2>4. CASE FailCommits(p)
    <3>1. producer[p].artifact \in Artifacts
      BY Zenon, <2>4 DEF FailCommits, IInv, Productions
    <3> QED  BY Zenon, <1>1, <1>2, <2>4, <3>1 DEF FailCommits, Removed
  <2> QED  BY <1>3, <2>1, <2>2, <2>3, <2>4, Zenon DEF Produce
<1>4. ASSUME NEW c \in Cleaners, Clean(c)
      PROVE  FALSE
  <2>1. CASE \E b \in Artifacts : ExpireDue(c, b)
    BY Zenon, <1>2, <2>1 DEF ExpireDue
  <2>2. CASE (\E b \in Artifacts : ReclaimLock(c, b)) \/ UnlinkDue(c) \/ ReclaimUnstages(c)
              \/ ReclaimUnlinks(c) \/ ReclaimFails(c)
    BY Zenon, <1>1, <2>2 DEF ReclaimLock, UnlinkDue, ReclaimUnstages, ReclaimUnlinks, ReclaimFails
  <2>3. CASE MarkRemoved(c)
    BY Zenon, <2>3 DEF MarkRemoved, IInv, Shapes, NoRow
  <2>4. CASE ReclaimCommits(c)
    <3>1. cleaner[c].artifact \in Artifacts
      BY Zenon, <2>4 DEF ReclaimCommits, IInv, Cleanings
    <3> QED  BY Zenon, <1>2, <2>4, <3>1 DEF ReclaimCommits, Removed
  <2> QED  BY <1>4, <2>1, <2>2, <2>3, <2>4, Zenon DEF Clean
<1>5. ASSUME NEW p \in Producers, NEW b \in Artifacts, ReserveOutput(p, b) \/ ReserveInput(p, b)
      PROVE  FALSE
  BY Zenon, <1>5 DEF ReserveOutput, ReserveInput, Reserves, IInv, Shapes
<1>6. ASSUME \/ \E p \in Producers : ProducerDies(p)
             \/ \E c \in Cleaners : CleanerDies(c)
             \/ \E b \in Artifacts : LeaseRuns(b) \/ RetentionRuns(b)
             \/ JobClaimed \/ JobLeaves \/ PowerLoss \/ UNCHANGED vars
      PROVE  FALSE
  BY Zenon, <1>1, <1>6 DEF ProducerDies, CleanerDies, LeaseRuns, RetentionRuns, JobClaimed, JobLeaves,
                    PowerLoss, vars
<1> QED  BY <1>3, <1>4, <1>5, <1>6, Zenon DEF Next

\* No step makes a job's output available unless the execution that reserved
\* it holds the claim (_lock_for_publication shares the job row until the commit).
THEOREM PublicationFenced == Spec => FencedPublication
<1>1. ASSUME IInv, [Next]_vars, NEW a \in Artifacts,
             row[a].state = "pending", row'[a].state = "available"
      PROVE  ClaimLive(a)
  <2>1. ASSUME NEW p \in Producers, SealCommit(p) \/ LimboEnds(p)
        PROVE  ClaimLive(a)
    <3>1. producer[p].artifact = a
      BY <1>1, <2>1, Zenon DEF SealCommit, LimboEnds, Seals, IInv, Shapes, NoRow
    <3>2. ProducesFor(p, a) /\ producer[p].phase \in Publishing
      BY Zenon, <2>1, <3>1 DEF SealCommit, LimboEnds, ProducesFor, Publishing
    <3> QED  BY Zenon, <1>1, <3>2 DEF IInv, Productions, Producing
  <2> QED  BY Zenon, <1>1, <2>1, OnlySealed
<1>2. IInv /\ [Next]_vars =>
         [\A a \in Artifacts :
             row[a].state = "pending" /\ row'[a].state = "available" => ClaimLive(a)]_vars
  BY Zenon, <1>1
<1> QED  BY <1>2, InductiveInvariant, PTL DEF Spec, FencedPublication

-----------------------------------------------------------------------------
(* The quota of a session.                                                 *)

Quota == IsFiniteSet(Inputs) /\ Cardinality(Inputs) <= SessionLimit

\* Nothing but a reservation adds a live input.
LEMMA InputsShrink ==
    ASSUME IInv, [Next]_vars, NEW b \in Artifacts, Counted(b)', ~Counted(b)
    PROVE  \E p \in Producers : ReserveInput(p, b)
<1> USE DEF Counted, NoRow
<1>1. ~(UNCHANGED <<row, retention>>)
  BY Zenon
<1>2. ASSUME NEW a \in Artifacts, NEW state,
             row' = [row EXCEPT ![a].state = state], state \in {"expired", "removed"}, retention' = retention
      PROVE  FALSE
  BY Zenon, <1>2 DEF IInv, Shapes
<1>3. ASSUME NEW p \in Producers, NEW a \in Artifacts, ReserveOutput(p, a) \/ ReserveInput(p, a)
      PROVE  ReserveInput(p, b)
  <2>1. b = a  BY Zenon, <1>3 DEF ReserveOutput, ReserveInput, Reserves, IInv, Shapes
  <2>2. ~ReserveOutput(p, a)  BY <2>1 DEF ReserveOutput, Reserves, IInv, Shapes
  <2> QED  BY Zenon, <1>3, <2>1, <2>2
<1>4. ASSUME NEW p \in Producers, Produce(p)
      PROVE  FALSE
  <2>1. CASE CreatePart(p) \/ PartCommits(p) \/ Write(p) \/ Sync(p) \/ Inspect(p)
              \/ ProductionFails(p) \/ LosesLease(p)
    BY Zenon, <1>1, <2>1 DEF CreatePart, PartCommits, Write, Sync, Inspect, ProductionFails, LosesLease
  <2>2. CASE SealLock(p) \/ Rename(p) \/ SealRaises(p) \/ SealRollback(p)
    BY Zenon, <1>1, <2>2 DEF SealLock, Rename, SealRaises, SealRollback
  <2>3. CASE FailLock(p) \/ FailUnstages(p) \/ FailUnlinks(p)
    BY Zenon, <1>1, <2>3 DEF FailLock, FailUnstages, FailUnlinks
  <2>4. CASE FailCommits(p)
    <3>1. producer[p].artifact \in Artifacts
      BY Zenon, <2>4 DEF FailCommits, IInv, Productions
    <3> QED  BY Zenon, <1>1, <1>2, <2>4, <3>1 DEF FailCommits, Removed
  <2>5. CASE SealCommit(p) \/ LimboEnds(p)
    <3>1. PICK a \in Artifacts : a = producer[p].artifact /\ row[a].state = "pending"
      BY Zenon, <2>5 DEF SealCommit, LimboEnds, IInv, Productions, ProducesFor, Producing, Locking
    <3>2. Seals(a)
      BY Zenon, <1>1, <2>5, <3>1 DEF SealCommit, LimboEnds
    <3>3. /\ row'[b].purpose = row[b].purpose
          /\ b # a => row'[b] = row[b] /\ retention'[b] = retention[b]
      BY <3>2 DEF Seals, IInv, Shapes
    <3> QED  BY Zenon, <3>1, <3>3
  <2> QED  BY <1>4, <2>1, <2>2, <2>3, <2>4, <2>5, Zenon DEF Produce
<1>5. ASSUME NEW c \in Cleaners, Clean(c)
      PROVE  FALSE
  <2>1. CASE \E a \in Artifacts : ExpireDue(c, a)
    BY Zenon, <1>2, <2>1 DEF ExpireDue
  <2>2. CASE (\E a \in Artifacts : ReclaimLock(c, a)) \/ UnlinkDue(c) \/ ReclaimUnstages(c)
              \/ ReclaimUnlinks(c) \/ ReclaimFails(c)
    BY Zenon, <1>1, <2>2 DEF ReclaimLock, UnlinkDue, ReclaimUnstages, ReclaimUnlinks, ReclaimFails
  <2>3. CASE MarkRemoved(c)
    BY Zenon, <2>3 DEF MarkRemoved, IInv, Shapes
  <2>4. CASE ReclaimCommits(c)
    <3>1. cleaner[c].artifact \in Artifacts
      BY Zenon, <2>4 DEF ReclaimCommits, IInv, Cleanings
    <3> QED  BY Zenon, <1>2, <2>4, <3>1 DEF ReclaimCommits, Removed
  <2> QED  BY <1>5, <2>1, <2>2, <2>3, <2>4, Zenon DEF Clean
<1>6. ASSUME NEW a \in Artifacts, RetentionRuns(a)
      PROVE  FALSE
  BY Zenon, <1>6 DEF RetentionRuns, Later, IInv, Shapes
<1>7. ASSUME \/ \E p \in Producers : ProducerDies(p)
             \/ \E c \in Cleaners : CleanerDies(c)
             \/ \E a \in Artifacts : LeaseRuns(a)
             \/ JobClaimed \/ JobLeaves \/ PowerLoss \/ UNCHANGED vars
      PROVE  FALSE
  BY Zenon, <1>1, <1>7 DEF ProducerDies, CleanerDies, LeaseRuns, JobClaimed, JobLeaves, PowerLoss, vars
<1> QED  BY <1>3, <1>4, <1>5, <1>6, <1>7, Zenon DEF Next

\* A step keeps the quota: a reservation finds room for one more.
LEMMA NextQuota == IInv /\ Quota /\ [Next]_vars => Quota'
<1> SUFFICES ASSUME IInv, Quota, [Next]_vars PROVE Quota'
  BY Zenon
<1>1. CASE \E p \in Producers, a \in Artifacts : ReserveInput(p, a)
  <2>1. PICK p \in Producers, a \in Artifacts : ReserveInput(p, a)
    BY Zenon, <1>1
  <2>2. Inputs' \subseteq Inputs \cup {a}
    BY Zenon, <2>1 DEF ReserveInput, Reserves, Inputs, Counted, IInv, Shapes
  <2>3. a \notin Inputs
    BY Zenon, <2>1 DEF ReserveInput, Reserves, Inputs, Counted
  <2>4. IsFiniteSet(Inputs \cup {a}) /\ Cardinality(Inputs \cup {a}) = Cardinality(Inputs) + 1
    BY Zenon, <2>3, FS_AddElement DEF Quota
  <2>5. /\ IsFiniteSet(Inputs') /\ Cardinality(Inputs') <= Cardinality(Inputs \cup {a})
        /\ Cardinality(Inputs') \in Nat /\ Cardinality(Inputs) \in Nat
    BY Zenon, <2>2, <2>4, FS_Subset, FS_CardinalityType DEF Quota
  <2>6. Cardinality(Inputs) < SessionLimit
    BY Zenon, <2>1 DEF ReserveInput
  <2> QED  BY <2>4, <2>5, <2>6, QuotaAssumption DEF Quota
<1>2. CASE ~\E p \in Producers, a \in Artifacts : ReserveInput(p, a)
  <2>1. Inputs' \subseteq Inputs
    BY Zenon, <1>2, InputsShrink DEF Inputs
  <2>2. /\ IsFiniteSet(Inputs') /\ Cardinality(Inputs') <= Cardinality(Inputs)
        /\ Cardinality(Inputs') \in Nat /\ Cardinality(Inputs) \in Nat
    BY Zenon, <2>1, FS_Subset, FS_CardinalityType DEF Quota
  <2> QED  BY <2>2, QuotaAssumption DEF Quota
<1> QED  BY Zenon, <1>1, <1>2

\* However many uploads overlap, a session never has more live inputs than
\* its limit (the count that upload_chat_input makes before it reserves).
THEOREM SessionQuota == Spec => []SessionWithinLimit
<1>1. Init => Quota
  <2> SUFFICES ASSUME Init PROVE Quota
    BY Zenon
  <2>1. Inputs = {}
    BY Zenon DEF Init, Inputs, Counted, NoRow
  <2> QED  BY <2>1, FS_EmptySet, QuotaAssumption DEF Quota
<1>2. Quota => SessionWithinLimit
  <2>1. LiveInputs = Inputs
    BY Zenon DEF LiveInputs, Inputs, Counted
  <2> QED  BY Zenon, <2>1 DEF Quota, SessionWithinLimit
<1> QED  BY <1>1, <1>2, NextQuota, InductiveInvariant, PTL DEF Spec

=============================================================================
