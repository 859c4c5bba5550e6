---------------------------- MODULE FileArtifacts ----------------------------
(***************************************************************************)
(* File artifacts: job outputs and chat uploads, their rows in             *)
(* public.file_artifacts and their files on disk                           *)
(* (app/infra/persistence/file_artifacts.py, app/infra/files/local_store.py). *)
(*                                                                         *)
(* A row and two directory entries change together without a common        *)
(* transaction.  A producer, a failing producer (D2) and the cleanup of    *)
(* abandoned reservations (D1b) touch the files while they hold the row's  *)
(* lock, so those transactions are several actions with the lock in        *)
(* between; the cleanup of expired files (D1a) unlinks without it.         *)
(***************************************************************************)
EXTENDS Integers, FiniteSets, FiniteSetsExt

CONSTANTS
    Artifacts,      \* artifact_id values
    Producers,      \* publish_output and upload_chat_input calls
    Cleaners,       \* cleanup_once calls
    MaxClaims,      \* how often the job is claimed (a bound of the model)
    SessionLimit,   \* _SESSION_INPUT_LIMIT
    OwnerUnits,     \* _OWNER_INPUT_BYTES
    MaxUnits,       \* CHAT_UPLOAD_MAX_BYTES
    None            \* SQL NULL

ASSUME QuotaAssumption ==
    /\ SessionLimit \in Nat /\ OwnerUnits \in Nat /\ MaxUnits \in Nat \ {0}
    /\ MaxClaims \in Nat
ASSUME ProcessAssumption ==
    /\ None \notin Artifacts \cup Producers \cup Cleaners
    /\ Producers \cap Cleaners = {}
ASSUME NoneAssumption == None \notin {"sealed", "unknown", "failed", "lost"}

VARIABLES
    row,         \* file_artifacts: state, purpose, claim of the producing job, size
    lease,       \* lease_expires_at against the clock; "overdue" a minute later
    retention,   \* expires_at against the clock; "overdue" ten minutes later
    staging,     \* the file staging/<reference>.part
    object,      \* the file objects/<reference>
    lock,        \* the transaction that holds the row FOR UPDATE
    sharing,     \* the producers that hold the job row FOR SHARE
    job,         \* the job row: its claim token, and whether the claim is live
    producer,    \* the calls in progress
    cleaner,     \* the cleanups in progress
    told         \* what the caller of an artifact's production was told

vars == <<row, lease, retention, staging, object, lock, sharing, job, producer, cleaner,
          told>>

-----------------------------------------------------------------------------
(* The initial state.                                                      *)

NoRow == [state |-> "absent", purpose |-> None, token |-> 0, size |-> 0]
Idle == [phase |-> "idle", artifact |-> None]

Init ==
    /\ row = [a \in Artifacts |-> NoRow]
    /\ lease = [a \in Artifacts |-> None]
    /\ retention = [a \in Artifacts |-> None]
    /\ staging = [a \in Artifacts |-> "none"]
    /\ object = [a \in Artifacts |-> "none"]
    /\ lock = [a \in Artifacts |-> None]
    /\ sharing = {}
    /\ job = [token |-> 0, live |-> FALSE]
    /\ producer = [p \in Producers |-> Idle]
    /\ cleaner = [c \in Cleaners |-> Idle]
    /\ told = [a \in Artifacts |-> None]

files == <<staging, object>>
locks == <<lock, sharing>>
clocks == <<lease, retention>>

Goes(p, phase) == producer' = [producer EXCEPT ![p].phase = phase]

\* The call is over, and its caller is told the result.
Returns(p, result) ==
    /\ producer' = [producer EXCEPT ![p] = Idle]
    /\ told' = [told EXCEPT ![producer[p].artifact] = result]

\* The end of p's transaction on artifact a.
Unlocks(p, a) ==
    /\ lock' = [lock EXCEPT ![a] = None]
    /\ sharing' = sharing \ {p}

-----------------------------------------------------------------------------
(* Reservation.                                                            *)

Reserves(p, a, purpose, token) ==
    /\ producer[p].phase = "idle"
    /\ row[a].state = "absent"
    /\ row' = [row EXCEPT ![a] = [state |-> "pending", purpose |-> purpose, token |-> token,
                                  size |-> 0]]
    /\ lease' = [lease EXCEPT ![a] = "running"]
    /\ \/ producer' = [producer EXCEPT ![p] = [phase |-> "reserved", artifact |-> a]]
       \/ UNCHANGED producer      \* the commit raised
    /\ UNCHANGED <<retention, files, locks, job, cleaner, told>>

\* _reserve_output: by the execution that holds the job's claim.
ReserveOutput(p, a) ==
    /\ job.live
    /\ Reserves(p, a, "job_output", job.token)

\* Mutant: uploads in progress are not counted.
CountedAvailable(a) ==
    row[a].purpose = "chat_input" /\ row[a].state = "available" /\ retention[a] = "running"

\* The inputs that count against the quota.
Counted(a) ==
    /\ row[a].purpose = "chat_input"
    /\ \/ row[a].state = "pending"
       \/ row[a].state = "available" /\ retention[a] = "running"

Inputs == {a \in Artifacts : Counted(a)}
Units(a) == IF row[a].state = "pending" THEN MaxUnits ELSE row[a].size

\* upload_chat_input: the quota is checked under the owner's advisory lock.  A
\* repeated idempotency key finds its row and reserves nothing.
ReserveInput(p, a) ==
    /\ Cardinality(Inputs) < SessionLimit
    /\ MapThenSumSet(Units, Inputs) + MaxUnits <= OwnerUnits
    /\ Reserves(p, a, "chat_input", 0)

\* _lock_owned: the reservation is still pending and its lease lasts.
Owned(a) == row[a].state = "pending" /\ lease[a] = "running"

-----------------------------------------------------------------------------
(* Production.                                                             *)

\* _create_part: the entry is made under the lock, by an owner.
CreatePart(p) ==
    LET a == producer[p].artifact IN
    /\ producer[p].phase = "reserved" /\ lock[a] = None
    /\ \/ /\ Owned(a)
          /\ lock' = [lock EXCEPT ![a] = p]
          /\ staging' = [staging EXCEPT ![a] = "partial"]
          /\ Goes(p, "created")
          /\ UNCHANGED told
       \/ /\ Goes(p, "failing")   \* create_exclusive or the transaction raised
          /\ UNCHANGED <<lock, staging, told>>
       \/ /\ ~Owned(a)
          /\ Returns(p, "lost")
          /\ UNCHANGED <<lock, staging>>
    /\ UNCHANGED <<row, clocks, object, sharing, job, cleaner>>

PartCommits(p) ==
    /\ producer[p].phase = "created"
    /\ \E raised \in BOOLEAN : Goes(p, IF raised THEN "failing" ELSE "writing")
    /\ Unlocks(p, producer[p].artifact)
    /\ UNCHANGED <<row, clocks, files, job, cleaner, told>>

\* _write_part; a reservation that was reclaimed has no entry any more.
Write(p) ==
    LET a == producer[p].artifact IN
    /\ producer[p].phase = "writing"
    /\ staging' = [staging EXCEPT ![a] = IF @ = "partial" THEN "written" ELSE @]
    /\ Goes(p, "written")
    /\ UNCHANGED <<row, clocks, object, locks, job, cleaner, told>>

AfterSync(a) == IF row[a].purpose = "chat_input" THEN "produced" ELSE "ready"

\* Mutant: the file is closed without an fsync.
SyncCloses(p) ==
    /\ producer[p].phase = "written"
    /\ Goes(p, AfterSync(producer[p].artifact))
    /\ UNCHANGED <<row, clocks, files, locks, job, cleaner, told>>

\* sync_and_close.
Sync(p) ==
    LET a == producer[p].artifact IN
    /\ producer[p].phase = "written"
    /\ staging' = [staging EXCEPT ![a] = IF @ = "written" THEN "synced" ELSE @]
    /\ Goes(p, AfterSync(a))
    /\ UNCHANGED <<row, clocks, object, locks, job, cleaner, told>>

\* _ingest: the lease is renewed and the workbook inspected.
Inspect(p) ==
    /\ producer[p].phase = "produced"
    /\ Owned(producer[p].artifact)
    /\ Goes(p, "ready")
    /\ UNCHANGED <<row, clocks, files, locks, job, cleaner, told>>

\* The writer, the sync or the inspection raises.
ProductionFails(p) ==
    /\ producer[p].phase \in {"writing", "written", "produced"}
    /\ Goes(p, "failing")
    /\ UNCHANGED <<row, clocks, files, locks, job, cleaner, told>>

\* The lease could not be renewed: the files are left to the cleanup.
LosesLease(p) ==
    /\ \/ producer[p].phase = "writing"
       \/ producer[p].phase = "produced" /\ ~Owned(producer[p].artifact)
    /\ Returns(p, "lost")
    /\ UNCHANGED <<row, clocks, files, locks, job, cleaner>>

-----------------------------------------------------------------------------
(* Publication.                                                            *)

\* _job_row_live.
ClaimLive(a) ==
    row[a].purpose = "job_output" => job.live /\ job.token = row[a].token

\* Mutant: the job row is read without a lock.
SharesNothing(p, a) == sharing

SharesJob(p, a) == IF row[a].purpose = "job_output" THEN sharing \cup {p} ELSE sharing

\* _lock_for_publication, which ends in phase `phase' or not at all.
LocksForPublication(p, phase) ==
    LET a == producer[p].artifact IN
    /\ lock[a] = None
    /\ ClaimLive(a) /\ Owned(a)
    /\ lock' = [lock EXCEPT ![a] = p]
    /\ sharing' = SharesJob(p, a)
    /\ Goes(p, phase)
    /\ UNCHANGED told

NotPublishable(a) == lock[a] = None /\ ~(ClaimLive(a) /\ Owned(a))

SealLock(p) ==
    /\ producer[p].phase = "ready"
    /\ \/ LocksForPublication(p, "locked")
       \/ /\ NotPublishable(producer[p].artifact)
          /\ Returns(p, "lost")
          /\ UNCHANGED locks
       \/ /\ lock[producer[p].artifact] = None      \* the transaction raised
          /\ Goes(p, "failing")
          /\ UNCHANGED <<locks, told>>
    /\ UNCHANGED <<row, clocks, files, job, cleaner>>

\* durable_replace: the rename, or an error before or after it.
Rename(p) ==
    LET a == producer[p].artifact IN
    /\ producer[p].phase = "locked"
    /\ \E renamed, raised \in BOOLEAN :
          /\ renamed \/ raised
          /\ renamed => staging[a] # "none"
          /\ object' = [object EXCEPT ![a] = IF renamed THEN staging[a] ELSE @]
          /\ staging' = [staging EXCEPT ![a] = IF renamed THEN "none" ELSE @]
          /\ IF raised THEN Unlocks(p, a) /\ Goes(p, "failing")
                       ELSE UNCHANGED locks /\ Goes(p, "renamed")
    /\ UNCHANGED <<row, clocks, job, cleaner, told>>

\* The UPDATE of _seal, committed.
Seals(a) ==
    /\ \E size \in 1..MaxUnits :
          row' = [row EXCEPT ![a].state = "available", ![a].size = size]
    /\ lease' = [lease EXCEPT ![a] = None]
    /\ retention' = [retention EXCEPT ![a] = "running"]

\* Mutant: a commit that raises counts as a failure, and is cleaned up.
SealCommitFails(p) ==
    LET a == producer[p].artifact IN
    /\ producer[p].phase = "renamed"
    /\ Seals(a) /\ Unlocks(p, a)
    /\ \/ Returns(p, "sealed")
       \/ Goes(p, "failing") /\ UNCHANGED told
    /\ UNCHANGED <<files, job, cleaner>>

\* The commit of _seal: it returns; or it raises and the read-back finds the row
\* available, or does not.
SealCommit(p) ==
    LET a == producer[p].artifact IN
    /\ producer[p].phase = "renamed"
    /\ Seals(a) /\ Unlocks(p, a)
    /\ \E result \in {"sealed", "unknown"} : Returns(p, result)
    /\ UNCHANGED <<files, job, cleaner>>

\* The commit raises, or is cancelled, and the server has not ended the transaction
\* yet: the read-back does not find the row available.
SealRaises(p) ==
    /\ producer[p].phase = "renamed"
    /\ Goes(p, "limbo")
    /\ told' = [told EXCEPT ![producer[p].artifact] = "unknown"]
    /\ UNCHANGED <<row, clocks, files, locks, job, cleaner>>

\* The server ends it, one way or the other.
LimboEnds(p) ==
    LET a == producer[p].artifact IN
    /\ producer[p].phase = "limbo"
    /\ Seals(a) \/ UNCHANGED <<row, clocks>>
    /\ Unlocks(p, a)
    /\ producer' = [producer EXCEPT ![p] = Idle]
    /\ UNCHANGED <<files, job, cleaner, told>>

\* The UPDATE raises: the transaction is rolled back.
SealRollback(p) ==
    /\ producer[p].phase = "renamed"
    /\ Unlocks(p, producer[p].artifact)
    /\ Goes(p, "failing")
    /\ UNCHANGED <<row, clocks, files, job, cleaner, told>>

-----------------------------------------------------------------------------
(* D2: a producer that failed removes its own files.                       *)

\* The row of an artifact that was never published, removed.
Removed(a) == [row EXCEPT ![a].state = "removed"]

FailLock(p) ==
    /\ producer[p].phase = "failing"
    /\ \/ LocksForPublication(p, "unstaging")
       \/ /\ \/ NotPublishable(producer[p].artifact)
             \/ lock[producer[p].artifact] = None      \* the transaction raised
          /\ Returns(p, "failed")
          /\ UNCHANGED locks
    /\ UNCHANGED <<row, clocks, files, job, cleaner>>

\* What a transaction that could not remove a file commits.
FailUnlocks(p, a) ==
    /\ Unlocks(p, a)
    /\ Returns(p, "failed")

\* _removal_error, staging file first.
FailUnstages(p) ==
    LET a == producer[p].artifact IN
    /\ producer[p].phase = "unstaging"
    /\ \/ /\ staging' = [staging EXCEPT ![a] = "none"]
          /\ Goes(p, "unlinking")
          /\ UNCHANGED <<lease, locks, told>>
       \/ /\ lease' = [lease EXCEPT ![a] = "ended"]
          /\ FailUnlocks(p, a)
          /\ UNCHANGED staging
    /\ UNCHANGED <<row, retention, object, job, cleaner>>

FailUnlinks(p) ==
    LET a == producer[p].artifact IN
    /\ producer[p].phase = "unlinking"
    /\ \/ /\ object' = [object EXCEPT ![a] = "none"]
          /\ Goes(p, "unlinked")
          /\ UNCHANGED <<lease, locks, told>>
       \/ /\ lease' = [lease EXCEPT ![a] = "ended"]
          /\ FailUnlocks(p, a)
          /\ UNCHANGED object
    /\ UNCHANGED <<row, retention, staging, job, cleaner>>

\* The row is removed, unless the commit fails.
FailCommits(p) ==
    LET a == producer[p].artifact IN
    /\ producer[p].phase = "unlinked"
    /\ \/ /\ row' = Removed(a)
          /\ lease' = [lease EXCEPT ![a] = None]
       \/ UNCHANGED <<row, lease>>
    /\ FailUnlocks(p, a)
    /\ UNCHANGED <<retention, files, job, cleaner>>

-----------------------------------------------------------------------------
(* cleanup_once.                                                           *)

Cleans(c, phase) == cleaner' = [cleaner EXCEPT ![c].phase = phase]

\* Mutant: a row whose files were being removed is not taken up again.
DueAvailable(a) == row[a].state = "available" /\ retention[a] = "overdue"

Due(a) == row[a].state \in {"available", "expired"} /\ retention[a] = "overdue"

\* D1a: expire in a transaction of its own.
ExpireDue(c, a) ==
    /\ cleaner[c].phase = "idle" /\ lock[a] = None
    /\ Due(a)
    /\ row' = [row EXCEPT ![a].state = "expired"]
    /\ cleaner' = [cleaner EXCEPT ![c] = [phase |-> "expired", artifact |-> a]]
    /\ UNCHANGED <<clocks, files, locks, job, producer, told>>

UnlinkDue(c) ==
    LET a == cleaner[c].artifact IN
    /\ cleaner[c].phase = "expired"
    /\ \/ /\ object' = [object EXCEPT ![a] = "none"]
          /\ Cleans(c, "marking")
       \/ /\ cleaner' = [cleaner EXCEPT ![c] = Idle]      \* the failure is recorded
          /\ UNCHANGED object
    /\ UNCHANGED <<row, clocks, staging, locks, job, producer, told>>

MarkRemoved(c) ==
    LET a == cleaner[c].artifact IN
    /\ cleaner[c].phase = "marking" /\ lock[a] = None
    /\ row' = [row EXCEPT ![a].state = IF @ = "expired" THEN "removed" ELSE @]
    /\ cleaner' = [cleaner EXCEPT ![c] = Idle]
    /\ UNCHANGED <<clocks, files, locks, job, producer, told>>

\* D1b: the reservation's lease ended a minute ago, and the lock is held until
\* the row is removed.
Reclaimable(a) == row[a].state = "pending" /\ lease[a] = "overdue"

ReclaimLock(c, a) ==
    /\ cleaner[c].phase = "idle" /\ lock[a] = None
    /\ Reclaimable(a)
    /\ lock' = [lock EXCEPT ![a] = c]
    /\ cleaner' = [cleaner EXCEPT ![c] = [phase |-> "unstaging", artifact |-> a]]
    /\ UNCHANGED <<row, clocks, files, sharing, job, producer, told>>

\* The removal or the commit fails: the row stays pending.
ReclaimFails(c) ==
    /\ cleaner[c].phase \in {"unstaging", "unlinking", "unlinked"}
    /\ lock' = [lock EXCEPT ![cleaner[c].artifact] = None]
    /\ cleaner' = [cleaner EXCEPT ![c] = Idle]
    /\ UNCHANGED <<row, clocks, files, sharing, job, producer, told>>

ReclaimUnstages(c) ==
    /\ cleaner[c].phase = "unstaging"
    /\ staging' = [staging EXCEPT ![cleaner[c].artifact] = "none"]
    /\ Cleans(c, "unlinking")
    /\ UNCHANGED <<row, clocks, object, locks, job, producer, told>>

\* Mutant: an abandoned reservation is taken to have no published file.
ReclaimUnlinksNothing(c) ==
    /\ cleaner[c].phase = "unlinking"
    /\ Cleans(c, "unlinked")
    /\ UNCHANGED <<row, clocks, files, locks, job, producer, told>>

ReclaimUnlinks(c) ==
    /\ cleaner[c].phase = "unlinking"
    /\ object' = [object EXCEPT ![cleaner[c].artifact] = "none"]
    /\ Cleans(c, "unlinked")
    /\ UNCHANGED <<row, clocks, staging, locks, job, producer, told>>

ReclaimCommits(c) ==
    LET a == cleaner[c].artifact IN
    /\ cleaner[c].phase = "unlinked"
    /\ row' = Removed(a)
    /\ lease' = [lease EXCEPT ![a] = None]
    /\ lock' = [lock EXCEPT ![a] = None]
    /\ cleaner' = [cleaner EXCEPT ![c] = Idle]
    /\ UNCHANGED <<retention, files, sharing, job, producer, told>>

-----------------------------------------------------------------------------
(* Time, the job and crashes.                                              *)

Later(clock) == IF clock = "running" THEN "ended" ELSE "overdue"

\* The lease runs out, at the latest ten minutes after the reservation.
LeaseRuns(a) ==
    /\ lease[a] \in {"running", "ended"}
    /\ lease' = [lease EXCEPT ![a] = Later(@)]
    /\ UNCHANGED <<row, retention, files, locks, job, producer, cleaner, told>>

RetentionRuns(a) ==
    /\ retention[a] \in {"running", "ended"}
    /\ retention' = [retention EXCEPT ![a] = Later(@)]
    /\ UNCHANGED <<row, lease, files, locks, job, producer, cleaner, told>>

\* The job is claimed by a new execution; its row must not be share-locked.
JobClaimed ==
    /\ ~job.live /\ job.token < MaxClaims /\ sharing = {}
    /\ job' = [token |-> job.token + 1, live |-> TRUE]
    /\ UNCHANGED <<row, clocks, files, locks, producer, cleaner, told>>

\* The job ends, or is dispatched again.
JobLeaves ==
    /\ job.live /\ sharing = {}
    /\ job' = [job EXCEPT !.live = FALSE]
    /\ UNCHANGED <<row, clocks, files, locks, producer, cleaner, told>>

\* The call is cancelled or its process dies: its transaction is rolled back.
ProducerDies(p) ==
    /\ producer[p].phase \notin {"idle", "limbo"}
    /\ lock' = [a \in Artifacts |-> IF lock[a] = p THEN None ELSE lock[a]]
    /\ sharing' = sharing \ {p}
    /\ producer' = [producer EXCEPT ![p] = Idle]
    /\ UNCHANGED <<row, clocks, files, job, cleaner, told>>

CleanerDies(c) ==
    /\ cleaner[c].phase # "idle"
    /\ lock' = [a \in Artifacts |-> IF lock[a] = c THEN None ELSE lock[a]]
    /\ cleaner' = [cleaner EXCEPT ![c] = Idle]
    /\ UNCHANGED <<row, clocks, files, sharing, job, producer, told>>

Survives(file) == IF file = "written" THEN "partial" ELSE file

\* The host loses power: what was not synced is gone.
PowerLoss ==
    /\ staging' = [a \in Artifacts |-> Survives(staging[a])]
    /\ object' = [a \in Artifacts |-> Survives(object[a])]
    /\ lock' = [a \in Artifacts |-> None]
    /\ sharing' = {}
    /\ producer' = [p \in Producers |-> Idle]
    /\ cleaner' = [c \in Cleaners |-> Idle]
    /\ UNCHANGED <<row, clocks, job, told>>

-----------------------------------------------------------------------------
Produce(p) ==
    \/ CreatePart(p) \/ PartCommits(p) \/ Write(p) \/ Sync(p) \/ Inspect(p)
    \/ ProductionFails(p) \/ LosesLease(p)
    \/ SealLock(p) \/ Rename(p) \/ SealCommit(p) \/ SealRaises(p) \/ LimboEnds(p)
    \/ SealRollback(p)
    \/ FailLock(p) \/ FailUnstages(p) \/ FailUnlinks(p) \/ FailCommits(p)

Clean(c) ==
    \/ \E a \in Artifacts : ExpireDue(c, a) \/ ReclaimLock(c, a)
    \/ UnlinkDue(c) \/ MarkRemoved(c)
    \/ ReclaimUnstages(c) \/ ReclaimUnlinks(c) \/ ReclaimCommits(c) \/ ReclaimFails(c)

Next ==
    \/ \E p \in Producers :
          \/ \E a \in Artifacts : ReserveOutput(p, a) \/ ReserveInput(p, a)
          \/ Produce(p) \/ ProducerDies(p)
    \/ \E c \in Cleaners : Clean(c) \/ CleanerDies(c)
    \/ \E a \in Artifacts : LeaseRuns(a) \/ RetentionRuns(a)
    \/ JobClaimed \/ JobLeaves \/ PowerLoss

Spec == Init /\ [][Next]_vars

\* Time passes, the database ends every transaction, the calls go on or die, and
\* cleanup runs every ten minutes without failing every time.
Fairness ==
    /\ \A a \in Artifacts : WF_vars(LeaseRuns(a)) /\ WF_vars(RetentionRuns(a))
    /\ \A p \in Producers : WF_vars(Produce(p) \/ ProducerDies(p))
    /\ \A c \in Cleaners :
          /\ \A a \in Artifacts : SF_vars(ExpireDue(c, a)) /\ SF_vars(ReclaimLock(c, a))
          /\ WF_vars(Clean(c) \/ CleanerDies(c))
          /\ SF_vars(UnlinkDue(c) /\ cleaner'[c].phase = "marking") /\ SF_vars(MarkRemoved(c))
          /\ SF_vars(ReclaimUnstages(c)) /\ SF_vars(ReclaimUnlinks(c))
          /\ SF_vars(ReclaimCommits(c))

FairSpec == Spec /\ Fairness

-----------------------------------------------------------------------------
(* Properties.                                                             *)

\* An available artifact has its whole file on disk, also after a crash of its
\* producer, of the cleanup or of the host at any point.
AvailableIsWhole ==
    \A a \in Artifacts : row[a].state = "available" => object[a] = "synced"

\* A removed artifact has left no file behind, and nothing adds one later: a
\* producer whose reservation was reclaimed while it was slow finds it lost.
\* (That a power loss may undo an unlink is outside the model.)
RemovedLeavesNothing ==
    \A a \in Artifacts : row[a].state \in {"absent", "removed"} =>
        staging[a] = "none" /\ object[a] = "none"

\* The caller was told the truth: what it was told is sealed is available until
\* its retention ends, and what it was told failed or was lost never shows up.
ToldTruly ==
    \A a \in Artifacts :
        /\ told[a] = "sealed" => row[a].state = "available" \/ retention[a] = "overdue"
        /\ told[a] \in {"failed", "lost"} => row[a].state \in {"pending", "removed"}

\* A job's output becomes available only while the execution that reserved it
\* holds the job's claim, although the claim is checked long before the commit.
FencedPublication ==
    [][\A a \in Artifacts :
          row[a].state = "pending" /\ row'[a].state = "available" => ClaimLive(a)]_vars

LiveInputs == {a \in Artifacts : /\ row[a].purpose = "chat_input"
                                 /\ row[a].state \in {"pending", "available"}
                                 /\ row[a].state = "available" => retention[a] = "running"}

\* However uploads overlap, the live inputs of a session stay within its limit.
SessionWithinLimit == Cardinality(LiveInputs) <= SessionLimit

\* The live inputs stay within the limit of the session and the owner's bytes.
QuotaHolds ==
    /\ SessionWithinLimit
    /\ MapThenSumSet(LAMBDA a : row[a].size, LiveInputs) <= OwnerUnits

\* Nothing stays on disk for ever: every reservation is sealed or reclaimed, and
\* every sealed file is removed after its retention, even if the cleanup dies
\* between the unlink and its mark.
EventuallyRemoved ==
    \A a \in Artifacts : row[a].state = "pending" ~> row[a].state = "removed"

=============================================================================
