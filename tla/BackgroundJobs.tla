--------------------------- MODULE BackgroundJobs ---------------------------
(***************************************************************************)
(* The background job subsystem: the ledger table public.background_jobs   *)
(* (app/infra/jobs/ledger.py), the Procrastinate queue rows it refers to   *)
(* (app/infra/jobs/queue_sql.py and the pinned schema.sql), the execution  *)
(* wrapper a worker runs for a fetched row (app/infra/jobs/execution.py)   *)
(* and the periodic reconcile (app/infra/jobs/reconcile.py).               *)
(*                                                                         *)
(* The ledger row is the serialization point: every action that touches a  *)
(* ledger row is one database transaction on that row.  Only `cancel'      *)
(* reads the queue row without a lock and then updates it, so it is two    *)
(* steps here, between which the worker can move the queue row.            *)
(***************************************************************************)
EXTENDS Integers, FiniteSets

CONSTANTS
    Jobs,           \* job_id values of the ledger
    Owners,         \* (tenant_id, ai_user_id) pairs
    Keys,           \* idempotency keys a client may send
    QueueIds,       \* ids of procrastinate_jobs rows, a bigserial
    None,           \* SQL NULL
    MaxActive,      \* MAX_ACTIVE_JOBS_PER_USER
    MaxDispatches   \* MAX_DISPATCHES

ASSUME MaxActiveAssumption == MaxActive \in Nat \ {0}
ASSUME MaxDispatchesAssumption == MaxDispatches \in Nat \ {0}
ASSUME QueueIdsAssumption == QueueIds \subseteq Nat
ASSUME NoneAssumption ==
    /\ None \notin Jobs \cup Owners \cup Keys \cup QueueIds
    /\ None \notin {"ok", "handler_failed", "user", "cancel_requested"}

VARIABLES
    ledger,      \* the ledger row of each job id; status "absent" before INSERT
    queue,       \* the queue rows; status "absent" before INSERT
    exec,        \* the worker's execution of each fetched queue row
    accepting,   \* open accept transactions, past their checks
    cancelTx     \* per job: the queue status an open cancel transaction read

vars == <<ledger, queue, exec, accepting, cancelTx>>

-----------------------------------------------------------------------------
(* Types.                                                                  *)

ActiveStatuses == {"accepted", "running", "cancel_requested"}
TERMINAL_STATUSES == {"succeeded", "failed", "cancelled"}
LiveStatuses == {"running", "cancel_requested"}
ResultCodes == {"ok", "handler_failed", "cancelled", "cancelled_after_interrupt",
                "worker_interrupted"}

\* A claim token is a fresh uuid4; the number of claims of the job so far is
\* as fresh, because every use of a token also compares the job id.
LedgerRow ==
    [status: ActiveStatuses \cup TERMINAL_STATUSES \cup {"absent"},
     owner: Owners \cup {None},
     key: Keys \cup {None},
     queue_job_id: QueueIds \cup {None},
     claim_token: Nat,                      \* 0 is NULL
     heartbeat: {None, "fresh", "stale"},   \* age against HEARTBEAT_STALE
     dispatch_count: Nat,
     attempt_count: Nat,
     result_code: ResultCodes \cup {None},
     cancel_asked: BOOLEAN]                 \* cancel_requested_at IS NOT NULL

QueueEnd == {"succeeded", "failed", "aborted"}
QueueStatus == {"absent", "todo", "doing", "cancelled"} \cup QueueEnd

QueueRow ==
    [status: QueueStatus,
     job: Jobs \cup {None},
     abort_requested: BOOLEAN,
     overdue: BOOLEAN]            \* started_at at least CLAIM_GRACE ago

\* One run of BackgroundJobRunner.run: the wrapper W, its handler task H and
\* its heartbeat task B.
Execution ==
    [phase: {"idle", "fetched", "running", "exiting", "over"},
     token: Nat,                                    \* the token run holds
     handler: {"none", "active", "succeeded", "failed", "cancelled"},
     beating: BOOLEAN,                              \* B has not returned
     reply: LiveStatuses \cup {"lost", None},       \* heartbeat answer in flight
     cause: {"user", "lost", None},                 \* _CancelCause.value
     pending_cancel: BOOLEAN,
     exit: QueueEnd \cup {None}]                    \* how run ended

NoRow ==
    [status |-> "absent", owner |-> None, key |-> None, queue_job_id |-> None,
     claim_token |-> 0, heartbeat |-> None, dispatch_count |-> 0,
     attempt_count |-> 0, result_code |-> None, cancel_asked |-> FALSE]

NoQueueRow ==
    [status |-> "absent", job |-> None, abort_requested |-> FALSE, overdue |-> FALSE]

NoExecution ==
    [phase |-> "idle", token |-> 0, handler |-> "none", beating |-> FALSE,
     reply |-> None, cause |-> None, pending_cancel |-> FALSE, exit |-> None]

Init ==
    /\ ledger = [j \in Jobs |-> NoRow]
    /\ queue = [q \in QueueIds |-> NoQueueRow]
    /\ exec = [q \in QueueIds |-> NoExecution]
    /\ accepting = {}
    /\ cancelTx = [j \in Jobs |-> None]

-----------------------------------------------------------------------------
(* Queue SQL.                                                              *)

QueueRowFinished(row) == row.status \notin {"todo", "doing"}

\* procrastinate_defer_jobs_v1: a new row starts as todo.
Deferred(j) == [NoQueueRow EXCEPT !.status = "todo", !.job = j]

\* A new row takes the next id; the ids rolled-back inserts used up do not show.
NextId(q) ==
    /\ queue[q].status = "absent"
    /\ \A p \in QueueIds : p < q => queue[p].status # "absent"

Retired(row) == [row EXCEPT !.status = "cancelled"]
FetchedRow(row) == [row EXCEPT !.status = "doing"]
FinishedRow(row, how) == [row EXCEPT !.status = how, !.abort_requested = FALSE]
OverdueRow(row) == [row EXCEPT !.overdue = TRUE]

\* procrastinate_cancel_job_v1(id, abort = true, delete_job = false) on a row
\* it changes: todo is cancelled, doing is asked to abort.
Aborted(row) ==
    [row EXCEPT !.abort_requested = TRUE,
                !.status = IF row.status = "todo" THEN "cancelled" ELSE row.status]

-----------------------------------------------------------------------------
(* Acceptance.                                                             *)

Active(o) == {j \in Jobs : ledger[j].owner = o /\ ledger[j].status \in ActiveStatuses}

\* Mutant: no advisory lock.
AcceptCheckUnlocked(o, k) ==
    /\ \A j \in Jobs : <<ledger[j].owner, ledger[j].key>> # <<o, k>>
    /\ Cardinality(Active(o)) < MaxActive
    /\ accepting' = accepting \cup {[owner |-> o, key |-> k]}
    /\ UNCHANGED <<ledger, queue, exec, cancelTx>>

\* Mutant: the idempotency key is not looked up.
AcceptCheckAnyKey(o, k) ==
    /\ \A tx \in accepting : tx.owner # o
    /\ Cardinality(Active(o)) < MaxActive
    /\ accepting' = accepting \cup {[owner |-> o, key |-> k]}
    /\ UNCHANGED <<ledger, queue, exec, cancelTx>>

\* The checks of `accept', under the owner's advisory lock, which is held to
\* the end of the transaction.  A known key answers without changing anything.
AcceptCheck(o, k) ==
    /\ \A tx \in accepting : tx.owner # o
    /\ \A j \in Jobs : <<ledger[j].owner, ledger[j].key>> # <<o, k>>
    /\ Cardinality(Active(o)) < MaxActive
    /\ accepting' = accepting \cup {[owner |-> o, key |-> k]}
    /\ UNCHANGED <<ledger, queue, exec, cancelTx>>

AcceptedRow(tx, q) ==
    [NoRow EXCEPT !.status = "accepted", !.owner = tx.owner, !.key = tx.key,
                  !.queue_job_id = q, !.dispatch_count = 1]

\* COMMIT makes the queue row and the ledger row visible together.  The client
\* may still see accept_outcome_unknown and repeat the request.
AcceptCommit(tx, j, q) ==
    /\ tx \in accepting
    /\ ledger[j].status = "absent"
    /\ NextId(q)
    /\ queue' = [queue EXCEPT ![q] = Deferred(j)]
    /\ ledger' = [ledger EXCEPT ![j] = AcceptedRow(tx, q)]
    /\ accepting' = accepting \ {tx}
    /\ UNCHANGED <<exec, cancelTx>>

\* An exception before COMMIT, or a COMMIT that failed: nothing is left behind.
AcceptRollback(tx) ==
    /\ tx \in accepting
    /\ accepting' = accepting \ {tx}
    /\ UNCHANGED <<ledger, queue, exec, cancelTx>>

-----------------------------------------------------------------------------
(* Cancellation by the owner.                                              *)

\* No open cancel transaction holds the row lock of j.
Unlocked(j) == cancelTx[j] = None

\* `cancel' locks the ledger row and reads the queue row without locking it.
\* A terminal or already cancelling job is answered as it is.
CancelRead(j) ==
    /\ Unlocked(j)
    /\ ledger[j].status \in {"accepted", "running"}
    /\ cancelTx' = [cancelTx EXCEPT ![j] = queue[ledger[j].queue_job_id].status]
    /\ UNCHANGED <<ledger, queue, exec, accepting>>

\* What _set_status writes.
WithStatus(row, status, code) ==
    [row EXCEPT !.status = status, !.result_code = code, !.cancel_asked = TRUE]

\* The rest of `cancel': cancel_job changes the queue row unless it finished,
\* now or when it was read, and the ledger row follows.
CancelApply(j) ==
    LET q == ledger[j].queue_job_id
        read == cancelTx[j]
        changed == /\ read \in {"todo", "doing"}
                   /\ ~QueueRowFinished(queue[q])
    IN  /\ ~Unlocked(j)
        /\ queue' = IF changed THEN [queue EXCEPT ![q] = Aborted(queue[q])] ELSE queue
        /\ ledger' = [ledger EXCEPT ![j] =
                IF changed /\ ledger[j].status = "running" /\ read = "doing"
                THEN WithStatus(@, "cancel_requested", None)
                ELSE IF changed
                THEN WithStatus(@, "cancelled", "cancelled")
                ELSE WithStatus(@, "cancelled", "cancelled_after_interrupt")]
        /\ cancelTx' = [cancelTx EXCEPT ![j] = None]
        /\ UNCHANGED <<exec, accepting>>

\* The transaction fails or its connection is lost.
CancelRollback(j) ==
    /\ ~Unlocked(j)
    /\ cancelTx' = [cancelTx EXCEPT ![j] = None]
    /\ UNCHANGED <<ledger, queue, exec, accepting>>

-----------------------------------------------------------------------------
(* The worker: fetch and claim.                                            *)

\* run returns or raises: its local state is gone.  The token and the way H
\* ended are kept for the properties.
Left(e, phase, how) ==
    [NoExecution EXCEPT !.phase = phase, !.exit = how, !.token = e.token,
                        !.handler = e.handler]

\* procrastinate_fetch_job_v2: the worker takes a todo row.
Fetch(q) ==
    /\ queue[q].status = "todo"
    /\ queue' = [queue EXCEPT ![q] = FetchedRow(@)]
    /\ exec' = [exec EXCEPT ![q] = [NoExecution EXCEPT !.phase = "fetched"]]
    /\ UNCHANGED <<ledger, accepting, cancelTx>>

\* The condition under which `claim' takes the row.
Claimable(j, q) == ledger[j].status = "accepted" /\ ledger[j].queue_job_id = q

\* Mutant: the token identifies the job instead of the claim.
ClaimedSameToken(row) ==
    [row EXCEPT !.status = "running", !.claim_token = 1,
                !.heartbeat = "fresh", !.attempt_count = row.attempt_count + 1]

Claimed(row) ==
    [row EXCEPT !.status = "running", !.claim_token = row.attempt_count + 1,
                !.heartbeat = "fresh", !.attempt_count = row.attempt_count + 1]

\* H and B of a fresh claim.
Started(token) ==
    [NoExecution EXCEPT !.phase = "running", !.token = token, !.handler = "active",
                        !.beating = TRUE]

\* run claims and starts H and B, or finds itself stale and returns.
Claim(q) ==
    LET j == queue[q].job IN
    /\ exec[q].phase = "fetched"
    /\ Unlocked(j)
    /\ IF Claimable(j, q)
       THEN /\ ledger' = [ledger EXCEPT ![j] = Claimed(@)]
            /\ exec' = [exec EXCEPT ![q] = Started(Claimed(ledger[j]).claim_token)]
       ELSE /\ exec' = [exec EXCEPT ![q] = Left(@, "exiting", "succeeded")]
            /\ UNCHANGED ledger
    /\ UNCHANGED <<queue, accepting, cancelTx>>

\* The claim transaction is cancelled or fails; its commit may have happened
\* without run learning the token.
ClaimInterrupted(q, committed) ==
    LET j == queue[q].job IN
    /\ exec[q].phase = "fetched"
    /\ committed => Unlocked(j) /\ Claimable(j, q)
    /\ ledger' = IF committed THEN [ledger EXCEPT ![j] = Claimed(@)] ELSE ledger
    /\ \E how \in {"failed", "aborted"} :
          exec' = [exec EXCEPT ![q] = Left(@, "exiting", how)]
    /\ UNCHANGED <<queue, accepting, cancelTx>>

-----------------------------------------------------------------------------
(* The worker: W, H and B of a claimed job.                                *)

\* Mutant: the status alone decides.
LiveAnyToken(j, token) == ledger[j].status \in LiveStatuses

\* _LIVE_EXECUTION: the row is still this claim's.
Live(j, token) == ledger[j].claim_token = token /\ ledger[j].status \in LiveStatuses

\* _CancelCause.set is write-once.
CauseSet(old, new) == IF old = None THEN new ELSE old

HandlerDone(q) == exec[q].handler # "active"

Interrupted(e, reason) ==
    [e EXCEPT !.pending_cancel = TRUE,
              !.cause = IF e.handler = "active" THEN CauseSet(e.cause, reason) ELSE e.cause]

\* Procrastinate cancels W, for the owner's abort request or for a shutdown.
\* An unfinished H is cancelled only by the first cause; afterwards W goes on
\* waiting.
Interrupt(q, reason) ==
    /\ exec[q].phase = "running"
    /\ reason = "user" => queue[q].abort_requested
    /\ exec' = [exec EXCEPT ![q] = Interrupted(@, reason)]
    /\ UNCHANGED <<ledger, queue, accepting, cancelTx>>

Beaten(row) == [row EXCEPT !.heartbeat = "fresh"]
Replied(e, reply) == [e EXCEPT !.reply = reply]

\* B's conditional update.  Its answer is used later, or never when the call
\* raised after the commit (answered is FALSE) and B goes on to the next beat.
HeartbeatWrite(q, answered) ==
    LET j == queue[q].job
        live == Live(j, exec[q].token)
    IN  /\ exec[q].phase = "running" /\ exec[q].beating /\ exec[q].reply = None
        /\ ~HandlerDone(q)
        /\ Unlocked(j)
        /\ ledger' = IF live THEN [ledger EXCEPT ![j] = Beaten(@)] ELSE ledger
        /\ exec' = [exec EXCEPT ![q] = Replied(@,
                IF ~answered THEN None ELSE IF live THEN ledger[j].status ELSE "lost")]
        /\ UNCHANGED <<queue, accepting, cancelTx>>

\* Mutant: B does not look for a cancellation.
CauseOfLossOnly(reply) == IF reply = "lost" THEN "lost" ELSE None

\* The cause a heartbeat answer stands for, if any.
CauseOf(reply) ==
    CASE reply = "lost" -> "lost"
      [] reply = "cancel_requested" -> "user"
      [] OTHER -> None

\* B looks at the answer: late ones are ignored, a lost claim or a cancellation
\* cancels H, and B returns.
AnswerSeen(e) ==
    LET new == IF e.handler = "active" THEN CauseOf(e.reply) ELSE None IN
    [e EXCEPT !.reply = None,
              !.beating = e.handler = "active" /\ new = None,
              !.cause = IF new = None THEN e.cause ELSE CauseSet(e.cause, new)]

HeartbeatAnswer(q) ==
    /\ exec[q].phase = "running" /\ exec[q].reply # None
    /\ exec' = [exec EXCEPT ![q] = AnswerSeen(@)]
    /\ UNCHANGED <<ledger, queue, accepting, cancelTx>>

Ended(e, how) == [e EXCEPT !.handler = how]

\* H finishes; it ends as cancelled only after handler.cancel(), which always
\* goes with a cause.
HandlerEnds(q, how) ==
    /\ exec[q].phase = "running" /\ ~HandlerDone(q)
    /\ how \in {"succeeded", "failed", "cancelled"}
    /\ how = "cancelled" => exec[q].cause # None
    /\ exec' = [exec EXCEPT ![q] = Ended(@, how)]
    /\ UNCHANGED <<ledger, queue, accepting, cancelTx>>

\* H and B are done: _outcome reads off the final status from how H ended.
ReadyToFinish(q) == exec[q].phase = "running" /\ HandlerDone(q) /\ exec[q].reply = None

Lost(q) == exec[q].handler = "cancelled" /\ exec[q].cause # "user"

FinalCode(status) ==
    CASE status = "succeeded" -> "ok"
      [] status = "failed" -> "handler_failed"
      [] OTHER -> "cancelled"

\* A terminal status with its code.
Closed(row, status, code) == [row EXCEPT !.status = status, !.result_code = code]

\* `finalize': one conditional update under the claim token.
Finalized(row, status) == Closed(row, status, FinalCode(status))

\* A lost execution writes nothing and raises.
FinishLost(q) ==
    /\ ReadyToFinish(q) /\ Lost(q)
    /\ exec' = [exec EXCEPT ![q] = Left(@, "exiting", "aborted")]
    /\ UNCHANGED <<ledger, queue, accepting, cancelTx>>

\* The final write F, applied or found stale, and how run then leaves.
FinalWrite(q) ==
    LET j == queue[q].job
        status == exec[q].handler
    IN  /\ ReadyToFinish(q) /\ ~Lost(q)
        /\ Unlocked(j)
        /\ ledger' = IF Live(j, exec[q].token)
                     THEN [ledger EXCEPT ![j] = Finalized(@, status)] ELSE ledger
        /\ exec' = [exec EXCEPT ![q] = Left(@, "exiting",
                IF @.pending_cancel \/ status = "cancelled" THEN "aborted" ELSE "succeeded")]
        /\ UNCHANGED <<queue, accepting, cancelTx>>

\* F raises: its transaction may or may not have been committed.
FinalWriteFails(q, committed) ==
    LET j == queue[q].job
        status == exec[q].handler
    IN  /\ ReadyToFinish(q) /\ ~Lost(q)
        /\ committed => Unlocked(j)
        /\ ledger' = IF committed /\ Live(j, exec[q].token)
                     THEN [ledger EXCEPT ![j] = Finalized(@, status)] ELSE ledger
        /\ exec' = [exec EXCEPT ![q] = Left(@, "exiting", "failed")]
        /\ UNCHANGED <<queue, accepting, cancelTx>>

\* Procrastinate records how the task ended (procrastinate_finish_job_v1).
FinishRow(q) ==
    /\ exec[q].phase = "exiting"
    /\ queue[q].status \in {"todo", "doing"}
    /\ queue' = [queue EXCEPT ![q] = FinishedRow(@, exec[q].exit)]
    /\ exec' = [exec EXCEPT ![q] = Left(@, "over", None)]
    /\ UNCHANGED <<ledger, accepting, cancelTx>>

\* The worker process dies: the queue row stays as it is.
Crash(q) ==
    /\ exec[q].phase \in {"fetched", "running", "exiting"}
    /\ exec' = [exec EXCEPT ![q] = Left(@, "over", None)]
    /\ UNCHANGED <<ledger, queue, accepting, cancelTx>>

-----------------------------------------------------------------------------
(* Time: only whether a limit has passed is kept.                          *)

Aged(row) == [row EXCEPT !.heartbeat = "stale"]

\* HEARTBEAT_STALE passes since the last heartbeat of j.
HeartbeatAges(j) ==
    /\ ledger[j].heartbeat = "fresh" /\ ledger[j].status \in LiveStatuses
    /\ ledger' = [ledger EXCEPT ![j] = Aged(@)]
    /\ UNCHANGED <<queue, exec, accepting, cancelTx>>

\* CLAIM_GRACE passes since q was fetched.
GraceElapses(q) ==
    /\ queue[q].status = "doing" /\ ~queue[q].overdue
    /\ queue' = [queue EXCEPT ![q] = OverdueRow(@)]
    /\ UNCHANGED <<ledger, exec, accepting, cancelTx>>

-----------------------------------------------------------------------------
(* Reconcile: one candidate row per transaction, FOR UPDATE SKIP LOCKED.   *)

HeartbeatStale(j) == ledger[j].heartbeat # "fresh"

\* A cancellation nobody will finish any more is finished here.
ReconcileCancel(j) ==
    /\ Unlocked(j)
    /\ ledger[j].status = "cancel_requested"
    /\ HeartbeatStale(j) \/ QueueRowFinished(queue[ledger[j].queue_job_id])
    /\ ledger' = [ledger EXCEPT ![j] = Closed(@, "cancelled", "cancelled_after_interrupt")]
    /\ UNCHANGED <<queue, exec, accepting, cancelTx>>

\* Mutant: a row fetched by a worker that died before claiming is not recovered.
AcceptedNeedsRecoveryFinished(row) == QueueRowFinished(row)

AcceptedNeedsRecovery(row) ==
    \/ QueueRowFinished(row)
    \/ row.status = "doing" /\ row.overdue

\* Mutant: a stale cancellation is dispatched again.
StalledOrCancelling(j) ==
    \/ ledger[j].status = "accepted" /\ AcceptedNeedsRecovery(queue[ledger[j].queue_job_id])
    \/ ledger[j].status \in LiveStatuses /\ HeartbeatStale(j)

\* The accepted or running row has no execution that will finish it in time.
Stalled(j) ==
    \/ ledger[j].status = "accepted" /\ AcceptedNeedsRecovery(queue[ledger[j].queue_job_id])
    \/ ledger[j].status = "running" /\ HeartbeatStale(j)

\* Mutant: off by one.
ExhaustedLate(j) == ledger[j].dispatch_count > MaxDispatches

Exhausted(j) == ledger[j].dispatch_count >= MaxDispatches

GiveUp(j) ==
    /\ Unlocked(j) /\ Stalled(j)
    /\ Exhausted(j)
    /\ ledger' = [ledger EXCEPT ![j] = Closed(@, "failed", "worker_interrupted")]
    /\ UNCHANGED <<queue, exec, accepting, cancelTx>>

Requeued(row, q) ==
    [row EXCEPT !.status = "accepted", !.queue_job_id = q, !.claim_token = 0,
                !.heartbeat = None, !.dispatch_count = row.dispatch_count + 1]

\* A new queue row; an old todo row is cancelled, an old doing row left alone.
Redispatch(j, q) ==
    LET old == ledger[j].queue_job_id
        retired == IF queue[old].status = "todo"
                   THEN [queue EXCEPT ![old] = Retired(@)] ELSE queue
    IN  /\ Unlocked(j) /\ Stalled(j)
        /\ ~Exhausted(j)
        /\ NextId(q)
        /\ queue' = [retired EXCEPT ![q] = Deferred(j)]
        /\ ledger' = [ledger EXCEPT ![j] = Requeued(@, q)]
        /\ UNCHANGED <<exec, accepting, cancelTx>>

-----------------------------------------------------------------------------
Reconcile(j) ==
    \/ ReconcileCancel(j)
    \/ GiveUp(j)
    \/ \E q \in QueueIds : Redispatch(j, q)

Run(q) ==
    \/ Claim(q)
    \/ \E committed \in BOOLEAN : ClaimInterrupted(q, committed)
    \/ \E reason \in {"user", "lost"} : Interrupt(q, reason)
    \/ \E answered \in BOOLEAN : HeartbeatWrite(q, answered)
    \/ HeartbeatAnswer(q)
    \/ \E how \in {"succeeded", "failed", "cancelled"} : HandlerEnds(q, how)
    \/ FinishLost(q)
    \/ FinalWrite(q)
    \/ \E committed \in BOOLEAN : FinalWriteFails(q, committed)

Accept ==
    \/ \E o \in Owners, k \in Keys : AcceptCheck(o, k)
    \/ \E tx \in accepting :
          \/ AcceptRollback(tx)
          \/ \E j \in Jobs, q \in QueueIds : AcceptCommit(tx, j, q)

Cancel(j) == CancelRead(j) \/ CancelApply(j) \/ CancelRollback(j)

Next ==
    \/ Accept
    \/ \E j \in Jobs : Cancel(j) \/ Reconcile(j) \/ HeartbeatAges(j)
    \/ \E q \in QueueIds : Fetch(q) \/ Run(q) \/ FinishRow(q) \/ Crash(q) \/ GraceElapses(q)

Spec == Init /\ [][Next]_vars

\* The database and a worker keep running: a fetched task proceeds, reconcile
\* runs every minute, time passes, and neither the cancel transactions nor the
\* heartbeats that are tried again and again fail every time.
Infrastructure ==
    /\ \A j \in Jobs :
          /\ WF_vars(Reconcile(j))
          /\ WF_vars(HeartbeatAges(j))
          /\ SF_vars(CancelApply(j))
    /\ \A q \in QueueIds :
          /\ WF_vars(Fetch(q))
          /\ WF_vars(GraceElapses(q))
          /\ WF_vars(Claim(q))
          /\ WF_vars(HeartbeatAnswer(q))
          /\ SF_vars(HeartbeatWrite(q, TRUE))
          /\ WF_vars(FinishLost(q) \/ FinalWrite(q))
          /\ WF_vars(FinishRow(q))

FairSpec == Spec /\ Infrastructure

\* Handlers terminate (run_self_check waits a bounded time).  FairSpec does not
\* promise it: a handler may ignore its cancellation for ever.
HandlersEnd ==
    \A q \in QueueIds :
        WF_vars(\E how \in {"succeeded", "failed", "cancelled"} : HandlerEnds(q, how))

-----------------------------------------------------------------------------
(* Properties.                                                             *)

\* Every variable keeps the shape of its table or object.
TypeOK ==
    /\ ledger \in [Jobs -> LedgerRow]
    /\ queue \in [QueueIds -> QueueRow]
    /\ exec \in [QueueIds -> Execution]
    /\ accepting \subseteq [owner: Owners, key: Keys]
    /\ cancelTx \in [Jobs -> QueueStatus \cup {None}]

\* A running row, or one being cancelled, is held by the execution of the queue
\* row it refers to and by no other, however many earlier executions of the job
\* are still alive: finalize and heartbeat of a replaced execution match nothing.
Fencing ==
    \A q \in QueueIds :
        LET j == queue[q].job IN
        exec[q].phase = "running" /\ Live(j, exec[q].token)
            => ledger[j].queue_job_id = q

\* A queue row that waits for a worker is the one its accepted job refers to:
\* neither cancel nor reconcile leaves a row behind that would run for nothing.
NoOrphanQueueRow ==
    \A q \in QueueIds : queue[q].status = "todo" =>
        /\ ledger[queue[q].job].status = "accepted"
        /\ ledger[queue[q].job].queue_job_id = q

\* A job is handed to the queue at most MaxDispatches times and its handler is
\* started at most once per dispatch, across crashes and lost claims.
BoundedExecutions ==
    \A j \in Jobs :
        /\ ledger[j].dispatch_count <= MaxDispatches
        /\ ledger[j].attempt_count <= ledger[j].dispatch_count

\* An owner never has more than MaxActive unfinished jobs, however requests
\* to accept overlap.
ActiveLimit == \A o \in Owners : Cardinality(Active(o)) <= MaxActive

\* One idempotency key of one owner never names two jobs, even when a client
\* repeats a request whose commit outcome it could not learn.
IdempotentAccept ==
    \A i, j \in Jobs :
        /\ ledger[i].status # "absent"
        /\ <<ledger[i].owner, ledger[i].key>> = <<ledger[j].owner, ledger[j].key>>
        => i = j

\* A job ends as cancelled only if its owner asked for it; a shutdown, a crash
\* or a lost claim never looks like a cancellation.
CancelledOnlyOnRequest ==
    \A j \in Jobs : ledger[j].status = "cancelled" => ledger[j].cancel_asked

\* A recorded result is the one the handler of the job's last claim produced.
ResultFromLastClaim ==
    \A j \in Jobs :
        LET e == exec[ledger[j].queue_job_id] IN
        ledger[j].result_code \in {"ok", "handler_failed"}
            => /\ e.token = ledger[j].claim_token
               /\ e.handler = ledger[j].status

\* A finished job is never touched again.
TerminalIsFinal ==
    [][\A j \in Jobs : ledger[j].status \in TERMINAL_STATUSES
            => ledger'[j] = ledger[j]]_vars

\* Once the owner has asked to cancel, the job is never started again and
\* never handed to the queue again.
CancelNeverRestarts ==
    [][\A j \in Jobs : ledger[j].cancel_asked
            => /\ ledger'[j].status \notin {"accepted", "running"}
               /\ ledger'[j].dispatch_count = ledger[j].dispatch_count
               /\ ledger'[j].attempt_count = ledger[j].attempt_count]_vars

\* If handlers terminate, every accepted job ends, whatever crashes, lost claims
\* and failed writes its executions meet.
AcceptedJobEnds ==
    HandlersEnd =>
        \A j \in Jobs : ledger[j].status = "accepted" ~> ledger[j].status \in TERMINAL_STATUSES

\* A requested cancellation converges even if the handler never stops: B stops
\* beating when it learns of the request, the heartbeat goes stale and
\* reconcile finishes the job.
CancelConverges ==
    \A j \in Jobs :
        ledger[j].status = "cancel_requested" ~> ledger[j].status \in TERMINAL_STATUSES

=============================================================================
