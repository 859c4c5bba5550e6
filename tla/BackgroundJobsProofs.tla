------------------------ MODULE BackgroundJobsProofs ------------------------
(***************************************************************************)
(* The theorems about BackgroundJobs, for every set of jobs, owners, keys  *)
(* and queue ids and every value of the two limits.                        *)
(*                                                                         *)
(* The inductive invariant, what the row operators write and a few         *)
(* consequences come first; then four kinds of step, each described by     *)
(* what it does to one job and one queue row, with the proof that each     *)
(* keeps the invariant.  Every action but the two that only open or close  *)
(* a transaction, and the owner's cancel, is of one of these kinds.        *)
(***************************************************************************)
EXTENDS BackgroundJobs, FiniteSetTheorems, TLAPS

-----------------------------------------------------------------------------
(* The inductive invariant, in parts.                                      *)

\* A ledger row refers to a queue row made for it, and a queue row belongs to a
\* job that has a ledger row.
References ==
    /\ \A j \in Jobs :
          IF ledger[j].status = "absent"
          THEN ledger[j] = NoRow /\ cancelTx[j] = None
          ELSE /\ ledger[j].queue_job_id \in QueueIds
               /\ queue[ledger[j].queue_job_id].status # "absent"
               /\ queue[ledger[j].queue_job_id].job = j
    /\ \A q \in QueueIds :
          IF queue[q].status = "absent"
          THEN queue[q] = NoQueueRow
          ELSE queue[q].job \in Jobs /\ ledger[queue[q].job].status # "absent"

\* The row lock of a cancel transaction protects an accepted or running row,
\* and a queue row it will find waiting was waiting when it looked.
LockedRows ==
    \A j \in Jobs : cancelTx[j] # None =>
        /\ ledger[j].status \in {"accepted", "running"}
        /\ queue[ledger[j].queue_job_id].status = "todo" => cancelTx[j] = "todo"

\* Where an execution stands follows the status of its queue row.
Phases ==
    \A q \in QueueIds :
        /\ queue[q].status \in {"absent", "todo", "cancelled"} => exec[q] = NoExecution
        /\ exec[q].phase \in {"fetched", "running", "exiting"} => queue[q].status = "doing"
        /\ exec[q].phase = "fetched" => exec[q].token = 0
        /\ exec[q].phase = "running" => exec[q].token # 0 /\ exec[q].handler # "none"
        /\ exec[q].phase = "exiting" => exec[q].exit \in QueueEnd

\* A token is issued once: an execution that holds the ledger's token is the
\* execution of the ledger's queue row, and no token is ahead of the count.
Tokens ==
    /\ \A j \in Jobs : ledger[j].claim_token <= ledger[j].attempt_count
    /\ \A q \in QueueIds :
          LET j == queue[q].job IN
          exec[q].token # 0 =>
            /\ exec[q].token <= ledger[j].attempt_count
            /\ exec[q].token = ledger[j].claim_token => ledger[j].queue_job_id = q

\* A dispatch that has not been claimed yet is not counted as an attempt.
Counts ==
    \A j \in Jobs :
        /\ ledger[j].dispatch_count <= MaxDispatches
        /\ ledger[j].attempt_count <= ledger[j].dispatch_count
        /\ ledger[j].status = "accepted" => ledger[j].attempt_count < ledger[j].dispatch_count

\* Every trace of a cancellation in the queue row or the execution comes from
\* the owner's request, and a row that was asked to stop is not live again.
CancelTraces ==
    /\ \A j \in Jobs :
          /\ ledger[j].status \in {"absent", "accepted", "running"} => ~ledger[j].cancel_asked
          /\ ledger[j].status \in {"cancel_requested", "cancelled"} => ledger[j].cancel_asked
    /\ \A q \in QueueIds :
          \/ queue[q].abort_requested
          \/ exec[q].reply = "cancel_requested"
          \/ exec[q].cause = "user"
          => ledger[queue[q].job].cancel_asked

\* A handler's result is recorded once, by the execution the row refers to.
Results ==
    \A j \in Jobs :
        /\ ledger[j].status \in ActiveStatuses => ledger[j].result_code = None
        /\ ledger[j].result_code \in {"ok", "handler_failed"} =>
             LET e == exec[ledger[j].queue_job_id] IN
             /\ e.phase \in {"exiting", "over"}
             /\ e.token = ledger[j].claim_token
             /\ e.handler = ledger[j].status

IInv ==
    /\ TypeOK
    /\ References
    /\ LockedRows
    /\ Phases
    /\ NoOrphanQueueRow
    /\ Tokens
    /\ Counts
    /\ CancelTraces
    /\ Results

-----------------------------------------------------------------------------

\* The empty tables have the right shape.
LEMMA TypeInit == Init => TypeOK
  BY MaxDispatchesAssumption DEF Init, TypeOK, NoRow, NoQueueRow, NoExecution,
     LedgerRow, QueueRow, Execution, QueueStatus, QueueEnd

-----------------------------------------------------------------------------
(* What the row operators write, field by field, so that the steps below need *)
(* not unfold the records.                                                    *)

\* A ledger row whose dispatch and claim stay as they are.
SameClaim(row, new) ==
    /\ new \in LedgerRow
    /\ new.queue_job_id = row.queue_job_id /\ new.claim_token = row.claim_token
    /\ new.dispatch_count = row.dispatch_count /\ new.attempt_count = row.attempt_count

\* The numbers in a ledger row and in an execution, and the empty rows.
LEMMA Fields ==
  /\ \A row \in LedgerRow : /\ row.attempt_count \in Nat
                            /\ row.claim_token \in Nat
                            /\ row.dispatch_count \in Nat
  /\ \A row \in QueueRow : row.status \in QueueStatus
  /\ \A e \in Execution :
        /\ e.token \in Nat
        /\ e.handler \in {"none", "active", "succeeded", "failed", "cancelled"}
        /\ e.reply \in LiveStatuses \cup {"lost", None}
        /\ e.cause \in {"user", "lost", None}
  BY DEF LedgerRow, QueueRow, Execution

\* The empty rows.
LEMMA EmptyFields ==
  /\ NoRow \in LedgerRow /\ NoQueueRow \in QueueRow /\ NoExecution \in Execution
  /\ NoRow.status = "absent" /\ NoRow.claim_token = 0 /\ NoRow.dispatch_count = 0
  /\ NoRow.attempt_count = 0 /\ NoRow.result_code = None /\ NoRow.cancel_asked = FALSE
  /\ NoQueueRow.status = "absent" /\ NoQueueRow.abort_requested = FALSE
  /\ NoExecution.phase = "idle" /\ NoExecution.token = 0 /\ NoExecution.handler = "none"
  /\ NoExecution.reply = None /\ NoExecution.cause = None
  BY DEF NoRow, NoQueueRow, NoExecution, LedgerRow, QueueRow, Execution, QueueStatus

\* The row an accept transaction inserts.
LEMMA AcceptedRowFields ==
  ASSUME NEW tx \in [owner: Owners, key: Keys], NEW q \in QueueIds
  PROVE  LET new == AcceptedRow(tx, q) IN
         /\ new \in LedgerRow
         /\ new.status = "accepted" /\ new.queue_job_id = q /\ new.claim_token = 0
         /\ new.dispatch_count = 1 /\ new.attempt_count = 0
         /\ new.result_code = None /\ new.cancel_asked = FALSE
  <1>1. tx.owner \in Owners /\ tx.key \in Keys
    OBVIOUS
  <1>2. QED
    BY <1>1, Zenon DEF AcceptedRow, NoRow, LedgerRow, ActiveStatuses

\* The row `cancel' writes.
LEMMA WithStatusFields ==
  ASSUME NEW row \in LedgerRow
  PROVE  /\ LET new == WithStatus(row, "cancel_requested", None) IN
            /\ SameClaim(row, new) /\ new.status = "cancel_requested"
            /\ new.result_code = None /\ new.cancel_asked = TRUE
         /\ LET new == WithStatus(row, "cancelled", "cancelled") IN
            /\ SameClaim(row, new) /\ new.status = "cancelled"
            /\ new.result_code = "cancelled" /\ new.cancel_asked = TRUE
         /\ LET new == WithStatus(row, "cancelled", "cancelled_after_interrupt") IN
            /\ SameClaim(row, new) /\ new.status = "cancelled"
            /\ new.result_code = "cancelled_after_interrupt" /\ new.cancel_asked = TRUE
  BY Zenon DEF SameClaim, WithStatus, LedgerRow, ActiveStatuses, TERMINAL_STATUSES, ResultCodes

\* The row `claim' writes.
LEMMA ClaimedFields ==
  ASSUME NEW row \in LedgerRow
  PROVE  LET new == Claimed(row) IN
         /\ new \in LedgerRow
         /\ new.status = "running" /\ new.claim_token = row.attempt_count + 1
         /\ new.attempt_count = row.attempt_count + 1
         /\ new.queue_job_id = row.queue_job_id /\ new.dispatch_count = row.dispatch_count
         /\ new.result_code = row.result_code /\ new.cancel_asked = row.cancel_asked
  <1>1. row.attempt_count + 1 \in Nat
    BY DEF LedgerRow
  <1>2. QED
    BY <1>1, Zenon DEF Claimed, LedgerRow, ActiveStatuses

\* The rows `finalize' and reconcile write.
LEMMA ClosedFields ==
  ASSUME NEW row \in LedgerRow, NEW st \in TERMINAL_STATUSES, NEW code \in ResultCodes
  PROVE  LET new == Closed(row, st, code) IN
         /\ new \in LedgerRow
         /\ new.status = st /\ new.result_code = code
         /\ new.queue_job_id = row.queue_job_id /\ new.claim_token = row.claim_token
         /\ new.dispatch_count = row.dispatch_count
         /\ new.attempt_count = row.attempt_count /\ new.cancel_asked = row.cancel_asked
  <1>1. Closed(row, st, code) \in LedgerRow
    BY Zenon DEF Closed, LedgerRow
  <1>2. QED
    BY <1>1 DEF Closed, LedgerRow

\* A heartbeat, or its age, touches nothing else.
LEMMA HeartbeatFields ==
  \A row \in LedgerRow : \A new \in {Beaten(row), Aged(row)} :
    /\ new \in LedgerRow
    /\ new.status = row.status /\ new.result_code = row.result_code
    /\ new.queue_job_id = row.queue_job_id /\ new.claim_token = row.claim_token
    /\ new.dispatch_count = row.dispatch_count /\ new.attempt_count = row.attempt_count
    /\ new.cancel_asked = row.cancel_asked
  BY DEF Beaten, Aged, LedgerRow

\* The row a new dispatch writes.
LEMMA RequeuedFields ==
  ASSUME NEW row \in LedgerRow, NEW q \in QueueIds
  PROVE  LET new == Requeued(row, q) IN
         /\ new \in LedgerRow
         /\ new.status = "accepted" /\ new.queue_job_id = q /\ new.claim_token = 0
         /\ new.dispatch_count = row.dispatch_count + 1
         /\ new.attempt_count = row.attempt_count
         /\ new.result_code = row.result_code /\ new.cancel_asked = row.cancel_asked
  <1>1. row.dispatch_count + 1 \in Nat
    BY DEF LedgerRow
  <1>2. QED
    BY <1>1, Zenon DEF Requeued, LedgerRow, ActiveStatuses

\* The queue rows.
LEMMA QueueFields ==
  /\ \A j \in Jobs : /\ Deferred(j) \in QueueRow
                     /\ Deferred(j).status = "todo" /\ Deferred(j).job = j
                     /\ Deferred(j).abort_requested = FALSE
  /\ \A row \in QueueRow :
        /\ Aborted(row) \in QueueRow /\ FetchedRow(row) \in QueueRow
        /\ OverdueRow(row) \in QueueRow
        /\ Aborted(row).job = row.job /\ FetchedRow(row).job = row.job
        /\ OverdueRow(row).job = row.job
        /\ row.status = "todo" => Aborted(row).status = "cancelled"
        /\ row.status # "todo" => Aborted(row).status = row.status
        /\ FetchedRow(row).status = "doing" /\ OverdueRow(row).status = row.status
        /\ FetchedRow(row).abort_requested = row.abort_requested
        /\ OverdueRow(row).abort_requested = row.abort_requested
  /\ \A row \in QueueRow, how \in QueueEnd :
        /\ FinishedRow(row, how) \in QueueRow
        /\ FinishedRow(row, how).job = row.job /\ FinishedRow(row, how).status = how
        /\ FinishedRow(row, how).abort_requested = FALSE
  BY Zenon DEF Deferred, Aborted, FetchedRow, OverdueRow, FinishedRow, NoQueueRow, QueueRow,
     QueueStatus

\* What run leaves behind.
LEMMA LeftFields ==
  ASSUME NEW e \in Execution, NEW ph \in {"exiting", "over"}, NEW x \in QueueEnd \cup {None}
  PROVE  LET new == Left(e, ph, x) IN
         /\ new \in Execution
         /\ new.phase = ph /\ new.token = e.token /\ new.handler = e.handler
         /\ new.reply = None /\ new.cause = None /\ new.exit = x
  <1>1. e.token \in Nat /\ e.handler \in {"none", "active", "succeeded", "failed", "cancelled"}
    BY DEF Execution
  <1>2. QED
    BY <1>1, Zenon DEF Left, NoExecution, Execution

\* A fetched row and a started handler.
LEMMA StartFields ==
  /\ LET new == [NoExecution EXCEPT !.phase = "fetched"] IN
     /\ new \in Execution
     /\ new.phase = "fetched" /\ new.token = 0 /\ new.handler = "none"
     /\ new.reply = None /\ new.cause = None
  /\ \A token \in Nat :
        LET new == Started(token) IN
        /\ new \in Execution
        /\ new.phase = "running" /\ new.token = token /\ new.handler = "active"
        /\ new.reply = None /\ new.cause = None
  BY Zenon DEF Started, NoExecution, Execution

\* The moves of W, H and B inside a run.
LEMMA RunFields ==
  ASSUME NEW e \in Execution
  PROVE  /\ \A reason \in {"user", "lost"} :
              LET new == Interrupted(e, reason) IN
              /\ new \in Execution
              /\ new.phase = e.phase /\ new.token = e.token /\ new.handler = e.handler
              /\ new.reply = e.reply
              /\ new.cause = "user" => e.cause = "user" \/ reason = "user"
         /\ \A reply \in LiveStatuses \cup {"lost", None} :
              LET new == Replied(e, reply) IN
              /\ new \in Execution
              /\ new.phase = e.phase /\ new.token = e.token /\ new.handler = e.handler
              /\ new.reply = reply /\ new.cause = e.cause
         /\ LET new == AnswerSeen(e) IN
            /\ new \in Execution
            /\ new.phase = e.phase /\ new.token = e.token /\ new.handler = e.handler
            /\ new.reply = None
            /\ new.cause = "user" => e.cause = "user" \/ e.reply = "cancel_requested"
         /\ \A how \in {"succeeded", "failed", "cancelled"} :
              LET new == Ended(e, how) IN
              /\ new \in Execution
              /\ new.phase = e.phase /\ new.token = e.token /\ new.handler = how
              /\ new.reply = e.reply /\ new.cause = e.cause
  <1>1. \A reason \in {"user", "lost"} :
              LET new == Interrupted(e, reason) IN
              /\ new \in Execution
              /\ new.phase = e.phase /\ new.token = e.token /\ new.handler = e.handler
              /\ new.reply = e.reply
              /\ new.cause = "user" => e.cause = "user" \/ reason = "user"
    BY Zenon DEF Interrupted, CauseSet, Execution
  <1>2. \A reply \in LiveStatuses \cup {"lost", None} :
              LET new == Replied(e, reply) IN
              /\ new \in Execution
              /\ new.phase = e.phase /\ new.token = e.token /\ new.handler = e.handler
              /\ new.reply = reply /\ new.cause = e.cause
    BY DEF Replied, Execution
  <1>3. CauseOf(e.reply) \in {"user", "lost", None}
    BY DEF CauseOf
  <1>4. CauseOf(e.reply) = "user" => e.reply = "cancel_requested"
    BY NoneAssumption DEF CauseOf
  <1>5. LET new == AnswerSeen(e) IN
            /\ new \in Execution
            /\ new.phase = e.phase /\ new.token = e.token /\ new.handler = e.handler
            /\ new.reply = None
            /\ new.cause = "user" => e.cause = "user" \/ e.reply = "cancel_requested"
    BY <1>3, <1>4, NoneAssumption, ZenonT(40) DEF AnswerSeen, CauseSet, Execution
  <1>6. \A how \in {"succeeded", "failed", "cancelled"} :
              LET new == Ended(e, how) IN
              /\ new \in Execution
              /\ new.phase = e.phase /\ new.token = e.token /\ new.handler = how
              /\ new.reply = e.reply /\ new.cause = e.cause
    BY DEF Ended, Execution
  <1>7. QED
    BY <1>1, <1>2, <1>5, <1>6

-----------------------------------------------------------------------------
(* Consequences of the invariant.                                          *)

\* The job of an execution that holds its queue row.
LEMMA OwnJob ==
  ASSUME IInv, NEW q \in QueueIds, exec[q].phase \in {"fetched", "running", "exiting"}
  PROVE  /\ queue[q] \in QueueRow /\ exec[q] \in Execution
         /\ queue[q].status = "doing"
         /\ queue[q].job \in Jobs
         /\ ledger[queue[q].job] \in LedgerRow /\ ledger[queue[q].job].status # "absent"
  BY DEF IInv, TypeOK, Phases, References

\* The execution behind a recorded result has left its run.
LEMMA ResultHolder ==
  ASSUME IInv, NEW i \in Jobs, ledger[i].result_code \in {"ok", "handler_failed"}
  PROVE  /\ ledger[i].queue_job_id \in QueueIds
         /\ ledger[i].status \notin ActiveStatuses
         /\ exec[ledger[i].queue_job_id].phase \in {"exiting", "over"}
  BY EmptyFields, NoneAssumption DEF IInv, References, Results

\* A queue row with a trace of a cancellation belongs to a job.
LEMMA TracedJob ==
  ASSUME IInv, NEW p \in QueueIds,
         queue[p].abort_requested \/ exec[p].reply = "cancel_requested" \/ exec[p].cause = "user"
  PROVE  queue[p].job \in Jobs
  <1>1. queue[p].status # "absent"
    BY EmptyFields, NoneAssumption DEF IInv, References, Phases
  <1>2. QED
    BY <1>1 DEF IInv, References

\* Issuing the next token to the execution of the row's own queue row, whether
\* or not that execution learns of it, keeps tokens unique.
LEMMA FreshToken ==
  ASSUME IInv, NEW q \in QueueIds, NEW j \in Jobs,
         queue' = queue, queue[q].job = j, exec[q].token = 0,
         ledger'[j].queue_job_id = q,
         ledger'[j].claim_token = ledger[j].attempt_count + 1,
         ledger'[j].attempt_count = ledger[j].attempt_count + 1,
         \A i \in Jobs \ {j} : ledger'[i] = ledger[i],
         exec'[q].token \in {0, ledger[j].attempt_count + 1},
         \A p \in QueueIds \ {q} : exec'[p] = exec[p]
  PROVE  Tokens'
  <1> USE DEF IInv
  <1>1. \A i \in Jobs : ledger[i].attempt_count \in Nat
    BY Fields DEF TypeOK
  <1>2. \A p \in QueueIds : exec[p].token \in Nat
    BY Fields DEF TypeOK
  <1>3. \A i \in Jobs : ledger'[i].claim_token <= ledger'[i].attempt_count
    BY <1>1 DEF Tokens
  <1>4. ASSUME NEW p \in QueueIds, exec'[p].token # 0
        PROVE  LET i == queue'[p].job IN
               /\ exec'[p].token <= ledger'[i].attempt_count
               /\ exec'[p].token = ledger'[i].claim_token => ledger'[i].queue_job_id = p
    <2>1. CASE p = q
      BY <1>1, <1>4, <2>1
    <2>2. CASE p # q
      <3>1. exec'[p] = exec[p] /\ exec[p].token # 0 /\ queue'[p].job = queue[p].job
        BY <1>4, <2>2
      <3>2. queue[p].job \in Jobs
        BY <3>1, EmptyFields DEF References, Phases
      <3>3. QED
        BY <3>1, <3>2, <1>1, <1>2 DEF Tokens
    <2>3. QED
      BY <2>1, <2>2
  <1>5. QED
    BY <1>3, <1>4 DEF Tokens

-----------------------------------------------------------------------------
(* The kinds of step.                                                      *)

\* A step that keeps the claims: the row of one job j and the execution of one
\* queue row q of that job may change, but no token, count or reference does.
KeepsClaims(j, q) ==
    /\ queue[q].job = j /\ queue[q].status # "absent" /\ ledger[j].status # "absent"
    /\ UNCHANGED <<queue, accepting, cancelTx>>
    /\ SameClaim(ledger[j], ledger'[j])
    /\ ledger' \in [Jobs -> LedgerRow]
    /\ \A i \in Jobs \ {j} : ledger'[i] = ledger[i]
    /\ exec' \in [QueueIds -> Execution]
    /\ exec'[q].token = exec[q].token
    /\ \A p \in QueueIds \ {q} : exec'[p] = exec[p]

\* The row of a step that keeps the claims is not a waiting or locked one,
\* unless its status stays as it is, and is never accepted anew.
StatusStep(j) ==
    /\ ledger'[j].status # "absent"
    /\ ledger'[j].status = "accepted" => ledger[j].status = "accepted"
    /\ \/ ledger'[j].status = ledger[j].status
       \/ cancelTx[j] = None /\ queue[ledger[j].queue_job_id].status # "todo"

\* The execution of a step that keeps the claims stays where it is or moves
\* forward while it holds its queue row.
ExecutionStep(q) ==
    \/ exec'[q] = exec[q]
    \/ /\ queue[q].status = "doing"
       /\ exec'[q].phase \in {"running", "exiting", "over"}
       /\ exec'[q].phase = "running" => exec'[q].token # 0 /\ exec'[q].handler # "none"
       /\ exec'[q].phase = "exiting" => exec'[q].exit \in QueueEnd

\* The marks of a cancellation in the row and the execution do not appear from
\* nowhere.
CancelStep(j, q) ==
    /\ ledger'[j].cancel_asked = ledger[j].cancel_asked
    /\ ledger'[j].status \in {"accepted", "running"} => ledger'[j].status = ledger[j].status
    /\ ledger'[j].status = "cancel_requested" => ledger[j].status = "cancel_requested"
    /\ ledger'[j].status = "cancelled" => ledger[j].cancel_asked
    /\ exec'[q].reply = "cancel_requested" \/ exec'[q].cause = "user"
          => ledger[j].cancel_asked

\* A result is written once, by the execution that holds the claim.
ResultStep(j, q) ==
    /\ \/ ledger'[j].status = ledger[j].status /\ ledger'[j].result_code = ledger[j].result_code
       \/ /\ ledger'[j].status \notin ActiveStatuses
          /\ ledger'[j].result_code \notin {"ok", "handler_failed"}
       \/ /\ ledger'[j].status \notin ActiveStatuses
          /\ ledger[j].queue_job_id = q /\ exec'[q].phase = "exiting"
          /\ exec[q].token = ledger[j].claim_token /\ exec'[q].handler = ledger'[j].status
    /\ \/ exec[q].phase \in {"fetched", "running"}
       \/ exec'[q] = exec[q]
       \/ exec'[q].phase = "over" /\ exec'[q].handler = exec[q].handler

\* A step that keeps the claims keeps the invariant.
LEMMA KeepsClaimsStep ==
  ASSUME IInv, NEW j \in Jobs, NEW q \in QueueIds,
         KeepsClaims(j, q), StatusStep(j), ExecutionStep(q), CancelStep(j, q), ResultStep(j, q)
  PROVE  IInv'
  <1> USE DEF IInv
  <1>1. /\ queue' = queue /\ accepting' = accepting /\ cancelTx' = cancelTx
        /\ ledger' \in [Jobs -> LedgerRow] /\ exec' \in [QueueIds -> Execution]
    BY DEF KeepsClaims
  <1>2. \A i \in Jobs : /\ ledger'[i].queue_job_id = ledger[i].queue_job_id
                        /\ ledger'[i].claim_token = ledger[i].claim_token
                        /\ ledger'[i].attempt_count = ledger[i].attempt_count
                        /\ ledger'[i].dispatch_count = ledger[i].dispatch_count
    BY DEF KeepsClaims, SameClaim
  <1>3. \A i \in Jobs : /\ ledger'[i].status = "absent" => ledger'[i] = ledger[i]
                        /\ ledger[i].status = "absent" => ledger'[i].status = "absent"
    BY DEF KeepsClaims, StatusStep
  <1>4. \A p \in QueueIds : exec'[p].token = exec[p].token
    BY DEF KeepsClaims
  <1>5. \A p \in QueueIds : exec[p] # NoExecution \/ queue[p] # NoQueueRow
                               => queue[p].job \in Jobs
    BY DEF References, Phases
  <1>6. TypeOK'
    BY <1>1 DEF TypeOK
  <1>7. References'
    BY <1>1, <1>2, <1>3 DEF References
  <1>8. LockedRows'
    BY <1>1, <1>2 DEF KeepsClaims, StatusStep, LockedRows
  <1>9. Phases'
    BY <1>1 DEF KeepsClaims, ExecutionStep, Phases
  <1>10. NoOrphanQueueRow'
    BY <1>1, <1>2 DEF KeepsClaims, StatusStep, References, NoOrphanQueueRow
  <1>11. Tokens'
    <2>1. \A p \in QueueIds : exec[p].token # 0 => queue[p].job \in Jobs
      BY <1>5, EmptyFields
    <2>2. QED
      BY <1>1, <1>2, <1>4, <2>1 DEF Tokens
  <1>12. Counts'
    BY <1>2 DEF KeepsClaims, StatusStep, Counts
  <1>13. CancelTraces'
    <2>1. \A i \in Jobs : ledger'[i].cancel_asked = ledger[i].cancel_asked
      BY DEF KeepsClaims, CancelStep
    <2>2. \A i \in Jobs :
            /\ ledger'[i].status \in {"absent", "accepted", "running"} => ~ledger'[i].cancel_asked
            /\ ledger'[i].status \in {"cancel_requested", "cancelled"} => ledger'[i].cancel_asked
      BY <2>1 DEF KeepsClaims, StatusStep, CancelStep, CancelTraces
    <2>3. ASSUME NEW p \in QueueIds,
                 \/ queue[p].abort_requested
                 \/ exec'[p].reply = "cancel_requested"
                 \/ exec'[p].cause = "user"
          PROVE  ledger[queue[p].job].cancel_asked /\ queue[p].job \in Jobs
      <3>1. ledger[queue[p].job].cancel_asked
        BY <2>3 DEF KeepsClaims, CancelStep, CancelTraces
      <3>2. queue[p].job \in Jobs
        BY <2>3, <1>5, EmptyFields, NoneAssumption DEF KeepsClaims
      <3>3. QED
        BY <3>1, <3>2
    <2>4. QED
      BY <1>1, <2>1, <2>2, <2>3 DEF CancelTraces
  <1>14. Results'
    <2>1. \A i \in Jobs \ {j} : ledger'[i] = ledger[i]
      BY DEF KeepsClaims
    <2>2. ASSUME NEW i \in Jobs, ledger[i].result_code \in {"ok", "handler_failed"}
          PROVE  LET e == exec[ledger[i].queue_job_id]
                     f == exec'[ledger[i].queue_job_id]
                 IN  /\ f.phase \in {"exiting", "over"} /\ f.handler = e.handler
                     /\ f.token = e.token
      BY Zenon, <2>2, <1>4, ResultHolder DEF KeepsClaims, ResultStep
    <2>3. ASSUME NEW i \in Jobs \ {j}
          PROVE  /\ ledger'[i].status \in ActiveStatuses => ledger'[i].result_code = None
                 /\ ledger'[i].result_code \in {"ok", "handler_failed"} =>
                      LET f == exec'[ledger'[i].queue_job_id] IN
                      /\ f.phase \in {"exiting", "over"}
                      /\ f.token = ledger'[i].claim_token
                      /\ f.handler = ledger'[i].status
      BY SMTT(40), <2>1, <2>2 DEF Results
    <2>4. /\ ledger'[j].status \in ActiveStatuses => ledger'[j].result_code = None
          /\ ledger'[j].result_code \in {"ok", "handler_failed"} =>
                      LET f == exec'[ledger'[j].queue_job_id] IN
                      /\ f.phase \in {"exiting", "over"}
                      /\ f.token = ledger'[j].claim_token
                      /\ f.handler = ledger'[j].status
      BY SMTT(40), <1>2, <1>4, <2>2 DEF ResultStep, Results
    <2>5. QED
      BY <2>3, <2>4 DEF Results
  <1>15. QED
    BY <1>6, <1>7, <1>8, <1>9, <1>10, <1>11, <1>12, <1>13, <1>14

-----------------------------------------------------------------------------
\* A step that takes the claim of the accepted job j for the execution of q,
\* whether or not that execution learns the token.
TakesClaim(j, q) ==
    /\ queue[q].job = j /\ exec[q].phase = "fetched"
    /\ Claimable(j, q) /\ cancelTx[j] = None
    /\ UNCHANGED <<queue, accepting, cancelTx>>
    /\ ledger' = [ledger EXCEPT ![j] = Claimed(@)]
    /\ exec' \in [QueueIds -> Execution]
    /\ \A p \in QueueIds \ {q} : exec'[p] = exec[p]
    /\ exec'[q].reply = None /\ exec'[q].cause = None
    /\ \/ /\ exec'[q].phase = "running" /\ exec'[q].handler # "none"
          /\ exec'[q].token = ledger[j].attempt_count + 1
       \/ exec'[q].phase = "exiting" /\ exec'[q].token = 0 /\ exec'[q].exit \in QueueEnd

\* A step that takes a claim keeps the invariant.
LEMMA TakesClaimStep ==
  ASSUME IInv, NEW j \in Jobs, NEW q \in QueueIds, TakesClaim(j, q)
  PROVE  IInv'
  <1> USE DEF IInv
  <1>1. /\ queue' = queue /\ accepting' = accepting /\ cancelTx' = cancelTx
        /\ exec' \in [QueueIds -> Execution] /\ \A p \in QueueIds \ {q} : exec'[p] = exec[p]
        /\ exec'[q].phase \in {"running", "exiting"}
    BY DEF TakesClaim
  <1>2. /\ queue[q].job = j /\ queue[q].status = "doing" /\ cancelTx[j] = None
        /\ ledger[j] \in LedgerRow /\ ledger[j].status = "accepted"
        /\ ledger[j].queue_job_id = q /\ exec[q].token = 0 /\ exec[q].phase = "fetched"
    BY Zenon, OwnJob DEF TakesClaim, Claimable, Phases
  <1>3. ledger'[j] = Claimed(ledger[j]) /\ \A i \in Jobs \ {j} : ledger'[i] = ledger[i]
    BY DEF TakesClaim, TypeOK
  <1>4. /\ ledger'[j] \in LedgerRow /\ ledger'[j].status = "running"
        /\ ledger'[j].queue_job_id = q
        /\ ledger'[j].claim_token = ledger[j].attempt_count + 1
        /\ ledger'[j].attempt_count = ledger[j].attempt_count + 1
        /\ ledger'[j].dispatch_count = ledger[j].dispatch_count
        /\ ledger'[j].result_code = ledger[j].result_code
        /\ ledger'[j].cancel_asked = ledger[j].cancel_asked
    BY <1>2, <1>3, ClaimedFields
  <1>5. TypeOK'
    BY <1>1, <1>4 DEF TakesClaim, TypeOK
  <1>6. References'
    BY SMTT(40), <1>1, <1>2, <1>3, <1>4 DEF References
  <1>7. LockedRows'
    BY <1>1, <1>2, <1>3 DEF LockedRows
  <1>8. Phases'
    <2>1. /\ exec'[q].phase = "running" => exec'[q].token # 0 /\ exec'[q].handler # "none"
          /\ exec'[q].phase = "exiting" => exec'[q].exit \in QueueEnd
      BY <1>2, Fields DEF TakesClaim
    <2>2. QED
      BY <1>1, <1>2, <2>1 DEF Phases
  <1>9. NoOrphanQueueRow'
    BY <1>1, <1>2, <1>3 DEF NoOrphanQueueRow, References
  <1>10. Tokens'
    BY Zenon, <1>1, <1>2, <1>3, <1>4, FreshToken DEF TakesClaim
  <1>11. Counts'
    BY <1>2, <1>3, <1>4, Fields DEF Counts
  <1>12. CancelTraces'
    <2>1. \A i \in Jobs : ledger'[i].cancel_asked = ledger[i].cancel_asked
      BY <1>3, <1>4
    <2>2. \A i \in Jobs :
            /\ ledger'[i].status \in {"absent", "accepted", "running"} => ~ledger'[i].cancel_asked
            /\ ledger'[i].status \in {"cancel_requested", "cancelled"} => ledger'[i].cancel_asked
      BY <1>2, <1>3, <1>4 DEF CancelTraces
    <2>3. ASSUME NEW p \in QueueIds,
                 \/ queue[p].abort_requested
                 \/ exec'[p].reply = "cancel_requested"
                 \/ exec'[p].cause = "user"
          PROVE  ledger[queue[p].job].cancel_asked /\ queue[p].job \in Jobs
      <3>1. queue[p].abort_requested \/ exec[p].reply = "cancel_requested" \/ exec[p].cause = "user"
        BY <1>1, <2>3, NoneAssumption DEF TakesClaim
      <3>2. QED
        BY <3>1, TracedJob DEF CancelTraces
    <2>4. QED
      BY <1>1, <2>1, <2>2, <2>3 DEF CancelTraces
  <1>13. Results'
    <2>1. /\ ledger'[j].result_code = None
      BY Zenon, <1>2, <1>4 DEF Results, ActiveStatuses
    <2>2. \A i \in Jobs : ledger[i].result_code \in {"ok", "handler_failed"}
                             => ledger[i].queue_job_id \in QueueIds \ {q}
      BY <1>2, ResultHolder
    <2>3. QED
      BY SMTT(40), <1>1, <1>3, <2>1, <2>2, NoneAssumption DEF Results
  <1>14. QED
    BY <1>5, <1>6, <1>7, <1>8, <1>9, <1>10, <1>11, <1>12, <1>13

\* A step that hands job j to the queue as the new row q.
Dispatches(j, q) ==
    /\ queue[q].status = "absent"
    /\ \/ ledger[j].status = "absent"
       \/ /\ ledger[j].status \in {"accepted", "running"}
          /\ queue[ledger[j].queue_job_id].status # "todo"
    /\ cancelTx[j] = None
    /\ UNCHANGED <<exec, cancelTx>>
    /\ accepting' \subseteq accepting
    /\ queue' = [queue EXCEPT ![q] = Deferred(j)]
    /\ ledger' \in [Jobs -> LedgerRow]
    /\ \A i \in Jobs \ {j} : ledger'[i] = ledger[i]
    /\ ledger'[j].status = "accepted" /\ ledger'[j].queue_job_id = q
    /\ ledger'[j].claim_token = 0 /\ ledger'[j].result_code = None
    /\ ledger'[j].cancel_asked = FALSE
    /\ ledger'[j].attempt_count = ledger[j].attempt_count
    /\ ledger'[j].dispatch_count = ledger[j].dispatch_count + 1
    /\ ledger[j].dispatch_count < MaxDispatches

\* A dispatch keeps the invariant.
LEMMA DispatchesStep ==
  ASSUME IInv, NEW j \in Jobs, NEW q \in QueueIds, Dispatches(j, q)
  PROVE  IInv'
  <1> USE DEF IInv
  <1>1. /\ exec' = exec /\ cancelTx' = cancelTx /\ cancelTx[j] = None
        /\ queue[q] = NoQueueRow /\ exec[q] = NoExecution
        /\ \A i \in Jobs \ {j} : ledger'[i] = ledger[i]
        /\ ledger'[j].status = "accepted" /\ ledger'[j].queue_job_id = q
    BY Zenon DEF Dispatches, References, Phases
  <1>2. /\ queue'[q] \in QueueRow /\ queue'[q].status = "todo" /\ queue'[q].job = j
        /\ ~queue'[q].abort_requested
        /\ \A p \in QueueIds \ {q} : queue'[p] = queue[p]
    BY QueueFields DEF Dispatches, TypeOK
  <1>3. \A p \in QueueIds : queue[p].status = "todo" => queue[p].job # j
    BY DEF Dispatches, NoOrphanQueueRow
  <1>4. \A i \in Jobs : ledger[i].status # "absent" => ledger[i].queue_job_id \in QueueIds \ {q}
    BY SMTT(40), <1>1, EmptyFields DEF References
  <1>5. TypeOK'
    BY <1>2 DEF Dispatches, TypeOK
  <1>6. References'
    BY SMTT(40), <1>1, <1>2, <1>4 DEF References
  <1>7. LockedRows'
    BY SMTT(40), <1>1, <1>2, <1>4 DEF LockedRows
  <1>8. Phases'
    BY <1>1, <1>2, EmptyFields DEF Phases
  <1>9. NoOrphanQueueRow'
    BY <1>1, <1>2, <1>3 DEF NoOrphanQueueRow, References
  <1>10. Tokens'
    <2>1. \A i \in Jobs : /\ ledger'[i].attempt_count = ledger[i].attempt_count
                          /\ ledger[i].attempt_count \in Nat
                          /\ i = j => ledger'[i].claim_token = 0
      BY <1>1, Fields DEF Dispatches, TypeOK
    <2>2. \A p \in QueueIds : exec[p].token # 0 => p # q /\ queue[p].job \in Jobs
      BY Zenon, <1>1, EmptyFields DEF References, Phases
    <2>3. QED
      BY <1>1, <1>2, <2>1, <2>2 DEF Tokens
  <1>11. Counts'
    <2>1. /\ ledger'[j].dispatch_count = ledger[j].dispatch_count + 1
          /\ ledger'[j].attempt_count = ledger[j].attempt_count
          /\ ledger[j].dispatch_count < MaxDispatches
          /\ ledger[j].dispatch_count \in Nat /\ ledger[j].attempt_count \in Nat
      BY Fields DEF Dispatches, TypeOK
    <2>2. QED
      BY <1>1, <2>1, MaxDispatchesAssumption DEF Counts
  <1>12. CancelTraces'
    <2>1. ~ledger[j].cancel_asked
      BY Zenon DEF Dispatches, CancelTraces
    <2>2. \A p \in QueueIds : \/ queue'[p].abort_requested
                              \/ exec[p].reply = "cancel_requested"
                              \/ exec[p].cause = "user"
                              => p # q /\ queue[p].job \in Jobs /\ ledger[queue[p].job].cancel_asked
      BY ZenonT(40), <1>1, <1>2, EmptyFields, NoneAssumption, TracedJob DEF CancelTraces
    <2>3. QED
      BY SMTT(40), <1>1, <1>2, <2>1, <2>2 DEF Dispatches, CancelTraces
  <1>13. Results'
    BY SMTT(40), <1>1, NoneAssumption DEF Dispatches, Results
  <1>14. QED
    BY <1>5, <1>6, <1>7, <1>8, <1>9, <1>10, <1>11, <1>12, <1>13

\* A step that moves the queue row q, and maybe its execution, but no ledger row.
MovesQueueRow(q) ==
    /\ queue[q].status # "absent"
    /\ UNCHANGED <<ledger, accepting, cancelTx>>
    /\ queue' \in [QueueIds -> QueueRow] /\ exec' \in [QueueIds -> Execution]
    /\ \A p \in QueueIds \ {q} : queue'[p] = queue[p] /\ exec'[p] = exec[p]
    /\ queue'[q].job = queue[q].job
    /\ queue'[q].status \in {"doing"} \cup QueueEnd
    /\ queue'[q].abort_requested => queue[q].abort_requested
    /\ exec'[q].token = exec[q].token
    /\ \/ exec'[q] = exec[q] /\ queue'[q].status = queue[q].status
       \/ /\ exec'[q].reply = None /\ exec'[q].cause = None
          /\ \/ queue'[q].status = "doing" /\ exec[q].phase = "idle"
                /\ exec'[q].phase = "fetched" /\ exec[q].token = 0
             \/ exec'[q].phase = "over" /\ exec'[q].handler = exec[q].handler

\* A step of a queue row keeps the invariant.
LEMMA MovesQueueRowStep ==
  ASSUME IInv, NEW q \in QueueIds, MovesQueueRow(q)
  PROVE  IInv'
  <1> USE DEF IInv
  <1>1. /\ ledger' = ledger /\ accepting' = accepting /\ cancelTx' = cancelTx
        /\ \A p \in QueueIds : queue'[p].job = queue[p].job /\ exec'[p].token = exec[p].token
    BY Zenon DEF MovesQueueRow
  <1>2. \A p \in QueueIds : queue'[p].status = "todo" => p # q /\ queue[p].status = "todo"
    BY DEF MovesQueueRow, QueueEnd
  <1>3. TypeOK'
    BY <1>1 DEF MovesQueueRow, TypeOK
  <1>4. References'
    <2>1. queue[q].status # "absent" /\ queue'[q].status # "absent"
      BY DEF MovesQueueRow, QueueEnd
    <2>2. \A p \in QueueIds \ {q} : queue'[p] = queue[p]
      BY DEF MovesQueueRow
    <2>3. QED
      BY SMTT(40), <1>1, <2>1, <2>2 DEF References
  <1>5. LockedRows'
    <2>1. \A i \in Jobs : cancelTx[i] # None => ledger[i].queue_job_id \in QueueIds
      BY DEF References
    <2>2. QED
      BY <1>1, <1>2, <2>1 DEF LockedRows
  <1>6. Phases'
    BY DEF MovesQueueRow, Phases, QueueEnd
  <1>7. NoOrphanQueueRow'
    BY <1>1, <1>2 DEF NoOrphanQueueRow
  <1>8. Tokens'
    BY <1>1 DEF Tokens
  <1>9. Counts'
    BY <1>1 DEF Counts
  <1>10. CancelTraces'
    BY SMTT(40), <1>1, NoneAssumption DEF MovesQueueRow, CancelTraces
  <1>11. Results'
    <2>1. \A i \in Jobs : ledger[i].result_code \in {"ok", "handler_failed"} =>
             LET f == exec'[ledger[i].queue_job_id] IN
             /\ f.phase \in {"exiting", "over"} /\ f.token = exec[ledger[i].queue_job_id].token
             /\ f.handler = exec[ledger[i].queue_job_id].handler
      BY Zenon, <1>1, ResultHolder DEF MovesQueueRow
    <2>2. QED
      BY Zenon, <1>1, <2>1 DEF Results
  <1>12. QED
    BY <1>3, <1>4, <1>5, <1>6, <1>7, <1>8, <1>9, <1>10, <1>11

-----------------------------------------------------------------------------
(* The queue.                                                              *)

\* Fetch moves a queue row.
LEMMA FetchStep ==
  ASSUME IInv, NEW q \in QueueIds, Fetch(q)
  PROVE  IInv'
  <1>1. queue[q] \in QueueRow /\ queue[q].status = "todo" /\ exec[q] = NoExecution
    BY DEF IInv, TypeOK, Phases, Fetch
  <1>2. queue'[q] = FetchedRow(queue[q]) /\ queue' \in [QueueIds -> QueueRow]
    BY <1>1, QueueFields DEF IInv, TypeOK, Fetch
  <1>3. /\ exec'[q] = [NoExecution EXCEPT !.phase = "fetched"]
        /\ exec' \in [QueueIds -> Execution]
    BY StartFields DEF IInv, TypeOK, Fetch
  <1>4. /\ \A p \in QueueIds \ {q} : queue'[p] = queue[p] /\ exec'[p] = exec[p]
        /\ UNCHANGED <<ledger, accepting, cancelTx>>
    BY DEF IInv, TypeOK, Fetch
  <1>5. MovesQueueRow(q)
    BY <1>1, <1>2, <1>3, <1>4, QueueFields, StartFields, EmptyFields DEF MovesQueueRow
  <1>6. QED
    BY <1>5, MovesQueueRowStep

\* FinishRow moves a queue row.
LEMMA FinishRowStep ==
  ASSUME IInv, NEW q \in QueueIds, FinishRow(q)
  PROVE  IInv'
  <1>1. /\ queue[q] \in QueueRow /\ exec[q] \in Execution /\ queue[q].status = "doing"
        /\ exec[q].exit \in QueueEnd
    BY OwnJob DEF IInv, Phases, FinishRow
  <1>2. queue'[q] = FinishedRow(queue[q], exec[q].exit) /\ queue' \in [QueueIds -> QueueRow]
    BY <1>1, QueueFields DEF IInv, TypeOK, FinishRow
  <1>3. exec'[q] = Left(exec[q], "over", None) /\ exec' \in [QueueIds -> Execution]
    BY <1>1, LeftFields DEF IInv, TypeOK, FinishRow
  <1>4. /\ \A p \in QueueIds \ {q} : queue'[p] = queue[p] /\ exec'[p] = exec[p]
        /\ UNCHANGED <<ledger, accepting, cancelTx>>
    BY DEF IInv, TypeOK, FinishRow
  <1>5. /\ queue'[q].job = queue[q].job /\ queue'[q].status \in QueueEnd
        /\ queue'[q].abort_requested = FALSE
    BY <1>1, <1>2, QueueFields
  <1>6. /\ exec'[q].phase = "over" /\ exec'[q].token = exec[q].token
        /\ exec'[q].handler = exec[q].handler
        /\ exec'[q].reply = None /\ exec'[q].cause = None
    BY <1>1, <1>3, LeftFields
  <1>7. MovesQueueRow(q)
    BY Zenon, <1>1, <1>2, <1>3, <1>4, <1>5, <1>6 DEF MovesQueueRow
  <1>8. QED
    BY <1>7, MovesQueueRowStep

\* GraceElapses moves a queue row.
LEMMA GraceElapsesStep ==
  ASSUME IInv, NEW q \in QueueIds, GraceElapses(q)
  PROVE  IInv'
  <1>1. queue[q] \in QueueRow /\ queue[q].status = "doing"
    BY DEF IInv, TypeOK, GraceElapses
  <1>2. queue'[q] = OverdueRow(queue[q]) /\ queue' \in [QueueIds -> QueueRow]
    BY <1>1, QueueFields DEF IInv, TypeOK, GraceElapses
  <1>3. /\ \A p \in QueueIds \ {q} : queue'[p] = queue[p]
        /\ UNCHANGED <<ledger, exec, accepting, cancelTx>>
        /\ exec \in [QueueIds -> Execution]
    BY DEF IInv, TypeOK, GraceElapses
  <1>4. MovesQueueRow(q)
    BY SMTT(40), <1>1, <1>2, <1>3, QueueFields DEF MovesQueueRow
  <1>5. QED
    BY <1>4, MovesQueueRowStep

-----------------------------------------------------------------------------
(* The moves of an execution that leave the ledger alone.                  *)

\* A step that touches only one execution, without taking a claim.
LEMMA ExecutionOnlyStep ==
  ASSUME IInv, NEW q \in QueueIds, exec[q].phase \in {"fetched", "running", "exiting"},
         UNCHANGED <<ledger, queue, accepting, cancelTx>>,
         NEW e \in Execution, exec' = [exec EXCEPT ![q] = e],
         e.token = exec[q].token,
         e.phase \in {"running", "exiting", "over"},
         e.phase = "running" => e.token # 0 /\ e.handler # "none",
         e.phase = "exiting" => e.exit \in QueueEnd,
         e.reply = "cancel_requested" \/ e.cause = "user"
            => ledger[queue[q].job].cancel_asked,
         exec[q].phase = "exiting" => e.phase = "over" /\ e.handler = exec[q].handler
  PROVE  IInv'
  <1> DEFINE j == queue[q].job
  <1>1. /\ j \in Jobs /\ queue[q].status = "doing" /\ ledger[j].status # "absent"
        /\ ledger[j] \in LedgerRow
    BY OwnJob
  <1>2. /\ exec'[q] = e /\ \A p \in QueueIds \ {q} : exec'[p] = exec[p]
        /\ exec' \in [QueueIds -> Execution] /\ ledger \in [Jobs -> LedgerRow]
    BY DEF IInv, TypeOK
  <1>3. KeepsClaims(j, q)
    BY Zenon, <1>1, <1>2 DEF KeepsClaims, SameClaim
  <1>4. StatusStep(j) /\ ExecutionStep(q)
    BY Zenon, <1>1, <1>2 DEF StatusStep, ExecutionStep
  <1>5. CancelStep(j, q)
    BY Zenon, <1>1, <1>2 DEF IInv, CancelTraces, CancelStep
  <1>6. ResultStep(j, q)
    BY Zenon, <1>1, <1>2 DEF ResultStep
  <1>7. QED
    BY Zenon, <1>1, <1>3, <1>4, <1>5, <1>6, KeepsClaimsStep

\* Interrupt only moves the execution.
LEMMA InterruptStep ==
  ASSUME IInv, NEW q \in QueueIds, NEW reason \in {"user", "lost"}, Interrupt(q, reason)
  PROVE  IInv'
  <1>1. /\ exec[q] \in Execution /\ exec[q].phase = "running"
        /\ exec[q].token # 0 /\ exec[q].handler # "none"
        /\ \/ reason = "user" \/ exec[q].reply = "cancel_requested" \/ exec[q].cause = "user"
           => ledger[queue[q].job].cancel_asked
    BY DEF IInv, TypeOK, Phases, Interrupt, CancelTraces
  <1> DEFINE e == Interrupted(exec[q], reason)
  <1>2. /\ e \in Execution /\ e.phase = "running" /\ e.token = exec[q].token
        /\ e.handler = exec[q].handler /\ e.reply = exec[q].reply
        /\ e.cause = "user" => exec[q].cause = "user" \/ reason = "user"
    BY SMTT(40), <1>1, RunFields
  <1>3. exec' = [exec EXCEPT ![q] = e] /\ UNCHANGED <<ledger, queue, accepting, cancelTx>>
    BY DEF Interrupt
  <1> HIDE DEF e
  <1>4. QED
    BY <1>1, <1>2, <1>3, ExecutionOnlyStep, Zenon

\* HeartbeatAnswer only moves the execution.
LEMMA HeartbeatAnswerStep ==
  ASSUME IInv, NEW q \in QueueIds, HeartbeatAnswer(q)
  PROVE  IInv'
  <1>1. /\ exec[q] \in Execution /\ exec[q].phase = "running"
        /\ exec[q].token # 0 /\ exec[q].handler # "none"
        /\ exec[q].reply = "cancel_requested" \/ exec[q].cause = "user"
              => ledger[queue[q].job].cancel_asked
    BY DEF IInv, TypeOK, Phases, HeartbeatAnswer, CancelTraces
  <1> DEFINE e == AnswerSeen(exec[q])
  <1>2. /\ e \in Execution /\ e.phase = "running" /\ e.token = exec[q].token
        /\ e.handler = exec[q].handler /\ e.reply = None
        /\ e.cause = "user" => exec[q].cause = "user" \/ exec[q].reply = "cancel_requested"
    BY Zenon, <1>1, RunFields
  <1>3. exec' = [exec EXCEPT ![q] = e] /\ UNCHANGED <<ledger, queue, accepting, cancelTx>>
    BY DEF HeartbeatAnswer
  <1> HIDE DEF e
  <1>4. QED
    BY <1>1, <1>2, <1>3, ExecutionOnlyStep, NoneAssumption, Zenon

\* HandlerEnds only moves the execution.
LEMMA HandlerEndsStep ==
  ASSUME IInv, NEW q \in QueueIds, NEW how \in {"succeeded", "failed", "cancelled"},
         HandlerEnds(q, how)
  PROVE  IInv'
  <1>1. /\ exec[q] \in Execution /\ exec[q].phase = "running" /\ exec[q].token # 0
        /\ exec[q].reply = "cancel_requested" \/ exec[q].cause = "user"
              => ledger[queue[q].job].cancel_asked
    BY DEF IInv, TypeOK, Phases, HandlerEnds, CancelTraces
  <1> DEFINE e == Ended(exec[q], how)
  <1>2. /\ e \in Execution /\ e.phase = "running" /\ e.token = exec[q].token
        /\ e.handler = how /\ e.reply = exec[q].reply /\ e.cause = exec[q].cause
    BY SMTT(40), <1>1, RunFields
  <1>3. exec' = [exec EXCEPT ![q] = e] /\ UNCHANGED <<ledger, queue, accepting, cancelTx>>
    BY DEF HandlerEnds
  <1> HIDE DEF e
  <1>4. QED
    BY <1>1, <1>2, <1>3, ExecutionOnlyStep, Zenon

\* An execution that leaves, without touching the ledger.
LEMMA LeavesStep ==
  ASSUME IInv, NEW q \in QueueIds, exec[q].phase \in {"fetched", "running", "exiting"},
         UNCHANGED <<ledger, queue, accepting, cancelTx>>,
         NEW ph \in {"exiting", "over"}, NEW how \in QueueEnd \cup {None},
         ph = "exiting" => exec[q].phase # "exiting" /\ how \in QueueEnd,
         exec' = [exec EXCEPT ![q] = Left(@, ph, how)]
  PROVE  IInv'
  <1>1. exec[q] \in Execution
    BY OwnJob
  <1>2. LET e == Left(exec[q], ph, how) IN
        /\ e \in Execution
        /\ e.phase = ph /\ e.token = exec[q].token /\ e.handler = exec[q].handler
        /\ e.reply = None /\ e.cause = None /\ e.exit = how
    BY SMTT(40), <1>1, LeftFields
  <1>3. QED
    BY <1>2, ExecutionOnlyStep, NoneAssumption, Zenon

\* FinishLost leaves.
LEMMA FinishLostStep ==
  ASSUME IInv, NEW q \in QueueIds, FinishLost(q)
  PROVE  IInv'
  BY LeavesStep, Zenon DEF FinishLost, ReadyToFinish, QueueEnd

\* A crash leaves.
LEMMA CrashStep ==
  ASSUME IInv, NEW q \in QueueIds, Crash(q)
  PROVE  IInv'
  BY LeavesStep, Zenon DEF Crash

-----------------------------------------------------------------------------
(* Claims.                                                                 *)

\* Claim takes the claim, or leaves as stale.
LEMMA ClaimStep ==
  ASSUME IInv, NEW q \in QueueIds, Claim(q)
  PROVE  IInv'
  <1> DEFINE j == queue[q].job
  <1>1. /\ j \in Jobs /\ ledger[j] \in LedgerRow /\ ledger[j].attempt_count \in Nat
        /\ exec[q].phase = "fetched"
    BY Zenon, OwnJob, Fields DEF Claim
  <1>2. CASE Claimable(j, q)
    <2>1. Claimed(ledger[j]).claim_token = ledger[j].attempt_count + 1
      BY <1>1, ClaimedFields
    <2>2. exec' = [exec EXCEPT ![q] = Started(ledger[j].attempt_count + 1)]
      BY <1>2, <2>1 DEF Claim
    <2>3. /\ exec'[q] = Started(ledger[j].attempt_count + 1)
          /\ \A p \in QueueIds \ {q} : exec'[p] = exec[p]
          /\ exec' \in [QueueIds -> Execution]
      BY <1>1, <2>2, StartFields DEF IInv, TypeOK
    <2>4. /\ exec'[q].phase = "running" /\ exec'[q].handler # "none"
          /\ exec'[q].token = ledger[j].attempt_count + 1
          /\ exec'[q].reply = None /\ exec'[q].cause = None
      BY SMTT(40), <1>1, <2>3, StartFields
    <2>5. TakesClaim(j, q)
      BY <1>1, <1>2, <2>3, <2>4, Zenon DEF Claim, TakesClaim, Unlocked
    <2>6. QED
      BY <1>1, <2>5, TakesClaimStep
  <1>3. CASE ~Claimable(j, q)
    BY <1>1, <1>3, LeavesStep DEF Claim, QueueEnd
  <1>4. QED
    BY <1>2, <1>3

\* A claim that was interrupted has been taken for an execution that does not
\* know its token, or not at all.
LEMMA ClaimInterruptedStep ==
  ASSUME IInv, NEW q \in QueueIds, NEW committed \in BOOLEAN, ClaimInterrupted(q, committed)
  PROVE  IInv'
  <1> DEFINE j == queue[q].job
  <1>1. /\ j \in Jobs /\ exec[q] \in Execution /\ exec[q].phase = "fetched"
        /\ exec[q].token = 0
    BY Zenon, OwnJob DEF ClaimInterrupted, IInv, Phases
  <1>2. PICK how \in {"failed", "aborted"} : exec' = [exec EXCEPT ![q] = Left(@, "exiting", how)]
    BY Zenon DEF ClaimInterrupted
  <1>3. how \in QueueEnd
    BY DEF QueueEnd
  <1>4. CASE committed
    <2>1. /\ exec'[q] = Left(exec[q], "exiting", how)
          /\ \A p \in QueueIds \ {q} : exec'[p] = exec[p]
          /\ exec' \in [QueueIds -> Execution]
      BY <1>1, <1>2, <1>3, LeftFields DEF IInv, TypeOK
    <2>2. /\ exec'[q].phase = "exiting" /\ exec'[q].token = 0 /\ exec'[q].exit \in QueueEnd
          /\ exec'[q].reply = None /\ exec'[q].cause = None
      BY <1>1, <1>3, <2>1, LeftFields
    <2>3. TakesClaim(j, q)
      BY Zenon, <1>1, <1>4, <2>1, <2>2 DEF ClaimInterrupted, TakesClaim, Unlocked
    <2>4. QED
      BY <1>1, <2>3, TakesClaimStep
  <1>5. CASE ~committed
    BY <1>1, <1>2, <1>3, <1>5, LeavesStep, Zenon DEF ClaimInterrupted
  <1>6. QED
    BY <1>4, <1>5

-----------------------------------------------------------------------------
(* The writes of B and F.                                                  *)

\* HeartbeatWrite keeps the claims.
LEMMA HeartbeatWriteStep ==
  ASSUME IInv, NEW q \in QueueIds, NEW answered \in BOOLEAN, HeartbeatWrite(q, answered)
  PROVE  IInv'
  <1> DEFINE j == queue[q].job
             reply == IF ~answered THEN None
                      ELSE IF Live(j, exec[q].token) THEN ledger[j].status ELSE "lost"
  <1>1. /\ exec[q] \in Execution /\ queue[q].status = "doing"
        /\ j \in Jobs /\ ledger[j] \in LedgerRow /\ ledger[j].status # "absent"
        /\ exec[q].phase = "running" /\ exec[q].token # 0 /\ exec[q].handler # "none"
    BY Zenon, OwnJob DEF HeartbeatWrite, IInv, Phases
  <1>2. /\ reply \in LiveStatuses \cup {"lost", None}
        /\ reply = "cancel_requested" => ledger[j].status = "cancel_requested"
    BY Zenon, NoneAssumption DEF Live
  <1>3. exec' = [exec EXCEPT ![q] = Replied(exec[q], reply)]
    BY Zenon DEF HeartbeatWrite
  <1> HIDE DEF reply
  <1>4. /\ exec'[q] = Replied(exec[q], reply) /\ exec' \in [QueueIds -> Execution]
        /\ \A p \in QueueIds \ {q} : exec'[p] = exec[p]
    BY <1>1, <1>2, <1>3, RunFields, Zenon DEF IInv, TypeOK
  <1>5. /\ exec'[q].phase = "running" /\ exec'[q].token = exec[q].token
        /\ exec'[q].handler = exec[q].handler
        /\ exec'[q].reply = reply /\ exec'[q].cause = exec[q].cause
    BY SMTT(40), <1>1, <1>2, <1>4, RunFields
  <1>6. /\ ledger' \in [Jobs -> LedgerRow] /\ SameClaim(ledger[j], ledger'[j])
        /\ ledger'[j].status = ledger[j].status
        /\ ledger'[j].result_code = ledger[j].result_code
        /\ ledger'[j].cancel_asked = ledger[j].cancel_asked
        /\ \A i \in Jobs \ {j} : ledger'[i] = ledger[i]
    <2>1. CASE ledger' = [ledger EXCEPT ![j] = Beaten(@)]
      BY Zenon, <1>1, <2>1, HeartbeatFields DEF IInv, TypeOK, SameClaim
    <2>2. CASE ledger' = ledger
      BY <1>1, <2>2 DEF IInv, TypeOK, SameClaim
    <2>3. QED
      BY <2>1, <2>2, Zenon DEF HeartbeatWrite
  <1>7. KeepsClaims(j, q)
    BY <1>1, <1>4, <1>5, <1>6, Zenon DEF KeepsClaims, HeartbeatWrite
  <1>8. StatusStep(j) /\ ExecutionStep(q)
    BY Zenon, <1>1, <1>5, <1>6 DEF StatusStep, ExecutionStep
  <1>9. CancelStep(j, q)
    BY Zenon, <1>1, <1>2, <1>5, <1>6 DEF IInv, CancelTraces, CancelStep
  <1>10. ResultStep(j, q)
    BY Zenon, <1>1, <1>6 DEF ResultStep
  <1>11. QED
    BY <1>1, <1>7, <1>8, <1>9, <1>10, KeepsClaimsStep

\* The end of a run with an effect on the ledger row keeps the claims.
LEMMA FinalizedStep ==
  ASSUME IInv, NEW q \in QueueIds, NEW how \in QueueEnd,
         ReadyToFinish(q), ~Lost(q),
         exec' = [exec EXCEPT ![q] = Left(@, "exiting", how)],
         Live(queue[q].job, exec[q].token), Unlocked(queue[q].job),
         ledger' = [ledger EXCEPT ![queue[q].job] = Finalized(@, exec[q].handler)],
         UNCHANGED <<queue, accepting, cancelTx>>
  PROVE  IInv'
  <1> DEFINE j == queue[q].job
             status == exec[q].handler
  <1>1. /\ exec[q] \in Execution /\ queue[q].status = "doing"
        /\ j \in Jobs /\ ledger[j] \in LedgerRow /\ ledger[j].status # "absent"
        /\ exec[q].phase = "running" /\ exec[q].token # 0
        /\ status \in {"succeeded", "failed", "cancelled"}
    BY Zenon, OwnJob, Fields DEF ReadyToFinish, HandlerDone, IInv, Phases
  <1>2. /\ ledger[j].queue_job_id = q /\ ledger[j].claim_token = exec[q].token
        /\ cancelTx[j] = None
    BY Zenon, <1>1 DEF Live, Unlocked, IInv, Tokens
  <1>3. status = "cancelled" => ledger[j].cancel_asked
    BY DEF Lost, IInv, CancelTraces
  <1>4. /\ exec'[q] = Left(exec[q], "exiting", how) /\ exec' \in [QueueIds -> Execution]
        /\ \A p \in QueueIds \ {q} : exec'[p] = exec[p]
    BY Zenon, <1>1, LeftFields DEF IInv, TypeOK
  <1>5. /\ exec'[q].phase = "exiting" /\ exec'[q].token = exec[q].token
        /\ exec'[q].handler = status /\ exec'[q].exit \in QueueEnd
        /\ exec'[q].reply = None /\ exec'[q].cause = None
    <2>0. how \in QueueEnd \cup {None} /\ "exiting" \in {"exiting", "over"} /\ exec[q] \in Execution
      BY Zenon, <1>1
    <2>1. /\ Left(exec[q], "exiting", how).phase = "exiting"
          /\ Left(exec[q], "exiting", how).token = exec[q].token
          /\ Left(exec[q], "exiting", how).handler = exec[q].handler
          /\ Left(exec[q], "exiting", how).reply = None
          /\ Left(exec[q], "exiting", how).cause = None
          /\ Left(exec[q], "exiting", how).exit = how
      BY ONLY LeftFields, <2>0
    <2>2. QED
      BY Zenon, <1>4, <2>1
  <1>6. status \in TERMINAL_STATUSES /\ FinalCode(status) \in ResultCodes
    BY <1>1 DEF TERMINAL_STATUSES, FinalCode, ResultCodes
  <1> DEFINE new == Closed(ledger[j], status, FinalCode(status))
  <1>7. ledger' = [ledger EXCEPT ![j] = new]
    BY DEF Finalized
  <1>8. /\ new \in LedgerRow /\ SameClaim(ledger[j], new) /\ new.status = status
        /\ new.cancel_asked = ledger[j].cancel_asked
    BY Zenon, <1>1, <1>6, ClosedFields DEF SameClaim
  <1> HIDE DEF new
  <1>9. /\ ledger' \in [Jobs -> LedgerRow] /\ ledger'[j] = new
        /\ \A i \in Jobs \ {j} : ledger'[i] = ledger[i]
    BY <1>1, <1>7, <1>8 DEF IInv, TypeOK
  <1> HIDE DEF status
  <1>10. KeepsClaims(j, q)
    BY <1>1, <1>4, <1>5, <1>8, <1>9, Zenon DEF KeepsClaims
  <1>11. StatusStep(j) /\ ExecutionStep(q)
    BY Zenon, <1>1, <1>2, <1>5, <1>8, <1>9 DEF StatusStep, ExecutionStep
  <1>12. CancelStep(j, q)
    BY Zenon, <1>1, <1>3, <1>5, <1>8, <1>9, NoneAssumption DEF CancelStep
  <1>13. ResultStep(j, q)
    BY Zenon, <1>1, <1>2, <1>5, <1>8, <1>9 DEF ResultStep, ActiveStatuses
  <1>14. QED
    BY Zenon, <1>1, <1>10, <1>11, <1>12, <1>13, KeepsClaimsStep

\* FinalWrite finalizes, or leaves as stale.
LEMMA FinalWriteStep ==
  ASSUME IInv, NEW q \in QueueIds, FinalWrite(q)
  PROVE  IInv'
  <1> DEFINE how == IF exec[q].pending_cancel \/ exec[q].handler = "cancelled"
                    THEN "aborted" ELSE "succeeded"
  <1>1. how \in QueueEnd
    BY DEF QueueEnd
  <1>2. exec' = [exec EXCEPT ![q] = Left(@, "exiting", how)]
    BY DEF FinalWrite
  <1> HIDE DEF how
  <1>3. CASE Live(queue[q].job, exec[q].token)
    BY <1>1, <1>2, <1>3, FinalizedStep, Zenon DEF FinalWrite
  <1>4. CASE ~Live(queue[q].job, exec[q].token)
    BY <1>1, <1>2, <1>4, LeavesStep, Zenon DEF FinalWrite, ReadyToFinish
  <1>5. QED
    BY <1>3, <1>4

\* FinalWriteFails finalizes, or leaves.
LEMMA FinalWriteFailsStep ==
  ASSUME IInv, NEW q \in QueueIds, NEW committed \in BOOLEAN, FinalWriteFails(q, committed)
  PROVE  IInv'
  <1>1. "failed" \in QueueEnd
    BY DEF QueueEnd
  <1>2. CASE committed /\ Live(queue[q].job, exec[q].token)
    BY <1>1, <1>2, FinalizedStep, Zenon DEF FinalWriteFails
  <1>3. CASE ~(committed /\ Live(queue[q].job, exec[q].token))
    BY <1>1, <1>3, LeavesStep, Zenon DEF FinalWriteFails, ReadyToFinish
  <1>4. QED
    BY <1>2, <1>3


-----------------------------------------------------------------------------
(* Acceptance.                                                             *)

\* Opening or closing a transaction touches no table.
LEMMA TransactionOnlyStep ==
  ASSUME IInv, UNCHANGED <<ledger, queue, exec>>, TypeOK', References', LockedRows'
  PROVE  IInv'
  <1>1. Phases' /\ NoOrphanQueueRow' /\ Tokens'
    BY Zenon DEF IInv, Phases, NoOrphanQueueRow, Tokens
  <1>2. Counts' /\ CancelTraces' /\ Results'
    BY Zenon DEF IInv, Counts, CancelTraces, Results
  <1>3. QED
    BY Zenon, <1>1, <1>2 DEF IInv

\* AcceptCheck keeps the invariant.
LEMMA AcceptCheckStep ==
  ASSUME IInv, NEW o \in Owners, NEW k \in Keys, AcceptCheck(o, k)
  PROVE  IInv'
  <1>1. TypeOK'
    BY DEF IInv, TypeOK, AcceptCheck
  <1>2. References' /\ LockedRows'
    BY Zenon DEF IInv, References, LockedRows, AcceptCheck
  <1>3. QED
    BY Zenon, <1>1, <1>2, TransactionOnlyStep DEF AcceptCheck

\* AcceptCommit hands the new job to the queue.
LEMMA AcceptCommitStep ==
  ASSUME IInv, NEW tx \in accepting, NEW j \in Jobs, NEW q \in QueueIds,
         AcceptCommit(tx, j, q)
  PROVE  IInv'
  <1>1. /\ ledger[j] = NoRow /\ cancelTx[j] = None /\ tx \in [owner: Owners, key: Keys]
        /\ ledger \in [Jobs -> LedgerRow]
    BY Zenon DEF IInv, TypeOK, References, AcceptCommit
  <1> DEFINE new == AcceptedRow(tx, q)
  <1>2. ledger' = [ledger EXCEPT ![j] = new]
    BY Zenon DEF AcceptCommit
  <1>3. /\ new \in LedgerRow
        /\ new.status = "accepted" /\ new.queue_job_id = q /\ new.claim_token = 0
        /\ new.dispatch_count = 1 /\ new.attempt_count = 0
        /\ new.result_code = None /\ new.cancel_asked = FALSE
    BY <1>1, AcceptedRowFields, Zenon
  <1> HIDE DEF new
  <1>4. /\ ledger'[j] = new /\ \A i \in Jobs \ {j} : ledger'[i] = ledger[i]
        /\ ledger' \in [Jobs -> LedgerRow]
    BY Zenon, <1>1, <1>2, <1>3
  <1>5. Dispatches(j, q)
    BY SMTT(40), <1>1, <1>3, <1>4, EmptyFields, MaxDispatchesAssumption DEF AcceptCommit, NextId, Dispatches
  <1>6. QED
    BY Zenon, <1>5, DispatchesStep

\* AcceptRollback keeps the invariant.
LEMMA AcceptRollbackStep ==
  ASSUME IInv, NEW tx \in accepting, AcceptRollback(tx)
  PROVE  IInv'
  <1>1. TypeOK'
    BY Zenon DEF IInv, TypeOK, AcceptRollback
  <1>2. References' /\ LockedRows'
    BY Zenon DEF IInv, References, LockedRows, AcceptRollback
  <1>3. QED
    BY Zenon, <1>1, <1>2, TransactionOnlyStep DEF AcceptRollback

-----------------------------------------------------------------------------
(* Cancellation by the owner.                                              *)

\* CancelRead keeps the invariant.
LEMMA CancelReadStep ==
  ASSUME IInv, NEW j \in Jobs, CancelRead(j)
  PROVE  IInv'
  <1> USE DEF IInv, CancelRead
  <1>1. TypeOK'
    <2>1. queue[ledger[j].queue_job_id].status \in QueueStatus
      BY Zenon, Fields DEF TypeOK, References
    <2>2. QED
      BY Zenon, <2>1 DEF TypeOK
  <1>2. References'
    BY Zenon DEF TypeOK, References
  <1>3. LockedRows'
    BY Zenon DEF TypeOK, LockedRows
  <1>4. QED
    BY Zenon, <1>1, <1>2, <1>3, TransactionOnlyStep

\* CancelApply keeps the invariant.
LEMMA CancelApplyStep ==
  ASSUME IInv, NEW j \in Jobs, CancelApply(j)
  PROVE  IInv'
  <1> USE DEF IInv
  <1> DEFINE q == ledger[j].queue_job_id
             changed == cancelTx[j] \in {"todo", "doing"} /\ ~QueueRowFinished(queue[q])
  <1>1. /\ ledger[j].status \in {"accepted", "running"}
        /\ ledger[j] \in LedgerRow /\ q \in QueueIds
        /\ queue[q] \in QueueRow /\ queue[q].job = j /\ queue[q].status # "absent"
    BY Zenon DEF CancelApply, Unlocked, TypeOK, LockedRows, References
  <1>2. /\ ledger'[j] \in LedgerRow
        /\ ledger'[j].queue_job_id = q /\ ledger'[j].claim_token = ledger[j].claim_token
        /\ ledger'[j].dispatch_count = ledger[j].dispatch_count
        /\ ledger'[j].attempt_count = ledger[j].attempt_count
        /\ ledger'[j].cancel_asked
        /\ \/ ledger'[j].status = "cancel_requested" /\ ledger'[j].result_code = None
           \/ /\ ledger'[j].status = "cancelled"
              /\ ledger'[j].result_code \in {"cancelled", "cancelled_after_interrupt"}
        /\ \A i \in Jobs \ {j} : ledger'[i] = ledger[i]
    <2>1. /\ \/ ledger'[j] = WithStatus(ledger[j], "cancel_requested", None)
             \/ ledger'[j] = WithStatus(ledger[j], "cancelled", "cancelled")
             \/ ledger'[j] = WithStatus(ledger[j], "cancelled", "cancelled_after_interrupt")
          /\ \A i \in Jobs \ {j} : ledger'[i] = ledger[i]
      BY Zenon DEF CancelApply, TypeOK
    <2>2. SameClaim(ledger[j], ledger'[j]) /\ ledger'[j].cancel_asked = TRUE
      BY <1>1, <2>1, WithStatusFields, Zenon
    <2>3. \/ ledger'[j].status = "cancel_requested" /\ ledger'[j].result_code = None
          \/ /\ ledger'[j].status = "cancelled"
             /\ ledger'[j].result_code \in {"cancelled", "cancelled_after_interrupt"}
      BY <1>1, <2>1, WithStatusFields, Zenon
    <2>4. QED
      BY Zenon, <2>1, <2>2, <2>3 DEF SameClaim
  <1>3. /\ queue'[q] \in QueueRow /\ queue'[q].job = j
        /\ queue'[q].status \notin {"absent", "todo"}
        /\ \/ queue'[q].status = queue[q].status
           \/ queue[q].status = "todo" /\ queue'[q].status = "cancelled"
        /\ \A p \in QueueIds \ {q} : queue'[p] = queue[p]
    <2>1. CASE changed
      <3>1. queue' = [queue EXCEPT ![q] = Aborted(queue[q])]
        BY Zenon, <2>1 DEF CancelApply
      <3>2. queue'[q] = Aborted(queue[q]) /\ \A p \in QueueIds \ {q} : queue'[p] = queue[p]
        BY Zenon, <3>1, <1>1 DEF TypeOK
      <3>3. /\ Aborted(queue[q]) \in QueueRow /\ Aborted(queue[q]).job = j
            /\ queue[q].status = "todo" => Aborted(queue[q]).status = "cancelled"
            /\ queue[q].status # "todo" => Aborted(queue[q]).status = queue[q].status
        BY Zenon, <1>1, QueueFields
      <3>4. Aborted(queue[q]).status \notin {"absent", "todo"}
        BY Zenon, <1>1, <3>3
      <3>5. QED
        BY Zenon, <3>2, <3>3, <3>4
    <2>2. CASE ~changed
      <3>1. queue' = queue
        BY Zenon, <2>2 DEF CancelApply
      <3>2. queue[q].status # "todo"
        BY Zenon, <1>1, <2>2 DEF QueueRowFinished, CancelApply, Unlocked, LockedRows
      <3>3. QED
        BY Zenon, <3>1, <3>2, <1>1
    <2>3. QED
      BY Zenon, <2>1, <2>2
  <1>4. /\ exec' = exec /\ accepting' = accepting
        /\ cancelTx'[j] = None /\ \A i \in Jobs \ {j} : cancelTx'[i] = cancelTx[i]
    BY Zenon DEF CancelApply, TypeOK
  <1> HIDE DEF q, changed
  <1>5. TypeOK'
    <2>1. ledger' \in [Jobs -> LedgerRow]
      BY Zenon, <1>2 DEF TypeOK, CancelApply
    <2>2. queue' \in [QueueIds -> QueueRow]
      <3>1. queue' \in [QueueIds -> QueueRow] \/ queue' = [queue EXCEPT ![q] = Aborted(queue[q])]
        BY Zenon DEF TypeOK, CancelApply, q
      <3>2. QED
        BY <3>1, <1>1, QueueFields DEF TypeOK
    <2>3. QED
      BY Zenon, <2>1, <2>2 DEF TypeOK, CancelApply
  <1>6. \A i \in Jobs \ {j} : ledger[i].status # "absent" => ledger[i].queue_job_id # q
    BY Zenon, <1>1 DEF References
  <1>7. References'
    BY SMTT(40), <1>1, <1>2, <1>3, <1>4 DEF References
  <1>8. LockedRows'
    <2>1. \A i \in Jobs \ {j} : cancelTx[i] # None => ledger[i].queue_job_id \in QueueIds \ {q}
      BY Zenon, <1>1, <1>6 DEF LockedRows, References
    <2>2. SUFFICES ASSUME NEW i \in Jobs, cancelTx'[i] # None
                   PROVE  /\ ledger'[i].status \in {"accepted", "running"}
                          /\ queue'[ledger'[i].queue_job_id].status = "todo" => cancelTx'[i] = "todo"
      BY Zenon DEF LockedRows
    <2>3. i \in Jobs \ {j} /\ cancelTx'[i] = cancelTx[i] /\ ledger'[i] = ledger[i]
      BY Zenon, <1>2, <1>4, <2>2
    <2>4. queue'[ledger[i].queue_job_id] = queue[ledger[i].queue_job_id]
      BY Zenon, <1>3, <2>1, <2>2, <2>3
    <2>5. QED
      BY Zenon, <2>2, <2>3, <2>4 DEF LockedRows
  <1>9. Phases'
    BY Zenon, <1>1, <1>3, <1>4 DEF Phases
  <1>10. NoOrphanQueueRow'
    <2>1. SUFFICES ASSUME NEW p \in QueueIds, queue'[p].status = "todo"
                   PROVE  /\ ledger'[queue'[p].job].status = "accepted"
                          /\ ledger'[queue'[p].job].queue_job_id = p
      BY Zenon DEF NoOrphanQueueRow
    <2>2. p \in QueueIds \ {q} /\ queue'[p] = queue[p]
      BY Zenon, <1>3, <2>1
    <2>3. queue[p].job \in Jobs
      BY Zenon, <2>1, <2>2 DEF References
    <2>4. ledger[queue[p].job].queue_job_id = p /\ ledger[queue[p].job].status = "accepted"
      BY Zenon, <2>1, <2>2 DEF NoOrphanQueueRow
    <2>5. queue[p].job # j
      BY Zenon, <2>2, <2>4 DEF q
    <2>6. QED
      BY Zenon, <1>2, <2>2, <2>3, <2>4, <2>5
  <1>11. Tokens'
    <2>1. \A i \in Jobs : /\ ledger'[i].claim_token = ledger[i].claim_token
                          /\ ledger'[i].attempt_count = ledger[i].attempt_count
                          /\ ledger'[i].queue_job_id = ledger[i].queue_job_id
      BY Zenon, <1>2 DEF q
    <2>2. \A p \in QueueIds : queue'[p].job = queue[p].job
      BY Zenon, <1>1, <1>3
    <2>3. \A p \in QueueIds : exec[p].token # 0 => queue[p].job \in Jobs
      BY Zenon, EmptyFields DEF References, Phases
    <2>4. QED
      BY SMTT(40), <1>4, <2>1, <2>2, <2>3 DEF Tokens
  <1>12. Counts'
    BY Zenon, <1>1, <1>2 DEF Counts
  <1>13. CancelTraces'
    <2>1. \A i \in Jobs : ledger[i].cancel_asked => ledger'[i].cancel_asked
      BY Zenon, <1>2
    <2>2. \A i \in Jobs :
            /\ ledger'[i].status \in {"absent", "accepted", "running"} => ~ledger'[i].cancel_asked
            /\ ledger'[i].status \in {"cancel_requested", "cancelled"} => ledger'[i].cancel_asked
      BY Zenon, <1>2 DEF CancelTraces
    <2>3. \A p \in QueueIds : p = q \/ queue'[p] = queue[p]
      BY Zenon, <1>3
    <2>4. QED
      BY ZenonT(40), <1>2, <1>3, <1>4, <2>1, <2>2, <2>3, TracedJob DEF CancelTraces
  <1>14. Results'
    <2>1. /\ ledger'[j].status \in ActiveStatuses => ledger'[j].result_code = None
          /\ ledger'[j].result_code \notin {"ok", "handler_failed"}
      BY Zenon, <1>2, NoneAssumption DEF ActiveStatuses
    <2>2. \A i \in Jobs \ {j} : ledger'[i] = ledger[i] /\ exec' = exec
      BY Zenon, <1>2, <1>4
    <2>3. QED
      BY Zenon, <2>1, <2>2 DEF Results
  <1>15. QED
    BY Zenon, <1>5, <1>7, <1>8, <1>9, <1>10, <1>11, <1>12, <1>13, <1>14

\* CancelRollback keeps the invariant.
LEMMA CancelRollbackStep ==
  ASSUME IInv, NEW j \in Jobs, CancelRollback(j)
  PROVE  IInv'
  <1>1. TypeOK'
    BY Zenon DEF IInv, TypeOK, CancelRollback
  <1>2. References' /\ LockedRows'
    BY Zenon DEF IInv, TypeOK, References, LockedRows, CancelRollback
  <1>3. QED
    BY Zenon, <1>1, <1>2, TransactionOnlyStep DEF CancelRollback

-----------------------------------------------------------------------------
(* Time and reconcile.                                                     *)

\* A write to one present ledger row that keeps its claim and touches no other
\* table.
LEMMA RowOnlyStep ==
  ASSUME IInv, NEW j \in Jobs, ledger[j].status # "absent",
         UNCHANGED <<queue, exec, accepting, cancelTx>>,
         NEW new \in LedgerRow, ledger' = [ledger EXCEPT ![j] = new],
         SameClaim(ledger[j], new), new.cancel_asked = ledger[j].cancel_asked,
         \/ new.status = ledger[j].status /\ new.result_code = ledger[j].result_code
         \/ /\ cancelTx[j] = None /\ queue[ledger[j].queue_job_id].status # "todo"
            /\ new.status \in {"failed", "cancelled"}
            /\ new.result_code \notin {"ok", "handler_failed"}
            /\ new.status = "cancelled" => ledger[j].cancel_asked
  PROVE  IInv'
  <1> DEFINE q == ledger[j].queue_job_id
  <1>1. /\ q \in QueueIds /\ queue[q].job = j /\ queue[q].status # "absent"
    BY Zenon DEF IInv, References
  <1>2. /\ ledger'[j] = new /\ \A i \in Jobs \ {j} : ledger'[i] = ledger[i]
        /\ ledger' \in [Jobs -> LedgerRow] /\ exec \in [QueueIds -> Execution]
    BY Zenon DEF IInv, TypeOK
  <1>3. KeepsClaims(j, q)
    BY Zenon, <1>1, <1>2 DEF KeepsClaims
  <1>4. StatusStep(j) /\ ExecutionStep(q)
    BY Zenon, <1>1, <1>2 DEF StatusStep, ExecutionStep
  <1>5. CancelStep(j, q)
    BY Zenon, <1>1, <1>2 DEF IInv, CancelTraces, CancelStep
  <1>6. ResultStep(j, q)
    BY Zenon, <1>1, <1>2 DEF ResultStep, ActiveStatuses
  <1>7. QED
    BY Zenon, <1>1, <1>3, <1>4, <1>5, <1>6, KeepsClaimsStep

\* HeartbeatAges writes one row.
LEMMA HeartbeatAgesStep ==
  ASSUME IInv, NEW j \in Jobs, HeartbeatAges(j)
  PROVE  IInv'
  <1>1. /\ ledger[j] \in LedgerRow /\ ledger[j].status # "absent"
        /\ ledger' = [ledger EXCEPT ![j] = Aged(ledger[j])]
    BY Zenon DEF IInv, TypeOK, HeartbeatAges, LiveStatuses
  <1>2. QED
    BY <1>1, HeartbeatFields, RowOnlyStep, Zenon DEF HeartbeatAges, SameClaim

\* ReconcileCancel writes one row.
LEMMA ReconcileCancelStep ==
  ASSUME IInv, NEW j \in Jobs, ReconcileCancel(j)
  PROVE  IInv'
  <1> DEFINE new == Closed(ledger[j], "cancelled", "cancelled_after_interrupt")
  <1>1. /\ ledger[j] \in LedgerRow /\ ledger[j].status = "cancel_requested"
        /\ ledger' = [ledger EXCEPT ![j] = new]
        /\ cancelTx[j] = None
    BY Zenon DEF IInv, TypeOK, ReconcileCancel, Unlocked
  <1>2. queue[ledger[j].queue_job_id].status # "todo" /\ ledger[j].cancel_asked
    BY Zenon, <1>1 DEF IInv, References, NoOrphanQueueRow, CancelTraces
  <1>3. /\ new \in LedgerRow /\ SameClaim(ledger[j], new)
        /\ new.status = "cancelled" /\ new.result_code = "cancelled_after_interrupt"
        /\ new.cancel_asked = ledger[j].cancel_asked
    BY SMTT(40), <1>1, ClosedFields DEF SameClaim, TERMINAL_STATUSES, ResultCodes
  <1> HIDE DEF new
  <1>4. QED
    BY <1>1, <1>2, <1>3, RowOnlyStep, Zenon DEF ReconcileCancel

\* A stalled row is present, and its queue row does not wait.
LEMMA StalledRow ==
  ASSUME IInv, NEW j \in Jobs, Stalled(j)
  PROVE  /\ ledger[j] \in LedgerRow /\ ledger[j].status \in {"accepted", "running"}
         /\ ledger[j].queue_job_id \in QueueIds
         /\ queue[ledger[j].queue_job_id].status \notin {"absent", "todo"}
  BY Zenon DEF IInv, TypeOK, References, NoOrphanQueueRow, Stalled, AcceptedNeedsRecovery,
     QueueRowFinished

\* GiveUp writes one row.
LEMMA GiveUpStep ==
  ASSUME IInv, NEW j \in Jobs, GiveUp(j)
  PROVE  IInv'
  <1> DEFINE new == Closed(ledger[j], "failed", "worker_interrupted")
  <1>1. /\ ledger[j] \in LedgerRow /\ ledger[j].status # "absent"
        /\ queue[ledger[j].queue_job_id].status # "todo"
        /\ ledger' = [ledger EXCEPT ![j] = new]
        /\ cancelTx[j] = None
    BY Zenon, StalledRow DEF GiveUp, Unlocked
  <1>2. /\ new \in LedgerRow /\ SameClaim(ledger[j], new)
        /\ new.status = "failed" /\ new.result_code = "worker_interrupted"
        /\ new.cancel_asked = ledger[j].cancel_asked
    BY SMTT(40), <1>1, ClosedFields DEF SameClaim, TERMINAL_STATUSES, ResultCodes
  <1> HIDE DEF new
  <1>3. QED
    BY <1>1, <1>2, RowOnlyStep, Zenon DEF GiveUp

\* Redispatch hands the job to the queue again.  The queue row it replaces is
\* never a waiting one.
LEMMA RedispatchStep ==
  ASSUME IInv, NEW j \in Jobs, NEW q \in QueueIds, Redispatch(j, q)
  PROVE  IInv'
  <1>1. /\ ledger[j] \in LedgerRow /\ ledger[j].status \in {"accepted", "running"}
        /\ queue[ledger[j].queue_job_id].status # "todo"
        /\ cancelTx[j] = None
    BY Zenon, StalledRow DEF Redispatch, Unlocked
  <1>2. queue' = [queue EXCEPT ![q] = Deferred(j)]
    BY Zenon, <1>1 DEF Redispatch
  <1>3. /\ ledger'[j] = Requeued(ledger[j], q) /\ ledger' \in [Jobs -> LedgerRow]
        /\ \A i \in Jobs \ {j} : ledger'[i] = ledger[i]
    BY Zenon, <1>1, RequeuedFields DEF Redispatch, IInv, TypeOK
  <1>4. ledger[j].result_code = None /\ ledger[j].cancel_asked = FALSE
    <2>1. ledger[j].cancel_asked \in BOOLEAN
      BY Zenon, <1>1 DEF LedgerRow
    <2>2. ~ledger[j].cancel_asked
      BY Zenon, <1>1 DEF IInv, CancelTraces
    <2>3. ledger[j].result_code = None
      BY Zenon, <1>1 DEF IInv, Results, ActiveStatuses
    <2>4. ledger[j].cancel_asked = FALSE
      BY <2>1, <2>2, Zenon
    <2>5. QED
      BY Zenon, <2>3, <2>4
  <1>5. ledger[j].dispatch_count < MaxDispatches
    BY <1>1, Fields, MaxDispatchesAssumption DEF Redispatch, Exhausted
  <1>6. Dispatches(j, q)
    BY SMTT(40), <1>1, <1>2, <1>3, <1>4, <1>5, RequeuedFields DEF Redispatch, NextId, Dispatches
  <1>7. QED
    BY Zenon, <1>6, DispatchesStep

-----------------------------------------------------------------------------
(* The theorems.                                                           *)

\* The empty tables satisfy the invariant.
LEMMA InitIInv == Init => IInv
  <1> SUFFICES ASSUME Init PROVE IInv
    BY Zenon
  <1>1. TypeOK
    BY Zenon, TypeInit
  <1>2. /\ \A j \in Jobs : ledger[j] = NoRow /\ cancelTx[j] = None
        /\ \A q \in QueueIds : queue[q] = NoQueueRow /\ exec[q] = NoExecution
    BY Zenon DEF Init
  <1>3. References /\ LockedRows /\ Phases /\ NoOrphanQueueRow
    BY Zenon, <1>2, EmptyFields DEF References, LockedRows, Phases, NoOrphanQueueRow
  <1>4. Tokens /\ Counts
    BY SMTT(40), <1>2, EmptyFields, MaxDispatchesAssumption DEF Tokens, Counts
  <1>5. CancelTraces /\ Results
    BY Zenon, <1>2, EmptyFields, NoneAssumption DEF CancelTraces, Results, ActiveStatuses
  <1>6. QED
    BY Zenon, <1>1, <1>3, <1>4, <1>5 DEF IInv

\* Every transaction and every step of a worker preserves the invariant.
LEMMA NextIInv == IInv /\ [Next]_vars => IInv'
  <1> SUFFICES ASSUME IInv, [Next]_vars PROVE IInv'
    BY Zenon
  <1>1. CASE Accept
    BY Zenon, <1>1, AcceptCheckStep, AcceptCommitStep, AcceptRollbackStep DEF Accept
  <1>2. ASSUME NEW j \in Jobs, Cancel(j) \/ Reconcile(j) \/ HeartbeatAges(j)
        PROVE  IInv'
    BY Zenon, <1>2, CancelReadStep, CancelApplyStep, CancelRollbackStep, ReconcileCancelStep,
       GiveUpStep, RedispatchStep, HeartbeatAgesStep DEF Cancel, Reconcile
  <1>3. ASSUME NEW q \in QueueIds,
               Fetch(q) \/ FinishRow(q) \/ Crash(q) \/ GraceElapses(q)
        PROVE  IInv'
    BY Zenon, <1>3, FetchStep, FinishRowStep, CrashStep, GraceElapsesStep
  <1>4. ASSUME NEW q \in QueueIds, Run(q)
        PROVE  IInv'
    BY Zenon, <1>4, ClaimStep, ClaimInterruptedStep, InterruptStep, HeartbeatWriteStep,
       HeartbeatAnswerStep, HandlerEndsStep, FinishLostStep, FinalWriteStep,
       FinalWriteFailsStep DEF Run
  <1>5. CASE UNCHANGED vars
    <2> USE <1>5 DEF vars
    <2>1. TypeOK' /\ References' /\ LockedRows' /\ Phases'
      BY Zenon DEF IInv, TypeOK, References, LockedRows, Phases
    <2>2. NoOrphanQueueRow' /\ Tokens' /\ Counts'
      BY Zenon DEF IInv, NoOrphanQueueRow, Tokens, Counts
    <2>3. CancelTraces' /\ Results'
      BY Zenon DEF IInv, CancelTraces, Results
    <2>4. QED
      BY Zenon, <2>1, <2>2, <2>3 DEF IInv
  <1>6. QED
    BY Zenon, <1>1, <1>2, <1>3, <1>4, <1>5 DEF Next

\* The inductive invariant holds in every reachable state.
THEOREM InductiveInvariant == Spec => []IInv
  BY InitIInv, NextIInv, PTL DEF Spec

\* The tables and the executions keep their shape.
THEOREM TypeCorrect == Spec => []TypeOK
  <1>1. IInv => TypeOK
    BY Zenon DEF IInv
  <1>2. QED
    BY <1>1, InductiveInvariant, PTL

\* A running job belongs to the execution of the queue row it refers to,
\* however many replaced executions are still alive.
THEOREM FencingHolds == Spec => []Fencing
  <1>1. IInv => Fencing
    BY Zenon DEF IInv, Fencing, Live, Phases, Tokens
  <1>2. QED
    BY <1>1, InductiveInvariant, PTL

\* A waiting queue row is the one its accepted job refers to.
THEOREM NoOrphans == Spec => []NoOrphanQueueRow
  <1>1. IInv => NoOrphanQueueRow
    BY Zenon DEF IInv
  <1>2. QED
    BY <1>1, InductiveInvariant, PTL

\* Dispatches and executions of a job are bounded, whatever crashes.
THEOREM Bounded == Spec => []BoundedExecutions
  <1>1. IInv => BoundedExecutions
    BY Zenon DEF IInv, Counts, BoundedExecutions
  <1>2. QED
    BY <1>1, InductiveInvariant, PTL

\* A job ends as cancelled only after its owner asked for it.
THEOREM CancelledOnRequest == Spec => []CancelledOnlyOnRequest
  <1>1. IInv => CancelledOnlyOnRequest
    BY Zenon DEF IInv, CancelTraces, CancelledOnlyOnRequest
  <1>2. QED
    BY <1>1, InductiveInvariant, PTL

\* A recorded result is the one of the job's last claim.
THEOREM LastClaimResult == Spec => []ResultFromLastClaim
  <1>1. IInv => ResultFromLastClaim
    BY Zenon DEF IInv, Results, ResultFromLastClaim
  <1>2. QED
    BY <1>1, InductiveInvariant, PTL

-----------------------------------------------------------------------------
(* What a step may do to a ledger row.                                     *)

\* A row changes only while it is not there yet, accepted or running, or as a
\* cancellation that keeps its claim and does not start again.
RowStep(i) ==
    \/ ledger'[i] = ledger[i]
    \/ ledger[i].status \in {"absent", "accepted", "running"}
    \/ /\ ledger[i].status = "cancel_requested"
       /\ SameClaim(ledger[i], ledger'[i])
       /\ ledger'[i].status \notin {"accepted", "running"}

\* A heartbeat, its age and the end of a job only touch a row as RowStep says.
LEMMA ClosedRowStep ==
  ASSUME IInv, NEW i \in Jobs, ledger[i].status \in {"accepted", "running", "cancel_requested"},
         \/ ledger'[i] \in {Beaten(ledger[i]), Aged(ledger[i])}
         \/ \E st \in TERMINAL_STATUSES, code \in ResultCodes :
               ledger'[i] = Closed(ledger[i], st, code)
  PROVE  RowStep(i)
  <1>1. ledger[i] \in LedgerRow
    BY Zenon DEF IInv, TypeOK
  <1>2. CASE ledger'[i] \in {Beaten(ledger[i]), Aged(ledger[i])}
    BY Zenon, <1>1, <1>2, HeartbeatFields DEF RowStep, SameClaim
  <1>3. ASSUME NEW st \in TERMINAL_STATUSES, NEW code \in ResultCodes,
               ledger'[i] = Closed(ledger[i], st, code)
        PROVE  RowStep(i)
    <2> DEFINE new == Closed(ledger[i], st, code)
    <2>1. SameClaim(ledger[i], new) /\ new.status = st
      BY SMTT(40), <1>1, ClosedFields DEF SameClaim
    <2> HIDE DEF new
    <2>2. ledger'[i] = new
      BY Zenon, <1>3 DEF new
    <2>3. QED
      BY Zenon, <2>1, <2>2 DEF RowStep, TERMINAL_STATUSES
  <1>4. QED
    BY Zenon, <1>2, <1>3

\* F closes the row of a live claim.
LEMMA FinalizedRowStep ==
  ASSUME IInv, NEW q \in QueueIds, ReadyToFinish(q), NEW i \in Jobs,
         \/ ledger' = ledger
         \/ /\ Live(queue[q].job, exec[q].token)
            /\ ledger' = [ledger EXCEPT ![queue[q].job] = Finalized(@, exec[q].handler)]
  PROVE  RowStep(i)
  <1>1. CASE ledger'[i] = ledger[i]
    BY Zenon, <1>1 DEF RowStep
  <1>2. CASE ledger'[i] # ledger[i]
    <2>1. /\ ledger[i].status \in LiveStatuses
          /\ ledger'[i] = Closed(ledger[i], exec[q].handler, FinalCode(exec[q].handler))
      BY Zenon, <1>2 DEF IInv, TypeOK, Live, Finalized
    <2>2. exec[q].handler \in {"succeeded", "failed", "cancelled"}
      BY Zenon, OwnJob, Fields DEF ReadyToFinish, HandlerDone, IInv, Phases
    <2>3. exec[q].handler \in TERMINAL_STATUSES /\ FinalCode(exec[q].handler) \in ResultCodes
      BY Zenon, <2>2 DEF TERMINAL_STATUSES, FinalCode, ResultCodes
    <2>4. QED
      BY Zenon, <2>1, <2>3, ClosedRowStep DEF LiveStatuses
  <1>3. QED
    BY Zenon, <1>1, <1>2

\* What any step may do to the ledger row of a job.
LEMMA NextRowStep ==
  ASSUME IInv, Next, NEW i \in Jobs
  PROVE  RowStep(i)
  <1> USE DEF RowStep
  <1>1. CASE ledger' = ledger
    BY Zenon, <1>1
  <1>2. CASE Accept
    BY Zenon, <1>2 DEF Accept, AcceptCheck, AcceptCommit, AcceptRollback, IInv, TypeOK
  <1>3. ASSUME NEW j \in Jobs, Cancel(j)
        PROVE  RowStep(i)
    BY Zenon, <1>3 DEF Cancel, CancelRead, CancelApply, CancelRollback, Unlocked, IInv, TypeOK,
       LockedRows
  <1>4. ASSUME NEW j \in Jobs, HeartbeatAges(j)
        PROVE  RowStep(i)
    <2>1. \/ ledger'[i] = ledger[i]
          \/ ledger[i].status \in LiveStatuses /\ ledger'[i] = Aged(ledger[i])
      BY Zenon, <1>4 DEF HeartbeatAges, IInv, TypeOK
    <2>2. QED
      BY Zenon, <2>1, ClosedRowStep DEF LiveStatuses
  <1>5. ASSUME NEW j \in Jobs, ReconcileCancel(j) \/ GiveUp(j)
        PROVE  RowStep(i)
    <2>1. \/ ledger'[i] = ledger[i]
          \/ /\ ledger[i].status = "cancel_requested"
             /\ ledger'[i] = Closed(ledger[i], "cancelled", "cancelled_after_interrupt")
          \/ ledger[i].status \in {"accepted", "running"}
      BY Zenon, <1>5 DEF ReconcileCancel, GiveUp, Stalled, IInv, TypeOK
    <2>2. {"cancelled"} \subseteq TERMINAL_STATUSES
          /\ {"cancelled_after_interrupt"} \subseteq ResultCodes
      BY Zenon DEF TERMINAL_STATUSES, ResultCodes
    <2>3. QED
      BY Zenon, <2>1, <2>2, ClosedRowStep
  <1>6. ASSUME NEW j \in Jobs, NEW q \in QueueIds, Redispatch(j, q)
        PROVE  RowStep(i)
    BY Zenon, <1>6 DEF Redispatch, Stalled, IInv, TypeOK
  <1>7. ASSUME NEW q \in QueueIds, Claim(q) \/ \E c \in BOOLEAN : ClaimInterrupted(q, c)
        PROVE  RowStep(i)
    BY Zenon, <1>7 DEF Claim, ClaimInterrupted, Claimable, IInv, TypeOK
  <1>8. ASSUME NEW q \in QueueIds, NEW answered \in BOOLEAN, HeartbeatWrite(q, answered)
        PROVE  RowStep(i)
    <2>1. \/ ledger'[i] = ledger[i]
          \/ ledger[i].status \in LiveStatuses /\ ledger'[i] = Beaten(ledger[i])
      BY Zenon, <1>8 DEF HeartbeatWrite, Live, IInv, TypeOK
    <2>2. QED
      BY Zenon, <2>1, ClosedRowStep DEF LiveStatuses
  <1>9. ASSUME NEW q \in QueueIds, FinalWrite(q) \/ \E c \in BOOLEAN : FinalWriteFails(q, c)
        PROVE  RowStep(i)
    BY <1>9, FinalizedRowStep, Zenon DEF FinalWrite, FinalWriteFails
  <1>10. ASSUME NEW q \in QueueIds,
                \/ \E reason \in {"user", "lost"} : Interrupt(q, reason)
                \/ \E how \in {"succeeded", "failed", "cancelled"} : HandlerEnds(q, how)
                \/ HeartbeatAnswer(q) \/ FinishLost(q)
                \/ Fetch(q) \/ FinishRow(q) \/ Crash(q) \/ GraceElapses(q)
         PROVE  RowStep(i)
    <2>1. ledger' = ledger
      BY Zenon, <1>10 DEF Interrupt, HandlerEnds, HeartbeatAnswer, FinishLost, Fetch, FinishRow,
         Crash, GraceElapses
    <2>2. QED
      BY Zenon, <2>1
  <1> HIDE DEF RowStep
  <1>11. ASSUME NEW q \in QueueIds, Run(q)
         PROVE  RowStep(i)
    BY <1>7, <1>8, <1>9, <1>10, <1>11, Zenon DEF Run
  <1>12. ASSUME NEW j \in Jobs, Cancel(j) \/ Reconcile(j) \/ HeartbeatAges(j)
         PROVE  RowStep(i)
    BY <1>3, <1>4, <1>5, <1>6, <1>12, Zenon DEF Reconcile
  <1>13. QED
    BY <1>2, <1>10, <1>11, <1>12, Zenon DEF Next

\* A finished job is never touched again.
THEOREM FinishedStays == Spec => TerminalIsFinal
  <1>1. ASSUME IInv, [Next]_vars
        PROVE  [\A j \in Jobs : ledger[j].status \in TERMINAL_STATUSES
                    => ledger'[j] = ledger[j]]_vars
    <2>1. CASE Next
      BY Zenon, <2>1, <1>1, NextRowStep DEF RowStep, TERMINAL_STATUSES
    <2>2. CASE UNCHANGED vars
      BY Zenon, <2>2
    <2>3. QED
      BY Zenon, <1>1, <2>1, <2>2
  <1>2. QED
    BY <1>1, InductiveInvariant, PTL DEF Spec, TerminalIsFinal

\* A job whose owner asked to cancel it is not started or dispatched again.
THEOREM CancelledStaysStopped == Spec => CancelNeverRestarts
  <1>1. ASSUME IInv, [Next]_vars
        PROVE  [\A j \in Jobs : ledger[j].cancel_asked
                    => /\ ledger'[j].status \notin {"accepted", "running"}
                       /\ ledger'[j].dispatch_count = ledger[j].dispatch_count
                       /\ ledger'[j].attempt_count = ledger[j].attempt_count]_vars
    <2>1. CASE Next
      <3>1. \A j \in Jobs : ledger[j].cancel_asked
                               => ledger[j].status \notin {"absent", "accepted", "running"}
        BY Zenon, <1>1 DEF IInv, CancelTraces
      <3>2. QED
        BY Zenon, <2>1, <3>1, <1>1, NextRowStep DEF RowStep, SameClaim
    <2>2. CASE UNCHANGED vars
      BY Zenon, <2>2
    <2>3. QED
      BY Zenon, <1>1, <2>1, <2>2
  <1>2. QED
    BY <1>1, InductiveInvariant, PTL DEF Spec, CancelNeverRestarts

-----------------------------------------------------------------------------
(* Admission: the limit of active jobs and the idempotency key.            *)

\* An open accept transaction is the only one of its owner, whose lock it holds;
\* what it checked is still true, so that its commit may rely on it.  Rows have
\* an owner once they are there, and only finitely many are active.
Admission ==
    /\ \A t, u \in accepting : t.owner = u.owner => t = u
    /\ \A tx \in accepting :
          /\ \A j \in Jobs : <<ledger[j].owner, ledger[j].key>> # <<tx.owner, tx.key>>
          /\ Cardinality(Active(tx.owner)) < MaxActive
    /\ \A j \in Jobs : ledger[j].status # "absent" => ledger[j].owner \in Owners
    /\ \A o \in Owners : IsFiniteSet(Active(o))
    /\ ActiveLimit
    /\ IdempotentAccept

\* A row keeps its owner and its key, and does not become active again.
KeepsOwner(row, new) ==
    /\ new.owner = row.owner /\ new.key = row.key
    /\ new.status = "absent" <=> row.status = "absent"
    /\ new.status \in ActiveStatuses => row.status \in ActiveStatuses

\* No operator on rows but AcceptedRow changes an owner or a key.
LEMMA OwnerFields ==
  ASSUME NEW row \in LedgerRow, row.status \in ActiveStatuses
  PROVE  /\ KeepsOwner(row, Claimed(row))
         /\ KeepsOwner(row, Beaten(row)) /\ KeepsOwner(row, Aged(row))
         /\ \A q \in QueueIds : KeepsOwner(row, Requeued(row, q))
         /\ \A st \in TERMINAL_STATUSES, code \in ResultCodes :
               KeepsOwner(row, Closed(row, st, code))
         /\ \A st \in {"cancel_requested", "cancelled"}, code \in ResultCodes \cup {None} :
               KeepsOwner(row, WithStatus(row, st, code))
  BY Zenon DEF LedgerRow, KeepsOwner, ActiveStatuses, TERMINAL_STATUSES, Claimed, Beaten, Aged,
     Requeued, Closed, WithStatus

\* A step that writes no row, or one with these operators, keeps every owner.
OwnersKept == \A i \in Jobs : KeepsOwner(ledger[i], ledger'[i])

\* The rest of a job's life after its accept keeps its owner and key.
LEMMA NextKeepsOwners ==
  ASSUME IInv, Next, ~Accept
  PROVE  OwnersKept /\ accepting' = accepting
  <1> DEFINE Kept == OwnersKept /\ accepting' = accepting
  <1>0. \A i \in Jobs : ledger[i] \in LedgerRow
    BY Zenon DEF IInv, TypeOK
  <1>1. ASSUME ledger' = ledger, accepting' = accepting
        PROVE  Kept
    BY Zenon, <1>1 DEF OwnersKept, KeepsOwner
  <1>2. ASSUME NEW j \in Jobs, NEW new, KeepsOwner(ledger[j], new),
               ledger' = [ledger EXCEPT ![j] = new], accepting' = accepting
        PROVE  Kept
    BY Zenon, <1>2 DEF OwnersKept, KeepsOwner, IInv, TypeOK
  <1> HIDE DEF Kept
  <1>3. ASSUME NEW j \in Jobs, Cancel(j)
        PROVE  Kept
    <2>1. CASE CancelRead(j) \/ CancelRollback(j)
      BY Zenon, <2>1, <1>1 DEF CancelRead, CancelRollback
    <2>2. CASE CancelApply(j)
      <3>1. ledger[j].status \in ActiveStatuses /\ accepting' = accepting
        BY Zenon, <2>2 DEF CancelApply, Unlocked, IInv, LockedRows, ActiveStatuses
      <3>2. \E st \in {"cancel_requested", "cancelled"}, code \in ResultCodes \cup {None} :
               ledger' = [ledger EXCEPT ![j] = WithStatus(ledger[j], st, code)]
        BY Zenon, <2>2 DEF CancelApply, ResultCodes, IInv, TypeOK
      <3>3. QED
        BY Zenon, <3>1, <3>2, <1>0, <1>2, OwnerFields
    <2>3. QED
      BY Zenon, <1>3, <2>1, <2>2 DEF Cancel
  <1>4. ASSUME NEW j \in Jobs, Reconcile(j) \/ HeartbeatAges(j)
        PROVE  Kept
    <2>1. ledger[j].status \in ActiveStatuses /\ accepting' = accepting
      BY Zenon, <1>4 DEF Reconcile, ReconcileCancel, GiveUp, Redispatch, HeartbeatAges, Stalled,
         ActiveStatuses, LiveStatuses
    <2>2. \/ ledger' = [ledger EXCEPT ![j] = Aged(ledger[j])]
          \/ \E q \in QueueIds : ledger' = [ledger EXCEPT ![j] = Requeued(ledger[j], q)]
          \/ \E st \in TERMINAL_STATUSES, code \in ResultCodes :
                ledger' = [ledger EXCEPT ![j] = Closed(ledger[j], st, code)]
      BY Zenon, <1>4 DEF Reconcile, ReconcileCancel, GiveUp, Redispatch, HeartbeatAges,
         TERMINAL_STATUSES, ResultCodes
    <2>3. QED
      BY Zenon, <2>1, <2>2, <1>0, <1>2, OwnerFields
  <1>5. ASSUME NEW q \in QueueIds, Claim(q) \/ \E c \in BOOLEAN : ClaimInterrupted(q, c)
        PROVE  Kept
    <2>1. accepting' = accepting
      BY Zenon, <1>5 DEF Claim, ClaimInterrupted
    <2>2. \/ ledger' = ledger
          \/ /\ queue[q].job \in Jobs /\ ledger[queue[q].job].status \in ActiveStatuses
             /\ ledger' = [ledger EXCEPT ![queue[q].job] = Claimed(ledger[queue[q].job])]
      BY Zenon, <1>5, OwnJob DEF Claim, ClaimInterrupted, Claimable, ActiveStatuses, IInv, Phases
    <2>3. QED
      BY Zenon, <2>1, <2>2, <1>0, <1>1, <1>2, OwnerFields
  <1>6. ASSUME NEW q \in QueueIds, NEW answered \in BOOLEAN, HeartbeatWrite(q, answered)
        PROVE  Kept
    <2>1. accepting' = accepting
      BY Zenon, <1>6 DEF HeartbeatWrite
    <2>2. \/ ledger' = ledger
          \/ /\ queue[q].job \in Jobs /\ ledger[queue[q].job].status \in ActiveStatuses
             /\ ledger' = [ledger EXCEPT ![queue[q].job] = Beaten(ledger[queue[q].job])]
      BY Zenon, <1>6, OwnJob DEF HeartbeatWrite, Live, LiveStatuses, ActiveStatuses, IInv, Phases
    <2>3. QED
      BY Zenon, <2>1, <2>2, <1>0, <1>1, <1>2, OwnerFields
  <1>7. ASSUME NEW q \in QueueIds, FinalWrite(q) \/ \E c \in BOOLEAN : FinalWriteFails(q, c)
        PROVE  Kept
    <2>1. accepting' = accepting
      BY Zenon, <1>7 DEF FinalWrite, FinalWriteFails
    <2>2. ReadyToFinish(q)
      BY Zenon, <1>7 DEF FinalWrite, FinalWriteFails
    <2>3. exec[q].handler \in TERMINAL_STATUSES /\ FinalCode(exec[q].handler) \in ResultCodes
      BY Zenon, <2>2, OwnJob, Fields DEF ReadyToFinish, HandlerDone, IInv, Phases,
         TERMINAL_STATUSES, FinalCode, ResultCodes
    <2>4. \/ ledger' = ledger
          \/ /\ queue[q].job \in Jobs /\ ledger[queue[q].job].status \in ActiveStatuses
             /\ ledger' = [ledger EXCEPT ![queue[q].job] =
                   Closed(ledger[queue[q].job], exec[q].handler, FinalCode(exec[q].handler))]
      BY Zenon, <1>7, <2>2, OwnJob DEF FinalWrite, FinalWriteFails, Finalized, Live, LiveStatuses,
         ActiveStatuses, ReadyToFinish, IInv, Phases
    <2> DEFINE j == queue[q].job
               new == Closed(ledger[j], exec[q].handler, FinalCode(exec[q].handler))
    <2>5. j \in Jobs /\ ledger[j].status \in ActiveStatuses => KeepsOwner(ledger[j], new)
      BY <1>0, <2>3, OwnerFields, Zenon
    <2> HIDE DEF new, j
    <2>6. QED
      BY <1>1, <1>2, <2>1, <2>4, <2>5, Zenon DEF new, j
  <1>8. ASSUME NEW q \in QueueIds,
               \/ \E reason \in {"user", "lost"} : Interrupt(q, reason)
               \/ \E how \in {"succeeded", "failed", "cancelled"} : HandlerEnds(q, how)
               \/ HeartbeatAnswer(q) \/ FinishLost(q)
               \/ Fetch(q) \/ FinishRow(q) \/ Crash(q) \/ GraceElapses(q)
        PROVE  Kept
    <2>1. ledger' = ledger /\ accepting' = accepting
      BY Zenon, <1>8 DEF Interrupt, HandlerEnds, HeartbeatAnswer, FinishLost, Fetch, FinishRow,
         Crash, GraceElapses
    <2>2. QED
      BY Zenon, <2>1, <1>1
  <1>9. ASSUME NEW q \in QueueIds, Run(q)
        PROVE  Kept
    BY <1>5, <1>6, <1>7, <1>8, <1>9, Zenon DEF Run
  <1>10. Kept
    BY <1>3, <1>4, <1>8, <1>9, Zenon DEF Next
  <1>11. QED
    BY Zenon, <1>10 DEF Kept

\* While owners are kept, the jobs an owner has active only become fewer.
LEMMA ActiveShrinks ==
  ASSUME OwnersKept, NEW o, IsFiniteSet(Active(o))
  PROVE  IsFiniteSet(Active(o)') /\ Cardinality(Active(o)') <= Cardinality(Active(o))
  <1>1. Active(o)' \in SUBSET Active(o)
    BY Zenon DEF Active, OwnersKept, KeepsOwner
  <1>2. QED
    BY Zenon, <1>1, FS_Subset

\* Steps that keep the owners and begin no accept keep Admission.
LEMMA QuietAdmission ==
  ASSUME IInv, Admission, OwnersKept, accepting' \subseteq accepting
  PROVE  Admission'
  <1>1. \A o \in Owners : /\ IsFiniteSet(Active(o)')
                          /\ Cardinality(Active(o)') \in Nat
                          /\ Cardinality(Active(o)) \in Nat
                          /\ Cardinality(Active(o)') <= Cardinality(Active(o))
    BY Zenon, ActiveShrinks, FS_CardinalityType DEF Admission
  <1>2. \A tx \in accepting : tx.owner \in Owners
    BY Zenon DEF IInv, TypeOK
  <1>3. \A tx \in accepting' : Cardinality(Active(tx.owner)') < MaxActive
    BY <1>1, <1>2, MaxActiveAssumption DEF Admission
  <1>4. ActiveLimit'
    BY <1>1, MaxActiveAssumption DEF Admission, ActiveLimit
  <1>5. IdempotentAccept'
    BY DEF Admission, IdempotentAccept, OwnersKept, KeepsOwner
  <1>6. \A tx \in accepting' : \A j \in Jobs :
           <<ledger'[j].owner, ledger'[j].key>> # <<tx.owner, tx.key>>
    BY Zenon DEF Admission, OwnersKept, KeepsOwner
  <1>7. \A j \in Jobs : ledger'[j].status # "absent" => ledger'[j].owner \in Owners
    BY Zenon DEF Admission, OwnersKept, KeepsOwner
  <1>8. \A t, u \in accepting' : t.owner = u.owner => t = u
    BY Zenon DEF Admission
  <1>9. QED
    BY Zenon, <1>1, <1>3, <1>4, <1>5, <1>6, <1>7, <1>8 DEF Admission

\* The checks of an accept establish what is kept for its transaction.
LEMMA AcceptCheckAdmission ==
  ASSUME IInv, Admission, NEW o \in Owners, NEW k \in Keys, AcceptCheck(o, k)
  PROVE  Admission'
  <1> DEFINE new == [owner |-> o, key |-> k]
  <1>1. ledger' = ledger /\ accepting' = accepting \cup {new}
    BY Zenon DEF AcceptCheck
  <1>2. \A p : Active(p)' = Active(p)
    BY Zenon, <1>1 DEF Active
  <1>3. \A t, u \in accepting' : t.owner = u.owner => t = u
    BY <1>1 DEF AcceptCheck, Admission
  <1>4. \A tx \in accepting' :
           /\ \A j \in Jobs : <<ledger'[j].owner, ledger'[j].key>> # <<tx.owner, tx.key>>
           /\ Cardinality(Active(tx.owner)') < MaxActive
    BY SMTT(40), <1>1, <1>2 DEF AcceptCheck, Admission
  <1>5. ActiveLimit' /\ IdempotentAccept'
    BY Zenon, <1>1, <1>2 DEF Admission, ActiveLimit, IdempotentAccept
  <1>6. QED
    BY Zenon, <1>1, <1>2, <1>3, <1>4, <1>5 DEF Admission

\* The commit of an accept adds one job, of the key that was looked up, to the
\* active jobs that were counted.
LEMMA AcceptCommitAdmission ==
  ASSUME IInv, Admission, NEW tx \in accepting, NEW j \in Jobs, NEW q \in QueueIds,
         AcceptCommit(tx, j, q)
  PROVE  Admission'
  <1>1. tx \in [owner: Owners, key: Keys] /\ tx.owner \in Owners /\ tx.key \in Keys
    BY Zenon DEF IInv, TypeOK
  <1>2. /\ ledger'[j].owner = tx.owner /\ ledger'[j].key = tx.key
        /\ ledger'[j].status = "accepted"
        /\ \A i \in Jobs \ {j} : ledger'[i] = ledger[i]
        /\ accepting' = accepting \ {tx}
    BY Zenon, <1>1 DEF AcceptCommit, AcceptedRow, NoRow, IInv, TypeOK
  <1>3. ledger[j].status = "absent" /\ ledger[j].owner = None
    BY SMTT(40) DEF AcceptCommit, IInv, References, NoRow
  <1>4. Active(tx.owner)' = Active(tx.owner) \cup {j} /\ j \notin Active(tx.owner)
    BY Zenon, <1>2, <1>3 DEF Active, ActiveStatuses
  <1>5. \A o \in Owners \ {tx.owner} : Active(o)' = Active(o)
    BY Zenon, <1>2, <1>3, NoneAssumption DEF Active, ActiveStatuses
  <1>6. /\ IsFiniteSet(Active(tx.owner)')
        /\ Cardinality(Active(tx.owner)') <= MaxActive
    <2>1. IsFiniteSet(Active(tx.owner)) /\ Cardinality(Active(tx.owner)) < MaxActive
      BY Zenon, <1>1 DEF Admission
    <2>2. Cardinality(Active(tx.owner)) \in Nat
      BY Zenon, <2>1, FS_CardinalityType
    <2>3. /\ IsFiniteSet(Active(tx.owner) \cup {j})
          /\ Cardinality(Active(tx.owner) \cup {j}) = Cardinality(Active(tx.owner)) + 1
      BY Zenon, <1>4, <2>1, FS_AddElement
    <2>4. QED
      BY <1>4, <2>1, <2>2, <2>3, MaxActiveAssumption
  <1>7. \A t \in accepting' : t \in accepting /\ t.owner \in Owners \ {tx.owner}
    BY Zenon, <1>2 DEF Admission, IInv, TypeOK
  <1>8. \A t, u \in accepting' : t.owner = u.owner => t = u
    BY Zenon, <1>7 DEF Admission
  <1>9. \A t \in accepting' :
           /\ \A i \in Jobs : <<ledger'[i].owner, ledger'[i].key>> # <<t.owner, t.key>>
           /\ Cardinality(Active(t.owner)') < MaxActive
    BY Zenon, <1>2, <1>5, <1>7 DEF Admission
  <1>10. \A o \in Owners : IsFiniteSet(Active(o)')
    BY Zenon, <1>5, <1>6 DEF Admission
  <1>11. ActiveLimit'
    BY Zenon, <1>5, <1>6 DEF Admission, ActiveLimit
  <1>12. \A i \in Jobs : ledger'[i].status # "absent" => ledger'[i].owner \in Owners
    BY Zenon, <1>1, <1>2 DEF Admission
  <1>13. \A i \in Jobs : <<ledger[i].owner, ledger[i].key>> # <<tx.owner, tx.key>>
    BY Zenon DEF Admission
  <1>14. IdempotentAccept'
    <2>1. SUFFICES ASSUME NEW i \in Jobs, NEW k \in Jobs, ledger'[i].status # "absent",
                          <<ledger'[i].owner, ledger'[i].key>> = <<ledger'[k].owner, ledger'[k].key>>
                   PROVE  i = k
      BY Zenon DEF IdempotentAccept
    <2>2. i = j => k \notin Jobs \ {j}
      BY Zenon, <1>2, <1>13, <2>1
    <2>3. k = j => i \notin Jobs \ {j}
      BY Zenon, <1>2, <1>13, <2>1
    <2>4. i # j /\ k # j => ledger'[i] = ledger[i] /\ ledger'[k] = ledger[k]
      BY Zenon, <1>2, <2>1
    <2>5. QED
      BY Zenon, <2>1, <2>2, <2>3, <2>4 DEF Admission, IdempotentAccept
  <1>15. QED
    BY Zenon, <1>8, <1>9, <1>10, <1>11, <1>12, <1>14 DEF Admission

\* Nothing is accepted and nobody is accepting at first.
LEMMA InitAdmission == Init => Admission
  <1> SUFFICES ASSUME Init PROVE Admission
    BY Zenon
  <1>1. \A j \in Jobs : ledger[j].status = "absent"
    BY Zenon DEF Init, NoRow
  <1>2. \A o : Active(o) = {}
    BY Zenon, <1>1 DEF Active, ActiveStatuses
  <1>3. \A o : IsFiniteSet(Active(o)) /\ Cardinality(Active(o)) = 0
    BY Zenon, <1>2, FS_EmptySet
  <1>4. accepting = {}
    BY Zenon DEF Init
  <1>5. QED
    BY SMTT(40), <1>1, <1>3, <1>4, MaxActiveAssumption DEF Admission, ActiveLimit, IdempotentAccept

\* Every step keeps Admission.
LEMMA NextAdmission == IInv /\ Admission /\ [Next]_vars => Admission'
  <1> SUFFICES ASSUME IInv, Admission, [Next]_vars PROVE Admission'
    BY Zenon
  <1>1. ASSUME ledger' = ledger PROVE OwnersKept
    BY Zenon, <1>1 DEF OwnersKept, KeepsOwner
  <1>2. CASE Accept
    <2>1. ASSUME NEW tx \in accepting, AcceptRollback(tx)
          PROVE  Admission'
      BY Zenon, <2>1, <1>1, QuietAdmission DEF AcceptRollback
    <2>2. QED
      BY Zenon, <1>2, <2>1, AcceptCheckAdmission, AcceptCommitAdmission DEF Accept
  <1>3. CASE Next /\ ~Accept
    BY Zenon, <1>3, NextKeepsOwners, QuietAdmission
  <1>4. CASE UNCHANGED vars
    BY Zenon, <1>4, <1>1, QuietAdmission DEF vars
  <1>5. QED
    BY Zenon, <1>2, <1>3, <1>4

\* Admission holds in every reachable state.
LEMMA AdmissionHolds == Spec => []Admission
  BY InitAdmission, NextAdmission, InductiveInvariant, PTL DEF Spec

\* No owner has more active jobs than `accept' allows, although it counts them
\* in one step and inserts the row in a later one.
THEOREM LimitHolds == Spec => []ActiveLimit
  <1>1. Admission => ActiveLimit
    BY Zenon DEF Admission
  <1>2. QED
    BY <1>1, AdmissionHolds, PTL

\* An idempotency key of an owner names one job, without the unique index.
THEOREM AcceptedOnce == Spec => []IdempotentAccept
  <1>1. Admission => IdempotentAccept
    BY Zenon DEF Admission
  <1>2. QED
    BY <1>1, AdmissionHolds, PTL

=============================================================================
