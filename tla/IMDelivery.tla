----------------------------- MODULE IMDelivery -----------------------------
(***************************************************************************)
(* The text-delivery outbox: the table public.im_deliveries                *)
(* (app/infra/persistence/im_deliveries.py), the service that sends and    *)
(* reconciles (app/im_deliveries.py) and the Zulip adapter it sends with   *)
(* (app/infra/communication/zulip.py).                                     *)
(*                                                                         *)
(* A store method is one transaction on one row, so it is one action.  A   *)
(* send is a claim, a POST and a finish, with everything else in between;  *)
(* a reconcile is a mark, a read of the provider and a finish.             *)
(***************************************************************************)
EXTENDS Naturals

CONSTANTS
    Deliveries,   \* delivery_id values
    Tasks,        \* slots of the workers for im_deliveries.send tasks
    Checkers,     \* concurrent _reconcile calls: maintenance and initiators
    Keys,         \* idempotency keys of recipients' receipts
    None          \* SQL NULL

ASSUME NoneAssumption ==
    None \notin Deliveries \cup {"accepted", "known_rejected", "unknown"}

VARIABLES
    state,      \* im_deliveries.state; "absent" before the INSERT
    row,        \* status of the queue row queue_job_id refers to
    attempt,    \* send_attempt_id: how many were issued, 0 is NULL
    receipts,   \* im_verifications of each delivery, by idempotency key
    expired,    \* send_expires_at has passed
    mapped,     \* both account bindings give the confirmed digest
    task,       \* the send tasks of the workers
    checker,    \* the reconciliations in progress
    wire,       \* what became of the delivery's POST at the provider
    posts       \* how many POSTs the provider was sent

vars == <<state, row, attempt, receipts, expired, mapped, task, checker, wire, posts>>

-----------------------------------------------------------------------------
(* Types.                                                                  *)

Results == {"accepted", "known_rejected", "unknown"}
DeliveryState ==
    Results \cup {"absent", "prepared", "ready", "sending", "cancelled", "expired"}
Settled == {"accepted", "known_rejected", "cancelled", "expired"}

\* IMDeliveryService.send in a worker.  `current' says that the queue row it
\* runs is still the one the delivery refers to.
Task ==
    [phase: {"idle", "fetched", "claimed", "posted", "answered", "exiting"},
     delivery: Deliveries \cup {None}, current: BOOLEAN, attempt: Nat,
     result: Results \cup {None}]

\* IMDeliveryService._reconcile.
Checker ==
    [delivery: Deliveries \cup {None}, attempt: Nat, result: Results \cup {None}]

NoTask == [phase |-> "idle", delivery |-> None, current |-> FALSE, attempt |-> 0,
           result |-> None]
NoChecker == [delivery |-> None, attempt |-> 0, result |-> None]

Init ==
    /\ state = [d \in Deliveries |-> "absent"]
    /\ row = [d \in Deliveries |-> None]
    /\ attempt = [d \in Deliveries |-> 0]
    /\ receipts = [d \in Deliveries |-> [k \in Keys |-> None]]
    /\ expired = [d \in Deliveries |-> FALSE]
    /\ mapped = [d \in Deliveries |-> TRUE]
    /\ task = [t \in Tasks |-> NoTask]
    /\ checker = [c \in Checkers |-> NoChecker]
    /\ wire = [d \in Deliveries |-> "none"]
    /\ posts = [d \in Deliveries |-> 0]

provider == <<wire, posts>>
world == <<expired, mapped>>

-----------------------------------------------------------------------------
(* The initiator and the recipient.                                        *)

\* prepare: the bindings were read before the INSERT and may have changed.  A
\* repeated idempotency key finds the row and changes nothing.
Prepare(d) ==
    /\ state[d] = "absent"
    /\ state' = [state EXCEPT ![d] = "prepared"]
    /\ \E m \in BOOLEAN : mapped' = [mapped EXCEPT ![d] = m]
    /\ UNCHANGED <<row, attempt, receipts, expired, task, checker, provider>>

\* confirm, with the digest of the stored preview: an expired preview expires,
\* a changed mapping is refused, and otherwise the send job and the state are
\* committed together.  A second confirmation changes nothing.
Confirm(d) ==
    /\ state[d] = "prepared"
    /\ \/ /\ expired[d]
          /\ state' = [state EXCEPT ![d] = "expired"]
          /\ UNCHANGED row
       \/ /\ ~expired[d] /\ mapped[d]
          /\ state' = [state EXCEPT ![d] = "ready"]
          /\ row' = [row EXCEPT ![d] = "todo"]
    /\ UNCHANGED <<attempt, receipts, world, task, checker, provider>>

\* Mutant: a delivery can be cancelled while its POST is on its way.
CancellableWhileSending(d) == state[d] \in {"prepared", "ready", "sending"}

Cancellable(d) == state[d] \in {"prepared", "ready"}

\* cancel: the queue row stays and will find nothing to claim.
Cancel(d) ==
    /\ Cancellable(d)
    /\ state' = [state EXCEPT ![d] = "cancelled"]
    /\ UNCHANGED <<row, attempt, receipts, world, task, checker, provider>>

\* verify: a receipt of the recipient for a confirmed delivery.  A repeated key
\* is answered without a change.
Verify(d, k, result) ==
    /\ state[d] \in {"ready", "sending"} \cup Results
    /\ state[d] = "ready" => ~expired[d]
    /\ receipts[d][k] = None
    /\ receipts' = [receipts EXCEPT ![d][k] = result]
    /\ UNCHANGED <<state, row, attempt, world, task, checker, provider>>

-----------------------------------------------------------------------------
(* send: a worker's task for a queue row.                                  *)

\* The worker takes the waiting queue row.
Fetch(t, d) ==
    /\ task[t].phase = "idle"
    /\ row[d] = "todo"
    /\ row' = [row EXCEPT ![d] = "doing"]
    /\ task' = [task EXCEPT ![t] = [NoTask EXCEPT !.phase = "fetched", !.delivery = d,
                                                  !.current = TRUE]]
    /\ UNCHANGED <<state, attempt, receipts, world, checker, provider>>

\* Mutant: the claim also takes a delivery whose outcome is unknown.
ClaimableAgain(d) == state[d] \in {"ready", "unknown"}

Claimable(d) == state[d] = "ready"

\* What claim commits: nothing to claim, expired, mapping changed, or a new
\* attempt.
Claims(d) ==
    \/ /\ ~Claimable(d)
       /\ UNCHANGED <<state, attempt>>
    \/ /\ Claimable(d) /\ expired[d]
       /\ state' = [state EXCEPT ![d] = "expired"]
       /\ UNCHANGED attempt
    \/ /\ Claimable(d) /\ ~expired[d] /\ ~mapped[d]
       /\ state' = [state EXCEPT ![d] = "cancelled"]
       /\ UNCHANGED attempt
    \/ /\ Claimable(d) /\ ~expired[d] /\ mapped[d]
       /\ state' = [state EXCEPT ![d] = "sending"]
       /\ attempt' = [attempt EXCEPT ![d] = @ + 1]

\* How the task goes on after claim, or after an exception in it whose commit
\* may have happened.
AfterClaim(t, returned) ==
    LET d == task[t].delivery IN
    task' = [task EXCEPT ![t] =
        IF returned /\ attempt'[d] # attempt[d]
        THEN [@ EXCEPT !.phase = "claimed", !.attempt = attempt'[d]]
        ELSE [@ EXCEPT !.phase = "exiting"]]

Claim(t) ==
    /\ task[t].phase = "fetched"
    /\ \E returned \in BOOLEAN :
          /\ Claims(task[t].delivery)
          /\ AfterClaim(t, returned)
    /\ UNCHANGED <<row, receipts, world, checker, provider>>

\* The transaction of claim is rolled back and the task fails.
ClaimRollback(t) ==
    /\ task[t].phase = "fetched"
    /\ task' = [task EXCEPT ![t].phase = "exiting"]
    /\ UNCHANGED <<state, row, attempt, receipts, world, checker, provider>>

\* send_message_once: the target or the bot identity does not check out, so no
\* request is made.
Preflight(t) ==
    /\ task[t].phase = "claimed"
    /\ task' = [task EXCEPT ![t] = [@ EXCEPT !.phase = "answered",
                                             !.result = "known_rejected"]]
    /\ UNCHANGED <<state, row, attempt, receipts, world, checker, provider>>

\* send_message_once: the one POST.
Post(t) ==
    LET d == task[t].delivery IN
    /\ task[t].phase = "claimed"
    /\ task' = [task EXCEPT ![t].phase = "posted"]
    /\ posts' = [posts EXCEPT ![d] = @ + 1]
    /\ wire' = [wire EXCEPT ![d] = "flying"]
    /\ UNCHANGED <<state, row, attempt, receipts, world, checker>>

\* Mutant: a response that could not be read counts as a rejection.
ResultOfLossy(outcome, heard) ==
    IF heard /\ outcome = "landed" THEN "accepted" ELSE "known_rejected"

\* send_message_once: the result for what the provider did, when its response
\* was heard and understood.
ResultOf(outcome, heard) ==
    CASE heard /\ outcome = "landed" -> "accepted"
      [] heard /\ outcome = "refused" -> "known_rejected"
      [] OTHER -> "unknown"

Response(t) ==
    /\ task[t].phase = "posted"
    /\ \E heard \in BOOLEAN :
          task' = [task EXCEPT ![t] = [@ EXCEPT !.phase = "answered",
                      !.result = ResultOf(wire[task[t].delivery], heard)]]
    /\ UNCHANGED <<state, row, attempt, receipts, world, checker, provider>>

\* finish: one conditional UPDATE.
Finishes(d, a, result) ==
    /\ state' = IF attempt[d] = a /\ state[d] \in {"sending", "unknown"}
                THEN [state EXCEPT ![d] = result] ELSE state
    /\ UNCHANGED <<attempt, receipts>>

Finish(t) ==
    /\ task[t].phase = "answered"
    /\ Finishes(task[t].delivery, task[t].attempt, task[t].result)
    /\ task' = [task EXCEPT ![t].phase = "exiting"]
    /\ UNCHANGED <<row, world, checker, provider>>

\* The task is cancelled, or its finish fails: the attempt stays as it is.
Interrupted(t) ==
    /\ task[t].phase \in {"claimed", "posted", "answered"}
    /\ task' = [task EXCEPT ![t].phase = "exiting"]
    /\ UNCHANGED <<state, row, attempt, receipts, world, checker, provider>>

\* Procrastinate records the end of the task.
TaskEnds(t) ==
    LET d == task[t].delivery IN
    /\ task[t].phase = "exiting"
    /\ row' = IF task[t].current THEN [row EXCEPT ![d] = "done"] ELSE row
    /\ task' = [task EXCEPT ![t] = NoTask]
    /\ UNCHANGED <<state, attempt, receipts, world, checker, provider>>

\* The worker dies: the queue row stays doing.
Crash(t) ==
    /\ task[t].phase # "idle"
    /\ task' = [task EXCEPT ![t] = NoTask]
    /\ UNCHANGED <<state, row, attempt, receipts, world, checker, provider>>

-----------------------------------------------------------------------------
(* Maintenance.                                                            *)

\* The tasks of an older queue row of d.
Superseded(d) ==
    [t \in Tasks |-> IF task[t].delivery = d THEN [task[t] EXCEPT !.current = FALSE]
                                             ELSE task[t]]

\* Mutant: a row that a worker holds is left to that worker.
WaitsForWorker(d) == row[d] \in {"todo", "doing"}

Waits(d) == row[d] = "todo"

\* recover_ready: an expired delivery expires, and one whose queue row is not
\* waiting any more gets a new queue row.
RecoverReady(d) ==
    /\ state[d] = "ready"
    /\ \/ /\ expired[d]
          /\ state' = [state EXCEPT ![d] = "expired"]
          /\ UNCHANGED <<row, task>>
       \/ /\ ~expired[d] /\ ~Waits(d)
          /\ row' = [row EXCEPT ![d] = "todo"]
          /\ task' = Superseded(d)
          /\ UNCHANGED state
    /\ UNCHANGED <<attempt, receipts, world, checker, provider>>

\* Mutant: an outcome that is already unknown is not looked up again.
PendingSending(d) == state[d] = "sending"

\* pending_reconciliation, and the condition of uncertain.
Pending(d) == state[d] \in {"sending", "unknown"}

\* uncertain: from now on the attempt is only looked up at the provider.
Uncertain(c, d) ==
    /\ checker[c] = NoChecker
    /\ Pending(d)
    /\ state' = [state EXCEPT ![d] = "unknown"]
    /\ checker' = [checker EXCEPT ![c] = [NoChecker EXCEPT !.delivery = d,
                                                           !.attempt = attempt[d]]]
    /\ UNCHANGED <<row, attempt, receipts, world, task, provider>>

\* reconcile_message, and what _reconcile makes of it: only the message itself
\* is an answer, anything else is unknown.
Reads(c) ==
    LET d == checker[c].delivery IN
    /\ d # None /\ checker[c].result = None
    /\ \E found \in BOOLEAN :
          /\ found => wire[d] = "landed"
          /\ checker' = [checker EXCEPT ![c].result = IF found THEN "accepted" ELSE "unknown"]
    /\ UNCHANGED <<state, row, attempt, receipts, world, task, provider>>

Reconciled(c) ==
    /\ checker[c].result # None
    /\ Finishes(checker[c].delivery, checker[c].attempt, checker[c].result)
    /\ checker' = [checker EXCEPT ![c] = NoChecker]
    /\ UNCHANGED <<row, world, task, provider>>

\* The maintenance task or the request dies.
CheckerDies(c) ==
    /\ checker[c] # NoChecker
    /\ checker' = [checker EXCEPT ![c] = NoChecker]
    /\ UNCHANGED <<state, row, attempt, receipts, world, task, provider>>

-----------------------------------------------------------------------------
(* The world.                                                              *)

\* The provider stores the message or refuses it, perhaps long after the
\* request timed out.  A request that is never processed stays flying.
Processed(d) ==
    /\ wire[d] = "flying"
    /\ \E outcome \in {"landed", "refused"} : wire' = [wire EXCEPT ![d] = outcome]
    /\ UNCHANGED <<state, row, attempt, receipts, world, task, checker, posts>>

Expires(d) ==
    /\ state[d] # "absent" /\ ~expired[d]
    /\ expired' = [expired EXCEPT ![d] = TRUE]
    /\ UNCHANGED <<state, row, attempt, receipts, mapped, task, checker, provider>>

\* An account binding is changed, or changed back.
MappingChanges(d) ==
    /\ state[d] # "absent"
    /\ mapped' = [mapped EXCEPT ![d] = ~@]
    /\ UNCHANGED <<state, row, attempt, receipts, expired, task, checker, provider>>

-----------------------------------------------------------------------------
Send(t) ==
    \/ Claim(t) \/ ClaimRollback(t)
    \/ Preflight(t) \/ Post(t) \/ Response(t) \/ Finish(t)
    \/ Interrupted(t) \/ TaskEnds(t) \/ Crash(t)

Reconcile(c) ==
    \/ \E d \in Deliveries : Uncertain(c, d)
    \/ Reads(c) \/ Reconciled(c) \/ CheckerDies(c)

Next ==
    \/ \E d \in Deliveries :
          \/ Prepare(d) \/ Confirm(d) \/ Cancel(d)
          \/ \E k \in Keys, result \in {"verified", "needs_changes"} : Verify(d, k, result)
          \/ RecoverReady(d)
          \/ Processed(d) \/ Expires(d) \/ MappingChanges(d)
          \/ \E t \in Tasks : Fetch(t, d)
    \/ \E t \in Tasks : Send(t)
    \/ \E c \in Checkers : Reconcile(c)

Spec == Init /\ [][Next]_vars

\* The workers keep taking rows and their tasks keep going, maintenance runs
\* every minute, and of the claims and the reconciliations that are tried again
\* and again not every one fails.
Fairness ==
    /\ \A d \in Deliveries :
          /\ WF_vars(RecoverReady(d))
          /\ SF_vars(\E t \in Tasks : Fetch(t, d))
          /\ SF_vars(\E c \in Checkers : Uncertain(c, d))
    /\ \A t \in Tasks :
          /\ SF_vars(Claim(t))
          /\ WF_vars(Preflight(t) \/ Post(t)) /\ WF_vars(Response(t)) /\ WF_vars(Finish(t))
          /\ WF_vars(TaskEnds(t))
    /\ \A c \in Checkers :
          /\ WF_vars(Reads(c)) /\ WF_vars(Reconciled(c))
          /\ SF_vars(Reads(c) /\ checker'[c].result = "accepted")
          /\ SF_vars(Reconciled(c) /\ checker[c].result = "accepted")

FairSpec == Spec /\ Fairness

-----------------------------------------------------------------------------
(* Properties.                                                             *)

\* Every variable keeps the shape of its table or object.
TypeOK ==
    /\ state \in [Deliveries -> DeliveryState]
    /\ row \in [Deliveries -> {None, "todo", "doing", "done"}]
    /\ attempt \in [Deliveries -> Nat]
    /\ receipts \in [Deliveries -> [Keys -> {None, "verified", "needs_changes"}]]
    /\ expired \in [Deliveries -> BOOLEAN] /\ mapped \in [Deliveries -> BOOLEAN]
    /\ task \in [Tasks -> Task] /\ checker \in [Checkers -> Checker]
    /\ wire \in [Deliveries -> {"none", "flying", "landed", "refused"}]
    /\ posts \in [Deliveries -> Nat]

\* The provider is sent at most one POST for a delivery, however many queue
\* rows, workers, crashes and reconciliations it sees.
AtMostOnePost == \A d \in Deliveries : posts[d] <= 1

\* A recorded outcome is what happened at the provider, even when a result
\* arrives late or a reconciliation overlaps the send.
TruthfulOutcome ==
    \A d \in Deliveries :
        /\ state[d] = "accepted" => wire[d] = "landed"
        /\ state[d] = "known_rejected" => wire[d] \in {"none", "refused"}

\* A delivery its initiator was told is cancelled, or that expired, was never
\* sent, and no worker is about to send it.
WithdrawnNeverSent ==
    \A d \in Deliveries : state[d] \in {"prepared", "ready", "cancelled", "expired"} =>
        /\ posts[d] = 0
        /\ \A t \in Tasks : task[t].phase = "claimed" => task[t].delivery # d

\* A settled delivery stays settled as it is: neither a late result nor
\* maintenance reopens or rewrites it.
SettledIsFinal ==
    [][\A d \in Deliveries : state[d] \in Settled => state'[d] = state[d]]_vars

\* What the initiator can learn of a delivery in a state.
OutcomeOf(s) ==
    CASE s \in {"absent", "prepared", "ready"} -> "pending"
      [] s \in {"cancelled", "expired"} -> "withdrawn"
      [] s \in {"sending", "unknown"} -> "attempted"
      [] s = "accepted" -> "delivered"
      [] s = "known_rejected" -> "rejected"

Once == INSTANCE OnceDelivery WITH outcome <- [d \in Deliveries |-> OutcomeOf(state[d])]

\* The outbox keeps the promise of OnceDelivery: whatever tasks, crashes and
\* reconciliations interleave, a delivery is withdrawn or attempted, transmitted
\* at most once in that attempt, and reported as it went.
DeliversOnce == Once!Spec

\* A confirmed delivery does not wait for ever: a dead worker's queue row is
\* replaced.
ReadyLeaves == \A d \in Deliveries : state[d] = "ready" ~> state[d] # "ready"

\* A message that reached the provider is recorded as accepted in the end, even
\* if the worker that sent it died or could not read the response.
LandedRecorded ==
    \A d \in Deliveries : wire[d] = "landed" ~> state[d] = "accepted"

=============================================================================
