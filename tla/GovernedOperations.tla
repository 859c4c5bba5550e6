------------------------- MODULE GovernedOperations -------------------------
(***************************************************************************)
(* One governed business write: a call to a remote tool that a person must *)
(* confirm before it is sent (app/mcp/operations.py).                      *)
(*                                                                         *)
(* The durable operation row is changed only by a compare-and-set on its   *)
(* revision (workflow_repository.py, transition).  The person's answer is  *)
(* a write-once decision on a gate request (human_gate/postgresql.py).     *)
(* Sending, cancelling, recovering, taking over, rebinding and telling the *)
(* task run under the execution guard, a non-blocking advisory lock; a     *)
(* read that renews the card and the reconciliation of an unknown outcome  *)
(* run without it.                                                         *)
(*                                                                         *)
(* A request is one API call or one turn of the chat runtime.  It reads    *)
(* the row, awaits, and writes: `rev` is the revision it read.  A revision *)
(* number identifies the contents of the row, so a write that finds the    *)
(* revision it read writes over exactly the row it read.  Every exception, *)
(* refusal, lost compare-and-set, busy guard, cancellation and process     *)
(* death is Fails: the request is gone and the guard is free.              *)
(*                                                                         *)
(* The remote system and the recovery policy are external.  The remote     *)
(* system applies or refuses a write some time after it was sent, also     *)
(* after the sender is gone.  The policy calls a write verified only if it *)
(* was applied, and failed or fit for a retry only if it never will be.    *)
(***************************************************************************)
EXTENDS Naturals, FiniteSets

CONSTANTS
    Requests,      \* API calls and chat turns in progress
    Logins,        \* login sessions of the one owner
    Tools,         \* the tools: whether each is one of NON_IDEMPOTENT_TOOLS, and
                   \* the kinds of request and the revisions explored with it
    Deadlines,     \* whether the remote artifact has a deadline: none, running
    AttemptLimit,  \* 10 in transition: bound on previous_attempts
    MaxGates,      \* bound of the model on the gate requests of the task
    None

AllKinds == {"read", "confirm", "reject", "cancel", "recover",
             "reconcile", "takeover", "rebind", "retire", "finalize"}

ASSUME ConstantsAssumption ==
    /\ \A tool \in DOMAIN Tools :
         Tools[tool] \in [once: BOOLEAN, kinds: SUBSET AllKinds, revisions: Nat]
    /\ Deadlines \subseteq {"none", "running"}
    /\ AttemptLimit \in Nat
    /\ MaxGates \in Nat
    /\ None \notin Requests \cup {"verified", "failed", "reconcile"}

States == {"absent", "WAITING_LOCAL_CONFIRM", "READY", "SENDING", "UNKNOWN",
           "WAITING_EXTERNAL_CONFIRM", "VERIFIED_SUCCESS", "FAILED",
           "CANCELLED", "EXPIRED"}

Terminal == {"VERIFIED_SUCCESS", "FAILED", "CANCELLED", "EXPIRED"}

Revisions == {0} \cup UNION {0 .. Tools[tool].revisions : tool \in DOMAIN Tools}

\* A digest of an action.  It covers the digest it replaces, the revision and
\* the login context: what it was derived from identifies it.
Action(how, rev, login) == [how |-> how, rev |-> rev, login |-> login]

Actions == [how: {"start", "renew", "rebind", "takeover"},
            rev: Revisions, login: Logins]

VARIABLES
    op,        \* the row of the operation, the checkpoint included
    gates,     \* the actions that have a gate request
    confirmed, \* the actions whose request was confirmed
    rejected,  \* the actions whose request was rejected
    expired,   \* the actions whose confirmation deadline has passed
    artifact,  \* the deadline of the remote artifact: none, running or passed
    writes,    \* what became of the write of each attempt at the remote system
    uses,      \* history: each attempt sent, with the action it was sent for
    guard,     \* the request that holds the execution guard
    req,       \* the requests
    told       \* the status the task was last given, and the row's revision then

decisions == <<gates, confirmed, rejected>>
clocks == <<expired, artifact>>
remote == <<writes, uses>>
vars == <<op, decisions, clocks, remote, guard, req, told>>

Idle == [pc |-> "idle", rev |-> 0, login |-> None, action |-> None, how |-> None]

Init ==
    /\ op = [state |-> "absent", revision |-> 0, action |-> None,
             gate |-> None, attempt |-> 0, sent |-> FALSE, login |-> None,
             error |-> FALSE, attempts |-> 0, tool |-> None]
    /\ gates = {} /\ confirmed = {} /\ rejected = {}
    /\ expired = {}
    /\ artifact \in Deadlines
    /\ writes = [n \in Revisions |-> "none"]
    /\ uses = {}
    /\ guard = None
    /\ req = [r \in Requests |-> Idle]
    /\ told = [status |-> "running", revision |-> 0]

-----------------------------------------------------------------------------
(* The row.                                                                *)

\* Mutant of Allowed: a cancelled operation can be renewed.
AllowedAgain(state) ==
    IF state \in Terminal THEN {"WAITING_LOCAL_CONFIRM"} ELSE States

\* The states transition lets a row go to.  FAILED before a send needs a
\* confirmation error code, which only Failed below gives.
Allowed(state) ==
    CASE state = "WAITING_LOCAL_CONFIRM" ->
            {"READY", "CANCELLED", "EXPIRED", "WAITING_LOCAL_CONFIRM"}
      [] state = "READY" ->
            {"SENDING", "CANCELLED", "EXPIRED", "WAITING_LOCAL_CONFIRM"}
      [] state = "SENDING" ->
            {"UNKNOWN", "VERIFIED_SUCCESS", "FAILED", "WAITING_EXTERNAL_CONFIRM"}
      [] state = "WAITING_EXTERNAL_CONFIRM" ->
            {"UNKNOWN", "VERIFIED_SUCCESS", "EXPIRED", "WAITING_LOCAL_CONFIRM",
             "FAILED"}
      [] state = "UNKNOWN" ->
            {"VERIFIED_SUCCESS", "FAILED", "WAITING_LOCAL_CONFIRM", "UNKNOWN"}
      [] state = "EXPIRED" -> {"WAITING_LOCAL_CONFIRM"}
      [] OTHER -> {}

\* The compare-and-set: the row is still the one request r read.  A request
\* whose row moved can only fail; a gate request it may still create on the way
\* is for a digest of an old revision, which no row will carry.
Unmoved(r) ==
    /\ op.revision = req[r].rev
    /\ op.revision < Tools[op.tool].revisions

Moved(state) ==
    [op EXCEPT !.state = state, !.revision = @ + 1,
               !.sent = @ \/ state = "SENDING", !.error = FALSE]

Transition(r, state) ==
    /\ Unmoved(r)
    /\ state \in Allowed(op.state)
    /\ op' = Moved(state)

\* A transition with a confirmation error code.
Failed(r) ==
    /\ Unmoved(r)
    /\ op.state \in {"WAITING_LOCAL_CONFIRM", "READY"} /\ ~op.sent
    /\ op' = [Moved("FAILED") EXCEPT !.error = TRUE]

\* A transition that renews: a new action under a login context, and, back at
\* the card, neither an attempt nor a send.
Renewal(r, state, action, gate, login) ==
    /\ Unmoved(r)
    /\ state \in Allowed(op.state)
    /\ op.attempts < AttemptLimit
    /\ op' = [Moved(state) EXCEPT
                !.action = action, !.gate = gate, !.login = login,
                !.attempt = IF state = "UNKNOWN" THEN @ ELSE 0,
                !.sent = @ /\ state = "UNKNOWN",
                !.attempts = IF state = "UNKNOWN" \/ op.attempt = 0
                             THEN @ ELSE @ + 1]

\* _gate: the request of an action is created once and found afterwards.
Ensured(action) ==
    /\ gates' = gates \cup {action}
    /\ Cardinality(gates') <= MaxGates
    /\ UNCHANGED <<confirmed, rejected>>

-----------------------------------------------------------------------------
(* Requests and the guard.                                                 *)

At(r, pc) == req[r].pc = pc

Goes(r, pc) == req' = [req EXCEPT ![r].pc = pc]

Ends(r) == req' = [req EXCEPT ![r] = Idle]

\* A request begins with the row it read.
Begins(r, pc, login, how) ==
    req' = [req EXCEPT ![r] = [pc |-> pc, rev |-> op.revision, login |-> login,
                               action |-> op.action, how |-> how]]

\* A request begins under the guard.  What it read before is read again there,
\* and a row that has moved since is refused (recover, takeover), so the model
\* reads once.
BeginsGuarded(r, pc, login, how) ==
    /\ guard = None
    /\ guard' = r
    /\ Begins(r, pc, login, how)

Calls(r, kind) == op.state # "absent" /\ kind \in Tools[op.tool].kinds /\ At(r, "idle")

Idempotent == ~Tools[op.tool].once

\* The session fingerprint of the row's context is the caller's.
Owned(login) == op.login = login

\* The guard is free, and the request rereads the row under it.
Enters(r, pc) ==
    /\ guard = None
    /\ guard' = r
    /\ req' = [req EXCEPT ![r].pc = pc, ![r].rev = op.revision]

Leaves(r) == guard' = IF guard = r THEN None ELSE guard

\* The handler returned: an API call then finalizes the task.
Returns(r) == Goes(r, "settle") /\ Leaves(r)

Fails(r) ==
    /\ ~At(r, "idle")
    /\ Ends(r) /\ Leaves(r)
    /\ UNCHANGED <<op, decisions, clocks, remote, told>>

-----------------------------------------------------------------------------
(* Start and ensure_confirmation: the row, its gate request, and the row   *)
(* again, in three commits and without the guard.                          *)

Start(r, login) ==
    /\ At(r, "idle") /\ op.state = "absent"
    /\ \E tool \in DOMAIN Tools :
         op' = [op EXCEPT !.state = "WAITING_LOCAL_CONFIRM", !.revision = 1, !.tool = tool,
                          !.action = Action("start", 0, login), !.login = login]
    /\ req' = [req EXCEPT ![r] = [pc |-> "gate", rev |-> 1, login |-> login,
                                  action |-> Action("start", 0, login),
                                  how |-> None]]
    /\ UNCHANGED <<decisions, clocks, remote, guard, told>>

Read(r, login) ==
    /\ Calls(r, "read")
    /\ Owned(login) /\ op.state = "WAITING_LOCAL_CONFIRM"
    /\ Begins(r, "gate", login, None)
    /\ UNCHANGED <<op, decisions, clocks, remote, guard, told>>

EnsureGate(r) ==
    /\ At(r, "gate")
    /\ Ensured(req[r].action)
    /\ Goes(r, "adopt")
    /\ UNCHANGED <<op, clocks, remote, guard, told>>

EnsureConfirmation(r) ==
    /\ At(r, "adopt")
    /\ \/ /\ req[r].action \in expired
          /\ Transition(r, "EXPIRED")
       \/ /\ req[r].action \notin expired
          /\ \/ /\ Unmoved(r) /\ op.gate # op.action
                /\ Renewal(r, "WAITING_LOCAL_CONFIRM", op.action, op.action,
                           op.login)
             \/ /\ op.revision = req[r].rev => op.gate = op.action
                /\ UNCHANGED op
    /\ Goes(r, "settle")
    /\ UNCHANGED <<decisions, clocks, remote, guard, told>>

-----------------------------------------------------------------------------
(* The person's answer, and the send it allows.                            *)

\* The API's confirm and the runtime's confirm or reject of the card shown.
Answer(r, login, answer) ==
    /\ Calls(r, answer)
    /\ Owned(login) /\ op.state = "WAITING_LOCAL_CONFIRM"
    /\ op.action \in gates
    /\ Begins(r, IF answer = "confirm" THEN "decide" ELSE "refuse", login, answer)
    /\ UNCHANGED <<op, decisions, clocks, remote, guard, told>>

\* record_decision writes once and before the deadline; a confirmation found
\* there already is as good.
Confirm(r) ==
    /\ At(r, "decide")
    /\ req[r].action \notin expired
    /\ req[r].action \notin rejected
    /\ confirmed' = confirmed \cup {req[r].action}
    /\ Goes(r, "resume")
    /\ UNCHANGED <<op, gates, rejected, clocks, remote, guard, told>>

Reject(r) ==
    /\ At(r, "refuse")
    /\ req[r].action \notin expired
    /\ req[r].action \notin confirmed \cup rejected
    /\ rejected' = rejected \cup {req[r].action}
    /\ req' = [req EXCEPT ![r].pc = "retire", ![r].how = "cancelled"]
    /\ UNCHANGED <<op, gates, confirmed, clocks, remote, guard, told>>

Resume(r) ==
    /\ At(r, "resume")
    /\ Enters(r, "resuming")
    /\ UNCHANGED <<op, decisions, clocks, remote, told>>

\* _resume_locked up to the gateway.
ResumeLocked(r) ==
    /\ At(r, "resuming") /\ Unmoved(r) /\ Owned(req[r].login)
    /\ \/ /\ op.state = "SENDING"
          /\ Transition(r, "UNKNOWN") /\ Returns(r)
       \/ /\ op.state \notin {"SENDING", "WAITING_LOCAL_CONFIRM"}
          /\ Returns(r) /\ UNCHANGED op
       \/ /\ op.state = "WAITING_LOCAL_CONFIRM" /\ op.action \in expired
          /\ Transition(r, "EXPIRED") /\ Returns(r)
       \/ /\ op.state = "WAITING_LOCAL_CONFIRM" /\ op.action \notin expired
          /\ req[r].action = op.action
          /\ op.action \in confirmed
          /\ op' = [Moved("READY") EXCEPT !.gate = op.action,
                                          !.attempt = op.revision + 1]
          /\ req' = [req EXCEPT ![r].pc = "dispatch", ![r].rev = op.revision + 1]
          /\ UNCHANGED guard
    /\ UNCHANGED <<decisions, clocks, remote, told>>

\* The gateway refuses, or the adapter's consume finds the attempt's
\* authorization in order; the permission is then used up before anything is
\* sent.
Dispatch(r) ==
    /\ At(r, "dispatch")
    /\ \/ Goes(r, "closing")
       \/ /\ op.state = "READY" /\ op.revision = req[r].rev
          /\ op.action \notin expired /\ artifact # "passed"
          /\ op.gate = op.action /\ op.gate \in confirmed
          /\ Goes(r, "consuming")
    /\ UNCHANGED <<op, decisions, clocks, remote, guard, told>>

Consume(r) ==
    /\ At(r, "consuming")
    /\ Transition(r, "SENDING")
    /\ req' = [req EXCEPT ![r].pc = "sending", ![r].rev = op.revision + 1]
    /\ UNCHANGED <<decisions, clocks, remote, guard, told>>

\* The attempt of a sender: the revision at which its row became READY.
Attempt(r) == req[r].rev - 1

\* driver.call: the write leaves, or the call fails before it does.
Send(r) ==
    /\ At(r, "sending")
    /\ \/ /\ Goes(r, "closing")
          /\ UNCHANGED <<writes, uses>>
       \/ /\ writes' = [writes EXCEPT ![Attempt(r)] = "sent"]
          /\ uses' = uses \cup {<<Attempt(r), op.action>>}
          /\ Goes(r, "waiting")
    /\ UNCHANGED <<op, decisions, clocks, guard, told>>

\* The answer, a review page of the remote system, or an error or timeout.
Answered(r) ==
    /\ At(r, "waiting")
    /\ \E how \in {None, "VERIFIED_SUCCESS", "WAITING_EXTERNAL_CONFIRM"} :
          /\ how = "VERIFIED_SUCCESS" => writes[Attempt(r)] = "applied"
          /\ how = "WAITING_EXTERNAL_CONFIRM" => writes[Attempt(r)] = "sent"
          /\ req' = [req EXCEPT ![r].pc = "closing", ![r].how = how]
    /\ UNCHANGED <<op, decisions, clocks, remote, guard, told>>

\* Mutant of Close: an error after the send counts as a failure.
CloseFailed(r) ==
    /\ At(r, "closing") /\ Unmoved(r)
    /\ \/ /\ op.state = "SENDING"
          /\ Transition(r, IF req[r].how \in {"VERIFIED_SUCCESS",
                                              "WAITING_EXTERNAL_CONFIRM"}
                           THEN req[r].how ELSE "FAILED")
       \/ op.state = "READY" /\ Failed(r)
    /\ Returns(r)
    /\ UNCHANGED <<decisions, clocks, remote, told>>

\* _resume_locked after the gateway.
Close(r) ==
    /\ At(r, "closing") /\ Unmoved(r)
    /\ \/ /\ op.state = "SENDING"
          /\ Transition(r, IF req[r].how \in {"VERIFIED_SUCCESS",
                                              "WAITING_EXTERNAL_CONFIRM"}
                           THEN req[r].how ELSE "UNKNOWN")
       \/ op.state = "READY" /\ Failed(r)
    /\ Returns(r)
    /\ UNCHANGED <<decisions, clocks, remote, told>>

-----------------------------------------------------------------------------
(* Cancel, recover, retire: what ends an operation without a send.         *)

Discard(r, login) ==
    /\ Calls(r, "cancel") /\ Owned(login)
    /\ BeginsGuarded(r, "discarding", login, None)
    /\ UNCHANGED <<op, decisions, clocks, remote, told>>

Discarded(r) ==
    /\ At(r, "discarding") /\ Owned(req[r].login)
    /\ IF op.state \in {"WAITING_LOCAL_CONFIRM", "READY"}
       THEN Transition(r, "CANCELLED") ELSE UNCHANGED op
    /\ Returns(r)
    /\ UNCHANGED <<decisions, clocks, remote, told>>

\* Mutant of Recover: recovery does not take the guard.
RecoverUnguarded(r, login) ==
    /\ Calls(r, "recover") /\ Owned(login)
    /\ Begins(r, "recovering", login, None)
    /\ UNCHANGED <<op, decisions, clocks, remote, guard, told>>

Recover(r, login) ==
    /\ Calls(r, "recover") /\ Owned(login)
    /\ BeginsGuarded(r, "recovering", login, None)
    /\ UNCHANGED <<op, decisions, clocks, remote, told>>

\* A reconcile that found the row SENDING goes on to read the remote system.
Recovered(r) ==
    /\ At(r, "recovering") /\ Unmoved(r) /\ Owned(req[r].login)
    /\ \/ /\ op.state = "READY" /\ ~op.sent
          /\ Transition(r, "CANCELLED") /\ Returns(r)
       \/ /\ op.state = "SENDING"
          /\ Transition(r, "UNKNOWN") /\ Leaves(r)
          /\ IF req[r].how = "reconcile"
             THEN req' = [req EXCEPT ![r].pc = "reading",
                                     ![r].rev = op.revision + 1]
             ELSE Goes(r, "settle")
    /\ UNCHANGED <<decisions, clocks, remote, told>>

\* The runtime's cleanup of a card it showed, which any login of the owner
\* may run.
Retire(r, login, reason) ==
    /\ Calls(r, "retire") /\ op.action \in gates
    /\ BeginsGuarded(r, "retiring", login, reason)
    /\ UNCHANGED <<op, decisions, clocks, remote, told>>

\* After a rejection, whose card may have been replaced meanwhile.
RetireRejected(r) ==
    /\ At(r, "retire")
    /\ Enters(r, "retiring")
    /\ UNCHANGED <<op, decisions, clocks, remote, told>>

Retired(r) ==
    /\ At(r, "retiring") /\ op.action = req[r].action
    /\ \/ /\ op.state \in {"WAITING_LOCAL_CONFIRM", "READY"} /\ ~op.sent
          /\ \/ /\ req[r].how = "expired" /\ op.action \in expired
                /\ Transition(r, "EXPIRED")
             \/ req[r].how = "exception" /\ Failed(r)
             \/ req[r].how = "cancelled" /\ Transition(r, "CANCELLED")
       \/ op.state \in Terminal /\ UNCHANGED op
    /\ Returns(r)
    /\ UNCHANGED <<decisions, clocks, remote, told>>

-----------------------------------------------------------------------------
(* Reconciliation and renewal, without the guard unless a takeover runs    *)
(* them.                                                                   *)

\* Mutant of Reconcile: a write that may be sent once is reconciled too.
ReconcileAny(r, login) ==
    /\ Calls(r, "reconcile") /\ Owned(login)
    /\ op.state \in {"UNKNOWN", "WAITING_EXTERNAL_CONFIRM"}
    /\ Begins(r, "reading", login, "reconcile")
    /\ UNCHANGED <<op, decisions, clocks, remote, guard, told>>

Reconcile(r, login) ==
    /\ Calls(r, "reconcile") /\ Owned(login) /\ Idempotent
    /\ \/ /\ op.state = "SENDING"
          /\ BeginsGuarded(r, "recovering", login, "reconcile")
       \/ /\ op.state \in {"UNKNOWN", "WAITING_EXTERNAL_CONFIRM"}
          /\ Begins(r, "reading", login, "reconcile")
          /\ UNCHANGED guard
    /\ UNCHANGED <<op, decisions, clocks, remote, told>>

\* The read of the remote system and the policy's verdict on the row as it
\* was read.  A pending verdict changes nothing.
ReconcileRead(r) ==
    /\ At(r, "reading") /\ op.revision = req[r].rev
    /\ \/ /\ writes[op.attempt] = "applied"
          /\ req' = [req EXCEPT ![r].pc = "renew", ![r].how = "verified"]
          /\ UNCHANGED guard
       \/ /\ writes[op.attempt] \in {"none", "refused"}
          /\ \E how \in {"failed", "reconcile"} :
                req' = [req EXCEPT ![r].pc = "renew", ![r].how = how]
          /\ UNCHANGED guard
       \/ Returns(r)
    /\ UNCHANGED <<op, decisions, clocks, remote, told>>

Reconciled(r) ==
    /\ At(r, "renew") /\ req[r].how \in {"verified", "failed"}
    /\ Transition(r, IF req[r].how = "verified" THEN "VERIFIED_SUCCESS"
                                                ELSE "FAILED")
    /\ Returns(r)
    /\ UNCHANGED <<decisions, clocks, remote, told>>

\* Mutant of RenewedAction: the digest of the card it replaces.
RenewedSame(r, login) == op.action

\* The digest a renewed confirmation is bound to.
RenewedAction(r, login) == Action("renew", req[r].rev, login)

\* _renew_confirmation: the new request first, then the row.
RenewGate(r) ==
    /\ At(r, "renew") /\ req[r].how \notin {"verified", "failed"}
    /\ op.revision = req[r].rev
    /\ op.sent => artifact # "none"
    /\ artifact # "passed"
    /\ Ensured(RenewedAction(r, req[r].login))
    /\ req' = [req EXCEPT ![r].pc = "renewing",
                          ![r].action = RenewedAction(r, req[r].login)]
    /\ UNCHANGED <<op, clocks, remote, guard, told>>

RenewConfirmation(r) ==
    /\ At(r, "renewing")
    /\ \/ /\ req[r].action \in expired
          /\ op.state = "WAITING_LOCAL_CONFIRM" /\ op.action \in expired
          /\ Transition(r, "EXPIRED")
          /\ Ends(r) /\ Leaves(r)
       \/ /\ req[r].action \notin expired
          /\ Renewal(r, "WAITING_LOCAL_CONFIRM", req[r].action, req[r].action,
                     req[r].login)
          /\ Returns(r)
    /\ UNCHANGED <<decisions, clocks, remote, told>>

-----------------------------------------------------------------------------
(* A new login of the same person.                                         *)

Takeover(r, login) ==
    /\ Calls(r, "takeover")
    /\ BeginsGuarded(r, "taking", login, None)
    /\ UNCHANGED <<op, decisions, clocks, remote, told>>

TakeoverLocked(r) ==
    /\ At(r, "taking") /\ Unmoved(r)
    /\ \/ /\ op.state = "SENDING"
          /\ Transition(r, "UNKNOWN")
          /\ req' = [req EXCEPT ![r].rev = op.revision + 1]
       \/ /\ op.state # "SENDING" /\ op.sent /\ Idempotent
          /\ Renewal(r, "UNKNOWN", Action("takeover", op.revision, req[r].login),
                     None, req[r].login)
          /\ req' = [req EXCEPT ![r].pc = "reading", ![r].rev = op.revision + 1]
       \/ /\ op.state # "SENDING" /\ ~op.sent
          /\ Goes(r, "renew") /\ UNCHANGED op
    /\ UNCHANGED <<decisions, clocks, remote, guard, told>>

\* The runtime's answer to a card that belongs to an earlier login.
Rebind(r, login, answer) ==
    /\ Calls(r, "rebind") /\ ~Owned(login) /\ op.gate # None
    /\ BeginsGuarded(r, "rebinding", login, answer)
    /\ UNCHANGED <<op, decisions, clocks, remote, told>>

ReboundAction(r) == Action("rebind", req[r].rev, req[r].login)

RebindSession(r) ==
    /\ At(r, "rebinding") /\ op.revision = req[r].rev
    /\ op.gate = req[r].action /\ op.action = req[r].action
    /\ ~Owned(req[r].login)
    /\ op.state = "WAITING_LOCAL_CONFIRM" /\ ~op.sent
    /\ op.gate \notin confirmed \cup rejected /\ op.action \notin expired
    /\ Ensured(ReboundAction(r))
    /\ req' = [req EXCEPT ![r].pc = "rebound", ![r].action = ReboundAction(r)]
    /\ UNCHANGED <<op, clocks, remote, guard, told>>

Rebound(r) ==
    /\ At(r, "rebound")
    /\ Renewal(r, "WAITING_LOCAL_CONFIRM", req[r].action, req[r].action,
               req[r].login)
    /\ Goes(r, IF req[r].how = "confirm" THEN "decide" ELSE "refuse")
    /\ Leaves(r)
    /\ UNCHANGED <<decisions, clocks, remote, told>>

-----------------------------------------------------------------------------
(* The task: every API call tells it the outcome of a finished operation.  *)

\* The status a finished operation gives its task.
Status ==
    CASE op.state = "VERIFIED_SUCCESS" -> "completed"
      [] op.state = "FAILED" -> IF op.error THEN "confirmation_invalidated"
                                            ELSE "failed"
      [] op.state = "CANCELLED" -> "cancelled"
      [] op.state = "EXPIRED" -> "confirmation_invalidated"
      [] OTHER -> "running"

\* Mutant of Finalizes: the task is told without the guard.
FinalizesUnguarded(r) ==
    /\ op.state \in Terminal
    /\ req' = [req EXCEPT ![r].pc = "telling", ![r].how = Status]
    /\ UNCHANGED guard

\* finalize_governed_task, called by a read or at the end of a handler.
Finalizes(r) ==
    /\ op.state \in Terminal
    /\ guard = None /\ guard' = r
    /\ req' = [req EXCEPT ![r].pc = "telling", ![r].how = Status]

Finalize(r) ==
    /\ Calls(r, "finalize") /\ Finalizes(r)
    /\ UNCHANGED <<op, decisions, clocks, remote, told>>

Settle(r) ==
    /\ At(r, "settle")
    /\ \/ Finalizes(r)
       \/ op.state \notin Terminal /\ Ends(r) /\ UNCHANGED guard
    /\ UNCHANGED <<op, decisions, clocks, remote, told>>

Tell(r) ==
    /\ At(r, "telling")
    /\ told' = [status |-> req[r].how, revision |-> op.revision]
    /\ Ends(r) /\ Leaves(r)
    /\ UNCHANGED <<op, decisions, clocks, remote>>

-----------------------------------------------------------------------------
(* Time and the remote system.                                             *)

\* The deadline of a card passes.  The row carries the deadline of its card.
Expire(a) ==
    /\ a \in Actions \ expired
    /\ expired' = expired \cup {a}
    /\ UNCHANGED <<op, decisions, artifact, remote, guard, req, told>>

ArtifactPasses ==
    /\ artifact = "running"
    /\ artifact' = "passed"
    /\ UNCHANGED <<op, decisions, expired, remote, guard, req, told>>

RemoteSettles(n) ==
    /\ writes[n] = "sent"
    /\ \E w \in {"applied", "refused"} : writes' = [writes EXCEPT ![n] = w]
    /\ UNCHANGED <<op, decisions, clocks, uses, guard, req, told>>

Called(r) ==
    \E login \in Logins :
        \/ Start(r, login) \/ Read(r, login)
        \/ \E answer \in {"confirm", "reject"} :
              Answer(r, login, answer) \/ Rebind(r, login, answer)
        \/ Discard(r, login) \/ Recover(r, login) \/ Reconcile(r, login)
        \/ Takeover(r, login)
        \/ \E reason \in {"expired", "exception", "cancelled"} :
              Retire(r, login, reason)

Step(r) ==
    \/ EnsureGate(r) \/ EnsureConfirmation(r)
    \/ Confirm(r) \/ Reject(r) \/ Resume(r) \/ ResumeLocked(r)
    \/ Dispatch(r) \/ Consume(r) \/ Send(r) \/ Answered(r) \/ Close(r)
    \/ Discarded(r) \/ Recovered(r) \/ RetireRejected(r) \/ Retired(r)
    \/ ReconcileRead(r) \/ Reconciled(r) \/ RenewGate(r) \/ RenewConfirmation(r)
    \/ TakeoverLocked(r) \/ RebindSession(r) \/ Rebound(r)
    \/ Finalize(r) \/ Settle(r) \/ Tell(r)
    \/ Fails(r)

Next ==
    \/ \E r \in Requests : Called(r) \/ Step(r)
    \/ \E a \in {op.action} \cup {req[r].action : r \in Requests} : Expire(a)
    \/ ArtifactPasses
    \/ \E n \in Revisions : RemoteSettles(n)

Spec == Init /\ [][Next]_vars

-----------------------------------------------------------------------------
(* Properties.                                                             *)

\* What is sent was confirmed: every write that left was sent for an action
\* whose own gate the person confirmed and did not reject, and no confirmation
\* was used for two writes, whatever logins, renewals, takeovers and retries
\* came between (consume, _renew_confirmation, rebind_current_session).
SentAsConfirmed ==
    /\ \A u \in uses : u[2] \in confirmed \ rejected
    /\ \A u, v \in uses : u[2] = v[2] => u = v

\* The guard keeps the row for a live sender: from the moment its attempt is
\* READY until it has written the outcome, nobody cancels, recovers, renews or
\* reconciles the operation under it ("an active sender retains the same
\* advisory lock", recover).
SenderUndisturbed ==
    \A r \in Requests :
        /\ req[r].pc \in {"dispatch", "consuming", "sending", "waiting", "closing"}
              => guard = r /\ op.revision = req[r].rev
        /\ req[r].pc \in {"sending", "waiting"}
              => op.state = "SENDING" /\ op.attempt = Attempt(r)

\* A write that is not idempotent leaves at most once in the life of its
\* operation, also when another login takes the operation over.
SentOnce == op.state # "absent" /\ ~Idempotent => Cardinality(uses) <= 1

\* The outcome is true: a success was applied, and an operation that failed,
\* was cancelled or expired has no write that was applied or could still be
\* (_resume_locked, reconcile, retire_owned_confirmation).
OutcomeTrue ==
    /\ op.state = "VERIFIED_SUCCESS" => writes[op.attempt] = "applied"
    /\ op.state \in {"FAILED", "CANCELLED", "EXPIRED"}
          => \A n \in Revisions : writes[n] \in {"none", "refused"}

\* The task is told what the row says at that moment, never an outcome a
\* takeover has undone meanwhile (finalize_governed_task).
ToldTruly ==
    told.status # "running" /\ told.revision = op.revision
        => told.status = Status

\* A finished operation stays finished: only an expired one comes back, and
\* only as a new card that nobody has confirmed (transition, takeover).
Final ==
    [][/\ op.state \in Terminal \ {"EXPIRED"} => op' = op
       /\ op.state = "EXPIRED" /\ op'.state # "EXPIRED"
             => /\ op'.state = "WAITING_LOCAL_CONFIRM"
                /\ op'.action # op.action
                /\ op'.action \in gates \ confirmed]_vars
=============================================================================
