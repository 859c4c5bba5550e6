---------------------------- MODULE BrowserStore ----------------------------
(***************************************************************************)
(* The durable side of a browser run: its row (persistence/browser/        *)
(* runs.py) and the lease on the account binding it works with (leases.py).*)
(* Every operation of either store is one transaction, which locks         *)
(* credential, lease, session, task and run in this order.                 *)
(*                                                                         *)
(* The runs of a model belong to one owner and share one binding, so there *)
(* is one lease row.  A deadline is a flag that lapses: a renewal moves    *)
(* the deadline of a flag that is still up and shows no other change.      *)
(* `auth` stands for everything validate checks of a run's admission: the  *)
(* login session, the binding's revision, the publication and the policy.  *)
(* It is lost once and not regained.                                       *)
(*                                                                         *)
(* phase holds the columns status and phase in one: a run is active in     *)
(* the phases up to waiting_user, and a terminal status clears the phase.  *)
(***************************************************************************)
EXTENDS Naturals, FiniteSets

CONSTANTS
    Runs,      \* browser runs of one owner on one binding
    Procs,     \* worker processes
    MaxEpoch,  \* bound of the model on the claims of one run
    None

ASSUME StoreAssumption ==
    /\ MaxEpoch \in Nat
    /\ None \notin Runs \cup Procs

VARIABLES
    run,       \* the rows of browser_runs
    lease,     \* the row of the binding in browser_binding_leases
    auth       \* whether the run's admission is still valid

store == <<run, lease, auth>>

ActivePhases == {"queued", "acquiring", "running", "verifying", "waiting_user"}

Terminal == {"completed", "failed", "cancelled"}

Epochs == 0 .. MaxEpoch

\* Each claim of a run reserves the binding at most once.
LeaseEpochs == 0 .. MaxEpoch * Cardinality(Runs)

\* _ACTIVE is the status of a run that is not terminal.
Active(r) == run[r].phase \in ActivePhases

NoRun == [phase |-> "none", effect |-> "not_sent", verified |-> FALSE,
          worker |-> None, epoch |-> 0, live |-> FALSE, lease |-> 0,
          capture |-> "not_requested", cancel |-> FALSE, ack |-> FALSE,
          cleanup |-> "pending"]

RunRow == [phase: {"none"} \cup ActivePhases \cup Terminal,
           effect: {"not_sent", "acknowledged", "unknown"}, verified: BOOLEAN,
           worker: Procs \cup {None}, epoch: Epochs, live: BOOLEAN, lease: LeaseEpochs,
           capture: {"not_requested", "prepared", "sent", "promoted", "failed", "quarantined"},
           cancel: BOOLEAN, ack: BOOLEAN,
           cleanup: {"pending", "released", "terminated", "quarantined"}]

NoLease == [state |-> "released", phase |-> "reservation_only",
            run |-> None, epoch |-> 0, live |-> FALSE]

LeaseRow == [state: {"released", "held", "quarantined"},
             phase: {"reservation_only", "acquiring", "acquired", "unknown"},
             run: Runs \cup {None}, epoch: LeaseEpochs, live: BOOLEAN]

StoreInit ==
    /\ run = [r \in Runs |-> NoRun]
    /\ lease = NoLease
    /\ auth = [r \in Runs |-> TRUE]

-----------------------------------------------------------------------------
(* The run's row.                                                          *)

\* _locked for a worker: its claim, and current authority.
Claimed(p, r, e) ==
    /\ Active(r)
    /\ run[r].worker = p /\ run[r].epoch = e /\ run[r].live
    /\ auth[r]

\* check_run of an attached lease: held for this run and epoch, in time.
LeaseCurrent(r, e) ==
    /\ lease.state = "held" /\ lease.run = r
    /\ lease.epoch = e /\ lease.live

\* check_run for an action that does browser work.
Fenced(p, r, e) ==
    /\ Claimed(p, r, e)
    /\ run[r].lease # 0 => LeaseCurrent(r, run[r].lease)

\* _update: the locked row is replaced.
Update(r, row) == run' = [run EXCEPT ![r] = row]

\* _accept writes the queued run with its admission.
Accepted == [NoRun EXCEPT !.phase = "queued"]

\* _claim_candidate: the claim of another worker has lapsed or there is none.
Claimable(r) == Active(r) /\ ~run[r].live /\ auth[r] /\ run[r].epoch < MaxEpoch

ClaimedBy(p, r) ==
    [run[r] EXCEPT !.worker = p, !.epoch = @ + 1, !.live = TRUE]

\* advance: what the locked row refuses.
AdvanceAllowed(r, phase, effect) ==
    /\ ~run[r].verified
    /\ phase # run[r].phase =>
         /\ ~run[r].cancel
         /\ <<run[r].phase, phase>> \in
              {<<"queued", "acquiring">>, <<"acquiring", "running">>,
               <<"running", "verifying">>}
    /\ run[r].effect # "not_sent" => effect # "not_sent"
    /\ run[r].effect = "unknown" => effect = "unknown"

\* advance by a worker; settling an unknown effect in place needs no lease.
Advance(p, r, e, phase, effect) ==
    /\ IF phase = run[r].phase /\ effect = "unknown" THEN Claimed(p, r, e) ELSE Fenced(p, r, e)
    /\ AdvanceAllowed(r, phase, effect)
    /\ Update(r, [run[r] EXCEPT !.phase = phase, !.effect = effect])

CaptureSettled == {"not_requested", "promoted", "failed", "quarantined"}

\* _finalize_locked: what a terminal status requires of the row.
Final(r, status) ==
    /\ run[r].capture \in CaptureSettled
    /\ (status = "completed") = run[r].verified
    /\ status = "cancelled" => run[r].ack
    /\ run[r].effect = "unknown" => status # "cancelled"

\* finalize by a worker.
Finalize(p, r, e, status) ==
    /\ Claimed(p, r, e)
    /\ Final(r, status)
    /\ Update(r, [run[r] EXCEPT !.phase = status])

\* persist_verified.
PersistVerified(p, r, e) ==
    /\ Fenced(p, r, e)
    /\ run[r].lease # 0
    /\ ~run[r].verified /\ run[r].phase \in {"running", "verifying"}
    /\ Update(r, [run[r] EXCEPT !.verified = TRUE, !.phase = "verifying"])

\* request_cancel by the owner: decided on the latest row.
RequestCancel(r) ==
    /\ Active(r) /\ ~run[r].cancel
    /\ auth[r]
    /\ Update(r, [run[r] EXCEPT !.cancel = TRUE])
    /\ UNCHANGED <<lease, auth>>

\* record_cleanup: a final outcome is not replaced.
RecordCleanup(r, outcome) ==
    /\ run[r].cleanup \in {"released", "terminated"} => run[r].cleanup = outcome
    /\ Update(r, [run[r] EXCEPT !.cleanup = outcome])

-----------------------------------------------------------------------------
(* The lease of the binding.                                               *)

\* reserve: the run may still acquire.  The worker's claim is not looked at.
ReserveEligible(r) ==
    /\ run[r].phase = "acquiring" /\ run[r].effect = "not_sent"
    /\ ~run[r].cancel /\ run[r].lease = 0
    /\ auth[r]

Reserved(r) == [state |-> "held", phase |-> "reservation_only", run |-> r,
                epoch |-> lease.epoch + 1, live |-> TRUE]

\* _business_locked: the caller's claim is the row's, in time and authorised.
BusinessLocked(r, e) == LeaseCurrent(r, e) /\ auth[r]

\* start_acquisition: recorded before the browser is started.
StartAcquisition(r, e) ==
    /\ BusinessLocked(r, e) /\ lease.phase = "reservation_only"
    /\ lease' = [lease EXCEPT !.phase = "acquiring"]

\* record_acquired.
RecordAcquired(r, e) ==
    /\ BusinessLocked(r, e) /\ lease.phase = "acquiring"
    /\ lease' = [lease EXCEPT !.phase = "acquired"]

\* Mutant: a browser whose start is not confirmed counts as never started.
ReleasesUnacquired(proof) == lease.phase \in {"reservation_only", "acquiring"} \/ proof

\* cleanup: the lease is free again if nothing was started or its end is proven.
Releases(proof) == lease.phase = "reservation_only" \/ proof

\* recover_cleanup and cleanup match the row by run and epoch.
LeaseOf(r, e) == lease.state \in {"held", "quarantined"} /\ lease.run = r /\ lease.epoch = e

LeaseCleanup(proof) ==
    lease' = IF Releases(proof)
             THEN [NoLease EXCEPT !.epoch = lease.epoch]
             ELSE [lease EXCEPT !.state = "quarantined", !.phase = "unknown"]

\* _prove_no_run_resource_in_session: no lease was ever reserved for the run.
NoRunResource(r) ==
    /\ run[r].cancel /\ run[r].effect = "not_sent" /\ run[r].lease = 0
    /\ ~run[r].verified /\ run[r].capture = "not_requested"
    /\ \/ run[r].phase \in {"queued", "acquiring"} /\ run[r].live
       \/ run[r].phase = "cancelled" /\ run[r].ack
    /\ lease.run # r

-----------------------------------------------------------------------------
(* Time and authority.                                                     *)

\* A worker's claim passes its deadline.
ClaimLapses(r) ==
    /\ Active(r) /\ run[r].live
    /\ Update(r, [run[r] EXCEPT !.live = FALSE])
    /\ UNCHANGED <<lease, auth>>

LeaseLapses ==
    /\ lease.state = "held" /\ lease.live
    /\ lease' = [lease EXCEPT !.live = FALSE]
    /\ UNCHANGED <<run, auth>>

\* The session expires or is revoked, or the binding changes.
AuthorityLost(r) ==
    /\ run[r].phase # "none" /\ auth[r]
    /\ auth' = [auth EXCEPT ![r] = FALSE]
    /\ UNCHANGED <<run, lease>>
=============================================================================
