---------------------------- MODULE BrowserRuns -----------------------------
(***************************************************************************)
(* The worker that carries out a browser run on a registered site          *)
(* (browser_skill/runtime.py), with the executor of its steps              *)
(* (browser_skill/executor.py, infra/browser/read_execution.py), the       *)
(* factory that opens the browser (local_read_execution.py) and the owner  *)
(* of the native browser (local_resource_lifecycle.py).                    *)
(*                                                                         *)
(* A worker claims a run for a time it keeps renewing.  It may stall at    *)
(* any await: its claim lapses, another process claims the run, and the    *)
(* first goes on with what it holds in memory.  A checkpoint refresh and   *)
(* the store operation after it are one step: a change of the row between  *)
(* them makes the operation fail, and every operation may fail anyway.     *)
(* Where operations follow each other without a refresh, `saw` is what the *)
(* worker last read of what others write: cancel_requested and cleanup.     *)
(*                                                                         *)
(* The browser is a native process of its own.  Once a step was dispatched *)
(* its write may land at any time while the browser lives, whatever became *)
(* of the worker.  A browser may survive the process that started it.      *)
(***************************************************************************)
EXTENDS BrowserStore

CONSTANTS
    NSteps,          \* the steps of the published skill
    WriteSteps,      \* those that may write; empty for a reading skill
    CaptureProfiles, \* whether a verified run also captures its browser profile
    MaxCrashes       \* bound of the model on process deaths

ASSUME RunsAssumption ==
    /\ NSteps \in Nat /\ WriteSteps \subseteq 1 .. NSteps
    /\ CaptureProfiles \in BOOLEAN
    /\ MaxCrashes \in Nat

VARIABLES
    gate,     \* the human gate request of a writing run
    log,      \* the write events and step audits in the task's journal
    work,     \* what each process is doing
    mem,      \* _states of each process: the executions it opened
    alive,    \* the lease epochs whose browser is running
    wire,     \* write steps dispatched to a browser and not yet landed
    site,     \* how often each write step landed at the site
    crashes

journal == <<gate, log>>
world == <<wire, site>>
vars == <<store, journal, work, mem, alive, world, crashes>>

Steps == 1 .. NSteps

Writing == WriteSteps # {}

Idle == [at |-> "idle", run |-> None, epoch |-> 0, seq |-> 0, effect |-> "not_sent",
         verified |-> FALSE, saw |-> <<FALSE, "pending">>, stop |-> FALSE, outcome |-> "pending"]

\* An execution: opened, holding a lease claim, with a browser, or released.
NoState == [st |-> "none", epoch |-> 0, gate |-> FALSE]

Opening == {"open", "reserve", "attach", "start", "launch", "acquire", "begin"}

Executing == {"step", "reserved", "barred", "sent", "audit", "verify"}

Deciding == {"claimed", "failed", "deferred", "settle", "persist", "fail", "capture",
             "lookup", "send", "sending", "complete", "cancel", "unstopped", "stopped", "acked",
             "interrupted"}

NoGate == [asked |-> FALSE, decision |-> "none", live |-> TRUE]

NoLog == [consumed |-> <<0, 0>>, sends |-> {}, barriers |-> {}, audited |-> 0]

TypeOK ==
    /\ run \in [Runs -> RunRow] /\ lease \in LeaseRow /\ auth \in [Runs -> BOOLEAN]
    /\ gate \in [Runs -> [asked: BOOLEAN, decision: {"none", "confirmed", "rejected"}, live: BOOLEAN]]
    /\ \A p \in Procs : work[p].at \in {"idle", "cleanup", "record"} \cup Opening \cup Executing \cup Deciding
    /\ \A r \in Runs : log[r].audited \in 0 .. NSteps /\ wire[r] \subseteq WriteSteps
    /\ alive \subseteq LeaseEpochs

Init ==
    /\ StoreInit
    /\ gate = [r \in Runs |-> NoGate]
    /\ log = [r \in Runs |-> NoLog]
    /\ work = [p \in Procs |-> Idle]
    /\ mem = [p \in Procs |-> [r \in Runs |-> NoState]]
    /\ alive = {}
    /\ wire = [r \in Runs |-> {}]
    /\ site = [r \in Runs |-> [s \in WriteSteps |-> 0]]
    /\ crashes = 0

-----------------------------------------------------------------------------
(* The owner.                                                              *)

Accept(r) ==
    /\ run[r].phase = "none"
    /\ Update(r, Accepted)
    /\ UNCHANGED <<lease, auth, journal, work, mem, alive, world, crashes>>

\* The gate request is created and the preparation recorded in the journal.
RecordWritePreparation(r) ==
    /\ Writing /\ ~gate[r].asked
    /\ run[r].phase = "queued" /\ run[r].worker = None /\ ~run[r].cancel /\ auth[r]
    /\ gate' = [gate EXCEPT ![r].asked = TRUE]
    /\ UNCHANGED <<store, log, work, mem, alive, world, crashes>>

\* The owner's decision: written once, before the request expires.
Decide(r) ==
    /\ gate[r].asked /\ gate[r].live /\ gate[r].decision = "none"
    /\ \E d \in {"confirmed", "rejected"} : gate' = [gate EXCEPT ![r].decision = d]
    /\ UNCHANGED <<store, log, work, mem, alive, world, crashes>>

GateExpires(r) ==
    /\ gate[r].asked /\ gate[r].live
    /\ gate' = [gate EXCEPT ![r].live = FALSE]
    /\ UNCHANGED <<store, log, work, mem, alive, world, crashes>>

Cancel(r) ==
    /\ RequestCancel(r)
    /\ UNCHANGED <<journal, work, mem, alive, world, crashes>>

-----------------------------------------------------------------------------
(* The steps of a worker.                                                  *)

R(p) == work[p].run

\* The worker's claim is still its own.
Mine(p) == Claimed(p, R(p), work[p].epoch)

\* A store operation that needs the lease, and refuses a cancelled run.
Uncancelled(p) == Fenced(p, R(p), work[p].epoch) /\ ~run[R(p)].cancel

\* What the worker read last is what the row holds.
Saw(r) == <<run[r].cancel, run[r].cleanup>>

Unmoved(p) == Saw(R(p)) = work[p].saw

Goes(p, at) == work' = [work EXCEPT ![p].at = at]

\* The worker turns to `at` with nothing of the execution kept.
Turns(p, at, stop) ==
    work' = [work EXCEPT ![p] = [Idle EXCEPT !.at = at, !.run = work[p].run,
                                             !.epoch = work[p].epoch, !.saw = work[p].saw, !.stop = stop]]

Reads(p, at) == work' = [work EXCEPT ![p].at = at, ![p].saw = Saw(R(p))]

\* _gate_request: decided by the owner and not expired.
GateConfirmed(r) == gate[r].asked /\ gate[r].live /\ gate[r].decision = "confirmed"

\* claim_ready_in_session: a queued write waits for its confirmation.  A run
\* also waits for a slot of the provider, which other bindings take and leave.
ClaimReady(r) == Writing /\ run[r].phase = "queued" /\ ~run[r].cancel => GateConfirmed(r)

Claim(p, r) ==
    /\ work[p] = Idle
    /\ Claimable(r) /\ ClaimReady(r)
    /\ Update(r, ClaimedBy(p, r))
    /\ work' = [work EXCEPT ![p] = [Idle EXCEPT !.at = "claimed", !.run = r, !.epoch = run[r].epoch + 1,
                                                   !.saw = Saw(r)]]
    /\ UNCHANGED <<lease, auth, journal, mem, alive, world, crashes>>

\* Work was started under an earlier claim, and its receipt may be lost.
MayHaveStarted(r) ==
    run[r].phase \in {"running", "verifying", "waiting_user"} \/ run[r].effect # "not_sent"

\* _run_claimed, up to the execution: the durable row decides.
Begin(p) ==
    LET r == R(p) e == work[p].epoch IN
    /\ work[p].at = "claimed" /\ Mine(p)
    /\ \/ /\ run[r].verified
          /\ Reads(p, "capture") /\ UNCHANGED run
       \/ /\ ~run[r].verified /\ MayHaveStarted(r)
          /\ Advance(p, r, e, run[r].phase, "unknown")
          /\ Reads(p, IF run[r].cancel THEN "cancel" ELSE "fail")
       \/ /\ ~run[r].verified /\ ~MayHaveStarted(r) /\ run[r].cancel
          /\ Reads(p, "cancel") /\ UNCHANGED run
       \/ /\ ~run[r].verified /\ ~MayHaveStarted(r) /\ ~run[r].cancel
          /\ IF run[r].phase = "queued"
             THEN Advance(p, r, e, "acquiring", run[r].effect)
             ELSE UNCHANGED run
          /\ Goes(p, "open")
    /\ UNCHANGED <<lease, auth, journal, mem, alive, world, crashes>>

-----------------------------------------------------------------------------
(* Opening the browser (RegisteredLocalFactory.open).                      *)

State(p) == mem[p][R(p)]

\* The advisory locks of the account, held by one execution at a time.
AccountHeld == \E q \in Procs, r \in Runs : mem[q][r].gate

Remembers(p, state) == mem' = [mem EXCEPT ![p][R(p)] = state]

\* Executions released some time ago are forgotten.
Pruned(p) ==
    LET old == {r \in Runs : mem[p][r].st \in {"released", "terminated"}} IN
    {[r \in Runs |-> IF r \in gone THEN NoState ELSE mem[p][r]] : gone \in SUBSET old}

\* The execution is registered, and takes the account unless another has it.
Open(p) ==
    LET r == R(p) IN
    /\ work[p].at = "open"
    /\ Mine(p) /\ ~run[r].cancel
    /\ \E states \in Pruned(p) :
         \/ /\ states[r].st # "none" \/ run[r].lease # 0
            /\ Goes(p, "failed") /\ mem' = [mem EXCEPT ![p] = states]
         \/ /\ states[r].st = "none" /\ run[r].lease = 0 /\ AccountHeld
            /\ Goes(p, "deferred") /\ mem' = [mem EXCEPT ![p] = states]
         \/ /\ states[r].st = "none" /\ run[r].lease = 0 /\ ~AccountHeld
            /\ Goes(p, "reserve")
            /\ mem' = [mem EXCEPT ![p] = [states EXCEPT ![r] = [NoState EXCEPT !.st = "open",
                                                                               !.gate = TRUE]]]
    /\ UNCHANGED <<store, journal, alive, world, crashes>>

\* An opening that holds no claim gives the account back; it stays registered
\* unless it was put off.
OpenedWithout(p) == Remembers(p, [NoState EXCEPT !.st = "open"])

\* reserve: a busy binding, or a provider whose slots other bindings hold, puts
\* the run off; a reservation of its own that it no longer holds fails it.
Reserve(p) ==
    LET r == R(p) IN
    /\ work[p].at = "reserve"
    /\ ReserveEligible(r)
    /\ \/ /\ lease.state = "released"
          /\ lease' = Reserved(r)
          /\ \/ /\ Remembers(p, [st |-> "claimed", epoch |-> lease'.epoch, gate |-> TRUE])
                /\ Goes(p, "attach")
             \/ \* The commit is not confirmed to the caller.
                OpenedWithout(p) /\ Goes(p, "failed")
       \/ /\ lease.state # "released" /\ lease.run = r
          /\ OpenedWithout(p) /\ Goes(p, "failed") /\ UNCHANGED lease
       \/ /\ lease.state = "released" \/ lease.run # r
          /\ Remembers(p, NoState) /\ Goes(p, "deferred") /\ UNCHANGED lease
    /\ UNCHANGED <<run, auth, journal, alive, world, crashes>>

\* attach_lease: the run names the epoch it works under.
Attach(p) ==
    LET r == R(p) IN
    /\ work[p].at = "attach"
    /\ Uncancelled(p) /\ run[r].lease = 0 /\ run[r].phase = "acquiring"
    /\ LeaseCurrent(r, State(p).epoch)
    /\ Update(r, [run[r] EXCEPT !.lease = State(p).epoch])
    /\ Goes(p, "start")
    /\ UNCHANGED <<lease, auth, journal, mem, alive, world, crashes>>

Start(p) ==
    /\ work[p].at = "start"
    /\ StartAcquisition(R(p), State(p).epoch)
    /\ Goes(p, "launch")
    /\ UNCHANGED <<run, auth, journal, mem, alive, world, crashes>>

\* The last fence is before the launch: the claim may lapse in between.
Launch(p) ==
    /\ work[p].at = "launch"
    /\ alive' = alive \cup {State(p).epoch}
    /\ Remembers(p, [State(p) EXCEPT !.st = "launched"])
    /\ Goes(p, "acquire")
    /\ UNCHANGED <<store, journal, world, crashes>>

Acquire(p) ==
    /\ work[p].at = "acquire"
    /\ Mine(p) /\ ~run[R(p)].cancel
    /\ RecordAcquired(R(p), State(p).epoch)
    /\ Goes(p, "begin")
    /\ UNCHANGED <<run, auth, journal, mem, alive, world, crashes>>

\* start_execution: from here on an error leaves the effect unknown.
StartExecution(p) ==
    LET r == R(p) IN
    /\ work[p].at = "begin"
    /\ Uncancelled(p) /\ run[r].lease # 0
    /\ Advance(p, r, work[p].epoch, "running", run[r].effect)
    /\ work' = [work EXCEPT ![p].at = "step", ![p].seq = 1]
    /\ UNCHANGED <<lease, auth, journal, mem, alive, world, crashes>>

\* An exception while opening ends the execution: as failed, or, if a browser
\* operation raised it, with an outcome that shows nothing sent.
OpenFails(p) ==
    /\ work[p].at \in Opening
    /\ Goes(p, "failed") \/ Goes(p, "settle")
    /\ IF State(p).st = "open" THEN OpenedWithout(p) ELSE UNCHANGED mem
    /\ UNCHANGED <<store, journal, alive, world, crashes>>

-----------------------------------------------------------------------------
(* The steps of the skill (BrowserExecutor._run).                          *)

Stamp(p) == <<work[p].epoch, run[R(p)].lease>>

\* What every write event and audit requires of the locked row.
StepAllowed(p) ==
    /\ Uncancelled(p)
    /\ run[R(p)].phase = "running" /\ run[R(p)].lease # 0
    /\ run[R(p)].effect # "unknown" /\ ~run[R(p)].verified
    /\ log[R(p)].audited = work[p].seq - 1

Audited(p) ==
    LET r == R(p) IN
    /\ log' = [log EXCEPT ![r].audited = work[p].seq]
    /\ Update(r, [run[r] EXCEPT !.effect = "acknowledged"])
    /\ work' = [work EXCEPT ![p].at = "step", ![p].seq = @ + 1]

\* A reading step: sent, acknowledged and recorded.
ReadStep(p) ==
    /\ work[p].at = "step" /\ work[p].seq \in Steps \ WriteSteps
    /\ StepAllowed(p)
    /\ Audited(p)
    /\ UNCHANGED <<lease, auth, gate, mem, alive, world, crashes>>

\* reserve_write_dispatch: the confirmation is consumed by one claim and one
\* lease, and each step is reserved once.
ReserveWrite(p) ==
    LET r == R(p) s == work[p].seq IN
    /\ work[p].at = "step" /\ s \in WriteSteps
    /\ StepAllowed(p) /\ GateConfirmed(r)
    /\ \/ log[r].consumed = Stamp(p)
       \/ log[r].consumed = <<0, 0>> /\ WriteSteps \cap 1 .. log[r].audited = {}
    /\ \A x \in log[r].sends : x[1] # s
    /\ log' = [log EXCEPT ![r].consumed = Stamp(p), ![r].sends = @ \cup {<<s, Stamp(p)>>}]
    /\ Goes(p, "reserved")
    /\ UNCHANGED <<store, gate, mem, alive, world, crashes>>

\* assert_write_reservation: the reservation of this claim and lease, used once.
AssertWrite(p) ==
    LET r == R(p) s == work[p].seq IN
    /\ work[p].at = "reserved"
    /\ StepAllowed(p) /\ GateConfirmed(r)
    /\ <<s, Stamp(p)>> \in log[r].sends
    /\ \A x \in log[r].barriers : x[1] # s
    /\ log' = [log EXCEPT ![r].barriers = @ \cup {<<s, Stamp(p)>>}]
    /\ Goes(p, "barred")
    /\ UNCHANGED <<store, gate, mem, alive, world, crashes>>

\* Mutant: a step whose receipt is missing is dispatched again.
SendAgain(p) ==
    /\ work[p].at \in {"barred", "sent"}
    /\ State(p).st = "launched"
    /\ wire' = [wire EXCEPT ![R(p)] = @ \cup {work[p].seq}]
    /\ Goes(p, "sent")
    /\ UNCHANGED <<store, journal, mem, alive, site, crashes>>

\* The dispatch to the browser, after the barrier.  begin compares deadlines that
\* are in memory, no row is read any more, and the process may stall in between:
\* the claim or the lease may be gone by now.
Send(p) ==
    /\ work[p].at = "barred"
    /\ State(p).st = "launched"
    /\ wire' = [wire EXCEPT ![R(p)] = @ \cup {work[p].seq}]
    /\ Goes(p, "sent")
    /\ UNCHANGED <<store, journal, mem, alive, site, crashes>>

\* The browser carries out a dispatched write.
Land(r, s) ==
    /\ s \in wire[r] /\ run[r].lease \in alive
    /\ wire' = [wire EXCEPT ![r] = @ \ {s}]
    /\ site' = [site EXCEPT ![r][s] = @ + 1]
    /\ UNCHANGED <<store, journal, work, mem, alive, crashes>>

\* The browser acknowledges a write it carried out.
Receipt(p) ==
    /\ work[p].at = "sent" /\ site[R(p)][work[p].seq] > 0
    /\ Goes(p, "audit")
    /\ UNCHANGED <<store, journal, mem, alive, world, crashes>>

\* record_step of a write: reservation and barrier are those of this claim.
Audit(p) ==
    LET r == R(p) IN
    /\ work[p].at = "audit"
    /\ StepAllowed(p)
    /\ <<work[p].seq, Stamp(p)>> \in log[r].sends \cap log[r].barriers
    /\ Audited(p)
    /\ UNCHANGED <<lease, auth, gate, mem, alive, world, crashes>>

\* All steps are done: the verifier confirms the result, or does not.
Verify(p) ==
    /\ work[p].at = "step" /\ work[p].seq > NSteps
    /\ Mine(p)
    /\ \E v \in BOOLEAN :
         work' = [work EXCEPT ![p].at = "settle", ![p].verified = v,
                              ![p].effect = IF NSteps > 0 THEN "acknowledged" ELSE "not_sent"]
    /\ UNCHANGED <<store, journal, mem, alive, world, crashes>>

\* Mutant: a write on its way counts as not carried out.
ReceiptsSayUnsent(p) ==
    {"unknown", IF work[p].seq > 1 THEN "acknowledged" ELSE "not_sent"}

\* What the receipts of an execution that raises can show: the steps before
\* this one are acknowledged; a write is not sent up to its dispatch, and
\* possibly sent from there on.
ReceiptsSay(p) ==
    {"unknown"} \cup (IF work[p].at \in {"step", "reserved", "barred"}
                      THEN {IF work[p].seq > 1 THEN "acknowledged" ELSE "not_sent"} ELSE {})

StepFails(p) ==
    /\ work[p].at \in Executing
    /\ \E e \in ReceiptsSay(p) : work' = [work EXCEPT ![p].at = "settle", ![p].effect = e]
    /\ UNCHANGED <<store, journal, mem, alive, world, crashes>>

-----------------------------------------------------------------------------
(* Settling the outcome (_run_claimed after the execution).                *)

\* The execution failed before it could do anything.
Failed(p) ==
    /\ work[p].at = "failed" /\ Mine(p)
    /\ Reads(p, IF run[R(p)].cancel THEN "cancel" ELSE "fail")
    /\ UNCHANGED <<store, journal, mem, alive, world, crashes>>

\* The run is put off: it stays acquiring until its claim lapses.
Deferred(p) ==
    LET r == R(p) IN
    /\ work[p].at = "deferred" /\ Mine(p)
    /\ IF run[r].cancel THEN Reads(p, "cancel")
       ELSE /\ run[r].phase = "acquiring" /\ run[r].lease = 0
            /\ run[r].effect = "not_sent" /\ ~run[r].verified
            /\ work' = [work EXCEPT ![p] = Idle]
    /\ UNCHANGED <<store, journal, mem, alive, world, crashes>>

Settle(p) ==
    LET r == R(p) w == work[p]
        effect == IF run[r].effect = "unknown" THEN "unknown" ELSE w.effect
    IN
    /\ w.at = "settle"
    /\ Advance(p, r, w.epoch, IF run[r].cancel THEN run[r].phase ELSE "verifying", effect)
    /\ Reads(p, IF w.verified THEN "persist" ELSE IF run[r].cancel THEN "cancel" ELSE "fail")
    /\ UNCHANGED <<lease, auth, journal, mem, alive, world, crashes>>

Persist(p) ==
    /\ work[p].at = "persist" /\ Unmoved(p)
    /\ PersistVerified(p, R(p), work[p].epoch)
    /\ Goes(p, "capture")
    /\ UNCHANGED <<lease, auth, journal, mem, alive, world, crashes>>

\* finalize; the worker then cleans up.
Ends(p, at, status) ==
    /\ work[p].at = at /\ Unmoved(p)
    /\ Finalize(p, R(p), work[p].epoch, status)
    /\ Turns(p, "cleanup", work[p].stop)
    /\ UNCHANGED <<lease, auth, journal, mem, alive, world, crashes>>

Fail(p) == Ends(p, "fail", "failed")

Complete(p) == Ends(p, "complete", "completed")

-----------------------------------------------------------------------------
(* Capturing the browser profile of a verified run (_settle_capture).      *)

CaptureBecomes(r, status) == Update(r, [run[r] EXCEPT !.capture = status])

\* Nothing is left to capture, or a cancelled run does not begin with it.
CaptureDone(r) ==
    \/ ~CaptureProfiles
    \/ run[r].capture \in CaptureSettled /\ (run[r].capture = "not_requested" => run[r].cancel)

Capture(p) ==
    LET r == R(p) IN
    /\ work[p].at = "capture"
    /\ CaptureProfiles => Mine(p)
    /\ \/ /\ CaptureDone(r)
          /\ IF CaptureProfiles THEN Reads(p, "complete") ELSE Goes(p, "complete")
          /\ UNCHANGED run
       \/ /\ ~CaptureDone(r) /\ run[r].capture = "not_requested"
          /\ run[r].lease # 0
          /\ CaptureBecomes(r, "prepared") /\ Reads(p, "lookup")
       \/ /\ ~CaptureDone(r) /\ run[r].capture \in {"prepared", "sent"}
          /\ Reads(p, "lookup") /\ UNCHANGED run
    /\ UNCHANGED <<lease, auth, journal, mem, alive, world, crashes>>

\* The execution was opened under this claim, so its fence holds.
OpenedHere(p) == work[p].seq > 0 /\ State(p).st = "launched"

\* The send is committed before the provider is called.
LookupCapture(p) ==
    LET r == R(p) IN
    /\ work[p].at = "lookup"
    /\ OpenedHere(p) /\ Uncancelled(p) /\ run[r].capture = "prepared"
    /\ CaptureBecomes(r, "sent") /\ Reads(p, "send")
    /\ UNCHANGED <<lease, auth, journal, mem, alive, world, crashes>>

SendCapture(p) ==
    /\ work[p].at = "send"
    /\ OpenedHere(p) /\ Uncancelled(p)
    /\ Goes(p, "sending")
    /\ UNCHANGED <<store, journal, mem, alive, world, crashes>>

Promote(p) ==
    /\ work[p].at = "sending"
    /\ OpenedHere(p) /\ Uncancelled(p)
    /\ CaptureBecomes(R(p), "promoted") /\ Reads(p, "complete")
    /\ UNCHANGED <<lease, auth, journal, mem, alive, world, crashes>>

\* Any other answer or error leaves the capture quarantined.
QuarantineCapture(p) ==
    /\ work[p].at \in {"lookup", "send", "sending"} /\ Mine(p)
    /\ CaptureBecomes(R(p), "quarantined") /\ Reads(p, "complete")
    /\ UNCHANGED <<lease, auth, journal, mem, alive, world, crashes>>

-----------------------------------------------------------------------------
(* Cleaning up (LocalBrowserReadLifecycle.cleanup).                        *)

Forgets(p, st) == Remembers(p, [st |-> st, epoch |-> State(p).epoch, gate |-> FALSE])

\* The absence of a resource is proven by the store, not by this memory.
CleanAbsent(p) ==
    /\ State(p).st \in {"none", "open"} /\ NoRunResource(R(p))
    /\ Remembers(p, [State(p) EXCEPT !.gate = FALSE])
    /\ UNCHANGED <<lease, alive>>

\* The execution was released before, and its outcome kept.
CleanAgain(p, outcome) ==
    /\ State(p).st \in {"released", "terminated"} /\ outcome = State(p).st
    /\ UNCHANGED <<lease, alive, mem>>

\* Without an execution in memory the claim is recovered from the row; a
\* browser it may have started cannot be found again.
CleanRecovered(p, outcome) ==
    LET r == R(p) IN
    /\ State(p).st = "none" /\ ~NoRunResource(r)
    /\ LeaseOf(r, lease.epoch) /\ run[r].lease \in {0, lease.epoch}
    /\ LeaseCleanup(FALSE)
    /\ outcome = IF Releases(FALSE) THEN "released" ELSE "quarantined"
    /\ UNCHANGED <<alive, mem>>

\* A claim whose browser was not started.
CleanClaimed(p, outcome) ==
    LET r == R(p) e == State(p).epoch IN
    /\ State(p).st = "claimed" /\ run[r].lease \in {0, e}
    /\ \/ /\ lease.state = "released" /\ lease.epoch = e
          /\ outcome = "released" /\ UNCHANGED lease
       \/ /\ LeaseOf(r, e) /\ LeaseCleanup(FALSE)
          /\ outcome = IF Releases(FALSE) THEN "released" ELSE "quarantined"
    /\ IF outcome = "released" THEN Forgets(p, "released") ELSE UNCHANGED mem
    /\ UNCHANGED alive

\* A browser of this process: its exit is the proof that frees the lease.
CleanLaunched(p, outcome) ==
    LET r == R(p) e == State(p).epoch IN
    /\ State(p).st = "launched" /\ run[r].lease \in {0, e}
    /\ LeaseOf(r, e)
    /\ \/ /\ outcome = "terminated"
          /\ alive' = alive \ {e} /\ LeaseCleanup(TRUE) /\ Forgets(p, "terminated")
       \/ /\ outcome = "quarantined"
          /\ LeaseCleanup(FALSE) /\ UNCHANGED <<alive, mem>>

CleansUp(p, outcome) ==
    \/ CleanAbsent(p) /\ outcome = "absent"
    \/ CleanAgain(p, outcome)
    \/ CleanRecovered(p, outcome)
    \/ CleanClaimed(p, outcome)
    \/ CleanLaunched(p, outcome)

\* The browser has exited, but its lease is not given back.
ExitUnrecorded(p) ==
    /\ work[p].at \in {"cancel", "cleanup"} /\ State(p).st = "launched"
    /\ State(p).epoch \in alive
    /\ alive' = alive \ {State(p).epoch}
    /\ UNCHANGED <<store, journal, work, mem, world, crashes>>

\* A process that was told to stop leaves after its cleanup.
Leaves(p) ==
    /\ work' = [work EXCEPT ![p] = Idle]
    /\ IF work[p].stop
       THEN /\ mem' = [mem EXCEPT ![p] = [r \in Runs |-> NoState]]
            /\ alive' \in {alive, alive \ {mem[p][r].epoch : r \in Runs}}
       ELSE UNCHANGED <<mem, alive>>

Cleanup(p) ==
    /\ work[p].at = "cleanup"
    /\ \E outcome \in {"absent", "released", "terminated", "quarantined"} :
         /\ CleansUp(p, outcome)
         /\ work' = [work EXCEPT ![p].at = "record", ![p].outcome = outcome]
    /\ UNCHANGED <<run, auth, journal, world, crashes>>

\* record_cleanup: on the row it was decided for; an absence is proven again.
Record(p) ==
    LET r == R(p) w == work[p] IN
    /\ w.at = "record"
    /\ run[r].epoch = w.epoch /\ Unmoved(p)
    /\ w.outcome = "absent" => NoRunResource(r)
    /\ RecordCleanup(r, IF w.outcome = "absent" THEN "released" ELSE w.outcome)
    /\ Leaves(p)
    /\ UNCHANGED <<lease, auth, journal, world, crashes>>

CleanupFails(p) ==
    /\ work[p].at \in {"cleanup", "record"}
    /\ Leaves(p)
    /\ UNCHANGED <<store, journal, world, crashes>>

\* cleanup_ready: terminal runs, and active ones that nobody may continue.
CleanupReady(r) ==
    /\ run[r].cleanup \notin {"released", "terminated"}
    /\ run[r].phase \in Terminal \/ (Active(r) /\ ~run[r].live /\ ~auth[r])

CleanupPass(p, r) ==
    /\ work[p] = Idle /\ CleanupReady(r)
    /\ work' = [work EXCEPT ![p] = [Idle EXCEPT !.at = "cleanup", !.run = r,
                                                !.epoch = run[r].epoch, !.saw = Saw(r)]]
    /\ UNCHANGED <<store, journal, mem, alive, world, crashes>>

-----------------------------------------------------------------------------
(* Cancelling (_cancel).                                                   *)

\* Mutant: stop does not look at what the cleanup achieved.
StoppedAnyway(outcome) == TRUE

\* What stop takes for the end of the execution.
Stopped(outcome) == outcome \in {"absent", "released", "terminated"}

\* An execution that cannot be shown to have stopped is not acknowledged.
Stop(p) ==
    /\ work[p].at = "cancel"
    /\ Mine(p) /\ run[R(p)].cancel
    /\ \E outcome \in {"absent", "released", "terminated", "quarantined"} :
         /\ CleansUp(p, outcome)
         /\ work' = [work EXCEPT ![p].at = IF Stopped(outcome) THEN "stopped" ELSE "unstopped",
                                 ![p].outcome = outcome]
    /\ UNCHANGED <<run, auth, journal, world, crashes>>

\* acknowledge_cancel.
Acknowledge(p) ==
    LET r == R(p) IN
    /\ work[p].at = "stopped"
    /\ Mine(p) /\ run[r].cancel
    /\ work[p].outcome = "absent" => NoRunResource(r)
    /\ Update(r, [run[r] EXCEPT !.ack = TRUE])
    /\ Goes(p, "acked")
    /\ UNCHANGED <<lease, auth, journal, mem, alive, world, crashes>>

EndCancelled(p) ==
    Ends(p, "acked", IF run[R(p)].effect = "unknown" THEN "failed" ELSE "cancelled")

\* An exception leaves the run to a later claim; a stopping process cleans up.
Abort(p) ==
    /\ work[p].at \in Deciding
    /\ IF work[p].stop THEN Turns(p, "cleanup", TRUE) ELSE work' = [work EXCEPT ![p] = Idle]
    /\ UNCHANGED <<store, journal, mem, alive, world, crashes>>

-----------------------------------------------------------------------------
(* Shutdown and death of a process.                                        *)

\* The task of the worker is cancelled where it awaits.
Interrupt(p) ==
    /\ work[p].at \in Opening \cup Executing \cup Deciding
    /\ ~work[p].stop /\ crashes < MaxCrashes
    /\ Turns(p, "interrupted", TRUE)
    /\ IF work[p].at \in Opening /\ State(p).st = "open" THEN OpenedWithout(p) ELSE UNCHANGED mem
    /\ crashes' = crashes + 1
    /\ UNCHANGED <<store, journal, alive, world>>

\* _settle_interrupted.
SettleInterrupted(p) ==
    LET r == R(p) cancel == run[r].cancel IN
    /\ work[p].at = "interrupted" /\ Mine(p)
    /\ \/ /\ run[r].verified
          /\ IF CaptureProfiles /\ run[r].capture \notin {"promoted", "failed", "quarantined"}
             THEN CaptureBecomes(r, "quarantined") ELSE UNCHANGED run
          /\ Reads(p, "complete")
       \/ /\ ~run[r].verified
          /\ IF MayHaveStarted(r) THEN Advance(p, r, work[p].epoch, run[r].phase, "unknown")
                                  ELSE UNCHANGED run
          /\ Reads(p, IF cancel THEN "cancel" ELSE "fail")
    /\ UNCHANGED <<lease, auth, journal, mem, alive, world, crashes>>

Crash(p) ==
    /\ crashes < MaxCrashes
    /\ work[p] # Idle \/ \E r \in Runs : mem[p][r] # NoState
    /\ work' = [work EXCEPT ![p] = Idle]
    /\ mem' = [mem EXCEPT ![p] = [r \in Runs |-> NoState]]
    /\ alive' \in {alive, alive \ {mem[p][r].epoch : r \in Runs}}
    /\ crashes' = crashes + 1
    /\ UNCHANGED <<store, journal, world>>

Passes ==
    /\ LeaseLapses \/ \E r \in Runs : ClaimLapses(r) \/ AuthorityLost(r)
    /\ UNCHANGED <<journal, work, mem, alive, world, crashes>>

Moves(p) ==
    \/ Begin(p) \/ Open(p) \/ Reserve(p) \/ Attach(p) \/ Start(p) \/ Launch(p) \/ Acquire(p)
    \/ StartExecution(p) \/ OpenFails(p)
    \/ ReadStep(p) \/ ReserveWrite(p) \/ AssertWrite(p) \/ Send(p) \/ Receipt(p) \/ Audit(p)
    \/ Verify(p) \/ StepFails(p)
    \/ Failed(p) \/ Deferred(p) \/ Settle(p) \/ Persist(p) \/ Fail(p) \/ Complete(p)
    \/ Capture(p) \/ LookupCapture(p) \/ SendCapture(p) \/ Promote(p) \/ QuarantineCapture(p)
    \/ Stop(p) \/ Acknowledge(p) \/ EndCancelled(p) \/ Abort(p) \/ SettleInterrupted(p)
    \/ Cleanup(p) \/ Record(p) \/ CleanupFails(p)

Takes(p) == \E r \in Runs : Claim(p, r) \/ CleanupPass(p, r)

Next ==
    \/ \E r \in Runs : Accept(r) \/ RecordWritePreparation(r) \/ Decide(r) \/ GateExpires(r) \/ Cancel(r)
    \/ \E p \in Procs : Takes(p) \/ Moves(p) \/ ExitUnrecorded(p) \/ Interrupt(p) \/ Crash(p)
    \/ \E r \in Runs, s \in WriteSteps : Land(r, s)
    \/ Passes

Spec == Init /\ [][Next]_vars

-----------------------------------------------------------------------------

\* Whatever stalls, crashes, retries and cancellations there are, a write of a
\* run reaches the site at most once, and only if the owner confirmed it.
WriteOnce ==
    \A r \in Runs, s \in WriteSteps :
        /\ site[r][s] <= 1
        /\ site[r][s] = 1 => gate[r].decision = "confirmed"

\* A terminal run whose effect is not unknown tells it truly, and it stays
\* true: the writes that reached the site are exactly the audited ones, none of
\* them if nothing was sent, all of them if it completed.
EffectTrue ==
    \A r \in Runs : run[r].phase \in Terminal /\ run[r].effect # "unknown" =>
        /\ \A s \in WriteSteps : (site[r][s] = 1) = (s <= log[r].audited)
        /\ run[r].effect = "not_sent" => log[r].audited = 0
        /\ run[r].phase = "completed" => log[r].audited = NSteps

\* A cancellation is acknowledged only once the run has no browser that could
\* still carry out a write and no lease, and it gets none afterwards.
CancelledIsStopped ==
    \A r \in Runs : run[r].ack =>
        /\ run[r].lease \notin alive
        /\ ~LeaseOf(r, lease.epoch)

\* A browser that still runs keeps the binding: its lease is held or
\* quarantined, so no second browser works with the account.
ReleasedIsGone ==
    \A e \in alive : lease.epoch = e /\ lease.state # "released"

\* A cleanup recorded as final is true once no process works on the terminal
\* run any more: it has no lease and no browser.
CleanupTruthful ==
    \A r \in Runs :
        /\ run[r].phase \in Terminal /\ run[r].cleanup \in {"released", "terminated"}
        /\ \A p \in Procs : work[p].run # r
        => run[r].lease \notin alive /\ ~LeaseOf(r, lease.epoch)
====
