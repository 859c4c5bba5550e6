--------------------------- MODULE BrowserHandoffs --------------------------
(***************************************************************************)
(* A browser run that fills a form and hands its window to the owner       *)
(* (infra/browser/d_form_execution.py under browser_skill/runtime.py).     *)
(*                                                                         *)
(* The worker opens a browser, feeds the inputs to a subprocess that fills *)
(* the form, records the subprocess's receipt and seals the handoff: the   *)
(* run waits for the owner, who alone may submit.  The worker holds the    *)
(* window until the owner closes it, cancels, asks for a check that        *)
(* verifies the result, or the handoff's deadline passes.  A handoff whose *)
(* holder is gone is closed by the next claim or by the cleanup pass.      *)
(*                                                                         *)
(* The conventions are those of BrowserRuns: a refresh and the store       *)
(* operation after it are one step, and `saw` is what the worker last read *)
(* of what others write.  The browser's process dies with its worker's.    *)
(* The run's write is confirmed; that its confirmation or its lease passes *)
(* its time only makes a step fail, and every step may fail anyway.        *)
(***************************************************************************)
EXTENDS BrowserStore

CONSTANTS
    CheckOutcomes,   \* what a check may answer (the form runtime: unsupported)
    RedecideLimit,   \* _SEAL_REDECIDE_ATTEMPTS
    MaxCrashes       \* bound of the model on process deaths

ASSUME HandoffsAssumption ==
    /\ CheckOutcomes \subseteq {"verified", "not_found", "unavailable", "unsupported"}
    /\ RedecideLimit \in Nat /\ MaxCrashes \in Nat

VARIABLES
    log,      \* the run's fill and handoff events in the task's journal
    due,      \* whether the deadline of the sealed handoff has passed
    work,     \* what each process is doing
    mem,      \* _states of each process
    alive,    \* the lease epochs whose browser is running
    sub,      \* the subprocess that fills the form
    form,     \* how often a subprocess began to fill the form
    crashes

journal == <<log, due>>
world == <<alive, sub, form>>
vars == <<store, journal, work, mem, world, crashes>>

Idle == [at |-> "idle", run |-> None, epoch |-> 0, effect |-> "not_sent", verified |-> FALSE,
         saw |-> <<FALSE, "none", "pending">>, tries |-> 0, stop |-> FALSE, outcome |-> "pending"]

\* An execution: registered, holding a lease claim, with a browser, released.
NoState == [st |-> "none", epoch |-> 0, claim |-> 0]

NoLog == [sent |-> <<0, 0>>, report |-> "none", sealed |-> FALSE, closed |-> "none"]

Preparing == {"open", "reserve", "attach", "start", "fill", "acquire", "fence", "launch", "login",
              "spawn", "barred"}

Deciding == {"claimed", "failed", "settle", "persist", "complete", "fail", "seal", "enter",
             "hold", "checking", "cancel", "stopped", "acked", "interrupted"}

Init ==
    /\ StoreInit
    /\ log = [r \in Runs |-> NoLog]
    /\ due = [r \in Runs |-> FALSE]
    /\ work = [p \in Procs |-> Idle]
    /\ mem = [p \in Procs |-> [r \in Runs |-> NoState]]
    /\ alive = {}
    /\ sub = [r \in Runs |-> "none"]
    /\ form = [r \in Runs |-> 0]
    /\ crashes = 0

-----------------------------------------------------------------------------
(* The owner.                                                              *)

Accept(r) ==
    /\ run[r].phase = "none"
    /\ Update(r, Accepted)
    /\ UNCHANGED <<lease, auth, journal, work, mem, world, crashes>>

Cancel(r) ==
    /\ RequestCancel(r)
    /\ UNCHANGED <<journal, work, mem, world, crashes>>

\* request_handoff_check: decided on the latest row; repeating it is harmless.
RequestCheck(r) ==
    /\ log[r].sealed /\ ~due[r]
    /\ run[r].phase = "waiting_user" /\ run[r].effect = "acknowledged"
    /\ ~run[r].verified /\ ~run[r].cancel /\ auth[r]
    /\ Update(r, [run[r] EXCEPT !.phase = "verifying"])
    /\ UNCHANGED <<lease, auth, journal, work, mem, world, crashes>>

\* The owner closes the window, or the browser dies.
WindowCloses(e) ==
    /\ e \in alive
    /\ alive' = alive \ {e}
    /\ UNCHANGED <<store, journal, work, mem, sub, form, crashes>>

-----------------------------------------------------------------------------
(* The steps of a worker.                                                  *)

R(p) == work[p].run

State(p) == mem[p][R(p)]

Mine(p) == Claimed(p, R(p), work[p].epoch)

Uncancelled(p) == Fenced(p, R(p), work[p].epoch) /\ ~run[R(p)].cancel

Saw(r) == <<run[r].cancel, run[r].phase, run[r].cleanup>>

Unmoved(p) == Saw(R(p)) = work[p].saw

Goes(p, at) == work' = [work EXCEPT ![p].at = at]

Turns(p, at, stop) ==
    work' = [work EXCEPT ![p] = [Idle EXCEPT !.at = at, !.run = work[p].run, !.epoch = work[p].epoch,
                                             !.saw = work[p].saw, !.stop = stop]]

\* The worker goes on with the row as this step leaves it.
Reads(p, at) ==
    LET row == run'[R(p)] IN
    work' = [work EXCEPT ![p].at = at, ![p].saw = <<row.cancel, row.phase, row.cleanup>>,
                         ![p].effect = "not_sent", ![p].verified = FALSE]

Remembers(p, state) == mem' = [mem EXCEPT ![p][R(p)] = state]

Claim(p, r) ==
    /\ work[p] = Idle
    /\ Claimable(r)
    /\ Update(r, ClaimedBy(p, r))
    /\ work' = [work EXCEPT ![p] = [Idle EXCEPT !.at = "claimed", !.run = r, !.epoch = run[r].epoch + 1]]
    /\ UNCHANGED <<lease, auth, journal, mem, world, crashes>>

\* _handoff_recoverable: a sealed handoff that has no verdict yet.
Recoverable(r) ==
    /\ log[r].sealed
    /\ run[r].phase \in {"waiting_user", "verifying"}
    /\ run[r].effect = "acknowledged" /\ ~run[r].verified

\* finalize_handoff and expire_lost_handoff write the same terminal row.
CloseHandoff(r, reason) ==
    /\ Final(r, "failed")
    /\ Update(r, [run[r] EXCEPT !.phase = "failed"])
    /\ log' = [log EXCEPT ![r].closed = reason]

\* finalize_handoff by the worker, which then cleans up.
FinalizeHandoff(p, reason) ==
    /\ Mine(p) /\ log[R(p)].sealed /\ ~run[R(p)].verified
    /\ CloseHandoff(R(p), reason)
    /\ work' = [work EXCEPT ![p] = [Idle EXCEPT !.at = "cleanup", !.run = R(p), !.epoch = work[p].epoch,
                                                !.stop = work[p].stop,
                                                !.saw = <<run[R(p)].cancel, "failed", run[R(p)].cleanup>>]]

\* Work was started under an earlier claim, and its receipt may be lost.
MayHaveStarted(r) ==
    run[r].phase \in {"running", "verifying", "waiting_user"} \/ run[r].effect # "not_sent"

\* _run_claimed, up to the execution.  A sealed handoff ends here as
\* interrupted, whether or not a cancel is pending.
Begin(p) ==
    LET r == R(p) e == work[p].epoch IN
    /\ work[p].at = "claimed" /\ Mine(p)
    /\ \/ /\ Recoverable(r)
          /\ FinalizeHandoff(p, "interrupted")
       \/ /\ ~Recoverable(r) /\ run[r].verified
          /\ UNCHANGED <<run, log>> /\ Reads(p, "complete")
       \/ /\ ~Recoverable(r) /\ ~run[r].verified /\ MayHaveStarted(r)
          /\ Advance(p, r, e, run[r].phase, "unknown")
          /\ Reads(p, IF run[r].cancel THEN "cancel" ELSE "fail") /\ UNCHANGED log
       \/ /\ ~MayHaveStarted(r) /\ run[r].cancel
          /\ UNCHANGED <<run, log>> /\ Reads(p, "cancel")
       \/ /\ ~MayHaveStarted(r) /\ ~run[r].cancel
          /\ IF run[r].phase = "queued" THEN Advance(p, r, e, "acquiring", "not_sent") ELSE UNCHANGED run
          /\ Reads(p, "open") /\ UNCHANGED log
    /\ UNCHANGED <<lease, auth, due, mem, world, crashes>>

-----------------------------------------------------------------------------
(* The execution (DFormRuntime.execute).                                   *)

\* record_fill_stop: one receipt per run; another one conflicts with it.
RecordFillStop(p, report) ==
    /\ Fenced(p, R(p), work[p].epoch)
    /\ log[R(p)].report = "none"
    /\ log' = [log EXCEPT ![R(p)].report = report]

\* The execution returns an outcome that hands nothing over.
Returns(p, effect, verified) ==
    work' = [work EXCEPT ![p].at = "settle", ![p].effect = effect, ![p].verified = verified]

\* A run this process executed before, or whose binding is not found, is
\* refused.  A session that expires too soon ends the execution before
\* anything is reserved.
Open(p) ==
    /\ work[p].at = "open"
    /\ \/ /\ Goes(p, "failed") /\ UNCHANGED <<mem, log>>
       \/ /\ State(p).st = "none"
          /\ Remembers(p, [NoState EXCEPT !.st = "open", !.claim = work[p].epoch])
          /\ \/ Goes(p, "reserve") /\ UNCHANGED log
             \/ RecordFillStop(p, "failed") /\ Returns(p, "not_sent", FALSE)
    /\ UNCHANGED <<store, due, world, crashes>>

\* reserve: the commit may not be confirmed to the caller.
Reserve(p) ==
    /\ work[p].at = "reserve"
    /\ ReserveEligible(R(p)) /\ lease.state = "released"
    /\ lease' = Reserved(R(p))
    /\ \/ /\ Remembers(p, [State(p) EXCEPT !.st = "claimed", !.epoch = lease'.epoch])
          /\ Goes(p, "attach")
       \/ UNCHANGED mem /\ Goes(p, "failed")
    /\ UNCHANGED <<run, auth, journal, world, crashes>>

Attach(p) ==
    LET r == R(p) IN
    /\ work[p].at = "attach"
    /\ Uncancelled(p) /\ run[r].lease = 0 /\ run[r].phase = "acquiring"
    /\ LeaseCurrent(r, State(p).epoch)
    /\ Update(r, [run[r] EXCEPT !.lease = State(p).epoch])
    /\ Goes(p, "start")
    /\ UNCHANGED <<lease, auth, journal, mem, world, crashes>>

StartExecution(p) ==
    /\ work[p].at = "start"
    /\ Uncancelled(p) /\ run[R(p)].lease # 0
    /\ Advance(p, R(p), work[p].epoch, "running", run[R(p)].effect)
    /\ Goes(p, "fill")
    /\ UNCHANGED <<lease, auth, journal, mem, world, crashes>>

\* What both reserve_fill_stop and assert_fill_stop_reservation require.
FillAllowed(p) ==
    LET r == R(p) IN
    /\ Uncancelled(p)
    /\ run[r].phase = "running" /\ run[r].lease # 0
    /\ run[r].effect = "not_sent" /\ ~run[r].verified

\* The confirmation is consumed by one claim and one lease.
ReserveFill(p) ==
    LET r == R(p) IN
    /\ work[p].at = "fill"
    /\ FillAllowed(p) /\ log[r].sent = <<0, 0>>
    /\ log' = [log EXCEPT ![r].sent = <<work[p].epoch, run[r].lease>>]
    /\ Goes(p, "acquire")
    /\ UNCHANGED <<store, due, mem, world, crashes>>

Acquire(p) ==
    /\ work[p].at = "acquire"
    /\ StartAcquisition(R(p), State(p).epoch)
    /\ Goes(p, "fence")
    /\ UNCHANGED <<run, auth, journal, mem, world, crashes>>

\* The last fence before the browser; its login is fenced again.
LaunchFence(p) ==
    /\ work[p].at = "fence" /\ Uncancelled(p)
    /\ Goes(p, "launch")
    /\ UNCHANGED <<store, journal, mem, world, crashes>>

\* The browser starts, whatever has become of the run since the fence.
Launch(p) ==
    /\ work[p].at = "launch"
    /\ alive' = alive \cup {State(p).epoch}
    /\ Remembers(p, [State(p) EXCEPT !.st = "launched"])
    /\ Goes(p, "login")
    /\ UNCHANGED <<store, journal, sub, form, crashes>>

Login(p) ==
    /\ work[p].at = "login"
    /\ Uncancelled(p) /\ State(p).epoch \in alive
    /\ RecordAcquired(R(p), State(p).epoch)
    /\ Goes(p, "spawn")
    /\ UNCHANGED <<run, auth, journal, mem, world, crashes>>

\* assert_fill_stop_reservation: the barrier before the only input.
AssertFill(p) ==
    /\ work[p].at = "spawn"
    /\ FillAllowed(p) /\ log[R(p)].sent = <<work[p].epoch, run[R(p)].lease>>
    /\ Goes(p, "barred")
    /\ UNCHANGED <<store, journal, mem, world, crashes>>

\* Mutant: the inputs are fed to a new subprocess when the first one ended.
InputAgain(p) ==
    /\ work[p].at = "barred" \/ (work[p].at = "filling" /\ sub[R(p)] = "gone")
    /\ sub' = [sub EXCEPT ![R(p)] = "fed"]
    /\ Goes(p, "filling")
    /\ UNCHANGED <<store, journal, mem, alive, form, crashes>>

Input(p) ==
    /\ work[p].at = "barred"
    /\ sub' = [sub EXCEPT ![R(p)] = "fed"]
    /\ Goes(p, "filling")
    /\ UNCHANGED <<store, journal, mem, alive, form, crashes>>

\* The subprocess fills the form.
Fills(r) ==
    /\ sub[r] = "fed" /\ run[r].lease \in alive
    /\ sub' = [sub EXCEPT ![r] = "filling"]
    /\ form' = [form EXCEPT ![r] = @ + 1]
    /\ UNCHANGED <<store, journal, work, mem, alive, crashes>>

\* It ends: when it is done, told to stop, or by its own supervisor.
SubExits(r) ==
    /\ sub[r] \in {"fed", "filling"}
    /\ sub' = [sub EXCEPT ![r] = "gone"]
    /\ UNCHANGED <<store, journal, work, mem, alive, form, crashes>>

\* Mutant: the report is taken from a subprocess that still runs.
ReportSaysRunning(r) == {"unknown", IF form[r] = 0 THEN "not_sent" ELSE "acknowledged"}

\* _report: what the receipt file shows of the actions.  A subprocess that has
\* not been seen to exit, or left no valid receipt, shows nothing.
ReportSays(r) ==
    {"unknown"} \cup (IF sub[r] = "gone"
                      THEN {IF form[r] = 0 THEN "not_sent" ELSE "acknowledged"} ELSE {})

\* The subprocess has ended: its report is recorded.  A filled form, or one the
\* owner took over, is handed to the owner; a form filled for the initial
\* validation of the skill is the result itself.
Report(p) ==
    LET r == R(p) IN
    /\ work[p].at = "filling" /\ sub[r] = "gone"
    /\ \/ /\ form[r] > 0
          /\ RecordFillStop(p, "filled")
          /\ Goes(p, "seal") \/ Returns(p, "acknowledged", TRUE)
       \/ RecordFillStop(p, "takeover") /\ Goes(p, "seal")
       \/ \E e \in ReportSays(r) : RecordFillStop(p, "failed") /\ Returns(p, e, FALSE)
    /\ UNCHANGED <<store, due, mem, world, crashes>>

\* A fence refuses or something raises before the input: the execution is
\* stopped, and ends as failed or with an outcome that shows nothing sent.
PrepareFails(p) ==
    /\ work[p].at \in Preparing \ {"open", "barred"}
    /\ \/ Goes(p, "failed") /\ UNCHANGED log
       \/ Returns(p, "not_sent", FALSE) /\ UNCHANGED log
       \/ /\ State(p).st = "launched"
          /\ RecordFillStop(p, "failed") /\ Returns(p, "not_sent", FALSE)
    /\ UNCHANGED <<store, due, mem, world, crashes>>

\* After the input only a cancelled run, or one past its time, may rely on the
\* report; any other failure leaves the effect unknown.
FillFails(p) ==
    LET r == R(p) IN
    /\ work[p].at = "filling"
    /\ \/ Returns(p, "unknown", FALSE) /\ UNCHANGED log
       \/ \E e \in ReportSays(r) : RecordFillStop(p, "failed") /\ Returns(p, e, FALSE)
    /\ UNCHANGED <<store, due, mem, world, crashes>>

-----------------------------------------------------------------------------
(* Settling and sealing.                                                   *)

Failed(p) ==
    /\ work[p].at = "failed" /\ Mine(p)
    /\ UNCHANGED run /\ Reads(p, IF run[R(p)].cancel THEN "cancel" ELSE "fail")
    /\ UNCHANGED <<lease, auth, journal, mem, world, crashes>>

Settle(p) ==
    LET r == R(p) w == work[p] IN
    /\ w.at = "settle"
    /\ Advance(p, r, w.epoch, IF run[r].cancel THEN run[r].phase ELSE "verifying", w.effect)
    /\ Reads(p, IF w.verified THEN "persist" ELSE IF run[r].cancel THEN "cancel" ELSE "fail")
    /\ UNCHANGED <<lease, auth, journal, mem, world, crashes>>

Persist(p) ==
    /\ work[p].at = "persist" /\ Unmoved(p)
    /\ PersistVerified(p, R(p), work[p].epoch)
    /\ Reads(p, "complete")
    /\ UNCHANGED <<lease, auth, journal, mem, world, crashes>>

\* _seal_handoff, first part: a recorded cancel wins before the seal.
Seal(p) ==
    LET r == R(p) IN
    /\ work[p].at = "seal"
    /\ Advance(p, r, work[p].epoch, IF run[r].cancel THEN run[r].phase ELSE "verifying", "acknowledged")
    /\ Reads(p, IF run[r].cancel THEN "cancel" ELSE "enter")
    /\ UNCHANGED <<lease, auth, journal, mem, world, crashes>>

\* enter_handoff: the seal restates the recorded receipt.  The commit may not
\* be confirmed to the worker, which then gives the run up.
Enter(p) ==
    LET r == R(p) IN
    /\ work[p].at = "enter" /\ Unmoved(p)
    /\ Uncancelled(p) /\ run[r].lease # 0
    /\ run[r].phase \in {"running", "verifying"} /\ run[r].effect = "acknowledged" /\ ~run[r].verified
    /\ log[r].report \in {"filled", "takeover"} /\ ~log[r].sealed
    /\ log' = [log EXCEPT ![r].sealed = TRUE]
    /\ Update(r, [run[r] EXCEPT !.phase = "waiting_user"])
    /\ Turns(p, "hold", FALSE) \/ work' = [work EXCEPT ![p] = Idle]
    /\ UNCHANGED <<lease, auth, due, mem, world, crashes>>

\* The row has changed since: decide again on fresh facts, a few times.
Redecide(p) ==
    /\ work[p].at = "enter" /\ ~Unmoved(p)
    /\ work[p].tries + 1 < RedecideLimit
    /\ work' = [work EXCEPT ![p].at = "seal", ![p].tries = @ + 1]
    /\ UNCHANGED <<store, journal, mem, world, crashes>>

-----------------------------------------------------------------------------
(* Holding the window (_hold_handoff).                                     *)

\* finalize; the worker then cleans up.
Ends(p, status) ==
    /\ Finalize(p, R(p), work[p].epoch, status)
    /\ work' = [work EXCEPT ![p] = [Idle EXCEPT !.at = "cleanup", !.run = R(p), !.epoch = work[p].epoch,
                                                !.stop = work[p].stop,
                                                !.saw = <<run[R(p)].cancel, status, run[R(p)].cleanup>>]]

\* A verified result is durable; only the terminal write remains.
HoldCompletes(p) ==
    /\ work[p].at = "hold" /\ run[R(p)].verified
    /\ Ends(p, "completed")
    /\ UNCHANGED <<lease, auth, journal, mem, world, crashes>>

HoldCancels(p) ==
    /\ work[p].at = "hold" /\ Mine(p) /\ run[R(p)].cancel /\ ~run[R(p)].verified
    /\ UNCHANGED run /\ Reads(p, "cancel")
    /\ UNCHANGED <<lease, auth, journal, mem, world, crashes>>

\* The loop goes on while the lease is renewed and nobody cancelled.
Holding(p) ==
    /\ work[p].at = "hold" /\ Mine(p)
    /\ ~run[R(p)].verified /\ ~run[R(p)].cancel
    /\ BusinessLocked(R(p), State(p).epoch)

HoldCloses(p) ==
    /\ Holding(p) /\ State(p).epoch \notin alive
    /\ FinalizeHandoff(p, "window_closed")
    /\ UNCHANGED <<lease, auth, due, mem, world, crashes>>

HoldExpires(p) ==
    /\ Holding(p) /\ State(p).epoch \in alive
    /\ run[R(p)].phase = "waiting_user" /\ due[R(p)]
    /\ FinalizeHandoff(p, "deadline")
    /\ UNCHANGED <<lease, auth, due, mem, world, crashes>>

HoldChecks(p) ==
    /\ Holding(p) /\ State(p).epoch \in alive
    /\ run[R(p)].phase = "verifying"
    /\ Goes(p, "checking")
    /\ UNCHANGED <<store, journal, mem, world, crashes>>

\* Mutant: the answer of the check is written without another look at the row.
CheckedBlind(p) ==
    LET r == R(p) IN
    /\ work[p].at = "checking"
    /\ \E outcome \in CheckOutcomes :
         \/ /\ outcome = "verified"
            /\ PersistVerified(p, r, work[p].epoch)
         \/ /\ outcome # "verified" /\ Uncancelled(p)
            /\ run[r].phase = "verifying"
            /\ Update(r, [run[r] EXCEPT !.phase = "waiting_user"])
    /\ Goes(p, "hold")
    /\ UNCHANGED <<lease, auth, journal, mem, world, crashes>>

\* The check's answer: a cancel recorded in the meantime wins; a verified result
\* is persisted; any other answer gives the window back to the owner.
Checked(p) ==
    LET r == R(p) IN
    /\ work[p].at = "checking"
    /\ \/ /\ Mine(p) /\ run[r].cancel
          /\ UNCHANGED run /\ Reads(p, "cancel")
       \/ /\ "verified" \in CheckOutcomes /\ ~run[r].cancel
          /\ PersistVerified(p, r, work[p].epoch)
          /\ Goes(p, "hold")
       \/ /\ CheckOutcomes \ {"verified"} # {} /\ Uncancelled(p)
          /\ run[r].phase = "verifying" /\ run[r].effect = "acknowledged" /\ ~run[r].verified
          /\ Update(r, [run[r] EXCEPT !.phase = "waiting_user"])
          /\ Goes(p, "hold")
    /\ UNCHANGED <<lease, auth, journal, mem, world, crashes>>

Fail(p) ==
    /\ work[p].at = "fail" /\ Unmoved(p) /\ Ends(p, "failed")
    /\ UNCHANGED <<lease, auth, journal, mem, world, crashes>>

Complete(p) ==
    /\ work[p].at = "complete" /\ Unmoved(p) /\ Ends(p, "completed")
    /\ UNCHANGED <<lease, auth, journal, mem, world, crashes>>

-----------------------------------------------------------------------------
(* Cancelling.                                                             *)

\* stop: an execution of this claim is told to stop; without one, and without
\* a lease, there is nothing to stop.  Any other run cannot be stopped here.
Stop(p) ==
    LET r == R(p) IN
    /\ work[p].at = "cancel" /\ Mine(p)
    /\ \/ State(p).st = "none" /\ run[r].lease = 0
       \/ State(p).st # "none" /\ State(p).claim = work[p].epoch
    /\ Goes(p, "stopped")
    /\ UNCHANGED <<store, journal, mem, world, crashes>>

\* Mutant: a subprocess that was told to stop counts as stopped.
CancelProvenTold(p) == State(p).st # "none" /\ State(p).claim = work[p].epoch

\* check_cancel: the subprocess has exited.
CancelProven(p) ==
    /\ State(p).st # "none" /\ State(p).claim = work[p].epoch
    /\ sub[R(p)] \in {"none", "gone"}

Acknowledge(p) ==
    LET r == R(p) IN
    /\ work[p].at = "stopped"
    /\ Mine(p) /\ run[r].cancel
    /\ \/ NoRunResource(r) /\ State(p).st \in {"none", "open", "claimed"}
       \/ CancelProven(p)
    /\ Update(r, [run[r] EXCEPT !.ack = TRUE])
    /\ Reads(p, "acked")
    /\ UNCHANGED <<lease, auth, journal, mem, world, crashes>>

EndCancelled(p) ==
    /\ work[p].at = "acked" /\ Unmoved(p)
    /\ Ends(p, IF run[R(p)].effect = "unknown" THEN "failed" ELSE "cancelled")
    /\ UNCHANGED <<lease, auth, journal, mem, world, crashes>>

\* An exception, and in the hold also lost authority, leaves the run active.
Abort(p) ==
    /\ work[p].at \in Deciding \cup {"open"}
    /\ IF work[p].stop THEN Turns(p, "cleanup", TRUE) ELSE work' = [work EXCEPT ![p] = Idle]
    /\ UNCHANGED <<store, journal, mem, world, crashes>>

-----------------------------------------------------------------------------
(* Cleaning up (DFormRuntime.cleanup).                                     *)

\* Mutant: the lease is given back while the owner's window is still open.
CleanLaunchedOpen(p, outcome) ==
    LET e == State(p).epoch IN
    /\ State(p).st = "launched" /\ LeaseOf(R(p), e)
    /\ outcome = "released" /\ LeaseCleanup(TRUE)
    /\ Remembers(p, [State(p) EXCEPT !.st = "released"])
    /\ UNCHANGED alive

\* The window of a terminal run is closed once its subprocess has exited; the
\* lease is released if nothing is attached any more.  An active run's window
\* stays open and its lease is quarantined.
CleanLaunched(p, outcome) ==
    LET e == State(p).epoch IN
    /\ State(p).st = "launched" /\ LeaseOf(R(p), e)
    /\ \/ /\ run[R(p)].phase \in Terminal /\ sub[R(p)] \in {"none", "gone"}
          /\ alive' = alive \ {e}
          /\ outcome \in {"released", "quarantined"} /\ LeaseCleanup(outcome = "released")
          /\ IF outcome = "released" THEN Remembers(p, [State(p) EXCEPT !.st = "released"])
                                     ELSE UNCHANGED mem
       \/ /\ run[R(p)].phase \notin Terminal
          /\ outcome = "quarantined" /\ LeaseCleanup(FALSE)
          /\ UNCHANGED <<alive, mem>>

\* A claim whose browser was not started.
CleanClaimed(p, outcome) ==
    /\ State(p).st = "claimed" /\ LeaseOf(R(p), State(p).epoch)
    /\ LeaseCleanup(FALSE)
    /\ outcome = IF Releases(FALSE) THEN "released" ELSE "quarantined"
    /\ IF outcome = "released" THEN Remembers(p, [State(p) EXCEPT !.st = "released"]) ELSE UNCHANGED mem
    /\ UNCHANGED alive

\* Without a claim in memory no lease is touched: nothing is known of it.
CleanUnknown(p, outcome) ==
    /\ State(p).st \in {"none", "open", "released"}
    /\ outcome = IF State(p).st = "none" /\ run[R(p)].lease # 0 THEN "quarantined" ELSE "released"
    /\ UNCHANGED <<lease, alive, mem>>

CleanupWork == {"cleanup", "pass"}

Cleanup(p) ==
    /\ work[p].at \in CleanupWork
    /\ \E outcome \in {"released", "quarantined"} :
         /\ CleanLaunched(p, outcome) \/ CleanClaimed(p, outcome) \/ CleanUnknown(p, outcome)
         /\ work' = [work EXCEPT ![p].at = "record", ![p].outcome = outcome]
    /\ UNCHANGED <<run, auth, journal, sub, form, crashes>>

\* cleanup_check: what proves the outcome.
CleanupProven(p, outcome) ==
    LET r == R(p) IN
    \/ outcome = "released" /\ NoRunResource(r) /\ State(p).st \in {"none", "open", "claimed"}
    \/ /\ outcome = "released" /\ State(p).st = "released"
       /\ lease.state = "released" /\ lease.epoch = State(p).epoch
    \/ outcome = "quarantined" /\ LeaseOf(r, lease.epoch)

\* The process that was told to stop leaves, and its browsers with it.
Leaves(p) ==
    /\ work' = [work EXCEPT ![p] = Idle]
    /\ IF work[p].stop
       THEN /\ mem' = [mem EXCEPT ![p] = [r \in Runs |-> NoState]]
            /\ alive' = alive \ {mem[p][r].epoch : r \in Runs}
       ELSE UNCHANGED <<mem, alive>>

Record(p) ==
    LET r == R(p) w == work[p] IN
    /\ w.at = "record"
    /\ run[r].epoch = w.epoch /\ Unmoved(p) /\ CleanupProven(p, w.outcome)
    /\ RecordCleanup(r, w.outcome)
    /\ Leaves(p)
    /\ UNCHANGED <<lease, auth, journal, sub, form, crashes>>

CleanupFails(p) ==
    /\ work[p].at \in CleanupWork \cup {"record"}
    /\ Leaves(p)
    /\ UNCHANGED <<store, journal, sub, form, crashes>>

-----------------------------------------------------------------------------
(* The cleanup pass (cleanup_ready, _cleanup_row).                         *)

\* Mutant: only a passed deadline closes a handoff that lost its holder.
ExpiryReasonDeadline(r) == IF due[r] /\ auth[r] THEN "deadline" ELSE "none"

\* check_handoff_expiry of a run whose claim has lapsed.
ExpiryReason(r) == IF ~auth[r] THEN "authority_lost" ELSE IF due[r] THEN "deadline" ELSE "none"

CleanupReady(r) ==
    /\ run[r].cleanup \notin {"released", "terminated"}
    /\ \/ run[r].phase \in Terminal
       \/ Active(r) /\ ~run[r].live /\ ~auth[r]
       \/ Recoverable(r) /\ ~run[r].live /\ due[r]

\* expire_lost_handoff closes a sealed handoff without its holder, and the
\* pass goes on to clean up after it.
CleanupPass(p, r) ==
    /\ work[p] = Idle /\ CleanupReady(r)
    /\ IF Recoverable(r)
       THEN ExpiryReason(r) # "none" /\ CloseHandoff(r, ExpiryReason(r))
       ELSE UNCHANGED <<run, log>>
    /\ work' = [work EXCEPT ![p] = [Idle EXCEPT !.at = "pass", !.run = r, !.epoch = run[r].epoch,
                                                !.saw = <<run[r].cancel, run'[r].phase, run[r].cleanup>>]]
    /\ UNCHANGED <<lease, auth, due, mem, world, crashes>>

\* record_historical_handoff_quarantine: the binding has been renewed since, and
\* this process cannot hold a resource of the old one.
QuarantineHistorical(p) ==
    LET r == R(p) IN
    /\ work[p].at = "pass" /\ ~auth[r]
    /\ run[r].phase \in Terminal /\ log[r].closed # "none"
    /\ run[r].cleanup \notin {"released", "terminated"}
    /\ Update(r, [run[r] EXCEPT !.cleanup = "quarantined"])
    /\ work' = [work EXCEPT ![p] = Idle]
    /\ UNCHANGED <<lease, auth, journal, mem, world, crashes>>

-----------------------------------------------------------------------------
(* Shutdown, death, time.                                                  *)

\* The task of the worker is cancelled where it awaits.
Interrupt(p) ==
    /\ work[p].at \in (Preparing \ {"launch", "barred"}) \cup {"filling"} \cup Deciding
    /\ ~work[p].stop /\ crashes < MaxCrashes
    /\ Turns(p, "interrupted", TRUE)
    /\ crashes' = crashes + 1
    /\ UNCHANGED <<store, journal, mem, world>>

\* _settle_interrupted.
SettleInterrupted(p) ==
    LET r == R(p) IN
    /\ work[p].at = "interrupted" /\ Mine(p)
    /\ \/ /\ Recoverable(r)
          /\ FinalizeHandoff(p, "interrupted")
       \/ /\ ~Recoverable(r) /\ run[r].verified
          /\ UNCHANGED <<run, log>> /\ Reads(p, "complete")
       \/ /\ ~Recoverable(r) /\ ~run[r].verified
          /\ IF MayHaveStarted(r) THEN Advance(p, r, work[p].epoch, run[r].phase, "unknown")
                                  ELSE UNCHANGED run
          /\ Reads(p, IF run[r].cancel THEN "cancel" ELSE "fail") /\ UNCHANGED log
    /\ UNCHANGED <<lease, auth, due, mem, world, crashes>>

\* KILL_ON_JOB_CLOSE: the browser goes with the process.
Crash(p) ==
    /\ crashes < MaxCrashes
    /\ work[p] # Idle \/ \E r \in Runs : mem[p][r] # NoState
    /\ work' = [work EXCEPT ![p] = Idle]
    /\ mem' = [mem EXCEPT ![p] = [r \in Runs |-> NoState]]
    /\ alive' = alive \ {mem[p][r].epoch : r \in Runs}
    /\ crashes' = crashes + 1
    /\ UNCHANGED <<store, journal, sub, form>>

\* The deadline lies before the end of the owner's session.
HandoffDue(r) ==
    /\ log[r].sealed /\ Active(r) /\ ~due[r]
    /\ due' = [due EXCEPT ![r] = TRUE]
    /\ UNCHANGED <<store, log, work, mem, world, crashes>>

Lapses(r) == ClaimLapses(r) /\ UNCHANGED <<journal, work, mem, world, crashes>>

Passes(r) == AuthorityLost(r) /\ UNCHANGED <<journal, work, mem, world, crashes>>

Moves(p) ==
    \/ Begin(p) \/ Open(p) \/ Reserve(p) \/ Attach(p) \/ StartExecution(p) \/ ReserveFill(p)
    \/ Acquire(p) \/ LaunchFence(p) \/ Launch(p) \/ Login(p) \/ AssertFill(p) \/ Input(p) \/ PrepareFails(p)
    \/ Report(p) \/ FillFails(p) \/ Failed(p) \/ Settle(p) \/ Persist(p)
    \/ Seal(p) \/ Enter(p) \/ Redecide(p)
    \/ HoldCompletes(p) \/ HoldCancels(p) \/ HoldCloses(p) \/ HoldExpires(p) \/ HoldChecks(p)
    \/ Checked(p) \/ Fail(p) \/ Complete(p)
    \/ Stop(p) \/ Acknowledge(p) \/ EndCancelled(p) \/ Abort(p) \/ SettleInterrupted(p)
    \/ Cleanup(p) \/ Record(p) \/ CleanupFails(p) \/ QuarantineHistorical(p)

Next ==
    \/ \E r \in Runs : \/ Accept(r) \/ Cancel(r) \/ RequestCheck(r)
                       \/ Fills(r) \/ SubExits(r) \/ HandoffDue(r) \/ Lapses(r) \/ Passes(r)
    \/ \E e \in LeaseEpochs : WindowCloses(e)
    \/ \E p \in Procs, r \in Runs : Claim(p, r) \/ CleanupPass(p, r)
    \/ \E p \in Procs : Moves(p) \/ Interrupt(p) \/ Crash(p)

\* Nobody is left who would renew the claim of r.
Deserted(r) == \A p \in Procs : work[p].run = r => work[p].epoch # run[r].epoch

\* A worker goes on; a claim nobody renews lapses; time passes; and every
\* process makes its cleanup passes, between which it does other work.
Fairness ==
    /\ \A p \in Procs : WF_vars(Moves(p))
    /\ \A r \in Runs : /\ WF_vars(Deserted(r) /\ Lapses(r))
                       /\ WF_vars(HandoffDue(r))
    /\ \A p \in Procs, r \in Runs : SF_vars(CleanupPass(p, r))

Spec == Init /\ [][Next]_vars

FairSpec == Spec /\ Fairness

-----------------------------------------------------------------------------

\* Whatever stalls, crashes and new claims there are, the confirmed inputs are
\* fed to one subprocess only, so the form is filled at most once.
FilledOnce == \A r \in Runs : form[r] <= 1

\* A terminal run that says nothing was sent has an untouched form, and no
\* subprocess that could still fill it; a sealed handoff that was not taken
\* over by the owner shows a filled form.
FillTold ==
    \A r \in Runs :
        /\ run[r].phase \in Terminal /\ run[r].effect = "not_sent" => form[r] = 0 /\ sub[r] # "fed"
        /\ log[r].sealed /\ log[r].report = "filled" => form[r] = 1

\* Once the window is the owner's, or the owner's cancel is acknowledged, no
\* subprocess works in it.
OwnerAlone ==
    \A r \in Runs : log[r].sealed \/ run[r].ack => sub[r] \notin {"fed", "filling"}

\* A window that is open keeps the binding: its lease is held or quarantined.
WindowKeepsBinding == \A e \in alive : lease.epoch = e /\ lease.state # "released"

\* One verdict ends a handoff: a terminal row and its close event never change,
\* and a recorded cancel is overtaken neither by the seal, whatever row the
\* worker decided on (enter_handoff), nor by the answer of the check.
OneVerdict ==
    [][\A r \in Runs :
          /\ run[r].phase \in Terminal => run'[r].phase = run[r].phase /\ log'[r].closed = log[r].closed
          /\ run[r].cancel => log'[r].sealed = log[r].sealed
          /\ log[r].sealed /\ run[r].cancel => run'[r].verified = run[r].verified]_vars

\* A sealed handoff does not wait for ever, whatever becomes of its holder and
\* of the owner's session: it ends, or its check has verified the result.  (A
\* cleanup recorded too early hides the run from the cleanup pass for good.)
SealedCloses ==
    \A r \in Runs : log[r].sealed /\ run[r].cleanup \notin {"released", "terminated"}
                      ~> run[r].phase \in Terminal \/ run[r].verified
====
