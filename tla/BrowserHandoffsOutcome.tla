----------------------- MODULE BrowserHandoffsOutcome -----------------------
(***************************************************************************)
(* FillTold, OneVerdict and WindowKeepsBinding hold of BrowserHandoffs for *)
(* any number of runs, processes, claims and deaths.                       *)
(*                                                                         *)
(* The argument: a worker that sends, reports, seals or holds is the one   *)
(* whose claim consumed the confirmation.  A worker under the current      *)
(* claim that comes to an end without a trace of a sent form has either    *)
(* never passed the barrier or seen its subprocess exit, and nobody else   *)
(* can pass it any more.  The sealing worker is the reporting one, so no   *)
(* other verdict is on its way when a handoff is sealed.  And a browser    *)
(* lives only under the last lease, which is neither released nor a mere   *)
(* reservation.                                                            *)
(***************************************************************************)
EXTENDS BrowserHandoffsProofs

-----------------------------------------------------------------------------
(* What the rows and the workers tell of the form.                         *)

\* The form of r is untouched and stays so.
Clear(r) ==
    /\ form[r] = 0 /\ sub[r] \in {"none", "gone"}
    /\ \A q \in Procs : work[q].run = r => work[q].at # "barred"

\* A worker after its claim has consumed the confirmation.
Sending == Late \cup {"filling", "seal", "enter", "hold", "checking", "persist"}

Verifies(p) == work[p].at = "persist" \/ (work[p].at = "settle" /\ work[p].verified)

\* A worker on its way to a terminal row.
Ending == {"failed", "fail", "cancel", "stopped", "acked"}

Current(p) == work[p].epoch = run[work[p].run].epoch

RowTold(r) ==
    /\ run[r].phase \in Terminal /\ run[r].effect = "not_sent" => Clear(r)
    /\ log[r].sealed \/ run[r].verified => run[r].effect # "not_sent"
    /\ log[r].sealed => log[r].report # "none"
    /\ log[r].report = "filled" => form[r] = 1

WorkerTold(p) ==
    LET w == work[p] r == work[p].run IN
    /\ w.at \in Sending \/ Verifies(p) => Sent(r) = w.epoch
    /\ w.at \in Ending /\ Current(p) /\ run[r].effect = "not_sent" => Clear(r)
    /\ w.at = "settle" /\ Current(p) /\ w.effect = "not_sent" => Clear(r)
    /\ w.at = "settle" /\ w.verified => w.effect # "not_sent"
    /\ w.at \in {"enter", "persist"} => run[r].effect # "not_sent"
    /\ w.at \in {"hold", "checking"} => log[r].sealed
    /\ Verifies(p) => ~log[r].sealed

Told ==
    /\ \A r \in Runs : RowTold(r)
    /\ \A p \in Procs : WorkerTold(p)

-----------------------------------------------------------------------------
(* The lease of an open window.                                            *)

\* A worker that knows the lease it reserved, and one that has attached it.
Knowing == {"attach", "start", "fill", "acquire", "fence", "launch"}

Attached == {"start", "fill", "acquire", "fence", "launch"}

\* What such a worker knows is true.  The lease has ceased to be a mere reservation
\* before the fence, and what the fence found holds until the browser is started.
Known(p) ==
    LET e == mem[p][work[p].run].epoch IN
    /\ work[p].at \in Knowing => e # 0
    /\ work[p].at \in Attached => run[work[p].run].lease = e
    /\ work[p].at = "fence" /\ lease.epoch = e /\ lease.state # "released"
         => lease.phase # "reservation_only"
    /\ work[p].at = "launch"
         => /\ lease.run = work[p].run /\ lease.epoch = e
            /\ lease.state # "released" /\ lease.phase # "reservation_only"

\* A lease is known to one process.
Sole ==
    \A p, q \in Procs, r \in Runs :
        mem[p][r].epoch = mem[q][r].epoch => mem[p][r].epoch = 0 \/ p = q

Binding ==
    /\ DOMAIN lease = DOMAIN NoLease /\ lease.epoch \in Nat
    /\ \A p \in Procs, r \in Runs : mem[p][r].epoch \in Nat /\ mem[p][r].epoch <= lease.epoch
    /\ \A p \in Procs : Known(p)
    /\ Sole
    /\ \A e \in alive :
         lease.epoch = e /\ lease.state # "released" /\ lease.phase # "reservation_only"

-----------------------------------------------------------------------------
(* Steps that leave the form alone.                                        *)

USE DEF journal, world, store

\* What such a step may do to a run: its claim, its confirmation and its form
\* stay; it becomes terminal or verified, and gets a report, only with reason.
RowMoves(r) ==
    /\ run'[r].epoch = run[r].epoch /\ log'[r].sent = log[r].sent
    /\ sub'[r] = sub[r] /\ form'[r] = form[r] /\ log'[r].sealed = log[r].sealed
    /\ run[r].effect # "not_sent" => run'[r].effect # "not_sent"
    /\ run'[r].phase \in Terminal /\ run'[r].effect = "not_sent"
         => Clear(r) \/ (run[r].phase \in Terminal /\ run[r].effect = "not_sent")
    /\ run'[r].verified => run[r].verified \/ run'[r].effect # "not_sent"
    /\ \/ log'[r].report = log[r].report
       \/ log'[r].report # "none" /\ (log'[r].report = "filled" => form[r] = 1)

\* What a step may do to the verdict of a run.
Verdict(r) ==
    /\ run[r].phase \in Terminal => run'[r].phase = run[r].phase /\ log'[r].closed = log[r].closed
    /\ run[r].cancel => log'[r].sealed = log[r].sealed
    /\ log[r].sealed /\ run[r].cancel => run'[r].verified = run[r].verified

Tells == \A r \in Runs : RowMoves(r) /\ Verdict(r)

Verdicts == \A r \in Runs : Verdict(r)

\* Where a worker may arrive.
Arrives(p, at) ==
    LET r == work[p].run IN
    \/ at \notin Sending \cup Ending \cup {"settle"}
    \/ /\ r \in Runs /\ at \in Ending
       /\ Current(p) /\ run'[r].effect = "not_sent" => Clear(r)
    \/ /\ r \in Runs /\ at \in Sending \ {"barred"} /\ Sent(r) = work[p].epoch
       /\ at \in {"enter", "persist"} => run'[r].effect # "not_sent"
       /\ at \in {"hold", "checking"} => log[r].sealed
       /\ at = "persist" => ~log[r].sealed

\* The places where something is told are places of work.
LEMMA Places ==
    /\ Sending \subseteq Working /\ Ending \subseteq Working
    /\ {"settle", "enter", "persist", "hold", "checking", "barred"} \subseteq Working
    /\ {"barred", "enter", "persist", "hold", "checking"} \subseteq Sending
    /\ Sending \cap (Ending \cup {"settle", "idle", "pass"}) = {}
    /\ Ending \cap {"barred", "settle", "enter", "persist", "hold", "checking", "idle", "pass"} = {}
BY DEF Sending, Ending, Working, Early, Late, Deciding

LEMMA ClearStays ==
    ASSUME NEW r \in Runs, RowMoves(r), Clear(r),
           \A q \in Procs : work'[q].at = "barred" => work'[q] = work[q]
    PROVE  Clear(r)'
BY Zenon DEF RowMoves, Clear

\* What was told of runs and by workers that do not move stays true.
LEMMA StillTold ==
    ASSUME IInv, Told, Tells, \A q \in Procs : work'[q].at = "barred" => work'[q] = work[q]
    PROVE  /\ \A r \in Runs : RowTold(r)'
           /\ \A q \in Procs : work'[q] = work[q] => WorkerTold(q)'
<1>1. ASSUME NEW r \in Runs PROVE RowTold(r)'
  <2>1. RowTold(r) /\ RowMoves(r)  BY Zenon DEF Told, Tells
  <2>2. Clear(r) => Clear(r)'  BY Zenon, <2>1, ClearStays
  <2> QED  BY Zenon, <2>1, <2>2 DEF RowTold, RowMoves
<1>2. ASSUME NEW q \in Procs, work'[q] = work[q] PROVE WorkerTold(q)'
  <2>0. PICK r : r = work[q].run  BY Zenon
  <2>1. WorkerTold(q)  BY Zenon DEF Told
  <2>2. CASE work[q].at \in Working
    <3>1. r \in Runs  BY Zenon, <2>0, <2>2 DEF IInv, Claims
    <3>2. RowMoves(r)  BY Zenon, <3>1 DEF Tells
    <3>3. Clear(r) => Clear(r)'  BY Zenon, <3>1, <3>2, ClearStays
    <3>4. work'[q].run = r /\ Current(q)' = Current(q) /\ Verifies(q)' = Verifies(q) /\ Sent(r)' = Sent(r)
      BY Zenon, <1>2, <2>0, <3>2 DEF Current, Verifies, Sent, RowMoves
    <3> QED  BY Zenon, <1>2, <2>0, <2>1, <3>2, <3>3, <3>4 DEF WorkerTold, RowMoves
  <2>3. CASE work[q].at \notin Working
    BY Zenon, <1>2, <2>3, Places DEF WorkerTold, Verifies
  <2> QED  BY Zenon, <2>2, <2>3
<1> QED  BY Zenon, <1>1, <1>2

\* A worker arrives where it may, rests, or nobody moves.
LEMMA ArrivalTold ==
    ASSUME IInv, Told, Tells, NEW p \in Procs, NEW at, MovesTo(p, at), Arrives(p, at)
    PROVE  Told' /\ Verdicts
<1>1. at # "barred" /\ \A q \in Procs : work'[q].at = "barred" => work'[q] = work[q]
  BY Zenon, Places DEF MovesTo, Arrives
<1>0. PICK r : r = work[p].run  BY Zenon
<1>2. WorkerTold(p)'
  <2>1. work'[p].at = at /\ work'[p].run = r /\ work'[p].epoch = work[p].epoch
    BY Zenon, <1>0 DEF MovesTo
  <2>2. CASE at \notin Sending \cup Ending \cup {"settle"}
    BY Zenon, <2>1, <2>2, Places DEF WorkerTold, Verifies
  <2>3. CASE at \in Ending /\ r \in Runs /\ (Current(p) /\ run'[r].effect = "not_sent" => Clear(r))
    <3>1. RowMoves(r)  BY Zenon, <2>3 DEF Tells
    <3>2. Clear(r) => Clear(r)'  BY Zenon, <1>1, <2>3, <3>1, ClearStays
    <3>3. Current(p)' => Current(p)  BY Zenon, <1>0, <2>1, <3>1 DEF Current, RowMoves
    <3> QED  BY Zenon, <1>0, <2>1, <2>3, <3>2, <3>3, Places DEF WorkerTold, Verifies
  <2>4. CASE /\ r \in Runs /\ at \in Sending \ {"barred"} /\ Sent(r) = work[p].epoch
             /\ at \in {"enter", "persist"} => run'[r].effect # "not_sent"
             /\ at \in {"hold", "checking"} => log[r].sealed
             /\ at = "persist" => ~log[r].sealed
    <3>1. RowMoves(r)  BY Zenon, <2>4 DEF Tells
    <3>2. Sent(r)' = Sent(r) /\ log'[r].sealed = log[r].sealed  BY Zenon, <3>1 DEF Sent, RowMoves
    <3> QED  BY Zenon, <1>0, <2>1, <2>4, <3>2, Places DEF WorkerTold, Verifies
  <2> QED  BY Zenon, <1>0, <2>2, <2>3, <2>4 DEF Arrives
<1> QED  BY Zenon, <1>1, <1>2, StillTold DEF Told, MovesTo, Tells, Verdicts

LEMMA RestTold ==
    ASSUME IInv, Told, Tells, NEW p \in Procs, Rests(p)
    PROVE  Told' /\ Verdicts
<1>1. \A q \in Procs : work'[q].at = "barred" => work'[q] = work[q]
  BY Zenon DEF Rests
<1>2. WorkerTold(p)'
  BY Zenon, Places DEF Rests, WorkerTold, Verifies
<1> QED  BY Zenon, <1>1, <1>2, StillTold DEF Told, Rests, Tells, Verdicts

LEMMA NobodyTold ==
    ASSUME IInv, Told, Tells, work' = work
    PROVE  Told' /\ Verdicts
BY Zenon, StillTold DEF Told, Tells, Verdicts

\* An execution returns what it knows of the form.
LEMMA ReturnTold ==
    ASSUME IInv, Told, Tells, NEW p \in Procs, work[p].run \in Runs,
           NEW effect, NEW verified, Returns(p, effect, verified),
           effect = "not_sent" /\ Current(p) => Clear(work[p].run),
           verified => /\ effect # "not_sent" /\ Sent(work[p].run) = work[p].epoch
                       /\ ~log[work[p].run].sealed
    PROVE  Told' /\ Verdicts
<1>0. PICK r : r = work[p].run  BY Zenon
<1>1. MovesTo(p, "settle")  BY Zenon, WorkWrites
<1>2. work'[p].effect = effect /\ work'[p].verified = verified
  BY Zenon DEF Returns, IInv, WorkShape, Idle
<1>3. \A q \in Procs : work'[q].at = "barred" => work'[q] = work[q]
  BY Zenon, <1>1 DEF MovesTo
<1>4. r \in Runs /\ RowMoves(r)  BY Zenon, <1>0 DEF Tells
<1>5. Clear(r) => Clear(r)'  BY Zenon, <1>3, <1>4, ClearStays
<1>6. WorkerTold(p)'
  <2>1. work'[p].at = "settle" /\ work'[p].run = r /\ work'[p].epoch = work[p].epoch
    BY Zenon, <1>0, <1>1 DEF MovesTo
  <2>2. Sent(r)' = Sent(r) /\ log'[r].sealed = log[r].sealed  BY Zenon, <1>4 DEF Sent, RowMoves
  <2>3. Current(p)' => Current(p)  BY Zenon, <1>0, <2>1, <1>4 DEF Current, RowMoves
  <2> QED  BY Zenon, <1>0, <1>2, <1>5, <2>1, <2>2, <2>3, Places DEF WorkerTold, Verifies
<1> QED  BY Zenon, <1>1, <1>3, <1>6, StillTold DEF Told, MovesTo, Tells, Verdicts

-----------------------------------------------------------------------------
(* When a form is untouched.                                               *)

\* Nothing is fed before the confirmation is consumed.
LEMMA UnsentClear ==
    ASSUME IInv, NEW r \in Runs, Sent(r) = 0
    PROVE  Clear(r)
<1>1. sub[r] = "none" /\ form[r] = 0  BY Zenon DEF IInv, Fed
<1>2. ASSUME NEW q \in Procs, work[q].run = r, work[q].at = "barred" PROVE FALSE
  <2>1. work[q].epoch = 0  BY Zenon, <1>2 DEF IInv, Consumed
  <2>2. 0 < work[q].epoch  BY Zenon, <1>2, Places DEF IInv, Claims
  <2> QED  BY <2>1, <2>2
<1> QED  BY Zenon, <1>1, <1>2 DEF Clear

\* A run that has not come to running has consumed nothing.
LEMMA BeforeClear ==
    ASSUME IInv, NEW r \in Runs, run[r].phase \in Before
    PROVE  Clear(r)
BY Zenon, UnsentClear DEF IInv, Consumed

\* Under the current claim, an execution that has not consumed the confirmation
\* finds it unconsumed.
LEMMA EarlyClear ==
    ASSUME IInv, NEW p \in Procs, work[p].at \in Early, Current(p)
    PROVE  Clear(work[p].run)
<1>1. work[p].run \in Runs  BY Zenon DEF IInv, Claims, Working
<1>2. /\ work[p].epoch = run[work[p].run].epoch /\ work[p].epoch \in Nat
      /\ Sent(work[p].run) \in Nat /\ Sent(work[p].run) <= run[work[p].run].epoch
      /\ Sent(work[p].run) = 0 \/ work[p].epoch < Sent(work[p].run)
  BY Zenon, <1>1 DEF IInv, Claims, Consumed, Current, Working
<1>3. Sent(work[p].run) = 0  BY <1>2
<1> QED  BY Zenon, <1>1, <1>3, UnsentClear

\* Nobody but the worker whose claim consumed the confirmation is behind the
\* barrier.
LEMMA SenderAlone ==
    ASSUME IInv, NEW p \in Procs, work[p].at \in Working, Sent(work[p].run) = work[p].epoch,
           NEW q \in Procs, work[q].at = "barred", work[q].run = work[p].run
    PROVE  q = p
BY Zenon, Places DEF IInv, Claims, Consumed

\* An execution that stops before the barrier leaves the form untouched.
LEMMA LateClear ==
    ASSUME IInv, Told, NEW p \in Procs, work[p].at \in Late \ {"barred"}
    PROVE  Clear(work[p].run)
<1>1. work[p].at \in Working /\ work[p].run \in Runs
  BY Zenon DEF IInv, Claims, Working
<1>2. Sent(work[p].run) = work[p].epoch
  BY Zenon DEF Told, WorkerTold, Sending
<1>3. sub[work[p].run] = "none" /\ form[work[p].run] = 0
  BY Zenon, <1>1, <1>2 DEF IInv, Fed
<1> QED  BY Zenon, <1>1, <1>2, <1>3, SenderAlone DEF Clear

\* So does one whose subprocess has exited without a fill.
LEMMA FillingClear ==
    ASSUME IInv, Told, NEW p \in Procs, work[p].at = "filling",
           sub[work[p].run] = "gone", form[work[p].run] = 0
    PROVE  Clear(work[p].run)
<1>1. work[p].at \in Working /\ work[p].at \in Sending  BY Zenon DEF Working, Sending
<1>2. Sent(work[p].run) = work[p].epoch
  BY Zenon, <1>1 DEF Told, WorkerTold
<1> QED  BY Zenon, <1>1, <1>2, SenderAlone DEF Clear

-----------------------------------------------------------------------------
(* The ways to write a run's row and its journal.                          *)

\* A row whose claim and effect stay and that does not become terminal.
LEMMA RowTells ==
    ASSUME IInv, NEW r \in Runs, log' = log, sub' = sub, form' = form,
           NEW row, run' = [run EXCEPT ![r] = row],
           row.epoch = run[r].epoch,
           run[r].effect # "not_sent" => row.effect # "not_sent",
           \/ row.phase = run[r].phase /\ row.effect = run[r].effect
           \/ row.phase = run[r].phase /\ run[r].phase \notin Terminal
           \/ run[r].phase \notin Terminal /\ (row.phase \in Terminal /\ row.effect = "not_sent" => Clear(r)),
           \/ row.verified = run[r].verified
           \/ row.effect # "not_sent" /\ ~(log[r].sealed /\ run[r].cancel)
    PROVE  Tells
<1>1. run'[r] = row /\ \A x \in Runs \ {r} : run'[x] = run[x]
  BY Zenon DEF IInv, RowShape
<1>2. RowMoves(r) /\ Verdict(r)  BY Zenon, <1>1 DEF RowMoves, Verdict
<1>3. \A x \in Runs \ {r} : RowMoves(x) /\ Verdict(x)  BY Zenon, <1>1 DEF RowMoves, Verdict
<1> QED  BY Zenon, <1>2, <1>3 DEF Tells

LEMMA SameTells ==
    ASSUME run' = run, log' = log, sub' = sub, form' = form
    PROVE  Tells
BY Zenon DEF Tells, RowMoves, Verdict

LEMMA ActiveRuns == ActivePhases \cap Terminal = {} /\ "none" \notin Terminal
BY DEF ActivePhases, Terminal

LEMMA AdvanceTells ==
    ASSUME IInv, NEW r \in Runs, log' = log, sub' = sub, form' = form,
           NEW p, NEW e, NEW phase, NEW effect, Advance(p, r, e, phase, effect)
    PROVE  Tells /\ run'[r].effect = effect
<1> DEFINE row == [run[r] EXCEPT !.phase = phase, !.effect = effect]
<1>1. run' = [run EXCEPT ![r] = row] /\ AdvanceAllowed(r, phase, effect) /\ Active(r)
  BY Zenon DEF Advance, Update, Fenced, Claimed
<1>2. /\ row.epoch = run[r].epoch /\ row.phase = phase /\ row.effect = effect
      /\ row.verified = run[r].verified
  BY Zenon DEF IInv, RowShape, NoRun
<1>3. run[r].phase \notin Terminal  BY Zenon, <1>1, ActiveRuns DEF Active
<1>4. phase \notin Terminal
  BY <1>1, <1>3 DEF AdvanceAllowed, Terminal
<1>5. run[r].effect # "not_sent" => effect # "not_sent"  BY Zenon, <1>1 DEF AdvanceAllowed
<1> HIDE DEF row
<1>6. run'[r] = row  BY Zenon, <1>1 DEF IInv, RowShape
<1> QED  BY Zenon, <1>1, <1>2, <1>3, <1>4, <1>5, <1>6, RowTells

LEMMA PersistTells ==
    ASSUME IInv, NEW r \in Runs, log' = log, sub' = sub, form' = form,
           NEW p, NEW e, PersistVerified(p, r, e),
           run[r].effect # "not_sent", ~(log[r].sealed /\ run[r].cancel)
    PROVE  Tells
<1> DEFINE row == [run[r] EXCEPT !.verified = TRUE, !.phase = "verifying"]
<1>1. run' = [run EXCEPT ![r] = row] /\ Active(r)
  BY Zenon DEF PersistVerified, Update, Fenced, Claimed
<1>2. row.epoch = run[r].epoch /\ row.phase = "verifying" /\ row.effect = run[r].effect
  BY Zenon DEF IInv, RowShape, NoRun
<1>3. run[r].phase \notin Terminal /\ "verifying" \notin Terminal
  BY Zenon, <1>1, ActiveRuns DEF Active, ActivePhases
<1> HIDE DEF row
<1> QED  BY Zenon, <1>1, <1>2, <1>3, RowTells

LEMMA FinalizeTells ==
    ASSUME IInv, NEW r \in Runs, log' = log, sub' = sub, form' = form,
           NEW p, NEW e, NEW status, Finalize(p, r, e, status),
           run[r].effect = "not_sent" => Clear(r)
    PROVE  Tells
<1> DEFINE row == [run[r] EXCEPT !.phase = status]
<1>1. run' = [run EXCEPT ![r] = row] /\ Active(r)
  BY Zenon DEF Finalize, Update, Claimed
<1>2. row.epoch = run[r].epoch /\ row.effect = run[r].effect /\ row.verified = run[r].verified
  BY Zenon DEF IInv, RowShape, NoRun
<1>3. run[r].phase \notin Terminal
  BY Zenon, <1>1, ActiveRuns DEF Active
<1> HIDE DEF row
<1> QED  BY Zenon, <1>1, <1>2, <1>3, RowTells

\* A handoff is closed while it is active and has been sealed.
LEMMA CloseTells ==
    ASSUME IInv, Told, NEW r \in Runs, sub' = sub, form' = form,
           NEW reason, CloseHandoff(r, reason), Active(r), log[r].sealed
    PROVE  Tells
<1>1. /\ run' = [run EXCEPT ![r] = [run[r] EXCEPT !.phase = "failed"]]
      /\ log' = [log EXCEPT ![r].closed = reason]
  BY Zenon DEF CloseHandoff, Update
<1>2. /\ run'[r].epoch = run[r].epoch /\ run'[r].effect = run[r].effect
      /\ run'[r].verified = run[r].verified
      /\ log'[r].sent = log[r].sent /\ log'[r].sealed = log[r].sealed /\ log'[r].report = log[r].report
      /\ \A x \in Runs \ {r} : run'[x] = run[x] /\ log'[x] = log[x]
  BY Zenon, <1>1 DEF IInv, RowShape, NoRun, NoLog
<1>3. run[r].phase \notin Terminal /\ run[r].effect # "not_sent"
  BY Zenon, ActiveRuns DEF Active, Told, RowTold
<1>4. RowMoves(r) /\ Verdict(r)  BY Zenon, <1>2, <1>3 DEF RowMoves, Verdict
<1>5. \A x \in Runs \ {r} : RowMoves(x) /\ Verdict(x)  BY Zenon, <1>2 DEF RowMoves, Verdict
<1> QED  BY Zenon, <1>4, <1>5 DEF Tells

\* The receipt of a fill says that it filled the form only if it did.
LEMMA ReceiptTells ==
    ASSUME IInv, NEW p \in Procs, NEW r \in Runs, r = R(p), sub' = sub, form' = form, run' = run,
           NEW report, RecordFillStop(p, report),
           report \in {"failed", "takeover"} \/ (report = "filled" /\ form[r] > 0)
    PROVE  Tells
<1>1. log' = [log EXCEPT ![r].report = report]
  BY Zenon DEF RecordFillStop
<1>2. /\ log'[r].sent = log[r].sent /\ log'[r].sealed = log[r].sealed /\ log'[r].report = report
      /\ log'[r].closed = log[r].closed
      /\ \A x \in Runs \ {r} : log'[x] = log[x]
  BY <1>1 DEF IInv, RowShape, NoLog
<1>3. report # "none" /\ (report = "filled" => form[r] = 1)
  BY DEF IInv, Fed
<1>4. RowMoves(r) /\ Verdict(r)  BY Zenon, <1>2, <1>3 DEF RowMoves, Verdict
<1>5. \A x \in Runs \ {r} : RowMoves(x) /\ Verdict(x)  BY Zenon, <1>2 DEF RowMoves, Verdict
<1> QED  BY Zenon, <1>4, <1>5 DEF Tells

-----------------------------------------------------------------------------
(* The owner, time and the environment.                                    *)

\* A write to the columns that say nothing of the form.
LEMMA SteadyTells ==
    ASSUME log' = log, sub' = sub, form' = form,
           \A r \in Runs : /\ run'[r].epoch = run[r].epoch /\ run'[r].effect = run[r].effect
                           /\ run'[r].phase = run[r].phase /\ run'[r].verified = run[r].verified
    PROVE  Tells
BY Zenon DEF Tells, RowMoves, Verdict

\* No worker has a run that was not accepted yet.
LEMMA AcceptTold ==
    ASSUME IInv, Told, NEW r \in Runs, Accept(r)
    PROVE  Told' /\ Verdicts
<1>1. run' = [run EXCEPT ![r] = Accepted] /\ UNCHANGED <<log, work, sub, form>> /\ run[r].phase = "none"
  BY Zenon DEF Accept, Update
<1>2. /\ run'[r].phase = "queued" /\ ~run'[r].verified
      /\ \A x \in Runs \ {r} : run'[x] = run[x]
  BY Zenon, <1>1 DEF IInv, RowShape, Accepted, NoRun
<1>3. \A q \in Procs : work[q].at \in Working => work[q].run # r /\ work[q].run \in Runs
  BY <1>1 DEF IInv, Claims
<1>4. ~log[r].sealed
  BY Zenon, <1>1 DEF IInv, Stopped, Fed, Consumed, Before
<1>5. \A x \in Runs : Clear(x)' = Clear(x)  BY Zenon, <1>1 DEF Clear
<1>6. "queued" \notin Terminal /\ "none" \notin Terminal  BY DEF Terminal
<1>7. \A x \in Runs : RowTold(x)'
  BY Zenon, <1>1, <1>2, <1>4, <1>5, <1>6 DEF Told, RowTold
<1>8. ASSUME NEW q \in Procs PROVE WorkerTold(q)'
  <2>1. CASE work[q].at \in Working
    <3>0. PICK x \in Runs : x = work[q].run /\ x # r  BY Zenon, <1>3, <2>1
    <3>1. /\ work'[q] = work[q] /\ run'[x] = run[x] /\ log' = log /\ Clear(x)' = Clear(x)
          /\ Current(q)' = Current(q) /\ Verifies(q)' = Verifies(q) /\ Sent(x)' = Sent(x)
      BY Zenon, <1>1, <1>2, <1>5, <3>0 DEF Current, Verifies, Sent
    <3> QED  BY Zenon, <3>0, <3>1 DEF Told, WorkerTold
  <2>2. CASE work[q].at \notin Working
    BY Zenon, <1>1, <2>2, Places DEF WorkerTold, Verifies
  <2> QED  BY Zenon, <2>1, <2>2
<1>9. Verdicts  BY Zenon, <1>1, <1>2, <1>4, <1>6 DEF Verdicts, Verdict
<1> QED  BY Zenon, <1>7, <1>8, <1>9 DEF Told

LEMMA CancelTold ==
    ASSUME IInv, Told, NEW r \in Runs, Cancel(r)
    PROVE  Told' /\ Verdicts
<1>1. Tells
  BY SteadyTells, Zenon DEF Cancel, RequestCancel, Update, IInv, RowShape, NoRun
<1> QED  BY Zenon, <1>1, NobodyTold DEF Cancel

LEMMA RequestCheckTold ==
    ASSUME IInv, Told, NEW r \in Runs, RequestCheck(r)
    PROVE  Told' /\ Verdicts
<1> DEFINE row == [run[r] EXCEPT !.phase = "verifying"]
<1>1. run' = [run EXCEPT ![r] = row]  BY Zenon DEF RequestCheck, Update
<1>2. /\ row.epoch = run[r].epoch /\ row.phase = "verifying" /\ row.effect = run[r].effect
      /\ row.verified = run[r].verified
  BY Zenon DEF IInv, RowShape, NoRun
<1>3. run[r].phase \notin Terminal /\ "verifying" \notin Terminal
  BY Zenon DEF RequestCheck, Terminal
<1> HIDE DEF row
<1>4. Tells  BY Zenon, <1>1, <1>2, <1>3, RowTells DEF RequestCheck
<1> QED  BY Zenon, <1>4, NobodyTold DEF RequestCheck

LEMMA TimeTold ==
    ASSUME IInv, Told, NEW r \in Runs, HandoffDue(r) \/ Lapses(r) \/ Passes(r)
    PROVE  Told' /\ Verdicts
<1>1. CASE HandoffDue(r) \/ Passes(r)
  BY Zenon, <1>1, SameTells, NobodyTold DEF HandoffDue, Passes, AuthorityLost
<1>2. CASE Lapses(r)
  <2>1. Tells
    BY <1>2, SteadyTells, Zenon DEF Lapses, ClaimLapses, Update, IInv, RowShape, NoRun
  <2> QED  BY Zenon, <1>2, <2>1, NobodyTold DEF Lapses
<1> QED  BY Zenon, <1>1, <1>2

LEMMA WindowClosesTold ==
    ASSUME IInv, Told, NEW e, WindowCloses(e)
    PROVE  Told' /\ Verdicts
BY Zenon, SameTells, NobodyTold DEF WindowCloses

\* A run whose subprocess works is not said to be clear by anyone.
LEMMA SubprocessTold ==
    ASSUME IInv, Told, NEW r \in Runs, Fills(r) \/ SubExits(r)
    PROVE  Told' /\ Verdicts
<1>0. UNCHANGED <<run, log, work>>
  BY Zenon DEF Fills, SubExits
<1>1. /\ sub[r] \in {"fed", "filling"} /\ (form'[r] # form[r] => sub[r] = "fed")
      /\ \A x \in Runs \ {r} : sub'[x] = sub[x] /\ form'[x] = form[x]
  BY Zenon DEF IInv, RowShape, Fills, SubExits
<1>2. ~Clear(r) /\ \A x \in Runs \ {r} : Clear(x)' = Clear(x)
  BY Zenon, <1>0, <1>1 DEF Clear
<1>3. log[r].report = "filled" => form'[r] = 1
  <2>1. log[r].report = "filled" => form[r] = 1  BY Zenon DEF Told, RowTold
  <2>2. sub[r] = "fed" => form[r] = 0  BY Zenon DEF IInv, Fed
  <2> QED  BY <1>1, <2>1, <2>2
<1>4. \A x \in Runs : RowTold(x)'
  BY Zenon, <1>0, <1>1, <1>2, <1>3 DEF Told, RowTold
<1>5. ASSUME NEW q \in Procs PROVE WorkerTold(q)'
  <2>1. CASE work[q].at \in Working
    <3>0. PICK x \in Runs : x = work[q].run  BY Zenon, <2>1 DEF IInv, Claims
    <3>1. /\ work'[q] = work[q] /\ run' = run /\ log' = log /\ (Clear(x) => Clear(x)')
          /\ Current(q)' = Current(q) /\ Verifies(q)' = Verifies(q) /\ Sent(x)' = Sent(x)
      BY Zenon, <1>0, <1>2, <3>0 DEF Current, Verifies, Sent
    <3> QED  BY Zenon, <3>0, <3>1 DEF Told, WorkerTold
  <2>2. CASE work[q].at \notin Working
    BY Zenon, <1>0, <2>2, Places DEF WorkerTold, Verifies
  <2> QED  BY Zenon, <2>1, <2>2
<1>6. Verdicts  BY Zenon, <1>0 DEF Verdicts, Verdict
<1> QED  BY Zenon, <1>4, <1>5, <1>6 DEF Told

-----------------------------------------------------------------------------
(* A worker that prepares.                                                 *)

LEMMA AtWork ==
    ASSUME IInv, Told, NEW p \in Procs, work[p].at \in Working
    PROVE  /\ R(p) \in Runs /\ R(p) = work[p].run /\ WorkerTold(p) /\ RowTold(R(p))
           /\ Mine(p) => Current(p) /\ Active(R(p))
BY Zenon DEF IInv, Claims, Told, R, Mine, Claimed, Current

\* Where a worker says nothing, or says that it comes to an end.
LEMMA Arrivals ==
    ASSUME NEW p \in Procs, NEW at
    PROVE  /\ at \in {"open", "reserve", "attach", "start", "fill", "complete", "interrupted", "cleanup",
                      "record"} => Arrives(p, at)
           /\ /\ at \in Ending /\ work[p].run \in Runs
              /\ Current(p) => Clear(work[p].run) \/ run'[work[p].run].effect # "not_sent"
              => Arrives(p, at)
<1>1. {"open", "reserve", "attach", "start", "fill", "complete", "interrupted", "cleanup", "record"}
        \cap (Sending \cup Ending \cup {"settle"}) = {}
  BY DEF Sending, Ending, Late
<1> QED  BY Zenon, <1>1 DEF Arrives

LEMMA BeginTold ==
    ASSUME IInv, Told, NEW p \in Procs, Begin(p)
    PROVE  Told' /\ Verdicts
<1>0. PICK r : r = R(p)  BY Zenon
<1>1. work[p].at \in Working  BY Zenon DEF Begin, Working, Deciding
<1>2. r \in Runs /\ r = work[p].run /\ Active(r)  BY Zenon, <1>0, <1>1, AtWork DEF Begin
<1>3. UNCHANGED <<sub, form>>  BY Zenon DEF Begin
<1>4. CASE Recoverable(r) /\ FinalizeHandoff(p, "interrupted")
  <2>1. Tells  BY Zenon, <1>0, <1>2, <1>3, <1>4, CloseTells DEF FinalizeHandoff
  <2> QED  BY Zenon, <1>4, <2>1, WorkWrites, Arrivals, ArrivalTold
<1>5. CASE UNCHANGED <<run, log>> /\ Reads(p, "complete")
  <2>1. Tells  BY Zenon, <1>3, <1>5, SameTells
  <2> QED  BY Zenon, <1>5, <2>1, WorkWrites, Arrivals, ArrivalTold
<1>6. CASE /\ Advance(p, r, work[p].epoch, run[r].phase, "unknown") /\ UNCHANGED log
           /\ \E at \in {"cancel", "fail"} : Reads(p, at)
  <2>0. Advance(p, r, work[p].epoch, run[r].phase, "unknown") /\ UNCHANGED log  BY Zenon, <1>6
  <2>1. Tells /\ run'[r].effect = "unknown"  BY ZenonT(30), <1>2, <1>3, <2>0, AdvanceTells
  <2>2. PICK at \in {"cancel", "fail"} : Reads(p, at)  BY Zenon, <1>6
  <2>3. Arrives(p, at)  BY Zenon, <1>2, <2>1, Arrivals DEF Ending
  <2> QED  BY Zenon, <2>1, <2>2, <2>3, WorkWrites, ArrivalTold
<1>7. CASE ~MayHaveStarted(r) /\ UNCHANGED <<run, log>> /\ Reads(p, "cancel")
  <2>1. Tells  BY Zenon, <1>3, <1>7, SameTells
  <2>2. run[r].phase \in Before  BY <1>2, <1>7 DEF MayHaveStarted, Active, ActivePhases, Before
  <2>3. Arrives(p, "cancel")  BY Zenon, <1>2, <2>2, BeforeClear, Arrivals DEF Ending
  <2> QED  BY Zenon, <1>7, <2>1, <2>3, WorkWrites, ArrivalTold
<1>8. CASE /\ Advance(p, r, work[p].epoch, "acquiring", "not_sent") \/ UNCHANGED run
           /\ Reads(p, "open") /\ UNCHANGED log
  <2>1. Tells  BY Zenon, <1>2, <1>3, <1>8, AdvanceTells, SameTells
  <2> QED  BY Zenon, <1>8, <2>1, WorkWrites, Arrivals, ArrivalTold
<1> QED  BY Zenon, <1>0, <1>4, <1>5, <1>6, <1>7, <1>8 DEF Begin

LEMMA OpenTold ==
    ASSUME IInv, Told, NEW p \in Procs, Open(p)
    PROVE  Told' /\ Verdicts
<1>1. work[p].at \in Early /\ work[p].at \in Working  BY Zenon DEF Open, Early, Working
<1>2. R(p) \in Runs /\ R(p) = work[p].run  BY Zenon, <1>1, AtWork
<1>3. UNCHANGED <<run, sub, form>>  BY Zenon DEF Open
<1>4. Current(p) => Clear(work[p].run)  BY Zenon, <1>1, EarlyClear
<1>5. CASE Goes(p, "failed") /\ UNCHANGED log
  <2>1. Arrives(p, "failed")  BY Zenon, <1>2, <1>4, Arrivals DEF Ending
  <2> QED  BY Zenon, <1>3, <1>5, <2>1, SameTells, WorkWrites, ArrivalTold
<1>6. CASE Goes(p, "reserve") /\ UNCHANGED log
  BY Zenon, <1>3, <1>6, SameTells, WorkWrites, Arrivals, ArrivalTold
<1>7. CASE RecordFillStop(p, "failed") /\ Returns(p, "not_sent", FALSE)
  <2>1. Tells  BY Zenon, <1>2, <1>3, <1>7, ReceiptTells
  <2> QED  BY Zenon, <1>2, <1>4, <1>7, <2>1, ReturnTold
<1> QED  BY Zenon, <1>5, <1>6, <1>7 DEF Open

LEMMA ReserveTold ==
    ASSUME IInv, Told, NEW p \in Procs, Reserve(p)
    PROVE  Told' /\ Verdicts
<1>1. work[p].at \in Early /\ work[p].at \in Working  BY Zenon DEF Reserve, Early, Working
<1>2. R(p) \in Runs /\ R(p) = work[p].run  BY Zenon, <1>1, AtWork
<1>3. Tells  BY Zenon, SameTells DEF Reserve
<1>4. Arrives(p, "failed") /\ Arrives(p, "attach")
  BY Zenon, <1>1, <1>2, EarlyClear, Arrivals DEF Ending
<1> QED  BY Zenon, <1>3, <1>4, WorkWrites, ArrivalTold DEF Reserve

LEMMA AttachTold ==
    ASSUME IInv, Told, NEW p \in Procs, Attach(p)
    PROVE  Told' /\ Verdicts
<1>1. Tells  BY SteadyTells, Zenon DEF Attach, R, Update, IInv, RowShape, NoRun
<1> QED  BY Zenon, <1>1, Arrivals, WorkWrites, ArrivalTold DEF Attach

LEMMA StartExecutionTold ==
    ASSUME IInv, Told, NEW p \in Procs, StartExecution(p)
    PROVE  Told' /\ Verdicts
<1>1. R(p) \in Runs  BY Zenon, AtWork DEF StartExecution, Early, Working
<1>2. Tells  BY Zenon, <1>1, AdvanceTells DEF StartExecution
<1> QED  BY Zenon, <1>2, Arrivals, WorkWrites, ArrivalTold DEF StartExecution

LEMMA LateTold ==
    ASSUME IInv, Told, NEW p \in Procs, Acquire(p) \/ LaunchFence(p) \/ Launch(p) \/ Login(p)
    PROVE  Told' /\ Verdicts
<1>1. work[p].at \in Sending /\ work[p].at \in Working
  BY Zenon DEF Acquire, LaunchFence, Launch, Login, Sending, Late, Working
<1>2. R(p) \in Runs /\ R(p) = work[p].run /\ Sent(R(p)) = work[p].epoch
  BY Zenon, <1>1, AtWork DEF WorkerTold
<1>3. Tells  BY Zenon, SameTells DEF Acquire, LaunchFence, Launch, Login
<1>4. \A at \in {"fence", "launch", "login", "spawn"} : Arrives(p, at)
  BY Zenon, <1>2 DEF Arrives, Sending, Late
<1> QED  BY Zenon, <1>3, <1>4, WorkWrites, ArrivalTold DEF Acquire, LaunchFence, Launch, Login

LEMMA PrepareFailsTold ==
    ASSUME IInv, Told, NEW p \in Procs, PrepareFails(p)
    PROVE  Told' /\ Verdicts
<1>1. work[p].at \in Working /\ (work[p].at \in Early \/ work[p].at \in Late \ {"barred"})
  BY Zenon DEF PrepareFails, Preparing, Early, Late, Working
<1>2. R(p) \in Runs /\ R(p) = work[p].run  BY Zenon, <1>1, AtWork
<1>3. UNCHANGED <<run, sub, form>>  BY Zenon DEF PrepareFails
<1>4. Current(p) => Clear(work[p].run)  BY Zenon, <1>1, EarlyClear, LateClear
<1>5. CASE Goes(p, "failed") /\ UNCHANGED log
  <2>1. Arrives(p, "failed")  BY Zenon, <1>2, <1>4, Arrivals DEF Ending
  <2> QED  BY Zenon, <1>3, <1>5, <2>1, SameTells, WorkWrites, ArrivalTold
<1>6. CASE Returns(p, "not_sent", FALSE) /\ UNCHANGED log
  BY Zenon, <1>2, <1>3, <1>4, <1>6, SameTells, ReturnTold
<1>7. CASE RecordFillStop(p, "failed") /\ Returns(p, "not_sent", FALSE)
  <2>1. Tells  BY Zenon, <1>2, <1>3, <1>7, ReceiptTells
  <2> QED  BY Zenon, <1>2, <1>4, <1>7, <2>1, ReturnTold
<1> QED  BY Zenon, <1>5, <1>6, <1>7 DEF PrepareFails

-----------------------------------------------------------------------------
(* A worker that reports, settles and seals.                               *)

LEMMA ReportTold ==
    ASSUME IInv, Told, NEW p \in Procs, Report(p)
    PROVE  Told' /\ Verdicts
<1>0. PICK r : r = R(p)  BY Zenon
<1>1. work[p].at = "filling" /\ work[p].at \in Sending /\ work[p].at \in Working
  BY Zenon DEF Report, Sending, Working
<1>2. r \in Runs /\ r = work[p].run /\ Sent(r) = work[p].epoch /\ RowTold(r)
  BY Zenon, <1>0, <1>1, AtWork DEF WorkerTold
<1>3. UNCHANGED <<run, sub, form>> /\ sub[r] = "gone"  BY Zenon, <1>0 DEF Report
<1>4. Arrives(p, "seal")  BY Zenon, <1>2 DEF Arrives, Sending
<1>5. CASE /\ form[r] > 0 /\ RecordFillStop(p, "filled")
           /\ Goes(p, "seal") \/ Returns(p, "acknowledged", TRUE)
  <2>1. Tells  BY Zenon, <1>0, <1>2, <1>3, <1>5, ReceiptTells
  <2>2. ~log[r].sealed  BY Zenon, <1>0, <1>2, <1>5 DEF RecordFillStop, RowTold
  <2>3. CASE Goes(p, "seal")  BY Zenon, <1>4, <2>1, <2>3, WorkWrites, ArrivalTold
  <2>4. CASE Returns(p, "acknowledged", TRUE)
    BY Zenon, <1>2, <2>1, <2>2, <2>4, ReturnTold
  <2> QED  BY Zenon, <1>5, <2>3, <2>4
<1>6. CASE RecordFillStop(p, "takeover") /\ Goes(p, "seal")
  <2>1. Tells  BY Zenon, <1>0, <1>2, <1>3, <1>6, ReceiptTells
  <2> QED  BY Zenon, <1>4, <1>6, <2>1, WorkWrites, ArrivalTold
<1>7. CASE \E e \in ReportSays(r) : RecordFillStop(p, "failed") /\ Returns(p, e, FALSE)
  <2>1. PICK e \in ReportSays(r) : RecordFillStop(p, "failed") /\ Returns(p, e, FALSE)  BY Zenon, <1>7
  <2>2. Tells  BY Zenon, <1>0, <1>2, <1>3, <2>1, ReceiptTells
  <2>3. e = "not_sent" => Clear(r)  BY Zenon, <1>1, <1>2, <1>3, FillingClear DEF ReportSays
  <2> QED  BY Zenon, <1>2, <2>1, <2>2, <2>3, ReturnTold
<1> QED  BY Zenon, <1>0, <1>5, <1>6, <1>7 DEF Report

LEMMA FillFailsTold ==
    ASSUME IInv, Told, NEW p \in Procs, FillFails(p)
    PROVE  Told' /\ Verdicts
<1>0. PICK r : r = R(p)  BY Zenon
<1>1. work[p].at = "filling" /\ work[p].at \in Working  BY Zenon DEF FillFails, Working
<1>2. r \in Runs /\ r = work[p].run  BY Zenon, <1>0, <1>1, AtWork
<1>3. UNCHANGED <<run, sub, form>>  BY Zenon DEF FillFails
<1>4. CASE Returns(p, "unknown", FALSE) /\ UNCHANGED log
  BY Zenon, <1>2, <1>3, <1>4, SameTells, ReturnTold
<1>5. CASE \E e \in ReportSays(r) : RecordFillStop(p, "failed") /\ Returns(p, e, FALSE)
  <2>1. PICK e \in ReportSays(r) : RecordFillStop(p, "failed") /\ Returns(p, e, FALSE)  BY Zenon, <1>5
  <2>2. Tells  BY Zenon, <1>0, <1>2, <1>3, <2>1, ReceiptTells
  <2>3. e = "not_sent" => Clear(r)  BY Zenon, <1>1, <1>2, <1>3, FillingClear DEF ReportSays
  <2> QED  BY Zenon, <1>2, <2>1, <2>2, <2>3, ReturnTold
<1> QED  BY Zenon, <1>0, <1>4, <1>5 DEF FillFails

LEMMA FailedTold ==
    ASSUME IInv, Told, NEW p \in Procs, Failed(p)
    PROVE  Told' /\ Verdicts
<1>1. work[p].at \in Working /\ work[p].at \in Ending  BY Zenon DEF Failed, Working, Deciding, Ending
<1>2. work[p].run \in Runs /\ WorkerTold(p)  BY Zenon, <1>1, AtWork
<1>3. Tells /\ UNCHANGED run  BY Zenon, SameTells DEF Failed
<1>4. Arrives(p, "cancel") /\ Arrives(p, "fail")
  BY Zenon, <1>1, <1>2, <1>3, Arrivals DEF Ending, WorkerTold
<1> QED  BY Zenon, <1>3, <1>4, WorkWrites, ArrivalTold DEF Failed

LEMMA SettleTold ==
    ASSUME IInv, Told, NEW p \in Procs, Settle(p)
    PROVE  Told' /\ Verdicts
<1>0. PICK r : r = R(p)  BY Zenon
<1>1. work[p].at = "settle" /\ work[p].at \in Working  BY Zenon DEF Settle, Working, Deciding
<1>2. r \in Runs /\ r = work[p].run /\ WorkerTold(p)  BY Zenon, <1>0, <1>1, AtWork
<1>3. PICK phase : Advance(p, r, work[p].epoch, phase, work[p].effect)  BY Zenon, <1>0 DEF Settle
<1>4. Tells /\ run'[r].effect = work[p].effect
  <2>1. log' = log /\ sub' = sub /\ form' = form  BY Zenon DEF Settle
  <2> QED  BY <1>2, <1>3, <2>1, AdvanceTells
<1>5. CASE work[p].verified /\ Reads(p, "persist")
  <2>1. Arrives(p, "persist")
    BY Zenon, <1>1, <1>2, <1>4, <1>5 DEF Arrives, WorkerTold, Verifies, Sending
  <2> QED  BY Zenon, <1>4, <1>5, <2>1, WorkWrites, ArrivalTold
<1>6. CASE \E at \in {"cancel", "fail"} : Reads(p, at)
  <2>1. PICK at \in {"cancel", "fail"} : Reads(p, at)  BY Zenon, <1>6
  <2>2. Arrives(p, at)  BY Zenon, <1>1, <1>2, <1>4, Arrivals DEF Ending, WorkerTold
  <2> QED  BY Zenon, <1>4, <2>1, <2>2, WorkWrites, ArrivalTold
<1> QED  BY Zenon, <1>5, <1>6 DEF Settle

LEMMA PersistTold ==
    ASSUME IInv, Told, NEW p \in Procs, Persist(p)
    PROVE  Told' /\ Verdicts
<1>0. PICK r : r = R(p)  BY Zenon
<1>1. work[p].at = "persist" /\ work[p].at \in Working  BY Zenon DEF Persist, Working, Deciding
<1>2. /\ r \in Runs /\ r = work[p].run
      /\ run[r].effect # "not_sent" /\ ~log[r].sealed
  BY Zenon, <1>0, <1>1, AtWork DEF WorkerTold, Verifies
<1>3. Tells  BY Zenon, <1>0, <1>2, PersistTells DEF Persist
<1> QED  BY Zenon, <1>3, Arrivals, WorkWrites, ArrivalTold DEF Persist

LEMMA SealTold ==
    ASSUME IInv, Told, NEW p \in Procs, Seal(p)
    PROVE  Told' /\ Verdicts
<1>0. PICK r : r = R(p)  BY Zenon
<1>1. work[p].at \in Sending /\ work[p].at \in Working  BY Zenon DEF Seal, Sending, Working, Deciding
<1>2. r \in Runs /\ r = work[p].run /\ Sent(r) = work[p].epoch
  BY Zenon, <1>0, <1>1, AtWork DEF WorkerTold
<1>3. PICK phase : Advance(p, r, work[p].epoch, phase, "acknowledged")  BY Zenon, <1>0 DEF Seal
<1>4. Tells /\ run'[r].effect = "acknowledged"
  <2>1. log' = log /\ sub' = sub /\ form' = form  BY Zenon DEF Seal
  <2> QED  BY <1>2, <1>3, <2>1, AdvanceTells
<1>5. Arrives(p, "cancel")  BY Zenon, <1>2, <1>4, Arrivals DEF Ending
<1>6. Arrives(p, "enter")  BY Zenon, <1>2, <1>4 DEF Arrives, Sending
<1> QED  BY Zenon, <1>4, <1>5, <1>6, WorkWrites, ArrivalTold DEF Seal

LEMMA RedecideTold ==
    ASSUME IInv, Told, NEW p \in Procs, Redecide(p)
    PROVE  Told' /\ Verdicts
<1>1. work[p].at \in Sending /\ work[p].at \in Working  BY Zenon DEF Redecide, Sending, Working, Deciding
<1>2. work[p].run \in Runs /\ Sent(work[p].run) = work[p].epoch
  BY Zenon, <1>1, AtWork DEF WorkerTold
<1>3. Tells  BY Zenon, SameTells DEF Redecide
<1>4. Arrives(p, "seal")  BY Zenon, <1>2 DEF Arrives, Sending
<1>5. MovesTo(p, "seal")  BY Zenon DEF IInv, WorkShape, MovesTo, Idle, Redecide
<1> QED  BY Zenon, <1>3, <1>4, <1>5, ArrivalTold

-----------------------------------------------------------------------------
(* A worker that holds, ends and cancels.                                  *)

\* In the hold the handoff is sealed, so something was sent.
LEMMA AtHold ==
    ASSUME IInv, Told, NEW p \in Procs, work[p].at \in {"hold", "checking"}
    PROVE  /\ R(p) \in Runs /\ R(p) = work[p].run /\ log[R(p)].sealed /\ run[R(p)].effect # "not_sent"
           /\ \A at \in {"hold", "checking"} : Arrives(p, at)
           /\ run' = run => Arrives(p, "cancel")
<1>1. work[p].at \in Working /\ work[p].at \in Sending  BY Zenon, Places
<1>2. /\ R(p) \in Runs /\ R(p) = work[p].run /\ log[R(p)].sealed /\ Sent(R(p)) = work[p].epoch
      /\ RowTold(R(p))
  BY Zenon, <1>1, AtWork DEF WorkerTold
<1>3. run[R(p)].effect # "not_sent"  BY Zenon, <1>2 DEF RowTold
<1>4. \A at \in {"hold", "checking"} : Arrives(p, at)  BY Zenon, <1>2, Places DEF Arrives
<1>5. run' = run => Arrives(p, "cancel")  BY Zenon, <1>2, <1>3, Arrivals DEF Ending
<1> QED  BY Zenon, <1>2, <1>3, <1>4, <1>5

LEMMA HoldCompletesTold ==
    ASSUME IInv, Told, NEW p \in Procs, HoldCompletes(p)
    PROVE  Told' /\ Verdicts
<1>1. R(p) \in Runs /\ run[R(p)].effect # "not_sent"  BY Zenon, AtHold DEF HoldCompletes
<1>2. Tells  BY Zenon, <1>1, FinalizeTells DEF HoldCompletes, Ends
<1> QED  BY Zenon, <1>2, Arrivals, WorkWrites, ArrivalTold DEF HoldCompletes

LEMMA HoldCancelsTold ==
    ASSUME IInv, Told, NEW p \in Procs, HoldCancels(p)
    PROVE  Told' /\ Verdicts
<1>1. Arrives(p, "cancel")  BY Zenon, AtHold DEF HoldCancels
<1>2. Tells  BY Zenon, SameTells DEF HoldCancels
<1> QED  BY Zenon, <1>1, <1>2, WorkWrites, ArrivalTold DEF HoldCancels

LEMMA HoldEndsTold ==
    ASSUME IInv, Told, NEW p \in Procs, HoldCloses(p) \/ HoldExpires(p)
    PROVE  Told' /\ Verdicts
<1>1. PICK reason : FinalizeHandoff(p, reason)  BY Zenon DEF HoldCloses, HoldExpires
<1>2. R(p) \in Runs /\ Active(R(p)) /\ UNCHANGED <<sub, form>>
  BY Zenon, AtHold DEF HoldCloses, HoldExpires, Holding, Mine, Claimed
<1>3. Tells  BY Zenon, <1>1, <1>2, CloseTells DEF FinalizeHandoff
<1> QED  BY Zenon, <1>1, <1>3, Arrivals, WorkWrites, ArrivalTold

LEMMA HoldChecksTold ==
    ASSUME IInv, Told, NEW p \in Procs, HoldChecks(p)
    PROVE  Told' /\ Verdicts
<1>1. Arrives(p, "checking")  BY Zenon, AtHold DEF HoldChecks, Holding
<1>2. Tells  BY Zenon, SameTells DEF HoldChecks
<1> QED  BY Zenon, <1>1, <1>2, WorkWrites, ArrivalTold DEF HoldChecks

LEMMA CheckedTold ==
    ASSUME IInv, Told, NEW p \in Procs, Checked(p)
    PROVE  Told' /\ Verdicts
<1>0. PICK r : r = R(p)  BY Zenon
<1>1. /\ r \in Runs /\ run[r].effect # "not_sent" /\ Arrives(p, "hold")
      /\ run' = run => Arrives(p, "cancel")
  BY Zenon, <1>0, AtHold DEF Checked
<1>2. UNCHANGED <<log, sub, form>>  BY Zenon DEF Checked
<1>3. CASE UNCHANGED run /\ Reads(p, "cancel")
  BY Zenon, <1>1, <1>2, <1>3, SameTells, WorkWrites, ArrivalTold
<1>4. CASE ~run[r].cancel /\ PersistVerified(p, r, work[p].epoch) /\ Goes(p, "hold")
  <2>1. Tells  BY Zenon, <1>1, <1>2, <1>4, PersistTells
  <2> QED  BY Zenon, <1>1, <1>4, <2>1, WorkWrites, ArrivalTold
<1>5. CASE /\ run[r].phase = "verifying"
           /\ Update(r, [run[r] EXCEPT !.phase = "waiting_user"])
           /\ Goes(p, "hold")
  <2> DEFINE row == [run[r] EXCEPT !.phase = "waiting_user"]
  <2>1. run' = [run EXCEPT ![r] = row]  BY Zenon, <1>5 DEF Update
  <2>2. /\ row.epoch = run[r].epoch /\ row.phase = "waiting_user" /\ row.effect = run[r].effect
        /\ row.verified = run[r].verified
    BY Zenon, <1>1 DEF IInv, RowShape, NoRun
  <2>3. run[r].phase \notin Terminal /\ "waiting_user" \notin Terminal  BY Zenon, <1>5 DEF Terminal
  <2> HIDE DEF row
  <2>4. Tells  BY Zenon, <1>1, <1>2, <2>1, <2>2, <2>3, RowTells
  <2> QED  BY Zenon, <1>1, <1>5, <2>4, WorkWrites, ArrivalTold
<1> QED  BY Zenon, <1>0, <1>3, <1>4, <1>5 DEF Checked

\* A worker that ends a run under its claim has told what it did.
LEMMA EndsTold ==
    ASSUME IInv, Told, NEW p \in Procs, Fail(p) \/ Complete(p) \/ EndCancelled(p)
    PROVE  Told' /\ Verdicts
<1>0. PICK r : r = R(p)  BY Zenon
<1>1. work[p].at \in Working  BY Zenon DEF Fail, Complete, EndCancelled, Working, Deciding
<1>2. r \in Runs /\ r = work[p].run /\ WorkerTold(p) /\ RowTold(r)  BY Zenon, <1>0, <1>1, AtWork
<1>3. PICK status : Ends(p, status) /\ (work[p].at \in Ending \/ status = "completed")
  BY Zenon DEF Fail, Complete, EndCancelled, Ending
<1>4. Current(p) /\ (status = "completed" => run[r].verified)
  BY Zenon, <1>0, <1>2, <1>3 DEF Ends, Finalize, Final, Claimed, Current
<1>5. run[r].effect = "not_sent" => Clear(r)
  BY Zenon, <1>2, <1>3, <1>4 DEF WorkerTold, RowTold
<1>6. UNCHANGED <<log, sub, form>>  BY Zenon DEF Fail, Complete, EndCancelled
<1>7. Tells  BY Zenon, <1>0, <1>2, <1>3, <1>5, <1>6, FinalizeTells DEF Ends
<1> QED  BY Zenon, <1>3, <1>7, Arrivals, WorkWrites, ArrivalTold

LEMMA StopTold ==
    ASSUME IInv, Told, NEW p \in Procs, Stop(p) \/ Acknowledge(p)
    PROVE  Told' /\ Verdicts
<1>1. work[p].at \in Working /\ work[p].at \in Ending
  BY Zenon DEF Stop, Acknowledge, Working, Deciding, Ending
<1>2. work[p].run \in Runs /\ WorkerTold(p) /\ R(p) = work[p].run  BY Zenon, <1>1, AtWork
<1>3. /\ UNCHANGED <<log, sub, form>>
      /\ \A x \in Runs : /\ run'[x].epoch = run[x].epoch /\ run'[x].effect = run[x].effect
                         /\ run'[x].phase = run[x].phase /\ run'[x].verified = run[x].verified
  <2>1. CASE Stop(p)  BY Zenon, <2>1 DEF Stop
  <2>2. CASE Acknowledge(p)  BY Zenon, <1>2, <2>2 DEF Acknowledge, Update, IInv, RowShape, NoRun
  <2> QED  BY Zenon, <2>1, <2>2
<1>4. Tells  BY Zenon, <1>3, SteadyTells
<1>5. Arrives(p, "stopped") /\ Arrives(p, "acked")
  BY Zenon, <1>1, <1>2, <1>3, Arrivals DEF Ending, WorkerTold
<1> QED  BY Zenon, <1>4, <1>5, WorkWrites, ArrivalTold DEF Stop, Acknowledge

LEMMA SettleInterruptedTold ==
    ASSUME IInv, Told, NEW p \in Procs, SettleInterrupted(p)
    PROVE  Told' /\ Verdicts
<1>0. PICK r : r = R(p)  BY Zenon
<1>1. work[p].at \in Working  BY Zenon DEF SettleInterrupted, Working, Deciding
<1>2. r \in Runs /\ r = work[p].run /\ Active(r)  BY Zenon, <1>0, <1>1, AtWork DEF SettleInterrupted
<1>3. UNCHANGED <<sub, form>>  BY Zenon DEF SettleInterrupted
<1>4. CASE Recoverable(r) /\ FinalizeHandoff(p, "interrupted")
  <2>1. Tells  BY Zenon, <1>0, <1>2, <1>3, <1>4, CloseTells DEF FinalizeHandoff
  <2> QED  BY Zenon, <1>4, <2>1, WorkWrites, Arrivals, ArrivalTold
<1>5. CASE UNCHANGED <<run, log>> /\ Reads(p, "complete")
  <2>1. Tells  BY Zenon, <1>3, <1>5, SameTells
  <2> QED  BY Zenon, <1>5, <2>1, WorkWrites, Arrivals, ArrivalTold
<1>6. CASE /\ IF MayHaveStarted(r) THEN Advance(p, r, work[p].epoch, run[r].phase, "unknown")
                                   ELSE UNCHANGED run
           /\ \E at \in {"cancel", "fail"} : Reads(p, at)
           /\ UNCHANGED log
  <2>1. PICK at \in {"cancel", "fail"} : Reads(p, at)  BY Zenon, <1>6
  <2>2. Tells /\ Arrives(p, at)
    <3>1. CASE Advance(p, r, work[p].epoch, run[r].phase, "unknown")
      <4>0. log' = log  BY Zenon, <1>6
      <4>1. Tells /\ run'[r].effect = "unknown"  BY <1>2, <1>3, <3>1, <4>0, AdvanceTells
      <4> QED  BY Zenon, <1>2, <4>1, Arrivals DEF Ending
    <3>2. CASE ~MayHaveStarted(r) /\ UNCHANGED run
      <4>1. run[r].phase \in Before  BY <1>2, <3>2 DEF MayHaveStarted, Active, ActivePhases, Before
      <4>2. Tells  BY Zenon, <1>3, <1>6, <3>2, SameTells
      <4> QED  BY Zenon, <1>2, <4>1, <4>2, BeforeClear, Arrivals DEF Ending
    <3> QED  BY Zenon, <1>6, <3>1, <3>2
  <2> QED  BY Zenon, <2>1, <2>2, WorkWrites, ArrivalTold
<1> QED  BY Zenon, <1>0, <1>4, <1>5, <1>6 DEF SettleInterrupted

\* A worker that leaves its place without a word.
LEMMA LeaveTold ==
    ASSUME IInv, Told, NEW p \in Procs, Abort(p) \/ CleanupFails(p) \/ Interrupt(p) \/ Crash(p) \/ Cleanup(p)
    PROVE  Told' /\ Verdicts
<1>1. Tells  BY SameTells, Zenon DEF Abort, CleanupFails, Interrupt, Crash, Cleanup
<1>2. Rests(p) \/ \E at \in {"cleanup", "interrupted", "record"} : MovesTo(p, at)
  <2>1. CASE Cleanup(p)  BY <2>1 DEF IInv, WorkShape, MovesTo, Idle, Cleanup
  <2>2. CASE Abort(p)  BY Zenon, <2>2, WorkWrites DEF Abort
  <2>3. CASE CleanupFails(p)  BY Zenon, <2>3, WorkWrites DEF CleanupFails, Leaves
  <2>4. CASE Interrupt(p)  BY Zenon, <2>4, WorkWrites DEF Interrupt
  <2>5. CASE Crash(p)  BY Zenon, <2>5, WorkWrites DEF Crash
  <2> QED  BY Zenon, <2>1, <2>2, <2>3, <2>4, <2>5
<1> QED  BY Zenon, <1>1, <1>2, Arrivals, ArrivalTold, RestTold

LEMMA RecordTold ==
    ASSUME IInv, Told, NEW p \in Procs, Record(p) \/ QuarantineHistorical(p)
    PROVE  Told' /\ Verdicts
<1>1. UNCHANGED <<log, sub, form>> /\ work' = [work EXCEPT ![p] = Idle]
  BY Zenon DEF Record, Leaves, QuarantineHistorical
<1>2. \A x \in Runs : /\ run'[x].epoch = run[x].epoch /\ run'[x].effect = run[x].effect
                      /\ run'[x].phase = run[x].phase /\ run'[x].verified = run[x].verified
  BY DEF Record, RecordCleanup, QuarantineHistorical, Update, IInv, RowShape, NoRun
<1> QED  BY Zenon, <1>1, <1>2, SteadyTells, WorkWrites, RestTold

LEMMA CleanupPassTold ==
    ASSUME IInv, Told, NEW p \in Procs, NEW r \in Runs, CleanupPass(p, r)
    PROVE  Told' /\ Verdicts
<1>1. Rests(p)  BY Zenon DEF CleanupPass, IInv, WorkShape, Rests, Idle
<1>2. UNCHANGED <<sub, form>>  BY Zenon DEF CleanupPass
<1>3. CASE Recoverable(r)
  <2>1. Active(r) /\ log[r].sealed  BY Zenon, <1>3 DEF Recoverable, Active, ActivePhases
  <2>2. CloseHandoff(r, ExpiryReason(r))  BY Zenon, <1>3 DEF CleanupPass
  <2>3. Tells  BY Zenon, <1>2, <2>1, <2>2, CloseTells
  <2> QED  BY Zenon, <1>1, <2>3, RestTold
<1>4. CASE ~Recoverable(r)
  BY Zenon, <1>1, <1>2, <1>4, SameTells, RestTold DEF CleanupPass
<1> QED  BY Zenon, <1>3, <1>4

-----------------------------------------------------------------------------
(* The steps that take a claim, consume the confirmation, feed and seal.   *)

\* After a new claim nobody else works under the current one.
LEMMA ClaimTold ==
    ASSUME IInv, Told, NEW p \in Procs, NEW r \in Runs, Claim(p, r)
    PROVE  Told' /\ Verdicts
<1>1. /\ run' = [run EXCEPT ![r] = ClaimedBy(p, r)] /\ work[p] = Idle
      /\ work' = [work EXCEPT ![p] = [Idle EXCEPT !.at = "claimed", !.run = r, !.epoch = run[r].epoch + 1]]
      /\ UNCHANGED <<log, sub, form>>
  BY Zenon DEF Claim, Update
<1>2. work'[p].at = "claimed" /\ \A q \in Procs \ {p} : work'[q] = work[q]
  BY Zenon, <1>1 DEF IInv, WorkShape, Idle
<1>3. /\ \A x \in Runs : /\ run'[x].phase = run[x].phase /\ run'[x].effect = run[x].effect
                         /\ run'[x].verified = run[x].verified
      /\ run'[r].epoch = run[r].epoch + 1 /\ \A x \in Runs \ {r} : run'[x] = run[x]
  BY Zenon, <1>1 DEF IInv, RowShape, ClaimedBy, NoRun
<1>4. \A x \in Runs : Clear(x) => Clear(x)'
  BY Zenon, <1>1, <1>2 DEF Clear, Idle
<1>5. \A x \in Runs : RowTold(x)'  BY Zenon, <1>1, <1>3, <1>4 DEF Told, RowTold
<1>6. WorkerTold(p)'
  <2>1. "claimed" \notin Sending \cup Ending  BY DEF Sending, Ending, Late
  <2> QED  BY Zenon, <1>2, <2>1 DEF WorkerTold, Verifies
<1>7. ASSUME NEW q \in Procs \ {p} PROVE WorkerTold(q)'
  <2>1. CASE work[q].at \in Working
    <3>0. PICK x \in Runs : x = work[q].run  BY Zenon, <2>1 DEF IInv, Claims
    <3>1. ASSUME Current(q)' PROVE Current(q)
      <4>1. work[q].epoch \in Nat /\ run[x].epoch \in Nat /\ work[q].epoch <= run[x].epoch
        BY Zenon, <2>1, <3>0 DEF IInv, Claims
      <4>2. work[q].epoch = run'[x].epoch  BY Zenon, <1>2, <3>0, <3>1 DEF Current
      <4>3. run'[x].epoch = run[x].epoch \/ run'[x].epoch = run[x].epoch + 1  BY Zenon, <1>3
      <4>4. work[q].epoch = run[x].epoch  BY <4>1, <4>2, <4>3
      <4> QED  BY Zenon, <3>0, <4>4 DEF Current
    <3>2. /\ work'[q] = work[q] /\ log' = log /\ run'[x].effect = run[x].effect /\ (Clear(x) => Clear(x)')
          /\ Verifies(q)' = Verifies(q) /\ Sent(x)' = Sent(x)
      BY Zenon, <1>1, <1>2, <1>3, <1>4 DEF Verifies, Sent
    <3> QED  BY Zenon, <3>0, <3>1, <3>2 DEF Told, WorkerTold
  <2>2. CASE work[q].at \notin Working
    BY Zenon, <1>2, <2>2, Places DEF WorkerTold, Verifies
  <2> QED  BY Zenon, <2>1, <2>2
<1>8. Verdicts  BY Zenon, <1>1, <1>3 DEF Verdicts, Verdict
<1> QED  BY Zenon, <1>5, <1>6, <1>7, <1>8 DEF Told

\* Nobody has said anything under a confirmation that was not consumed.
LEMMA ReserveFillTold ==
    ASSUME IInv, Told, NEW p \in Procs, ReserveFill(p)
    PROVE  Told' /\ Verdicts
<1>0. PICK r : r = R(p)  BY Zenon
<1>1. /\ work[p].at = "fill" /\ work[p].run = r /\ r \in Runs
      /\ log' = [log EXCEPT ![r].sent = <<work[p].epoch, run[r].lease>>]
      /\ Goes(p, "acquire") /\ UNCHANGED <<run, sub, form>>
  BY Zenon, <1>0, AtWork DEF ReserveFill, Early, Working
<1>9. Sent(r) = 0  BY <1>0 DEF ReserveFill, Sent
<1>2. MovesTo(p, "acquire")  BY Zenon, <1>1, WorkWrites
<1>3. /\ log'[r].sent = <<work[p].epoch, run[r].lease>>
      /\ \A x \in Runs : /\ log'[x].sealed = log[x].sealed /\ log'[x].report = log[x].report
                         /\ log'[x].closed = log[x].closed
      /\ \A x \in Runs \ {r} : log'[x] = log[x]
  BY Zenon, <1>1 DEF IInv, RowShape, NoLog
<1>4. \A x \in Runs : Clear(x) => Clear(x)'
  BY Zenon, <1>1, <1>2 DEF Clear, MovesTo
<1>5. ASSUME NEW x \in Runs PROVE RowTold(x)'
  <2>1. RowTold(x) /\ (Clear(x) => Clear(x)')  BY Zenon, <1>4 DEF Told
  <2>2. run' = run /\ form' = form /\ log'[x].sealed = log[x].sealed /\ log'[x].report = log[x].report
    BY Zenon, <1>1, <1>3
  <2> QED  BY Zenon, <2>1, <2>2 DEF RowTold
<1>6. WorkerTold(p)'
  <2>1. "acquire" \in Sending  BY DEF Sending, Late
  <2>2. work'[p].at = "acquire" /\ work'[p].run = r /\ Sent(r)' = work'[p].epoch
    BY <1>1, <1>2, <1>3 DEF MovesTo, Sent
  <2> QED  BY Zenon, <2>1, <2>2, Places DEF WorkerTold, Verifies
<1>7. ASSUME NEW q \in Procs \ {p} PROVE WorkerTold(q)'
  <2>1. CASE work[q].at \in Working
    <3>0. PICK x \in Runs : x = work[q].run  BY Zenon, <2>1 DEF IInv, Claims
    <3>1. work[q].at \in Sending \/ Verifies(q) => Sent(x)' = Sent(x)
      <4>1. work[q].at \in Sending \/ Verifies(q) => Sent(x) = work[q].epoch
        BY Zenon, <3>0 DEF Told, WorkerTold
      <4>2. 0 < work[q].epoch  BY Zenon, <2>1 DEF IInv, Claims
      <4>3. x # r => Sent(x)' = Sent(x)  BY Zenon, <1>3 DEF Sent
      <4> QED  BY <1>9, <4>1, <4>2, <4>3
    <3>2. /\ work'[q] = work[q] /\ run' = run /\ log'[x].sealed = log[x].sealed /\ (Clear(x) => Clear(x)')
          /\ Verifies(q)' = Verifies(q) /\ Current(q)' = Current(q)
      BY Zenon, <1>1, <1>2, <1>3, <1>4 DEF Verifies, Current, MovesTo
    <3> QED  BY Zenon, <3>0, <3>1, <3>2 DEF Told, WorkerTold
  <2>2. CASE work[q].at \notin Working
    BY Zenon, <1>2, <2>2, Places DEF WorkerTold, Verifies, MovesTo
  <2> QED  BY Zenon, <2>1, <2>2
<1>8. Verdicts  BY Zenon, <1>1, <1>3 DEF Verdicts, Verdict
<1> QED  BY Zenon, <1>5, <1>6, <1>7, <1>8 DEF Told

\* A worker that passes the barrier, or feeds: of its run nobody says that it is
\* clear.
LEMMA FeedTold ==
    ASSUME IInv, Told, NEW p \in Procs, AssertFill(p) \/ Input(p)
    PROVE  Told' /\ Verdicts
<1>0. PICK r : r = R(p)  BY Zenon
<1>1. work[p].at \in {"spawn", "barred"} /\ work[p].at \in Working /\ work[p].at \in Sending
  BY Zenon DEF AssertFill, Input, Working, Sending, Late
<1>2. r \in Runs /\ r = work[p].run /\ Sent(r) = work[p].epoch
  BY Zenon, <1>0, <1>1, AtWork DEF WorkerTold
<1>3. UNCHANGED <<run, log, form>> /\ \A x \in Runs \ {r} : sub'[x] = sub[x]
  BY Zenon, <1>0 DEF AssertFill, Input, IInv, RowShape
<1>4. PICK at \in {"barred", "filling"} : MovesTo(p, at)
  BY Zenon, WorkWrites DEF AssertFill, Input
<1>5. \A x \in Runs \ {r} : Clear(x) => Clear(x)'
  BY Zenon, <1>2, <1>3, <1>4 DEF Clear, MovesTo
<1>6. /\ ~(run[r].phase \in Terminal /\ run[r].effect = "not_sent")
      /\ \A q \in Procs \ {p} : work[q].at \in Working /\ work[q].run = r /\ Current(q) => ~(
            \/ work[q].at \in Ending /\ run[r].effect = "not_sent"
            \/ work[q].at = "settle" /\ work[q].effect = "not_sent")
  <2>1. CASE AssertFill(p)
    <3>1. Current(p) /\ Active(r)
      BY Zenon, <1>0, <1>2, <2>1 DEF AssertFill, FillAllowed, Uncancelled, Fenced, Claimed, Current
    <3>2. run[r].phase \notin Terminal  BY Zenon, <3>1, ActiveRuns DEF Active
    <3>3. \A q \in Procs \ {p} : work[q].at \in Working /\ work[q].run = r => ~Current(q)
      BY Zenon, <1>1, <1>2, <3>1 DEF IInv, Claims, Current
    <3> QED  BY Zenon, <3>2, <3>3
  <2>2. CASE Input(p)
    <3>1. ~Clear(r)  BY Zenon, <1>2, <2>2 DEF Input, Clear
    <3> QED  BY ZenonT(40), <1>2, <3>1 DEF Told, RowTold, WorkerTold
  <2> QED  BY Zenon, <2>1, <2>2
<1>7. \A x \in Runs : RowTold(x)'
  BY Zenon, <1>3, <1>5, <1>6 DEF Told, RowTold
<1>8. WorkerTold(p)'
  <2>1. work'[p].at = at /\ work'[p].run = r /\ Sent(r)' = work'[p].epoch
    BY Zenon, <1>2, <1>3, <1>4 DEF MovesTo, Sent
  <2>2. at \notin Ending \cup {"settle", "enter", "persist", "hold", "checking"}  BY Zenon DEF Ending
  <2> QED  BY Zenon, <2>1, <2>2 DEF WorkerTold, Verifies
<1>9. ASSUME NEW q \in Procs \ {p} PROVE WorkerTold(q)'
  <2>1. CASE work[q].at \in Working
    <3>0. PICK x \in Runs : x = work[q].run  BY Zenon, <2>1 DEF IInv, Claims
    <3>4. work'[q] = work[q] /\ run' = run /\ log' = log  BY Zenon, <1>3, <1>4 DEF MovesTo
    <3>1. /\ work'[q] = work[q] /\ run' = run /\ log' = log /\ Sent(x)' = Sent(x)
          /\ Verifies(q)' = Verifies(q) /\ Current(q)' = Current(q)
      BY Zenon, <3>4 DEF Verifies, Current, Sent
    <3>2. CASE x = r  BY Zenon, <1>6, <2>1, <3>0, <3>1, <3>2 DEF Told, WorkerTold
    <3>3. CASE x # r  BY Zenon, <1>5, <3>0, <3>1, <3>3 DEF Told, WorkerTold
    <3> QED  BY Zenon, <3>2, <3>3
  <2>2. CASE work[q].at \notin Working
    BY Zenon, <1>4, <2>2, Places DEF WorkerTold, Verifies, MovesTo
  <2> QED  BY Zenon, <2>1, <2>2
<1>10. Verdicts  BY Zenon, <1>3 DEF Verdicts, Verdict
<1> QED  BY Zenon, <1>7, <1>8, <1>9, <1>10 DEF Told

\* The sealing worker is the reporting one: no other verdict is on its way.
LEMMA EnterTold ==
    ASSUME IInv, Told, NEW p \in Procs, Enter(p)
    PROVE  Told' /\ Verdicts
<1>0. PICK r : r = R(p)  BY Zenon
<1>1. work[p].at = "enter" /\ work[p].at \in Working /\ work[p].at \in Sending
  BY Zenon, Places DEF Enter
<1>2. r \in Runs /\ r = work[p].run /\ Sent(r) = work[p].epoch /\ RowTold(r)
  BY Zenon, <1>0, <1>1, AtWork DEF WorkerTold
<1>3. /\ run' = [run EXCEPT ![r] = [run[r] EXCEPT !.phase = "waiting_user"]]
      /\ log' = [log EXCEPT ![r].sealed = TRUE] /\ UNCHANGED <<sub, form>>
      /\ run[r].effect = "acknowledged" /\ ~run[r].cancel /\ run[r].phase \in {"running", "verifying"}
      /\ log[r].report \in {"filled", "takeover"}
  BY ZenonT(40), <1>0 DEF Enter, Update, Uncancelled
<1>4. /\ \A x \in Runs : /\ run'[x].epoch = run[x].epoch /\ run'[x].effect = run[x].effect
                         /\ run'[x].verified = run[x].verified
                         /\ log'[x].sent = log[x].sent /\ log'[x].report = log[x].report
                         /\ log'[x].closed = log[x].closed
      /\ run'[r].phase = "waiting_user" /\ log'[r].sealed
      /\ \A x \in Runs \ {r} : run'[x] = run[x] /\ log'[x] = log[x]
  BY SMTT(40), <1>2, <1>3 DEF IInv, RowShape, NoRun, NoLog
<1>5. MovesTo(p, "hold") \/ Rests(p)  BY Zenon, WorkWrites DEF Enter
<1>6. \A x \in Runs : Clear(x) => Clear(x)'
  BY Zenon, <1>3, <1>5 DEF Clear, MovesTo, Rests
<1>7. ASSUME NEW x \in Runs PROVE RowTold(x)'
  <2>1. RowTold(x) /\ (Clear(x) => Clear(x)') /\ form' = form  BY Zenon, <1>3, <1>6 DEF Told
  <2>2. CASE x # r  BY Zenon, <1>4, <2>1, <2>2 DEF RowTold
  <2>3. CASE x = r
    <3>1. /\ run'[x].phase \notin Terminal /\ run'[x].effect # "not_sent" /\ log'[x].report # "none"
          /\ log'[x].report = log[x].report
      BY SMTT(40), <1>2, <1>3, <1>4, <2>3 DEF Terminal
    <3> QED  BY ZenonT(40), <2>1, <3>1 DEF RowTold
  <2> QED  BY Zenon, <2>2, <2>3
<1>8. WorkerTold(p)'
  <2>1. CASE MovesTo(p, "hold")
    <3>1. work'[p].at = "hold" /\ work'[p].run = r /\ Sent(r)' = work'[p].epoch /\ log'[r].sealed
      BY Zenon, <1>2, <1>4, <2>1 DEF MovesTo, Sent
    <3> QED  BY Zenon, <3>1, Places DEF WorkerTold, Verifies
  <2>2. CASE Rests(p)  BY Zenon, <2>2, Places DEF Rests, WorkerTold, Verifies
  <2> QED  BY Zenon, <1>5, <2>1, <2>2
<1>9. ASSUME NEW q \in Procs \ {p} PROVE WorkerTold(q)'
  <2>0. work'[q] = work[q]  BY Zenon, <1>5 DEF MovesTo, Rests
  <2>1. CASE work[q].at \in Working
    <3>0. PICK x \in Runs : x = work[q].run  BY Zenon, <2>1 DEF IInv, Claims
    <3>1. Verifies(q) => x # r
      BY Zenon, <1>1, <1>2, <2>1, <3>0 DEF Told, WorkerTold, IInv, Claims
    <3>3. /\ run'[x].epoch = run[x].epoch /\ log'[x].sent = log[x].sent /\ run'[x].effect = run[x].effect
          /\ log[x].sealed => log'[x].sealed
          /\ x # r => log'[x] = log[x]
      BY Zenon, <1>4
    <3>4. Verifies(q)' => Verifies(q)
      <4>1. work'[q].at = work[q].at /\ work'[q].verified = work[q].verified  BY Zenon, <2>0
      <4> QED  BY Zenon, <4>1 DEF Verifies
    <3>5. Current(q)' = Current(q)  BY Zenon, <2>0, <3>0, <3>3 DEF Current
    <3>2. /\ run'[x].effect = run[x].effect /\ Sent(x)' = Sent(x) /\ (Clear(x) => Clear(x)')
          /\ log[x].sealed => log'[x].sealed
          /\ x # r => log'[x] = log[x]
      BY Zenon, <1>6, <3>3 DEF Sent
    <3> QED  BY ZenonT(40), <2>0, <3>0, <3>1, <3>2, <3>4, <3>5 DEF Told, WorkerTold
  <2>2. CASE work[q].at \notin Working
    BY Zenon, <2>0, <2>2, Places DEF WorkerTold, Verifies
  <2> QED  BY Zenon, <2>1, <2>2
<1>10. Verdicts
  <2>1. run[r].phase \notin Terminal  BY Zenon, <1>3 DEF Terminal
  <2> QED  BY ZenonT(40), <1>3, <1>4, <2>1 DEF Verdicts, Verdict
<1> QED  BY Zenon, <1>7, <1>8, <1>9, <1>10 DEF Told

-----------------------------------------------------------------------------
(* The lease of an open window: steps that leave it alone.                 *)

\* No run gets another lease.
LeaseKept == \A r \in Runs : run'[r].lease = run[r].lease

\* A worker stays, or goes where no lease has to be known; it may forget.
Loose(q) ==
    \/ work'[q] = work[q] /\ mem'[q] = mem[q]
    \/ work'[q].at \notin Knowing /\ \A r \in Runs : mem'[q][r].epoch \in {mem[q][r].epoch, 0}

LEMMA KnowingWorks ==
    ASSUME IInv, NEW q \in Procs, work[q].at \in Knowing
    PROVE  work[q].run \in Runs
BY Zenon DEF IInv, Claims, Working, Early, Late, Knowing

LEMMA SoleStays ==
    ASSUME Sole, \A q \in Procs, x \in Runs : mem'[q][x].epoch \in {mem[q][x].epoch, 0}
    PROVE  Sole'
<1> SUFFICES ASSUME NEW p \in Procs, NEW q \in Procs, NEW r \in Runs,
                    mem'[p][r].epoch = mem'[q][r].epoch, mem'[p][r].epoch # 0
             PROVE  p = q
  BY Zenon DEF Sole
<1>1. mem'[p][r].epoch = mem[p][r].epoch /\ mem'[q][r].epoch = mem[q][r].epoch  BY Zenon
<1> QED  BY Zenon, <1>1 DEF Sole

LEMMA LooseBinding ==
    ASSUME IInv, Binding, lease' = lease, alive' \subseteq alive, LeaseKept, \A q \in Procs : Loose(q)
    PROVE  Binding'
<1>1. \A q \in Procs, r \in Runs : mem'[q][r].epoch \in Nat /\ mem'[q][r].epoch <= lease'.epoch
  <2> TAKE q \in Procs, r \in Runs
  <2>1. mem'[q][r].epoch \in {mem[q][r].epoch, 0}  BY Zenon DEF Loose
  <2>2. lease.epoch \in Nat /\ mem[q][r].epoch \in Nat /\ mem[q][r].epoch <= lease.epoch
    BY Zenon DEF Binding
  <2> QED  BY <2>1, <2>2
<1>2. ASSUME NEW q \in Procs, work'[q].at \in Knowing
      PROVE  /\ work'[q] = work[q] /\ mem'[q] = mem[q] /\ work[q].run \in Runs
             /\ run'[work[q].run].lease = run[work[q].run].lease
  BY Zenon, <1>2, KnowingWorks DEF Loose, LeaseKept
<1>3. ASSUME NEW q \in Procs PROVE Known(q)'
  <2>1. CASE work'[q].at \in Knowing
    <3>0. PICK x \in Runs : x = work[q].run  BY Zenon, <1>2, <2>1
    <3>1. Known(q)  BY Zenon DEF Binding
    <3>2. /\ work'[q].at = work[q].at /\ work'[q].run = x /\ mem'[q][x] = mem[q][x]
          /\ run'[x].lease = run[x].lease
      BY Zenon, <1>2, <2>1, <3>0
    <3> QED  BY Zenon, <3>0, <3>1, <3>2 DEF Known
  <2>2. CASE work'[q].at \notin Knowing
    <3>1. work'[q].at \notin Attached \cup {"fence", "launch"}  BY Zenon, <2>2 DEF Knowing, Attached
    <3> QED  BY Zenon, <2>2, <3>1 DEF Known
  <2> QED  BY Zenon, <2>1, <2>2
<1>4. Sole'  BY Zenon, SoleStays DEF Binding, Loose
<1> QED  BY Zenon, <1>1, <1>3, <1>4 DEF Binding

\* The writes of a run's row that leave its lease.
LEMMA LeaseWrites ==
    ASSUME IInv, NEW r \in Runs
    PROVE  /\ run' = run => LeaseKept
           /\ \A phase : Update(r, [run[r] EXCEPT !.phase = phase]) => LeaseKept
           /\ \A p, e, phase, effect : Advance(p, r, e, phase, effect) => LeaseKept
           /\ \A p, e : PersistVerified(p, r, e) => LeaseKept
           /\ \A p, e, status : Finalize(p, r, e, status) => LeaseKept
           /\ \A reason : CloseHandoff(r, reason) => LeaseKept
           /\ Update(r, [run[r] EXCEPT !.ack = TRUE]) => LeaseKept
           /\ Update(r, [run[r] EXCEPT !.cancel = TRUE]) => LeaseKept
           /\ Update(r, [run[r] EXCEPT !.live = FALSE]) => LeaseKept
           /\ \A p : Update(r, ClaimedBy(p, r)) => LeaseKept
<1>0. ASSUME NEW row, Update(r, row), row.lease = run[r].lease PROVE LeaseKept
  BY Zenon, <1>0 DEF IInv, RowShape, LeaseKept, Update
<1>1. /\ \A phase : [run[r] EXCEPT !.phase = phase].lease = run[r].lease
      /\ \A phase, effect : [run[r] EXCEPT !.phase = phase, !.effect = effect].lease = run[r].lease
      /\ \A phase : [run[r] EXCEPT !.verified = TRUE, !.phase = phase].lease = run[r].lease
      /\ [run[r] EXCEPT !.ack = TRUE].lease = run[r].lease
      /\ [run[r] EXCEPT !.cancel = TRUE].lease = run[r].lease
      /\ [run[r] EXCEPT !.live = FALSE].lease = run[r].lease
      /\ \A p : ClaimedBy(p, r).lease = run[r].lease
  BY Zenon DEF IInv, RowShape, NoRun, ClaimedBy
<1>2. run' = run => LeaseKept  BY Zenon DEF LeaseKept
<1>3. \A phase : Update(r, [run[r] EXCEPT !.phase = phase]) => LeaseKept  BY Zenon, <1>0, <1>1
<1>4. \A p, e, phase, effect : Advance(p, r, e, phase, effect) => LeaseKept  BY Zenon, <1>0, <1>1 DEF Advance
<1>5. \A p, e : PersistVerified(p, r, e) => LeaseKept  BY Zenon, <1>0, <1>1 DEF PersistVerified
<1>6. \A p, e, status : Finalize(p, r, e, status) => LeaseKept  BY Zenon, <1>3 DEF Finalize
<1>7. \A reason : CloseHandoff(r, reason) => LeaseKept  BY Zenon, <1>3 DEF CloseHandoff
<1>8. Update(r, [run[r] EXCEPT !.ack = TRUE]) => LeaseKept  BY Zenon, <1>0, <1>1
<1>9. Update(r, [run[r] EXCEPT !.cancel = TRUE]) => LeaseKept  BY Zenon, <1>0, <1>1
<1>10. Update(r, [run[r] EXCEPT !.live = FALSE]) => LeaseKept  BY Zenon, <1>0, <1>1
<1>11. \A p : Update(r, ClaimedBy(p, r)) => LeaseKept  BY Zenon, <1>0, <1>1
<1> QED  BY Zenon, <1>2, <1>3, <1>4, <1>5, <1>6, <1>7, <1>8, <1>9, <1>10, <1>11

\* Where no lease has to be known.
LEMMA LooseMoves ==
    ASSUME NEW p \in Procs, mem' = mem
    PROVE  /\ Rests(p) => \A q \in Procs : Loose(q)
           /\ \A at : MovesTo(p, at) /\ at \notin Knowing => \A q \in Procs : Loose(q)
           /\ work' = work => \A q \in Procs : Loose(q)
<1>1. "idle" \notin Knowing /\ "pass" \notin Knowing  BY DEF Knowing
<1> QED  BY Zenon, <1>1 DEF Rests, MovesTo, Loose

LEMMA OwnerBinding ==
    ASSUME IInv, Binding, NEW r \in Runs,
           \/ Cancel(r) \/ RequestCheck(r) \/ Fills(r) \/ SubExits(r)
           \/ HandoffDue(r) \/ Lapses(r) \/ Passes(r)
    PROVE  Binding'
<1> USE DEF Cancel, RequestCancel, RequestCheck, Fills, SubExits, HandoffDue, Lapses, ClaimLapses, Passes,
        AuthorityLost
<1>1. lease' = lease /\ alive' = alive /\ work' = work /\ mem' = mem  BY Zenon
<1>2. LeaseKept  BY Zenon, LeaseWrites
<1>3. \A q \in Procs : Loose(q)  BY Zenon, <1>1 DEF Loose
<1> QED  BY Zenon, <1>1, <1>2, <1>3, LooseBinding

LEMMA WindowClosesBinding ==
    ASSUME IInv, Binding, NEW e, WindowCloses(e)
    PROVE  Binding'
<1>1. /\ lease' = lease /\ run' = run /\ work' = work /\ mem' = mem /\ alive' \subseteq alive
  BY Zenon DEF WindowCloses
<1> QED  BY Zenon, <1>1, LooseBinding DEF Loose, LeaseKept

\* The places a worker reaches when it has prepared, or has failed to.
LEMMA Elsewhere ==
    (Deciding \cup {"open", "reserve", "login", "spawn", "barred", "filling", "cleanup", "record"}) \cap Knowing = {}
BY DEF Knowing, Deciding

LEMMA WorkerBinding ==
    ASSUME IInv, Binding, NEW p \in Procs, lease' = lease, alive' = alive, mem' = mem, LeaseKept,
           Rests(p) \/ \E at : MovesTo(p, at) /\ at \notin Knowing
    PROVE  Binding'
<1>1. \A q \in Procs : Loose(q)  BY Zenon, LooseMoves
<1> QED  BY Zenon, <1>1, LooseBinding

LEMMA ClaimBinding ==
    ASSUME IInv, Binding, NEW p \in Procs, NEW r \in Runs, Claim(p, r) \/ CleanupPass(p, r)
    PROVE  Binding'
<1>1. lease' = lease /\ alive' = alive /\ mem' = mem  BY Zenon DEF Claim, CleanupPass
<1>2. LeaseKept  BY Zenon, LeaseWrites DEF Claim, CleanupPass
<1>3. "claimed" \notin Knowing /\ "pass" \notin Knowing  BY DEF Knowing
<1>4. work'[p].at \in {"claimed", "pass"} /\ \A q \in Procs \ {p} : work'[q] = work[q]
  BY ZenonT(40) DEF Claim, CleanupPass, IInv, WorkShape, Idle
<1>5. \A q \in Procs : Loose(q)  BY Zenon, <1>1, <1>3, <1>4 DEF Loose
<1> QED  BY Zenon, <1>1, <1>2, <1>5, LooseBinding

LEMMA BeginBinding ==
    ASSUME IInv, Binding, NEW p \in Procs, Begin(p) \/ SettleInterrupted(p)
    PROVE  Binding'
<1>1. lease' = lease /\ alive' = alive /\ mem' = mem  BY Zenon DEF Begin, SettleInterrupted
<1>2. R(p) \in Runs  BY Zenon DEF IInv, Claims, Working, Deciding, R, Begin, SettleInterrupted
<1>3. LeaseKept
  <2>1. CASE Begin(p)  BY Zenon, <1>2, <2>1, LeaseWrites DEF Begin, FinalizeHandoff
  <2>2. CASE SettleInterrupted(p)  BY Zenon, <1>2, <2>2, LeaseWrites DEF SettleInterrupted, FinalizeHandoff
  <2> QED  BY Zenon, <2>1, <2>2
<1>4. \E at \in {"cleanup", "complete", "cancel", "fail", "open"} : MovesTo(p, at)
  <2>1. \/ FinalizeHandoff(p, "interrupted")
        \/ \E at \in {"complete", "cancel", "fail", "open"} : Reads(p, at)
    BY Zenon DEF Begin, SettleInterrupted
  <2> QED  BY Zenon, <2>1, WorkWrites
<1>5. \A at \in {"cleanup", "complete", "cancel", "fail", "open"} : at \notin Knowing  BY DEF Knowing
<1> QED  BY Zenon, <1>1, <1>3, <1>4, <1>5, WorkerBinding

LEMMA FillBinding ==
    ASSUME IInv, Binding, NEW p \in Procs,
           \/ AssertFill(p) \/ Input(p) \/ PrepareFails(p) \/ Report(p) \/ FillFails(p)
           \/ Redecide(p) \/ HoldChecks(p) \/ Stop(p) \/ Abort(p) \/ Interrupt(p)
    PROVE  Binding'
<1>1. lease' = lease /\ alive' = alive /\ mem' = mem /\ run' = run
  BY Zenon DEF AssertFill, Input, PrepareFails, Report, FillFails, Redecide, HoldChecks, Stop, Abort, Interrupt
<1>2. \/ Rests(p)
      \/ \E at \in {"barred", "filling", "failed", "settle", "seal", "checking", "stopped", "cleanup", "interrupted"} :
           MovesTo(p, at)
  <2>1. CASE AssertFill(p) \/ Input(p)  BY Zenon, <2>1, WorkWrites DEF AssertFill, Input
  <2>2. CASE PrepareFails(p)  BY Zenon, <2>2, WorkWrites DEF PrepareFails
  <2>3. CASE Report(p)  BY Zenon, <2>3, WorkWrites DEF Report
  <2>4. CASE FillFails(p)  BY Zenon, <2>4, WorkWrites DEF FillFails
  <2>5. CASE Redecide(p)  BY Zenon, <2>5 DEF IInv, WorkShape, MovesTo, Idle, Redecide
  <2>6. CASE HoldChecks(p) \/ Stop(p)  BY Zenon, <2>6, WorkWrites DEF HoldChecks, Stop
  <2>7. CASE Abort(p) \/ Interrupt(p)  BY Zenon, <2>7, WorkWrites DEF Abort, Interrupt
  <2> QED  BY Zenon, <2>1, <2>2, <2>3, <2>4, <2>5, <2>6, <2>7
<1>3. \A at \in {"barred", "filling", "failed", "settle", "seal", "checking", "stopped", "cleanup", "interrupted"} :
         at \notin Knowing
  BY DEF Knowing
<1>4. LeaseKept  BY Zenon, <1>1 DEF LeaseKept
<1> QED  BY Zenon, <1>1, <1>2, <1>3, <1>4, WorkerBinding

LEMMA DecideBinding ==
    ASSUME IInv, Binding, NEW p \in Procs,
           \/ Failed(p) \/ Settle(p) \/ Persist(p) \/ Seal(p) \/ Enter(p)
           \/ HoldCompletes(p) \/ HoldCancels(p) \/ HoldCloses(p) \/ HoldExpires(p) \/ Checked(p)
           \/ Fail(p) \/ Complete(p) \/ Acknowledge(p) \/ EndCancelled(p)
    PROVE  Binding'
<1>1. lease' = lease /\ alive' = alive /\ mem' = mem /\ work[p].at \in Deciding
  BY Zenon DEF Failed, Settle, Persist, Seal, Enter, HoldCompletes, HoldCancels, HoldCloses, HoldExpires, Holding,
     Checked, Fail, Complete, Acknowledge, EndCancelled, Deciding
<1>2. R(p) \in Runs  BY Zenon, <1>1 DEF IInv, Claims, Working, R
<1>3. LeaseKept
  <2>1. CASE Failed(p) \/ HoldCancels(p)  BY Zenon, <2>1 DEF Failed, HoldCancels, LeaseKept
  <2>2. CASE Settle(p) \/ Seal(p)  BY Zenon, <1>2, <2>2, LeaseWrites DEF Settle, Seal
  <2>3. CASE Persist(p) \/ Enter(p) \/ Checked(p)  BY Zenon, <1>2, <2>3, LeaseWrites DEF Persist, Enter, Checked
  <2>4. CASE HoldCompletes(p) \/ Fail(p) \/ Complete(p) \/ EndCancelled(p)
    BY Zenon, <1>2, <2>4, LeaseWrites DEF HoldCompletes, Fail, Complete, EndCancelled, Ends
  <2>5. CASE HoldCloses(p) \/ HoldExpires(p)
    BY Zenon, <1>2, <2>5, LeaseWrites DEF HoldCloses, HoldExpires, FinalizeHandoff
  <2>6. CASE Acknowledge(p)  BY Zenon, <1>2, <2>6, LeaseWrites DEF Acknowledge
  <2> QED  BY Zenon, <2>1, <2>2, <2>3, <2>4, <2>5, <2>6
<1>4. Rests(p) \/ \E at \in Deciding \cup {"cleanup"} : MovesTo(p, at)
  <2> USE DEF Deciding
  <2>1. CASE Failed(p) \/ HoldCancels(p)  BY Zenon, <2>1, WorkWrites DEF Failed, HoldCancels
  <2>2. CASE Settle(p) \/ Seal(p)  BY Zenon, <2>2, WorkWrites DEF Settle, Seal
  <2>3. CASE Persist(p) \/ Enter(p)  BY Zenon, <2>3, WorkWrites DEF Persist, Enter
  <2>4. CASE Checked(p)  BY Zenon, <2>4, WorkWrites DEF Checked
  <2>5. CASE HoldCompletes(p) \/ Fail(p) \/ Complete(p) \/ EndCancelled(p)
    BY Zenon, <2>5, WorkWrites DEF HoldCompletes, Fail, Complete, EndCancelled
  <2>6. CASE HoldCloses(p) \/ HoldExpires(p)  BY Zenon, <2>6, WorkWrites DEF HoldCloses, HoldExpires
  <2>7. CASE Acknowledge(p)  BY Zenon, <2>7, WorkWrites DEF Acknowledge
  <2> QED  BY Zenon, <2>1, <2>2, <2>3, <2>4, <2>5, <2>6, <2>7
<1>5. \A at \in Deciding \cup {"cleanup"} : at \notin Knowing  BY Zenon, Elsewhere
<1> QED  BY Zenon, <1>1, <1>3, <1>4, <1>5, WorkerBinding

LEMMA QuarantineHistoricalBinding ==
    ASSUME IInv, Binding, NEW p \in Procs, QuarantineHistorical(p)
    PROVE  Binding'
<1>1. LeaseKept  BY DEF QuarantineHistorical, Update, LeaseKept, IInv, RowShape, NoRun
<1> QED  BY Zenon, <1>1, WorkWrites, WorkerBinding DEF QuarantineHistorical

\* A process that leaves forgets its leases, and its browsers are gone.
LEMMA LeaveBinding ==
    ASSUME IInv, Binding, NEW p \in Procs, Record(p) \/ CleanupFails(p) \/ Crash(p)
    PROVE  Binding'
<1>1. lease' = lease /\ alive' \subseteq alive /\ work' = [work EXCEPT ![p] = Idle]
  BY Zenon DEF Record, CleanupFails, Crash, Leaves
<1>2. mem' = mem \/ mem' = [mem EXCEPT ![p] = [r \in Runs |-> NoState]]
  BY Zenon DEF Record, CleanupFails, Crash, Leaves
<1>3. LeaseKept
  BY DEF Record, RecordCleanup, CleanupFails, Crash, Update, LeaseKept, IInv, RowShape, NoRun
<1>4. Rests(p)  BY Zenon, <1>1, WorkWrites
<1>5. \A q \in Procs : Loose(q)
  <2>1. work'[p].at \notin Knowing /\ \A q \in Procs \ {p} : work'[q] = work[q]
    BY Zenon, <1>4 DEF Rests, Knowing
  <2>2. /\ \A q \in Procs \ {p} : mem'[q] = mem[q]
        /\ \A r \in Runs : mem'[p][r].epoch \in {mem[p][r].epoch, 0}
    <3>1. CASE mem' = mem  BY Zenon, <3>1
    <3>2. CASE mem' = [mem EXCEPT ![p] = [r \in Runs |-> NoState]]
      BY <3>2 DEF IInv, MemShape, NoState
    <3> QED  BY Zenon, <1>2, <3>1, <3>2
  <2> QED  BY Zenon, <2>1, <2>2 DEF Loose
<1> QED  BY Zenon, <1>1, <1>3, <1>5, LooseBinding

LEMMA OpenBinding ==
    ASSUME IInv, Binding, NEW p \in Procs, Open(p)
    PROVE  Binding'
<1>1. lease' = lease /\ alive' = alive /\ run' = run  BY Zenon DEF Open
<1>2. \E at \in {"failed", "reserve", "settle"} : MovesTo(p, at)  BY Zenon, WorkWrites DEF Open
<1>3. mem' = mem \/ Remembers(p, [NoState EXCEPT !.st = "open", !.claim = work[p].epoch])
  BY Zenon DEF Open
<1>4. \A q \in Procs : Loose(q)
  <2>1. work'[p].at \notin Knowing /\ \A q \in Procs \ {p} : work'[q] = work[q]
    BY Zenon, <1>2 DEF MovesTo, Knowing
  <2>2. /\ \A q \in Procs \ {p} : mem'[q] = mem[q]
        /\ \A r \in Runs : mem'[p][r].epoch \in {mem[p][r].epoch, 0}
    <3>1. CASE mem' = mem  BY Zenon, <3>1
    <3>2. CASE Remembers(p, [NoState EXCEPT !.st = "open", !.claim = work[p].epoch])
      BY <3>2 DEF IInv, MemShape, NoState, Remembers
    <3> QED  BY Zenon, <1>3, <3>1, <3>2
  <2> QED  BY Zenon, <2>1, <2>2 DEF Loose
<1> QED  BY Zenon, <1>1, <1>4, LooseBinding DEF LeaseKept

-----------------------------------------------------------------------------
(* The steps that reserve, attach, use and give back the lease.            *)

\* What a worker that stays knows is not lost by a step that turns no lease in
\* use into a reservation and, while a browser is being started, releases none.
LEMMA StillKnown ==
    ASSUME Binding, NEW q \in Procs, work'[q] = work[q], mem'[q] = mem[q],
           work[q].at \in Attached => run'[work[q].run].lease = run[work[q].run].lease,
           /\ work[q].at = "fence" /\ lease'.phase = "reservation_only" /\ lease'.state # "released"
              => lease'.epoch # mem[q][work[q].run].epoch \/ lease' = lease,
           /\ work[q].at = "launch" /\ lease.state # "released" =>
              \/ lease' = lease
              \/ /\ lease'.run = lease.run /\ lease'.epoch = lease.epoch
                 /\ lease'.state # "released" /\ lease'.phase # "reservation_only"
    PROVE  Known(q)'
<1>1. Known(q)  BY Zenon DEF Binding
<1> QED  BY Zenon, <1>1 DEF Known

LEMMA AcceptBinding ==
    ASSUME IInv, Binding, NEW r \in Runs, Accept(r)
    PROVE  Binding'
<1>1. /\ run' = [run EXCEPT ![r] = Accepted] /\ run[r].phase = "none"
      /\ lease' = lease /\ work' = work /\ mem' = mem /\ alive' = alive
  BY Zenon DEF Accept, Update
<1>2. ASSUME NEW q \in Procs PROVE Known(q)'
  <2>1. ASSUME work[q].at \in Attached PROVE run'[work[q].run].lease = run[work[q].run].lease
    <3>1. work[q].at \in Working  BY Zenon, <2>1 DEF Attached, Working, Early, Late
    <3>2. work[q].run \in Runs /\ work[q].run # r  BY <1>1, <3>1 DEF IInv, Claims
    <3> QED  BY Zenon, <1>1, <3>2 DEF IInv, RowShape
  <2> QED  BY Zenon, <1>1, <2>1, StillKnown
<1>3. Sole'  BY Zenon, <1>1, SoleStays DEF Binding
<1> QED  BY Zenon, <1>1, <1>2, <1>3 DEF Binding

\* A released lease has no window, and a new reservation has a new epoch.
LEMMA ReserveBinding ==
    ASSUME IInv, Binding, NEW p \in Procs, Reserve(p)
    PROVE  Binding'
<1>0. PICK r \in Runs : r = R(p) /\ r = work[p].run
  BY Zenon DEF IInv, Claims, Working, Early, R, Reserve
<1>1. /\ lease.state = "released" /\ lease' = Reserved(r) /\ run' = run /\ alive' = alive
  BY Zenon, <1>0 DEF Reserve
<1>2. lease.epoch \in Nat /\ alive = {}  BY Zenon, <1>1 DEF Binding
<1>3. /\ DOMAIN lease' = DOMAIN NoLease /\ lease'.epoch = lease.epoch + 1
  BY <1>1 DEF Reserved, NoLease
<1>4. \/ Remembers(p, [State(p) EXCEPT !.st = "claimed", !.epoch = lease'.epoch]) /\ MovesTo(p, "attach")
      \/ mem' = mem /\ MovesTo(p, "failed")
  BY Zenon, WorkWrites DEF Reserve
<1>5. /\ \A q \in Procs, x \in Runs : mem'[q][x].epoch \in {mem[q][x].epoch, lease'.epoch}
      /\ \A q \in Procs \ {p} : mem'[q] = mem[q]
      /\ MovesTo(p, "attach") => mem'[p][r].epoch = lease'.epoch
  <2>1. CASE Remembers(p, [State(p) EXCEPT !.st = "claimed", !.epoch = lease'.epoch])
    <3>1. mem' = [mem EXCEPT ![p][r] = [mem[p][r] EXCEPT !.st = "claimed", !.epoch = lease'.epoch]]
      BY Zenon, <1>0, <2>1 DEF Remembers, State
    <3>2. PICK e : e = lease'.epoch  BY Zenon
    <3>3. /\ mem'[p][r].epoch = e /\ \A x \in Runs \ {r} : mem'[p][x] = mem[p][x]
          /\ \A q \in Procs \ {p} : mem'[q] = mem[q]
      BY Zenon, <3>1, <3>2 DEF IInv, MemShape, NoState
    <3> QED  BY Zenon, <3>2, <3>3
  <2>2. CASE mem' = mem /\ MovesTo(p, "failed")  BY Zenon, <2>2 DEF MovesTo
  <2> QED  BY Zenon, <1>4, <2>1, <2>2
<1>6. \A q \in Procs, x \in Runs : mem'[q][x].epoch \in Nat /\ mem'[q][x].epoch <= lease'.epoch
  BY <1>2, <1>3, <1>5 DEF Binding
<1>7. Known(p)'
  <2>1. CASE MovesTo(p, "attach")
    <3>1. work'[p].at = "attach" /\ mem'[p][work'[p].run].epoch = lease'.epoch
      BY Zenon, <1>0, <1>5, <2>1 DEF MovesTo
    <3>2. lease'.epoch # 0  BY <1>2, <1>3
    <3> QED  BY Zenon, <3>1, <3>2 DEF Known, Attached
  <2>2. CASE MovesTo(p, "failed")
    BY Zenon, <2>2 DEF MovesTo, Known, Knowing, Attached
  <2> QED  BY Zenon, <1>4, <2>1, <2>2
<1>8. ASSUME NEW q \in Procs \ {p} PROVE Known(q)'
  <2>1. work'[q] = work[q] /\ mem'[q] = mem[q]  BY Zenon, <1>4, <1>5 DEF MovesTo
  <2>2. ASSUME work[q].at = "fence" PROVE lease'.epoch # mem[q][work[q].run].epoch
    <3>1. work[q].run \in Runs  BY Zenon, <2>2, KnowingWorks DEF Knowing
    <3>2. mem[q][work[q].run].epoch \in Nat /\ mem[q][work[q].run].epoch <= lease.epoch
      BY Zenon, <3>1 DEF Binding
    <3> QED  BY <1>2, <1>3, <3>2
  <2> QED  BY Zenon, <1>1, <2>1, <2>2, StillKnown
<1>9. lease'.epoch \in Nat  BY <1>2, <1>3
<1>10. Sole'
  <2>1. \A q \in Procs, x \in Runs : mem[q][x].epoch # lease'.epoch  BY <1>2, <1>3 DEF Binding
  <2>2. \A q \in Procs, x \in Runs : mem'[q][x].epoch # lease'.epoch \/ q = p
    BY Zenon, <1>5, <2>1
  <2> SUFFICES ASSUME NEW q \in Procs, NEW o \in Procs, NEW x \in Runs,
                      mem'[q][x].epoch = mem'[o][x].epoch, mem'[q][x].epoch # 0
               PROVE  q = o
    BY Zenon DEF Sole
  <2>3. CASE mem'[q][x].epoch = lease'.epoch  BY Zenon, <2>2, <2>3
  <2>4. CASE mem'[q][x].epoch # lease'.epoch
    <3>1. mem'[q][x].epoch = mem[q][x].epoch /\ mem'[o][x].epoch = mem[o][x].epoch
      BY Zenon, <1>5, <2>4
    <3>2. mem[q][x].epoch = mem[o][x].epoch /\ mem[q][x].epoch # 0  BY Zenon, <3>1
    <3>3. Sole  BY Zenon DEF Binding
    <3> QED  BY Zenon, <3>2, <3>3 DEF Sole
  <2> QED  BY Zenon, <2>3, <2>4
<1> QED  BY Zenon, <1>1, <1>2, <1>3, <1>6, <1>7, <1>8, <1>9, <1>10 DEF Binding

\* The lease is attached to a run that has none, of which no other worker knows one.
LEMMA AttachBinding ==
    ASSUME IInv, Binding, NEW p \in Procs, Attach(p)
    PROVE  Binding'
<1>0. PICK r \in Runs : r = R(p) /\ r = work[p].run
  BY Zenon DEF IInv, Claims, Working, Early, R, Attach
<1>1. /\ work[p].at = "attach" /\ run[r].lease = 0
      /\ run' = [run EXCEPT ![r] = [run[r] EXCEPT !.lease = mem[p][r].epoch]]
      /\ lease' = lease /\ mem' = mem /\ alive' = alive
  BY Zenon, <1>0 DEF Attach, Update, State
<1>2. MovesTo(p, "start")  BY Zenon, WorkWrites DEF Attach
<1>3. run'[r].lease = mem[p][r].epoch /\ \A x \in Runs \ {r} : run'[x] = run[x]
  BY Zenon, <1>1 DEF IInv, RowShape, NoRun
<1>4. Known(p)'
  <2>1. mem[p][r].epoch # 0  BY Zenon, <1>0, <1>1 DEF Binding, Known, Knowing
  <2>2. work'[p].at = "start" /\ work'[p].run = r  BY Zenon, <1>0, <1>2 DEF MovesTo
  <2> QED  BY Zenon, <1>1, <1>3, <2>1, <2>2 DEF Known
<1>5. ASSUME NEW q \in Procs \ {p} PROVE Known(q)'
  <2>1. work'[q] = work[q] /\ mem'[q] = mem[q]  BY Zenon, <1>1, <1>2 DEF MovesTo
  <2>2. ASSUME work[q].at \in Attached PROVE run'[work[q].run].lease = run[work[q].run].lease
    <3>1. work[q].at \in Knowing  BY Zenon, <2>2 DEF Attached, Knowing
    <3>2. work[q].run \in Runs  BY Zenon, <3>1, KnowingWorks
    <3>3. run[work[q].run].lease # 0  BY Zenon, <2>2, <3>1 DEF Binding, Known
    <3> QED  BY Zenon, <1>1, <1>3, <3>2, <3>3
  <2> QED  BY Zenon, <1>1, <2>1, <2>2, StillKnown
<1>6. Sole'  BY Zenon, <1>1, SoleStays DEF Binding
<1> QED  BY ZenonT(40), <1>1, <1>4, <1>5, <1>6 DEF Binding

LEMMA StartBinding ==
    ASSUME IInv, Binding, NEW p \in Procs, StartExecution(p) \/ ReserveFill(p)
    PROVE  Binding'
<1>0. PICK r \in Runs : r = R(p) /\ r = work[p].run
  BY Zenon DEF IInv, Claims, Working, Early, R, StartExecution, ReserveFill
<1>1. lease' = lease /\ mem' = mem /\ alive' = alive /\ work[p].at \in {"start", "fill"}
  BY Zenon DEF StartExecution, ReserveFill
<1>2. PICK at \in {"fill", "acquire"} : MovesTo(p, at)
  BY Zenon, WorkWrites DEF StartExecution, ReserveFill
<1>3. LeaseKept
  <2>1. CASE StartExecution(p)  BY Zenon, <1>0, <2>1, LeaseWrites DEF StartExecution
  <2>2. CASE ReserveFill(p)  BY Zenon, <2>2 DEF ReserveFill, LeaseKept
  <2> QED  BY Zenon, <2>1, <2>2
<1>4. Known(p)'
  <2>1. Known(p) /\ work[p].at \in Attached /\ work[p].at \in Knowing
    BY Zenon, <1>1 DEF Binding, Attached, Knowing
  <2>2. /\ work'[p].at = at /\ work'[p].run = r /\ run'[r].lease = run[r].lease
    BY Zenon, <1>0, <1>2, <1>3 DEF MovesTo, LeaseKept
  <2> QED  BY Zenon, <1>0, <1>1, <2>1, <2>2 DEF Known
<1>5. ASSUME NEW q \in Procs \ {p} PROVE Known(q)'
  <2>1. work'[q] = work[q] /\ mem'[q] = mem[q]  BY Zenon, <1>1, <1>2 DEF MovesTo
  <2>2. work[q].at \in Attached => run'[work[q].run].lease = run[work[q].run].lease
    BY Zenon, <1>3, KnowingWorks DEF LeaseKept, Attached, Knowing
  <2> QED  BY Zenon, <1>1, <2>1, <2>2, StillKnown
<1>6. Sole'  BY Zenon, <1>1, SoleStays DEF Binding
<1> QED  BY ZenonT(40), <1>1, <1>4, <1>5, <1>6 DEF Binding

\* The lease is in use before the browser is started.
LEMMA AcquireBinding ==
    ASSUME IInv, Binding, NEW p \in Procs, Acquire(p) \/ Login(p)
    PROVE  Binding'
<1>0. PICK r \in Runs : r = work[p].run
  BY Zenon DEF IInv, Claims, Working, Late, Acquire, Login
<1>1. mem' = mem /\ run' = run /\ alive' = alive  BY Zenon DEF Acquire, Login
<1>2. /\ DOMAIN lease' = DOMAIN NoLease /\ lease'.run = lease.run
      /\ lease'.epoch = lease.epoch /\ lease'.state = lease.state
      /\ lease'.phase \in {"acquiring", "acquired"}
  BY DEF Acquire, Login, StartAcquisition, RecordAcquired, Binding, NoLease
<1>3. lease'.phase # "reservation_only"  BY Zenon, <1>2
<1>4. (work[p].at = "acquire" /\ MovesTo(p, "fence")) \/ MovesTo(p, "spawn")
  BY Zenon, WorkWrites DEF Acquire, Login
<1>5. Known(p)'
  <2>1. CASE work[p].at = "acquire" /\ MovesTo(p, "fence")
    <3>1. Known(p) /\ work[p].at \in Attached /\ work[p].at \in Knowing
      BY Zenon, <2>1 DEF Binding, Attached, Knowing
    <3>2. work'[p].run = r /\ work'[p].at = "fence"  BY Zenon, <1>0, <2>1 DEF MovesTo
    <3> QED  BY Zenon, <1>0, <1>1, <1>3, <3>1, <3>2 DEF Known
  <2>2. CASE MovesTo(p, "spawn")  BY Zenon, <2>2 DEF MovesTo, Known, Knowing, Attached
  <2> QED  BY Zenon, <1>4, <2>1, <2>2
<1>6. ASSUME NEW q \in Procs \ {p} PROVE Known(q)'
  <2>1. work'[q] = work[q] /\ mem'[q] = mem[q]  BY Zenon, <1>1, <1>4 DEF MovesTo
  <2> QED  BY Zenon, <1>1, <1>2, <1>3, <2>1, StillKnown
<1>7. Sole'  BY Zenon, <1>1, SoleStays DEF Binding
<1> QED  BY ZenonT(40), <1>1, <1>2, <1>3, <1>5, <1>6, <1>7 DEF Binding

\* The fence before the launch finds the attached lease held.
LEMMA LaunchFenceBinding ==
    ASSUME IInv, Binding, NEW p \in Procs, LaunchFence(p)
    PROVE  Binding'
<1>0. PICK r \in Runs : r = R(p) /\ r = work[p].run
  BY Zenon DEF IInv, Claims, Working, Late, R, LaunchFence
<1>1. work[p].at = "fence" /\ run' = run /\ lease' = lease /\ alive' = alive /\ mem' = mem
  BY Zenon DEF LaunchFence
<1>2. Known(p) /\ "fence" \in Attached /\ "fence" \in Knowing  BY Zenon DEF Binding, Attached, Knowing
<1>3. MovesTo(p, "launch")  BY Zenon, WorkWrites DEF LaunchFence
<1>4. Known(p)'
  <2>1. run[r].lease = mem[p][r].epoch /\ mem[p][r].epoch # 0  BY Zenon, <1>0, <1>1, <1>2 DEF Known
  <2>2. LeaseCurrent(r, run[r].lease)
    BY Zenon, <1>0, <2>1 DEF LaunchFence, Uncancelled, Fenced
  <2>3. lease.run = r /\ lease.epoch = mem[p][r].epoch /\ lease.state # "released"
    BY Zenon, <2>1, <2>2 DEF LeaseCurrent
  <2>4. lease.phase # "reservation_only"  BY Zenon, <1>0, <1>1, <1>2, <2>3 DEF Known
  <2>5. work'[p].at = "launch" /\ work'[p].run = r  BY Zenon, <1>0, <1>3 DEF MovesTo
  <2> QED  BY Zenon, <1>1, <2>1, <2>3, <2>4, <2>5 DEF Known
<1>5. ASSUME NEW q \in Procs \ {p} PROVE Known(q)'
  <2>1. work'[q] = work[q] /\ mem'[q] = mem[q]  BY Zenon, <1>1, <1>3 DEF MovesTo
  <2> QED  BY Zenon, <1>1, <2>1, StillKnown
<1>6. Sole'  BY Zenon, <1>1, SoleStays DEF Binding
<1> QED  BY ZenonT(40), <1>1, <1>4, <1>5, <1>6 DEF Binding

LEMMA LaunchBinding ==
    ASSUME IInv, Binding, NEW p \in Procs, Launch(p)
    PROVE  Binding'
<1>0. PICK r \in Runs : r = R(p) /\ r = work[p].run
  BY Zenon DEF IInv, Claims, Working, Late, R, Launch
<1>1. /\ work[p].at = "launch" /\ run' = run /\ lease' = lease
      /\ alive' = alive \cup {mem[p][r].epoch}
      /\ mem' = [mem EXCEPT ![p][r] = [mem[p][r] EXCEPT !.st = "launched"]]
  BY Zenon, <1>0 DEF Launch, State, Remembers
<1>2. Known(p)  BY Zenon DEF Binding
<1>3. /\ lease.epoch = mem[p][r].epoch /\ lease.state # "released" /\ lease.phase # "reservation_only"
  BY Zenon, <1>0, <1>1, <1>2 DEF Known
<1>4. /\ \A q \in Procs, x \in Runs : mem'[q][x].epoch = mem[q][x].epoch
      /\ \A q \in Procs \ {p} : mem'[q] = mem[q]
  BY Zenon, <1>1 DEF IInv, MemShape, NoState
<1>5. MovesTo(p, "login")  BY Zenon, WorkWrites DEF Launch
<1>6. Known(p)'  BY Zenon, <1>5 DEF MovesTo, Known, Knowing, Attached
<1>7. ASSUME NEW q \in Procs \ {p} PROVE Known(q)'
  <2>1. work'[q] = work[q] /\ mem'[q] = mem[q]  BY Zenon, <1>4, <1>5 DEF MovesTo
  <2> QED  BY Zenon, <1>1, <2>1, StillKnown
<1>8. Sole'  BY Zenon, <1>4, SoleStays DEF Binding
<1> QED  BY ZenonT(40), <1>1, <1>3, <1>4, <1>6, <1>7, <1>8 DEF Binding

\* A lease is given back when it was a mere reservation, or with its window.
LEMMA CleanupBinding ==
    ASSUME IInv, Binding, NEW p \in Procs, Cleanup(p)
    PROVE  Binding'
<1>1. run' = run  BY Zenon DEF Cleanup
<1>2. MovesTo(p, "record")  BY DEF IInv, WorkShape, MovesTo, Idle, Cleanup
<1>3. PICK outcome : CleanLaunched(p, outcome) \/ CleanClaimed(p, outcome) \/ CleanUnknown(p, outcome)
  BY Zenon DEF Cleanup
<1>4. ASSUME NEW proof, LeaseCleanup(proof)
      PROVE  /\ DOMAIN lease' = DOMAIN NoLease /\ lease'.epoch = lease.epoch
             /\ lease'.state = "released" => proof \/ lease.phase = "reservation_only"
             /\ lease'.state # "released" => lease'.phase = "unknown" /\ lease'.run = lease.run
  BY <1>4 DEF LeaseCleanup, Releases, Binding, NoLease
<1>5. /\ alive' \subseteq alive
      /\ lease' = lease \/ /\ DOMAIN lease' = DOMAIN NoLease /\ lease'.epoch = lease.epoch
                           /\ lease'.state = "released" => alive' = {}
                           /\ lease'.state # "released" => lease'.phase = "unknown"
  <2>0. lease.phase = "reservation_only" => alive = {}  BY Zenon DEF Binding
  <2>1. CASE CleanLaunched(p, outcome)
    <3>1. CASE alive' = alive \ {State(p).epoch} /\ LeaseOf(R(p), State(p).epoch)
      <4>1. alive' = {} /\ alive' \subseteq alive  BY Zenon, <3>1 DEF Binding, LeaseOf
      <4> QED  BY Zenon, <1>4, <2>1, <4>1 DEF CleanLaunched
    <3>2. CASE alive' = alive /\ LeaseCleanup(FALSE)
      BY Zenon, <1>4, <2>0, <3>2
    <3> QED  BY Zenon, <2>1, <3>1, <3>2 DEF CleanLaunched
  <2>2. CASE CleanClaimed(p, outcome)  BY Zenon, <1>4, <2>0, <2>2 DEF CleanClaimed
  <2>3. CASE CleanUnknown(p, outcome)  BY Zenon, <2>3 DEF CleanUnknown
  <2> QED  BY Zenon, <1>3, <2>1, <2>2, <2>3
<1>6. /\ \A q \in Procs, x \in Runs : mem'[q][x].epoch = mem[q][x].epoch
      /\ \A q \in Procs \ {p} : mem'[q] = mem[q]
  <2>1. mem' = mem \/ Remembers(p, [State(p) EXCEPT !.st = "released"])
    BY Zenon, <1>3 DEF CleanLaunched, CleanClaimed, CleanUnknown
  <2>2. CASE mem' = mem  BY Zenon, <2>2
  <2>3. CASE Remembers(p, [State(p) EXCEPT !.st = "released"])
    BY <2>3 DEF Remembers, State, IInv, MemShape, NoState
  <2> QED  BY Zenon, <2>1, <2>2, <2>3
<1>7. Known(p)'  BY Zenon, <1>2 DEF MovesTo, Known, Knowing, Attached
<1>8. ASSUME NEW q \in Procs \ {p} PROVE Known(q)'
  <2>1. work'[q] = work[q] /\ mem'[q] = mem[q]  BY Zenon, <1>2, <1>6 DEF MovesTo
  <2>2. lease'.phase = "reservation_only" /\ lease'.state # "released" => lease' = lease
    BY Zenon, <1>5
  <2>3. ASSUME work[q].at = "launch", lease' # lease
        PROVE  /\ lease'.run = lease.run /\ lease'.epoch = lease.epoch
               /\ lease'.state # "released" /\ lease'.phase = "unknown"
    <3>0. PICK x \in Runs : x = work[q].run  BY Zenon, <2>3, KnowingWorks DEF Knowing
    <3>1. /\ lease.run = x /\ mem[q][x].epoch = lease.epoch /\ mem[q][x].epoch # 0
          /\ lease.phase # "reservation_only"
      BY Zenon, <2>3, <3>0 DEF Binding, Known, Knowing
    <3>2. lease.epoch # mem[p][x].epoch  BY Zenon, <3>1 DEF Binding, Sole
    <3>3. ~CleanLaunched(p, outcome)  BY Zenon, <3>1, <3>2 DEF CleanLaunched, LeaseOf, State
    <3>4. LeaseCleanup(FALSE)  BY Zenon, <1>3, <2>3, <3>3 DEF CleanClaimed, CleanUnknown
    <3> QED  BY Zenon, <1>4, <3>1, <3>4
  <2> QED  BY Zenon, <1>1, <2>1, <2>2, <2>3, StillKnown
<1>9. \A e \in alive' : lease'.epoch = e /\ lease'.state # "released" /\ lease'.phase # "reservation_only"
  BY Zenon, <1>5 DEF Binding
<1>10. DOMAIN lease' = DOMAIN NoLease /\ lease'.epoch = lease.epoch  BY Zenon, <1>5 DEF Binding
<1>11. Sole'  BY Zenon, <1>6, SoleStays DEF Binding
<1> QED  BY ZenonT(40), <1>6, <1>7, <1>8, <1>9, <1>10, <1>11 DEF Binding

-----------------------------------------------------------------------------

LEMMA InitOutcome == Init => Told /\ Binding
<1> SUFFICES ASSUME Init PROVE Told /\ Binding
  BY Zenon
<1> USE DEF Init, StoreInit
<1>1. \A p \in Procs : work[p].at = "idle" /\ ~work[p].verified  BY Zenon DEF Idle
<1>2. \A r \in Runs : RowTold(r)
  BY Zenon DEF RowTold, NoRun, NoLog, Terminal
<1>3. \A p \in Procs : WorkerTold(p)  BY Zenon, <1>1, Places DEF WorkerTold, Verifies
<1>4. \A p \in Procs : Known(p)  BY Zenon, <1>1 DEF Known, Knowing, Attached
<1>5. \A p \in Procs, r \in Runs : mem[p][r].epoch = 0  BY Zenon DEF NoState
<1>6. lease.epoch = 0 /\ DOMAIN lease = DOMAIN NoLease /\ alive = {}  BY Zenon DEF NoLease
<1>7. Sole  BY Zenon, <1>5 DEF Sole
<1>8. Binding  BY <1>4, <1>5, <1>6, <1>7 DEF Binding
<1> QED  BY Zenon, <1>2, <1>3, <1>8 DEF Told

LEMMA NextTold == IInv /\ Told /\ [Next]_vars => Told' /\ Verdicts
<1> SUFFICES ASSUME IInv, Told, [Next]_vars PROVE Told' /\ Verdicts
  BY Zenon
<1>1. ASSUME NEW r \in Runs, \/ Accept(r) \/ Cancel(r) \/ RequestCheck(r)
                             \/ Fills(r) \/ SubExits(r) \/ HandoffDue(r) \/ Lapses(r) \/ Passes(r)
      PROVE  Told' /\ Verdicts
  BY Zenon, <1>1, AcceptTold, CancelTold, RequestCheckTold, SubprocessTold, TimeTold
<1>2. ASSUME NEW e \in LeaseEpochs, WindowCloses(e) PROVE Told' /\ Verdicts
  BY Zenon, <1>2, WindowClosesTold
<1>3. ASSUME NEW p \in Procs, NEW r \in Runs, Claim(p, r) \/ CleanupPass(p, r) PROVE Told' /\ Verdicts
  BY Zenon, <1>3, ClaimTold, CleanupPassTold
<1>4. ASSUME NEW p \in Procs, Moves(p) PROVE Told' /\ Verdicts
  BY Zenon, <1>4, BeginTold, OpenTold, ReserveTold, AttachTold, StartExecutionTold, ReserveFillTold, LateTold,
     FeedTold, PrepareFailsTold, ReportTold, FillFailsTold, FailedTold, SettleTold, PersistTold, SealTold,
     EnterTold, RedecideTold, HoldCompletesTold, HoldCancelsTold, HoldEndsTold, HoldChecksTold, CheckedTold,
     EndsTold, StopTold, SettleInterruptedTold, LeaveTold, RecordTold DEF Moves
<1>5. ASSUME NEW p \in Procs, Interrupt(p) \/ Crash(p) PROVE Told' /\ Verdicts
  BY Zenon, <1>5, LeaveTold
<1>6. CASE UNCHANGED vars
  BY Zenon, <1>6, SameTells, NobodyTold DEF vars
<1> QED  BY Zenon, <1>1, <1>2, <1>3, <1>4, <1>5, <1>6 DEF Next

LEMMA NextBinding == IInv /\ Binding /\ [Next]_vars => Binding'
<1> SUFFICES ASSUME IInv, Binding, [Next]_vars PROVE Binding'
  BY Zenon
<1>1. ASSUME NEW r \in Runs, \/ Accept(r) \/ Cancel(r) \/ RequestCheck(r)
                             \/ Fills(r) \/ SubExits(r) \/ HandoffDue(r) \/ Lapses(r) \/ Passes(r)
      PROVE  Binding'
  BY Zenon, <1>1, AcceptBinding, OwnerBinding
<1>2. ASSUME NEW e \in LeaseEpochs, WindowCloses(e) PROVE Binding'
  BY Zenon, <1>2, WindowClosesBinding
<1>3. ASSUME NEW p \in Procs, NEW r \in Runs, Claim(p, r) \/ CleanupPass(p, r) PROVE Binding'
  BY Zenon, <1>3, ClaimBinding
<1>4. ASSUME NEW p \in Procs, Moves(p) PROVE Binding'
  BY Zenon, <1>4, BeginBinding, OpenBinding, ReserveBinding, AttachBinding, StartBinding, AcquireBinding,
     LaunchFenceBinding, LaunchBinding, FillBinding, DecideBinding, CleanupBinding, LeaveBinding, QuarantineHistoricalBinding DEF Moves
<1>5. ASSUME NEW p \in Procs, Interrupt(p) \/ Crash(p) PROVE Binding'
  BY Zenon, <1>5, FillBinding, LeaveBinding
<1>6. CASE UNCHANGED vars
  BY Zenon, <1>6, LooseBinding DEF vars, LeaseKept, Loose
<1> QED  BY Zenon, <1>1, <1>2, <1>3, <1>4, <1>5, <1>6 DEF Next

\* What the rows and the workers tell of the form is true in every reachable
\* state, and a browser runs only under a lease in use.
THEOREM OutcomeInvariant == Spec => [](IInv /\ Told /\ Binding)
<1>1. Init => IInv /\ Told /\ Binding  BY Zenon, InitIInv, InitOutcome
<1>2. IInv /\ Told /\ Binding /\ [Next]_vars => (IInv /\ Told /\ Binding)'
  BY Zenon, NextIInv, NextTold, NextBinding
<1> QED  BY <1>1, <1>2, PTL DEF Spec

\* A run that finalize, finalize_handoff or expire_lost_handoff has ended with
\* the effect not_sent has an untouched form and no subprocess that could still
\* fill it, and a sealed handoff whose receipt says filled shows a filled form:
\* whichever workers stall, die or are superseded on the way.
THEOREM FillIsTold == Spec => []FillTold
<1>1. Told => FillTold
  BY Zenon DEF Told, RowTold, Clear, FillTold
<1> QED  BY <1>1, OutcomeInvariant, PTL

\* The window of a run, from the launch of its browser to its end, keeps the
\* account binding: cleanup gives the lease back only when no browser runs
\* under it, so reserve can never hand the binding to a second run.
THEOREM WindowHasBinding == Spec => []WindowKeepsBinding
<1>1. Binding => WindowKeepsBinding
  BY Zenon DEF Binding, WindowKeepsBinding
<1> QED  BY <1>1, OutcomeInvariant, PTL

\* No step changes a terminal row or its close event, enter_handoff seals no run
\* whose cancel is recorded, and no check that answers after a recorded cancel
\* verifies a sealed handoff.
THEOREM VerdictIsFinal == Spec => OneVerdict
<1>1. IInv /\ Told /\ Binding /\ [Next]_vars =>
        [\A r \in Runs :
            /\ run[r].phase \in Terminal => run'[r].phase = run[r].phase /\ log'[r].closed = log[r].closed
            /\ run[r].cancel => log'[r].sealed = log[r].sealed
            /\ log[r].sealed /\ run[r].cancel => run'[r].verified = run[r].verified]_vars
  BY Zenon, NextTold DEF Verdicts, Verdict
<1> QED  BY <1>1, OutcomeInvariant, PTL DEF Spec, OneVerdict

=============================================================================
