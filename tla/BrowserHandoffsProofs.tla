------------------------ MODULE BrowserHandoffsProofs -----------------------
(***************************************************************************)
(* FilledOnce and OwnerAlone hold of BrowserHandoffs for any number of     *)
(* runs, processes, claims and deaths.                                     *)
(*                                                                         *)
(* The argument: a claim's epoch belongs to one worker.  The confirmation  *)
(* is consumed by the current epoch, and the barrier before the input      *)
(* passes that epoch only; its worker comes past the barrier once, so the  *)
(* inputs are fed at most once.  A worker that seals has seen the          *)
(* subprocess exit.  A cancel is acknowledged under the current claim,     *)
(* when no worker stands behind the barrier any more.                      *)
(***************************************************************************)
EXTENDS BrowserHandoffs, TLAPS

Before == {"none", "queued", "acquiring"}

Early == {"open", "reserve", "attach", "start", "fill"}

Late == {"acquire", "fence", "launch", "login", "spawn", "barred"}

Working == Early \cup Late \cup {"filling"} \cup Deciding

\* The epoch that consumed the confirmation, 0 if none did.
Sent(r) == log[r].sent[1]

WorkShape == DOMAIN work = Procs /\ \A p \in Procs : DOMAIN work[p] = DOMAIN Idle

RowShape ==
    /\ DOMAIN run = Runs /\ \A r \in Runs : DOMAIN run[r] = DOMAIN NoRun
    /\ DOMAIN log = Runs /\ \A r \in Runs : DOMAIN log[r] = DOMAIN NoLog
    /\ DOMAIN sub = Runs /\ DOMAIN form = Runs

MemShape ==
    /\ DOMAIN mem = Procs
    /\ \A p \in Procs : /\ DOMAIN mem[p] = Runs
                        /\ \A r \in Runs : DOMAIN mem[p][r] = DOMAIN NoState

\* A worker works under a claim of its own, and no epoch beyond the row's is
\* known to anyone.
Claims ==
    /\ \A r \in Runs : /\ run[r].epoch \in Nat /\ Sent(r) \in Nat /\ Sent(r) <= run[r].epoch
                       /\ run[r].phase = "none" => run[r].epoch = 0
    /\ \A p \in Procs : work[p].at \in Working =>
         /\ work[p].run \in Runs
         /\ work[p].epoch \in Nat /\ 0 < work[p].epoch
         /\ work[p].epoch <= run[work[p].run].epoch
    /\ \A p, q \in Procs :
         /\ work[p].at \in Working /\ work[q].at \in Working
         /\ work[p].run = work[q].run /\ work[p].epoch = work[q].epoch
         => p = q

\* What has been consumed, as seen from an execution that still prepares and
\* from the executions a process remembers.
Consumed ==
    /\ \A p \in Procs : work[p].at \in Early =>
         Sent(work[p].run) = 0 \/ work[p].epoch < Sent(work[p].run)
    /\ \A p \in Procs : work[p].at = "barred" => Sent(work[p].run) = work[p].epoch
    /\ \A r \in Runs : Sent(r) # 0 => run[r].phase \notin Before
    /\ \A p \in Procs, r \in Runs :
         /\ mem[p][r].claim \in Nat /\ mem[p][r].claim <= run[r].epoch
         /\ Sent(r) = 0 \/ mem[p][r].claim <= Sent(r)

\* Once a subprocess was fed, the epoch that fed it is past the barrier.
Fed ==
    /\ \A r \in Runs :
         /\ sub[r] # "none" => Sent(r) # 0
         /\ sub[r] \in {"none", "fed"} => form[r] = 0
         /\ form[r] \in {0, 1}
    /\ \A p \in Procs : work[p].at \in Late /\ sub[work[p].run] # "none"
                          => work[p].epoch # Sent(work[p].run)

Stopped ==
    /\ \A r \in Runs : log[r].sealed => sub[r] = "gone"
    /\ \A p \in Procs : work[p].at \in {"seal", "enter"} => sub[work[p].run] = "gone"
    /\ \A r \in Runs : run[r].ack =>
         /\ run[r].cancel /\ sub[r] \notin {"fed", "filling"}
         /\ \A p \in Procs : work[p].run = r => work[p].at # "barred"

IInv == WorkShape /\ RowShape /\ MemShape /\ Claims /\ Consumed /\ Fed /\ Stopped

-----------------------------------------------------------------------------
(* Steps that feed nothing and consume nothing.                            *)

\* What such a step leaves of the rows and of the form.
Calm(r) ==
    /\ run'[r].epoch = run[r].epoch /\ log'[r].sent = log[r].sent
    /\ sub'[r] = sub[r] /\ form'[r] = form[r]
    /\ run'[r].phase \in Before => run[r].phase \in Before
    /\ run'[r].phase = "none" => run[r].phase = "none"
    /\ log'[r].sealed => log[r].sealed \/ sub[r] = "gone"
    /\ run'[r].ack =>
         \/ run[r].ack /\ (run[r].cancel => run'[r].cancel)
         \/ /\ run'[r].cancel /\ sub[r] \notin {"fed", "filling"}
            /\ \A q \in Procs : work[q].run = r => work[q].at # "barred"

Rows == RowShape' /\ \A r \in Runs : Calm(r)

\* Where a worker may go.
Onward(q, at) ==
    \/ at \notin Working
    \/ /\ work[q].at \in Working
       /\ at \in Early => work[q].at \in Early \/ Sent(work[q].run) = 0
       /\ at \in Late => work[q].at \in Late /\ at # "barred"
       /\ at \in {"seal", "enter"} => work[q].at \in {"seal", "enter"} \/ sub[work[q].run] = "gone"

Walks(q) ==
    \/ work'[q] = work[q]
    \/ /\ Onward(q, work'[q].at)
       /\ work'[q].at \in Working => work'[q].run = work[q].run /\ work'[q].epoch = work[q].epoch

Workers == WorkShape' /\ \A q \in Procs : Walks(q)

\* What a process may come to remember.
Keeps(q, r) ==
    \/ mem'[q][r].claim \in {mem[q][r].claim, 0}
    \/ /\ mem'[q][r].claim \in Nat /\ mem'[q][r].claim <= run[r].epoch
       /\ Sent(r) = 0 \/ mem'[q][r].claim <= Sent(r)

Memory == MemShape' /\ \A q \in Procs, r \in Runs : Keeps(q, r)

\* A step that is calm preserves the invariant.
LEMMA QuietStep ==
    ASSUME IInv, Rows, Workers, Memory
    PROVE  IInv'
<1>0. \A r \in Runs : run[r].epoch \in Nat /\ Sent(r) \in Nat
  BY Zenon DEF IInv, Claims
<1> USE DEF Rows, Workers, Memory
<1>1. \A r \in Runs : log'[r].sent[1] = Sent(r) /\ sub'[r] = sub[r]
  BY Zenon DEF Calm, Sent
<1>2. \A q \in Procs : work'[q].at \in Working =>
         /\ work[q].at \in Working /\ work'[q].run = work[q].run /\ work'[q].epoch = work[q].epoch
         /\ work[q].run \in Runs
  BY Zenon DEF Walks, Onward, IInv, Claims
<1>3. Claims'
  <2>1. \A r \in Runs : (/\ run[r].epoch \in Nat /\ Sent(r) \in Nat /\ Sent(r) <= run[r].epoch
                         /\ run[r].phase = "none" => run[r].epoch = 0)'
    BY Zenon DEF IInv, Claims, Calm, Sent
  <2>2. \A q \in Procs : work'[q].at \in Working =>
           /\ work'[q].run \in Runs
           /\ work'[q].epoch \in Nat /\ 0 < work'[q].epoch
           /\ work'[q].epoch <= run'[work'[q].run].epoch
    BY <1>2 DEF IInv, Claims, Calm
  <2>3. \A o, q \in Procs :
           /\ work'[o].at \in Working /\ work'[q].at \in Working
           /\ work'[o].run = work'[q].run /\ work'[o].epoch = work'[q].epoch
           => o = q
    BY Zenon, <1>2 DEF IInv, Claims
  <2> QED  BY Zenon, <2>1, <2>2, <2>3 DEF Claims
<1>4. Consumed'
  <2>1. ASSUME NEW q \in Procs, work'[q].at \in Early
        PROVE  log'[work'[q].run].sent[1] = 0 \/ work'[q].epoch < log'[work'[q].run].sent[1]
    <3>1. work'[q].at \in Working
      BY Zenon, <2>1 DEF Working
    <3>2. Sent(work[q].run) = 0 \/ work[q].epoch < Sent(work[q].run)
      BY Zenon, <2>1, <3>1 DEF IInv, Consumed, Walks, Onward
    <3> QED  BY Zenon, <1>1, <1>2, <3>1, <3>2
  <2>2. ASSUME NEW q \in Procs, work'[q].at = "barred"
        PROVE  log'[work'[q].run].sent[1] = work'[q].epoch
    <3>1. work'[q].at \in Working /\ work'[q].at \in Late
      BY Zenon, <2>2 DEF Working, Late
    <3>2. work'[q] = work[q]
      BY Zenon, <2>2, <3>1 DEF Walks, Onward
    <3> QED  BY Zenon, <1>1, <1>2, <2>2, <3>1, <3>2 DEF IInv, Consumed
  <2>3. \A r \in Runs : log'[r].sent[1] # 0 => run'[r].phase \notin Before
    BY Zenon, <1>1 DEF IInv, Consumed, Calm
  <2>4. ASSUME NEW q \in Procs, NEW r \in Runs
        PROVE  /\ mem'[q][r].claim \in Nat /\ mem'[q][r].claim <= run'[r].epoch
               /\ log'[r].sent[1] = 0 \/ mem'[q][r].claim <= log'[r].sent[1]
    <3>1. /\ mem[q][r].claim \in Nat /\ mem[q][r].claim <= run[r].epoch
          /\ Sent(r) = 0 \/ mem[q][r].claim <= Sent(r)
      BY Zenon DEF IInv, Consumed
    <3>2. Keeps(q, r) /\ run'[r].epoch = run[r].epoch
      BY Zenon DEF Calm
    <3> QED  BY <1>0, <1>1, <3>1, <3>2 DEF Keeps
  <2> QED  BY Zenon, <2>1, <2>2, <2>3, <2>4 DEF Consumed, Sent
<1>5. Fed'
  <2>1. \A r \in Runs :
           /\ sub'[r] # "none" => log'[r].sent[1] # 0
           /\ sub'[r] \in {"none", "fed"} => form'[r] = 0
           /\ form'[r] \in {0, 1}
    BY <1>1 DEF IInv, Fed, Calm
  <2>2. ASSUME NEW q \in Procs, work'[q].at \in Late, sub'[work'[q].run] # "none"
        PROVE  work'[q].epoch # log'[work'[q].run].sent[1]
    <3>1. work'[q].at \in Working
      BY Zenon, <2>2 DEF Working
    <3>2. work[q].at \in Late
      BY Zenon, <2>2, <3>1 DEF Walks, Onward
    <3> QED  BY <1>1, <1>2, <2>2, <3>1, <3>2 DEF IInv, Fed
  <2> QED  BY Zenon, <2>1, <2>2 DEF Fed, Sent
<1>6. Stopped'
  <2>1. \A r \in Runs : log'[r].sealed => sub'[r] = "gone"
    BY Zenon DEF IInv, Stopped, Calm
  <2>2. ASSUME NEW q \in Procs, work'[q].at \in {"seal", "enter"}
        PROVE  sub'[work'[q].run] = "gone"
    <3>1. work'[q].at \in Working
      BY Zenon, <2>2 DEF Working, Deciding
    <3> QED  BY <1>1, <1>2, <2>2, <3>1 DEF IInv, Stopped, Walks, Onward
  <2>3. ASSUME NEW r \in Runs, run'[r].ack
        PROVE  /\ run'[r].cancel /\ sub'[r] \notin {"fed", "filling"}
               /\ \A q \in Procs : work'[q].run = r => work'[q].at # "barred"
    <3>1. /\ run'[r].cancel /\ sub[r] \notin {"fed", "filling"}
          /\ \A q \in Procs : work[q].run = r => work[q].at # "barred"
      BY Zenon, <2>3 DEF IInv, Stopped, Calm
    <3>2. \A q \in Procs : work'[q].at = "barred" => work'[q] = work[q]
      BY Zenon DEF Walks, Onward, Working, Late
    <3> QED  BY Zenon, <1>1, <3>1, <3>2
  <2> QED  BY Zenon, <2>1, <2>2, <2>3 DEF Stopped
<1> QED  BY Zenon, <1>3, <1>4, <1>5, <1>6 DEF IInv

-----------------------------------------------------------------------------
(* What the parts of an action do.                                         *)

USE DEF journal, world, store

\* A worker takes a step and no other one does.
MovesTo(p, at) ==
    /\ WorkShape'
    /\ \A q \in Procs \ {p} : work'[q] = work[q]
    /\ work'[p].at = at /\ work'[p].run = work[p].run /\ work'[p].epoch = work[p].epoch

Rests(p) ==
    /\ WorkShape'
    /\ \A q \in Procs \ {p} : work'[q] = work[q]
    /\ work'[p].at \in {"idle", "pass"}

\* The ways to write work.
LEMMA WorkWrites ==
    ASSUME IInv, NEW p \in Procs, NEW at
    PROVE  /\ Goes(p, at) => MovesTo(p, at)
           /\ Reads(p, at) => MovesTo(p, at)
           /\ \A stop : Turns(p, at, stop) => MovesTo(p, at)
           /\ \A effect, verified : Returns(p, effect, verified) => MovesTo(p, "settle")
           /\ \A status : Ends(p, status) => MovesTo(p, "cleanup")
           /\ \A reason : FinalizeHandoff(p, reason) => MovesTo(p, "cleanup")
           /\ work' = [work EXCEPT ![p] = Idle] => Rests(p)
<1> USE DEF IInv, WorkShape, MovesTo, Idle
<1>1. Goes(p, at) => MovesTo(p, at)  BY Zenon DEF Goes
<1>2. Reads(p, at) => MovesTo(p, at)  BY DEF Reads
<1>3. \A stop : Turns(p, at, stop) => MovesTo(p, at)  BY DEF Turns
<1>4. \A effect, verified : Returns(p, effect, verified) => MovesTo(p, "settle")  BY DEF Returns
<1>5. \A status : Ends(p, status) => MovesTo(p, "cleanup")  BY Zenon DEF Ends, R
<1>6. \A reason : FinalizeHandoff(p, reason) => MovesTo(p, "cleanup")  BY DEF FinalizeHandoff, R
<1>7. work' = [work EXCEPT ![p] = Idle] => Rests(p)  BY DEF Rests
<1> QED  BY <1>1, <1>2, <1>3, <1>4, <1>5, <1>6, <1>7, Zenon

LEMMA WorkerMoves ==
    ASSUME IInv, NEW p \in Procs, Rests(p) \/ \E at : MovesTo(p, at) /\ Onward(p, at)
    PROVE  Workers
<1>1. CASE Rests(p)
  <2>1. work'[p].at \notin Working
    BY Zenon, <1>1 DEF Rests, Working, Early, Late, Deciding
  <2> QED  BY Zenon, <1>1, <2>1 DEF Rests, Workers, Walks, Onward
<1>2. CASE \E at : MovesTo(p, at) /\ Onward(p, at)
  BY Zenon, <1>2 DEF MovesTo, Workers, Walks
<1> QED  BY Zenon, <1>1, <1>2

\* A worker that goes on to decide, or leaves.
LEMMA WorkerDecides ==
    ASSUME IInv, NEW p \in Procs, work[p].at \in Working,
           NEW at \in (Deciding \ {"seal", "enter"}) \cup {"filling", "cleanup", "record"}, MovesTo(p, at)
    PROVE  Workers
<1>1. Onward(p, at)
  BY Zenon DEF Onward, Working, Early, Late, Deciding
<1> QED  BY Zenon, <1>1, WorkerMoves

\* The ways to write a run's row and its journal.
LEMMA RunWrites ==
    ASSUME IInv, NEW r \in Runs, log' = log, sub' = sub, form' = form
    PROVE  /\ run' = run => Rows
           /\ \A p, e, phase, effect : Advance(p, r, e, phase, effect) => Rows
           /\ \A p, e : PersistVerified(p, r, e) => Rows
           /\ \A p, e, status : status \in Terminal /\ Finalize(p, r, e, status) => Rows
<1>0. ASSUME NEW phase, NEW effect, AdvanceAllowed(r, phase, effect), phase # run[r].phase
      PROVE  phase \in {"acquiring", "running", "verifying"} /\ (phase = "acquiring" => run[r].phase = "queued")
  BY Zenon, <1>0 DEF AdvanceAllowed
<1> USE DEF IInv, RowShape, Rows, Calm, Before, NoRun
<1>1. run' = run => Rows  BY Zenon
<1>2. ASSUME NEW p, NEW e, NEW phase, NEW effect, Advance(p, r, e, phase, effect)
      PROVE  Rows
  <2>1. run' = [run EXCEPT ![r] = [run[r] EXCEPT !.phase = phase, !.effect = effect]]
    BY Zenon, <1>2 DEF Advance, Update
  <2>2. AdvanceAllowed(r, phase, effect)
    BY Zenon, <1>2 DEF Advance
  <2>3. CASE phase = run[r].phase  BY Zenon, <2>1, <2>3
  <2>4. CASE phase # run[r].phase  BY Zenon, <1>0, <2>1, <2>2, <2>4
  <2> QED  BY Zenon, <2>3, <2>4
<1>3. \A p, e : PersistVerified(p, r, e) => Rows  BY DEF PersistVerified, Update
<1>4. \A p, e, status : status \in Terminal /\ Finalize(p, r, e, status) => Rows
  BY DEF Finalize, Update, Terminal
<1> QED  BY <1>1, <1>2, <1>3, <1>4, Zenon

LEMMA LogWrites ==
    ASSUME IInv, NEW r \in Runs, sub' = sub, form' = form
    PROVE  /\ \A reason : CloseHandoff(r, reason) => Rows
           /\ \A p, report : run' = run /\ RecordFillStop(p, report) => Rows
           /\ \A p, reason : R(p) = r /\ FinalizeHandoff(p, reason) => Rows
<1> USE DEF IInv, RowShape, Rows, Calm, Before, NoRun, NoLog
<1>1. \A reason : CloseHandoff(r, reason) => Rows  BY DEF CloseHandoff, Update
<1>2. \A p, report : run' = run /\ RecordFillStop(p, report) => Rows  BY DEF RecordFillStop
<1>3. \A p, reason : R(p) = r /\ FinalizeHandoff(p, reason) => Rows  BY <1>1 DEF FinalizeHandoff
<1> QED  BY <1>1, <1>2, <1>3, Zenon

\* Nobody moves.
LEMMA NobodyMoves ==
    ASSUME IInv, work' = work, mem' = mem
    PROVE  Workers /\ Memory
BY Zenon DEF IInv, WorkShape, MemShape, Workers, Walks, Memory, Keeps

\* A process that forgets, keeps or changes the state of an execution.
LEMMA Memories ==
    ASSUME IInv, NEW p \in Procs
    PROVE  /\ mem' = mem => Memory
           /\ mem' = [mem EXCEPT ![p] = [r \in Runs |-> NoState]] => Memory
           /\ \A st : Remembers(p, [State(p) EXCEPT !.st = st]) => Memory
           /\ \A st, e : Remembers(p, [State(p) EXCEPT !.st = st, !.epoch = e]) => Memory
<1> USE DEF IInv, Memory, MemShape, Keeps, NoState
<1>1. mem' = mem => Memory  OBVIOUS
<1>2. mem' = [mem EXCEPT ![p] = [r \in Runs |-> NoState]] => Memory  OBVIOUS
<1>3. \A st : Remembers(p, [State(p) EXCEPT !.st = st]) => Memory  BY DEF Remembers, State
<1>4. \A st, e : Remembers(p, [State(p) EXCEPT !.st = st, !.epoch = e]) => Memory
  BY DEF Remembers, State
<1> QED  BY <1>1, <1>2, <1>3, <1>4, Zenon
-----------------------------------------------------------------------------
(* The calm actions.                                                       *)

LEMMA AcceptStep ==
    ASSUME IInv, NEW r \in Runs, Accept(r)
    PROVE  IInv'
<1>1. Rows  BY Zenon DEF IInv, RowShape, Rows, Calm, Before, NoRun, NoLog, Accept, Update, Accepted, Claims
<1>2. Workers /\ Memory  BY Zenon, NobodyMoves DEF Accept
<1> QED  BY Zenon, <1>1, <1>2, QuietStep

LEMMA CancelStep ==
    ASSUME IInv, NEW r \in Runs, Cancel(r)
    PROVE  IInv'
<1>1. Rows  BY Zenon DEF IInv, RowShape, Rows, Calm, Before, NoRun, NoLog, Cancel, RequestCancel, Update
<1>2. Workers /\ Memory  BY Zenon, NobodyMoves DEF Cancel
<1> QED  BY Zenon, <1>1, <1>2, QuietStep

LEMMA RequestCheckStep ==
    ASSUME IInv, NEW r \in Runs, RequestCheck(r)
    PROVE  IInv'
<1>1. Rows  BY Zenon DEF IInv, RowShape, Rows, Calm, Before, NoRun, NoLog, RequestCheck, Update
<1>2. Workers /\ Memory  BY Zenon, NobodyMoves DEF RequestCheck
<1> QED  BY Zenon, <1>1, <1>2, QuietStep

LEMMA HandoffDueStep ==
    ASSUME IInv, NEW r \in Runs, HandoffDue(r)
    PROVE  IInv'
<1>1. Rows  BY Zenon DEF IInv, RowShape, Rows, Calm, Before, NoRun, NoLog, HandoffDue
<1>2. Workers /\ Memory  BY Zenon, NobodyMoves DEF HandoffDue
<1> QED  BY Zenon, <1>1, <1>2, QuietStep

LEMMA LapsesStep ==
    ASSUME IInv, NEW r \in Runs, Lapses(r)
    PROVE  IInv'
<1>1. Rows  BY Zenon DEF IInv, RowShape, Rows, Calm, Before, NoRun, NoLog, Lapses, ClaimLapses, Update
<1>2. Workers /\ Memory  BY Zenon, NobodyMoves DEF Lapses
<1> QED  BY Zenon, <1>1, <1>2, QuietStep

LEMMA PassesStep ==
    ASSUME IInv, NEW r \in Runs, Passes(r)
    PROVE  IInv'
<1>1. Rows  BY Zenon DEF IInv, RowShape, Rows, Calm, Before, NoRun, NoLog, Passes, AuthorityLost
<1>2. Workers /\ Memory  BY Zenon, NobodyMoves DEF Passes
<1> QED  BY Zenon, <1>1, <1>2, QuietStep

LEMMA WindowClosesStep ==
    ASSUME IInv, NEW e, WindowCloses(e)
    PROVE  IInv'
<1>1. Rows  BY Zenon DEF IInv, RowShape, Rows, Calm, Before, NoRun, NoLog, WindowCloses
<1>2. Workers /\ Memory  BY Zenon, NobodyMoves DEF WindowCloses
<1> QED  BY Zenon, <1>1, <1>2, QuietStep

LEMMA BeginStep ==
    ASSUME IInv, NEW p \in Procs, Begin(p)
    PROVE  IInv'
<1>0. R(p) \in Runs  BY Zenon DEF IInv, Claims, Working, Early, Late, Deciding, Preparing, Holding, R, Begin
<1>1. Rows  BY <1>0, RunWrites, LogWrites, Zenon DEF Begin
<1>2. Workers
  <2>1. CASE Reads(p, "open") /\ ~MayHaveStarted(R(p))
    <3>1. Sent(R(p)) = 0
      BY Zenon, <1>0, <2>1 DEF IInv, Consumed, Before, Begin, Mine, Claimed, Active, ActivePhases, MayHaveStarted
    <3>2. Onward(p, "open")
      BY Zenon, <3>1 DEF Onward, Begin, R, Working, Early, Late, Deciding
    <3> QED  BY Zenon, <2>1, <3>2, WorkWrites, WorkerMoves
  <2>2. CASE FinalizeHandoff(p, "interrupted") \/ \E at \in {"complete", "cancel", "fail"} : Reads(p, at)
    BY Zenon, <2>2, WorkWrites, WorkerDecides DEF Begin, Working, Deciding
  <2> QED  BY Zenon, <2>1, <2>2 DEF Begin
<1>3. Memory  BY Memories, Zenon DEF Begin
<1> QED  BY Zenon, <1>1, <1>2, <1>3, QuietStep

LEMMA OpenStep ==
    ASSUME IInv, NEW p \in Procs, Open(p)
    PROVE  IInv'
<1>0. R(p) \in Runs  BY Zenon DEF IInv, Claims, Working, Early, Late, Deciding, Preparing, Holding, R, Open
<1>1. Rows  BY <1>0, RunWrites, LogWrites, Zenon DEF Open
<1>2. Workers  BY WorkWrites, WorkerMoves, WorkerDecides, Zenon DEF Open, Working, Early, Late, Deciding, Onward
<1>3. Memory
  <2>1. CASE UNCHANGED mem  BY <2>1, Memories, Zenon
  <2>2. CASE Remembers(p, [NoState EXCEPT !.st = "open", !.claim = work[p].epoch])
    <3>1. /\ work[p].epoch \in Nat /\ work[p].epoch <= run[R(p)].epoch
          /\ Sent(R(p)) = 0 \/ work[p].epoch <= Sent(R(p))
      BY DEF IInv, Claims, Consumed, Working, Early, Open, R
    <3> QED  BY Zenon, <1>0, <2>2, <3>1 DEF IInv, MemShape, Memory, Keeps, NoState, Remembers
  <2> QED  BY <2>1, <2>2, Zenon DEF Open
<1> QED  BY Zenon, <1>1, <1>2, <1>3, QuietStep

LEMMA ReserveStep ==
    ASSUME IInv, NEW p \in Procs, Reserve(p)
    PROVE  IInv'
<1>0. R(p) \in Runs  BY Zenon DEF IInv, Claims, Working, Early, Late, Deciding, Preparing, Holding, R, Reserve
<1>1. Rows  BY Zenon, <1>0, RunWrites, LogWrites DEF Reserve
<1>2. Workers  BY Zenon, WorkWrites, WorkerMoves, WorkerDecides DEF Reserve, Working, Early, Late, Deciding, Onward
<1>3. Memory  BY Memories, Zenon DEF Reserve
<1> QED  BY Zenon, <1>1, <1>2, <1>3, QuietStep

LEMMA AttachStep ==
    ASSUME IInv, NEW p \in Procs, Attach(p)
    PROVE  IInv'
<1>1. Rows  BY DEF IInv, RowShape, Rows, Calm, Before, NoRun, NoLog, Attach, R, Update
<1>2. Workers  BY Zenon, WorkWrites, WorkerMoves, WorkerDecides DEF Attach, Working, Early, Late, Deciding, Onward
<1>3. Memory  BY Memories, Zenon DEF Attach
<1> QED  BY Zenon, <1>1, <1>2, <1>3, QuietStep

LEMMA StartExecutionStep ==
    ASSUME IInv, NEW p \in Procs, StartExecution(p)
    PROVE  IInv'
<1>0. R(p) \in Runs  BY Zenon DEF IInv, Claims, Working, Early, Late, Deciding, Preparing, Holding, R, StartExecution
<1>1. Rows  BY Zenon, <1>0, RunWrites, LogWrites DEF StartExecution
<1>2. Workers  BY Zenon, WorkWrites, WorkerMoves, WorkerDecides DEF StartExecution, Working, Early, Late, Deciding, Onward
<1>3. Memory  BY Memories, Zenon DEF StartExecution
<1> QED  BY Zenon, <1>1, <1>2, <1>3, QuietStep

LEMMA AcquireStep ==
    ASSUME IInv, NEW p \in Procs, Acquire(p)
    PROVE  IInv'
<1>0. R(p) \in Runs  BY Zenon DEF IInv, Claims, Working, Early, Late, Deciding, Preparing, Holding, R, Acquire
<1>1. Rows  BY Zenon, <1>0, RunWrites, LogWrites DEF Acquire
<1>2. Workers  BY Zenon, WorkWrites, WorkerMoves, WorkerDecides DEF Acquire, Working, Early, Late, Deciding, Onward
<1>3. Memory  BY Memories, Zenon DEF Acquire
<1> QED  BY Zenon, <1>1, <1>2, <1>3, QuietStep

LEMMA LaunchFenceStep ==
    ASSUME IInv, NEW p \in Procs, LaunchFence(p)
    PROVE  IInv'
<1>0. R(p) \in Runs  BY Zenon DEF IInv, Claims, Working, Early, Late, Deciding, Preparing, Holding, R, LaunchFence
<1>1. Rows  BY Zenon, <1>0, RunWrites, LogWrites DEF LaunchFence
<1>2. Workers  BY Zenon, WorkWrites, WorkerMoves, WorkerDecides DEF LaunchFence, Working, Early, Late, Deciding, Onward
<1>3. Memory  BY Memories, Zenon DEF LaunchFence
<1> QED  BY Zenon, <1>1, <1>2, <1>3, QuietStep

LEMMA LaunchStep ==
    ASSUME IInv, NEW p \in Procs, Launch(p)
    PROVE  IInv'
<1>0. R(p) \in Runs  BY Zenon DEF IInv, Claims, Working, Early, Late, Deciding, Preparing, Holding, R, Launch
<1>1. Rows  BY Zenon, <1>0, RunWrites, LogWrites DEF Launch
<1>2. Workers  BY Zenon, WorkWrites, WorkerMoves, WorkerDecides DEF Launch, Working, Early, Late, Deciding, Onward
<1>3. Memory  BY Memories, Zenon DEF Launch
<1> QED  BY Zenon, <1>1, <1>2, <1>3, QuietStep

LEMMA LoginStep ==
    ASSUME IInv, NEW p \in Procs, Login(p)
    PROVE  IInv'
<1>0. R(p) \in Runs  BY Zenon DEF IInv, Claims, Working, Early, Late, Deciding, Preparing, Holding, R, Login
<1>1. Rows  BY Zenon, <1>0, RunWrites, LogWrites DEF Login
<1>2. Workers  BY Zenon, WorkWrites, WorkerMoves, WorkerDecides DEF Login, Working, Early, Late, Deciding, Onward
<1>3. Memory  BY Memories, Zenon DEF Login
<1> QED  BY Zenon, <1>1, <1>2, <1>3, QuietStep

LEMMA ReportStep ==
    ASSUME IInv, NEW p \in Procs, Report(p)
    PROVE  IInv'
<1>0. R(p) \in Runs  BY Zenon DEF IInv, Claims, Working, Early, Late, Deciding, Preparing, Holding, R, Report
<1>1. Rows  BY <1>0, RunWrites, LogWrites, Zenon DEF Report
<1>2. Workers  BY WorkWrites, WorkerMoves, WorkerDecides, Zenon DEF Report, R, Working, Early, Late, Deciding, Onward
<1>3. Memory  BY Memories, Zenon DEF Report
<1> QED  BY Zenon, <1>1, <1>2, <1>3, QuietStep

LEMMA PrepareFailsStep ==
    ASSUME IInv, NEW p \in Procs, PrepareFails(p)
    PROVE  IInv'
<1>0. R(p) \in Runs  BY Zenon DEF IInv, Claims, Working, Early, Late, Deciding, Preparing, Holding, R, PrepareFails
<1>1. Rows  BY <1>0, RunWrites, LogWrites, Zenon DEF PrepareFails
<1>2. Workers  BY WorkWrites, WorkerMoves, WorkerDecides, Zenon DEF PrepareFails, Preparing, Working, Early, Late, Deciding, Onward
<1>3. Memory  BY Memories, Zenon DEF PrepareFails
<1> QED  BY Zenon, <1>1, <1>2, <1>3, QuietStep

LEMMA FillFailsStep ==
    ASSUME IInv, NEW p \in Procs, FillFails(p)
    PROVE  IInv'
<1>0. R(p) \in Runs  BY Zenon DEF IInv, Claims, Working, Early, Late, Deciding, Preparing, Holding, R, FillFails
<1>1. Rows  BY <1>0, RunWrites, LogWrites, Zenon DEF FillFails
<1>2. Workers  BY WorkWrites, WorkerMoves, WorkerDecides, Zenon DEF FillFails, Working, Early, Late, Deciding, Onward
<1>3. Memory  BY Memories, Zenon DEF FillFails
<1> QED  BY Zenon, <1>1, <1>2, <1>3, QuietStep

LEMMA FailedStep ==
    ASSUME IInv, NEW p \in Procs, Failed(p)
    PROVE  IInv'
<1>0. R(p) \in Runs  BY Zenon DEF IInv, Claims, Working, Early, Late, Deciding, Preparing, Holding, R, Failed
<1>1. Rows  BY Zenon, <1>0, RunWrites, LogWrites DEF Failed
<1>2. Workers  BY WorkWrites, WorkerMoves, WorkerDecides, Zenon DEF Failed, Working, Early, Late, Deciding, Onward
<1>3. Memory  BY Memories, Zenon DEF Failed
<1> QED  BY Zenon, <1>1, <1>2, <1>3, QuietStep

LEMMA SettleStep ==
    ASSUME IInv, NEW p \in Procs, Settle(p)
    PROVE  IInv'
<1>0. R(p) \in Runs  BY Zenon DEF IInv, Claims, Working, Early, Late, Deciding, Preparing, Holding, R, Settle
<1>1. Rows  BY Zenon, <1>0, RunWrites, LogWrites DEF Settle
<1>2. Workers  BY WorkWrites, WorkerMoves, WorkerDecides, Zenon DEF Settle, Working, Early, Late, Deciding, Onward
<1>3. Memory  BY Memories, Zenon DEF Settle
<1> QED  BY Zenon, <1>1, <1>2, <1>3, QuietStep

LEMMA PersistStep ==
    ASSUME IInv, NEW p \in Procs, Persist(p)
    PROVE  IInv'
<1>0. R(p) \in Runs  BY Zenon DEF IInv, Claims, Working, Early, Late, Deciding, Preparing, Holding, R, Persist
<1>1. Rows  BY Zenon, <1>0, RunWrites, LogWrites DEF Persist
<1>2. Workers  BY WorkWrites, WorkerMoves, WorkerDecides, Zenon DEF Persist, Working, Early, Late, Deciding, Onward
<1>3. Memory  BY Memories, Zenon DEF Persist
<1> QED  BY Zenon, <1>1, <1>2, <1>3, QuietStep

LEMMA SealStep ==
    ASSUME IInv, NEW p \in Procs, Seal(p)
    PROVE  IInv'
<1>0. R(p) \in Runs  BY Zenon DEF IInv, Claims, Working, Early, Late, Deciding, Preparing, Holding, R, Seal
<1>1. Rows  BY Zenon, <1>0, RunWrites, LogWrites DEF Seal
<1>2. Workers  BY WorkWrites, WorkerMoves, WorkerDecides, Zenon DEF Seal, Working, Early, Late, Deciding, Onward
<1>3. Memory  BY Memories, Zenon DEF Seal
<1> QED  BY Zenon, <1>1, <1>2, <1>3, QuietStep

LEMMA EnterStep ==
    ASSUME IInv, NEW p \in Procs, Enter(p)
    PROVE  IInv'
<1>0. R(p) \in Runs  BY Zenon DEF IInv, Claims, Working, Early, Late, Deciding, Preparing, Holding, R, Enter
<1>1. Rows  BY SMTT(40), <1>0 DEF IInv, RowShape, Rows, Calm, Before, NoRun, NoLog, Stopped, Enter, R, Update
<1>2. Workers  BY WorkWrites, WorkerMoves, WorkerDecides, Zenon DEF Enter, Working, Early, Late, Deciding, Onward
<1>3. Memory  BY Memories, Zenon DEF Enter
<1> QED  BY Zenon, <1>1, <1>2, <1>3, QuietStep

LEMMA RedecideStep ==
    ASSUME IInv, NEW p \in Procs, Redecide(p)
    PROVE  IInv'
<1>0. R(p) \in Runs  BY Zenon DEF IInv, Claims, Working, Early, Late, Deciding, Preparing, Holding, R, Redecide
<1>1. Rows  BY Zenon, <1>0, RunWrites, LogWrites DEF Redecide
<1>2. Workers
  <2>1. MovesTo(p, "seal")  BY Zenon DEF IInv, WorkShape, MovesTo, Idle, Redecide
  <2>2. Onward(p, "seal")  BY Zenon DEF Onward, Working, Early, Late, Deciding, Redecide
  <2> QED  BY Zenon, <2>1, <2>2, WorkerMoves
<1>3. Memory  BY Memories, Zenon DEF Redecide
<1> QED  BY Zenon, <1>1, <1>2, <1>3, QuietStep

LEMMA HoldCompletesStep ==
    ASSUME IInv, NEW p \in Procs, HoldCompletes(p)
    PROVE  IInv'
<1>0. R(p) \in Runs  BY Zenon DEF IInv, Claims, Working, Early, Late, Deciding, Preparing, Holding, R, HoldCompletes
<1>1. Rows  BY Zenon, <1>0, RunWrites, LogWrites DEF HoldCompletes, Ends, Terminal
<1>2. Workers  BY Zenon, WorkWrites, WorkerMoves, WorkerDecides DEF HoldCompletes, Working, Early, Late, Deciding, Onward
<1>3. Memory  BY Memories, Zenon DEF HoldCompletes
<1> QED  BY Zenon, <1>1, <1>2, <1>3, QuietStep

LEMMA HoldCancelsStep ==
    ASSUME IInv, NEW p \in Procs, HoldCancels(p)
    PROVE  IInv'
<1>0. R(p) \in Runs  BY Zenon DEF IInv, Claims, Working, Early, Late, Deciding, Preparing, Holding, R, HoldCancels
<1>1. Rows  BY Zenon, <1>0, RunWrites, LogWrites DEF HoldCancels
<1>2. Workers  BY Zenon, WorkWrites, WorkerMoves, WorkerDecides DEF HoldCancels, Working, Early, Late, Deciding, Onward
<1>3. Memory  BY Memories, Zenon DEF HoldCancels
<1> QED  BY Zenon, <1>1, <1>2, <1>3, QuietStep

LEMMA HoldClosesStep ==
    ASSUME IInv, NEW p \in Procs, HoldCloses(p)
    PROVE  IInv'
<1>0. R(p) \in Runs  BY Zenon DEF IInv, Claims, Working, Early, Late, Deciding, Preparing, Holding, R, HoldCloses
<1>1. Rows  BY Zenon, <1>0, RunWrites, LogWrites DEF HoldCloses
<1>2. Workers  BY WorkWrites, WorkerMoves, WorkerDecides, Zenon DEF HoldCloses, Holding, Working, Early, Late, Deciding, Onward
<1>3. Memory  BY Memories, Zenon DEF HoldCloses
<1> QED  BY Zenon, <1>1, <1>2, <1>3, QuietStep

LEMMA HoldExpiresStep ==
    ASSUME IInv, NEW p \in Procs, HoldExpires(p)
    PROVE  IInv'
<1>0. R(p) \in Runs  BY Zenon DEF IInv, Claims, Working, Early, Late, Deciding, Preparing, Holding, R, HoldExpires
<1>1. Rows  BY Zenon, <1>0, RunWrites, LogWrites DEF HoldExpires
<1>2. Workers  BY WorkWrites, WorkerMoves, WorkerDecides, Zenon DEF HoldExpires, Holding, Working, Early, Late, Deciding, Onward
<1>3. Memory  BY Memories, Zenon DEF HoldExpires
<1> QED  BY Zenon, <1>1, <1>2, <1>3, QuietStep

LEMMA HoldChecksStep ==
    ASSUME IInv, NEW p \in Procs, HoldChecks(p)
    PROVE  IInv'
<1>0. R(p) \in Runs  BY Zenon DEF IInv, Claims, Working, Early, Late, Deciding, Preparing, Holding, R, HoldChecks
<1>1. Rows  BY Zenon, <1>0, RunWrites, LogWrites DEF HoldChecks
<1>2. Workers  BY WorkWrites, WorkerMoves, WorkerDecides, Zenon DEF HoldChecks, Holding, Working, Early, Late, Deciding, Onward
<1>3. Memory  BY Memories, Zenon DEF HoldChecks
<1> QED  BY Zenon, <1>1, <1>2, <1>3, QuietStep

LEMMA CheckedStep ==
    ASSUME IInv, NEW p \in Procs, Checked(p)
    PROVE  IInv'
<1>0. R(p) \in Runs  BY Zenon DEF IInv, Claims, Working, Early, Late, Deciding, Preparing, Holding, R, Checked
<1>1. Rows  BY SMTT(40), <1>0, RunWrites DEF IInv, RowShape, Rows, Calm, Before, NoRun, Checked, Update
<1>2. Workers  BY Zenon, WorkWrites, WorkerMoves, WorkerDecides DEF Checked, Working, Early, Late, Deciding, Onward
<1>3. Memory  BY Memories, Zenon DEF Checked
<1> QED  BY Zenon, <1>1, <1>2, <1>3, QuietStep

LEMMA FailStep ==
    ASSUME IInv, NEW p \in Procs, Fail(p)
    PROVE  IInv'
<1>0. R(p) \in Runs  BY Zenon DEF IInv, Claims, Working, Early, Late, Deciding, Preparing, Holding, R, Fail
<1>1. Rows  BY Zenon, <1>0, RunWrites, LogWrites DEF Fail, Ends, Terminal
<1>2. Workers  BY Zenon, WorkWrites, WorkerMoves, WorkerDecides DEF Fail, Working, Early, Late, Deciding, Onward
<1>3. Memory  BY Memories, Zenon DEF Fail
<1> QED  BY Zenon, <1>1, <1>2, <1>3, QuietStep

LEMMA CompleteStep ==
    ASSUME IInv, NEW p \in Procs, Complete(p)
    PROVE  IInv'
<1>0. R(p) \in Runs  BY Zenon DEF IInv, Claims, Working, Early, Late, Deciding, Preparing, Holding, R, Complete
<1>1. Rows  BY Zenon, <1>0, RunWrites, LogWrites DEF Complete, Ends, Terminal
<1>2. Workers  BY WorkWrites, WorkerMoves, WorkerDecides, Zenon DEF Complete, Working, Early, Late, Deciding, Onward
<1>3. Memory  BY Memories, Zenon DEF Complete
<1> QED  BY Zenon, <1>1, <1>2, <1>3, QuietStep

LEMMA StopStep ==
    ASSUME IInv, NEW p \in Procs, Stop(p)
    PROVE  IInv'
<1>0. R(p) \in Runs  BY Zenon DEF IInv, Claims, Working, Early, Late, Deciding, Preparing, Holding, R, Stop
<1>1. Rows  BY <1>0, RunWrites, LogWrites, Zenon DEF Stop
<1>2. Workers  BY WorkWrites, WorkerMoves, WorkerDecides, Zenon DEF Stop, Working, Early, Late, Deciding, Onward
<1>3. Memory  BY Memories, Zenon DEF Stop
<1> QED  BY Zenon, <1>1, <1>2, <1>3, QuietStep

LEMMA EndCancelledStep ==
    ASSUME IInv, NEW p \in Procs, EndCancelled(p)
    PROVE  IInv'
<1>0. R(p) \in Runs  BY Zenon DEF IInv, Claims, Working, Early, Late, Deciding, Preparing, Holding, R, EndCancelled
<1>1. Rows  BY Zenon, <1>0, RunWrites, LogWrites DEF EndCancelled, Ends, Terminal
<1>2. Workers  BY WorkWrites, WorkerMoves, WorkerDecides, Zenon DEF EndCancelled, Working, Early, Late, Deciding, Onward
<1>3. Memory  BY Memories, Zenon DEF EndCancelled
<1> QED  BY Zenon, <1>1, <1>2, <1>3, QuietStep

LEMMA AbortStep ==
    ASSUME IInv, NEW p \in Procs, Abort(p)
    PROVE  IInv'
<1>0. R(p) \in Runs  BY Zenon DEF IInv, Claims, Working, Early, Late, Deciding, Preparing, Holding, R, Abort
<1>1. Rows  BY Zenon, <1>0, RunWrites, LogWrites DEF Abort
<1>2. Workers  BY WorkWrites, WorkerMoves, WorkerDecides, Zenon DEF Abort, Working, Early, Late, Deciding, Onward
<1>3. Memory  BY Memories, Zenon DEF Abort
<1> QED  BY Zenon, <1>1, <1>2, <1>3, QuietStep

LEMMA SettleInterruptedStep ==
    ASSUME IInv, NEW p \in Procs, SettleInterrupted(p)
    PROVE  IInv'
<1>0. R(p) \in Runs  BY Zenon DEF IInv, Claims, Working, Early, Late, Deciding, Preparing, Holding, R, SettleInterrupted
<1>1. Rows  BY <1>0, RunWrites, LogWrites, Zenon DEF SettleInterrupted
<1>2. Workers  BY WorkWrites, WorkerMoves, WorkerDecides, Zenon DEF SettleInterrupted, Working, Early, Late, Deciding, Onward
<1>3. Memory  BY Memories, Zenon DEF SettleInterrupted
<1> QED  BY Zenon, <1>1, <1>2, <1>3, QuietStep

LEMMA CleanupStep ==
    ASSUME IInv, NEW p \in Procs, Cleanup(p)
    PROVE  IInv'
<1>1. Rows  BY Zenon DEF IInv, RowShape, Rows, Calm, Before, NoRun, NoLog, Cleanup
<1>2. Workers
  <2>1. MovesTo(p, "record")  BY DEF IInv, WorkShape, MovesTo, Idle, Cleanup
  <2>2. Onward(p, "record")  BY Zenon DEF Onward, Working, Early, Late, Deciding
  <2> QED  BY Zenon, <2>1, <2>2, WorkerMoves
<1>3. Memory  BY Memories, Zenon DEF Cleanup, CleanLaunched, CleanClaimed, CleanUnknown
<1> QED  BY Zenon, <1>1, <1>2, <1>3, QuietStep

LEMMA RecordStep ==
    ASSUME IInv, NEW p \in Procs, Record(p)
    PROVE  IInv'
<1>1. Rows  BY DEF IInv, RowShape, Rows, Calm, Before, NoRun, NoLog, Record, RecordCleanup, Update
<1>2. Workers  BY WorkWrites, WorkerMoves, WorkerDecides, Zenon DEF Record, Leaves, Working, Early, Late, Deciding, Onward
<1>3. Memory  BY Memories, Zenon DEF Record, Leaves
<1> QED  BY Zenon, <1>1, <1>2, <1>3, QuietStep

LEMMA CleanupFailsStep ==
    ASSUME IInv, NEW p \in Procs, CleanupFails(p)
    PROVE  IInv'
<1>1. Rows  BY Zenon DEF IInv, RowShape, Rows, Calm, Before, NoRun, NoLog, CleanupFails
<1>2. Workers  BY WorkWrites, WorkerMoves, WorkerDecides, Zenon DEF CleanupFails, Leaves, Working, Early, Late, Deciding, Onward
<1>3. Memory  BY Memories, Zenon DEF CleanupFails, Leaves
<1> QED  BY Zenon, <1>1, <1>2, <1>3, QuietStep

LEMMA CleanupPassStep ==
    ASSUME IInv, NEW p \in Procs, NEW r \in Runs, CleanupPass(p, r)
    PROVE  IInv'
<1>1. Rows  BY Zenon, RunWrites, LogWrites DEF CleanupPass
<1>2. Workers  BY Zenon, WorkerMoves DEF CleanupPass, IInv, WorkShape, Rests, Idle
<1>3. Memory  BY Memories, Zenon DEF CleanupPass
<1> QED  BY Zenon, <1>1, <1>2, <1>3, QuietStep

LEMMA QuarantineHistoricalStep ==
    ASSUME IInv, NEW p \in Procs, QuarantineHistorical(p)
    PROVE  IInv'
<1>1. Rows  BY DEF IInv, RowShape, Rows, Calm, Before, NoRun, NoLog, QuarantineHistorical, Update
<1>2. Workers  BY WorkWrites, WorkerMoves, WorkerDecides, Zenon DEF QuarantineHistorical, Working, Early, Late, Deciding, Onward
<1>3. Memory  BY Memories, Zenon DEF QuarantineHistorical
<1> QED  BY Zenon, <1>1, <1>2, <1>3, QuietStep

LEMMA InterruptStep ==
    ASSUME IInv, NEW p \in Procs, Interrupt(p)
    PROVE  IInv'
<1>1. Rows  BY Zenon DEF IInv, RowShape, Rows, Calm, Before, NoRun, NoLog, Interrupt
<1>2. Workers  BY WorkWrites, WorkerMoves, WorkerDecides, Zenon DEF Interrupt, Preparing, Working, Early, Late, Deciding, Onward
<1>3. Memory  BY Memories, Zenon DEF Interrupt
<1> QED  BY Zenon, <1>1, <1>2, <1>3, QuietStep

LEMMA CrashStep ==
    ASSUME IInv, NEW p \in Procs, Crash(p)
    PROVE  IInv'
<1>1. Rows  BY Zenon DEF IInv, RowShape, Rows, Calm, Before, NoRun, NoLog, Crash
<1>2. Workers  BY WorkWrites, WorkerMoves, WorkerDecides, Zenon DEF Crash, Working, Early, Late, Deciding, Onward
<1>3. Memory  BY Memories, Zenon DEF Crash
<1> QED  BY Zenon, <1>1, <1>2, <1>3, QuietStep

\* A cancel is acknowledged when nobody stands behind the barrier.
LEMMA AcknowledgeStep ==
    ASSUME IInv, NEW p \in Procs, Acknowledge(p)
    PROVE  IInv'
<1> DEFINE r == R(p)
<1>0. /\ r \in Runs /\ work[p].epoch = run[r].epoch /\ Active(r)
      /\ work[p].at = "stopped" /\ run[r].cancel
  BY Zenon DEF IInv, Claims, Working, Deciding, R, Acknowledge, Mine, Claimed
<1>1. sub[r] \notin {"fed", "filling"} /\ \A q \in Procs : work[q].run = r => work[q].at # "barred"
  <2>1. CASE NoRunResource(r)
    <3>1. Sent(r) = 0
      BY Zenon, <1>0, <2>1 DEF IInv, Consumed, NoRunResource, Before, Active, ActivePhases
    <3>2. \A q \in Procs : work[q].at = "barred" => work[q].run \in Runs /\ 0 < Sent(work[q].run)
      BY Zenon DEF IInv, Claims, Consumed, Working, Late
    <3> QED  BY <1>0, <3>1, <3>2 DEF IInv, Fed
  <2>2. CASE CancelProven(p)
    <3>1. mem[p][r].claim = run[r].epoch /\ sub[r] \in {"none", "gone"}
      BY Zenon, <1>0, <2>2 DEF CancelProven, State
    <3>2. ASSUME NEW q \in Procs, work[q].run = r, work[q].at = "barred"
          PROVE  FALSE
      <4>1. work[q].at \in Working /\ work[p].at \in Working
        BY Zenon, <1>0, <3>2 DEF Working, Late, Deciding
      <4>2. work[q].epoch = Sent(r) /\ work[q].epoch \in Nat /\ 0 < work[q].epoch /\ work[q].epoch <= run[r].epoch
        BY Zenon, <3>2, <4>1 DEF IInv, Claims, Consumed
      <4>3. mem[p][r].claim \in Nat /\ (Sent(r) = 0 \/ mem[p][r].claim <= Sent(r))
        BY Zenon, <1>0 DEF IInv, Consumed
      <4>4. work[q].epoch = work[p].epoch /\ work[q].run = work[p].run
        BY <1>0, <3>1, <3>2, <4>2, <4>3 DEF R
      <4>5. q = p
        BY <4>1, <4>4, Zenon DEF IInv, Claims
      <4> QED  BY Zenon, <1>0, <3>2, <4>5
    <3> QED  BY Zenon, <3>1, <3>2
  <2> QED  BY Zenon, <2>1, <2>2 DEF Acknowledge
<1>2. Rows
  BY ZenonT(40), <1>0, <1>1 DEF IInv, RowShape, Rows, Calm, Before, NoRun, NoLog, Acknowledge, Update
<1>3. Workers
  BY Zenon, <1>0, WorkWrites, WorkerDecides DEF Acknowledge, Working, Deciding
<1>4. Memory
  BY Memories, Zenon DEF Acknowledge
<1> QED  BY Zenon, <1>2, <1>3, <1>4, QuietStep

-----------------------------------------------------------------------------
(* The steps that take a claim, consume the confirmation and feed.         *)

\* A new claim has an epoch nobody knows.
LEMMA ClaimStep ==
    ASSUME IInv, NEW p \in Procs, NEW r \in Runs, Claim(p, r)
    PROVE  IInv'
<1>1. /\ run' = [run EXCEPT ![r] = ClaimedBy(p, r)] /\ Active(r)
      /\ work' = [work EXCEPT ![p] = [Idle EXCEPT !.at = "claimed", !.run = r, !.epoch = run[r].epoch + 1]]
      /\ UNCHANGED <<log, sub, form, mem>>
  BY Zenon DEF Claim, Claimable, Update
<1>2. WorkShape' /\ RowShape' /\ MemShape'
  BY <1>1 DEF IInv, WorkShape, RowShape, MemShape, ClaimedBy, Idle, NoRun
<1>3. /\ work'[p].at = "claimed" /\ work'[p].run = r /\ work'[p].epoch = run[r].epoch + 1
      /\ \A q \in Procs \ {p} : work'[q] = work[q]
  BY Zenon, <1>1 DEF IInv, WorkShape, Idle
<1>4. /\ run'[r].epoch = run[r].epoch + 1 /\ run'[r].phase = run[r].phase
      /\ run'[r].ack = run[r].ack /\ run'[r].cancel = run[r].cancel
      /\ \A x \in Runs \ {r} : run'[x] = run[x]
  BY Zenon, <1>1 DEF IInv, RowShape, ClaimedBy, NoRun
<1>5. run[r].epoch \in Nat /\ run[r].phase # "none"
  BY Zenon, <1>1 DEF IInv, Claims, Active, ActivePhases
<1>6. Claims'
  <2>1. \A x \in Runs : /\ run'[x].epoch \in Nat /\ log'[x].sent[1] \in Nat /\ log'[x].sent[1] <= run'[x].epoch
                        /\ run'[x].phase = "none" => run'[x].epoch = 0
    BY <1>1, <1>4, <1>5 DEF IInv, Claims, Sent
  <2>2. \A q \in Procs : work'[q].at \in Working =>
           /\ work'[q].run \in Runs /\ work'[q].epoch \in Nat /\ 0 < work'[q].epoch
           /\ work'[q].epoch <= run'[work'[q].run].epoch
    BY <1>3, <1>4, <1>5 DEF IInv, Claims
  <2>3. \A o, q \in Procs :
           /\ work'[o].at \in Working /\ work'[q].at \in Working
           /\ work'[o].run = work'[q].run /\ work'[o].epoch = work'[q].epoch
           => o = q
    BY <1>3, <1>5, SMTT(20) DEF IInv, Claims
  <2> QED  BY Zenon, <2>1, <2>2, <2>3 DEF Claims, Sent
<1>7. Consumed'
  BY SMTT(40), <1>1, <1>3, <1>4, <1>5 DEF IInv, Claims, Consumed, Sent, Early
<1>8. Fed'
  BY <1>1, <1>3 DEF IInv, Fed, Sent, Late
<1>9. Stopped'
  BY <1>1, <1>3, <1>4 DEF IInv, Stopped
<1> QED  BY Zenon, <1>2, <1>6, <1>7, <1>8, <1>9 DEF IInv

\* The current claim consumes the confirmation; no other one can from then on.
LEMMA ReserveFillStep ==
    ASSUME IInv, NEW p \in Procs, ReserveFill(p)
    PROVE  IInv'
<1> DEFINE r == R(p)
<1>0. /\ work[p].at = "fill" /\ work[p].run = r /\ r \in Runs
      /\ work[p].epoch = run[r].epoch /\ run[r].epoch \in Nat /\ 0 < run[r].epoch
      /\ run[r].phase = "running" /\ Sent(r) = 0
  BY SMTT(40) DEF IInv, Claims, Working, Early, R, ReserveFill, FillAllowed, Uncancelled, Fenced, Claimed, Sent
<1>1. /\ log' = [log EXCEPT ![r].sent = <<work[p].epoch, run[r].lease>>]
      /\ work' = [work EXCEPT ![p].at = "acquire"] /\ UNCHANGED <<run, sub, form, mem>>
  BY Zenon DEF ReserveFill, Goes
<1>2. WorkShape' /\ RowShape' /\ MemShape'
  BY Zenon, <1>1 DEF IInv, WorkShape, RowShape, MemShape, Idle, NoLog
<1>3. /\ work'[p].at = "acquire" /\ work'[p].run = r /\ work'[p].epoch = run[r].epoch
      /\ \A q \in Procs \ {p} : work'[q] = work[q]
  BY Zenon, <1>0, <1>1 DEF IInv, WorkShape, Idle
<1>4. /\ log'[r].sent[1] = run[r].epoch /\ log'[r].sealed = log[r].sealed
      /\ \A x \in Runs \ {r} : log'[x] = log[x]
  BY Zenon, <1>0, <1>1 DEF IInv, RowShape, NoLog
<1>5. \A q \in Procs \ {p} : work[q].at \in Working /\ work[q].run = r => work[q].epoch < run[r].epoch
  BY <1>0 DEF IInv, Claims, Working, Early
<1>6. sub[r] = "none" /\ \A q \in Procs : work[q].run = r => work[q].at # "barred"
  <2>1. sub[r] = "none"
    BY <1>0, Zenon DEF IInv, Fed
  <2>2. ASSUME NEW q \in Procs, work[q].run = r, work[q].at = "barred"
        PROVE  FALSE
    <3>1. work[q].epoch = Sent(r) /\ work[q].at \in Working
      BY Zenon, <2>2 DEF IInv, Consumed, Working, Late
    <3>2. work[q].epoch \in Nat /\ 0 < work[q].epoch
      BY Zenon, <3>1 DEF IInv, Claims
    <3> QED  BY <1>0, <3>1, <3>2
  <2> QED  BY Zenon, <2>1, <2>2
<1>7. Claims'
  <2>1. \A x \in Runs : /\ run'[x].epoch \in Nat /\ log'[x].sent[1] \in Nat /\ log'[x].sent[1] <= run'[x].epoch
                        /\ run'[x].phase = "none" => run'[x].epoch = 0
    BY <1>0, <1>1, <1>4 DEF IInv, Claims, Sent
  <2>2. \A q \in Procs : work'[q].at \in Working => work[q].at \in Working /\ work'[q].run = work[q].run
                                                    /\ work'[q].epoch = work[q].epoch
    BY <1>0, <1>3, Zenon DEF Working, Early
  <2> QED  BY <1>1, <2>1, <2>2 DEF IInv, Claims, Sent
<1>8. Consumed'
  <2>1. ASSUME NEW q \in Procs, work'[q].at \in Early
        PROVE  log'[work'[q].run].sent[1] = 0 \/ work'[q].epoch < log'[work'[q].run].sent[1]
    <3>1. q # p /\ work'[q] = work[q] /\ work[q].at \in Working
      BY Zenon, <1>3, <2>1 DEF Early, Working
    <3>2. work[q].run \in Runs /\ (Sent(work[q].run) = 0 \/ work[q].epoch < Sent(work[q].run))
      BY Zenon, <2>1, <3>1 DEF IInv, Claims, Consumed
    <3>3. CASE work[q].run = r  BY Zenon, <1>4, <1>5, <3>1, <3>3
    <3>4. CASE work[q].run # r  BY Zenon, <1>4, <3>1, <3>2, <3>4 DEF Sent
    <3> QED  BY Zenon, <3>3, <3>4
  <2>2. ASSUME NEW q \in Procs, work'[q].at = "barred"
        PROVE  log'[work'[q].run].sent[1] = work'[q].epoch
    <3>1. work'[q] = work[q] /\ work[q].at \in Working /\ work[q].run # r
      BY Zenon, <1>3, <1>6, <2>2 DEF Working, Late
    <3> QED  BY SMTT(40), <1>4, <2>2, <3>1 DEF IInv, Claims, Consumed, Sent
  <2>3. \A x \in Runs : log'[x].sent[1] # 0 => run'[x].phase \notin Before
    BY Zenon, <1>0, <1>1, <1>4 DEF IInv, Consumed, Sent, Before
  <2>4. \A q \in Procs, x \in Runs :
           /\ mem'[q][x].claim \in Nat /\ mem'[q][x].claim <= run'[x].epoch
           /\ log'[x].sent[1] = 0 \/ mem'[q][x].claim <= log'[x].sent[1]
    BY <1>1, <1>4 DEF IInv, Consumed, Sent
  <2> QED  BY Zenon, <2>1, <2>2, <2>3, <2>4 DEF Consumed, Sent
<1>9. Fed'
  <2>1. \A x \in Runs : /\ sub'[x] # "none" => log'[x].sent[1] # 0
                        /\ sub'[x] \in {"none", "fed"} => form'[x] = 0
                        /\ form'[x] \in {0, 1}
    BY Zenon, <1>0, <1>1, <1>4 DEF IInv, Fed, Sent
  <2>2. ASSUME NEW q \in Procs, work'[q].at \in Late, sub'[work'[q].run] # "none"
        PROVE  work'[q].epoch # log'[work'[q].run].sent[1]
    <3>1. work'[q].run # r /\ work'[q] = work[q]
      BY Zenon, <1>1, <1>3, <1>6, <2>2
    <3>2. work[q].run \in Runs
      BY Zenon, <2>2, <3>1 DEF IInv, Claims, Working
    <3> QED  BY <1>1, <1>4, <2>2, <3>1, <3>2, ZenonT(30) DEF IInv, Fed, Sent
  <2> QED  BY Zenon, <2>1, <2>2 DEF Fed, Sent
<1>10. Stopped'
  BY <1>1, <1>3, <1>4 DEF IInv, Stopped
<1> QED  BY Zenon, <1>2, <1>7, <1>8, <1>9, <1>10 DEF IInv

\* Only the claim that consumed the confirmation passes the barrier.
LEMMA AssertFillStep ==
    ASSUME IInv, NEW p \in Procs, AssertFill(p)
    PROVE  IInv'
<1> DEFINE r == R(p)
<1>0. /\ work[p].at = "spawn" /\ work[p].run = r /\ r \in Runs
      /\ Sent(r) = work[p].epoch /\ ~run[r].cancel
  BY DEF IInv, Claims, Working, Late, R, AssertFill, FillAllowed, Uncancelled, Sent
<1>1. work' = [work EXCEPT ![p].at = "barred"] /\ UNCHANGED <<run, log, sub, form, mem>>
  BY Zenon DEF AssertFill, Goes
<1>2. WorkShape' /\ RowShape' /\ MemShape'
  BY Zenon, <1>1 DEF IInv, WorkShape, RowShape, MemShape, Idle
<1>3. /\ work'[p].at = "barred" /\ work'[p].run = r /\ work'[p].epoch = work[p].epoch
      /\ \A q \in Procs \ {p} : work'[q] = work[q]
  BY Zenon, <1>0, <1>1 DEF IInv, WorkShape, Idle
<1>4. work[p].at \in Late /\ work[p].at \in Working /\ work'[p].at \notin Early \cup {"seal", "enter"}
  BY Zenon, <1>0, <1>3 DEF Working, Early, Late
<1>5. Claims'
  BY <1>0, <1>1, <1>3, <1>4, SMTT(20) DEF IInv, Claims, Sent
<1>6. Consumed'
  BY SMTT(40), <1>0, <1>1, <1>3, <1>4 DEF IInv, Consumed, Sent
<1>7. Fed'
  BY <1>0, <1>1, <1>3, <1>4 DEF IInv, Fed, Sent
<1>8. Stopped'
  BY <1>0, <1>1, <1>3, <1>4 DEF IInv, Stopped
<1> QED  BY Zenon, <1>2, <1>5, <1>6, <1>7, <1>8 DEF IInv

\* Behind the barrier nothing has been fed yet.
LEMMA InputStep ==
    ASSUME IInv, NEW p \in Procs, Input(p)
    PROVE  IInv'
<1> DEFINE r == R(p)
<1>0. /\ work[p].at = "barred" /\ work[p].run = r /\ r \in Runs
      /\ Sent(r) = work[p].epoch /\ work[p].epoch \in Nat /\ 0 < work[p].epoch
  BY Zenon DEF IInv, Claims, Consumed, Working, Late, R, Input
<1>1. /\ sub' = [sub EXCEPT ![r] = "fed"] /\ work' = [work EXCEPT ![p].at = "filling"]
      /\ UNCHANGED <<run, log, form, mem>>
  BY Zenon DEF Input, Goes
<1>2. WorkShape' /\ RowShape' /\ MemShape'
  BY Zenon, <1>1 DEF IInv, WorkShape, RowShape, MemShape, Idle
<1>3. /\ work'[p].at = "filling" /\ work'[p].run = r /\ work'[p].epoch = work[p].epoch
      /\ \A q \in Procs \ {p} : work'[q] = work[q]
      /\ sub'[r] = "fed" /\ \A x \in Runs \ {r} : sub'[x] = sub[x]
  BY Zenon, <1>0, <1>1 DEF IInv, WorkShape, RowShape, Idle
<1>4. work[p].at \in Late /\ work[p].at \in Working /\ work'[p].at \notin Early \cup Late \cup {"seal", "enter"}
  BY Zenon, <1>0, <1>3 DEF Working, Early, Late
<1>5. sub[r] = "none"
  BY Zenon, <1>0, <1>4 DEF IInv, Fed
<1>6. Claims'
  BY <1>0, <1>1, <1>3, <1>4, SMTT(20) DEF IInv, Claims, Sent
<1>7. Consumed'
  BY SMTT(40), <1>0, <1>1, <1>3, <1>4, SMTT(20) DEF IInv, Consumed, Sent
<1>8. Fed'
  <2>1. \A x \in Runs : /\ sub'[x] # "none" => log'[x].sent[1] # 0
                        /\ sub'[x] \in {"none", "fed"} => form'[x] = 0
                        /\ form'[x] \in {0, 1}
    BY <1>0, <1>1, <1>3, <1>5 DEF IInv, Fed, Sent
  <2>2. ASSUME NEW q \in Procs, work'[q].at \in Late, sub'[work'[q].run] # "none"
        PROVE  work'[q].epoch # log'[work'[q].run].sent[1]
    <3>1. q # p /\ work'[q] = work[q] /\ work[q].at \in Working
      BY Zenon, <1>3, <1>4, <2>2 DEF Working
    <3>2. work[q].run \in Runs /\ (work[q].run = r => work[q].epoch # work[p].epoch)
      BY Zenon, <1>0, <1>4, <3>1 DEF IInv, Claims
    <3> QED  BY <1>0, <1>1, <1>3, <2>2, <3>1, <3>2 DEF IInv, Fed, Sent
  <2> QED  BY Zenon, <2>1, <2>2 DEF Fed, Sent
<1>9. Stopped'
  <2>1. ~log[r].sealed /\ ~run[r].ack
    BY Zenon, <1>0, <1>5 DEF IInv, Stopped
  <2>2. ASSUME NEW q \in Procs, work'[q].at \in {"seal", "enter"}
        PROVE  sub'[work'[q].run] = "gone"
    <3>1. q # p /\ work'[q] = work[q] /\ work[q].at \in Working
      BY Zenon, <1>3, <1>4, <2>2 DEF Working, Deciding
    <3>2. work[q].run \in Runs /\ sub[work[q].run] = "gone"
      BY Zenon, <2>2, <3>1 DEF IInv, Claims, Stopped
    <3> QED  BY Zenon, <1>3, <1>5, <3>1, <3>2
  <2>3. \A x \in Runs : run'[x].ack =>
           /\ run'[x].cancel /\ sub'[x] \notin {"fed", "filling"}
           /\ \A q \in Procs : work'[q].run = x => work'[q].at # "barred"
    BY <1>1, <1>3, <2>1 DEF IInv, Stopped
  <2> QED  BY <1>1, <1>3, <2>1, <2>2, <2>3 DEF IInv, Stopped
<1> QED  BY Zenon, <1>2, <1>6, <1>7, <1>8, <1>9 DEF IInv

\* The subprocess fills the form once, and ends.
LEMMA SubprocessStep ==
    ASSUME IInv, NEW r \in Runs, Fills(r) \/ SubExits(r)
    PROVE  IInv'
<1>0. UNCHANGED <<run, log, work, mem>>
  BY Zenon DEF Fills, SubExits
<1>1. WorkShape' /\ RowShape' /\ MemShape'
  BY Zenon, <1>0 DEF IInv, WorkShape, RowShape, MemShape, Fills, SubExits
<1>2. /\ sub[r] \in {"fed", "filling"} /\ sub'[r] \in {"filling", "gone"}
      /\ \A x \in Runs \ {r} : sub'[x] = sub[x] /\ form'[x] = form[x]
      /\ form'[r] \in {0, 1}
  BY DEF IInv, RowShape, Fed, Fills, SubExits
<1>3. Claims' /\ Consumed'
  BY <1>0, Zenon DEF IInv, Claims, Consumed, Sent
<1>4. Fed'
  <2>1. \A x \in Runs : /\ sub'[x] # "none" => log'[x].sent[1] # 0
                        /\ sub'[x] \in {"none", "fed"} => form'[x] = 0
                        /\ form'[x] \in {0, 1}
    BY Zenon, <1>0, <1>2 DEF IInv, Fed, Sent
  <2>2. \A q \in Procs : work'[q].at \in Late /\ sub'[work'[q].run] # "none"
                           => work'[q].epoch # log'[work'[q].run].sent[1]
    BY <1>0, <1>2, Zenon DEF IInv, Claims, Fed, Sent, Working
  <2> QED  BY Zenon, <2>1, <2>2 DEF Fed, Sent
<1>5. Stopped'
  BY <1>0, <1>2, ZenonT(30) DEF IInv, Claims, Stopped, Working, Deciding
<1> QED  BY Zenon, <1>1, <1>3, <1>4, <1>5 DEF IInv

-----------------------------------------------------------------------------

LEMMA InitIInv == Init => IInv
<1> SUFFICES ASSUME Init PROVE IInv
  BY Zenon
<1> USE DEF Init, StoreInit
<1>1. WorkShape /\ RowShape /\ MemShape
  BY Zenon DEF WorkShape, RowShape, MemShape
<1>2. \A p \in Procs : work[p].at \notin Working \cup {"barred", "seal", "enter"}
  BY Zenon DEF Idle, Working, Early, Late, Deciding
<1>3. \A r \in Runs : /\ run[r].epoch = 0 /\ Sent(r) = 0 /\ ~log[r].sealed /\ ~run[r].ack
                       /\ sub[r] = "none" /\ form[r] = 0
  BY Zenon DEF Sent, NoRun, NoLog
<1>4. \A p \in Procs, r \in Runs : mem[p][r].claim = 0
  BY Zenon DEF NoState
<1>5. Claims  BY <1>2, <1>3 DEF Claims
<1>6. Consumed  BY <1>2, <1>3, <1>4 DEF Consumed, Working
<1>7. Fed /\ Stopped  BY Zenon, <1>2, <1>3 DEF Fed, Stopped, Working
<1> QED  BY Zenon, <1>1, <1>5, <1>6, <1>7 DEF IInv

LEMMA MovesStep ==
    ASSUME IInv, NEW p \in Procs, Moves(p)
    PROVE  IInv'
BY BeginStep, OpenStep, ReserveStep, AttachStep, StartExecutionStep, ReserveFillStep, AcquireStep,
   LaunchFenceStep, LaunchStep, LoginStep, AssertFillStep, InputStep, PrepareFailsStep, ReportStep, FillFailsStep,
   FailedStep, SettleStep, PersistStep, SealStep, EnterStep, RedecideStep, HoldCompletesStep,
   HoldCancelsStep, HoldClosesStep, HoldExpiresStep, HoldChecksStep, CheckedStep, FailStep,
   CompleteStep, StopStep, AcknowledgeStep, EndCancelledStep, AbortStep, SettleInterruptedStep,
   CleanupStep, RecordStep, CleanupFailsStep, QuarantineHistoricalStep, Zenon DEF Moves

LEMMA NextIInv == IInv /\ [Next]_vars => IInv'
<1> SUFFICES ASSUME IInv, [Next]_vars PROVE IInv'
  BY Zenon
<1>1. ASSUME NEW r \in Runs, \/ Accept(r) \/ Cancel(r) \/ RequestCheck(r)
                             \/ Fills(r) \/ SubExits(r) \/ HandoffDue(r) \/ Lapses(r) \/ Passes(r)
      PROVE  IInv'
  BY <1>1, AcceptStep, CancelStep, RequestCheckStep, SubprocessStep, HandoffDueStep, LapsesStep,
     PassesStep, Zenon
<1>2. ASSUME NEW e \in LeaseEpochs, WindowCloses(e) PROVE IInv'
  BY <1>2, WindowClosesStep, Zenon
<1>3. ASSUME NEW p \in Procs, NEW r \in Runs, Claim(p, r) \/ CleanupPass(p, r) PROVE IInv'
  BY <1>3, ClaimStep, CleanupPassStep, Zenon
<1>4. ASSUME NEW p \in Procs, Moves(p) \/ Interrupt(p) \/ Crash(p) PROVE IInv'
  BY <1>4, MovesStep, InterruptStep, CrashStep, Zenon
<1>5. CASE UNCHANGED vars
  BY <1>5, Zenon DEF vars, IInv, WorkShape, RowShape, MemShape, Claims, Consumed, Fed, Stopped, Sent
<1> QED  BY Zenon, <1>1, <1>2, <1>3, <1>4, <1>5 DEF Next

\* The inductive invariant holds in every reachable state.
THEOREM InductiveInvariant == Spec => []IInv
BY InitIInv, NextIInv, PTL DEF Spec

\* However many claims a run goes through, and whichever of their workers stall
\* behind the barrier of assert_fill_stop_reservation, the form is filled at
\* most once.
THEOREM FillsOnce == Spec => []FilledOnce
<1>1. IInv => FilledOnce
  BY DEF IInv, Fed, FilledOnce
<1> QED  BY <1>1, InductiveInvariant, PTL

\* No subprocess works in a window that enter_handoff has given to its owner, or
\* after acknowledge_cancel.
THEOREM OwnerIsAlone == Spec => []OwnerAlone
<1>1. IInv => OwnerAlone
  BY Zenon DEF IInv, Stopped, OwnerAlone
<1> QED  BY <1>1, InductiveInvariant, PTL
=============================================================================
