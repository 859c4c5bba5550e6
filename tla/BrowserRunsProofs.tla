------------------------- MODULE BrowserRunsProofs --------------------------
(***************************************************************************)
(* WriteOnce, EffectTrue, CancelledIsStopped and ReleasedIsGone hold of    *)
(* BrowserRuns for any number of runs, processes, steps, claims and deaths.*)
(*                                                                         *)
(* The argument: a claim's epoch belongs to one worker, and a lease epoch  *)
(* to one execution.  A browser is started by the execution whose lease    *)
(* the row holds, and the row is given back only by that execution's       *)
(* proof, or while nothing was started.  A write has one barrier, and the  *)
(* worker that set it dispatches it once.  Only the worker of the current  *)
(* claim dispatches, audits and ends the run; one that takes over a run    *)
(* that was started first makes its effect unknown.                        *)
(***************************************************************************)
EXTENDS BrowserRuns, TLAPS

-----------------------------------------------------------------------------
(* The inductive invariant, in parts.                                      *)

Before == {"none", "queued", "acquiring"}

Working == Opening \cup Executing \cup Deciding

RunShape == DOMAIN run = Runs /\ \A r \in Runs : DOMAIN run[r] = DOMAIN NoRun

LeaseShape == DOMAIN auth = Runs /\ DOMAIN lease = DOMAIN NoLease

GateShape == DOMAIN gate = Runs /\ \A r \in Runs : DOMAIN gate[r] = DOMAIN NoGate

LogShape == DOMAIN log = Runs /\ \A r \in Runs : DOMAIN log[r] = DOMAIN NoLog

WorkShape == DOMAIN work = Procs /\ \A p \in Procs : DOMAIN work[p] = DOMAIN Idle

MemShape ==
    /\ DOMAIN mem = Procs
    /\ \A p \in Procs : DOMAIN mem[p] = Runs /\ \A r \in Runs : DOMAIN mem[p][r] = DOMAIN NoState

SiteShape ==
    /\ DOMAIN wire = Runs
    /\ DOMAIN site = Runs /\ \A r \in Runs : DOMAIN site[r] = WriteSteps

Shape ==
    RunShape /\ LeaseShape /\ GateShape /\ LogShape /\ WorkShape /\ MemShape /\ SiteShape

\* A worker works under a claim of its own, and no epoch beyond the row's is
\* known to anyone.
Claims ==
    /\ \A r \in Runs : run[r].epoch \in Nat /\ (run[r].phase = "none" => run[r] = NoRun)
    /\ \A p \in Procs : work[p].at # "idle" => work[p].run \in Runs /\ run[work[p].run].phase # "none"
    /\ \A p \in Procs : work[p].at \in Working =>
         work[p].epoch \in Nat /\ 0 < work[p].epoch /\ work[p].epoch <= run[work[p].run].epoch
    /\ \A p, q \in Procs :
         /\ work[p].at \in Working /\ work[q].at \in Working
         /\ work[p].run = work[q].run /\ work[p].epoch = work[q].epoch
         => p = q

Holding == {"claimed", "launched"}

Gone == {"released", "terminated"}

Boarding == {"attach", "start", "launch"}

\* The lease is taken, and a browser may have been started under it.
Occupied == lease.state # "released" /\ lease.phase # "reservation_only"

\* One execution holds a lease epoch, and a browser runs under the row's.
Leased ==
    /\ lease.epoch \in Nat
    /\ lease.state = "released" => lease.run = None
    /\ lease.state # "released" => lease.epoch # 0
    /\ \A p \in Procs, r \in Runs : mem[p][r].st \in Holding =>
         mem[p][r].epoch \in Nat /\ mem[p][r].epoch <= lease.epoch
    /\ \A p, q \in Procs, r, s \in Runs :
         /\ mem[p][r].st \in Holding /\ mem[q][s].st \in Holding
         /\ mem[p][r].epoch = mem[q][s].epoch
         => p = q /\ r = s
    /\ \A p \in Procs : work[p].at \in Boarding => mem[p][work[p].run].st = "claimed"
    /\ \A p \in Procs : work[p].at = "launch" =>
         lease.epoch = mem[p][work[p].run].epoch /\ Occupied
    /\ \A e \in alive : lease.epoch = e /\ Occupied

\* Nobody reserves the binding for the run any more.
Over(r) == run[r].phase \in Terminal \/ ~auth[r] \/ run[r].cancel

\* What is remembered as released was given back, and is not reserved again.
Quit ==
    /\ \A r \in Runs :
         /\ run[r].lease \in Nat /\ run[r].lease <= lease.epoch
         /\ run[r].lease = lease.epoch /\ lease.state # "released" => lease.run = r
    /\ \A r \in Runs : run[r].ack => run[r].cancel /\ lease.run # r
    /\ \A p \in Procs : work[p].at = "stopped" => run[work[p].run].cancel /\ lease.run # work[p].run
    /\ \A p \in Procs : work[p].at = "cleanup" /\ ~work[p].stop => Over(work[p].run)
    /\ \A p \in Procs, r \in Runs : mem[p][r].st \in Gone =>
         \/ Over(r) /\ lease.run # r
         \/ work[p].at = "record" /\ work[p].run = r /\ work[p].stop

Dispatching == {"reserved", "barred", "sent", "audit"}

Barrier(r, s) == \E x \in log[r].barriers : x[1] = s

\* A write goes from its one barrier over the wire to the site.
Dispatched ==
    /\ \A r \in Runs, s \in WriteSteps :
         /\ site[r][s] \in {0, 1}
         /\ s \in wire[r] => site[r][s] = 0
         /\ s \in wire[r] \/ site[r][s] = 1 => Barrier(r, s)
    /\ \A r \in Runs : log[r].barriers # {} => gate[r].decision = "confirmed"
    /\ \A p \in Procs : work[p].at \in Dispatching => work[p].seq \in WriteSteps
    /\ \A p \in Procs : work[p].at = "barred" =>
         /\ Barrier(work[p].run, work[p].seq)
         /\ work[p].seq \notin wire[work[p].run] /\ site[work[p].run][work[p].seq] = 0
    /\ \A p, q \in Procs :
         /\ work[p].at = "barred" /\ work[q].at = "barred"
         /\ work[p].run = work[q].run /\ work[p].seq = work[q].seq
         => p = q

\* No write but the ones of S is beyond what was audited, or can still get there:
\* a worker behind the barrier sends, even if its claim was taken over.
Resolved(r, S) ==
    \A s \in WriteSteps \ S : log[r].audited < s =>
        /\ site[r][s] = 0 /\ s \notin wire[r]
        /\ \A p \in Procs : work[p].at = "barred" /\ work[p].run = r => work[p].seq # s

\* What the row of a run and its journal say of its writes.
RowTrue(r) ==
    /\ log[r].audited \in Nat
    /\ \A s \in WriteSteps : s <= log[r].audited => site[r][s] = 1
    /\ run[r].phase \in Before => log[r].barriers = {} /\ log[r].audited = 0
    /\ run[r].effect = "not_sent" => log[r].audited = 0
    /\ run[r].verified => log[r].audited = NSteps
    /\ run[r].phase = "completed" => run[r].verified
    /\ run[r].phase \in Terminal => run[r].effect = "unknown" \/ Resolved(r, {})

\* The worker has the run's latest claim.
Current(p) == work[p].at \in Working /\ work[p].epoch = run[work[p].run].epoch

\* What the worker of the current claim knows of the writes.
Known(p) ==
    /\ work[p].at \in {"barred", "sent", "audit"} => Resolved(work[p].run, {work[p].seq})
    /\ work[p].at = "settle" => work[p].effect = "unknown" \/ Resolved(work[p].run, {})
    /\ work[p].at \notin {"claimed", "interrupted", "barred", "sent", "audit", "settle"}
         => Resolved(work[p].run, {})

ProgressOf(p) ==
    Current(p) =>
        /\ work[p].at \in Opening => run[work[p].run].phase \in Before
        /\ work[p].at \in Executing =>
             work[p].seq \in Nat /\ log[work[p].run].audited + 1 = work[p].seq /\ work[p].seq <= NSteps + 1
        /\ work[p].at \in {"claimed"} \cup Opening \cup Executing => ~work[p].verified
        /\ work[p].at = "audit" => site[work[p].run][work[p].seq] = 1
        /\ work[p].at = "persist" \/ (work[p].at = "settle" /\ work[p].verified)
             => log[work[p].run].audited = NSteps
        /\ run[work[p].run].effect = "unknown" \/ Known(p)

Truth == (\A r \in Runs : RowTrue(r)) /\ (\A p \in Procs : ProgressOf(p))

IInv == Shape /\ Claims /\ Leased /\ Quit /\ Dispatched /\ Truth

-----------------------------------------------------------------------------
(* What a step may do and leave each part of the invariant as it is.       *)

USE DEF journal, world, store

\* Claims are as they were.
EpochsKept == \A r \in Runs : /\ run'[r].epoch = run[r].epoch
                              /\ run'[r].phase = "none" => run'[r] = run[r]

ClaimWalk(q) ==
    \/ work'[q] = work[q]
    \/ work'[q].at = "idle"
    \/ work'[q].at \notin Working /\ work'[q].run \in Runs /\ run[work'[q].run].phase # "none"
    \/ /\ work'[q].run = work[q].run /\ work'[q].epoch = work[q].epoch
       /\ work[q].at \in Working

LEMMA ClaimsKept ==
    ASSUME IInv, EpochsKept, \A q \in Procs : ClaimWalk(q)
    PROVE  Claims'
<1>0. "idle" \notin Working
  BY Zenon DEF Working, Opening, Executing, Deciding
<1>1. \A q \in Procs : work'[q].at \in Working =>
         work[q].at \in Working /\ work'[q].run = work[q].run /\ work'[q].epoch = work[q].epoch
  BY Zenon, <1>0 DEF ClaimWalk
<1>2. \A q \in Procs : work[q].at \in Working => work[q].at # "idle"
  BY Zenon, <1>0
<1>3. \A r \in Runs : run'[r].epoch \in Nat /\ (run'[r].phase = "none" => run'[r] = NoRun)
  BY Zenon DEF IInv, Claims, EpochsKept
<1>4. \A q \in Procs : work'[q].at # "idle" => work'[q].run \in Runs /\ run'[work'[q].run].phase # "none"
  <2>1. \A q \in Procs : work'[q].at # "idle" => work'[q].run \in Runs /\ run[work'[q].run].phase # "none"
    BY Zenon, <1>2 DEF IInv, Claims, ClaimWalk
  <2> QED  BY Zenon, <2>1 DEF EpochsKept
<1>5. \A q \in Procs : work'[q].at \in Working =>
        work'[q].epoch \in Nat /\ 0 < work'[q].epoch /\ work'[q].epoch <= run'[work'[q].run].epoch
  <2> SUFFICES ASSUME NEW q \in Procs, work'[q].at \in Working
               PROVE  work'[q].epoch \in Nat /\ 0 < work'[q].epoch /\ work'[q].epoch <= run'[work'[q].run].epoch
    BY Zenon
  <2>1. work[q].run \in Runs
    BY Zenon, <1>1, <1>2 DEF IInv, Claims
  <2>2. run'[work[q].run].epoch = run[work[q].run].epoch
    BY Zenon, <2>1 DEF EpochsKept
  <2>3. work[q].epoch \in Nat /\ 0 < work[q].epoch /\ work[q].epoch <= run[work[q].run].epoch
    BY Zenon, <1>1 DEF IInv, Claims
  <2> QED  BY Zenon, <1>1, <2>2, <2>3
<1>6. \A p, q \in Procs :
        /\ work'[p].at \in Working /\ work'[q].at \in Working
        /\ work'[p].run = work'[q].run /\ work'[p].epoch = work'[q].epoch
        => p = q
  BY Zenon, <1>1 DEF IInv, Claims
<1> QED  BY Zenon, <1>3, <1>4, <1>5, <1>6 DEF Claims

\* The lease keeps its holder, browsers may exit, executions may be forgotten.
LeaseKept ==
    /\ lease'.epoch = lease.epoch /\ lease'.run = lease.run
    /\ lease'.state = "released" <=> lease.state = "released"
    /\ lease.phase # "reservation_only" => lease'.phase # "reservation_only"

HoldingKept ==
    \A q \in Procs, r \in Runs : mem'[q][r].st \in Holding => mem'[q][r] = mem[q][r]

GoneKept ==
    \A q \in Procs, r \in Runs : mem'[q][r].st \in Gone => mem[q][r].st \in Gone

BoardingWalk(q) ==
    work'[q].at \in Boarding =>
        /\ work[q].at \in Boarding /\ work'[q].run = work[q].run
        /\ work'[q].at = "launch" => work[q].at = "launch"
        /\ mem'[q][work[q].run] = mem[q][work[q].run]

LEMMA LeasedKept ==
    ASSUME IInv, LeaseKept, HoldingKept, alive' \subseteq alive, \A q \in Procs : BoardingWalk(q)
    PROVE  Leased'
<1>1. lease'.epoch \in Nat /\ (lease'.state = "released" => lease'.run = None)
        /\ (lease'.state # "released" => lease'.epoch # 0)
  BY Zenon DEF IInv, Leased, LeaseKept
<1>2. \A p \in Procs, r \in Runs : mem'[p][r].st \in Holding =>
         mem'[p][r] = mem[p][r]
  BY Zenon DEF HoldingKept
<1>3. \A p \in Procs, r \in Runs : mem'[p][r].st \in Holding =>
         mem'[p][r].epoch \in Nat /\ mem'[p][r].epoch <= lease'.epoch
  BY Zenon, <1>2 DEF IInv, Leased, LeaseKept
<1>4. \A p, q \in Procs, r, s \in Runs :
         /\ mem'[p][r].st \in Holding /\ mem'[q][s].st \in Holding
         /\ mem'[p][r].epoch = mem'[q][s].epoch
         => p = q /\ r = s
  <2> SUFFICES ASSUME NEW p \in Procs, NEW q \in Procs, NEW r \in Runs, NEW s \in Runs,
                      mem'[p][r].st \in Holding, mem'[q][s].st \in Holding,
                      mem'[p][r].epoch = mem'[q][s].epoch
               PROVE  p = q /\ r = s
    BY Zenon
  <2>1. mem'[p][r] = mem[p][r] /\ mem'[q][s] = mem[q][s]
    BY Zenon, <1>2
  <2> QED  BY <2>1 DEF IInv, Leased
<1>5. ASSUME NEW p \in Procs, work'[p].at \in Boarding
      PROVE  mem'[p][work'[p].run].st = "claimed"
  <2>1. work[p].at \in Boarding => mem[p][work[p].run].st = "claimed"
    BY Zenon DEF IInv, Leased
  <2> QED  BY Zenon, <1>5, <2>1 DEF BoardingWalk
<1>6. Occupied => Occupied'
  BY Zenon DEF Occupied, LeaseKept
<1>7. \A p \in Procs : work'[p].at = "launch" =>
         lease'.epoch = mem'[p][work'[p].run].epoch /\ Occupied'
  BY Zenon, <1>6 DEF IInv, Leased, BoardingWalk, Boarding, LeaseKept
<1>8. \A e \in alive' : lease'.epoch = e /\ Occupied'
  BY Zenon, <1>6 DEF IInv, Leased, LeaseKept
<1> QED  BY Zenon, <1>1, <1>3, <1>4, <1>5, <1>7, <1>8 DEF Leased

\* Rows keep their lease, and do not come back from an end.
RowsKept ==
    \A r \in Runs : /\ run'[r].lease = run[r].lease
                    /\ run'[r].ack => run[r].ack
                    /\ run[r].cancel => run'[r].cancel
                    /\ run[r].phase \in Terminal => run'[r].phase \in Terminal
                    /\ auth'[r] => auth[r]

\* Over, of the next state.
OverNow(r) == run'[r].phase \in Terminal \/ ~auth'[r] \/ run'[r].cancel

QuitWalk(q) ==
    /\ work'[q].at = "stopped" => work[q].at = "stopped" /\ work'[q].run = work[q].run
    /\ work'[q].at = "cleanup" /\ ~work'[q].stop =>
         \/ work[q].at = "cleanup" /\ ~work[q].stop /\ work'[q].run = work[q].run
         \/ OverNow(work'[q].run)
    /\ work[q].at = "record" =>
         \/ work'[q] = work[q] \/ ~work[q].stop
         \/ \A r \in Runs : mem'[q][r].st \notin Gone

LEMMA QuitKept ==
    ASSUME IInv, LeaseKept, GoneKept, RowsKept, \A q \in Procs : QuitWalk(q)
    PROVE  Quit'
<1>0. \A r \in Runs : Over(r) => Over(r)'
  BY Zenon DEF Over, RowsKept
<1>1. \A r \in Runs :
         /\ run'[r].lease \in Nat /\ run'[r].lease <= lease'.epoch
         /\ run'[r].lease = lease'.epoch /\ lease'.state # "released" => lease'.run = r
  BY Zenon DEF IInv, Quit, RowsKept, LeaseKept
<1>2. \A r \in Runs : run'[r].ack => run'[r].cancel /\ lease'.run # r
  BY Zenon DEF IInv, Quit, RowsKept, LeaseKept
<1>3. \A p \in Procs : work'[p].at = "stopped" => run'[work'[p].run].cancel /\ lease'.run # work'[p].run
  <2> SUFFICES ASSUME NEW p \in Procs, work'[p].at = "stopped"
               PROVE  run'[work'[p].run].cancel /\ lease'.run # work'[p].run
    BY Zenon
  <2>1. work[p].at = "stopped" /\ work'[p].run = work[p].run
    BY Zenon DEF QuitWalk
  <2>2. work[p].run \in Runs
    BY Zenon, <2>1 DEF IInv, Claims
  <2>3. run[work[p].run].cancel /\ lease.run # work[p].run
    BY Zenon, <2>1 DEF IInv, Quit
  <2> QED  BY Zenon, <2>1, <2>2, <2>3 DEF RowsKept, LeaseKept
<1>4. ASSUME NEW p \in Procs, work'[p].at = "cleanup", ~work'[p].stop
      PROVE  run'[work'[p].run].phase \in Terminal \/ ~auth'[work'[p].run] \/ run'[work'[p].run].cancel
  <2>1. CASE work[p].at = "cleanup" /\ ~work[p].stop /\ work'[p].run = work[p].run
    <3>1. work[p].run \in Runs /\ Over(work[p].run)
      BY Zenon, <2>1 DEF IInv, Claims, Quit
    <3> QED  BY Zenon, <2>1, <3>1 DEF Over, RowsKept
  <2>2. CASE OverNow(work'[p].run)
    BY Zenon, <2>2 DEF OverNow
  <2> QED  BY Zenon, <1>4, <2>1, <2>2 DEF QuitWalk
<1>5. \A p \in Procs, r \in Runs : mem'[p][r].st \in Gone =>
         \/ Over(r)' /\ lease'.run # r
         \/ work'[p].at = "record" /\ work'[p].run = r /\ work'[p].stop
  <2> SUFFICES ASSUME NEW p \in Procs, NEW r \in Runs, mem'[p][r].st \in Gone
               PROVE  \/ Over(r)' /\ lease'.run # r
                      \/ work'[p].at = "record" /\ work'[p].run = r /\ work'[p].stop
    BY Zenon
  <2>1. mem[p][r].st \in Gone
    BY Zenon DEF GoneKept
  <2>2. CASE Over(r) /\ lease.run # r
    BY Zenon, <1>0, <2>2 DEF LeaseKept
  <2>3. CASE work[p].at = "record" /\ work[p].run = r /\ work[p].stop
    BY Zenon, <2>3 DEF QuitWalk
  <2> QED  BY Zenon, <2>1, <2>2, <2>3 DEF IInv, Quit
<1> QED  BY Zenon, <1>1, <1>2, <1>3, <1>4, <1>5 DEF Quit, Over

\* Nothing is dispatched, and the owner's confirmation stands.
WritesKept ==
    /\ wire' = wire /\ site' = site
    /\ \A r \in Runs : log'[r].barriers = log[r].barriers
    /\ \A r \in Runs : gate[r].decision = "confirmed" => gate'[r].decision = "confirmed"

WriteWalk(q) ==
    /\ work'[q].at \in Dispatching => work'[q].seq \in WriteSteps
    /\ work'[q].at = "barred" =>
         work[q].at = "barred" /\ work'[q].run = work[q].run /\ work'[q].seq = work[q].seq

LEMMA DispatchedKept ==
    ASSUME IInv, WritesKept, \A q \in Procs : WriteWalk(q)
    PROVE  Dispatched'
<1>0. \A q \in Procs : work'[q].at = "barred" =>
        work[q].at = "barred" /\ work'[q].run = work[q].run /\ work'[q].seq = work[q].seq /\ work[q].run \in Runs
  BY Zenon DEF WriteWalk, IInv, Claims
<1>1. \A r \in Runs, s \in WriteSteps :
         /\ site'[r][s] \in {0, 1}
         /\ s \in wire'[r] => site'[r][s] = 0
         /\ s \in wire'[r] \/ site'[r][s] = 1 => Barrier(r, s)'
  <2>1. \A r \in Runs, s \in WriteSteps :
           /\ site[r][s] \in {0, 1}
           /\ s \in wire[r] => site[r][s] = 0
           /\ s \in wire[r] \/ site[r][s] = 1 => Barrier(r, s)
    BY Zenon DEF IInv, Dispatched
  <2>2. \A r \in Runs, s \in WriteSteps : Barrier(r, s) => Barrier(r, s)'
    BY Zenon DEF Barrier, WritesKept
  <2>3. wire' = wire /\ site' = site
    BY Zenon DEF WritesKept
  <2> QED  BY Zenon, <2>1, <2>2, <2>3
<1>2. \A r \in Runs : log'[r].barriers # {} => gate'[r].decision = "confirmed"
  BY Zenon DEF IInv, Dispatched, WritesKept
<1>3. \A p \in Procs : work'[p].at \in Dispatching => work'[p].seq \in WriteSteps
  BY Zenon DEF WriteWalk
<1>4. \A p \in Procs : work'[p].at = "barred" =>
         /\ \E x \in log'[work'[p].run].barriers : x[1] = work'[p].seq
         /\ work'[p].seq \notin wire'[work'[p].run] /\ site'[work'[p].run][work'[p].seq] = 0
  <2> SUFFICES ASSUME NEW p \in Procs, work'[p].at = "barred"
               PROVE  /\ \E x \in log'[work'[p].run].barriers : x[1] = work'[p].seq
                      /\ work'[p].seq \notin wire'[work'[p].run] /\ site'[work'[p].run][work'[p].seq] = 0
    BY Zenon
  <2>1. /\ \E x \in log[work[p].run].barriers : x[1] = work[p].seq
        /\ work[p].seq \notin wire[work[p].run] /\ site[work[p].run][work[p].seq] = 0
    BY Zenon, <1>0 DEF IInv, Dispatched, Barrier
  <2> QED  BY Zenon, <1>0, <2>1 DEF WritesKept
<1>5. \A p, q \in Procs :
         /\ work'[p].at = "barred" /\ work'[q].at = "barred"
         /\ work'[p].run = work'[q].run /\ work'[p].seq = work'[q].seq
         => p = q
  <2> SUFFICES ASSUME NEW p \in Procs, NEW q \in Procs, work'[p].at = "barred", work'[q].at = "barred",
                      work'[p].run = work'[q].run, work'[p].seq = work'[q].seq
               PROVE  p = q
    BY Zenon
  <2>1. work[p].run = work[q].run /\ work[p].seq = work[q].seq
    BY Zenon, <1>0
  <2> QED  BY Zenon, <1>0, <2>1 DEF IInv, Dispatched
<1> QED  BY Zenon, <1>1, <1>2, <1>3, <1>4, <1>5 DEF Dispatched, Barrier

\* The row, the journal and the site tell of the run's writes what they told.
SameRow(r) ==
    /\ run'[r].phase \in Before <=> run[r].phase \in Before
    /\ run'[r].phase \in Terminal <=> run[r].phase \in Terminal
    /\ run'[r].phase = "completed" <=> run[r].phase = "completed"
    /\ run'[r].effect = run[r].effect /\ run'[r].verified = run[r].verified
    /\ run'[r].epoch = run[r].epoch
    /\ log'[r].audited = log[r].audited /\ log'[r].barriers = log[r].barriers
    /\ wire'[r] = wire[r] /\ site'[r] = site[r]

\* Nobody comes to the dispatch of a write of r.
NobodyBarred(r) ==
    \A q \in Procs : work'[q].at = "barred" /\ work'[q].run = r =>
        work[q].at = "barred" /\ work[q].run = r /\ work'[q].seq = work[q].seq

LEMMA ResolvedKept ==
    ASSUME NEW r, NEW S, NobodyBarred(r),
           log'[r].audited = log[r].audited, wire'[r] = wire[r], site'[r] = site[r]
    PROVE  Resolved(r, S) => Resolved(r, S)'
BY Zenon DEF Resolved, NobodyBarred

LEMMA SameRowTrue ==
    ASSUME IInv, NEW r \in Runs, SameRow(r), NobodyBarred(r)
    PROVE  RowTrue(r)'
<1>0. RowTrue(r)
  BY Zenon DEF IInv, Truth
<1>1. run'[r].effect = "unknown" \/ Resolved(r, {}) => run'[r].effect = "unknown" \/ Resolved(r, {})'
  BY Zenon, ResolvedKept DEF SameRow
<1>2. run'[r].phase \in Terminal => run'[r].effect = "unknown" \/ Resolved(r, {})'
  BY Zenon, <1>0, <1>1 DEF RowTrue, SameRow
<1>3. /\ log'[r].audited \in Nat
      /\ \A s \in WriteSteps : s <= log'[r].audited => site'[r][s] = 1
      /\ run'[r].phase \in Before => log'[r].barriers = {} /\ log'[r].audited = 0
  <2>1. /\ log[r].audited \in Nat
        /\ \A s \in WriteSteps : s <= log[r].audited => site[r][s] = 1
        /\ run[r].phase \in Before => log[r].barriers = {} /\ log[r].audited = 0
    BY Zenon, <1>0 DEF RowTrue
  <2> QED  BY Zenon, <2>1 DEF SameRow
<1>4. /\ run'[r].effect = "not_sent" => log'[r].audited = 0
      /\ run'[r].verified => log'[r].audited = NSteps
      /\ run'[r].phase = "completed" => run'[r].verified
  BY Zenon, <1>0 DEF RowTrue, SameRow
<1> QED  BY Zenon, <1>2, <1>3, <1>4 DEF RowTrue

LEMMA SameProgress ==
    ASSUME IInv, NEW q \in Procs, work'[q] = work[q],
           work[q].at \in Working => SameRow(work[q].run) /\ NobodyBarred(work[q].run)
    PROVE  ProgressOf(q)'
<1> SUFFICES ASSUME Current(q)'
             PROVE  ProgressOf(q)'
  BY Zenon DEF ProgressOf
<1>1. work[q].at \in Working /\ SameRow(work[q].run) /\ NobodyBarred(work[q].run)
  BY Zenon DEF Current
<1>2. Current(q) /\ ProgressOf(q)
  BY Zenon, <1>1 DEF Current, SameRow, IInv, Truth
<1>3. Known(q) => Known(q)'
  <2>0. PICK r, y : r = work[q].run /\ y = work[q].seq
    BY Zenon
  <2>1. Resolved(r, {}) => Resolved(r, {})'
    BY Zenon, <1>1, <2>0, ResolvedKept DEF SameRow
  <2>2. Resolved(r, {y}) => Resolved(r, {y})'
    BY Zenon, <1>1, <2>0, ResolvedKept DEF SameRow
  <2> QED  BY Zenon, <2>0, <2>1, <2>2 DEF Known
<1>4. run'[work'[q].run].effect = "unknown" \/ Known(q)'
  BY Zenon, <1>1, <1>2, <1>3 DEF ProgressOf, SameRow
<1>5. /\ work'[q].at \in Opening => run'[work'[q].run].phase \in Before
      /\ work'[q].at \in Executing =>
           work'[q].seq \in Nat /\ log'[work'[q].run].audited + 1 = work'[q].seq /\ work'[q].seq <= NSteps + 1
  BY Zenon, <1>1, <1>2 DEF ProgressOf, SameRow
<1>6. /\ work'[q].at \in {"claimed"} \cup Opening \cup Executing => ~work'[q].verified
      /\ work'[q].at = "audit" => site'[work'[q].run][work'[q].seq] = 1
      /\ work'[q].at = "persist" \/ (work'[q].at = "settle" /\ work'[q].verified)
           => log'[work'[q].run].audited = NSteps
  BY Zenon, <1>1, <1>2 DEF ProgressOf, SameRow
<1> QED  BY Zenon, <1>4, <1>5, <1>6 DEF ProgressOf

\* A step that tells nothing new, of workers who stay, leave or have said why
\* they may go on.
LEMMA TruthKept ==
    ASSUME IInv, \A r \in Runs : SameRow(r) /\ NobodyBarred(r),
           \A q \in Procs : work'[q] = work[q] \/ work'[q].at \notin Working \/ ProgressOf(q)'
    PROVE  Truth'
<1>1. \A r \in Runs : RowTrue(r)'
  BY Zenon, SameRowTrue
<1>2. \A q \in Procs : ProgressOf(q)'
  <2> SUFFICES ASSUME NEW q \in Procs PROVE ProgressOf(q)'
    BY Zenon
  <2>1. CASE work'[q] = work[q]
    <3>1. work[q].at \in Working => SameRow(work[q].run) /\ NobodyBarred(work[q].run)
      BY Zenon DEF IInv, Claims, Working, Opening, Executing, Deciding
    <3> QED  BY Zenon, <2>1, <3>1, SameProgress
  <2>2. CASE work'[q].at \notin Working
    BY Zenon, <2>2 DEF ProgressOf, Current
  <2> QED  BY Zenon, <2>1, <2>2
<1> QED  BY Zenon, <1>1, <1>2 DEF Truth

\* A worker of the current claim changes what its run's row tells: nobody else
\* has anything to say about it.
LEMMA TruthOfWorker ==
    ASSUME IInv, NEW p \in Procs, NEW r \in Runs, work[p].run = r, Current(p),
           \A q \in Procs \ {p} : work'[q] = work[q],
           work'[p].at \in Working => work'[p].run = r,
           \A s \in Runs \ {r} : SameRow(s), run'[r].epoch = run[r].epoch,
           RowTrue(r)', ProgressOf(p)'
    PROVE  Truth'
<1>0. ASSUME NEW s \in Runs \ {r}
      PROVE  NobodyBarred(s)
  <2>1. ASSUME NEW q \in Procs, work'[q].at = "barred", work'[q].run = s
        PROVE  work'[q] = work[q]
    BY Zenon, <2>1 DEF Working, Executing
  <2> QED  BY Zenon, <2>1 DEF NobodyBarred
<1>1. ASSUME NEW s \in Runs
      PROVE  RowTrue(s)'
  BY Zenon, <1>0, SameRowTrue
<1>2. ASSUME NEW q \in Procs, q # p
      PROVE  ProgressOf(q)'
  <2>1. work'[q] = work[q]
    BY Zenon, <1>2
  <2>2. CASE work[q].at \in Working /\ work[q].run = r
    <3>1. work[q].epoch # work[p].epoch
      BY Zenon, <1>2, <2>2 DEF IInv, Claims, Current
    <3> QED  BY Zenon, <2>1, <2>2, <3>1 DEF ProgressOf, Current
  <2>3. CASE work[q].at \notin Working \/ work[q].run # r
    <3>1. work[q].at \in Working => SameRow(work[q].run) /\ NobodyBarred(work[q].run)
      BY Zenon, <1>0, <2>3 DEF IInv, Claims, Working, Opening, Executing, Deciding
    <3> QED  BY Zenon, <2>1, <3>1, SameProgress
  <2> QED  BY Zenon, <2>2, <2>3
<1> QED  BY Zenon, <1>1, <1>2 DEF Truth

-----------------------------------------------------------------------------
(* A worker's step on its run's row.                                       *)

Marked == Boarding \cup Dispatching \cup {"stopped"}

\* The worker of run r comes to `at`, and no other worker moves.
MovesTo(p, r, at) ==
    /\ WorkShape'
    /\ \A q \in Procs \ {p} : work'[q] = work[q]
    /\ work'[p].at = at /\ work'[p].run = r /\ work'[p].epoch = work[p].epoch

Rests(p) ==
    /\ WorkShape'
    /\ \A q \in Procs \ {p} : work'[q] = work[q]
    /\ work'[p] = Idle

LEMMA NobodyComes ==
    ASSUME NEW p \in Procs, NEW s, NEW at, MovesTo(p, s, at), at # "barred", NEW r
    PROVE  NobodyBarred(r)
BY Zenon DEF MovesTo, NobodyBarred

\* The ways to write work.
LEMMA WorkWrites ==
    ASSUME IInv, NEW p \in Procs, NEW r, work[p].run = r, NEW at
    PROVE  /\ Goes(p, at) => /\ MovesTo(p, r, at)
                             /\ work'[p].seq = work[p].seq /\ work'[p].effect = work[p].effect
                             /\ work'[p].verified = work[p].verified /\ work'[p].stop = work[p].stop
           /\ Reads(p, at) => MovesTo(p, r, at)
           /\ \A stop : Turns(p, at, stop) => MovesTo(p, r, at) /\ work'[p].stop = stop
           /\ work' = [work EXCEPT ![p] = Idle] => Rests(p)
<1> USE DEF IInv, Shape, WorkShape, MovesTo, Idle
<1>1. Goes(p, at) => /\ MovesTo(p, r, at)
                     /\ work'[p].seq = work[p].seq /\ work'[p].effect = work[p].effect
                     /\ work'[p].verified = work[p].verified /\ work'[p].stop = work[p].stop
  BY DEF Goes
<1>2. Reads(p, at) => MovesTo(p, r, at)  BY DEF Reads
<1>3. \A stop : Turns(p, at, stop) => MovesTo(p, r, at) /\ work'[p].stop = stop  BY DEF Turns
<1>4. work' = [work EXCEPT ![p] = Idle] => Rests(p)  BY DEF Rests
<1> QED  BY Zenon, <1>1, <1>2, <1>3, <1>4

\* The row of r becomes `row`, and no other row changes.
Writes(r, row) == RunShape' /\ run'[r] = row /\ \A s \in Runs \ {r} : run'[s] = run[s]

LEMMA RunWrites ==
    ASSUME IInv, NEW r \in Runs, NEW row, Update(r, row), DOMAIN row = DOMAIN NoRun
    PROVE  Writes(r, row)
BY Zenon DEF IInv, Shape, RunShape, Update, Writes

\* What such a step leaves alone.
RowOnly == lease' = lease /\ auth' = auth /\ gate' = gate /\ mem' = mem /\ alive' = alive
           /\ wire' = wire /\ site' = site

LogsKept == LogShape' /\ \A s \in Runs : log'[s].barriers = log[s].barriers

\* The worker leaves, or goes on where no mark is set.
PlainWalk(p) ==
    \/ Rests(p)
    \/ /\ work[p].run \in Runs /\ MovesTo(p, work[p].run, work'[p].at) /\ work'[p].at \notin Marked
       /\ work'[p].at = "cleanup" => work'[p].stop \/ OverNow(work[p].run)

LEMMA PlainGoes ==
    ASSUME NEW p \in Procs, NEW r \in Runs, work[p].run = r, NEW at, MovesTo(p, r, at),
           at \notin Marked, at # "cleanup"
    PROVE  PlainWalk(p)
BY Zenon DEF PlainWalk, MovesTo

LEMMA PlainStep ==
    ASSUME IInv, NEW p \in Procs, work[p].at \in Working, PlainWalk(p), RowOnly, LogsKept,
           RunShape', EpochsKept, RowsKept, Truth'
    PROVE  IInv'
<1>0. WorkShape' /\ \A q \in Procs \ {p} : work'[q] = work[q]
  BY Zenon DEF PlainWalk, Rests, MovesTo
<1>1. Shape'
  BY Zenon, <1>0 DEF IInv, Shape, RowOnly, LogsKept, LeaseShape, GateShape, MemShape, SiteShape
<1>i. Idle.at = "idle"
  BY DEF Idle
<1>2. work'[p].at \notin Marked /\ (work'[p].at = "cleanup" => work'[p].stop \/ OverNow(work'[p].run))
  <2>1. CASE Rests(p)
    BY Zenon, <1>i, <2>1 DEF Rests, Marked, Boarding, Dispatching
  <2>2. CASE ~Rests(p)
    BY Zenon, <2>2 DEF PlainWalk, MovesTo
  <2> QED  BY Zenon, <2>1, <2>2
<1>3. Claims'
  <2>1. ClaimWalk(p)
    BY Zenon, <1>i DEF ClaimWalk, PlainWalk, Rests, MovesTo
  <2>2. \A q \in Procs : ClaimWalk(q)
    BY Zenon, <1>0, <2>1 DEF ClaimWalk
  <2> QED  BY Zenon, <2>2, ClaimsKept
<1>4. LeaseKept /\ HoldingKept /\ GoneKept /\ alive' \subseteq alive
  BY Zenon DEF RowOnly, LeaseKept, HoldingKept, GoneKept
<1>5. Leased'
  <2>1. \A q \in Procs : BoardingWalk(q)
    BY Zenon, <1>0, <1>2 DEF BoardingWalk, Marked, RowOnly
  <2> QED  BY Zenon, <1>4, <2>1, LeasedKept
<1>6. Quit'
  <2>1. QuitWalk(p)
    BY Zenon, <1>2 DEF QuitWalk, Marked, Working, Opening, Executing, Deciding
  <2>2. \A q \in Procs : QuitWalk(q)
    BY Zenon, <1>0, <2>1 DEF QuitWalk
  <2> QED  BY Zenon, <1>4, <2>2, QuitKept
<1>7. Dispatched'
  <2>1. \A q \in Procs : WriteWalk(q)
    BY Zenon, <1>0, <1>2 DEF WriteWalk, Marked, Dispatching, IInv, Dispatched
  <2>2. WritesKept
    BY Zenon DEF WritesKept, RowOnly, LogsKept
  <2> QED  BY Zenon, <2>1, <2>2, DispatchedKept
<1> QED  BY Zenon, <1>1, <1>3, <1>5, <1>6, <1>7 DEF IInv

Settled == Deciding \ {"claimed", "interrupted", "settle", "persist"}

\* Nothing beyond what was audited is on its way, or the row says so.
Tells(r) == run[r].effect = "unknown" \/ Resolved(r, {})

LEMMA SettledProgress ==
    ASSUME NEW p \in Procs, NEW r, work'[p].run = r, work'[p].at \in Settled,
           Current(p)' => Tells(r)'
    PROVE  ProgressOf(p)'
<1>1. work'[p].at \notin Opening \cup Executing \cup {"claimed", "audit", "sent", "settle", "persist"} /\ work'[p].at # "barred"
  BY Zenon DEF Settled, Deciding, Opening, Executing
<1>2. Current(p)' => run'[work'[p].run].effect = "unknown" \/ Known(p)'
  BY Zenon, <1>1 DEF Tells, Known, Resolved
<1> QED  BY Zenon, <1>1, <1>2 DEF ProgressOf

\* What a worker of the current claim has not learned the row may tell.
LEMMA CurrentTells ==
    ASSUME IInv, NEW p \in Procs, NEW r, work[p].run = r, Current(p),
           work[p].at \notin {"claimed", "interrupted", "barred", "sent", "audit", "settle"}
    PROVE  Tells(r)
BY Zenon DEF IInv, Truth, ProgressOf, Known, Tells

\* The rows change in what does not matter here.
RowsCalm ==
    /\ RunShape' /\ EpochsKept /\ RowsKept
    /\ \A s \in Runs : /\ run'[s].phase = run[s].phase /\ run'[s].effect = run[s].effect
                       /\ run'[s].verified = run[s].verified

LEMMA WorksOnRun ==
    ASSUME IInv, NEW p \in Procs, work[p].at # "idle"
    PROVE  work[p].run \in Runs /\ run[work[p].run].phase # "none"
BY Zenon DEF IInv, Claims

-----------------------------------------------------------------------------
(* Steps of the current claim that change what the row tells.              *)

\* The row of r in phase and effect, the rest kept.
Tale(r, phase, effect) ==
    /\ RunShape' /\ \A s \in Runs \ {r} : run'[s] = run[s]
    /\ run'[r].phase = phase /\ run'[r].effect = effect
    /\ run'[r].epoch = run[r].epoch /\ run'[r].lease = run[r].lease
    /\ run'[r].ack = run[r].ack /\ run'[r].cancel = run[r].cancel

LEMMA TaleWrites ==
    ASSUME IInv, NEW r \in Runs
    PROVE  /\ \A p, e, phase, effect : Advance(p, r, e, phase, effect) =>
                Tale(r, phase, effect) /\ run'[r].verified = run[r].verified
           /\ \A p, e, status : Finalize(p, r, e, status) =>
                Tale(r, status, run[r].effect) /\ run'[r].verified = run[r].verified
           /\ \A p, e : PersistVerified(p, r, e) =>
                Tale(r, "verifying", run[r].effect) /\ run'[r].verified = TRUE
           /\ Update(r, [run[r] EXCEPT !.effect = "acknowledged"]) =>
                Tale(r, run[r].phase, "acknowledged") /\ run'[r].verified = run[r].verified
<1>0. DOMAIN run[r] = DOMAIN NoRun
  BY Zenon DEF IInv, Shape, RunShape
<1>1. ASSUME NEW p, NEW e, NEW phase, NEW effect, Advance(p, r, e, phase, effect)
      PROVE  Tale(r, phase, effect) /\ run'[r].verified = run[r].verified
  <2>1. Writes(r, [run[r] EXCEPT !.phase = phase, !.effect = effect])
    BY Zenon, <1>0, <1>1, RunWrites DEF Advance
  <2> QED  BY <1>0, <2>1 DEF Writes, Tale, NoRun
<1>2. ASSUME NEW p, NEW e, NEW status, Finalize(p, r, e, status)
      PROVE  Tale(r, status, run[r].effect) /\ run'[r].verified = run[r].verified
  <2>1. Writes(r, [run[r] EXCEPT !.phase = status])
    BY <1>0, <1>2, RunWrites DEF Finalize
  <2> QED  BY <1>0, <2>1 DEF Writes, Tale, NoRun
<1>3. ASSUME NEW p, NEW e, PersistVerified(p, r, e)
      PROVE  Tale(r, "verifying", run[r].effect) /\ run'[r].verified = TRUE
  <2>1. Writes(r, [run[r] EXCEPT !.verified = TRUE, !.phase = "verifying"])
    BY Zenon, <1>0, <1>3, RunWrites DEF PersistVerified
  <2> QED  BY <1>0, <2>1 DEF Writes, Tale, NoRun
<1>4. ASSUME Update(r, [run[r] EXCEPT !.effect = "acknowledged"])
      PROVE  Tale(r, run[r].phase, "acknowledged") /\ run'[r].verified = run[r].verified
  <2>1. Writes(r, [run[r] EXCEPT !.effect = "acknowledged"])
    BY <1>0, <1>4, RunWrites
  <2> QED  BY <1>0, <2>1 DEF Writes, Tale, NoRun
<1> QED  BY Zenon, <1>1, <1>2, <1>3, <1>4

\* The rows of such a step.
LEMMA TaleRows ==
    ASSUME IInv, NEW r \in Runs, NEW phase, NEW effect, Tale(r, phase, effect), auth' = auth,
           phase # "none", run[r].phase \notin Terminal
    PROVE  RunShape' /\ EpochsKept /\ RowsKept
BY Zenon DEF Tale, EpochsKept, RowsKept

\* One lemma for them: it is left to show what the row and the worker know now.
LEMMA TellingStep ==
    ASSUME IInv, NEW p \in Procs, NEW r \in Runs, work[p].run = r, Current(p),
           RowOnly, log' = log, NEW phase, NEW effect, Tale(r, phase, effect),
           phase # "none", run[r].phase \notin Terminal,
           NEW at, MovesTo(p, r, at), at \notin Marked,
           at = "cleanup" => OverNow(r),
           RowTrue(r)', ProgressOf(p)'
    PROVE  IInv'
<1>1. \A s \in Runs \ {r} : SameRow(s)
  BY Zenon DEF Tale, RowOnly, SameRow
<1>2. Truth'
  BY Zenon, <1>1, TruthOfWorker DEF Tale, MovesTo
<1>3. PlainWalk(p)
  BY Zenon DEF PlainWalk, MovesTo
<1>4. LogsKept
  BY Zenon DEF LogsKept, IInv, Shape, LogShape
<1>5. RunShape' /\ EpochsKept /\ RowsKept
  BY Zenon, TaleRows DEF RowOnly
<1>6. work[p].at \in Working
  BY Zenon DEF Current
<1> QED  BY Zenon, <1>2, <1>3, <1>4, <1>5, <1>6, PlainStep

\* What the row must satisfy to be true again.
LEMMA TaleTrue ==
    ASSUME IInv, NEW r \in Runs, NEW phase, NEW effect, Tale(r, phase, effect), RowOnly, log' = log,
           phase \in Before => run[r].phase \in Before,
           effect = "not_sent" => run[r].effect = "not_sent",
           run'[r].verified => log[r].audited = NSteps,
           phase = "completed" => run'[r].verified,
           phase \in Terminal => effect = "unknown" \/ Resolved(r, {})'
    PROVE  RowTrue(r)'
<1>0. RowTrue(r) /\ wire' = wire /\ site' = site
  BY Zenon DEF IInv, Truth, RowOnly
<1>1. /\ log'[r].audited \in Nat
      /\ \A s \in WriteSteps : s <= log'[r].audited => site'[r][s] = 1
      /\ run'[r].phase \in Before => log'[r].barriers = {} /\ log'[r].audited = 0
  BY Zenon, <1>0 DEF RowTrue, Tale
<1>2. /\ run'[r].effect = "not_sent" => log'[r].audited = 0
      /\ run'[r].verified => log'[r].audited = NSteps
      /\ run'[r].phase = "completed" => run'[r].verified
  BY Zenon, <1>0 DEF RowTrue, Tale
<1>3. run'[r].phase \in Terminal => run'[r].effect = "unknown" \/ Resolved(r, {})'
  BY Zenon DEF Tale
<1> QED  BY Zenon, <1>1, <1>2, <1>3 DEF RowTrue

\* A run that was not started has sent nothing; one that was verified, all.
LEMMA UnstartedResolved ==
    ASSUME IInv, NEW r \in Runs, run[r].phase \in Before
    PROVE  Resolved(r, {}) /\ log[r].audited = 0
<1>1. log[r].barriers = {} /\ log[r].audited = 0
  BY Zenon DEF IInv, Truth, RowTrue
<1>2. \A s \in WriteSteps : ~Barrier(r, s)
  BY Zenon, <1>1 DEF Barrier
<1>3. \A s \in WriteSteps : site[r][s] = 0 /\ s \notin wire[r]
  BY Zenon, <1>2 DEF IInv, Dispatched
<1>4. ASSUME NEW p \in Procs, work[p].at = "barred", work[p].run = r PROVE FALSE
  <2>1. work[p].at \in Dispatching
    BY Zenon, <1>4 DEF Dispatching
  <2>2. work[p].seq \in WriteSteps /\ Barrier(work[p].run, work[p].seq)
    BY Zenon, <1>4, <2>1 DEF IInv, Dispatched
  <2> QED  BY Zenon, <1>2, <1>4, <2>2
<1> QED  BY Zenon, <1>1, <1>3, <1>4 DEF Resolved

LEMMA MineIsCurrent ==
    ASSUME IInv, NEW p \in Procs, NEW r, work[p].run = r, work[p].at \in Working,
           run[r].epoch = work[p].epoch
    PROVE  Current(p)
BY Zenon DEF Current

LEMMA ActiveNotOver ==
    ASSUME NEW r \in Runs, Active(r)
    PROVE  run[r].phase \notin Terminal /\ run[r].phase # "none"
BY Zenon DEF Active, ActivePhases, Terminal

-----------------------------------------------------------------------------
(* Deciding, capturing and ending.                                         *)

\* The steps of a worker that decide on its run, capture the profile and end it.
LEMMA SettlingSteps ==
    ASSUME IInv
    PROVE  \A p \in Procs :
             \/ Begin(p) \/ Verify(p) \/ StepFails(p) \/ Settle(p) \/ Persist(p)
             \/ Failed(p) \/ Deferred(p) \/ Fail(p) \/ Complete(p) \/ EndCancelled(p)
             \/ Capture(p) \/ LookupCapture(p) \/ SendCapture(p) \/ Promote(p) \/ QuarantineCapture(p)
             \/ Abort(p) \/ SettleInterrupted(p)
             => IInv'

<1>CalmWrites.
      ASSUME NEW r \in Runs, auth' = auth
      PROVE  /\ run' = run => RowsCalm
             /\ \A status : CaptureBecomes(r, status) /\ run[r].phase # "none" => RowsCalm
  <2> USE <1>CalmWrites
  <2> USE DEF RowsCalm, EpochsKept, RowsKept
  <2>1. run' = run => RowsCalm
    BY Zenon DEF IInv, Shape, RunShape
  <2>2. ASSUME NEW status, CaptureBecomes(r, status), run[r].phase # "none"
        PROVE  RowsCalm
    <3>1. DOMAIN [run[r] EXCEPT !.capture = status] = DOMAIN NoRun
      BY Zenon DEF IInv, Shape, RunShape
    <3>2. Writes(r, [run[r] EXCEPT !.capture = status])
      BY Zenon, <2>2, <3>1, RunWrites DEF CaptureBecomes
    <3>3. DOMAIN run[r] = DOMAIN NoRun
      BY Zenon DEF IInv, Shape, RunShape
    <3>4. /\ run'[r].phase = run[r].phase /\ run'[r].effect = run[r].effect
          /\ run'[r].verified = run[r].verified /\ run'[r].epoch = run[r].epoch
          /\ run'[r].lease = run[r].lease /\ run'[r].ack = run[r].ack /\ run'[r].cancel = run[r].cancel
      BY <3>2, <3>3 DEF Writes, NoRun
    <3>5. \A s \in Runs \ {r} : run'[s] = run[s]
      BY Zenon, <3>2 DEF Writes
    <3> QED  BY Zenon, <2>2, <3>2, <3>4, <3>5 DEF Writes
  <2> QED  BY Zenon, <2>1, <2>2

\* A worker that has the outcome goes on to settle it.
<1>DecidesStep.
      ASSUME NEW p \in Procs, NEW r \in Runs, work[p].run = r, work[p].at \in Working,
             RowOnly, log' = log, RowsCalm, NEW at \in Settled \ {"stopped"}, MovesTo(p, r, at),
             Current(p) => Tells(r)
      PROVE  IInv'
  <2> USE <1>DecidesStep
  <2>1. \A s \in Runs : SameRow(s)
    BY Zenon DEF RowsCalm, EpochsKept, RowOnly, SameRow
  <2>2. Current(p)' => Tells(r)'
    <3>1. run'[r].epoch = run[r].epoch
      BY Zenon DEF RowsCalm, EpochsKept
    <3>2. NobodyBarred(r)
      BY Zenon, NobodyComes DEF Settled, Deciding
    <3>3. Tells(r) => Tells(r)'
      BY Zenon, <2>1, <3>2, ResolvedKept DEF Tells, SameRow
    <3> QED  BY Zenon, <3>1, <3>3 DEF Current, MovesTo
  <2>3. ProgressOf(p)'
    BY Zenon, <2>2, SettledProgress DEF MovesTo
  <2>4. Truth'
    <3>1. \A s \in Runs : NobodyBarred(s)
      BY Zenon DEF NobodyBarred, MovesTo, Settled, Deciding
    <3> QED  BY Zenon, <2>1, <2>3, <3>1, TruthKept DEF MovesTo
  <2>5. PlainWalk(p)
    <3>1. at \notin Marked /\ at # "cleanup"
      BY Zenon DEF Settled, Deciding, Marked, Boarding, Dispatching
    <3> QED  BY Zenon, <3>1, PlainGoes
  <2>6. LogsKept
    BY Zenon DEF LogsKept, IInv, Shape, LogShape
  <2> QED  BY Zenon, <2>4, <2>5, <2>6, PlainStep DEF RowsCalm

\* A worker drops its run.
<1>RestsStep.
      ASSUME NEW p \in Procs, work[p].at \in Working, RowOnly, log' = log, run' = run,
             Rests(p) \/ \E r \in Runs : work[p].run = r /\ MovesTo(p, r, "cleanup") /\ work'[p].stop
      PROVE  IInv'
  <2> USE <1>RestsStep
  <2>0. WorkShape' /\ (\A q \in Procs \ {p} : work'[q] = work[q]) /\ work'[p].at \in {"idle", "cleanup"}
    <3>1. Idle.at = "idle"
      BY DEF Idle
    <3> QED  BY Zenon, <3>1 DEF Rests, MovesTo
  <2>1. \A s \in Runs : SameRow(s)
    BY Zenon DEF RowOnly, SameRow
  <2>2. Truth'
    <3>1. \A s \in Runs : NobodyBarred(s)
      BY Zenon, <2>0 DEF NobodyBarred
    <3>2. work'[p].at \notin Working
      BY Zenon, <2>0 DEF Working, Opening, Executing, Deciding
    <3> QED  BY Zenon, <2>0, <2>1, <3>1, <3>2, TruthKept
  <2>3. PlainWalk(p)
    <3>1. "cleanup" \notin Marked
      BY Zenon DEF Marked, Boarding, Dispatching
    <3> QED  BY Zenon, <3>1 DEF PlainWalk, MovesTo
  <2>4. LogsKept /\ RunShape' /\ EpochsKept /\ RowsKept
    BY Zenon DEF LogsKept, IInv, Shape, LogShape, RunShape, EpochsKept, RowsKept, RowOnly
  <2> QED  BY Zenon, <2>2, <2>3, <2>4, PlainStep

<1>FailedStep.
      ASSUME NEW p \in Procs, Failed(p)
      PROVE  IInv'
  <2> USE <1>FailedStep
  <2>1. PICK r \in Runs : work[p].run = r
    BY Zenon, WorksOnRun DEF Failed
  <2>2. PICK at \in {"cancel", "fail"} : Reads(p, at)
    BY Zenon DEF Failed
  <2>3. MovesTo(p, r, at)
    BY Zenon, <2>1, <2>2, WorkWrites
  <2>4. Current(p) => Tells(r)
    BY Zenon, <2>1, CurrentTells DEF Failed
  <2>5. at \in Settled \ {"stopped"}
    BY Zenon DEF Settled, Deciding
  <2>6. RowOnly /\ log' = log /\ RowsCalm /\ work[p].at \in Working
    BY Zenon, <1>CalmWrites DEF Failed, RowOnly, Working, Deciding
  <2> QED  BY Zenon, <2>1, <2>3, <2>4, <2>5, <2>6, <1>DecidesStep

<1>DeferredStep.
      ASSUME NEW p \in Procs, Deferred(p)
      PROVE  IInv'
  <2> USE <1>DeferredStep
  <2>1. PICK r \in Runs : work[p].run = r
    BY Zenon, WorksOnRun DEF Deferred
  <2>2. RowOnly /\ log' = log /\ run' = run /\ work[p].at \in Working
    BY Zenon DEF Deferred, RowOnly, Working, Deciding
  <2>3. CASE Reads(p, "cancel")
    <3>1. MovesTo(p, r, "cancel")
      BY Zenon, <2>1, <2>3, WorkWrites
    <3>2. Current(p) => Tells(r)
      BY Zenon, <2>1, CurrentTells DEF Deferred
    <3>3. "cancel" \in Settled \ {"stopped"}
      BY Zenon DEF Settled, Deciding
    <3>4. RowsCalm
      BY Zenon, <2>2, <1>CalmWrites DEF RowOnly
    <3> QED  BY Zenon, <2>1, <2>2, <3>1, <3>2, <3>3, <3>4, <1>DecidesStep
  <2>4. CASE work' = [work EXCEPT ![p] = Idle]
    BY Zenon, <2>1, <2>2, <2>4, WorkWrites, <1>RestsStep
  <2> QED  BY Zenon, <2>3, <2>4 DEF Deferred

<1>AbortStep.
      ASSUME NEW p \in Procs, Abort(p)
      PROVE  IInv'
  <2> USE <1>AbortStep
  <2>1. PICK r \in Runs : work[p].run = r
    BY Zenon, WorksOnRun DEF Abort, Deciding
  <2>2. RowOnly /\ log' = log /\ run' = run /\ work[p].at \in Working
    BY Zenon DEF Abort, RowOnly, Working
  <2>3. CASE Turns(p, "cleanup", TRUE)
    <3>1. MovesTo(p, r, "cleanup") /\ work'[p].stop
      BY Zenon, <2>1, <2>3, WorkWrites
    <3> QED  BY Zenon, <2>1, <2>2, <3>1, <1>RestsStep
  <2>4. CASE work' = [work EXCEPT ![p] = Idle]
    BY Zenon, <2>1, <2>2, <2>4, WorkWrites, <1>RestsStep
  <2> QED  BY Zenon, <2>3, <2>4 DEF Abort

\* A capture's step: the row may note its state, and the worker goes on.
<1>CapturingStep.
      ASSUME NEW p \in Procs, work[p].at \in {"capture", "lookup", "send", "sending"},
             RowOnly, log' = log, run' = run \/ \E status : CaptureBecomes(work[p].run, status),
             \E at \in {"complete", "lookup", "send", "sending"} : Reads(p, at) \/ Goes(p, at)
      PROVE  IInv'
  <2> USE <1>CapturingStep
  <2>1. PICK r \in Runs : work[p].run = r
    BY Zenon, WorksOnRun
  <2>2. PICK at \in {"complete", "lookup", "send", "sending"} : Reads(p, at) \/ Goes(p, at)
    BY Zenon
  <2>3. MovesTo(p, r, at)
    BY Zenon, <2>1, <2>2, WorkWrites
  <2>4. Current(p) => Tells(r)
    BY Zenon, <2>1, CurrentTells
  <2>5. at \in Settled \ {"stopped"}
    BY Zenon DEF Settled, Deciding
  <2>6. RowsCalm
    <3>1. run[r].phase # "none"
      BY Zenon, <2>1, WorksOnRun
    <3> QED  BY Zenon, <2>1, <3>1, <1>CalmWrites DEF RowOnly
  <2>7. work[p].at \in Working
    BY Zenon DEF Working, Deciding
  <2> QED  BY Zenon, <2>1, <2>3, <2>4, <2>5, <2>6, <2>7, <1>DecidesStep

<1>CaptureSteps.
      ASSUME NEW p \in Procs,
             Capture(p) \/ LookupCapture(p) \/ SendCapture(p) \/ Promote(p) \/ QuarantineCapture(p)
      PROVE  IInv'
  <2> USE <1>CaptureSteps
  <2>1. CASE Capture(p)
    <3>1. RowOnly /\ log' = log /\ work[p].at = "capture"
      BY Zenon, <2>1 DEF Capture, RowOnly
    <3>2. run' = run \/ \E status : CaptureBecomes(work[p].run, status)
      BY Zenon, <2>1 DEF Capture, R
    <3>3. \E at \in {"complete", "lookup", "send", "sending"} : Reads(p, at) \/ Goes(p, at)
      BY Zenon, <2>1 DEF Capture
    <3> QED  BY Zenon, <3>1, <3>2, <3>3, <1>CapturingStep
  <2>2. CASE LookupCapture(p)
    BY Zenon, <2>2, <1>CapturingStep DEF LookupCapture, RowOnly, R
  <2>3. CASE SendCapture(p)
    BY Zenon, <2>3, <1>CapturingStep DEF SendCapture, RowOnly
  <2>4. CASE Promote(p)
    BY Zenon, <2>4, <1>CapturingStep DEF Promote, RowOnly, R
  <2>5. CASE QuarantineCapture(p)
    BY Zenon, <2>5, <1>CapturingStep DEF QuarantineCapture, RowOnly, R
  <2> QED  BY Zenon, <2>1, <2>2, <2>3, <2>4, <2>5

<1>VerifiedResolved.
      ASSUME NEW r \in Runs, log[r].audited = NSteps
      PROVE  Resolved(r, {})
  <2> USE <1>VerifiedResolved
  <2>1. \A s \in WriteSteps : ~(NSteps < s)
    BY ONLY RunsAssumption
  <2> QED  BY Zenon, <2>1 DEF Resolved

\* finalize: fail, complete and the end of a cancellation.
<1>EndsStep.
      ASSUME NEW p \in Procs, NEW at \in {"fail", "complete", "acked"}, NEW status \in Terminal,
             Ends(p, at, status)
      PROVE  IInv'
  <2> USE <1>EndsStep
  <2>1. PICK r \in Runs : work[p].run = r
    BY Zenon, WorksOnRun DEF Ends
  <2>2. /\ work[p].at \in Working /\ RowOnly /\ log' = log /\ Finalize(p, r, work[p].epoch, status)
        /\ Turns(p, "cleanup", work[p].stop)
    BY Zenon, <2>1 DEF Ends, RowOnly, R, Working, Deciding
  <2>3. Current(p) /\ run[r].phase \notin Terminal /\ Tells(r)
    <3>1. Current(p)
      BY Zenon, <2>1, <2>2, MineIsCurrent DEF Finalize, Claimed
    <3>2. run[r].phase \notin Terminal
      BY Zenon, <2>2, ActiveNotOver DEF Finalize, Claimed
    <3>3. Tells(r)
      BY Zenon, <2>1, <3>1, CurrentTells DEF Ends
    <3> QED  BY Zenon, <3>1, <3>2, <3>3
  <2>4. Tale(r, status, run[r].effect) /\ run'[r].verified = run[r].verified
    BY Zenon, <2>2, TaleWrites
  <2>5. MovesTo(p, r, "cleanup")
    BY Zenon, <2>1, <2>2, WorkWrites
  <2>6. RowTrue(r)'
    <3>1. status = "completed" => run'[r].verified
      BY Zenon, <2>2, <2>4 DEF Finalize, Final
    <3>2. run'[r].verified => log[r].audited = NSteps
      BY Zenon, <2>4 DEF IInv, Truth, RowTrue
    <3>3. run[r].effect = "unknown" \/ Resolved(r, {})'
      <4>1. NobodyBarred(r)
        BY Zenon, <2>5, NobodyComes
      <4> QED  BY Zenon, <2>2, <2>3, <4>1, ResolvedKept DEF RowOnly, Tells
    <3>4. status \notin Before
      BY Zenon DEF Terminal, Before
    <3> QED  BY Zenon, <2>2, <2>3, <2>4, <3>1, <3>2, <3>3, <3>4, TaleTrue DEF Tells
  <2>7. ProgressOf(p)'
    BY Zenon, <2>5 DEF ProgressOf, Current, MovesTo, Working, Opening, Executing, Deciding
  <2>8. "cleanup" \notin Marked /\ OverNow(r) /\ status # "none"
    BY Zenon, <2>4 DEF Marked, Boarding, Dispatching, OverNow, Tale, Terminal
  <2> QED  BY Zenon, <2>1, <2>2, <2>3, <2>4, <2>5, <2>6, <2>7, <2>8, TellingStep

<1>EndingSteps.
      ASSUME NEW p \in Procs, Fail(p) \/ Complete(p) \/ EndCancelled(p)
      PROVE  IInv'
  <2> USE <1>EndingSteps
  <2>1. \A status \in {"failed", "completed", "cancelled"} : status \in Terminal
    BY Zenon DEF Terminal
  <2>2. CASE Fail(p)  BY Zenon, <2>1, <2>2, <1>EndsStep DEF Fail
  <2>3. CASE Complete(p)  BY Zenon, <2>1, <2>3, <1>EndsStep DEF Complete
  <2>4. CASE EndCancelled(p)
    <3>1. PICK status \in {"failed", "cancelled"} : Ends(p, "acked", status)
      BY Zenon, <2>4 DEF EndCancelled
    <3> QED  BY Zenon, <2>1, <3>1, <1>EndsStep
  <2> QED  BY Zenon, <2>2, <2>3, <2>4

\* A run that may have been started is settled with an unknown effect.
<1>UnknownStep.
      ASSUME NEW p \in Procs, NEW r \in Runs, work[p].run = r, work[p].at \in Working,
             RowOnly, log' = log, Advance(p, r, work[p].epoch, run[r].phase, "unknown"),
             NEW at \in {"cancel", "fail"}, Reads(p, at)
      PROVE  IInv'
  <2> USE <1>UnknownStep
  <2>1. Claimed(p, r, work[p].epoch) /\ ~run[r].verified
    BY Zenon DEF Advance, AdvanceAllowed
  <2>2. Current(p)
    BY Zenon, <2>1, MineIsCurrent DEF Claimed
  <2>3. run[r].phase \notin Terminal /\ run[r].phase # "none"
    BY Zenon, <2>1, ActiveNotOver DEF Claimed
  <2>4. Tale(r, run[r].phase, "unknown") /\ run'[r].verified = run[r].verified
    BY Zenon, TaleWrites
  <2>5. MovesTo(p, r, at)
    BY Zenon, WorkWrites
  <2>6. RowTrue(r)'
    <3>1. run[r].phase # "completed"
      BY Zenon, <2>3 DEF Terminal
    <3> QED  BY Zenon, <2>1, <2>3, <2>4, <3>1, TaleTrue
  <2>7. ProgressOf(p)'
    <3>1. Tells(r)'
      BY Zenon, <2>4 DEF Tells, Tale
    <3>2. at \in Settled
      BY Zenon DEF Settled, Deciding
    <3> QED  BY Zenon, <2>5, <3>1, <3>2, SettledProgress DEF MovesTo
  <2>8. at \notin Marked /\ at # "cleanup"
    BY Zenon DEF Marked, Boarding, Dispatching
  <2> QED  BY Zenon, <2>2, <2>3, <2>4, <2>5, <2>6, <2>7, <2>8, TellingStep

\* The run is taken up: it is in a phase of its beginning.
<1>OpensStep.
      ASSUME NEW p \in Procs, NEW r \in Runs, work[p].run = r, work[p].at = "claimed",
             RowOnly, log' = log, Claimed(p, r, work[p].epoch), run[r].phase \in Before,
             NEW phase \in Before \ {"none"}, Tale(r, phase, run[r].effect),
             run'[r].verified = run[r].verified, Goes(p, "open")
      PROVE  IInv'
  <2> USE <1>OpensStep
  <2>1. work[p].at \in Working
    BY Zenon DEF Working, Deciding
  <2>2. Current(p)
    BY Zenon, <2>1, MineIsCurrent DEF Claimed
  <2>3. run[r].phase \notin Terminal /\ run[r].phase # "none"
    BY Zenon, ActiveNotOver DEF Claimed
  <2>5. MovesTo(p, r, "open")
    BY Zenon, WorkWrites
  <2>6. RowTrue(r)'
    <3>1. phase # "completed" /\ phase \notin Terminal /\ (run[r].verified => log[r].audited = NSteps)
      BY Zenon DEF Before, Terminal, IInv, Truth, RowTrue
    <3> QED  BY Zenon, <3>1, TaleTrue
  <2>7. ProgressOf(p)'
    <3>1. Resolved(r, {})'
      BY Zenon, <2>5, UnstartedResolved, NobodyComes, ResolvedKept DEF RowOnly
    <3>2. Known(p)'
      BY Zenon, <2>5, <3>1 DEF Known, MovesTo, Resolved
    <3>3. work'[p].at = "open" /\ run'[work'[p].run].phase \in Before
      BY Zenon, <2>5 DEF MovesTo, Tale
    <3>4. work'[p].at \notin Executing
      BY Zenon, <3>3 DEF Executing
    <3>5. ~work'[p].verified
      BY Zenon, <2>2, WorkWrites DEF IInv, Truth, ProgressOf
    <3> QED  BY Zenon, <3>2, <3>3, <3>4, <3>5 DEF ProgressOf
  <2>8. "open" \notin Marked
    BY Zenon DEF Marked, Boarding, Dispatching
  <2>9. phase # "none"
    OBVIOUS
  <2> QED  BY Zenon, <2>2, <2>3, <2>5, <2>6, <2>7, <2>8, <2>9, TellingStep

<1>BeginStep.
      ASSUME NEW p \in Procs, Begin(p)
      PROVE  IInv'
  <2> USE <1>BeginStep
  <2>1. PICK r \in Runs : work[p].run = r
    BY Zenon, WorksOnRun DEF Begin
  <2>2. /\ work[p].at = "claimed" /\ work[p].at \in Working
        /\ RowOnly /\ log' = log /\ Claimed(p, r, work[p].epoch)
    BY Zenon, <2>1 DEF Begin, RowOnly, Mine, R, Working, Deciding
  <2>3. run' = run => RowsCalm
    BY Zenon, <2>2, <1>CalmWrites DEF RowOnly
  <2>4. ~MayHaveStarted(r) => run[r].phase \in {"queued", "acquiring"}
    BY Zenon, <2>2 DEF MayHaveStarted, Claimed, Active, ActivePhases
  <2>5. run[r].phase \in {"queued", "acquiring"} => run[r].phase \in Before /\ Tells(r)
    BY Zenon, UnstartedResolved DEF Before, Tells
  <2>6. {"capture", "cancel"} \subseteq Settled \ {"stopped"}
    BY Zenon DEF Settled, Deciding
  <2>7. CASE run[r].verified /\ Reads(p, "capture") /\ run' = run
    <3>1. Tells(r)
      BY Zenon, <2>7, <1>VerifiedResolved DEF IInv, Truth, RowTrue, Tells
    <3>2. MovesTo(p, r, "capture")
      BY Zenon, <2>1, <2>7, WorkWrites
    <3> QED  BY Zenon, <2>1, <2>2, <2>3, <2>6, <2>7, <3>1, <3>2, <1>DecidesStep
  <2>8. CASE Advance(p, r, work[p].epoch, run[r].phase, "unknown")
             /\ Reads(p, IF run[r].cancel THEN "cancel" ELSE "fail")
    <3>1. PICK at \in {"cancel", "fail"} : Reads(p, at)
      BY Zenon, <2>8
    <3> QED  BY Zenon, <2>1, <2>2, <2>8, <3>1, <1>UnknownStep
  <2>9. CASE ~MayHaveStarted(r) /\ Reads(p, "cancel") /\ run' = run
    <3>1. MovesTo(p, r, "cancel")
      BY Zenon, <2>1, <2>9, WorkWrites
    <3> QED  BY Zenon, <2>1, <2>2, <2>3, <2>4, <2>5, <2>6, <2>9, <3>1, <1>DecidesStep
  <2>10. CASE ~MayHaveStarted(r) /\ Goes(p, "open") /\ run[r].phase = "queued"
              /\ Advance(p, r, work[p].epoch, "acquiring", run[r].effect)
    <3>1. Tale(r, "acquiring", run[r].effect) /\ run'[r].verified = run[r].verified
      BY Zenon, <2>10, TaleWrites
    <3>2. "acquiring" \in Before \ {"none"}
      BY Zenon DEF Before
    <3> QED  BY Zenon, <2>1, <2>2, <2>4, <2>5, <2>10, <3>1, <3>2, <1>OpensStep
  <2>11. CASE ~MayHaveStarted(r) /\ Goes(p, "open") /\ run' = run
    <3>1. Tale(r, run[r].phase, run[r].effect) /\ run'[r].verified = run[r].verified
      BY Zenon, <2>11 DEF Tale, IInv, Shape, RunShape
    <3>2. run[r].phase \in Before \ {"none"}
      BY Zenon, <2>4, <2>5, <2>11
    <3> QED  BY Zenon, <2>1, <2>2, <2>11, <3>1, <3>2, <1>OpensStep
  <2> QED  BY Zenon, <2>1, <2>7, <2>8, <2>9, <2>10, <2>11 DEF Begin, R

<1>SettleInterruptedStep.
      ASSUME NEW p \in Procs, SettleInterrupted(p)
      PROVE  IInv'
  <2> USE <1>SettleInterruptedStep
  <2>1. PICK r \in Runs : work[p].run = r
    BY Zenon, WorksOnRun DEF SettleInterrupted
  <2>2. work[p].at \in Working /\ RowOnly /\ log' = log /\ Claimed(p, r, work[p].epoch)
    BY Zenon, <2>1 DEF SettleInterrupted, RowOnly, Mine, R, Working, Deciding
  <2>3. run' = run \/ (\E status : CaptureBecomes(r, status)) => RowsCalm
    <3>1. run[r].phase # "none"
      BY Zenon, <2>2 DEF Claimed, Active, ActivePhases
    <3> QED  BY Zenon, <2>2, <3>1, <1>CalmWrites DEF RowOnly
  <2>4. {"complete", "cancel", "fail"} \subseteq Settled \ {"stopped"}
    BY Zenon DEF Settled, Deciding
  <2>5. CASE /\ run[r].verified /\ Reads(p, "complete")
             /\ run' = run \/ \E status : CaptureBecomes(r, status)
    <3>1. Tells(r)
      BY Zenon, <2>5, <1>VerifiedResolved DEF IInv, Truth, RowTrue, Tells
    <3>2. MovesTo(p, r, "complete")
      BY Zenon, <2>1, <2>5, WorkWrites
    <3> QED  BY Zenon, <2>1, <2>2, <2>3, <2>4, <2>5, <3>1, <3>2, <1>DecidesStep
  <2>6. CASE /\ Advance(p, r, work[p].epoch, run[r].phase, "unknown")
             /\ Reads(p, IF run[r].cancel THEN "cancel" ELSE "fail")
    <3>1. PICK at \in {"cancel", "fail"} : Reads(p, at)
      BY Zenon, <2>6
    <3> QED  BY Zenon, <2>1, <2>2, <2>6, <3>1, <1>UnknownStep
  <2>7. CASE ~MayHaveStarted(r) /\ Reads(p, IF run[r].cancel THEN "cancel" ELSE "fail") /\ run' = run
    <3>1. PICK at \in {"cancel", "fail"} : Reads(p, at)
      BY Zenon, <2>7
    <3>2. MovesTo(p, r, at)
      BY Zenon, <2>1, <3>1, WorkWrites
    <3>3. run[r].phase \in Before
      BY Zenon, <2>2, <2>7 DEF MayHaveStarted, Claimed, Active, ActivePhases, Before
    <3>4. Tells(r)
      BY Zenon, <3>3, UnstartedResolved DEF Tells
    <3> QED  BY Zenon, <2>1, <2>2, <2>3, <2>4, <2>7, <3>2, <3>4, <1>DecidesStep
  <2> QED  BY Zenon, <2>1, <2>5, <2>6, <2>7 DEF SettleInterrupted, R

\* The worker of the current claim hands an outcome over to be settled.
<1>SettlesTruth.
      ASSUME NEW p \in Procs, NEW r \in Runs, work[p].run = r, work[p].at \in Working,
             log' = log, run' = run, wire' = wire, site' = site, MovesTo(p, r, "settle"),
             Current(p) => run[r].effect = "unknown" \/ work'[p].effect = "unknown" \/ Resolved(r, {})',
             Current(p) /\ work'[p].verified => log[r].audited = NSteps
      PROVE  Truth'
  <2> USE <1>SettlesTruth
  <2>1. \A s \in Runs : SameRow(s) /\ NobodyBarred(s)
    BY Zenon DEF SameRow, NobodyBarred, MovesTo
  <2>2. ProgressOf(p)'
    <3> SUFFICES ASSUME Current(p)' PROVE ProgressOf(p)'
      BY Zenon DEF ProgressOf
    <3>1. Current(p)
      BY Zenon DEF Current, MovesTo
    <3>2. /\ work'[p].at = "settle" /\ work'[p].run = r
          /\ work'[p].at \notin {"claimed", "audit", "persist"} \cup Opening \cup Executing
      BY Zenon DEF MovesTo, Opening, Executing
    <3>3. run'[r].effect = "unknown" \/ Known(p)'
      BY Zenon, <3>1, <3>2 DEF Known
    <3> QED  BY Zenon, <3>1, <3>2, <3>3 DEF ProgressOf
  <2> QED  BY Zenon, <2>1, <2>2, TruthKept DEF MovesTo

<1>SettlesStep.
      ASSUME NEW p \in Procs, NEW r \in Runs, work[p].run = r, work[p].at \in Working,
             RowOnly, log' = log, run' = run, MovesTo(p, r, "settle"), Truth'
      PROVE  IInv'
  <2> USE <1>SettlesStep
  <2>1. PlainWalk(p)
    <3>1. "settle" \notin Marked /\ "settle" # "cleanup"
      BY Zenon DEF Marked, Boarding, Dispatching
    <3> QED  BY Zenon, <3>1, PlainGoes
  <2>2. LogsKept /\ RunShape' /\ EpochsKept /\ RowsKept
    BY Zenon DEF LogsKept, IInv, Shape, LogShape, RunShape, EpochsKept, RowsKept, RowOnly
  <2> QED  BY Zenon, <2>1, <2>2, PlainStep

<1>VerifyStep.
      ASSUME NEW p \in Procs, Verify(p)
      PROVE  IInv'
  <2> USE <1>VerifyStep
  <2>1. PICK r \in Runs : work[p].run = r
    BY Zenon, WorksOnRun DEF Verify
  <2>2. work[p].at \in Working /\ RowOnly /\ log' = log /\ run' = run
    BY Zenon DEF Verify, RowOnly, Working, Executing
  <2>3. PICK v \in BOOLEAN :
           work' = [work EXCEPT ![p].at = "settle", ![p].verified = v,
                                ![p].effect = IF NSteps > 0 THEN "acknowledged" ELSE "not_sent"]
    BY Zenon DEF Verify
  <2>4. MovesTo(p, r, "settle")
    BY <2>1, <2>3 DEF MovesTo, IInv, Shape, WorkShape, Idle
  <2>5. Current(p) => log[r].audited = NSteps
    <3> SUFFICES ASSUME Current(p) PROVE log[r].audited = NSteps
      BY Zenon
    <3>1. work[p].seq \in Nat /\ log[r].audited + 1 = work[p].seq /\ work[p].seq <= NSteps + 1
      BY Zenon, <2>1 DEF IInv, Truth, ProgressOf, Verify, Executing
    <3>2. log[r].audited \in Nat
      BY Zenon DEF IInv, Truth, RowTrue
    <3>3. work[p].seq > NSteps
      BY Zenon DEF Verify
    <3> QED  BY <3>1, <3>2, <3>3, RunsAssumption
  <2>6. log[r].audited = NSteps => Resolved(r, {})'
    BY Zenon, <2>2, <2>4, <1>VerifiedResolved, NobodyComes, ResolvedKept DEF RowOnly
  <2>7. Truth'
    BY Zenon, <2>1, <2>2, <2>4, <2>5, <2>6, <1>SettlesTruth DEF RowOnly
  <2> QED  BY Zenon, <2>1, <2>2, <2>4, <2>7, <1>SettlesStep

<1>StepFailsStep.
      ASSUME NEW p \in Procs, StepFails(p)
      PROVE  IInv'
  <2> USE <1>StepFailsStep
  <2>1. PICK r \in Runs : work[p].run = r
    BY Zenon, WorksOnRun DEF StepFails, Executing
  <2>2. work[p].at \in Working /\ RowOnly /\ log' = log /\ run' = run
    BY Zenon DEF StepFails, RowOnly, Working
  <2>3. PICK e \in ReceiptsSay(p) : work' = [work EXCEPT ![p].at = "settle", ![p].effect = e]
    BY Zenon DEF StepFails
  <2>4. MovesTo(p, r, "settle") /\ work'[p].effect = e /\ work'[p].verified = work[p].verified
    BY <2>1, <2>3 DEF MovesTo, IInv, Shape, WorkShape, Idle
  <2>5. Current(p) => ~work[p].verified
    BY Zenon DEF IInv, Truth, ProgressOf, StepFails
  <2>6. e = "unknown" \/ work[p].at \in {"step", "reserved", "barred"}
    BY Zenon, <2>3 DEF ReceiptsSay
  <2>7. Current(p) => run[r].effect = "unknown" \/ work'[p].effect = "unknown" \/ Resolved(r, {})'
    <3>1. CASE work[p].at \in {"step", "reserved"}
      <4>1. Current(p) => run[r].effect = "unknown" \/ Resolved(r, {})
        BY Zenon, <2>1, <3>1, CurrentTells DEF Tells
      <4> QED  BY Zenon, <2>2, <2>4, <4>1, NobodyComes, ResolvedKept DEF RowOnly
    <3>2. CASE work[p].at = "barred" /\ Current(p) /\ run[r].effect # "unknown"
      <4>1. PICK y : y = work[p].seq
        BY Zenon
      <4>2. Resolved(r, {y})
        BY Zenon, <2>1, <3>2, <4>1 DEF IInv, Truth, ProgressOf, Known
      <4>3. Resolved(r, {y})'
        BY Zenon, <2>2, <2>4, <4>2, NobodyComes, ResolvedKept DEF RowOnly
      <4>4. y \notin wire[r] /\ site[r][y] = 0
        BY Zenon, <2>1, <3>2, <4>1 DEF IInv, Dispatched
      <4>5. \A q \in Procs : work'[q].at = "barred" /\ work'[q].run = r => work'[q].seq # y
        <5> SUFFICES ASSUME NEW q \in Procs, work'[q].at = "barred", work'[q].run = r, work'[q].seq = y
                     PROVE  FALSE
          BY Zenon
        <5>1. q # p /\ work'[q] = work[q]
          BY Zenon, <2>4 DEF MovesTo
        <5> QED  BY Zenon, <2>1, <3>2, <4>1, <5>1 DEF IInv, Dispatched
      <4> QED  BY Zenon, <2>2, <4>3, <4>4, <4>5 DEF Resolved, RowOnly
    <3> QED  BY Zenon, <2>4, <2>6, <3>1, <3>2
  <2>8. Truth'
    BY Zenon, <2>1, <2>2, <2>4, <2>5, <2>7, <1>SettlesTruth DEF RowOnly
  <2> QED  BY Zenon, <2>1, <2>2, <2>4, <2>8, <1>SettlesStep

<1>SettleStep.
      ASSUME NEW p \in Procs, Settle(p)
      PROVE  IInv'
  <2> USE <1>SettleStep
  <2>1. PICK r \in Runs : work[p].run = r
    BY Zenon, WorksOnRun DEF Settle
  <2>2. work[p].at \in Working /\ work[p].at = "settle" /\ RowOnly /\ log' = log
    BY Zenon DEF Settle, RowOnly, Working, Deciding
  <2>3. PICK effect, phase : /\ effect = IF run[r].effect = "unknown" THEN "unknown" ELSE work[p].effect
                             /\ phase = IF run[r].cancel THEN run[r].phase ELSE "verifying"
                             /\ Advance(p, r, work[p].epoch, phase, effect)
    BY Zenon, <2>1 DEF Settle, R
  <2>4. PICK at \in {"persist", "cancel", "fail"} : Reads(p, at) /\ (at = "persist" => work[p].verified)
    BY Zenon, <2>1 DEF Settle, R
  <2>5. /\ AdvanceAllowed(r, phase, effect) /\ Claimed(p, r, work[p].epoch)
    BY Zenon, <2>3 DEF Advance, Fenced
  <2>6. Current(p) /\ run[r].phase \notin Terminal /\ run[r].phase # "none"
    BY Zenon, <2>1, <2>2, <2>5, MineIsCurrent, ActiveNotOver DEF Claimed
  <2>7. Tale(r, phase, effect) /\ run'[r].verified = run[r].verified
    BY Zenon, <2>3, TaleWrites
  <2>8. MovesTo(p, r, at)
    BY Zenon, <2>1, <2>4, WorkWrites
  <2>9. phase = run[r].phase \/ phase = "verifying"
    BY Zenon, <2>3
  <2>10. phase \notin Terminal /\ phase # "none" /\ (phase \in Before => run[r].phase \in Before)
    BY Zenon, <2>6, <2>9 DEF Before, Terminal
  <2>11. RowTrue(r)'
    <3>1. effect = "not_sent" => run[r].effect = "not_sent"
      BY Zenon, <2>5 DEF AdvanceAllowed
    <3>2. ~run[r].verified /\ phase # "completed"
      BY Zenon, <2>5, <2>10 DEF AdvanceAllowed, Terminal
    <3> QED  BY Zenon, <2>2, <2>7, <2>10, <3>1, <3>2, TaleTrue
  <2>12. Tells(r)'
    <3>1. effect = "unknown" \/ Resolved(r, {})
      BY Zenon, <2>1, <2>2, <2>3, <2>6 DEF IInv, Truth, ProgressOf, Known
    <3>2. Resolved(r, {}) => Resolved(r, {})'
      BY Zenon, <2>2, <2>8, NobodyComes, ResolvedKept DEF RowOnly
    <3> QED  BY Zenon, <2>7, <3>1, <3>2 DEF Tells, Tale
  <2>13. ProgressOf(p)'
    <3>1. CASE at = "persist"
      <4>1. log'[r].audited = NSteps
        BY Zenon, <2>1, <2>2, <2>4, <2>6, <3>1 DEF IInv, Truth, ProgressOf
      <4>2. work'[p].at = "persist" /\ work'[p].run = r /\ work'[p].at \notin {"claimed"} \cup Opening \cup Executing
        BY Zenon, <2>8, <3>1 DEF MovesTo, Opening, Executing
      <4>3. run'[r].effect = "unknown" \/ Known(p)'
        BY Zenon, <2>12, <4>2 DEF Tells, Known, Resolved
      <4> QED  BY Zenon, <4>1, <4>2, <4>3 DEF ProgressOf
    <3>2. CASE at # "persist"
      <4>1. at \in Settled
        BY Zenon, <3>2 DEF Settled, Deciding
      <4> QED  BY Zenon, <2>8, <2>12, <4>1, SettledProgress DEF MovesTo
    <3> QED  BY Zenon, <3>1, <3>2
  <2>14. at \notin Marked /\ at # "cleanup"
    BY Zenon DEF Marked, Boarding, Dispatching
  <2> QED  BY Zenon, <2>1, <2>2, <2>6, <2>7, <2>8, <2>10, <2>11, <2>13, <2>14, TellingStep

<1>PersistStep.
      ASSUME NEW p \in Procs, Persist(p)
      PROVE  IInv'
  <2> USE <1>PersistStep
  <2>1. PICK r \in Runs : work[p].run = r
    BY Zenon, WorksOnRun DEF Persist
  <2>2. /\ work[p].at \in Working /\ work[p].at = "persist" /\ RowOnly /\ log' = log
        /\ PersistVerified(p, r, work[p].epoch) /\ Goes(p, "capture")
    BY Zenon, <2>1 DEF Persist, RowOnly, Working, Deciding, R
  <2>3. Claimed(p, r, work[p].epoch)
    BY Zenon, <2>2 DEF PersistVerified, Fenced
  <2>4. Current(p) /\ run[r].phase \notin Terminal /\ run[r].phase # "none"
    BY Zenon, <2>1, <2>2, <2>3, MineIsCurrent, ActiveNotOver DEF Claimed
  <2>5. Tale(r, "verifying", run[r].effect) /\ run'[r].verified = TRUE
    BY Zenon, <2>2, TaleWrites
  <2>6. MovesTo(p, r, "capture")
    BY Zenon, <2>1, <2>2, WorkWrites
  <2>7. log[r].audited = NSteps
    BY Zenon, <2>1, <2>2, <2>4 DEF IInv, Truth, ProgressOf
  <2>8. RowTrue(r)'
    <3>1. "verifying" \notin Terminal \cup Before
      BY Zenon DEF Terminal, Before
    <3> QED  BY Zenon, <2>2, <2>5, <2>7, <3>1, TaleTrue
  <2>9. Tells(r)'
    BY Zenon, <2>2, <2>6, <2>7, <1>VerifiedResolved, NobodyComes, ResolvedKept DEF Tells, RowOnly
  <2>10. "capture" \in Settled /\ "capture" \notin Marked
    BY Zenon DEF Settled, Deciding, Marked, Boarding, Dispatching
  <2>11. ProgressOf(p)'
    BY Zenon, <2>6, <2>9, <2>10, SettledProgress DEF MovesTo
  <2> QED  BY Zenon, <2>1, <2>2, <2>4, <2>5, <2>6, <2>8, <2>10, <2>11, TellingStep

<1> QED  BY Zenon, <1>FailedStep, <1>DeferredStep, <1>AbortStep, <1>CaptureSteps,
     <1>EndingSteps, <1>BeginStep, <1>SettleInterruptedStep, <1>VerifyStep, <1>StepFailsStep,
     <1>SettleStep, <1>PersistStep

\* Nothing but the journal, the wire and the worker changes.
DispatchOnly == lease' = lease /\ auth' = auth /\ gate' = gate /\ mem' = mem /\ alive' = alive
                /\ run' = run /\ site' = site

\* The workers, the claims, the leases and the executions stay as they are.
Still == work' = work /\ run' = run /\ auth' = auth /\ lease' = lease /\ mem' = mem /\ alive' = alive

-----------------------------------------------------------------------------
(* The steps of the skill and the dispatch of a write.                     *)

\* The steps of the skill, from the start of the execution over the dispatch of a
\* write to its receipt and its audit, and the arrival of a write at the site.
LEMMA ExecutingSteps ==
    ASSUME IInv
    PROVE  /\ \A p \in Procs :
                \/ StartExecution(p) \/ ReadStep(p) \/ ReserveWrite(p) \/ AssertWrite(p)
                \/ Send(p) \/ Receipt(p) \/ Audit(p)
                => IInv'
           /\ \A r \in Runs, s \in WriteSteps : Land(r, s) => IInv'

<1>StartExecutionStep.
      ASSUME NEW p \in Procs, StartExecution(p)
      PROVE  IInv'
  <2> USE <1>StartExecutionStep
  <2>1. PICK r \in Runs : work[p].run = r
    BY Zenon, WorksOnRun DEF StartExecution
  <2>2. /\ work[p].at \in Working /\ work[p].at = "begin" /\ RowOnly /\ log' = log
        /\ Advance(p, r, work[p].epoch, "running", run[r].effect)
        /\ work' = [work EXCEPT ![p].at = "step", ![p].seq = 1]
    BY Zenon, <2>1 DEF StartExecution, RowOnly, Working, Opening, R
  <2>3. Claimed(p, r, work[p].epoch)
    BY Zenon, <2>2 DEF Advance, Fenced
  <2>4. Current(p) /\ run[r].phase \notin Terminal /\ run[r].phase # "none"
    BY Zenon, <2>1, <2>2, <2>3, MineIsCurrent, ActiveNotOver DEF Claimed
  <2>5. Tale(r, "running", run[r].effect) /\ run'[r].verified = run[r].verified
    BY Zenon, <2>2, TaleWrites
  <2>6. MovesTo(p, r, "step") /\ work'[p].seq = 1 /\ work'[p].verified = work[p].verified
    BY <2>1, <2>2 DEF MovesTo, IInv, Shape, WorkShape, Idle
  <2>7. run[r].phase \in Before /\ ~work[p].verified
    BY Zenon, <2>1, <2>2, <2>4 DEF IInv, Truth, ProgressOf, Opening
  <2>8. Resolved(r, {}) /\ log[r].audited = 0
    BY Zenon, <2>7, UnstartedResolved
  <2>9. RowTrue(r)'
    <3>1. "running" \notin Terminal \cup Before
      BY Zenon DEF Terminal, Before
    <3>2. run[r].verified => log[r].audited = NSteps
      BY Zenon DEF IInv, Truth, RowTrue
    <3> QED  BY Zenon, <2>2, <2>5, <3>1, <3>2, TaleTrue
  <2>10. ProgressOf(p)'
    <3>1. Resolved(r, {})'
      BY Zenon, <2>2, <2>6, <2>8, NobodyComes, ResolvedKept DEF RowOnly
    <3>2. work'[p].at = "step" /\ work'[p].run = r /\ work'[p].at \notin Opening
      BY Zenon, <2>6 DEF MovesTo, Opening
    <3>3. Known(p)'
      BY Zenon, <3>1, <3>2 DEF Known, Resolved
    <3>4. work'[p].seq \in Nat /\ log'[r].audited + 1 = work'[p].seq /\ work'[p].seq <= NSteps + 1
      BY <2>2, <2>6, <2>8, RunsAssumption
    <3> QED  BY Zenon, <2>6, <2>7, <3>2, <3>3, <3>4 DEF ProgressOf
  <2>11. "step" \notin Marked /\ "step" # "cleanup"
    BY Zenon DEF Marked, Boarding, Dispatching
  <2> QED  BY Zenon, <2>1, <2>2, <2>4, <2>5, <2>6, <2>9, <2>10, <2>11, TellingStep

\* What a step that was allowed knows of the row.
<1>AllowedKnows.
      ASSUME NEW p \in Procs, NEW r \in Runs, work[p].run = r, work[p].at \in Executing, StepAllowed(p)
      PROVE  /\ Current(p) /\ run[r].phase = "running" /\ run[r].phase \notin Terminal \cup Before
             /\ run[r].effect # "unknown" /\ ~run[r].verified /\ ~work[p].verified
             /\ work[p].seq \in Nat /\ log[r].audited + 1 = work[p].seq /\ log[r].audited \in Nat
             /\ Known(p)
  <2> USE <1>AllowedKnows
  <2>1. /\ Claimed(p, r, work[p].epoch) /\ run[r].phase = "running"
        /\ run[r].effect # "unknown" /\ ~run[r].verified
    BY Zenon DEF StepAllowed, Uncancelled, Fenced, R
  <2>2. Current(p)
    BY Zenon, <2>1, MineIsCurrent DEF Claimed, Working
  <2>3. run[r].phase \notin Terminal \cup Before
    BY Zenon, <2>1 DEF Terminal, Before
  <2>4. ProgressOf(p)
    BY Zenon DEF IInv, Truth
  <2>5. /\ work[p].seq \in Nat /\ log[r].audited + 1 = work[p].seq /\ ~work[p].verified
        /\ Known(p)
    BY Zenon, <2>1, <2>2, <2>4 DEF ProgressOf
  <2>6. log[r].audited \in Nat
    BY Zenon DEF IInv, Truth, RowTrue
  <2> QED  BY Zenon, <2>1, <2>2, <2>3, <2>5, <2>6

\* A step that was carried out, or only read, is recorded.
<1>AuditedStep.
      ASSUME NEW p \in Procs, NEW r \in Runs, work[p].run = r, work[p].at \in {"step", "audit"},
             StepAllowed(p), Audited(p), RowOnly, work[p].seq <= NSteps,
             work[p].seq \in WriteSteps => work[p].at = "audit"
      PROVE  IInv'
  <2> USE <1>AuditedStep
  <2>0. work[p].at \in Executing /\ work[p].at \in Working
    BY Zenon DEF Working, Executing
  <2>1. /\ Current(p) /\ run[r].phase = "running" /\ run[r].phase \notin Terminal \cup Before
        /\ run[r].effect # "unknown" /\ ~run[r].verified /\ ~work[p].verified
        /\ work[p].seq \in Nat /\ log[r].audited + 1 = work[p].seq /\ log[r].audited \in Nat
        /\ Known(p)
    BY Zenon, <2>0, <1>AllowedKnows
  <2>2. /\ log' = [log EXCEPT ![r].audited = work[p].seq]
        /\ Update(r, [run[r] EXCEPT !.effect = "acknowledged"])
        /\ work' = [work EXCEPT ![p].at = "step", ![p].seq = @ + 1]
    BY Zenon DEF Audited, R
  <2>3. Tale(r, run[r].phase, "acknowledged") /\ run'[r].verified = run[r].verified
    BY Zenon, <2>2, TaleWrites
  <2>4. MovesTo(p, r, "step") /\ work'[p].seq = work[p].seq + 1 /\ work'[p].verified = work[p].verified
    BY <2>2 DEF MovesTo, IInv, Shape, WorkShape, Idle
  <2>5. LogShape' /\ log'[r].audited = work[p].seq /\ (\A s \in Runs : log'[s].barriers = log[s].barriers)
        /\ \A s \in Runs \ {r} : log'[s] = log[s]
    BY <2>2 DEF IInv, Shape, LogShape, NoLog
  <2>6. Resolved(r, {})'
    <3> SUFFICES ASSUME NEW s \in WriteSteps, log'[r].audited < s
                 PROVE  /\ site'[r][s] = 0 /\ s \notin wire'[r]
                        /\ \A q \in Procs : work'[q].at = "barred" /\ work'[q].run = r => work'[q].seq # s
      BY Zenon DEF Resolved
    <3>1. log[r].audited < s /\ s # work[p].seq
      BY <2>1, <2>5, RunsAssumption
    <3>2. Resolved(r, {work[p].seq}) \/ Resolved(r, {})
      BY Zenon, <2>1 DEF Known
    <3>3. NobodyBarred(r)
      BY Zenon, <2>4, NobodyComes
    <3>4. /\ site[r][s] = 0 /\ s \notin wire[r]
          /\ \A q \in Procs : work[q].at = "barred" /\ work[q].run = r => work[q].seq # s
      BY Zenon, <3>1, <3>2 DEF Resolved
    <3>5. \A q \in Procs : work'[q].at = "barred" /\ work'[q].run = r => work'[q].seq # s
      BY Zenon, <3>3, <3>4 DEF NobodyBarred
    <3> QED  BY Zenon, <3>4, <3>5 DEF RowOnly
  <2>7. \A s \in WriteSteps : s <= log'[r].audited => site'[r][s] = 1
    <3> SUFFICES ASSUME NEW s \in WriteSteps, s <= work[p].seq
                 PROVE  site[r][s] = 1
      BY Zenon, <2>5 DEF RowOnly
    <3>1. CASE s = work[p].seq
      BY Zenon, <2>1, <3>1 DEF IInv, Truth, ProgressOf
    <3>2. CASE s # work[p].seq
      <4>1. s <= log[r].audited
        BY <2>1, <3>2, RunsAssumption
      <4> QED  BY Zenon, <4>1 DEF IInv, Truth, RowTrue
    <3> QED  BY Zenon, <3>1, <3>2
  <2>8. RowTrue(r)'
    <3>1. run'[r].phase \notin Terminal \cup Before /\ run'[r].phase # "completed"
      BY Zenon, <2>1, <2>3 DEF Tale
    <3>2. log'[r].audited \in Nat /\ run'[r].effect # "not_sent" /\ ~run'[r].verified
      BY Zenon, <2>1, <2>3, <2>5 DEF Tale
    <3> QED  BY Zenon, <2>7, <3>1, <3>2 DEF RowTrue
  <2>9. ProgressOf(p)'
    <3>1. work'[p].at = "step" /\ work'[p].run = r /\ work'[p].at \notin Opening
      BY Zenon, <2>4 DEF MovesTo, Opening
    <3>2. Known(p)'
      BY Zenon, <2>6, <3>1 DEF Known, Resolved
    <3>3. work'[p].seq \in Nat /\ log'[r].audited + 1 = work'[p].seq /\ work'[p].seq <= NSteps + 1
      BY <2>1, <2>4, <2>5, RunsAssumption
    <3> QED  BY Zenon, <2>1, <2>4, <3>1, <3>2, <3>3 DEF ProgressOf
  <2>10. Truth'
    <3>1. \A s \in Runs \ {r} : SameRow(s)
      BY Zenon, <2>3, <2>5 DEF Tale, RowOnly, SameRow
    <3> QED  BY Zenon, <2>1, <2>3, <2>4, <2>8, <2>9, <3>1, TruthOfWorker DEF Tale, MovesTo
  <2>11. PlainWalk(p)
    <3>1. "step" \notin Marked /\ "step" # "cleanup"
      BY Zenon DEF Marked, Boarding, Dispatching
    <3> QED  BY Zenon, <2>4, <3>1, PlainGoes
  <2>12. RunShape' /\ EpochsKept /\ RowsKept
    <3>1. run[r].phase # "none"
      BY Zenon, <2>1
    <3> QED  BY Zenon, <2>1, <2>3, <3>1, TaleRows DEF RowOnly
  <2>13. LogsKept
    BY Zenon, <2>5 DEF LogsKept
  <2> QED  BY Zenon, <2>0, <2>10, <2>11, <2>12, <2>13, PlainStep

<1>ReadStepStep.
      ASSUME NEW p \in Procs, ReadStep(p)
      PROVE  IInv'
  <2> USE <1>ReadStepStep
  <2>1. PICK r \in Runs : work[p].run = r
    BY Zenon, WorksOnRun DEF ReadStep
  <2>2. /\ work[p].at \in {"step", "audit"} /\ StepAllowed(p) /\ Audited(p) /\ RowOnly
        /\ work[p].seq \notin WriteSteps
    BY Zenon DEF ReadStep, RowOnly
  <2>3. work[p].seq <= NSteps
    BY RunsAssumption DEF ReadStep, Steps
  <2> QED  BY Zenon, <2>1, <2>2, <2>3, <1>AuditedStep

<1>AuditStep.
      ASSUME NEW p \in Procs, Audit(p)
      PROVE  IInv'
  <2> USE <1>AuditStep
  <2>1. PICK r \in Runs : work[p].run = r
    BY Zenon, WorksOnRun DEF Audit
  <2>2. work[p].at = "audit" /\ StepAllowed(p) /\ Audited(p) /\ RowOnly
    BY Zenon DEF Audit, RowOnly
  <2>3. work[p].seq \in WriteSteps
    BY Zenon, <2>2 DEF IInv, Dispatched, Dispatching
  <2>4. work[p].seq <= NSteps
    <3>1. \A s \in WriteSteps : s <= NSteps
      BY RunsAssumption
    <3> QED  BY Zenon, <2>3, <3>1
  <2>5. work[p].at \in {"step", "audit"}
    BY Zenon, <2>2
  <2> QED  BY Zenon, <2>1, <2>2, <2>4, <2>5, <1>AuditedStep

\* The worker goes on within the execution: claims and leases are as they were.
<1>ExecutionKeeps.
      ASSUME NEW p \in Procs, NEW r \in Runs, work[p].run = r, work[p].at \in Executing,
             DispatchOnly, LogShape', DOMAIN wire' = Runs, NEW at \in Executing, MovesTo(p, r, at)
      PROVE  Shape' /\ Claims' /\ Leased' /\ Quit'
  <2> USE <1>ExecutionKeeps
  <2>0. WorkShape' /\ \A q \in Procs \ {p} : work'[q] = work[q]
    BY Zenon DEF MovesTo
  <2>1. Shape'
    BY ZenonT(40), <2>0 DEF IInv, Shape, DispatchOnly, RunShape, LeaseShape, GateShape, MemShape, SiteShape
  <2>2. Claims'
    <3>1. ClaimWalk(p)
      BY Zenon DEF ClaimWalk, MovesTo, Working
    <3>2. \A q \in Procs : ClaimWalk(q)
      BY Zenon, <2>0, <3>1 DEF ClaimWalk
    <3>3. EpochsKept
      BY Zenon DEF EpochsKept, DispatchOnly
    <3> QED  BY Zenon, <3>2, <3>3, ClaimsKept
  <2>3. LeaseKept /\ HoldingKept /\ GoneKept /\ alive' \subseteq alive /\ RowsKept
    BY Zenon DEF DispatchOnly, LeaseKept, HoldingKept, GoneKept, RowsKept
  <2>4. at \notin Boarding /\ at \notin {"stopped", "cleanup", "record"} /\ work[p].at # "record"
    BY Zenon DEF Boarding, Executing
  <2>5. Leased'
    <3>1. \A q \in Procs : BoardingWalk(q)
      BY Zenon, <2>0, <2>4 DEF BoardingWalk, MovesTo, DispatchOnly
    <3> QED  BY Zenon, <2>3, <3>1, LeasedKept
  <2>6. Quit'
    <3>1. QuitWalk(p)
      BY Zenon, <2>4 DEF QuitWalk, MovesTo
    <3>2. \A q \in Procs : QuitWalk(q)
      BY Zenon, <2>0, <3>1 DEF QuitWalk
    <3> QED  BY Zenon, <2>3, <3>2, QuitKept
  <2> QED  BY Zenon, <2>1, <2>2, <2>5, <2>6

\* The worker reserves the step, or sets its barrier.
<1>ReservesTruth.
      ASSUME NEW p \in Procs, NEW r \in Runs, work[p].run = r, work[p].at \in {"step", "reserved"},
             StepAllowed(p), DispatchOnly, wire' = wire, log'[r].audited = log[r].audited,
             \A s \in Runs \ {r} : log'[s] = log[s],
             NEW at \in {"reserved", "barred"}, Goes(p, at)
      PROVE  Truth'
  <2> USE <1>ReservesTruth
  <2>0. work[p].at \in Executing
    BY Zenon DEF Executing
  <2>1. /\ Current(p) /\ run[r].phase = "running" /\ run[r].phase \notin Terminal \cup Before
        /\ run[r].effect # "unknown" /\ ~run[r].verified /\ ~work[p].verified
        /\ work[p].seq \in Nat /\ log[r].audited + 1 = work[p].seq /\ log[r].audited \in Nat
        /\ Known(p)
    BY Zenon, <2>0, <1>AllowedKnows
  <2>2. /\ MovesTo(p, r, at) /\ work'[p].seq = work[p].seq /\ work'[p].verified = work[p].verified
    BY Zenon, WorkWrites
  <2>3. RowTrue(r)'
    <3>1. RowTrue(r)
      BY Zenon DEF IInv, Truth
    <3> QED  BY Zenon, <2>1, <3>1 DEF RowTrue, DispatchOnly
  <2>4. ProgressOf(p)'
    <3>1. Resolved(r, {})
      BY Zenon, <2>1 DEF Known
    <3>2. at = "reserved" => Resolved(r, {})'
      BY Zenon, <2>2, <3>1, NobodyComes, ResolvedKept DEF DispatchOnly
    <3>3. work'[p].at = at /\ work'[p].run = r /\ at \notin Opening \cup {"audit", "sent", "settle", "persist"}
      BY Zenon, <2>2 DEF MovesTo, Opening
    <3>4. Known(p)'
      <4>1. \A q \in Procs : work'[q].at = "barred" /\ work'[q].run = r /\ work'[q].seq # work'[p].seq
                               => work'[q] = work[q]
        BY Zenon, <2>2 DEF MovesTo
      <4>2. Resolved(r, {work[p].seq})'
        <5> SUFFICES ASSUME NEW s \in WriteSteps \ {work'[p].seq}, log'[r].audited < s
                     PROVE  /\ site'[r][s] = 0 /\ s \notin wire'[r]
                            /\ \A q \in Procs : work'[q].at = "barred" /\ work'[q].run = r => work'[q].seq # s
          BY Zenon DEF Resolved
        <5>1. s \in WriteSteps \ {} /\ log[r].audited < s
          BY Zenon
        <5>2. /\ site[r][s] = 0 /\ s \notin wire[r]
              /\ \A q \in Procs : work[q].at = "barred" /\ work[q].run = r => work[q].seq # s
          BY Zenon, <3>1, <5>1 DEF Resolved
        <5>3. ASSUME NEW q \in Procs, work'[q].at = "barred", work'[q].run = r, work'[q].seq = s PROVE FALSE
          <6>1. work'[q] = work[q]
            BY Zenon, <4>1, <5>3
          <6> QED  BY Zenon, <5>2, <5>3, <6>1
        <5> QED  BY Zenon, <5>2, <5>3 DEF DispatchOnly
      <4> QED  BY Zenon, <2>2, <3>2, <3>3, <4>2 DEF Known
    <3>5. work[p].seq <= NSteps + 1
      BY Zenon, <2>0, <2>1 DEF IInv, Truth, ProgressOf
    <3> QED  BY Zenon, <2>1, <2>2, <3>3, <3>4, <3>5 DEF ProgressOf
  <2>5. \A s \in Runs \ {r} : SameRow(s)
    BY Zenon DEF SameRow, DispatchOnly
  <2> QED  BY Zenon, <2>1, <2>2, <2>3, <2>4, <2>5, TruthOfWorker DEF MovesTo, DispatchOnly

<1>ReserveWriteStep.
      ASSUME NEW p \in Procs, ReserveWrite(p)
      PROVE  IInv'
  <2> USE <1>ReserveWriteStep
  <2>1. PICK r \in Runs : work[p].run = r
    BY Zenon, WorksOnRun DEF ReserveWrite
  <2>2. /\ work[p].at = "step" /\ work[p].seq \in WriteSteps /\ StepAllowed(p) /\ DispatchOnly
        /\ wire' = wire /\ Goes(p, "reserved")
        /\ log' = [log EXCEPT ![r].consumed = Stamp(p), ![r].sends = @ \cup {<<work[p].seq, Stamp(p)>>}]
    BY Zenon, <2>1 DEF ReserveWrite, DispatchOnly, R
  <2>3. /\ LogShape' /\ log'[r].audited = log[r].audited /\ \A s \in Runs : log'[s].barriers = log[s].barriers
        /\ \A s \in Runs \ {r} : log'[s] = log[s]
    BY <2>2 DEF IInv, Shape, LogShape, NoLog
  <2>4. MovesTo(p, r, "reserved") /\ work'[p].seq = work[p].seq
    BY Zenon, <2>1, <2>2, WorkWrites
  <2>5. work[p].at \in Executing /\ "reserved" \in Executing /\ DOMAIN wire' = Runs
    BY Zenon, <2>2 DEF Executing, IInv, Shape, SiteShape
  <2>6. Shape' /\ Claims' /\ Leased' /\ Quit'
    BY Zenon, <2>1, <2>2, <2>3, <2>4, <2>5, <1>ExecutionKeeps
  <2>7. Truth'
    BY Zenon, <2>1, <2>2, <2>3, <1>ReservesTruth
  <2>8. Dispatched'
    <3>1. \A q \in Procs : WriteWalk(q)
      BY Zenon, <2>2, <2>4 DEF WriteWalk, MovesTo, IInv, Dispatched
    <3>2. WritesKept
      BY Zenon, <2>2, <2>3 DEF WritesKept, DispatchOnly
    <3> QED  BY Zenon, <3>1, <3>2, DispatchedKept
  <2> QED  BY Zenon, <2>6, <2>7, <2>8 DEF IInv

\* The barrier of a step is set once, and its setter alone stands behind it.
<1>AssertWriteStep.
      ASSUME NEW p \in Procs, AssertWrite(p)
      PROVE  IInv'
  <2> USE <1>AssertWriteStep
  <2>1. PICK r \in Runs : work[p].run = r
    BY Zenon, WorksOnRun DEF AssertWrite
  <2>2. PICK b : /\ log' = [log EXCEPT ![r].barriers = @ \cup {b}] /\ b[1] = work[p].seq
                 /\ ~Barrier(r, work[p].seq)
    <3>1. <<work[p].seq, Stamp(p)>>[1] = work[p].seq
      OBVIOUS
    <3> QED  BY Zenon, <2>1, <3>1 DEF AssertWrite, Barrier, R
  <2>3. /\ work[p].at = "reserved" /\ StepAllowed(p) /\ gate[r].decision = "confirmed"
        /\ DispatchOnly /\ wire' = wire /\ Goes(p, "barred")
    BY Zenon, <2>1 DEF AssertWrite, DispatchOnly, R, GateConfirmed
  <2>4. /\ LogShape' /\ log'[r].audited = log[r].audited /\ log'[r].barriers = log[r].barriers \cup {b}
        /\ \A s \in Runs \ {r} : log'[s] = log[s]
    BY <2>2 DEF IInv, Shape, LogShape, NoLog
  <2>5. MovesTo(p, r, "barred") /\ work'[p].seq = work[p].seq
    BY Zenon, <2>1, <2>3, WorkWrites
  <2>6. work[p].at \in Executing /\ "barred" \in Executing /\ DOMAIN wire' = Runs
    BY Zenon, <2>3 DEF Executing, IInv, Shape, SiteShape
  <2>7. Shape' /\ Claims' /\ Leased' /\ Quit'
    BY Zenon, <2>1, <2>3, <2>4, <2>5, <2>6, <1>ExecutionKeeps
  <2>8. Truth'
    BY Zenon, <2>1, <2>3, <2>4, <1>ReservesTruth
  <2>9. Dispatched'
    <3>1. work[p].seq \in WriteSteps
      BY Zenon, <2>3 DEF IInv, Dispatched, Dispatching
    <3>2. \A s \in Runs, x \in WriteSteps : Barrier(s, x) => Barrier(s, x)'
      BY Zenon, <2>4 DEF Barrier
    <3>3. wire' = wire /\ site' = site /\ gate' = gate
      BY Zenon, <2>3 DEF DispatchOnly
    <3>4. \A s \in Runs, x \in WriteSteps :
            /\ site'[s][x] \in {0, 1}
            /\ x \in wire'[s] => site'[s][x] = 0
            /\ x \in wire'[s] \/ site'[s][x] = 1 => Barrier(s, x)'
      BY Zenon, <3>2, <3>3 DEF IInv, Dispatched
    <3>5. \A s \in Runs : log'[s].barriers # {} => gate'[s].decision = "confirmed"
      BY Zenon, <2>3, <2>4, <3>3 DEF IInv, Dispatched
    <3>6. \A q \in Procs : work'[q].at \in Dispatching => work'[q].seq \in WriteSteps
      BY Zenon, <2>5, <3>1 DEF MovesTo, IInv, Dispatched
    <3>7. \A q \in Procs \ {p} : work'[q].at = "barred" =>
            /\ work'[q] = work[q] /\ work[q].run \in Runs /\ work[q].seq \in WriteSteps
            /\ Barrier(work[q].run, work[q].seq)
            /\ work[q].seq \notin wire[work[q].run] /\ site[work[q].run][work[q].seq] = 0
      BY Zenon, <2>5 DEF MovesTo, IInv, Dispatched, Claims, Dispatching
    <3>8. ASSUME NEW q \in Procs, work'[q].at = "barred"
          PROVE  /\ \E x \in log'[work'[q].run].barriers : x[1] = work'[q].seq
                 /\ work'[q].seq \notin wire'[work'[q].run] /\ site'[work'[q].run][work'[q].seq] = 0
      <4>1. CASE q = p
        <5>1. b \in log'[r].barriers /\ b[1] = work'[p].seq /\ work'[p].run = r
          BY Zenon, <2>2, <2>4, <2>5 DEF MovesTo
        <5>2. work[p].seq \notin wire[r] /\ site[r][work[p].seq] = 0
          BY Zenon, <2>2, <3>1 DEF IInv, Dispatched
        <5> QED  BY Zenon, <2>5, <3>3, <4>1, <5>1, <5>2
      <4>2. CASE q # p
        <5>1. \E x \in log'[work[q].run].barriers : x[1] = work[q].seq
          BY ZenonT(40), <3>2, <3>7, <3>8, <4>2 DEF Barrier
        <5> QED  BY Zenon, <3>3, <3>7, <3>8, <4>2, <5>1
      <4> QED  BY Zenon, <4>1, <4>2
    <3>9. \A o, q \in Procs : /\ work'[o].at = "barred" /\ work'[q].at = "barred"
                              /\ work'[o].run = work'[q].run /\ work'[o].seq = work'[q].seq
                              => o = q
      <4> SUFFICES ASSUME NEW o \in Procs, NEW q \in Procs, work'[o].at = "barred", work'[q].at = "barred",
                          work'[o].run = work'[q].run, work'[o].seq = work'[q].seq
                   PROVE  o = q
        BY Zenon
      <4>1. CASE o # p /\ q # p
        <5>1. work'[o] = work[o] /\ work'[q] = work[q]
          BY Zenon, <3>7, <4>1
        <5>2. /\ work[o].at = "barred" /\ work[q].at = "barred"
              /\ work[o].run = work[q].run /\ work[o].seq = work[q].seq
          BY Zenon, <5>1
        <5> QED  BY Zenon, <5>2 DEF IInv, Dispatched
      <4>2. ASSUME NEW a \in Procs \ {p}, work'[a].at = "barred", work'[a].run = r, work'[a].seq = work[p].seq
            PROVE  FALSE
        BY Zenon, <2>2, <3>7, <4>2
      <4>3. work'[p].run = r /\ work'[p].seq = work[p].seq
        BY Zenon, <2>5 DEF MovesTo
      <4> QED  BY Zenon, <4>1, <4>2, <4>3
    <3> QED  BY Zenon, <3>4, <3>5, <3>6, <3>8, <3>9 DEF Dispatched, Barrier
  <2> QED  BY Zenon, <2>7, <2>8, <2>9 DEF IInv

<1>SendStep.
      ASSUME NEW p \in Procs, Send(p)
      PROVE  IInv'
  <2> USE <1>SendStep
  <2>1. PICK r \in Runs : work[p].run = r
    BY Zenon, WorksOnRun DEF Send
  <2>2. /\ work[p].at = "barred" /\ DispatchOnly /\ log' = log
        /\ wire' = [wire EXCEPT ![r] = @ \cup {work[p].seq}] /\ Goes(p, "sent")
    BY Zenon, <2>1 DEF Send, DispatchOnly, R
  <2>3. MovesTo(p, r, "sent") /\ work'[p].seq = work[p].seq /\ work'[p].verified = work[p].verified
    BY Zenon, <2>1, <2>2, WorkWrites
  <2>4. /\ work[p].at \in Executing /\ "sent" \in Executing /\ DOMAIN wire' = Runs /\ LogShape'
        /\ wire'[r] = wire[r] \cup {work[p].seq} /\ \A s \in Runs \ {r} : wire'[s] = wire[s]
    BY Zenon, <2>2 DEF Executing, IInv, Shape, SiteShape, LogShape
  <2>5. Shape' /\ Claims' /\ Leased' /\ Quit'
    BY Zenon, <2>1, <2>2, <2>3, <2>4, <1>ExecutionKeeps
  <2>7. site' = site /\ run' = run /\ gate' = gate
    BY Zenon, <2>2 DEF DispatchOnly
  <2>8. work[p].seq \in WriteSteps /\ Barrier(r, work[p].seq) /\ site[r][work[p].seq] = 0
    BY Zenon, <2>1, <2>2 DEF IInv, Dispatched, Dispatching
  <2>9. NobodyBarred(r) /\ \A s \in Runs \ {r} : SameRow(s) /\ NobodyBarred(s)
    BY Zenon, <2>2, <2>3, <2>4, <2>7, NobodyComes DEF SameRow
  <2>10. ~Resolved(r, {}) /\ \A x : Resolved(r, {x}) => Resolved(r, {x})'
    <3>1. log[r].audited < work[p].seq
      <4>1. ~(work[p].seq <= log[r].audited)
        <5>1. 0 # 1
          OBVIOUS
        <5> QED  BY Zenon, <2>8, <5>1 DEF IInv, Truth, RowTrue
      <4>2. log[r].audited \in Nat
        BY Zenon DEF IInv, Truth, RowTrue
      <4>3. work[p].seq \in Nat
        <5>1. work[p].seq \in 1 .. NSteps /\ NSteps \in Nat
          BY Zenon, <2>8, RunsAssumption
        <5> QED  BY <5>1
      <4> QED  BY <4>1, <4>2, <4>3
    <3>2. \A S : Resolved(r, S) => work[p].seq \in S
      BY Zenon, <2>1, <2>2, <2>8, <3>1 DEF Resolved
    <3>3. ASSUME NEW x, Resolved(r, {x}) PROVE Resolved(r, {x})'
      <4>1. \A y : y \notin {x} => (y \in wire'[r] => y \in wire[r])
        BY Zenon, <2>4, <3>2, <3>3
      <4>2. ASSUME NEW s \in WriteSteps \ {x}, log'[r].audited < s
            PROVE  /\ site'[r][s] = 0 /\ s \notin wire'[r]
                   /\ \A q \in Procs : work'[q].at = "barred" /\ work'[q].run = r => work'[q].seq # s
        <5>1. log[r].audited < s
          BY Zenon, <2>2, <4>2
        <5>2. /\ site[r][s] = 0 /\ s \notin wire[r]
              /\ \A q \in Procs : work[q].at = "barred" /\ work[q].run = r => work[q].seq # s
          BY Zenon, <3>3, <5>1 DEF Resolved
        <5>3. \A q \in Procs : work'[q].at = "barred" /\ work'[q].run = r => work'[q].seq # s
          BY Zenon, <2>9, <5>2 DEF NobodyBarred
        <5>4. site'[r][s] = 0
          BY Zenon, <2>7, <5>2
        <5> QED  BY Zenon, <4>1, <5>2, <5>3, <5>4
      <4> QED  BY Zenon, <4>2 DEF Resolved
    <3> QED  BY Zenon, <3>2, <3>3
  <2>11. Truth'
    <3>1. RowTrue(r)'
      <4>1. RowTrue(r)
        BY Zenon DEF IInv, Truth
      <4>2. run'[r].phase \in Terminal => run'[r].effect = "unknown"
        BY Zenon, <2>7, <2>10, <4>1 DEF RowTrue
      <4> QED  BY Zenon, <2>2, <2>7, <4>1, <4>2 DEF RowTrue
    <3>2. ASSUME NEW q \in Procs, work[q].at \in Working, work[q].run = r, Current(q)'
          PROVE  ProgressOf(q)'
      <4>1. /\ work'[q].run = r /\ work'[q].seq = work[q].seq /\ work'[q].verified = work[q].verified
            /\ work'[q].epoch = work[q].epoch /\ (work'[q].at = "sent" \/ work'[q] = work[q])
            /\ work'[q].at \in {"sent", "barred"} => work[q].at \in {"sent", "barred"}
        BY Zenon, <2>1, <2>2, <2>3, <3>2 DEF MovesTo
      <4>2. Current(q) /\ ProgressOf(q)
        BY Zenon, <2>7, <3>2, <4>1 DEF Current, IInv, Truth
      <4>3. run'[r].effect = "unknown" \/ Known(q)'
        <5>1. PICK y : y = work[q].seq
          BY Zenon
        <5>2. Known(q) => Known(q)'
          BY Zenon, <2>10, <3>2, <4>1, <5>1 DEF Known
        <5> QED  BY Zenon, <2>7, <3>2, <4>2, <5>2 DEF ProgressOf
      <4>4. CASE work'[q] = work[q]
        BY Zenon, <2>2, <2>7, <3>2, <4>2, <4>3, <4>4 DEF ProgressOf
      <4>5. CASE work'[q].at = "sent"
        <5>1. work'[q].at \notin Opening /\ work[q].at \in Executing
          BY Zenon, <4>1, <4>5 DEF Opening, Executing
        <5> QED  BY Zenon, <2>2, <2>7, <3>2, <4>1, <4>2, <4>3, <4>5, <5>1 DEF ProgressOf
      <4> QED  BY Zenon, <4>1, <4>4, <4>5
    <3>3. ASSUME NEW q \in Procs PROVE ProgressOf(q)'
      <4>1. CASE work[q].at \in Working /\ work[q].run = r
        BY Zenon, <3>2, <4>1 DEF ProgressOf
      <4>2. CASE work[q].at \notin Working \/ work[q].run # r
        <5>1. work'[q] = work[q]
          BY Zenon, <2>1, <2>3, <2>4, <4>2 DEF MovesTo, Working
        <5>2. work[q].at \in Working => SameRow(work[q].run) /\ NobodyBarred(work[q].run)
          BY Zenon, <2>9, <4>2 DEF IInv, Claims, Working, Opening, Executing, Deciding
        <5> QED  BY Zenon, <5>1, <5>2, SameProgress
      <4> QED  BY Zenon, <4>1, <4>2
    <3> QED  BY Zenon, <2>9, <3>1, <3>3, SameRowTrue DEF Truth
  <2>12. Dispatched'
    <3>1. \A s \in Runs, x \in WriteSteps : Barrier(s, x) => Barrier(s, x)'
      BY Zenon, <2>2 DEF Barrier
    <3>2. \A s \in Runs, x \in WriteSteps : x \in wire'[s] => x \in wire[s] \/ (s = r /\ x = work[p].seq)
      BY Zenon, <2>4
    <3>3. \A s \in Runs, x \in WriteSteps :
            /\ site'[s][x] \in {0, 1}
            /\ x \in wire'[s] => site'[s][x] = 0
            /\ x \in wire'[s] \/ site'[s][x] = 1 => Barrier(s, x)'
      <4> SUFFICES ASSUME NEW s \in Runs, NEW x \in WriteSteps
                   PROVE  /\ site'[s][x] \in {0, 1}
                          /\ x \in wire'[s] => site'[s][x] = 0
                          /\ x \in wire'[s] \/ site'[s][x] = 1 => Barrier(s, x)'
        BY Zenon
      <4>1. /\ site[s][x] \in {0, 1}
            /\ x \in wire[s] => site[s][x] = 0
            /\ x \in wire[s] \/ site[s][x] = 1 => Barrier(s, x)
        BY Zenon DEF IInv, Dispatched
      <4>2. CASE s = r /\ x = work[p].seq
        BY Zenon, <2>7, <2>8, <3>1, <4>1, <4>2
      <4>3. CASE ~(s = r /\ x = work[p].seq)
        BY Zenon, <2>7, <3>1, <3>2, <4>1, <4>3
      <4> QED  BY Zenon, <4>2, <4>3
    <3>4. \A s \in Runs : log'[s].barriers # {} => gate'[s].decision = "confirmed"
      BY Zenon, <2>2, <2>7 DEF IInv, Dispatched
    <3>5. \A q \in Procs : work'[q].at \in Dispatching => work'[q].seq \in WriteSteps
      BY ZenonT(40), <2>3, <2>8 DEF MovesTo, IInv, Dispatched
    <3>6. \A q \in Procs : work'[q].at = "barred" =>
            /\ q # p /\ work'[q] = work[q] /\ work[q].run \in Runs /\ work[q].seq \in WriteSteps
            /\ Barrier(work[q].run, work[q].seq)
            /\ work[q].seq \notin wire[work[q].run] /\ site[work[q].run][work[q].seq] = 0
      BY Zenon, <2>3 DEF MovesTo, IInv, Dispatched, Claims, Dispatching
    <3>7. ASSUME NEW q \in Procs, work'[q].at = "barred"
          PROVE  /\ \E x \in log'[work'[q].run].barriers : x[1] = work'[q].seq
                 /\ work'[q].seq \notin wire'[work'[q].run] /\ site'[work'[q].run][work'[q].seq] = 0
      <4>1. ~(work[q].run = r /\ work[q].seq = work[p].seq)
        BY ZenonT(40), <2>1, <2>2, <3>6, <3>7 DEF IInv, Dispatched
      <4>2. \E x \in log'[work[q].run].barriers : x[1] = work[q].seq
        BY Zenon, <2>2, <3>6, <3>7 DEF Barrier
      <4>3. work[q].seq \notin wire'[work[q].run]
        BY Zenon, <3>2, <3>6, <3>7, <4>1
      <4> QED  BY Zenon, <2>7, <3>6, <3>7, <4>2, <4>3
    <3>8. \A o, q \in Procs : /\ work'[o].at = "barred" /\ work'[q].at = "barred"
                              /\ work'[o].run = work'[q].run /\ work'[o].seq = work'[q].seq
                              => o = q
      <4> SUFFICES ASSUME NEW o \in Procs, NEW q \in Procs, work'[o].at = "barred", work'[q].at = "barred",
                          work'[o].run = work'[q].run, work'[o].seq = work'[q].seq
                   PROVE  o = q
        BY Zenon
      <4>1. work'[o] = work[o] /\ work'[q] = work[q]
        BY Zenon, <3>6
      <4>2. /\ work[o].at = "barred" /\ work[q].at = "barred"
            /\ work[o].run = work[q].run /\ work[o].seq = work[q].seq
        BY Zenon, <4>1
      <4> QED  BY Zenon, <4>2 DEF IInv, Dispatched
    <3> QED  BY Zenon, <3>3, <3>4, <3>5, <3>7, <3>8 DEF Dispatched, Barrier
  <2> QED  BY Zenon, <2>5, <2>11, <2>12 DEF IInv

<1>ReceiptStep.
      ASSUME NEW p \in Procs, Receipt(p)
      PROVE  IInv'
  <2> USE <1>ReceiptStep
  <2>1. PICK r \in Runs : work[p].run = r
    BY Zenon, WorksOnRun DEF Receipt
  <2>2. /\ work[p].at = "sent" /\ site[r][work[p].seq] > 0 /\ DispatchOnly /\ log' = log
        /\ wire' = wire /\ Goes(p, "audit")
    BY Zenon, <2>1 DEF Receipt, DispatchOnly, R
  <2>3. MovesTo(p, r, "audit") /\ work'[p].seq = work[p].seq /\ work'[p].verified = work[p].verified
    BY Zenon, <2>1, <2>2, WorkWrites
  <2>4. /\ work[p].at \in Executing /\ "audit" \in Executing /\ DOMAIN wire' = Runs /\ LogShape'
    BY Zenon, <2>2 DEF Executing, IInv, Shape, SiteShape, LogShape
  <2>5. Shape' /\ Claims' /\ Leased' /\ Quit'
    BY Zenon, <2>1, <2>2, <2>3, <2>4, <1>ExecutionKeeps
  <2>6. site' = site /\ run' = run /\ gate' = gate
    BY Zenon, <2>2 DEF DispatchOnly
  <2>7. work[p].seq \in WriteSteps /\ site[r][work[p].seq] = 1
    <3>1. work[p].seq \in WriteSteps
      BY Zenon, <2>2 DEF IInv, Dispatched, Dispatching
    <3>2. site[r][work[p].seq] \in {0, 1}
      BY Zenon, <3>1 DEF IInv, Dispatched
    <3> QED  BY <2>2, <3>1, <3>2
  <2>8. ProgressOf(p)'
    <3> SUFFICES ASSUME Current(p)' PROVE ProgressOf(p)'
      BY Zenon DEF ProgressOf
    <3>1. Current(p) /\ ProgressOf(p)
      BY Zenon, <2>1, <2>3, <2>4, <2>6 DEF Current, MovesTo, Working, IInv, Truth
    <3>2. work'[p].at = "audit" /\ work'[p].run = r /\ work'[p].at \notin Opening /\ work'[p].at \in Executing
      BY Zenon, <2>3, <2>4 DEF MovesTo, Opening
    <3>3. run[r].effect = "unknown" \/ Resolved(r, {work[p].seq})
      BY Zenon, <2>1, <2>2, <3>1 DEF ProgressOf, Known
    <3>4. run'[r].effect = "unknown" \/ Known(p)'
      <4>1. NobodyBarred(r)
        BY Zenon, <2>3, NobodyComes
      <4>2. PICK y : y = work[p].seq /\ y = work'[p].seq
        BY Zenon, <2>3
      <4>3. Resolved(r, {y}) => Resolved(r, {y})'
        BY Zenon, <2>2, <2>6, <4>1, ResolvedKept
      <4> QED  BY Zenon, <2>6, <3>2, <3>3, <4>2, <4>3 DEF Known
    <3>5. /\ work'[p].seq \in Nat /\ log'[r].audited + 1 = work'[p].seq /\ work'[p].seq <= NSteps + 1
          /\ ~work'[p].verified
      BY Zenon, <2>1, <2>2, <2>3, <2>4, <3>1 DEF ProgressOf
    <3> QED  BY Zenon, <2>3, <2>6, <2>7, <3>2, <3>4, <3>5 DEF ProgressOf
  <2>9. Truth'
    <3>1. \A s \in Runs : SameRow(s) /\ NobodyBarred(s)
      BY Zenon, <2>2, <2>3, <2>6 DEF SameRow, NobodyBarred, MovesTo
    <3> QED  BY Zenon, <2>3, <2>8, <3>1, TruthKept DEF MovesTo
  <2>10. Dispatched'
    <3>1. \A q \in Procs : WriteWalk(q)
      BY Zenon, <2>3, <2>7 DEF WriteWalk, MovesTo, IInv, Dispatched
    <3>2. WritesKept
      BY Zenon, <2>2, <2>6 DEF WritesKept
    <3> QED  BY Zenon, <3>1, <3>2, DispatchedKept
  <2> QED  BY Zenon, <2>5, <2>9, <2>10 DEF IInv

<1>StillKeeps.
      ASSUME Still
      PROVE  RunShape' /\ LeaseShape' /\ WorkShape' /\ MemShape' /\ Claims' /\ Leased' /\ Quit'
  <2> USE <1>StillKeeps
  <2>1. RunShape' /\ LeaseShape' /\ WorkShape' /\ MemShape'
    BY Zenon DEF IInv, Shape, Still, RunShape, LeaseShape, WorkShape, MemShape
  <2>2. Claims'
    BY Zenon, ClaimsKept DEF Still, EpochsKept, ClaimWalk
  <2>3. LeaseKept /\ HoldingKept /\ GoneKept /\ alive' \subseteq alive /\ RowsKept
    BY Zenon DEF Still, LeaseKept, HoldingKept, GoneKept, RowsKept
  <2>4. \A q \in Procs : BoardingWalk(q) /\ QuitWalk(q)
    BY Zenon DEF Still, BoardingWalk, QuitWalk
  <2> QED  BY Zenon, <2>1, <2>2, <2>3, <2>4, LeasedKept, QuitKept

\* A write that is on the wire lands once.
<1>LandStep.
      ASSUME NEW r \in Runs, NEW s \in WriteSteps, Land(r, s)
      PROVE  IInv'
  <2> USE <1>LandStep
  <2>1. Still /\ log' = log /\ gate' = gate /\ s \in wire[r]
    BY Zenon DEF Still, Land
  <2>2. /\ SiteShape' /\ wire'[r] = wire[r] \ {s} /\ site'[r][s] = site[r][s] + 1
        /\ \A o \in Runs \ {r} : wire'[o] = wire[o] /\ site'[o] = site[o]
        /\ \A x \in WriteSteps \ {s} : site'[r][x] = site[r][x]
    BY DEF Land, IInv, Shape, SiteShape
  <2>3. site[r][s] = 0 /\ Barrier(r, s)
    BY Zenon, <2>1 DEF IInv, Dispatched
  <2>4. site'[r][s] = 1
    BY <2>2, <2>3
  <2>5. Shape'
    BY Zenon, <2>1, <2>2, <1>StillKeeps DEF IInv, Shape, LogShape, GateShape
  <2>6. Dispatched'
    <3>1. \A o \in Runs, x \in WriteSteps : Barrier(o, x) => Barrier(o, x)'
      BY Zenon, <2>1 DEF Barrier
    <3>2. ASSUME NEW o \in Runs, NEW x \in WriteSteps
          PROVE  /\ site'[o][x] \in {0, 1}
                 /\ x \in wire'[o] => site'[o][x] = 0
                 /\ x \in wire'[o] \/ site'[o][x] = 1 => Barrier(o, x)'
      <4>1. /\ site[o][x] \in {0, 1}
            /\ x \in wire[o] => site[o][x] = 0
            /\ x \in wire[o] \/ site[o][x] = 1 => Barrier(o, x)
        BY Zenon DEF IInv, Dispatched
      <4>2. CASE o = r /\ x = s
        BY Zenon, <2>2, <2>3, <2>4, <3>1, <4>2
      <4>3. CASE ~(o = r /\ x = s)
        <5>1. site'[o][x] = site[o][x] /\ (x \in wire'[o] => x \in wire[o])
          BY Zenon, <2>2, <4>3
        <5> QED  BY Zenon, <3>1, <4>1, <5>1
      <4> QED  BY Zenon, <4>2, <4>3
    <3>3. \A o \in Runs : log'[o].barriers # {} => gate'[o].decision = "confirmed"
      BY Zenon, <2>1 DEF IInv, Dispatched
    <3>4. \A q \in Procs : work'[q].at \in Dispatching => work'[q].seq \in WriteSteps
      BY Zenon, <2>1 DEF IInv, Dispatched, Still
    <3>5. ASSUME NEW q \in Procs, work'[q].at = "barred"
          PROVE  /\ \E x \in log'[work'[q].run].barriers : x[1] = work'[q].seq
                 /\ work'[q].seq \notin wire'[work'[q].run] /\ site'[work'[q].run][work'[q].seq] = 0
      <4>1. /\ work'[q] = work[q] /\ work[q].at = "barred" /\ work[q].run \in Runs /\ work[q].seq \in WriteSteps
        BY Zenon, <2>1, <3>5 DEF IInv, Dispatched, Dispatching, Claims, Still
      <4>2. /\ \E x \in log[work[q].run].barriers : x[1] = work[q].seq
            /\ work[q].seq \notin wire[work[q].run] /\ site[work[q].run][work[q].seq] = 0
        BY Zenon, <4>1 DEF IInv, Dispatched, Barrier
      <4>3. ~(work[q].run = r /\ work[q].seq = s)
        BY Zenon, <2>1, <4>2
      <4>4. site'[work[q].run][work[q].seq] = site[work[q].run][work[q].seq]
        BY Zenon, <2>2, <4>1, <4>3
      <4>5. work[q].seq \notin wire'[work[q].run]
        BY Zenon, <2>2, <4>1, <4>2
      <4> QED  BY Zenon, <2>1, <4>1, <4>2, <4>4, <4>5
    <3>6. \A o, q \in Procs : /\ work'[o].at = "barred" /\ work'[q].at = "barred"
                              /\ work'[o].run = work'[q].run /\ work'[o].seq = work'[q].seq
                              => o = q
      BY Zenon, <2>1 DEF IInv, Dispatched, Still
    <3> QED  BY Zenon, <3>2, <3>3, <3>4, <3>5, <3>6 DEF Dispatched, Barrier
  <2>7. Truth'
    <3>0. run' = run /\ work' = work
      BY Zenon, <2>1 DEF Still
    <3>1. ~(s <= log[r].audited) /\ log[r].audited < s
      <4>1. ~(s <= log[r].audited)
        <5>1. 0 # 1
          OBVIOUS
        <5> QED  BY Zenon, <2>3, <5>1 DEF IInv, Truth, RowTrue
      <4>2. log[r].audited \in Nat
        BY Zenon DEF IInv, Truth, RowTrue
      <4> QED  BY <4>1, <4>2, RunsAssumption
    <3>2. ~Resolved(r, {})
      BY Zenon, <2>1, <3>1 DEF Resolved
    <3>3. \A x : Resolved(r, {x}) => Resolved(r, {x})'
      <4> SUFFICES ASSUME NEW x, Resolved(r, {x}), NEW y \in WriteSteps \ {x}, log'[r].audited < y
                   PROVE  /\ site'[r][y] = 0 /\ y \notin wire'[r]
                          /\ \A q \in Procs : work'[q].at = "barred" /\ work'[q].run = r => work'[q].seq # y
        BY Zenon DEF Resolved
      <4>1. /\ site[r][y] = 0 /\ y \notin wire[r]
            /\ \A q \in Procs : work[q].at = "barred" /\ work[q].run = r => work[q].seq # y
        BY Zenon, <2>1 DEF Resolved
      <4>2. y # s
        BY Zenon, <2>1, <4>1
      <4> QED  BY Zenon, <2>2, <3>0, <4>1, <4>2
    <3>4. \A o \in Runs \ {r} : SameRow(o) /\ NobodyBarred(o)
      BY Zenon, <2>1, <2>2, <3>0 DEF SameRow, NobodyBarred
    <3>5. RowTrue(r)'
      <4>1. RowTrue(r)
        BY Zenon DEF IInv, Truth
      <4>2. \A x \in WriteSteps : x <= log'[r].audited => site'[r][x] = 1
        BY Zenon, <2>1, <2>2, <2>4, <4>1 DEF RowTrue
      <4>3. run'[r].phase \in Terminal => run'[r].effect = "unknown"
        BY Zenon, <3>0, <3>2, <4>1 DEF RowTrue
      <4> QED  BY Zenon, <2>1, <3>0, <4>1, <4>2, <4>3 DEF RowTrue
    <3>6. ASSUME NEW q \in Procs
          PROVE  ProgressOf(q)'
      <4>1. CASE work[q].at \in Working /\ work[q].run = r
        <5> SUFFICES ASSUME Current(q)' PROVE ProgressOf(q)'
          BY Zenon DEF ProgressOf
        <5>1. Current(q) /\ ProgressOf(q)
          BY Zenon, <3>0 DEF Current, IInv, Truth
        <5>2. run[r].effect = "unknown" \/ Known(q)'
          <6>1. Known(q) => Known(q)'
            BY Zenon, <3>0, <3>2, <3>3, <4>1 DEF Known
          <6> QED  BY Zenon, <4>1, <5>1, <6>1 DEF ProgressOf
        <5>3. work'[q].at = "audit" => site'[r][work'[q].seq] = 1
          BY Zenon, <2>2, <2>4, <3>0, <4>1, <5>1 DEF ProgressOf, IInv, Dispatched, Dispatching
        <5> QED  BY Zenon, <2>1, <3>0, <4>1, <5>1, <5>2, <5>3 DEF ProgressOf
      <4>2. CASE work[q].at \notin Working \/ work[q].run # r
        <5>1. work[q].at \in Working => SameRow(work[q].run) /\ NobodyBarred(work[q].run)
          BY Zenon, <3>4, <4>2 DEF IInv, Claims, Working, Opening, Executing, Deciding
        <5> QED  BY Zenon, <3>0, <5>1, SameProgress
      <4> QED  BY Zenon, <4>1, <4>2
    <3> QED  BY Zenon, <3>4, <3>5, <3>6, SameRowTrue DEF Truth
  <2> QED  BY Zenon, <2>1, <2>5, <2>6, <2>7, <1>StillKeeps DEF IInv

<1> QED  BY Zenon, <1>StartExecutionStep, <1>ReadStepStep, <1>AuditStep, <1>ReserveWriteStep,
     <1>AssertWriteStep, <1>SendStep, <1>ReceiptStep, <1>LandStep

\* What such a step leaves of the rows.
OpeningOnly == auth' = auth /\ log' = log /\ gate' = gate /\ wire' = wire /\ site' = site

\* The state of one execution changes.
Recalls(p, r, state) ==
    /\ MemShape' /\ mem'[p][r] = state
    /\ \A q \in Procs, s \in Runs : q # p \/ s # r => mem'[q][s] = mem[q][s]

LEMMA MemoryWrites ==
    ASSUME IInv, NEW p \in Procs, NEW r \in Runs, work[p].run = r
    PROVE  /\ \A state : DOMAIN state = DOMAIN NoState /\ Remembers(p, state) => Recalls(p, r, state)
           /\ OpenedWithout(p) => Recalls(p, r, [NoState EXCEPT !.st = "open"])
<1> USE DEF IInv, Shape, MemShape
<1>1. ASSUME NEW state, DOMAIN state = DOMAIN NoState, Remembers(p, state)
      PROVE  Recalls(p, r, state)
  <2>1. mem' = [mem EXCEPT ![p] = [mem[p] EXCEPT ![r] = state]]
    BY Zenon, <1>1 DEF Remembers, R
  <2> QED  BY Zenon, <1>1, <2>1 DEF Recalls
<1>2. DOMAIN [NoState EXCEPT !.st = "open"] = DOMAIN NoState
  BY Zenon
<1> QED  BY Zenon, <1>1, <1>2 DEF OpenedWithout

\* An execution that holds no lease is remembered or forgotten.
LEMMA RecallsUnheld ==
    ASSUME IInv, NEW p \in Procs, NEW r \in Runs, NEW state, Recalls(p, r, state),
           state.st \notin Holding \cup Gone
    PROVE  HoldingKept /\ GoneKept
BY Zenon DEF Recalls, HoldingKept, GoneKept

\* Other processes keep their memory, and the steps of their opening.
OthersRecall(p) == \A q \in Procs \ {p}, s \in Runs : mem'[q][s] = mem[q][s]

LEMMA OthersBoard ==
    ASSUME IInv, NEW p \in Procs, OthersRecall(p), NEW q \in Procs, q # p, work'[q] = work[q]
    PROVE  BoardingWalk(q)
<1>1. work[q].at \in Boarding => work[q].run \in Runs
  BY Zenon DEF IInv, Claims, Boarding
<1> QED  BY Zenon, <1>1 DEF BoardingWalk, OthersRecall

LEMMA SameLease ==
    ASSUME IInv, lease' = lease
    PROVE  LeaseKept /\ DOMAIN lease' = DOMAIN NoLease
BY Zenon DEF LeaseKept, IInv, Shape, LeaseShape

-----------------------------------------------------------------------------
(* Opening the browser.                                                    *)

\* The steps that open the browser: the account gate, the reservation of the
\* binding, its attachment to the run, the launch and its record.
LEMMA OpeningSteps ==
    ASSUME IInv
    PROVE  \A p \in Procs :
             \/ Open(p) \/ OpenFails(p) \/ Reserve(p) \/ Attach(p) \/ Start(p) \/ Launch(p) \/ Acquire(p)
             => IInv'

\* The worker goes on opening, or gives up.
<1>OpeningTruth.
      ASSUME NEW p \in Procs, NEW r \in Runs, work[p].run = r, work[p].at \in Opening,
             \A s \in Runs : SameRow(s),
             NEW at \in Opening \cup {"failed", "deferred", "settle"}, Goes(p, at)
      PROVE  Truth'
  <2> USE <1>OpeningTruth
  <2>0. work[p].at \in Working /\ ProgressOf(p)
    BY Zenon DEF Working, IInv, Truth
  <2>1. /\ MovesTo(p, r, at) /\ work'[p].verified = work[p].verified
    BY Zenon, WorkWrites
  <2>2. \A s \in Runs : NobodyBarred(s)
    BY Zenon, <2>1 DEF NobodyBarred, MovesTo, Opening
  <2>3. ProgressOf(p)'
    <3> SUFFICES ASSUME Current(p)' PROVE ProgressOf(p)'
      BY Zenon DEF ProgressOf
    <3>1. Current(p)
      BY Zenon, <2>0, <2>1 DEF Current, MovesTo, SameRow
    <3>2. run[r].phase \in Before /\ ~work[p].verified
      BY Zenon, <2>0, <3>1 DEF ProgressOf
    <3>3. Resolved(r, {})
      BY Zenon, <3>2, UnstartedResolved
    <3>4. Resolved(r, {})'
      BY Zenon, <2>2, <3>3, ResolvedKept DEF SameRow
    <3>5. /\ work'[p].at = at /\ work'[p].run = r /\ run'[r].phase \in Before
          /\ at \notin Executing \cup {"claimed", "audit", "persist", "sent", "barred"}
      BY Zenon, <2>1, <3>2 DEF MovesTo, SameRow, Opening, Executing
    <3>6. Known(p)'
      BY Zenon, <3>4, <3>5 DEF Known, Resolved
    <3> QED  BY Zenon, <2>1, <3>2, <3>5, <3>6 DEF ProgressOf
  <2> QED  BY Zenon, <2>1, <2>2, <2>3, TruthKept DEF MovesTo

<1>OpeningStep.
      ASSUME NEW p \in Procs, NEW r \in Runs, work[p].run = r, work[p].at \in Opening,
             NEW at \in Opening \cup {"failed", "deferred", "settle"}, Goes(p, at), OpeningOnly,
             RunShape', EpochsKept, \A s \in Runs : SameRow(s),
             DOMAIN lease' = DOMAIN NoLease, MemShape', Leased', Quit'
      PROVE  IInv'
  <2> USE <1>OpeningStep
  <2>0. MovesTo(p, r, at)
    BY Zenon, WorkWrites
  <2>1. Shape'
    BY Zenon, <2>0 DEF MovesTo, IInv, Shape, OpeningOnly, LeaseShape, GateShape, LogShape, SiteShape
  <2>2. Claims'
    <3>1. \A q \in Procs : ClaimWalk(q)
      BY Zenon, <2>0 DEF ClaimWalk, MovesTo, Working
    <3> QED  BY Zenon, <3>1, ClaimsKept
  <2>3. Dispatched'
    <3>1. at \notin Dispatching /\ at # "barred"
      BY Zenon DEF Opening, Dispatching
    <3>2. \A q \in Procs : WriteWalk(q)
      BY Zenon, <2>0, <3>1 DEF WriteWalk, MovesTo, IInv, Dispatched
    <3>3. WritesKept
      BY Zenon DEF WritesKept, OpeningOnly
    <3> QED  BY Zenon, <3>2, <3>3, DispatchedKept
  <2>4. Truth'
    BY Zenon, <1>OpeningTruth
  <2> QED  BY Zenon, <2>1, <2>2, <2>3, <2>4 DEF IInv

\* Opening changes no worker's standing that Quit speaks of.
<1>OpeningQuits.
      ASSUME NEW p \in Procs, NEW r \in Runs, work[p].run = r, work[p].at \in Opening,
             NEW at \in Opening \cup {"failed", "deferred", "settle"}, Goes(p, at)
      PROVE  /\ \A q \in Procs : QuitWalk(q)
             /\ \A q \in Procs : work'[q].at = "stopped" => work'[q] = work[q]
             /\ \A q \in Procs : work'[q].at = "cleanup" => work'[q] = work[q]
             /\ \A q \in Procs : work[q].at = "record" => work'[q] = work[q]
  <2> USE <1>OpeningQuits
  <2>1. MovesTo(p, r, at)
    BY Zenon, WorkWrites
  <2>2. at \notin {"stopped", "cleanup", "record"} /\ work[p].at # "record"
    BY Zenon DEF Opening
  <2>3. \A q \in Procs \ {p} : work'[q] = work[q]
    BY Zenon, <2>1 DEF MovesTo
  <2>4. work'[p].at = at
    BY Zenon, <2>1 DEF MovesTo
  <2> QED  BY Zenon, <2>2, <2>3, <2>4 DEF QuitWalk

\* A step of the opening that leaves the lease and who holds it.
<1>QuietOpening.
      ASSUME NEW p \in Procs, NEW r \in Runs, work[p].run = r, work[p].at \in Opening,
             NEW at \in {"open", "reserve", "acquire", "begin", "failed", "deferred", "settle"}, Goes(p, at),
             OpeningOnly, run' = run, alive' = alive, MemShape', HoldingKept, GoneKept, OthersRecall(p),
             LeaseKept, DOMAIN lease' = DOMAIN NoLease
      PROVE  IInv'
  <2> USE <1>QuietOpening
  <2>0. MovesTo(p, r, at) /\ at \in Opening \cup {"failed", "deferred", "settle"}
    BY Zenon, WorkWrites DEF Opening
  <2>1. Leased'
    <3>1. BoardingWalk(p)
      BY Zenon, <2>0 DEF BoardingWalk, MovesTo, Boarding
    <3>2. \A q \in Procs : BoardingWalk(q)
      BY Zenon, <2>0, <3>1, OthersBoard DEF MovesTo
    <3> QED  BY Zenon, <3>2, LeasedKept
  <2>2. RowsKept /\ EpochsKept /\ RunShape' /\ \A s \in Runs : SameRow(s)
    BY Zenon DEF RowsKept, EpochsKept, SameRow, OpeningOnly, IInv, Shape, RunShape
  <2>3. Quit'
    BY Zenon, <2>0, <2>2, <1>OpeningQuits, QuitKept
  <2> QED  BY Zenon, <2>0, <2>1, <2>2, <2>3, <1>OpeningStep

<1>OpenStep.
      ASSUME NEW p \in Procs, Open(p)
      PROVE  IInv'
  <2> USE <1>OpenStep
  <2>1. PICK r \in Runs : work[p].run = r
    BY Zenon, WorksOnRun DEF Open
  <2>2. /\ work[p].at \in Opening /\ OpeningOnly /\ run' = run /\ alive' = alive /\ lease' = lease
    BY Zenon DEF Open, Opening, OpeningOnly
  <2>3. PICK states \in Pruned(p), at \in {"failed", "deferred", "reserve"} :
           /\ Goes(p, at)
           /\ \/ mem' = [mem EXCEPT ![p] = states]
              \/ mem' = [mem EXCEPT ![p] = [states EXCEPT ![r] = [NoState EXCEPT !.st = "open", !.gate = TRUE]]]
    BY Zenon, <2>1 DEF Open, R
  <2>4. /\ DOMAIN mem' = Procs /\ DOMAIN mem'[p] = Runs /\ \A q \in Procs \ {p} : mem'[q] = mem[q]
        /\ \A s \in Runs : /\ DOMAIN mem'[p][s] = DOMAIN NoState
                           /\ mem'[p][s] = mem[p][s] \/ mem'[p][s].st \in {"none", "open"}
    <3>0. DOMAIN mem = Procs
      BY Zenon DEF IInv, Shape, MemShape
    <3>1. \A s \in Runs : states[s] = mem[p][s] \/ states[s] = NoState
      BY Zenon, <2>3 DEF Pruned
    <3>2. DOMAIN states = Runs
      BY Zenon, <2>3 DEF Pruned
    <3>3. \A s \in Runs : DOMAIN mem[p][s] = DOMAIN NoState
      BY Zenon DEF IInv, Shape, MemShape
    <3>4. \A s \in Runs : DOMAIN states[s] = DOMAIN NoState
      BY Zenon, <3>1, <3>3
    <3>5. NoState.st = "none" /\ [NoState EXCEPT !.st = "open", !.gate = TRUE].st = "open"
          /\ DOMAIN [NoState EXCEPT !.st = "open", !.gate = TRUE] = DOMAIN NoState
      BY DEF NoState
    <3>6. CASE mem' = [mem EXCEPT ![p] = states]
      <4>1. mem'[p] = states /\ DOMAIN mem' = Procs /\ \A q \in Procs \ {p} : mem'[q] = mem[q]
        BY Zenon, <3>0, <3>6
      <4> QED  BY Zenon, <3>1, <3>2, <3>4, <3>5, <4>1
    <3>7. PICK opened : opened = [NoState EXCEPT !.st = "open", !.gate = TRUE]
      BY Zenon
    <3>8. CASE mem' = [mem EXCEPT ![p] = [states EXCEPT ![r] = opened]]
      <4>1. PICK old : old = [states EXCEPT ![r] = opened]
        BY Zenon
      <4>2. DOMAIN old = Runs /\ old[r] = opened /\ \A s \in Runs \ {r} : old[s] = states[s]
        BY Zenon, <3>2, <4>1
      <4>3. \A s \in Runs : /\ DOMAIN old[s] = DOMAIN NoState
                            /\ old[s] = mem[p][s] \/ old[s].st \in {"none", "open"}
        BY Zenon, <3>1, <3>4, <3>5, <3>7, <4>2
      <4>4. mem'[p] = old /\ DOMAIN mem' = Procs /\ \A q \in Procs \ {p} : mem'[q] = mem[q]
        BY Zenon, <3>0, <3>8, <4>1
      <4> QED  BY Zenon, <4>2, <4>3, <4>4
    <3> QED  BY Zenon, <2>3, <3>6, <3>7, <3>8
  <2>5. MemShape' /\ OthersRecall(p)
    <3>1. OthersRecall(p)
      BY Zenon, <2>4 DEF OthersRecall
    <3>0. \A q \in Procs : DOMAIN mem[q] = Runs /\ \A s \in Runs : DOMAIN mem[q][s] = DOMAIN NoState
      BY Zenon DEF IInv, Shape, MemShape
    <3>2. ASSUME NEW q \in Procs, q # p
          PROVE  DOMAIN mem'[q] = Runs /\ \A s \in Runs : DOMAIN mem'[q][s] = DOMAIN NoState
      <4>1. mem'[q] = mem[q]
        BY Zenon, <2>4, <3>2
      <4> QED  BY Zenon, <3>0, <4>1
    <3>3. \A q \in Procs : DOMAIN mem'[q] = Runs /\ \A s \in Runs : DOMAIN mem'[q][s] = DOMAIN NoState
      BY Zenon, <2>4, <3>2
    <3> QED  BY Zenon, <2>4, <3>1, <3>3 DEF MemShape
  <2>6. \A s \in Runs : mem'[p][s] = mem[p][s] \/ mem'[p][s].st \notin Holding \cup Gone
    BY Zenon, <2>4 DEF Holding, Gone
  <2>7. HoldingKept /\ GoneKept
    BY Zenon, <2>5, <2>6 DEF HoldingKept, GoneKept, OthersRecall
  <2> QED  BY Zenon, <2>1, <2>2, <2>3, <2>5, <2>7, SameLease, <1>QuietOpening

<1>OpenFailsStep.
      ASSUME NEW p \in Procs, OpenFails(p)
      PROVE  IInv'
  <2> USE <1>OpenFailsStep
  <2>1. PICK r \in Runs : work[p].run = r
    BY Zenon, WorksOnRun DEF OpenFails, Opening
  <2>2. /\ work[p].at \in Opening /\ OpeningOnly /\ run' = run /\ alive' = alive /\ lease' = lease
    BY Zenon DEF OpenFails, OpeningOnly
  <2>3. PICK at \in {"failed", "settle"} : Goes(p, at)
    BY Zenon DEF OpenFails
  <2>4. MemShape' /\ OthersRecall(p) /\ HoldingKept /\ GoneKept
    <3>1. CASE mem' = mem
      BY Zenon, <3>1 DEF IInv, Shape, MemShape, OthersRecall, HoldingKept, GoneKept
    <3>2. CASE OpenedWithout(p)
      <4>1. PICK state : state = [NoState EXCEPT !.st = "open"]
        BY Zenon
      <4>2. Recalls(p, r, state)
        BY Zenon, <2>1, <3>2, <4>1, MemoryWrites
      <4>3. state.st = "open"
        BY <4>1 DEF NoState
      <4>4. state.st \notin Holding \cup Gone
        BY Zenon, <4>3 DEF Holding, Gone
      <4> QED  BY Zenon, <4>2, <4>4, RecallsUnheld DEF Recalls, OthersRecall
    <3> QED  BY Zenon, <3>1, <3>2 DEF OpenFails
  <2> QED  BY Zenon, <2>1, <2>2, <2>3, <2>4, SameLease, <1>QuietOpening

<1>AcquireStep.
      ASSUME NEW p \in Procs, Acquire(p)
      PROVE  IInv'
  <2> USE <1>AcquireStep
  <2>1. PICK r \in Runs : work[p].run = r
    BY Zenon, WorksOnRun DEF Acquire
  <2>2. /\ work[p].at \in Opening /\ OpeningOnly /\ run' = run /\ alive' = alive /\ mem' = mem
        /\ lease' = [lease EXCEPT !.phase = "acquired"] /\ Goes(p, "begin")
    BY Zenon DEF Acquire, Opening, OpeningOnly, RecordAcquired
  <2>3. LeaseKept /\ DOMAIN lease' = DOMAIN NoLease
    BY <2>2 DEF LeaseKept, IInv, Shape, LeaseShape, NoLease
  <2>4. MemShape' /\ OthersRecall(p) /\ HoldingKept /\ GoneKept
    BY Zenon, <2>2 DEF IInv, Shape, MemShape, OthersRecall, HoldingKept, GoneKept
  <2>5. PICK at \in {"begin"} : Goes(p, at)
    BY Zenon, <2>2
  <2> QED  BY Zenon, <2>1, <2>2, <2>3, <2>4, <2>5, <1>QuietOpening

\* The binding is reserved for r: no browser runs, and the epoch is new.
<1>ReservesStep.
      ASSUME NEW p \in Procs, NEW r \in Runs, work[p].run = r, work[p].at = "reserve",
             ReserveEligible(r), lease.state = "released", lease' = Reserved(r),
             OpeningOnly, run' = run, alive' = alive,
             NEW state, Recalls(p, r, state), NEW at \in {"attach", "failed"}, Goes(p, at),
             \/ at = "attach" /\ state.st = "claimed" /\ state.epoch = lease'.epoch
             \/ at = "failed" /\ state.st = "open"
      PROVE  IInv'
  <2> USE <1>ReservesStep
  <2>0. MovesTo(p, r, at) /\ at \in Opening \cup {"failed", "deferred", "settle"} /\ work[p].at \in Opening
    BY Zenon, WorkWrites DEF Opening
  <2>1. lease.epoch \in Nat
    BY Zenon DEF IInv, Leased
  <2>2. /\ DOMAIN lease' = DOMAIN NoLease /\ lease'.epoch = lease.epoch + 1
        /\ lease'.state = "held" /\ lease'.run = r
    BY DEF Reserved, NoLease
  <2>3. lease'.epoch \in Nat /\ lease'.epoch # 0 /\ lease'.epoch # lease.epoch
    BY <2>1, <2>2
  <2>4. \A n \in Nat : n <= lease.epoch => n <= lease'.epoch /\ n # lease'.epoch
    BY <2>1, <2>2
  <2>5. ~Occupied
    BY Zenon DEF Occupied
  <2>6. \A q \in Procs \ {p} : work'[q] = work[q]
    BY Zenon, <2>0 DEF MovesTo
  <2>7. Leased'
    <3>1. ASSUME NEW q \in Procs, NEW s \in Runs, mem'[q][s].st \in Holding
          PROVE  \/ q = p /\ s = r /\ mem'[q][s].epoch = lease'.epoch
                 \/ /\ mem[q][s].st \in Holding /\ mem'[q][s] = mem[q][s]
                    /\ mem[q][s].epoch \in Nat /\ mem[q][s].epoch <= lease.epoch
      <4>1. CASE q = p /\ s = r
        BY Zenon, <3>1, <4>1 DEF Recalls, Holding
      <4>2. CASE q # p \/ s # r
        <5>1. mem'[q][s] = mem[q][s]
          BY Zenon, <4>2 DEF Recalls
        <5> QED  BY Zenon, <3>1, <5>1 DEF IInv, Leased
      <4> QED  BY Zenon, <4>1, <4>2
    <3>2. \A q \in Procs, s \in Runs : mem'[q][s].st \in Holding =>
            mem'[q][s].epoch \in Nat /\ mem'[q][s].epoch <= lease'.epoch
      <4>1. lease'.epoch <= lease'.epoch
        BY <2>3
      <4>2. SUFFICES ASSUME NEW q \in Procs, NEW s \in Runs, mem'[q][s].st \in Holding
                     PROVE  mem'[q][s].epoch \in Nat /\ mem'[q][s].epoch <= lease'.epoch
        BY Zenon
      <4>3. CASE q = p /\ s = r /\ mem'[q][s].epoch = lease'.epoch
        BY Zenon, <2>3, <4>1, <4>3
      <4>4. CASE /\ mem'[q][s] = mem[q][s]
                 /\ mem[q][s].epoch \in Nat /\ mem[q][s].epoch <= lease.epoch
        BY Zenon, <2>4, <4>4
      <4> QED  BY Zenon, <3>1, <4>2, <4>3, <4>4
    <3>3. \A q, o \in Procs, s, t \in Runs :
            /\ mem'[q][s].st \in Holding /\ mem'[o][t].st \in Holding
            /\ mem'[q][s].epoch = mem'[o][t].epoch
            => q = o /\ s = t
      <4> SUFFICES ASSUME NEW q \in Procs, NEW o \in Procs, NEW s \in Runs, NEW t \in Runs,
                          mem'[q][s].st \in Holding, mem'[o][t].st \in Holding,
                          mem'[q][s].epoch = mem'[o][t].epoch
                   PROVE  q = o /\ s = t
        OBVIOUS
      <4>1. CASE q = p /\ s = r /\ mem'[q][s].epoch = lease'.epoch
        BY ZenonT(40), <2>4, <3>1, <4>1
      <4>2. CASE o = p /\ t = r /\ mem'[o][t].epoch = lease'.epoch
        <5>1. mem'[q][s].epoch = lease'.epoch
          BY Zenon, <4>2
        <5> QED  BY Zenon, <2>4, <3>1, <4>2, <5>1
      <4>3. CASE /\ mem[q][s].st \in Holding /\ mem'[q][s] = mem[q][s]
                 /\ mem[o][t].st \in Holding /\ mem'[o][t] = mem[o][t]
        <5>1. mem[q][s].epoch = mem[o][t].epoch
          BY Zenon, <4>3
        <5> QED  BY <4>3, <5>1 DEF IInv, Leased
      <4> QED  BY Zenon, <3>1, <4>1, <4>2, <4>3
    <3>4. ASSUME NEW q \in Procs, work'[q].at \in Boarding
          PROVE  mem'[q][work'[q].run].st = "claimed"
      <4>1. CASE q = p
        BY Zenon, <2>0, <3>4, <4>1 DEF MovesTo, Recalls, Boarding
      <4>2. CASE q # p
        <5>1. work[q].run \in Runs /\ mem[q][work[q].run].st = "claimed"
          BY Zenon, <2>6, <3>4, <4>2 DEF IInv, Leased, Claims, Boarding
        <5> QED  BY Zenon, <2>6, <4>2, <5>1 DEF Recalls
      <4> QED  BY Zenon, <4>1, <4>2
    <3>5. \A q \in Procs : work'[q].at # "launch"
      <4>1. \A q \in Procs : work[q].at # "launch"
        BY Zenon, <2>5 DEF IInv, Leased
      <4> QED  BY Zenon, <2>0, <2>6, <4>1 DEF MovesTo
    <3>6. \A e \in alive' : FALSE
      BY Zenon, <2>5 DEF IInv, Leased
    <3>7. "held" # "released"
      OBVIOUS
    <3> QED  BY Zenon, <2>2, <2>3, <3>2, <3>3, <3>4, <3>5, <3>6, <3>7 DEF Leased
  <2>8. Quit'
    <3>1. ~Over(r) /\ ~run[r].cancel
      BY Zenon DEF ReserveEligible, Over, Terminal
    <3>2. \A q \in Procs : /\ work'[q].at = "stopped" => work'[q] = work[q]
                           /\ work'[q].at = "cleanup" => work'[q] = work[q]
                           /\ work[q].at = "record" => work'[q] = work[q]
      BY Zenon, <2>0, <1>OpeningQuits
    <3>3. \A s \in Runs :
             /\ run'[s].lease \in Nat /\ run'[s].lease <= lease'.epoch
             /\ run'[s].lease # lease'.epoch
      <4>1. \A s \in Runs : run[s].lease \in Nat /\ run[s].lease <= lease.epoch
        BY Zenon DEF IInv, Quit
      <4> QED  BY Zenon, <2>4, <4>1
    <3>4. \A s \in Runs : run'[s].ack => run'[s].cancel /\ lease'.run # s
      BY Zenon, <2>2, <3>1 DEF IInv, Quit
    <3>5. \A q \in Procs : work'[q].at = "stopped" => run'[work'[q].run].cancel /\ lease'.run # work'[q].run
      BY ZenonT(40), <2>2, <3>1, <3>2 DEF IInv, Quit
    <3>6. ASSUME NEW q \in Procs, work'[q].at = "cleanup", ~work'[q].stop
          PROVE  run'[work'[q].run].phase \in Terminal \/ ~auth'[work'[q].run] \/ run'[work'[q].run].cancel
      BY Zenon, <3>2, <3>6 DEF IInv, Quit, Over, OpeningOnly
    <3>7. \A s \in Runs : Over(s) => Over(s)' /\ lease'.run # s
      BY Zenon, <2>2, <3>1 DEF Over, OpeningOnly
    <3>8. ASSUME NEW q \in Procs, NEW s \in Runs, mem'[q][s].st \in Gone
          PROVE  \/ Over(s)' /\ lease'.run # s
                 \/ work'[q].at = "record" /\ work'[q].run = s /\ work'[q].stop
      <4>1. q # p \/ s # r
        BY Zenon, <3>8 DEF Recalls, Gone
      <4>2. mem[q][s].st \in Gone
        BY Zenon, <3>8, <4>1 DEF Recalls
      <4>3. \/ Over(s)
            \/ work[q].at = "record" /\ work[q].run = s /\ work[q].stop
        BY Zenon, <4>2 DEF IInv, Quit
      <4> QED  BY Zenon, <3>2, <3>7, <4>3
    <3> QED  BY Zenon, <3>3, <3>4, <3>5, <3>6, <3>8 DEF Quit, Over
  <2>9. EpochsKept /\ RunShape' /\ \A s \in Runs : SameRow(s)
    BY Zenon DEF EpochsKept, SameRow, OpeningOnly, IInv, Shape, RunShape
  <2> QED  BY Zenon, <2>0, <2>2, <2>7, <2>8, <2>9, <1>OpeningStep DEF Recalls

<1>ReserveStep.
      ASSUME NEW p \in Procs, Reserve(p)
      PROVE  IInv'
  <2> USE <1>ReserveStep
  <2>1. PICK r \in Runs : work[p].run = r
    BY Zenon, WorksOnRun DEF Reserve
  <2>2. /\ work[p].at = "reserve" /\ OpeningOnly /\ run' = run /\ alive' = alive /\ ReserveEligible(r)
    BY Zenon, <2>1 DEF Reserve, OpeningOnly, R
  <2>3. PICK opened : opened = [NoState EXCEPT !.st = "open"]
    BY Zenon
  <2>4. opened.st = "open" /\ OpenedWithout(p) => Recalls(p, r, opened)
    BY Zenon, <2>1, <2>3, MemoryWrites
  <2>5. opened.st = "open" /\ NoState.st = "none"
    BY <2>3 DEF NoState
  <2>6. CASE lease.state = "released" /\ lease' = Reserved(r)
             /\ Remembers(p, [st |-> "claimed", epoch |-> lease'.epoch, gate |-> TRUE]) /\ Goes(p, "attach")
    <3>1. PICK state : state = [st |-> "claimed", epoch |-> lease'.epoch, gate |-> TRUE]
      BY Zenon
    <3>2. DOMAIN state = DOMAIN NoState /\ state.st = "claimed" /\ state.epoch = lease'.epoch
      BY <3>1 DEF NoState
    <3>3. Recalls(p, r, state)
      BY Zenon, <2>1, <2>6, <3>1, <3>2, MemoryWrites
    <3> QED  BY Zenon, <2>1, <2>2, <2>6, <3>2, <3>3, <1>ReservesStep
  <2>7. CASE lease.state = "released" /\ lease' = Reserved(r) /\ OpenedWithout(p) /\ Goes(p, "failed")
    BY Zenon, <2>1, <2>2, <2>4, <2>5, <2>7, <1>ReservesStep
  <2>8. CASE lease' = lease /\ (\/ OpenedWithout(p) /\ Goes(p, "failed")
                                \/ Remembers(p, NoState) /\ Goes(p, "deferred"))
    <3>1. Remembers(p, NoState) => Recalls(p, r, NoState)
      BY Zenon, <2>1, MemoryWrites
    <3>2. MemShape' /\ OthersRecall(p) /\ HoldingKept /\ GoneKept
      <4>1. CASE OpenedWithout(p)
        BY Zenon, <2>4, <2>5, <4>1, RecallsUnheld DEF Recalls, OthersRecall, Holding, Gone
      <4>2. CASE Remembers(p, NoState)
        BY Zenon, <2>5, <3>1, <4>2, RecallsUnheld DEF Recalls, OthersRecall, Holding, Gone
      <4> QED  BY Zenon, <2>8, <4>1, <4>2
    <3>3. PICK at \in {"failed", "deferred"} : Goes(p, at)
      BY Zenon, <2>8
    <3>4. work[p].at \in Opening
      BY Zenon, <2>2 DEF Opening
    <3> QED  BY Zenon, <2>1, <2>2, <2>8, <3>2, <3>3, <3>4, SameLease, <1>QuietOpening
  <2> QED  BY Zenon, <2>1, <2>6, <2>7, <2>8 DEF Reserve, R

<1>AttachStep.
      ASSUME NEW p \in Procs, Attach(p)
      PROVE  IInv'
  <2> USE <1>AttachStep
  <2>1. PICK r \in Runs : work[p].run = r
    BY Zenon, WorksOnRun DEF Attach
  <2>2. /\ work[p].at = "attach" /\ work[p].at \in Opening /\ OpeningOnly /\ lease' = lease /\ mem' = mem
        /\ alive' = alive /\ Goes(p, "start") /\ "start" \in Opening \cup {"failed", "deferred", "settle"}
    BY Zenon DEF Attach, OpeningOnly, Opening
  <2>3. LeaseCurrent(r, State(p).epoch) /\ Update(r, [run[r] EXCEPT !.lease = State(p).epoch])
    BY Zenon, <2>1 DEF Attach, R
  <2>4. MovesTo(p, r, "start")
    BY Zenon, <2>1, <2>2, WorkWrites
  <2>5. PICK row : row = [run[r] EXCEPT !.lease = lease.epoch]
    BY Zenon
  <2>6. /\ DOMAIN row = DOMAIN NoRun /\ row.lease = lease.epoch
        /\ row.phase = run[r].phase /\ row.effect = run[r].effect /\ row.verified = run[r].verified
        /\ row.epoch = run[r].epoch /\ row.cancel = run[r].cancel /\ row.ack = run[r].ack
    <3>1. DOMAIN run[r] = DOMAIN NoRun
      BY Zenon DEF IInv, Shape, RunShape
    <3> QED  BY <2>5, <3>1 DEF NoRun
  <2>7. Writes(r, row)
    BY Zenon, <2>3, <2>5, <2>6, RunWrites DEF LeaseCurrent
  <2>8. EpochsKept /\ RunShape' /\ (\A s \in Runs : SameRow(s))
    <3>1. run[r].phase # "none"
      BY Zenon, <2>1, <2>2, WorksOnRun DEF Opening
    <3> QED  BY Zenon, <2>2, <2>6, <2>7, <3>1 DEF EpochsKept, SameRow, OpeningOnly, Writes
  <2>9. Leased'
    <3>1. LeaseKept /\ HoldingKept
      BY Zenon, <2>2 DEF LeaseKept, HoldingKept
    <3>2. BoardingWalk(p)
      <4>1. "start" # "launch"
        OBVIOUS
      <4> QED  BY Zenon, <2>1, <2>2, <2>4, <4>1 DEF BoardingWalk, MovesTo, Boarding
    <3>3. \A q \in Procs : BoardingWalk(q)
      BY Zenon, <2>2, <2>4, <3>2 DEF BoardingWalk, MovesTo
    <3> QED  BY Zenon, <2>2, <3>1, <3>3, LeasedKept
  <2>10. Quit'
    <3>1. \A q \in Procs : /\ work'[q].at = "stopped" => work'[q] = work[q]
                           /\ work'[q].at = "cleanup" => work'[q] = work[q]
                           /\ work[q].at = "record" => work'[q] = work[q]
      BY Zenon, <2>1, <2>2, <1>OpeningQuits
    <3>2. \A s \in Runs : /\ run'[s].phase = run[s].phase /\ run'[s].cancel = run[s].cancel
                          /\ run'[s].ack = run[s].ack /\ auth'[s] = auth[s]
      BY Zenon, <2>2, <2>6, <2>7 DEF Writes, OpeningOnly
    <3>3. \A s \in Runs : Over(s) => Over(s)'
      BY Zenon, <3>2 DEF Over
    <3>4. ASSUME NEW s \in Runs
          PROVE  /\ run'[s].lease \in Nat /\ run'[s].lease <= lease'.epoch
                 /\ run'[s].lease = lease'.epoch /\ lease'.state # "released" => lease'.run = s
      <4>1. CASE s = r
        <5>1. lease.epoch \in Nat /\ lease.epoch <= lease.epoch
          <6>1. lease.epoch \in Nat
            BY Zenon DEF IInv, Leased
          <6> QED  BY <6>1
        <5>2. lease.run = r
          BY Zenon, <2>3 DEF LeaseCurrent
        <5> QED  BY Zenon, <2>2, <2>6, <2>7, <4>1, <5>1, <5>2 DEF Writes
      <4>2. CASE s # r
        <5>1. run'[s] = run[s]
          BY Zenon, <2>7, <4>2 DEF Writes
        <5> QED  BY Zenon, <2>2, <5>1 DEF IInv, Quit
      <4> QED  BY Zenon, <4>1, <4>2
    <3>5. \A s \in Runs : run'[s].ack => run'[s].cancel /\ lease'.run # s
      BY Zenon, <2>2, <3>2 DEF IInv, Quit
    <3>6. ASSUME NEW q \in Procs, work'[q].at = "stopped"
          PROVE  run'[work'[q].run].cancel /\ lease'.run # work'[q].run
      <4>1. work'[q] = work[q] /\ work[q].run \in Runs
        BY Zenon, <3>1, <3>6 DEF IInv, Claims
      <4>2. run[work[q].run].cancel /\ lease.run # work[q].run
        BY Zenon, <3>6, <4>1 DEF IInv, Quit
      <4> QED  BY Zenon, <2>2, <3>2, <4>1, <4>2
    <3>7. ASSUME NEW q \in Procs, work'[q].at = "cleanup", ~work'[q].stop
          PROVE  run'[work'[q].run].phase \in Terminal \/ ~auth'[work'[q].run] \/ run'[work'[q].run].cancel
      <4>1. work'[q] = work[q] /\ work[q].run \in Runs
        BY Zenon, <3>1, <3>7 DEF IInv, Claims
      <4>2. Over(work[q].run)
        BY Zenon, <3>7, <4>1 DEF IInv, Quit
      <4> QED  BY Zenon, <3>2, <4>1, <4>2 DEF Over
    <3>8. ASSUME NEW q \in Procs, NEW s \in Runs, mem'[q][s].st \in Gone
          PROVE  \/ Over(s)' /\ lease'.run # s
                 \/ work'[q].at = "record" /\ work'[q].run = s /\ work'[q].stop
      <4>1. \/ Over(s) /\ lease.run # s
            \/ work[q].at = "record" /\ work[q].run = s /\ work[q].stop
        BY Zenon, <2>2, <3>8 DEF IInv, Quit
      <4> QED  BY Zenon, <2>2, <3>1, <3>3, <4>1
    <3> QED  BY Zenon, <3>4, <3>5, <3>6, <3>7, <3>8 DEF Quit, Over
  <2>11. DOMAIN lease' = DOMAIN NoLease /\ MemShape'
    BY Zenon, <2>2 DEF IInv, Shape, LeaseShape, MemShape
  <2> QED  BY Zenon, <2>1, <2>2, <2>8, <2>9, <2>10, <2>11, <1>OpeningStep

\* The rows and what Quit says of them, when a worker goes on to `at`.
<1>BoardingStep.
      ASSUME NEW p \in Procs, NEW r \in Runs, work[p].run = r, work[p].at \in Opening,
             NEW at \in Opening \cup {"failed", "deferred", "settle"}, Goes(p, at), OpeningOnly,
             run' = run, LeaseKept, DOMAIN lease' = DOMAIN NoLease, MemShape', GoneKept, Leased'
      PROVE  IInv'
  <2> USE <1>BoardingStep
  <2>1. EpochsKept /\ RunShape' /\ RowsKept /\ (\A s \in Runs : SameRow(s))
    BY Zenon DEF RowsKept, EpochsKept, SameRow, OpeningOnly, IInv, Shape, RunShape
  <2>2. Quit'
    BY Zenon, <2>1, <1>OpeningQuits, QuitKept
  <2> QED  BY Zenon, <2>1, <2>2, <1>OpeningStep

<1>StartStep.
      ASSUME NEW p \in Procs, Start(p)
      PROVE  IInv'
  <2> USE <1>StartStep
  <2>1. PICK r \in Runs : work[p].run = r
    BY Zenon, WorksOnRun DEF Start
  <2>2. /\ work[p].at = "start" /\ work[p].at \in Opening /\ OpeningOnly /\ run' = run /\ mem' = mem
        /\ alive' = alive /\ Goes(p, "launch") /\ "launch" \in Opening \cup {"failed", "deferred", "settle"}
    BY Zenon DEF Start, OpeningOnly, Opening
  <2>3. lease.state = "held" /\ lease.epoch = mem[p][r].epoch /\ lease' = [lease EXCEPT !.phase = "acquiring"]
    BY Zenon, <2>1 DEF Start, StartAcquisition, BusinessLocked, LeaseCurrent, State, R
  <2>4. DOMAIN lease = DOMAIN NoLease
    BY Zenon DEF IInv, Shape, LeaseShape
  <2>5. /\ DOMAIN lease' = DOMAIN NoLease /\ lease'.phase = "acquiring" /\ lease'.epoch = lease.epoch
        /\ lease'.state = lease.state /\ lease'.run = lease.run
    BY <2>3, <2>4 DEF NoLease
  <2>6. LeaseKept /\ Occupied'
    BY <2>3, <2>5 DEF LeaseKept, Occupied
  <2>7. MemShape' /\ GoneKept
    BY Zenon, <2>2 DEF IInv, Shape, MemShape, GoneKept
  <2>8. MovesTo(p, r, "launch")
    BY Zenon, <2>1, <2>2, WorkWrites
  <2>9. Leased'
    <3>1. lease'.epoch \in Nat /\ (lease'.state = "released" => lease'.run = None)
          /\ (lease'.state # "released" => lease'.epoch # 0)
      BY Zenon, <2>5 DEF IInv, Leased
    <3>2. \A q \in Procs, s \in Runs : mem'[q][s].st \in Holding =>
            mem'[q][s].epoch \in Nat /\ mem'[q][s].epoch <= lease'.epoch
      BY Zenon, <2>2, <2>5 DEF IInv, Leased
    <3>3. \A q, o \in Procs, s, t \in Runs :
            /\ mem'[q][s].st \in Holding /\ mem'[o][t].st \in Holding
            /\ mem'[q][s].epoch = mem'[o][t].epoch
            => q = o /\ s = t
      BY <2>2 DEF IInv, Leased
    <3>4. ASSUME NEW q \in Procs, work'[q].at \in Boarding
          PROVE  mem'[q][work'[q].run].st = "claimed"
      <4>1. work[q].at \in Boarding /\ work'[q].run = work[q].run
        BY Zenon, <2>1, <2>2, <2>8, <3>4 DEF MovesTo, Boarding
      <4> QED  BY Zenon, <2>2, <4>1 DEF IInv, Leased
    <3>5. ASSUME NEW q \in Procs, work'[q].at = "launch"
          PROVE  lease'.epoch = mem'[q][work'[q].run].epoch
      <4>1. CASE q = p
        BY Zenon, <2>2, <2>3, <2>5, <2>8, <4>1 DEF MovesTo
      <4>2. CASE q # p
        <5>1. work'[q] = work[q]
          BY Zenon, <2>8, <4>2 DEF MovesTo
        <5> QED  BY Zenon, <2>2, <2>5, <3>5, <5>1 DEF IInv, Leased
      <4> QED  BY Zenon, <4>1, <4>2
    <3>6. \A e \in alive' : lease'.epoch = e
      BY Zenon, <2>2, <2>5 DEF IInv, Leased
    <3> QED  BY Zenon, <2>6, <3>1, <3>2, <3>3, <3>4, <3>5, <3>6 DEF Leased
  <2> QED  BY Zenon, <2>1, <2>2, <2>5, <2>6, <2>7, <2>9, <1>BoardingStep

<1>LaunchStep.
      ASSUME NEW p \in Procs, Launch(p)
      PROVE  IInv'
  <2> USE <1>LaunchStep
  <2>1. PICK r \in Runs : work[p].run = r
    BY Zenon, WorksOnRun DEF Launch
  <2>2. /\ work[p].at = "launch" /\ work[p].at \in Opening /\ OpeningOnly /\ run' = run /\ lease' = lease
        /\ Goes(p, "acquire") /\ "acquire" \in Opening \cup {"failed", "deferred", "settle"}
        /\ alive' = alive \cup {mem[p][r].epoch}
    BY Zenon, <2>1 DEF Launch, OpeningOnly, Opening, State, R
  <2>3. MovesTo(p, r, "acquire")
    BY Zenon, <2>1, <2>2, WorkWrites
  <2>4. mem[p][r].st = "claimed" /\ lease.epoch = mem[p][r].epoch /\ Occupied
    BY Zenon, <2>1, <2>2 DEF IInv, Leased, Boarding
  <2>5. PICK state : state = [mem[p][r] EXCEPT !.st = "launched"]
    BY Zenon
  <2>6. DOMAIN state = DOMAIN NoState /\ state.st = "launched" /\ state.epoch = mem[p][r].epoch
    <3>1. DOMAIN mem[p][r] = DOMAIN NoState
      BY Zenon DEF IInv, Shape, MemShape
    <3> QED  BY <2>5, <3>1 DEF NoState
  <2>7. Recalls(p, r, state)
    <3>1. Remembers(p, state)
      BY Zenon, <2>1, <2>5 DEF Launch, State, R
    <3> QED  BY Zenon, <2>1, <2>6, <3>1, MemoryWrites
  <2>8. GoneKept /\ MemShape'
    BY Zenon, <2>6, <2>7 DEF GoneKept, Gone, Recalls
  <2>9. \A q \in Procs, s \in Runs : /\ mem'[q][s].st \in Holding => mem[q][s].st \in Holding
                                     /\ mem'[q][s].epoch = mem[q][s].epoch
    BY Zenon, <2>4, <2>6, <2>7 DEF Recalls, Holding
  <2>10. Occupied'
    BY Zenon, <2>2, <2>4 DEF Occupied
  <2>11. Leased'
    <3>1. lease'.epoch \in Nat /\ (lease'.state = "released" => lease'.run = None)
          /\ (lease'.state # "released" => lease'.epoch # 0)
      BY Zenon, <2>2 DEF IInv, Leased
    <3>2. \A q \in Procs, s \in Runs : mem'[q][s].st \in Holding =>
            mem'[q][s].epoch \in Nat /\ mem'[q][s].epoch <= lease'.epoch
      BY Zenon, <2>2, <2>9 DEF IInv, Leased
    <3>3. \A q, o \in Procs, s, t \in Runs :
            /\ mem[q][s].st \in Holding /\ mem[o][t].st \in Holding
            /\ mem[q][s].epoch = mem[o][t].epoch
            => q = o /\ s = t
      BY Zenon DEF IInv, Leased
    <3>4. \A q, o \in Procs, s, t \in Runs :
            /\ mem'[q][s].st \in Holding /\ mem'[o][t].st \in Holding
            /\ mem'[q][s].epoch = mem'[o][t].epoch
            => q = o /\ s = t
      BY <2>9, <3>3
    <3>5. ASSUME NEW q \in Procs, work'[q].at \in Boarding
          PROVE  /\ mem'[q][work'[q].run].st = "claimed"
                 /\ work'[q].at = "launch" => lease'.epoch = mem'[q][work'[q].run].epoch
      <4>1. q # p
        BY Zenon, <2>3, <3>5 DEF MovesTo, Boarding
      <4>2. work'[q] = work[q]
        BY Zenon, <2>3, <4>1 DEF MovesTo
      <4>3. work[q].run \in Runs
        BY Zenon, <3>5, <4>2 DEF IInv, Claims, Boarding
      <4>4. mem'[q][work[q].run] = mem[q][work[q].run]
        BY Zenon, <2>7, <4>1, <4>3 DEF Recalls
      <4> QED  BY ZenonT(40), <2>2, <3>5, <4>2, <4>4 DEF IInv, Leased
    <3>6. \A e \in alive' : lease'.epoch = e
      BY Zenon, <2>2, <2>4 DEF IInv, Leased
    <3>7. "launch" \in Boarding
      BY Zenon DEF Boarding
    <3> QED  BY Zenon, <2>10, <3>1, <3>2, <3>4, <3>5, <3>6, <3>7 DEF Leased
  <2> QED  BY Zenon, <2>1, <2>2, <2>8, <2>11, SameLease, <1>BoardingStep

<1> QED  BY Zenon, <1>OpenStep, <1>OpenFailsStep, <1>AcquireStep, <1>ReserveStep, <1>AttachStep,
     <1>StartStep, <1>LaunchStep

\* A step that leaves the rows of the runs.
LEMMA SameRows ==
    ASSUME IInv, run' = run, log' = log, wire' = wire, site' = site
    PROVE  RunShape' /\ EpochsKept /\ (\A s \in Runs : SameRow(s))
           /\ ((\A s \in Runs : auth'[s] => auth[s]) => RowsKept)
BY Zenon DEF IInv, Shape, RunShape, EpochsKept, SameRow, RowsKept

\* One worker moves, and the rows tell what they told.
LEMMA MoverStep ==
    ASSUME IInv, NEW p \in Procs, WorkShape', \A q \in Procs \ {p} : work'[q] = work[q],
           ClaimWalk(p), work'[p].at \notin Dispatching, work'[p].at \in Working => ProgressOf(p)',
           auth' = auth, gate' = gate, log' = log, wire' = wire, site' = site,
           RunShape', EpochsKept, \A s \in Runs : SameRow(s),
           DOMAIN lease' = DOMAIN NoLease, MemShape', Leased', Quit'
    PROVE  IInv'
<1>1. Shape'
  BY Zenon DEF IInv, Shape, LeaseShape, LogShape, GateShape, SiteShape
<1>2. \A q \in Procs : ClaimWalk(q)
  BY Zenon DEF ClaimWalk
<1>3. Claims'
  BY Zenon, <1>2, ClaimsKept
<1>4. \A q \in Procs : WriteWalk(q)
  BY Zenon DEF WriteWalk, IInv, Dispatched, Dispatching
<1>5. Dispatched'
  BY Zenon, <1>4, DispatchedKept DEF WritesKept
<1>6. \A s \in Runs : NobodyBarred(s)
  BY Zenon DEF NobodyBarred, Dispatching
<1>7. Truth'
  BY Zenon, <1>6, TruthKept
<1> QED  BY Zenon, <1>1, <1>3, <1>5, <1>7 DEF IInv

-----------------------------------------------------------------------------
(* Claiming a run, and acknowledging its cancellation.                     *)

\* A process claims a run, and the worker acknowledges a cancellation.
LEMMA ClaimingSteps ==
    ASSUME IInv
    PROVE  /\ \A p \in Procs, r \in Runs : Claim(p, r) => IInv'
           /\ \A p \in Procs : Acknowledge(p) => IInv'

\* acknowledge_cancel: the execution was stopped, and its lease given back.
<1>AcknowledgeStep.
      ASSUME NEW p \in Procs, Acknowledge(p)
      PROVE  IInv'
  <2> USE <1>AcknowledgeStep
  <2>1. PICK r \in Runs : work[p].run = r /\ run[r].phase # "none"
    BY Zenon, WorksOnRun DEF Acknowledge
  <2>2. /\ lease' = lease /\ auth' = auth /\ gate' = gate /\ log' = log /\ mem' = mem
        /\ wire' = wire /\ site' = site /\ alive' = alive
        /\ work[p].at = "stopped" /\ Goes(p, "acked") /\ work[p].at \in Working
        /\ Update(r, [run[r] EXCEPT !.ack = TRUE])
    BY Zenon, <2>1 DEF Acknowledge, R, Working, Deciding
  <2>3. run[r].cancel /\ lease.run # r
    BY Zenon, <2>1, <2>2 DEF IInv, Quit
  <2>4. PICK row : row = [run[r] EXCEPT !.ack = TRUE]
    BY Zenon
  <2>5. /\ DOMAIN row = DOMAIN NoRun /\ row.phase = run[r].phase /\ row.epoch = run[r].epoch
        /\ row.lease = run[r].lease /\ row.effect = run[r].effect /\ row.verified = run[r].verified
        /\ row.cancel = run[r].cancel
    <3>1. DOMAIN run[r] = DOMAIN NoRun
      BY Zenon DEF IInv, Shape, RunShape
    <3> QED  BY <2>4, <3>1 DEF NoRun
  <2>6. Writes(r, row)
    BY Zenon, <2>2, <2>4, <2>5, RunWrites
  <2>7. RunShape' /\ EpochsKept /\ (\A s \in Runs : SameRow(s))
    BY Zenon, <2>1, <2>2, <2>5, <2>6 DEF EpochsKept, SameRow, Writes
  <2>8. MovesTo(p, r, "acked")
    BY Zenon, <2>1, <2>2, WorkWrites
  <2>9. WorkShape' /\ (\A q \in Procs \ {p} : work'[q] = work[q]) /\ work'[p].at = "acked"
    BY Zenon, <2>8 DEF MovesTo
  <2>10. ClaimWalk(p) /\ work'[p].at \notin Dispatching \cup Boarding
    BY Zenon, <2>1, <2>2, <2>8 DEF ClaimWalk, MovesTo, Dispatching, Boarding
  <2>11. ProgressOf(p)'
    <3>1. Current(p) => Tells(r)
      BY Zenon, <2>1, <2>2, CurrentTells
    <3>2. Tells(r) => Tells(r)'
      BY Zenon, <2>7, <2>8, NobodyComes, ResolvedKept DEF Tells, SameRow
    <3>3. Current(p)' => Tells(r)'
      BY Zenon, <2>1, <2>2, <2>7, <2>8, <3>1, <3>2 DEF Current, MovesTo, SameRow
    <3>4. "acked" \in Settled
      BY Zenon DEF Settled, Deciding
    <3> QED  BY Zenon, <2>8, <3>3, <3>4, SettledProgress DEF MovesTo
  <2>12. Leased' /\ MemShape' /\ GoneKept
    <3>1. \A q \in Procs : BoardingWalk(q)
      BY Zenon, <2>2, <2>9, <2>10 DEF BoardingWalk
    <3>2. HoldingKept /\ GoneKept /\ MemShape' /\ alive' \subseteq alive
      BY Zenon, <2>2 DEF HoldingKept, GoneKept, IInv, Shape, MemShape
    <3> QED  BY Zenon, <2>2, <3>1, <3>2, SameLease, LeasedKept
  <2>13. Quit'
    <3>1. \A s \in Runs : /\ run'[s].phase = run[s].phase /\ run'[s].cancel = run[s].cancel
                          /\ run'[s].lease = run[s].lease /\ auth'[s] = auth[s]
      BY Zenon, <2>2, <2>5, <2>6 DEF Writes
    <3>2. \A s \in Runs : s # r => run'[s].ack = run[s].ack
      BY Zenon, <2>6 DEF Writes
    <3>3. \A s \in Runs : run'[s].ack => run'[s].cancel /\ lease'.run # s
      BY Zenon, <2>2, <2>3, <3>1, <3>2 DEF IInv, Quit
    <3>4. \A s \in Runs :
             /\ run'[s].lease \in Nat /\ run'[s].lease <= lease'.epoch
             /\ run'[s].lease = lease'.epoch /\ lease'.state # "released" => lease'.run = s
      <4>1. \A s \in Runs :
               /\ run[s].lease \in Nat /\ run[s].lease <= lease.epoch
               /\ run[s].lease = lease.epoch /\ lease.state # "released" => lease.run = s
        BY Zenon DEF IInv, Quit
      <4> QED  BY Zenon, <2>2, <3>1, <4>1
    <3>5. ASSUME NEW q \in Procs, work'[q].at = "stopped"
          PROVE  run'[work'[q].run].cancel /\ lease'.run # work'[q].run
      <4>1. work'[q] = work[q] /\ work[q].run \in Runs
        BY Zenon, <2>9, <3>5 DEF IInv, Claims
      <4>2. run[work[q].run].cancel /\ lease.run # work[q].run
        BY Zenon, <3>5, <4>1 DEF IInv, Quit
      <4> QED  BY Zenon, <2>2, <3>1, <4>1, <4>2
    <3>6. ASSUME NEW q \in Procs, work'[q].at = "cleanup", ~work'[q].stop
          PROVE  run'[work'[q].run].phase \in Terminal \/ ~auth'[work'[q].run] \/ run'[work'[q].run].cancel
      <4>1. work'[q] = work[q] /\ work[q].run \in Runs
        BY Zenon, <2>9, <3>6 DEF IInv, Claims
      <4>2. Over(work[q].run)
        BY Zenon, <3>6, <4>1 DEF IInv, Quit
      <4> QED  BY Zenon, <3>1, <4>1, <4>2 DEF Over
    <3>7. ASSUME NEW q \in Procs, NEW s \in Runs, mem'[q][s].st \in Gone
          PROVE  \/ Over(s)' /\ lease'.run # s
                 \/ work'[q].at = "record" /\ work'[q].run = s /\ work'[q].stop
      <4>1. \/ Over(s) /\ lease.run # s
            \/ work[q].at = "record" /\ work[q].run = s /\ work[q].stop
        BY Zenon, <2>2, <3>7 DEF IInv, Quit
      <4>2. Over(s) => Over(s)'
        BY Zenon, <3>1 DEF Over
      <4>3. work[q].at = "record" => work'[q] = work[q]
        BY Zenon, <2>2, <2>9
      <4> QED  BY Zenon, <2>2, <4>1, <4>2, <4>3
    <3> QED  BY Zenon, <3>3, <3>4, <3>5, <3>6, <3>7 DEF Quit, Over
  <2> QED  BY Zenon, <2>2, <2>7, <2>9, <2>10, <2>11, <2>12, <2>13, SameLease, MoverStep

\* A claim makes every earlier worker of the run a stranger to it.
<1>ClaimStep.
      ASSUME NEW p \in Procs, NEW r \in Runs, Claim(p, r)
      PROVE  IInv'
  <2> USE <1>ClaimStep
  <2>1. /\ lease' = lease /\ auth' = auth /\ gate' = gate /\ log' = log /\ mem' = mem
        /\ wire' = wire /\ site' = site /\ alive' = alive /\ work[p] = Idle
        /\ Active(r) /\ Update(r, ClaimedBy(p, r))
    BY Zenon DEF Claim, Claimable
  <2>2. run[r].epoch \in Nat
    BY Zenon DEF IInv, Claims
  <2>3. DOMAIN work = Procs /\ \A q \in Procs : DOMAIN work[q] = DOMAIN Idle
    BY Zenon DEF IInv, Shape, WorkShape
  <2>4. /\ DOMAIN work' = Procs /\ (\A q \in Procs \ {p} : work'[q] = work[q])
        /\ DOMAIN work'[p] = DOMAIN Idle /\ work'[p].at = "claimed" /\ work'[p].run = r
        /\ work'[p].epoch = run[r].epoch + 1 /\ ~work'[p].verified
    BY <2>3 DEF Claim, Idle
  <2>5. WorkShape'
    BY Zenon, <2>3, <2>4 DEF WorkShape
  <2>6. PICK row : row = ClaimedBy(p, r)
    BY Zenon
  <2>7. /\ DOMAIN row = DOMAIN NoRun /\ row.phase = run[r].phase /\ row.epoch = run[r].epoch + 1
        /\ row.lease = run[r].lease /\ row.effect = run[r].effect /\ row.verified = run[r].verified
        /\ row.cancel = run[r].cancel /\ row.ack = run[r].ack
    <3>1. DOMAIN run[r] = DOMAIN NoRun
      BY Zenon DEF IInv, Shape, RunShape
    <3> QED  BY <2>6, <3>1 DEF ClaimedBy, NoRun
  <2>8. RunShape' /\ run'[r] = row /\ \A s \in Runs : s # r => run'[s] = run[s]
    BY Zenon, <2>1, <2>6, <2>7, RunWrites DEF Writes
  <2>9. run[r].phase # "none" /\ run[r].phase \notin Terminal
    BY Zenon, <2>1 DEF Active, ActivePhases, Terminal
  <2>10. run[r].epoch + 1 \in Nat /\ 0 < run[r].epoch + 1 /\ run[r].epoch + 1 <= run[r].epoch + 1
         /\ \A n \in Nat : n <= run[r].epoch => n <= run[r].epoch + 1 /\ n # run[r].epoch + 1
    BY <2>2
  <2>11. ASSUME NEW q \in Procs, q # p, work'[q].at \in Working
         PROVE  /\ work'[q] = work[q] /\ work[q].run \in Runs
                /\ work[q].epoch \in Nat /\ 0 < work[q].epoch
                /\ work[q].epoch <= run[work[q].run].epoch
                /\ work[q].epoch <= run'[work[q].run].epoch
                /\ work[q].run = r => work[q].epoch # run[r].epoch + 1
    <3>1. work'[q] = work[q]
      BY Zenon, <2>4, <2>11
    <3>2. work[q].run \in Runs
      BY Zenon, <2>11, <3>1 DEF IInv, Claims, Working, Opening, Executing, Deciding
    <3>3. work[q].epoch \in Nat /\ 0 < work[q].epoch /\ work[q].epoch <= run[work[q].run].epoch
      BY Zenon, <2>11, <3>1 DEF IInv, Claims
    <3>4. CASE work[q].run = r
      BY Zenon, <2>7, <2>8, <2>10, <3>1, <3>2, <3>3, <3>4
    <3>5. CASE work[q].run # r
      BY Zenon, <2>8, <3>1, <3>2, <3>3, <3>5
    <3> QED  BY Zenon, <3>4, <3>5
  <2>12. Claims'
    <3>1. \A s \in Runs : run'[s].epoch \in Nat /\ (run'[s].phase = "none" => run'[s] = NoRun)
      BY Zenon, <2>7, <2>8, <2>9, <2>10 DEF IInv, Claims
    <3>2. ASSUME NEW q \in Procs, work'[q].at # "idle"
          PROVE  work'[q].run \in Runs /\ run'[work'[q].run].phase # "none"
      <4>1. CASE q = p
        BY Zenon, <2>4, <2>7, <2>8, <2>9, <4>1
      <4>2. CASE q # p
        <5>1. work'[q] = work[q]
          BY Zenon, <2>4, <4>2
        <5>2. work[q].run \in Runs /\ run[work[q].run].phase # "none"
          BY Zenon, <3>2, <5>1, WorksOnRun
        <5> QED  BY Zenon, <2>7, <2>8, <5>1, <5>2
      <4> QED  BY Zenon, <4>1, <4>2
    <3>3. ASSUME NEW q \in Procs, work'[q].at \in Working
          PROVE  work'[q].epoch \in Nat /\ 0 < work'[q].epoch /\ work'[q].epoch <= run'[work'[q].run].epoch
      <4>1. CASE q = p
        BY Zenon, <2>4, <2>7, <2>8, <2>10, <4>1
      <4>2. CASE q # p
        BY Zenon, <2>11, <3>3, <4>2
      <4> QED  BY Zenon, <4>1, <4>2
    <3>4. ASSUME NEW o \in Procs, NEW q \in Procs, work'[o].at \in Working, work'[q].at \in Working,
                 work'[o].run = work'[q].run, work'[o].epoch = work'[q].epoch
          PROVE  o = q
      <4>1. CASE o = p
        BY Zenon, <2>4, <2>11, <3>4, <4>1
      <4>2. CASE q = p
        BY Zenon, <2>4, <2>11, <3>4, <4>2
      <4>3. CASE o # p /\ q # p
        BY Zenon, <2>4, <3>4, <4>3 DEF IInv, Claims
      <4> QED  BY Zenon, <4>1, <4>2, <4>3
    <3> QED  BY Zenon, <3>1, <3>2, <3>3, <3>4 DEF Claims
  <2>i. Idle.at = "idle"
    BY DEF Idle
  <2>13. MemShape' /\ HoldingKept /\ GoneKept /\ WritesKept /\ RowsKept
    <3>1. MemShape' /\ HoldingKept /\ GoneKept /\ WritesKept
      BY Zenon, <2>1 DEF IInv, Shape, MemShape, HoldingKept, GoneKept, WritesKept
    <3>2. RowsKept
      BY Zenon, <2>1, <2>7, <2>8 DEF RowsKept
    <3> QED  BY Zenon, <3>1, <3>2
  <2>14. Leased'
    <3>1. \A q \in Procs : BoardingWalk(q)
      BY Zenon, <2>1, <2>4 DEF BoardingWalk, Boarding
    <3> QED  BY Zenon, <2>1, <2>13, <3>1, SameLease, LeasedKept
  <2>15. Quit'
    <3>1. QuitWalk(p)
      BY Zenon, <2>1, <2>4, <2>i DEF QuitWalk
    <3>2. \A q \in Procs : QuitWalk(q)
      BY Zenon, <2>4, <3>1 DEF QuitWalk
    <3> QED  BY Zenon, <2>1, <2>13, <3>2, SameLease, QuitKept
  <2>16. Dispatched'
    <3>1. \A q \in Procs : WriteWalk(q)
      BY Zenon, <2>4 DEF WriteWalk, Dispatching, IInv, Dispatched
    <3> QED  BY Zenon, <2>13, <3>1, DispatchedKept
  <2>17. \A s \in Runs : s # r => SameRow(s) /\ NobodyBarred(s)
    BY Zenon, <2>1, <2>4, <2>8 DEF SameRow, NobodyBarred
  <2>18. RowTrue(r)'
    <3>1. RowTrue(r)
      BY Zenon DEF IInv, Truth
    <3>2. /\ run'[r].phase = run[r].phase /\ run'[r].effect = run[r].effect
          /\ run'[r].verified = run[r].verified /\ run'[r].phase \notin Terminal
      BY Zenon, <2>7, <2>8, <2>9
    <3> QED  BY Zenon, <2>1, <3>1, <3>2 DEF RowTrue
  <2>19. ASSUME NEW q \in Procs
         PROVE  ProgressOf(q)'
    <3>1. CASE q = p
      BY Zenon, <2>4, <3>1 DEF ProgressOf, Known, Opening, Executing
    <3>2. CASE q # p
      <4>1. SUFFICES ASSUME Current(q)' PROVE ProgressOf(q)'
        BY Zenon DEF ProgressOf
      <4>2. work'[q].at \in Working /\ work'[q].epoch = run'[work'[q].run].epoch
        BY Zenon, <4>1 DEF Current
      <4>3. work[q].run # r
        BY ZenonT(40), <2>7, <2>8, <2>11, <3>2, <4>2
      <4>4. SameRow(work[q].run) /\ NobodyBarred(work[q].run) /\ work'[q] = work[q]
        BY Zenon, <2>11, <2>17, <3>2, <4>2, <4>3
      <4> QED  BY Zenon, <4>4, SameProgress
    <3> QED  BY Zenon, <3>1, <3>2
  <2>20. Truth'
    BY Zenon, <2>17, <2>18, <2>19, SameRowTrue DEF Truth
  <2>21. Shape'
    BY Zenon, <2>1, <2>5, <2>8, <2>13 DEF IInv, Shape, LeaseShape, GateShape, LogShape, SiteShape
  <2> QED  BY Zenon, <2>12, <2>14, <2>15, <2>16, <2>20, <2>21 DEF IInv

<1> QED  BY Zenon, <1>AcknowledgeStep, <1>ClaimStep

\* The lease is as it was, or given back.
LeaseGiven ==
    /\ DOMAIN lease' = DOMAIN NoLease /\ lease'.epoch = lease.epoch
    /\ lease'.state # "released" => lease.state # "released" /\ lease'.run = lease.run
    /\ \A s \in Runs : lease.run # s => lease'.run # s

\* It is given back when no browser runs under it and none is about to start.
LeaseFreed ==
    /\ alive' \subseteq alive
    /\ \/ LeaseKept
       \/ lease'.state = "released" /\ lease'.run = None /\ alive' = {} /\ \A q \in Procs : work[q].at # "launch"

\* An execution is remembered as released once its lease is.
GoneOnce(p, r) ==
    \A q \in Procs, s \in Runs : mem'[q][s].st \in Gone =>
        mem[q][s].st \in Gone \/ (q = p /\ s = r /\ lease'.run # r)

Cleaned(p, r) ==
    MemShape' /\ OthersRecall(p) /\ HoldingKept /\ GoneOnce(p, r) /\ LeaseGiven /\ LeaseFreed

\* The worker goes on from its cleanup; the rows are as they were.
CleanedBy(p, r) ==
    /\ WorkShape' /\ (\A q \in Procs \ {p} : work'[q] = work[q])
    /\ work'[p].run = r /\ work'[p].epoch = work[p].epoch /\ work'[p].stop = work[p].stop
    /\ run' = run /\ auth' = auth

-----------------------------------------------------------------------------
(* Cleaning up.                                                            *)

\* The two uses of cleanup: in _cancel, and at the end of a worker.
LEMMA CleaningSteps ==
    ASSUME IInv
    PROVE  \A p \in Procs : Stop(p) \/ Cleanup(p) => IInv'

<1>SameMemory.
      ASSUME NEW p \in Procs, NEW r \in Runs, mem' = mem
      PROVE  MemShape' /\ OthersRecall(p) /\ HoldingKept /\ GoneOnce(p, r)
  BY Zenon, <1>SameMemory DEF IInv, Shape, MemShape, OthersRecall, HoldingKept, GoneOnce

<1>LeaseStands.
      ASSUME lease' = lease, alive' = alive
      PROVE  LeaseGiven /\ LeaseFreed
  BY Zenon, <1>LeaseStands, SameLease DEF LeaseGiven, LeaseFreed

\* cleanup without a proof: only what was never started is given back.
<1>CleanupUnproven.
      ASSUME lease.state \in {"held", "quarantined"}, LeaseCleanup(FALSE), alive' = alive
      PROVE  LeaseGiven /\ LeaseFreed /\ (Releases(FALSE) => lease'.run = None)
  <2> USE <1>CleanupUnproven
  <2>0. DOMAIN lease = DOMAIN NoLease
    BY Zenon DEF IInv, Shape, LeaseShape
  <2>1. CASE Releases(FALSE)
    <3>1. lease' = [NoLease EXCEPT !.epoch = lease.epoch]
      BY Zenon, <2>1 DEF LeaseCleanup
    <3>2. /\ DOMAIN lease' = DOMAIN NoLease /\ lease'.state = "released" /\ lease'.run = None
          /\ lease'.epoch = lease.epoch
      BY <3>1 DEF NoLease
    <3>3. ~Occupied
      BY Zenon, <2>1 DEF Releases, Occupied
    <3>4. (\A q \in Procs : work[q].at # "launch") /\ alive = {}
      BY Zenon, <3>3 DEF IInv, Leased
    <3>5. LeaseFreed
      BY Zenon, <3>2, <3>4 DEF LeaseFreed
    <3>6. \A s \in Runs : None # s
      BY Zenon, StoreAssumption
    <3> QED  BY Zenon, <3>2, <3>5, <3>6 DEF LeaseGiven
  <2>2. CASE ~Releases(FALSE)
    <3>1. lease' = [lease EXCEPT !.state = "quarantined", !.phase = "unknown"]
      BY Zenon, <2>2 DEF LeaseCleanup
    <3>2. /\ DOMAIN lease' = DOMAIN NoLease /\ lease'.state = "quarantined" /\ lease'.run = lease.run
          /\ lease'.epoch = lease.epoch /\ lease'.phase = "unknown"
      BY <2>0, <3>1 DEF NoLease
    <3>3. lease.state # "released" /\ "quarantined" # "released" /\ "unknown" # "reservation_only"
      OBVIOUS
    <3>4. LeaseKept
      BY Zenon, <3>2, <3>3 DEF LeaseKept
    <3> QED  BY Zenon, <2>2, <3>2, <3>3, <3>4 DEF LeaseGiven, LeaseFreed
  <2> QED  BY Zenon, <2>1, <2>2

\* cleanup with the proof that the browser of this execution has exited.
<1>CleanupProven.
      ASSUME NEW p \in Procs, NEW r \in Runs, work[p].at # "launch",
             mem[p][r].st = "launched", mem[p][r].epoch = lease.epoch,
             LeaseCleanup(TRUE), alive' = alive \ {lease.epoch}
      PROVE  LeaseGiven /\ LeaseFreed /\ lease'.run = None
  <2> USE <1>CleanupProven
  <2>1. lease' = [NoLease EXCEPT !.epoch = lease.epoch]
    BY Zenon DEF LeaseCleanup, Releases
  <2>2. /\ DOMAIN lease' = DOMAIN NoLease /\ lease'.state = "released" /\ lease'.run = None
        /\ lease'.epoch = lease.epoch
    BY <2>1 DEF NoLease
  <2>3. alive' = {}
    BY Zenon DEF IInv, Leased
  <2>4. ASSUME NEW q \in Procs, work[q].at = "launch"
        PROVE  FALSE
    <3>1. work[q].run \in Runs /\ mem[q][work[q].run].st = "claimed" /\ mem[q][work[q].run].epoch = lease.epoch
      BY Zenon, <2>4 DEF IInv, Leased, Claims, Boarding
    <3>2. q = p
      <4>1. mem[q][work[q].run].st \in Holding /\ mem[p][r].st \in Holding
        BY Zenon, <3>1 DEF Holding
      <4> QED  BY Zenon, <3>1, <4>1 DEF IInv, Leased
    <3> QED  BY Zenon, <2>4, <3>2
  <2>5. LeaseFreed
    BY Zenon, <2>2, <2>3, <2>4 DEF LeaseFreed
  <2>6. \A s \in Runs : None # s
    BY Zenon, StoreAssumption
  <2> QED  BY Zenon, <2>2, <2>5, <2>6 DEF LeaseGiven

\* The execution is remembered as `st`.
<1>Remembered.
      ASSUME NEW p \in Procs, NEW r \in Runs, work[p].run = r,
             NEW st \in Gone, Forgets(p, st), lease'.run # r
      PROVE  MemShape' /\ OthersRecall(p) /\ HoldingKept /\ GoneOnce(p, r)
  <2> USE <1>Remembered
  <2>1. PICK state : state = [st |-> st, epoch |-> mem[p][r].epoch, gate |-> FALSE]
    BY Zenon
  <2>2. DOMAIN state = DOMAIN NoState /\ state.st = st
    BY <2>1 DEF NoState
  <2>3. Recalls(p, r, state)
    <3>1. Remembers(p, state)
      BY Zenon, <2>1 DEF Forgets, State, R
    <3> QED  BY Zenon, <2>2, <3>1, MemoryWrites
  <2>4. state.st \notin Holding
    BY Zenon, <2>2 DEF Holding, Gone
  <2>5. MemShape' /\ OthersRecall(p)
    BY Zenon, <2>3 DEF Recalls, OthersRecall
  <2>6. HoldingKept /\ GoneOnce(p, r)
    BY Zenon, <2>3, <2>4 DEF Recalls, HoldingKept, GoneOnce
  <2> QED  BY Zenon, <2>5, <2>6

\* What every way to clean up achieves.
<1>CleansUpAchieves.
      ASSUME NEW p \in Procs, NEW r \in Runs, work[p].run = r,
             work[p].at \in {"cancel", "cleanup"}, NEW outcome, CleansUp(p, outcome)
      PROVE  Cleaned(p, r) /\ (Stopped(outcome) => lease'.run # r)
  <2> USE <1>CleansUpAchieves
  <2>n. None # r
    BY Zenon, StoreAssumption
  <2>s. State(p) = mem[p][r]
    BY Zenon DEF State, R
  <2>1. CASE CleanAbsent(p) /\ outcome = "absent"
    <3>1. lease' = lease /\ alive' = alive /\ lease.run # r /\ mem[p][r].st \in {"none", "open"}
      BY Zenon, <2>1, <2>s DEF CleanAbsent, NoRunResource, R
    <3>2. PICK state : state = [mem[p][r] EXCEPT !.gate = FALSE]
      BY Zenon
    <3>3. DOMAIN state = DOMAIN NoState /\ state.st = mem[p][r].st
      <4>1. DOMAIN mem[p][r] = DOMAIN NoState
        BY Zenon DEF IInv, Shape, MemShape
      <4> QED  BY <3>2, <4>1 DEF NoState
    <3>4. Recalls(p, r, state)
      <4>1. Remembers(p, state)
        BY Zenon, <2>1, <2>s, <3>2 DEF CleanAbsent
      <4> QED  BY Zenon, <3>3, <4>1, MemoryWrites
    <3>5. state.st \notin Holding \cup Gone
      BY Zenon, <3>1, <3>3 DEF Holding, Gone
    <3>6. HoldingKept /\ GoneKept
      BY Zenon, <3>4, <3>5, RecallsUnheld
    <3>7. MemShape' /\ OthersRecall(p) /\ GoneOnce(p, r)
      BY Zenon, <3>4, <3>6 DEF Recalls, OthersRecall, GoneOnce, GoneKept
    <3> QED  BY Zenon, <3>1, <3>6, <3>7, <1>LeaseStands DEF Cleaned
  <2>2. CASE CleanAgain(p, outcome)
    <3>1. lease' = lease /\ alive' = alive /\ mem' = mem /\ mem[p][r].st \in Gone
      BY Zenon, <2>2, <2>s DEF CleanAgain, Gone
    <3>2. lease.run # r
      BY Zenon, <3>1 DEF IInv, Quit
    <3> QED  BY Zenon, <3>1, <3>2, <1>SameMemory, <1>LeaseStands DEF Cleaned
  <2>3. CASE CleanRecovered(p, outcome)
    <3>1. /\ lease.state \in {"held", "quarantined"} /\ LeaseCleanup(FALSE) /\ alive' = alive /\ mem' = mem
          /\ outcome = IF Releases(FALSE) THEN "released" ELSE "quarantined"
      BY Zenon, <2>3 DEF CleanRecovered, LeaseOf
    <3>2. Stopped(outcome) => Releases(FALSE)
      BY Zenon, <3>1 DEF Stopped
    <3> QED  BY Zenon, <2>n, <3>1, <3>2, <1>CleanupUnproven, <1>SameMemory DEF Cleaned
  <2>4. CASE CleanClaimed(p, outcome)
    <3>1. /\ alive' = alive
          /\ IF outcome = "released" THEN Forgets(p, "released") ELSE mem' = mem
      BY Zenon, <2>4 DEF CleanClaimed
    <3>2. /\ LeaseGiven /\ LeaseFreed
          /\ outcome \in {"released", "quarantined"} /\ (outcome = "released" => lease'.run # r)
      <4>1. CASE lease.state = "released" /\ outcome = "released" /\ lease' = lease
        <5>1. lease.run = None
          BY Zenon, <4>1 DEF IInv, Leased
        <5> QED  BY Zenon, <2>n, <3>1, <4>1, <5>1, <1>LeaseStands
      <4>2. CASE /\ lease.state \in {"held", "quarantined"} /\ LeaseCleanup(FALSE)
                 /\ outcome = IF Releases(FALSE) THEN "released" ELSE "quarantined"
        BY Zenon, <2>n, <3>1, <4>2, <1>CleanupUnproven
      <4> QED  BY Zenon, <2>4, <4>1, <4>2 DEF CleanClaimed, LeaseOf
    <3>3. MemShape' /\ OthersRecall(p) /\ HoldingKept /\ GoneOnce(p, r)
      <4>1. CASE outcome = "released"
        BY Zenon, <3>1, <3>2, <4>1, <1>Remembered DEF Gone
      <4>2. CASE outcome # "released"
        BY Zenon, <3>1, <4>2, <1>SameMemory
      <4> QED  BY Zenon, <4>1, <4>2
    <3>4. Stopped(outcome) => outcome = "released"
      BY Zenon, <3>2 DEF Stopped
    <3> QED  BY Zenon, <3>2, <3>3, <3>4 DEF Cleaned
  <2>5. CASE CleanLaunched(p, outcome)
    <3>1. mem[p][r].st = "launched" /\ mem[p][r].epoch = lease.epoch /\ lease.state \in {"held", "quarantined"}
      BY Zenon, <2>5, <2>s DEF CleanLaunched, LeaseOf
    <3>2. CASE /\ outcome = "terminated"
               /\ alive' = alive \ {lease.epoch} /\ LeaseCleanup(TRUE) /\ Forgets(p, "terminated")
      <4>1. work[p].at # "launch"
        BY Zenon
      <4>2. LeaseGiven /\ LeaseFreed /\ lease'.run # r
        BY Zenon, <2>n, <3>1, <3>2, <4>1, <1>CleanupProven
      <4>3. MemShape' /\ OthersRecall(p) /\ HoldingKept /\ GoneOnce(p, r)
        BY Zenon, <3>2, <4>2, <1>Remembered DEF Gone
      <4> QED  BY Zenon, <4>2, <4>3 DEF Cleaned
    <3>3. CASE outcome = "quarantined" /\ LeaseCleanup(FALSE) /\ alive' = alive /\ mem' = mem
      <4>1. ~Stopped(outcome)
        BY Zenon, <3>3 DEF Stopped
      <4> QED  BY Zenon, <3>1, <3>3, <4>1, <1>CleanupUnproven, <1>SameMemory DEF Cleaned
    <3> QED  BY Zenon, <2>5, <2>s, <3>1, <3>2, <3>3 DEF CleanLaunched
  <2> QED  BY Zenon, <2>1, <2>2, <2>3, <2>4, <2>5 DEF CleansUp

<1>CleanedLeased.
      ASSUME NEW p \in Procs, NEW r \in Runs, Cleaned(p, r), CleanedBy(p, r), work'[p].at \notin Boarding
      PROVE  Leased'
  <2> USE <1>CleanedLeased
  <2>1. \A q \in Procs : BoardingWalk(q)
    BY Zenon, OthersBoard DEF BoardingWalk, Cleaned, CleanedBy
  <2>2. CASE LeaseKept
    BY Zenon, <2>1, <2>2, LeasedKept DEF Cleaned, LeaseFreed
  <2>3. CASE lease'.state = "released" /\ lease'.run = None /\ alive' = {} /\ \A q \in Procs : work[q].at # "launch"
    <3>1. \A q \in Procs, s \in Runs : mem'[q][s].st \in Holding => mem'[q][s] = mem[q][s]
      BY Zenon DEF Cleaned, HoldingKept
    <3>2. lease'.epoch = lease.epoch /\ lease.epoch \in Nat
      BY Zenon DEF Cleaned, LeaseGiven, IInv, Leased
    <3>3. \A q \in Procs, s \in Runs : mem'[q][s].st \in Holding =>
            mem'[q][s].epoch \in Nat /\ mem'[q][s].epoch <= lease'.epoch
      BY Zenon, <3>1, <3>2 DEF IInv, Leased
    <3>4. \A q, o \in Procs, s, t \in Runs :
            /\ mem[q][s].st \in Holding /\ mem[o][t].st \in Holding
            /\ mem[q][s].epoch = mem[o][t].epoch
            => q = o /\ s = t
      BY Zenon DEF IInv, Leased
    <3>5. \A q, o \in Procs, s, t \in Runs :
            /\ mem'[q][s].st \in Holding /\ mem'[o][t].st \in Holding
            /\ mem'[q][s].epoch = mem'[o][t].epoch
            => q = o /\ s = t
      BY <3>1, <3>4
    <3>6. ASSUME NEW q \in Procs, work'[q].at \in Boarding
          PROVE  mem'[q][work'[q].run].st = "claimed" /\ work'[q].at # "launch"
      <4>1. /\ work[q].at \in Boarding /\ work'[q].run = work[q].run
            /\ work'[q].at = "launch" => work[q].at = "launch"
            /\ mem'[q][work[q].run] = mem[q][work[q].run]
        BY Zenon, <2>1, <3>6 DEF BoardingWalk
      <4> QED  BY ZenonT(40), <2>3, <4>1 DEF IInv, Leased
    <3>7. "launch" \in Boarding
      BY Zenon DEF Boarding
    <3> QED  BY Zenon, <2>3, <3>2, <3>3, <3>5, <3>6, <3>7 DEF Leased
  <2> QED  BY Zenon, <2>2, <2>3 DEF Cleaned, LeaseFreed

<1>CleanedQuit.
      ASSUME NEW p \in Procs, NEW r \in Runs, Cleaned(p, r), CleanedBy(p, r),
             work[p].at # "record", work'[p].at # "cleanup",
             work'[p].at = "stopped" => run[r].cancel /\ lease'.run # r,
             Over(r) \/ (work'[p].at = "record" /\ work'[p].stop)
      PROVE  Quit'
  <2> USE <1>CleanedQuit
  <2>1. \A q \in Procs \ {p} : work'[q] = work[q]
    BY Zenon DEF CleanedBy
  <2>2. run' = run /\ auth' = auth /\ work'[p].run = r
    BY Zenon DEF CleanedBy
  <2>3. \A s \in Runs : lease.run # s => lease'.run # s
    BY Zenon DEF Cleaned, LeaseGiven
  <2>4. \A s \in Runs :
           /\ run'[s].lease \in Nat /\ run'[s].lease <= lease'.epoch
           /\ run'[s].lease = lease'.epoch /\ lease'.state # "released" => lease'.run = s
    <3>1. \A s \in Runs :
             /\ run[s].lease \in Nat /\ run[s].lease <= lease.epoch
             /\ run[s].lease = lease.epoch /\ lease.state # "released" => lease.run = s
      BY Zenon DEF IInv, Quit
    <3>2. /\ lease'.epoch = lease.epoch
          /\ lease'.state # "released" => lease.state # "released" /\ lease'.run = lease.run
      BY Zenon DEF Cleaned, LeaseGiven
    <3> QED  BY Zenon, <2>2, <3>1, <3>2
  <2>5. \A s \in Runs : run'[s].ack => run'[s].cancel /\ lease'.run # s
    BY Zenon, <2>2, <2>3 DEF IInv, Quit
  <2>6. ASSUME NEW q \in Procs, work'[q].at = "stopped"
        PROVE  run'[work'[q].run].cancel /\ lease'.run # work'[q].run
    <3>1. CASE q = p
      BY Zenon, <2>2, <2>6, <3>1
    <3>2. CASE q # p
      <4>1. work'[q] = work[q]
        BY Zenon, <2>1, <3>2
      <4>2. work[q].run \in Runs /\ run[work[q].run].cancel /\ lease.run # work[q].run
        BY Zenon, <2>6, <4>1 DEF IInv, Quit, Claims
      <4> QED  BY Zenon, <2>2, <2>3, <4>1, <4>2
    <3> QED  BY Zenon, <3>1, <3>2
  <2>7. ASSUME NEW q \in Procs, work'[q].at = "cleanup", ~work'[q].stop
        PROVE  run'[work'[q].run].phase \in Terminal \/ ~auth'[work'[q].run] \/ run'[work'[q].run].cancel
    <3>1. work'[q] = work[q]
      BY Zenon, <2>1, <2>7
    <3> QED  BY Zenon, <2>2, <2>7, <3>1 DEF IInv, Quit, Over
  <2>8. ASSUME NEW q \in Procs, NEW s \in Runs, mem'[q][s].st \in Gone
        PROVE  \/ Over(s)' /\ lease'.run # s
               \/ work'[q].at = "record" /\ work'[q].run = s /\ work'[q].stop
    <3>1. Over(s) => Over(s)'
      BY Zenon, <2>2 DEF Over
    <3>2. CASE mem[q][s].st \in Gone
      <4>1. \/ Over(s) /\ lease.run # s
            \/ work[q].at = "record" /\ work[q].run = s /\ work[q].stop
        BY Zenon, <3>2 DEF IInv, Quit
      <4> QED  BY Zenon, <2>1, <2>3, <3>1, <4>1
    <3>3. CASE q = p /\ s = r /\ lease'.run # r
      BY Zenon, <2>2, <3>1, <3>3
    <3> QED  BY Zenon, <2>8, <3>2, <3>3 DEF Cleaned, GoneOnce
  <2> QED  BY Zenon, <2>4, <2>5, <2>6, <2>7, <2>8 DEF Quit, Over

\* The two uses of cleanup: in _cancel, and at the end of a worker.
<1>CleanedWork.
      ASSUME NEW p \in Procs, NEW r \in Runs, work[p].run = r, NEW at, NEW outcome,
             work' = [work EXCEPT ![p].at = at, ![p].outcome = outcome], run' = run, auth' = auth
      PROVE  CleanedBy(p, r) /\ work'[p].at = at
  BY <1>CleanedWork DEF IInv, Shape, WorkShape, Idle, CleanedBy

<1>StopStep.
      ASSUME NEW p \in Procs, Stop(p)
      PROVE  IInv'
  <2> USE <1>StopStep
  <2>1. PICK r \in Runs : work[p].run = r
    BY Zenon, WorksOnRun DEF Stop
  <2>2. /\ run' = run /\ auth' = auth /\ gate' = gate /\ log' = log /\ wire' = wire /\ site' = site
        /\ work[p].at = "cancel" /\ run[r].cancel /\ work[p].at \in Working
    BY Zenon, <2>1 DEF Stop, R, Working, Deciding
  <2>3. PICK outcome \in {"absent", "released", "terminated", "quarantined"} :
           /\ CleansUp(p, outcome)
           /\ work' = [work EXCEPT ![p].at = IF Stopped(outcome) THEN "stopped" ELSE "unstopped",
                                   ![p].outcome = outcome]
    BY Zenon DEF Stop
  <2>4. Cleaned(p, r) /\ (Stopped(outcome) => lease'.run # r)
    BY Zenon, <2>1, <2>2, <2>3, <1>CleansUpAchieves
  <2>5. PICK at : at = IF Stopped(outcome) THEN "stopped" ELSE "unstopped"
    BY Zenon
  <2>6. CleanedBy(p, r) /\ work'[p].at = at
    BY Zenon, <2>1, <2>2, <2>3, <2>5, <1>CleanedWork
  <2>7. at \in {"stopped", "unstopped"} /\ (at = "stopped" => Stopped(outcome))
    <3>1. "unstopped" # "stopped"
      OBVIOUS
    <3> QED  BY Zenon, <2>5, <3>1
  <2>8. at \notin Boarding \cup Dispatching /\ at \in Settled
    BY Zenon, <2>7 DEF Boarding, Dispatching, Settled, Deciding
  <2>9. Leased'
    BY Zenon, <2>4, <2>6, <2>8, <1>CleanedLeased
  <2>10. Quit'
    BY Zenon, <2>2, <2>4, <2>6, <2>7, <1>CleanedQuit DEF Over
  <2>11. RunShape' /\ EpochsKept /\ (\A s \in Runs : SameRow(s))
    BY Zenon, <2>2, SameRows
  <2>12. ProgressOf(p)'
    <3>1. Current(p) => Tells(r)
      BY Zenon, <2>1, <2>2, CurrentTells
    <3>2. Tells(r) => Tells(r)'
      <4>1. NobodyBarred(r)
        BY Zenon, <2>6, <2>8 DEF NobodyBarred, CleanedBy, Dispatching
      <4> QED  BY Zenon, <2>11, <4>1, ResolvedKept DEF Tells, SameRow
    <3>3. Current(p)' => Tells(r)'
      BY Zenon, <2>1, <2>2, <2>6, <3>1, <3>2 DEF Current, CleanedBy
    <3> QED  BY Zenon, <2>6, <2>8, <3>3, SettledProgress DEF CleanedBy
  <2>13. ClaimWalk(p) /\ WorkShape' /\ \A q \in Procs \ {p} : work'[q] = work[q]
    BY Zenon, <2>1, <2>2, <2>6 DEF ClaimWalk, CleanedBy
  <2>14. MemShape' /\ DOMAIN lease' = DOMAIN NoLease
    BY Zenon, <2>4 DEF Cleaned, LeaseGiven
  <2> QED  BY Zenon, <2>2, <2>6, <2>8, <2>9, <2>10, <2>11, <2>12, <2>13, <2>14, MoverStep

<1>CleanupStep.
      ASSUME NEW p \in Procs, Cleanup(p)
      PROVE  IInv'
  <2> USE <1>CleanupStep
  <2>1. PICK r \in Runs : work[p].run = r /\ run[r].phase # "none"
    BY Zenon, WorksOnRun DEF Cleanup
  <2>2. /\ run' = run /\ auth' = auth /\ gate' = gate /\ log' = log /\ wire' = wire /\ site' = site
        /\ work[p].at = "cleanup"
    BY Zenon DEF Cleanup
  <2>3. PICK outcome \in {"absent", "released", "terminated", "quarantined"} :
           /\ CleansUp(p, outcome)
           /\ work' = [work EXCEPT ![p].at = "record", ![p].outcome = outcome]
    BY Zenon DEF Cleanup
  <2>4. Cleaned(p, r)
    BY Zenon, <2>1, <2>2, <2>3, <1>CleansUpAchieves
  <2>5. CleanedBy(p, r) /\ work'[p].at = "record"
    BY Zenon, <2>1, <2>2, <2>3, <1>CleanedWork
  <2>6. "record" \notin Boarding \cup Dispatching \cup Working
    BY Zenon DEF Boarding, Dispatching, Working, Opening, Executing, Deciding
  <2>7. Leased'
    BY Zenon, <2>4, <2>5, <2>6, <1>CleanedLeased
  <2>8. Quit'
    <3>1. Over(r) \/ work[p].stop
      BY Zenon, <2>1, <2>2 DEF IInv, Quit
    <3>2. Over(r) \/ (work'[p].at = "record" /\ work'[p].stop)
      BY Zenon, <2>5, <3>1 DEF CleanedBy
    <3>3. "record" # "cleanup" /\ "record" # "stopped" /\ work[p].at # "record"
      BY <2>2
    <3> QED  BY Zenon, <2>4, <2>5, <3>2, <3>3, <1>CleanedQuit
  <2>9. RunShape' /\ EpochsKept /\ (\A s \in Runs : SameRow(s))
    BY Zenon, <2>2, SameRows
  <2>10. ClaimWalk(p) /\ WorkShape' /\ \A q \in Procs \ {p} : work'[q] = work[q]
    BY Zenon, <2>1, <2>5, <2>6 DEF ClaimWalk, CleanedBy
  <2>11. MemShape' /\ DOMAIN lease' = DOMAIN NoLease
    BY Zenon, <2>4 DEF Cleaned, LeaseGiven
  <2> QED  BY Zenon, <2>2, <2>5, <2>6, <2>7, <2>8, <2>9, <2>10, <2>11, MoverStep

<1> QED  BY Zenon, <1>StopStep, <1>CleanupStep

-----------------------------------------------------------------------------
(* The invariant, and what follows from it.                                *)

LEMMA InitHolds ==
    ASSUME Init
    PROVE  IInv
<1>1. /\ run = [r \in Runs |-> NoRun] /\ lease = NoLease /\ auth = [r \in Runs |-> TRUE]
      /\ gate = [r \in Runs |-> NoGate] /\ log = [r \in Runs |-> NoLog] /\ work = [p \in Procs |-> Idle]
      /\ mem = [p \in Procs |-> [r \in Runs |-> NoState]] /\ alive = {} /\ wire = [r \in Runs |-> {}]
      /\ site = [r \in Runs |-> [s \in WriteSteps |-> 0]]
  BY Zenon DEF Init, StoreInit
<1>2. /\ \A r \in Runs : run[r] = NoRun /\ gate[r] = NoGate /\ log[r] = NoLog /\ wire[r] = {}
      /\ \A r \in Runs, s \in WriteSteps : site[r][s] = 0
      /\ \A p \in Procs : work[p] = Idle
      /\ \A p \in Procs, r \in Runs : mem[p][r] = NoState
  BY Zenon, <1>1
<1>3. Shape
  <2>1. RunShape /\ LeaseShape /\ GateShape
    BY Zenon, <1>1 DEF RunShape, LeaseShape, GateShape
  <2>2. LogShape /\ WorkShape /\ MemShape
    BY Zenon, <1>1 DEF LogShape, WorkShape, MemShape
  <2>3. SiteShape
    BY Zenon, <1>1 DEF SiteShape
  <2> QED  BY Zenon, <2>1, <2>2, <2>3 DEF Shape
<1>4. /\ NoRun.epoch = 0 /\ NoRun.phase = "none" /\ NoRun.lease = 0 /\ ~NoRun.ack /\ ~NoRun.verified
      /\ NoRun.effect = "not_sent"
      /\ NoLease.epoch = 0 /\ NoLease.state = "released" /\ NoLease.run = None
      /\ Idle.at = "idle" /\ NoState.st = "none" /\ NoLog.audited = 0 /\ NoLog.barriers = {}
  BY DEF NoRun, NoLease, Idle, NoState, NoLog
<1>5. 0 \in Nat /\ 0 <= 0 /\ 0 # 1 /\ \A s \in WriteSteps : ~(s <= 0)
  BY RunsAssumption
<1>6. "idle" \notin Working \cup Boarding \cup Dispatching /\ "none" \notin Holding \cup Gone \cup Terminal
  BY Zenon DEF Working, Opening, Executing, Deciding, Boarding, Dispatching, Holding, Gone, Terminal
<1>7. Claims
  BY Zenon, <1>2, <1>4, <1>5, <1>6 DEF Claims
<1>8. Leased
  <2>1. \A p \in Procs : work[p].at # "launch"
    BY Zenon, <1>2, <1>4
  <2>2. \A p \in Procs, r \in Runs : mem[p][r].st \notin Holding
    BY Zenon, <1>2, <1>4, <1>6
  <2>3. \A p \in Procs : work[p].at \notin Boarding
    BY Zenon, <1>2, <1>4, <1>6
  <2> QED  BY Zenon, <1>1, <1>4, <1>5, <2>1, <2>2, <2>3 DEF Leased
<1>9. Quit
  BY Zenon, <1>1, <1>2, <1>4, <1>5, <1>6 DEF Quit
<1>10. Dispatched
  <2>1. \A r \in Runs, s \in WriteSteps : site[r][s] = 0 /\ s \notin wire[r]
    BY Zenon, <1>2
  <2>2. \A p \in Procs : work[p].at \notin Dispatching /\ work[p].at # "barred"
    BY Zenon, <1>2, <1>4, <1>6
  <2>3. \A r \in Runs : log[r].barriers = {}
    BY Zenon, <1>2, <1>4
  <2> QED  BY Zenon, <1>5, <2>1, <2>2, <2>3 DEF Dispatched
<1>11. Truth
  <2>1. \A r \in Runs : RowTrue(r)
    <3> SUFFICES ASSUME NEW r \in Runs PROVE RowTrue(r)
      BY Zenon
    <3>1. /\ log[r].audited = 0 /\ log[r].barriers = {} /\ run[r].phase = "none"
          /\ run[r].effect = "not_sent" /\ ~run[r].verified /\ run[r].phase \notin Terminal
      BY Zenon, <1>2, <1>4, <1>6
    <3>2. run[r].phase # "completed"
      BY <3>1
    <3> QED  BY Zenon, <1>5, <3>1, <3>2 DEF RowTrue
  <2>2. \A p \in Procs : ProgressOf(p)
    BY Zenon, <1>2, <1>4, <1>6 DEF ProgressOf, Current
  <2> QED  BY Zenon, <2>1, <2>2 DEF Truth
<1> QED  BY Zenon, <1>3, <1>7, <1>8, <1>9, <1>10, <1>11 DEF IInv

-----------------------------------------------------------------------------
(* The owner, time, authority, and processes that leave.                   *)

\* Steps of the owner, of time and of authority, and the ways in which a process
\* drops a run, picks up its remains or dies.
LEMMA OutsideSteps ==
    ASSUME IInv
    PROVE  /\ \A r \in Runs :
                \/ Accept(r) \/ RecordWritePreparation(r) \/ Decide(r) \/ GateExpires(r) \/ Cancel(r)
                => IInv'
           /\ \A p \in Procs :
                \/ Record(p) \/ CleanupFails(p) \/ ExitUnrecorded(p) \/ Interrupt(p) \/ Crash(p)
                => IInv'
           /\ \A p \in Procs, r \in Runs : CleanupPass(p, r) => IInv'
           /\ Passes \/ UNCHANGED vars => IInv'

\* No worker moves, and the rows tell what they told.
<1>OutsideStep.
      ASSUME work' = work, mem' = mem, alive' \subseteq alive, log' = log, wire' = wire, site' = site,
             RunShape', DOMAIN auth' = Runs, DOMAIN lease' = DOMAIN NoLease, GateShape',
             LeaseKept, EpochsKept, RowsKept, \A r \in Runs : SameRow(r),
             \A r \in Runs : gate[r].decision = "confirmed" => gate'[r].decision = "confirmed"
      PROVE  IInv'
  <2> USE <1>OutsideStep
  <2>1. Shape'
    BY Zenon DEF IInv, Shape, LeaseShape, LogShape, WorkShape, MemShape, SiteShape
  <2>2. Claims'
    BY Zenon, ClaimsKept DEF ClaimWalk
  <2>3. HoldingKept /\ GoneKept /\ WritesKept
    BY Zenon DEF HoldingKept, GoneKept, WritesKept
  <2>4. Leased'
    BY Zenon, <2>3, LeasedKept DEF BoardingWalk
  <2>5. Quit'
    BY Zenon, <2>3, QuitKept DEF QuitWalk
  <2>6. Dispatched'
    BY Zenon, <2>3, DispatchedKept DEF WriteWalk, IInv, Dispatched
  <2>7. Truth'
    BY Zenon, TruthKept DEF NobodyBarred
  <2> QED  BY Zenon, <2>1, <2>2, <2>4, <2>5, <2>6, <2>7 DEF IInv

\* A run's row takes what concerns neither its claim nor its writes.
<1>NotedStep.
      ASSUME NEW r \in Runs, NEW row, Update(r, row), DOMAIN row = DOMAIN NoRun,
             row.epoch = run[r].epoch, row.lease = run[r].lease, row.phase # "none",
             row.effect = run[r].effect, row.verified = run[r].verified,
             row.ack => run[r].ack, run[r].cancel => row.cancel,
             row.phase \in Before <=> run[r].phase \in Before,
             row.phase \in Terminal <=> run[r].phase \in Terminal,
             row.phase = "completed" <=> run[r].phase = "completed"
      PROVE  /\ RunShape' /\ EpochsKept /\ (auth' = auth => RowsKept)
             /\ log' = log /\ wire' = wire /\ site' = site => \A s \in Runs : SameRow(s)
  <2> USE <1>NotedStep
  <2>1. Writes(r, row)
    BY Zenon, RunWrites
  <2>2. RunShape' /\ run'[r] = row /\ \A s \in Runs : s # r => run'[s] = run[s]
    BY Zenon, <2>1 DEF Writes
  <2>3. EpochsKept
    BY Zenon, <2>2 DEF EpochsKept
  <2>4. auth' = auth => RowsKept
    BY Zenon, <2>2 DEF RowsKept
  <2>5. log' = log /\ wire' = wire /\ site' = site => \A s \in Runs : SameRow(s)
    BY Zenon, <2>2 DEF SameRow
  <2> QED  BY Zenon, <2>2, <2>3, <2>4, <2>5

<1>AcceptStep.
      ASSUME NEW r \in Runs, Accept(r)
      PROVE  IInv'
  <2> USE <1>AcceptStep
  <2>1. run[r] = NoRun
    BY Zenon DEF Accept, IInv, Claims
  <2>2. /\ DOMAIN Accepted = DOMAIN NoRun /\ Accepted.phase = "queued" /\ NoRun.phase = "none"
        /\ Accepted.epoch = NoRun.epoch /\ Accepted.lease = NoRun.lease
        /\ Accepted.effect = NoRun.effect /\ Accepted.verified = NoRun.verified
        /\ Accepted.ack = NoRun.ack /\ Accepted.cancel = NoRun.cancel
    BY DEF Accepted, NoRun
  <2>3. /\ {"queued", "none"} \subseteq Before /\ "queued" \notin Terminal /\ "none" \notin Terminal
        /\ "queued" # "none" /\ "completed" # "queued" /\ "completed" # "none"
    BY DEF Before, Terminal
  <2>4. /\ Update(r, Accepted) /\ auth' = auth /\ lease' = lease /\ gate' = gate /\ log' = log
        /\ wire' = wire /\ site' = site /\ work' = work /\ mem' = mem /\ alive' = alive
    BY Zenon DEF Accept
  <2>5. RunShape' /\ EpochsKept /\ RowsKept /\ \A s \in Runs : SameRow(s)
    BY Zenon, <2>1, <2>2, <2>3, <2>4, <1>NotedStep
  <2>6. GateShape' /\ DOMAIN auth' = Runs
    BY Zenon, <2>4 DEF IInv, Shape, LeaseShape, GateShape
  <2> QED  BY Zenon, <2>4, <2>5, <2>6, SameLease, <1>OutsideStep

\* Cancel is set, or the claim's deadline has passed.
<1>CancelStep.
      ASSUME NEW r \in Runs,
             \/ Cancel(r)
             \/ ClaimLapses(r) /\ UNCHANGED <<journal, work, mem, alive, world, crashes>>
      PROVE  IInv'
  <2> USE <1>CancelStep
  <2>1. /\ auth' = auth /\ lease' = lease /\ gate' = gate /\ log' = log
        /\ wire' = wire /\ site' = site /\ work' = work /\ mem' = mem /\ alive' = alive /\ Active(r)
    BY Zenon DEF Cancel, RequestCancel, ClaimLapses
  <2>2. PICK row : /\ Update(r, row)
                   /\ row = [run[r] EXCEPT !.cancel = TRUE] \/ row = [run[r] EXCEPT !.live = FALSE]
    BY Zenon DEF Cancel, RequestCancel, ClaimLapses
  <2>3. DOMAIN run[r] = DOMAIN NoRun
    BY Zenon DEF IInv, Shape, RunShape
  <2>4. /\ DOMAIN row = DOMAIN NoRun /\ row.phase = run[r].phase /\ row.epoch = run[r].epoch
        /\ row.lease = run[r].lease /\ row.effect = run[r].effect /\ row.verified = run[r].verified
        /\ row.ack = run[r].ack /\ (run[r].cancel => row.cancel)
    BY <2>2, <2>3 DEF NoRun
  <2>5. run[r].phase # "none"
    BY Zenon, <2>1 DEF Active, ActivePhases
  <2>6. RunShape' /\ EpochsKept /\ RowsKept /\ \A s \in Runs : SameRow(s)
    BY Zenon, <2>1, <2>2, <2>4, <2>5, <1>NotedStep
  <2>7. GateShape' /\ DOMAIN auth' = Runs
    BY Zenon, <2>1 DEF IInv, Shape, LeaseShape, GateShape
  <2> QED  BY Zenon, <2>1, <2>6, <2>7, SameLease, <1>OutsideStep

<1>AuthorityLostStep.
      ASSUME NEW r \in Runs, AuthorityLost(r), UNCHANGED <<journal, work, mem, alive, world, crashes>>
      PROVE  IInv'
  <2> USE <1>AuthorityLostStep
  <2>1. /\ run' = run /\ lease' = lease /\ gate' = gate /\ log' = log
        /\ wire' = wire /\ site' = site /\ work' = work /\ mem' = mem /\ alive' = alive
        /\ auth' = [auth EXCEPT ![r] = FALSE]
    BY Zenon DEF AuthorityLost
  <2>2. DOMAIN auth = Runs
    BY Zenon DEF IInv, Shape, LeaseShape
  <2>3. DOMAIN auth' = Runs /\ \A s \in Runs : auth'[s] => auth[s]
    BY Zenon, <2>1, <2>2
  <2>4. GateShape'
    BY Zenon, <2>1 DEF IInv, Shape, GateShape
  <2>5. RunShape' /\ EpochsKept /\ RowsKept /\ \A s \in Runs : SameRow(s)
    BY Zenon, <2>1, <2>3, SameRows
  <2> QED  BY Zenon, <2>1, <2>3, <2>4, <2>5, SameLease, <1>OutsideStep

<1>LeaseLapsesStep.
      ASSUME LeaseLapses, UNCHANGED <<journal, work, mem, alive, world, crashes>>
      PROVE  IInv'
  <2> USE <1>LeaseLapsesStep
  <2>1. /\ run' = run /\ auth' = auth /\ gate' = gate /\ log' = log
        /\ wire' = wire /\ site' = site /\ work' = work /\ mem' = mem /\ alive' = alive
        /\ lease' = [lease EXCEPT !.live = FALSE]
    BY Zenon DEF LeaseLapses
  <2>2. LeaseKept /\ DOMAIN lease' = DOMAIN NoLease
    BY <2>1 DEF LeaseKept, IInv, Shape, LeaseShape, NoLease
  <2>3. GateShape' /\ DOMAIN auth' = Runs
    BY Zenon, <2>1 DEF IInv, Shape, GateShape, LeaseShape
  <2>4. RunShape' /\ EpochsKept /\ RowsKept /\ \A s \in Runs : SameRow(s)
    BY Zenon, <2>1, SameRows
  <2> QED  BY Zenon, <2>1, <2>2, <2>3, <2>4, <1>OutsideStep

\* A confirmation stays: the decision is written once.
<1>GateSteps.
      ASSUME NEW r \in Runs, RecordWritePreparation(r) \/ Decide(r) \/ GateExpires(r)
      PROVE  IInv'
  <2> USE <1>GateSteps
  <2>1. /\ run' = run /\ auth' = auth /\ lease' = lease /\ log' = log
        /\ wire' = wire /\ site' = site /\ work' = work /\ mem' = mem /\ alive' = alive
    BY Zenon DEF RecordWritePreparation, Decide, GateExpires
  <2>2. DOMAIN gate = Runs /\ \A s \in Runs : DOMAIN gate[s] = DOMAIN NoGate
    BY Zenon DEF IInv, Shape, GateShape
  <2>3. /\ DOMAIN gate' = Runs /\ \A s \in Runs : DOMAIN gate'[s] = DOMAIN NoGate
        /\ \A s \in Runs : gate[s].decision = "confirmed" => gate'[s].decision = "confirmed"
    <3>1. CASE RecordWritePreparation(r)
      BY <2>2, <3>1 DEF RecordWritePreparation, NoGate
    <3>2. CASE Decide(r)
      BY <2>2, <3>2 DEF Decide, NoGate
    <3>3. CASE GateExpires(r)
      BY <2>2, <3>3 DEF GateExpires, NoGate
    <3> QED  BY Zenon, <3>1, <3>2, <3>3
  <2>4. GateShape' /\ DOMAIN auth' = Runs
    BY Zenon, <2>1, <2>3 DEF IInv, Shape, GateShape, LeaseShape
  <2>5. RunShape' /\ EpochsKept /\ RowsKept /\ \A s \in Runs : SameRow(s)
    BY Zenon, <2>1, SameRows
  <2> QED  BY Zenon, <2>1, <2>3, <2>4, <2>5, SameLease, <1>OutsideStep

<1>ExitUnrecordedStep.
      ASSUME NEW p \in Procs, ExitUnrecorded(p)
      PROVE  IInv'
  <2> USE <1>ExitUnrecordedStep
  <2>1. /\ run' = run /\ auth' = auth /\ lease' = lease /\ log' = log /\ gate' = gate
        /\ wire' = wire /\ site' = site /\ work' = work /\ mem' = mem /\ alive' \subseteq alive
    BY Zenon DEF ExitUnrecorded
  <2>2. GateShape' /\ DOMAIN auth' = Runs
    BY Zenon, <2>1 DEF IInv, Shape, GateShape, LeaseShape
  <2>3. RunShape' /\ EpochsKept /\ RowsKept /\ \A s \in Runs : SameRow(s)
    BY Zenon, <2>1, SameRows
  <2> QED  BY Zenon, <2>1, <2>2, <2>3, SameLease, <1>OutsideStep

\* Its memory may be forgotten, and its browsers may exit.
<1>LeavingStep.
      ASSUME NEW p \in Procs, Rests(p), MemShape', OthersRecall(p), HoldingKept, GoneKept,
             work[p].at = "record" => ~work[p].stop \/ \A s \in Runs : mem'[p][s].st \notin Gone,
             alive' \subseteq alive, lease' = lease, auth' = auth, gate' = gate, log' = log,
             wire' = wire, site' = site, RunShape', EpochsKept, RowsKept, \A s \in Runs : SameRow(s)
      PROVE  IInv'
  <2> USE <1>LeavingStep
  <2>1. WorkShape' /\ (\A q \in Procs \ {p} : work'[q] = work[q]) /\ work'[p].at = "idle"
    <3>1. Idle.at = "idle"
      BY DEF Idle
    <3> QED  BY Zenon, <3>1 DEF Rests
  <2>2. ClaimWalk(p) /\ work'[p].at \notin Dispatching \cup Boarding \cup Working
    BY Zenon, <2>1 DEF ClaimWalk, Dispatching, Boarding, Working, Opening, Executing, Deciding
  <2>3. Leased'
    <3>1. \A q \in Procs : BoardingWalk(q)
      BY Zenon, <2>1, <2>2, OthersBoard DEF BoardingWalk
    <3> QED  BY Zenon, <3>1, SameLease, LeasedKept
  <2>4. Quit'
    <3>1. QuitWalk(p)
      BY Zenon, <2>1 DEF QuitWalk
    <3>2. \A q \in Procs : QuitWalk(q)
      BY Zenon, <2>1, <3>1 DEF QuitWalk
    <3> QED  BY Zenon, <3>2, SameLease, QuitKept
  <2> QED  BY Zenon, <2>1, <2>2, <2>3, <2>4, SameLease, MoverStep

\* The memory of a process that dies.
<1>Forgotten.
      ASSUME NEW p \in Procs, mem' = [mem EXCEPT ![p] = [r \in Runs |-> NoState]]
      PROVE  /\ MemShape' /\ OthersRecall(p) /\ HoldingKept /\ GoneKept
             /\ \A s \in Runs : mem'[p][s].st \notin Gone
  <2> USE <1>Forgotten
  <2>0. DOMAIN mem = Procs /\ \A q \in Procs : DOMAIN mem[q] = Runs /\ \A s \in Runs : DOMAIN mem[q][s] = DOMAIN NoState
    BY Zenon DEF IInv, Shape, MemShape
  <2>1. DOMAIN mem' = Procs /\ (\A q \in Procs \ {p} : mem'[q] = mem[q]) /\ mem'[p] = [r \in Runs |-> NoState]
    BY Zenon, <2>0
  <2>2. NoState.st = "none"
    BY DEF NoState
  <2>3. DOMAIN mem'[p] = Runs /\ \A s \in Runs : mem'[p][s] = NoState
    BY Zenon, <2>1
  <2>4. OthersRecall(p)
    BY Zenon, <2>1 DEF OthersRecall
  <2>5. ASSUME NEW q \in Procs
        PROVE  DOMAIN mem'[q] = Runs /\ \A s \in Runs : DOMAIN mem'[q][s] = DOMAIN NoState
    <3>1. CASE q = p
      BY Zenon, <2>3, <3>1
    <3>2. CASE q # p
      <4>1. mem'[q] = mem[q]
        BY Zenon, <2>1, <3>2
      <4> QED  BY Zenon, <2>0, <4>1
    <3> QED  BY Zenon, <3>1, <3>2
  <2>6. \A s \in Runs : mem'[p][s].st \notin Holding \cup Gone
    BY Zenon, <2>2, <2>3 DEF Holding, Gone
  <2>7. HoldingKept /\ GoneKept
    BY Zenon, <2>4, <2>6 DEF HoldingKept, GoneKept, OthersRecall
  <2> QED  BY Zenon, <2>1, <2>4, <2>5, <2>6, <2>7 DEF MemShape

<1>CrashStep.
      ASSUME NEW p \in Procs, Crash(p)
      PROVE  IInv'
  <2> USE <1>CrashStep
  <2>1. /\ run' = run /\ lease' = lease /\ auth' = auth /\ gate' = gate /\ log' = log
        /\ wire' = wire /\ site' = site /\ alive' \subseteq alive
        /\ mem' = [mem EXCEPT ![p] = [r \in Runs |-> NoState]]
    BY Zenon DEF Crash
  <2>2. Rests(p)
    BY Zenon, WorkWrites DEF Crash
  <2>3. RunShape' /\ EpochsKept /\ RowsKept /\ \A s \in Runs : SameRow(s)
    BY Zenon, <2>1, SameRows
  <2> QED  BY Zenon, <2>1, <2>2, <2>3, <1>Forgotten, <1>LeavingStep

\* record_cleanup, and a cleanup that failed: the worker is done with the run.
<1>LeavesStep.
      ASSUME NEW p \in Procs, Record(p) \/ CleanupFails(p)
      PROVE  IInv'
  <2> USE <1>LeavesStep
  <2>1. PICK r \in Runs : work[p].run = r /\ run[r].phase # "none"
    BY Zenon, WorksOnRun DEF Record, CleanupFails
  <2>2. /\ lease' = lease /\ auth' = auth /\ gate' = gate /\ log' = log
        /\ wire' = wire /\ site' = site /\ Leaves(p)
    BY Zenon DEF Record, CleanupFails
  <2>3. RunShape' /\ EpochsKept /\ RowsKept /\ \A s \in Runs : SameRow(s)
    <3>1. CASE CleanupFails(p)
      BY Zenon, <2>2, <3>1, SameRows DEF CleanupFails
    <3>2. CASE Record(p)
      <4>1. PICK row, cleanup : Update(r, row) /\ row = [run[r] EXCEPT !.cleanup = cleanup]
        BY Zenon, <2>1, <3>2 DEF Record, RecordCleanup, R
      <4>2. DOMAIN run[r] = DOMAIN NoRun
        BY Zenon DEF IInv, Shape, RunShape
      <4>3. /\ DOMAIN row = DOMAIN NoRun /\ row.phase = run[r].phase /\ row.epoch = run[r].epoch
            /\ row.lease = run[r].lease /\ row.effect = run[r].effect /\ row.verified = run[r].verified
            /\ row.ack = run[r].ack /\ row.cancel = run[r].cancel
        BY <4>1, <4>2 DEF NoRun
      <4> QED  BY Zenon, <2>1, <2>2, <4>1, <4>3, <1>NotedStep
    <3> QED  BY Zenon, <3>1, <3>2
  <2>4. Rests(p)
    BY Zenon, <2>2, WorkWrites DEF Leaves
  <2>5. CASE work[p].stop
    BY Zenon, <2>2, <2>3, <2>4, <2>5, <1>Forgotten, <1>LeavingStep DEF Leaves
  <2>6. CASE ~work[p].stop
    <3>1. mem' = mem /\ alive' = alive
      BY Zenon, <2>2, <2>6 DEF Leaves
    <3>2. MemShape' /\ OthersRecall(p) /\ HoldingKept /\ GoneKept /\ alive' \subseteq alive
      BY Zenon, <3>1 DEF IInv, Shape, MemShape, OthersRecall, HoldingKept, GoneKept
    <3> QED  BY Zenon, <2>2, <2>3, <2>4, <2>6, <3>2, <1>LeavingStep
  <2> QED  BY Zenon, <2>5, <2>6

\* cleanup_ready: the run is over for everyone.
<1>CleanupPassStep.
      ASSUME NEW p \in Procs, NEW r \in Runs, CleanupPass(p, r)
      PROVE  IInv'
  <2> USE <1>CleanupPassStep
  <2>1. /\ run' = run /\ lease' = lease /\ auth' = auth /\ gate' = gate /\ log' = log /\ mem' = mem
        /\ wire' = wire /\ site' = site /\ alive' = alive /\ work[p] = Idle /\ CleanupReady(r)
    BY Zenon DEF CleanupPass
  <2>2. DOMAIN work = Procs /\ \A q \in Procs : DOMAIN work[q] = DOMAIN Idle
    BY Zenon DEF IInv, Shape, WorkShape
  <2>3. /\ DOMAIN work' = Procs /\ (\A q \in Procs \ {p} : work'[q] = work[q])
        /\ DOMAIN work'[p] = DOMAIN Idle /\ work'[p].at = "cleanup" /\ work'[p].run = r
    BY <2>2 DEF CleanupPass, Idle
  <2>4. WorkShape'
    BY Zenon, <2>2, <2>3 DEF WorkShape
  <2>5. run[r].phase # "none" /\ OverNow(r)
    BY Zenon, <2>1 DEF CleanupReady, OverNow, Terminal, Active, ActivePhases
  <2>6. ClaimWalk(p) /\ work'[p].at \notin Dispatching \cup Boarding \cup Working
    BY Zenon, <2>3, <2>5 DEF ClaimWalk, Dispatching, Boarding, Working, Opening, Executing, Deciding
  <2>7. MemShape' /\ HoldingKept /\ GoneKept
    BY Zenon, <2>1 DEF IInv, Shape, MemShape, HoldingKept, GoneKept
  <2>8. RunShape' /\ EpochsKept /\ RowsKept /\ \A s \in Runs : SameRow(s)
    BY Zenon, <2>1, SameRows
  <2>9. Leased'
    <3>1. \A q \in Procs : BoardingWalk(q)
      BY Zenon, <2>1, <2>3, <2>6 DEF BoardingWalk
    <3> QED  BY Zenon, <2>1, <2>7, <3>1, SameLease, LeasedKept
  <2>10. Quit'
    <3>1. Idle.at = "idle"
      BY DEF Idle
    <3>2. QuitWalk(p)
      BY Zenon, <2>1, <2>3, <2>5, <3>1 DEF QuitWalk
    <3>3. \A q \in Procs : QuitWalk(q)
      BY Zenon, <2>3, <3>2 DEF QuitWalk
    <3> QED  BY Zenon, <2>1, <2>7, <2>8, <3>3, SameLease, QuitKept
  <2> QED  BY Zenon, <2>1, <2>3, <2>4, <2>6, <2>7, <2>8, <2>9, <2>10, SameLease, MoverStep

\* The worker's task is cancelled where it awaits.
<1>InterruptStep.
      ASSUME NEW p \in Procs, Interrupt(p)
      PROVE  IInv'
  <2> USE <1>InterruptStep
  <2>1. PICK r \in Runs : work[p].run = r
    BY Zenon, WorksOnRun DEF Interrupt, Opening, Executing, Deciding
  <2>2. /\ run' = run /\ lease' = lease /\ auth' = auth /\ gate' = gate /\ log' = log
        /\ wire' = wire /\ site' = site /\ alive' = alive /\ work[p].at \in Working
    BY Zenon DEF Interrupt, Working
  <2>3. MovesTo(p, r, "interrupted")
    BY Zenon, <2>1, WorkWrites DEF Interrupt
  <2>4. MemShape' /\ OthersRecall(p) /\ HoldingKept /\ GoneKept
    <3>1. CASE mem' = mem
      BY Zenon, <3>1 DEF IInv, Shape, MemShape, OthersRecall, HoldingKept, GoneKept
    <3>2. CASE OpenedWithout(p)
      <4>1. PICK state : state = [NoState EXCEPT !.st = "open"]
        BY Zenon
      <4>2. Recalls(p, r, state)
        BY Zenon, <2>1, <3>2, <4>1, MemoryWrites
      <4>3. state.st = "open"
        BY <4>1 DEF NoState
      <4>4. state.st \notin Holding \cup Gone
        BY Zenon, <4>3 DEF Holding, Gone
      <4> QED  BY Zenon, <4>2, <4>4, RecallsUnheld DEF Recalls, OthersRecall
    <3> QED  BY Zenon, <3>1, <3>2 DEF Interrupt
  <2>5. WorkShape' /\ (\A q \in Procs \ {p} : work'[q] = work[q]) /\ work'[p].at = "interrupted"
    BY Zenon, <2>3 DEF MovesTo
  <2>6. ClaimWalk(p) /\ work'[p].at \notin Dispatching \cup Boarding
    BY Zenon, <2>1, <2>2, <2>3 DEF ClaimWalk, MovesTo, Dispatching, Boarding
  <2>7. RunShape' /\ EpochsKept /\ RowsKept /\ \A s \in Runs : SameRow(s)
    BY Zenon, <2>2, SameRows
  <2>8. ProgressOf(p)'
    BY Zenon, <2>5 DEF ProgressOf, Known, Opening, Executing
  <2>9. Leased'
    <3>1. \A q \in Procs : BoardingWalk(q)
      BY Zenon, <2>4, <2>5, <2>6, OthersBoard DEF BoardingWalk
    <3> QED  BY Zenon, <2>2, <2>4, <3>1, SameLease, LeasedKept
  <2>10. Quit'
    <3>1. QuitWalk(p)
      BY Zenon, <2>2, <2>5 DEF QuitWalk, Working, Opening, Executing, Deciding
    <3>2. \A q \in Procs : QuitWalk(q)
      BY Zenon, <2>5, <3>1 DEF QuitWalk
    <3> QED  BY Zenon, <2>2, <2>4, <2>7, <3>2, SameLease, QuitKept
  <2> QED  BY Zenon, <2>2, <2>4, <2>5, <2>6, <2>7, <2>8, <2>9, <2>10, SameLease, MoverStep

<1>StutterHolds.
      ASSUME UNCHANGED vars
      PROVE  IInv'
  <2> USE <1>StutterHolds
  <2>1. /\ run' = run /\ auth' = auth /\ lease' = lease /\ log' = log /\ gate' = gate
        /\ wire' = wire /\ site' = site /\ work' = work /\ mem' = mem /\ alive' = alive
    BY Zenon DEF vars
  <2>2. GateShape' /\ DOMAIN auth' = Runs
    BY Zenon, <2>1 DEF IInv, Shape, GateShape, LeaseShape
  <2>3. RunShape' /\ EpochsKept /\ RowsKept /\ \A s \in Runs : SameRow(s)
    BY Zenon, <2>1, SameRows
  <2> QED  BY Zenon, <2>1, <2>2, <2>3, SameLease, <1>OutsideStep

<1> QED  BY Zenon, <1>AcceptStep, <1>CancelStep, <1>AuthorityLostStep, <1>LeaseLapsesStep,
     <1>GateSteps, <1>ExitUnrecordedStep, <1>CrashStep, <1>LeavesStep, <1>CleanupPassStep,
     <1>InterruptStep, <1>StutterHolds DEF Passes

\* One step per action of a worker.
LEMMA MovesHold ==
    ASSUME IInv, NEW p \in Procs, Moves(p)
    PROVE  IInv'
BY Zenon, SettlingSteps, ExecutingSteps, OpeningSteps, OutsideSteps, ClaimingSteps, CleaningSteps DEF Moves

\* One step per disjunct of Next.
LEMMA NextHolds ==
    ASSUME IInv, [Next]_vars
    PROVE  IInv'
<1>1. ASSUME NEW r \in Runs,
             Accept(r) \/ RecordWritePreparation(r) \/ Decide(r) \/ GateExpires(r) \/ Cancel(r)
      PROVE  IInv'
  BY Zenon, <1>1, OutsideSteps
<1>2. ASSUME NEW p \in Procs, Takes(p)
      PROVE  IInv'
  BY Zenon, <1>2, ClaimingSteps, OutsideSteps DEF Takes
<1>3. ASSUME NEW p \in Procs, Moves(p) \/ ExitUnrecorded(p) \/ Interrupt(p) \/ Crash(p)
      PROVE  IInv'
  BY Zenon, <1>3, MovesHold, OutsideSteps
<1>4. ASSUME NEW r \in Runs, NEW s \in WriteSteps, Land(r, s)
      PROVE  IInv'
  BY Zenon, <1>4, ExecutingSteps
<1>5. CASE Passes \/ UNCHANGED vars
  BY Zenon, <1>5, OutsideSteps
<1> QED  BY Zenon, <1>1, <1>2, <1>3, <1>4, <1>5 DEF Next

\* The inductive invariant of browser runs.
THEOREM RunsInvariant == Spec => []IInv
<1>1. Init => IInv
  BY InitHolds
<1>2. IInv /\ [Next]_vars => IInv'
  BY NextHolds
<1> QED  BY <1>1, <1>2, PTL DEF Spec

\* A write of a run reaches the site at most once, and only if the owner
\* confirmed it: its one barrier is what assert_write_reservation sets.
THEOREM WritesOnce == Spec => []WriteOnce
<1>1. IInv => WriteOnce
  <2> SUFFICES ASSUME IInv, NEW r \in Runs, NEW s \in WriteSteps
               PROVE  site[r][s] <= 1 /\ (site[r][s] = 1 => gate[r].decision = "confirmed")
    BY Zenon DEF WriteOnce
  <2>1. site[r][s] \in {0, 1} /\ (site[r][s] = 1 => Barrier(r, s))
    BY Zenon DEF IInv, Dispatched
  <2>2. Barrier(r, s) => gate[r].decision = "confirmed"
    BY Zenon DEF IInv, Dispatched, Barrier
  <2>3. site[r][s] <= 1
    BY <2>1
  <2> QED  BY Zenon, <2>1, <2>2, <2>3
<1> QED  BY <1>1, RunsInvariant, PTL

\* The effect a terminal run tells, when it is known, is what happened at the
\* site, and stays so: what advance and finalize wrote is never overtaken.
THEOREM EffectsAreTrue == Spec => []EffectTrue
<1>1. IInv => EffectTrue
  <2> SUFFICES ASSUME IInv, NEW r \in Runs, run[r].phase \in Terminal, run[r].effect # "unknown"
               PROVE  /\ \A s \in WriteSteps : (site[r][s] = 1) = (s <= log[r].audited)
                      /\ run[r].effect = "not_sent" => log[r].audited = 0
                      /\ run[r].phase = "completed" => log[r].audited = NSteps
    BY Zenon DEF EffectTrue
  <2>1. RowTrue(r)
    BY Zenon DEF IInv, Truth
  <2>2. Resolved(r, {}) /\ log[r].audited \in Nat /\ \A s \in WriteSteps : s <= log[r].audited => site[r][s] = 1
    BY Zenon, <2>1 DEF RowTrue
  <2>3. ASSUME NEW s \in WriteSteps
        PROVE  (site[r][s] = 1) = (s <= log[r].audited)
    <3>1. log[r].audited < s => site[r][s] = 0
      BY Zenon, <2>2 DEF Resolved
    <3> QED  BY <2>2, <3>1, RunsAssumption
  <2>4. /\ run[r].effect = "not_sent" => log[r].audited = 0
        /\ run[r].phase = "completed" => log[r].audited = NSteps
    BY Zenon, <2>1 DEF RowTrue
  <2> QED  BY Zenon, <2>3, <2>4
<1> QED  BY <1>1, RunsInvariant, PTL

\* A browser that still runs keeps the binding: cleanup gives the lease back
\* only by the proof of its exit, or when none was started.
THEOREM RunningKeepsBinding == Spec => []ReleasedIsGone
<1>1. IInv => ReleasedIsGone
  BY Zenon DEF IInv, Leased, Occupied, ReleasedIsGone
<1> QED  BY <1>1, RunsInvariant, PTL

\* A cancellation is acknowledged only once the run has no browser and no lease,
\* and it gets none afterwards.
THEOREM CancelledStaysStopped == Spec => []CancelledIsStopped
<1>1. IInv => CancelledIsStopped
  <2> SUFFICES ASSUME IInv, NEW r \in Runs, run[r].ack
               PROVE  run[r].lease \notin alive /\ ~LeaseOf(r, lease.epoch)
    BY Zenon DEF CancelledIsStopped
  <2>1. lease.run # r /\ (run[r].lease = lease.epoch /\ lease.state # "released" => lease.run = r)
    BY Zenon DEF IInv, Quit
  <2>2. run[r].lease \in alive => run[r].lease = lease.epoch /\ lease.state # "released"
    BY Zenon DEF IInv, Leased, Occupied
  <2> QED  BY Zenon, <2>1, <2>2 DEF LeaseOf
<1> QED  BY <1>1, RunsInvariant, PTL
=============================================================================
