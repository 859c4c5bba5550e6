-------------------------- MODULE IMDeliveryProofs --------------------------
(***************************************************************************)
(* Proofs about IMDelivery, for any number of deliveries, workers and      *)
(* overlapping reconciliations.                                            *)
(***************************************************************************)
EXTENDS IMDelivery, TLAPS

-----------------------------------------------------------------------------
(* The inductive invariant, in parts.                                      *)

\* A task that holds an attempt.
Holds(e) == e.phase \in {"claimed", "posted", "answered"}

\* An attempt is issued once, when the delivery leaves ready for good, and
\* nothing reaches the provider without one.
OneAttempt ==
    \A d \in Deliveries :
        /\ attempt[d] = IF state[d] \in {"sending"} \cup Results THEN 1 ELSE 0
        /\ posts[d] = IF wire[d] = "none" THEN 0 ELSE 1
        /\ attempt[d] = 0 => wire[d] = "none"

\* A task that holds the attempt has not posted before it says so, and knows no
\* more than the provider does.
Sound(e) ==
    /\ e.phase # "idle" => e.delivery \in Deliveries
    /\ Holds(e) => state[e.delivery] \in {"sending", "unknown", "accepted"} /\ e.attempt = 1
    /\ e.phase = "claimed" => wire[e.delivery] = "none"
    /\ e.phase = "posted" => wire[e.delivery] # "none"
    /\ e.phase = "answered" =>
         /\ e.result \in Results
         /\ e.result = "accepted" => wire[e.delivery] = "landed"
         /\ e.result = "known_rejected" => wire[e.delivery] \in {"none", "refused"}

\* Only one task holds the attempt of a delivery.
Holders ==
    /\ \A t \in Tasks : Sound(task[t])
    /\ \A t, u \in Tasks :
          Holds(task[t]) /\ Holds(task[u]) /\ task[t].delivery = task[u].delivery => t = u

\* A reconciliation belongs to the attempt and reports a message only after
\* the provider stored it.
Lookups ==
    \A c \in Checkers :
        /\ checker[c].delivery = None => checker[c].result = None
        /\ checker[c].delivery # None =>
             /\ attempt[checker[c].delivery] = 1 /\ checker[c].attempt = 1
             /\ checker[c].result # "known_rejected"
             /\ checker[c].result = "accepted" => wire[checker[c].delivery] = "landed"

IInv ==
    /\ TypeOK
    /\ OneAttempt
    /\ Holders
    /\ Lookups
    /\ TruthfulOutcome

-----------------------------------------------------------------------------
(* The kinds of step.                                                      *)

\* The tables start empty.
LEMMA InitIInv == Init => IInv
  <1> SUFFICES ASSUME Init PROVE IInv
    OBVIOUS
  <1> USE NoneAssumption DEF Init
  <1>1. TypeOK
    BY DEF TypeOK, DeliveryState, Task, Checker, NoTask, NoChecker
  <1>2. OneAttempt /\ TruthfulOutcome
    BY DEF OneAttempt, TruthfulOutcome, Results
  <1>3. Holders
    BY DEF Holders, Sound, Holds, NoTask
  <1>4. Lookups
    BY DEF Lookups, NoChecker
  <1>5. QED
    BY <1>1, <1>2, <1>3, <1>4 DEF IInv

\* A step outside the attempt: receipts, deadlines, bindings, queue rows.
LEMMA OutsideStep ==
  ASSUME IInv, UNCHANGED <<state, attempt, task, checker, wire, posts>>, TypeOK'
  PROVE  IInv'
  BY DEF IInv, OneAttempt, Holders, Sound, Holds, Lookups, TruthfulOutcome

\* A step of one task that takes no attempt and leaves the tables alone.
LEMMA TaskStep ==
  ASSUME IInv, NEW t \in Tasks, NEW e \in Task, task' = [task EXCEPT ![t] = e],
         UNCHANGED <<state, attempt, receipts, expired, mapped, checker, wire, posts>>,
         row' \in [Deliveries -> {None, "todo", "doing", "done"}],
         Sound(e), Holds(e) => Holds(task[t]) /\ e.delivery = task[t].delivery
  PROVE  IInv'
  <1>1. TypeOK' /\ task'[t] = e /\ \A u \in Tasks \ {t} : task'[u] = task[u]
    BY DEF IInv, TypeOK
  <1>2. OneAttempt' /\ Lookups' /\ TruthfulOutcome'
    BY DEF IInv, OneAttempt, Lookups, TruthfulOutcome
  <1>3. \A f : Sound(f)' <=> Sound(f)
    BY DEF Sound, Holds
  <1>4. Holders'
    BY <1>1, <1>3 DEF IInv, Holders
  <1>5. QED
    BY <1>1, <1>2, <1>4 DEF IInv

\* A delivery without an attempt moves on without one.
LEMMA UnattemptedStep ==
  ASSUME IInv, NEW d \in Deliveries, state[d] \notin {"sending"} \cup Results,
         NEW s \in DeliveryState \ ({"sending"} \cup Results),
         state' = [state EXCEPT ![d] = s],
         UNCHANGED <<attempt, task, checker, wire, posts>>, TypeOK'
  PROVE  IInv'
  <1>1. state'[d] = s /\ \A x \in Deliveries \ {d} : state'[x] = state[x]
    BY DEF IInv, TypeOK
  <1>2. OneAttempt' /\ Lookups' /\ TruthfulOutcome'
    BY <1>1 DEF IInv, OneAttempt, Lookups, TruthfulOutcome, Results
  <1>3. \A t \in Tasks : Sound(task[t])'
    BY <1>1 DEF IInv, Holders, Sound, Holds, Results
  <1>4. Holders'
    BY <1>3 DEF IInv, Holders, Holds
  <1>5. QED
    BY <1>2, <1>4 DEF IInv

\* A result is written, or nothing, for an attempt.
LEMMA ResultStep ==
  ASSUME IInv, NEW d \in Deliveries, NEW r \in Results, Finishes(d, 1, r),
         r = "accepted" => wire[d] = "landed",
         r = "known_rejected" =>
            /\ wire[d] \in {"none", "refused"}
            /\ \A t \in Tasks : Holds(task'[t]) => task'[t].delivery # d,
         \A t \in Tasks : Sound(task'[t]) /\ (Holds(task'[t]) => task'[t] = task[t]),
         \A c \in Checkers : checker'[c] \in {checker[c], NoChecker},
         UNCHANGED <<wire, posts>>, TypeOK'
  PROVE  IInv'
  <1>1. /\ state'[d] = IF attempt[d] = 1 /\ state[d] \in {"sending", "unknown"}
                       THEN r ELSE state[d]
        /\ \A x \in Deliveries \ {d} : state'[x] = state[x]
        /\ attempt' = attempt
    BY DEF IInv, TypeOK, Finishes
  <1>2. OneAttempt' /\ TruthfulOutcome'
    BY <1>1 DEF IInv, OneAttempt, TruthfulOutcome, Results
  <1>3. Lookups'
    BY <1>1 DEF IInv, Lookups, NoChecker
  <1>4. \A t \in Tasks : Sound(task[t])'
    BY <1>1 DEF Sound, Holds, Results
  <1>5. Holders'
    BY <1>4 DEF IInv, Holders
  <1>6. QED
    BY <1>2, <1>3, <1>5 DEF IInv

-----------------------------------------------------------------------------
(* The store's transactions before an attempt.                             *)

\* The INSERT of a delivery: it has no attempt yet.
LEMMA PrepareStep ==
  ASSUME IInv, NEW d \in Deliveries, Prepare(d)
  PROVE  IInv'
  <1>1. TypeOK'
    BY DEF IInv, TypeOK, Prepare, DeliveryState, provider
  <1>2. QED
    BY <1>1, UnattemptedStep, Zenon DEF Prepare, DeliveryState, Results, provider

\* A preview is confirmed or expires, still without an attempt.
LEMMA ConfirmStep ==
  ASSUME IInv, NEW d \in Deliveries, Confirm(d)
  PROVE  IInv'
  <1>1. TypeOK'
    BY Zenon DEF IInv, TypeOK, Confirm, DeliveryState, provider, world
  <1>2. PICK s \in {"expired", "ready"} : state' = [state EXCEPT ![d] = s]
    BY DEF Confirm
  <1>3. QED
    BY <1>1, <1>2, UnattemptedStep, Zenon DEF Confirm, DeliveryState, Results, provider

\* Only a delivery without an attempt can be cancelled.
LEMMA CancelStep ==
  ASSUME IInv, NEW d \in Deliveries, Cancel(d)
  PROVE  IInv'
  <1>1. TypeOK'
    BY DEF IInv, TypeOK, Cancel, DeliveryState, provider, world
  <1>2. QED
    BY <1>1, UnattemptedStep, Zenon DEF Cancel, Cancellable, DeliveryState, Results, provider

\* A receipt leaves the attempt alone.
LEMMA VerifyStep ==
  ASSUME IInv, NEW d \in Deliveries, NEW k \in Keys,
         NEW r \in {"verified", "needs_changes"}, Verify(d, k, r)
  PROVE  IInv'
  <1>1. TypeOK'
    BY DEF IInv, TypeOK, Verify, provider, world
  <1>2. QED
    BY <1>1, OutsideStep DEF Verify, provider

\* Deadlines and bindings leave the attempt alone.
LEMMA WorldStep ==
  ASSUME IInv, NEW d \in Deliveries, Expires(d) \/ MappingChanges(d)
  PROVE  IInv'
  <1>1. TypeOK'
    BY Zenon DEF IInv, TypeOK, Expires, MappingChanges, provider
  <1>2. QED
    BY <1>1, OutsideStep DEF Expires, MappingChanges, provider

-----------------------------------------------------------------------------
(* The send task.                                                          *)

\* What is known of a task that is not idle.
LEMMA Busy ==
  ASSUME IInv, NEW t \in Tasks, task[t].phase # "idle"
  PROVE  /\ task[t] \in Task /\ Sound(task[t]) /\ task[t].delivery \in Deliveries
         /\ row \in [Deliveries -> {None, "todo", "doing", "done"}]
  BY DEF IInv, TypeOK, Holders, Sound

\* A task without an attempt, or without a claim to it any more.
LEMMA Released ==
  ASSUME IInv, NEW t \in Tasks, task[t].phase # "idle"
  PROVE  LET e == [task[t] EXCEPT !.phase = "exiting"] IN
         e \in Task /\ Sound(e) /\ ~Holds(e)
  BY Busy DEF Task, Sound, Holds

\* A task that only holds a queue row holds no attempt.
LEMMA FetchStep ==
  ASSUME IInv, NEW t \in Tasks, NEW d \in Deliveries, Fetch(t, d)
  PROVE  IInv'
  <1> DEFINE e == [NoTask EXCEPT !.phase = "fetched", !.delivery = d, !.current = TRUE]
  <1>1. e \in Task /\ Sound(e) /\ ~Holds(e)
    BY Zenon DEF NoTask, Task, Sound, Holds
  <1>2. row' \in [Deliveries -> {None, "todo", "doing", "done"}]
    BY DEF IInv, TypeOK, Fetch
  <1>3. task' = [task EXCEPT ![t] = e]
    BY DEF Fetch
  <1> HIDE DEF e
  <1>4. QED
    BY <1>1, <1>2, <1>3, TaskStep, Zenon DEF Fetch, world, provider

\* What a claim may commit for a delivery: nothing, that a ready one is withdrawn,
\* or the attempt.
Takes(d) ==
    \/ UNCHANGED <<state, attempt>>
    \/ /\ state[d] = "ready" /\ attempt' = attempt
       /\ \E s \in {"expired", "cancelled"} : state' = [state EXCEPT ![d] = s]
    \/ /\ state[d] = "ready" /\ state' = [state EXCEPT ![d] = "sending"]
       /\ attempt' = [attempt EXCEPT ![d] = @ + 1]

\* A claim gives the attempt to this task, or the delivery moves on without one,
\* whether or not the task learns of it.
LEMMA TakesStep ==
  ASSUME IInv, NEW t \in Tasks, NEW returned \in BOOLEAN, task[t].phase = "fetched",
         Takes(task[t].delivery), AfterClaim(t, returned),
         UNCHANGED <<row, receipts, expired, mapped, checker, wire, posts>>
  PROVE  IInv'
  <1> DEFINE d == task[t].delivery
  <1>1. /\ task[t] \in Task /\ Sound(task[t]) /\ d \in Deliveries
        /\ task[t].phase = "fetched"
    BY Busy
  <1>2. AfterClaim(t, returned)
    OBVIOUS
  <1>3. UNCHANGED <<row, receipts, expired, mapped, checker, wire, posts>>
    OBVIOUS
  <1>4. PICK e : /\ task' = [task EXCEPT ![t] = e]
                 /\ e = IF returned /\ attempt'[d] # attempt[d]
                        THEN [task[t] EXCEPT !.phase = "claimed", !.attempt = attempt'[d]]
                        ELSE [task[t] EXCEPT !.phase = "exiting"]
    BY <1>2, Zenon DEF AfterClaim
  <1>5. CASE attempt' = attempt
    <2>1. e = [task[t] EXCEPT !.phase = "exiting"]
      BY <1>4, <1>5
    <2>2. e \in Task /\ Sound(e) /\ ~Holds(e)
      BY <2>1, <1>1, Released
    <2>3. CASE state' = state
      BY <2>2, <2>3, <1>3, <1>4, <1>5, TaskStep, Zenon DEF IInv, TypeOK
    <2>4. CASE \E s \in {"expired", "cancelled"} :
                  state[d] = "ready" /\ state' = [state EXCEPT ![d] = s]
      <3>1. PICK s \in {"expired", "cancelled"} :
                  state[d] = "ready" /\ state' = [state EXCEPT ![d] = s]
        BY <2>4, Zenon
      <3>2. /\ state'[d] = s /\ \A x \in Deliveries \ {d} : state'[x] = state[x]
            /\ task'[t] = e /\ \A u \in Tasks \ {t} : task'[u] = task[u]
        BY <3>1, <1>1, <1>4 DEF IInv, TypeOK
      <3>3. TypeOK'
        BY <3>1, <2>2, <1>1, <1>3, <1>4, <1>5 DEF IInv, TypeOK, DeliveryState
      <3>4. OneAttempt' /\ Lookups' /\ TruthfulOutcome'
        BY <3>1, <3>2, <1>1, <1>3, <1>5
           DEF IInv, OneAttempt, Lookups, TruthfulOutcome, Results
      <3>5. \A u \in Tasks : Sound(task[u])'
        BY <3>1, <3>2, <2>2, <1>1, <1>3 DEF IInv, Holders, Sound, Holds
      <3>6. Holders'
        BY <3>5, <3>2, <2>2 DEF IInv, Holders
      <3>7. QED
        BY <3>3, <3>4, <3>6 DEF IInv
    <2>5. QED
      <3>1. \A n \in Nat : n # n + 1
        OBVIOUS
      <3>2. attempt[d] \in Nat
        BY <1>1 DEF IInv, TypeOK
      <3>3. attempt' # [attempt EXCEPT ![d] = @ + 1]
        BY <3>1, <3>2, <1>1, <1>5 DEF IInv, TypeOK
      <3>4. QED
        BY <2>3, <2>4, <3>3, Zenon DEF Takes
  <1>6. CASE /\ state[d] = "ready" /\ state' = [state EXCEPT ![d] = "sending"]
             /\ attempt' = [attempt EXCEPT ![d] = @ + 1]
    <2>1. /\ state'[d] = "sending" /\ \A x \in Deliveries \ {d} : state'[x] = state[x]
          /\ attempt[d] = 0 /\ attempt'[d] = 1 /\ wire[d] = "none"
          /\ \A x \in Deliveries \ {d} : attempt'[x] = attempt[x]
          /\ task'[t] = e /\ \A u \in Tasks \ {t} : task'[u] = task[u]
      <3>1. /\ state \in [Deliveries -> DeliveryState] /\ attempt \in [Deliveries -> Nat]
            /\ DOMAIN task = Tasks
        BY Zenon DEF IInv, TypeOK
      <3>2. attempt[d] = 0 /\ wire[d] = "none"
        BY <1>1, <1>6 DEF IInv, OneAttempt, Results
      <3>3. /\ attempt'[d] = 1 /\ \A x \in Deliveries \ {d} : attempt'[x] = attempt[x]
        BY <3>1, <3>2, <1>1, <1>6
      <3>4. /\ state'[d] = "sending" /\ \A x \in Deliveries \ {d} : state'[x] = state[x]
        BY <3>1, <1>1, <1>6, Zenon
      <3>5. task'[t] = e /\ \A u \in Tasks \ {t} : task'[u] = task[u]
        BY <3>1, <1>4, Zenon
      <3>6. QED
        BY <3>2, <3>3, <3>4, <3>5, Zenon
    <2>2. /\ e \in Task /\ e.delivery = d
          /\ \/ e.phase = "claimed" /\ e.attempt = 1
             \/ e.phase = "exiting"
      <3>1. CASE returned
        <4>1. e = [task[t] EXCEPT !.phase = "claimed", !.attempt = 1]
          BY <3>1, <2>1, <1>4
        <4>2. QED
          BY <4>1, <1>1, Zenon DEF Task
      <3>2. CASE ~returned
        BY <3>2, <1>1, <1>4 DEF Task
      <3>3. QED
        BY <3>1, <3>2
    <2>3. \A u \in Tasks : Holds(task[u]) => task[u].delivery # d
      BY <1>1, <1>6 DEF IInv, Holders, Sound
    <2>4. TypeOK'
      BY <2>2, <1>1, <1>3, <1>4, <1>6 DEF IInv, TypeOK, DeliveryState
    <2>5. OneAttempt' /\ TruthfulOutcome'
      BY <2>1, <1>1, <1>3 DEF IInv, OneAttempt, TruthfulOutcome, Results
    <2>6. Lookups'
      <3>1. \A c \in Checkers : checker[c].delivery \in Deliveries \cup {None}
        BY DEF IInv, TypeOK, Checker
      <3>2. QED
        BY <3>1, <2>1, <1>3 DEF IInv, Lookups
    <2>7. \A u \in Tasks : Sound(task[u])'
      BY <2>1, <2>2, <2>3, <1>1, <1>3 DEF IInv, Holders, Sound, Holds
    <2>8. Holders'
      BY <2>7, <2>1, <2>2, <2>3 DEF IInv, Holders, Holds
    <2>9. QED
      BY <2>4, <2>5, <2>6, <2>8 DEF IInv
  <1>7. QED
    BY <1>5, <1>6 DEF Takes

\* The claim of a confirmed delivery.
LEMMA ClaimStep ==
  ASSUME IInv, NEW t \in Tasks, Claim(t)
  PROVE  IInv'
  <1>1. PICK returned \in BOOLEAN : Claims(task[t].delivery) /\ AfterClaim(t, returned)
    BY DEF Claim
  <1>2. Takes(task[t].delivery)
    BY <1>1, Zenon DEF Claims, Claimable, Takes
  <1>3. QED
    BY <1>1, <1>2, TakesStep, Zenon DEF Claim, world, provider

\* A task that gives up leaves its attempt to reconciliation.
LEMMA ReleaseStep ==
  ASSUME IInv, NEW t \in Tasks, ClaimRollback(t) \/ Interrupted(t)
  PROVE  IInv'
  <1> DEFINE e == [task[t] EXCEPT !.phase = "exiting"]
  <1>1. task[t].phase # "idle" /\ task' = [task EXCEPT ![t] = e]
    BY DEF ClaimRollback, Interrupted
  <1>2. e \in Task /\ Sound(e) /\ ~Holds(e)
    BY <1>1, Released
  <1> HIDE DEF e
  <1>3. QED
    BY <1>1, <1>2, Busy, TaskStep, Zenon DEF ClaimRollback, Interrupted, world, provider

\* The adapter's answers: before a request, or for the one it made.
LEMMA AnswerStep ==
  ASSUME IInv, NEW t \in Tasks, Preflight(t) \/ Response(t)
  PROVE  IInv'
  <1>1. /\ task[t] \in Task /\ Sound(task[t]) /\ task[t].delivery \in Deliveries
        /\ task[t].phase \in {"claimed", "posted"}
    BY Busy, Zenon DEF Preflight, Response
  <1>2. PICK r \in Results :
           /\ task' = [task EXCEPT ![t] = [task[t] EXCEPT !.phase = "answered", !.result = r]]
           /\ r = "accepted" => wire[task[t].delivery] = "landed"
           /\ r = "known_rejected" => wire[task[t].delivery] \in {"none", "refused"}
    <2>1. CASE Preflight(t)
      BY <2>1, <1>1 DEF Preflight, Results, Sound
    <2>2. CASE Response(t)
      BY <2>2, <1>1, Zenon DEF Response, ResultOf, Results
    <2>3. QED
      BY <2>1, <2>2, Zenon
  <1> DEFINE e == [task[t] EXCEPT !.phase = "answered", !.result = r]
  <1>3. /\ e \in Task /\ e.phase = "answered" /\ e.result = r
        /\ e.delivery = task[t].delivery /\ e.attempt = task[t].attempt
    BY <1>1, Zenon DEF Task
  <1>4. task' = [task EXCEPT ![t] = e]
    BY <1>2
  <1> HIDE DEF e
  <1>5. Sound(e) /\ Holds(e) /\ Holds(task[t])
    BY <1>1, <1>2, <1>3 DEF Sound, Holds
  <1>6. QED
    BY <1>1, <1>3, <1>4, <1>5, Busy, TaskStep, Zenon DEF Preflight, Response, world, provider

\* The POST: this task alone holds the attempt, so nothing was posted before.
LEMMA PostStep ==
  ASSUME IInv, NEW t \in Tasks, Post(t)
  PROVE  IInv'
  <1> DEFINE d == task[t].delivery
             e == [task[t] EXCEPT !.phase = "posted"]
  <1>1. /\ task[t] \in Task /\ Sound(task[t]) /\ d \in Deliveries
        /\ task[t].phase = "claimed"
    BY Busy DEF Post
  <1>2. /\ e \in Task /\ e.phase = "posted" /\ e.delivery = d /\ e.attempt = task[t].attempt
    BY <1>1 DEF Task
  <1>3. /\ task' = [task EXCEPT ![t] = e]
        /\ posts' = [posts EXCEPT ![d] = posts[d] + 1]
        /\ wire' = [wire EXCEPT ![d] = "flying"]
        /\ UNCHANGED <<state, row, attempt, receipts, expired, mapped, checker>>
    BY DEF Post, world
  <1> HIDE DEF e
  <1>4. /\ wire[d] = "none" /\ state[d] \in {"sending", "unknown"} /\ task[t].attempt = 1
        /\ posts[d] = 0 /\ attempt[d] = 1
    BY <1>1 DEF Sound, Holds, IInv, TruthfulOutcome, OneAttempt, Results
  <1>5. /\ wire'[d] = "flying" /\ \A x \in Deliveries \ {d} : wire'[x] = wire[x]
        /\ posts'[d] = 1 /\ \A x \in Deliveries \ {d} : posts'[x] = posts[x]
        /\ task'[t] = e /\ \A u \in Tasks \ {t} : task'[u] = task[u]
    BY <1>1, <1>3, <1>4 DEF IInv, TypeOK
  <1>6. TypeOK'
    BY <1>1, <1>2, <1>3, <1>4 DEF IInv, TypeOK
  <1>7. OneAttempt' /\ TruthfulOutcome'
    BY <1>3, <1>4, <1>5 DEF IInv, OneAttempt, TruthfulOutcome
  <1>8. Lookups'
    <2>1. \A c \in Checkers : checker[c].delivery \in Deliveries \cup {None}
      BY DEF IInv, TypeOK, Checker
    <2>2. QED
      BY <2>1, <1>3, <1>4, <1>5 DEF IInv, Lookups
  <1>9. \A u \in Tasks : Sound(task[u])'
    <2>1. \A u \in Tasks \ {t} : Holds(task[u]) => task[u].delivery # d
      BY <1>1 DEF IInv, Holders, Holds
    <2>2. QED
      BY SMTT(40), <2>1, <1>1, <1>2, <1>3, <1>4, <1>5 DEF IInv, Holders, Sound, Holds
  <1>10. Holders'
    BY SMTT(40), <1>9, <1>1, <1>2, <1>5 DEF IInv, Holders, Holds
  <1>11. QED
    BY <1>6, <1>7, <1>8, <1>10 DEF IInv

\* The result of the attempt's own task.
LEMMA FinishStep ==
  ASSUME IInv, NEW t \in Tasks, Finish(t)
  PROVE  IInv'
  <1> DEFINE d == task[t].delivery
             e == [task[t] EXCEPT !.phase = "exiting"]
  <1>1. /\ task[t] \in Task /\ Sound(task[t]) /\ d \in Deliveries
        /\ task[t].phase = "answered"
    BY Busy DEF Finish
  <1>2. /\ task[t].attempt = 1 /\ task[t].result \in Results
        /\ task[t].result = "accepted" => wire[d] = "landed"
        /\ task[t].result = "known_rejected" => wire[d] \in {"none", "refused"}
    BY <1>1 DEF Sound, Holds
  <1>3. e \in Task /\ Sound(e) /\ ~Holds(e)
    BY <1>1, Released
  <1>4. /\ task' = [task EXCEPT ![t] = e] /\ Finishes(d, 1, task[t].result)
        /\ UNCHANGED <<row, expired, mapped, checker, wire, posts>>
    BY <1>2 DEF Finish, world, provider
  <1> HIDE DEF e
  <1>5. task'[t] = e /\ \A u \in Tasks \ {t} : task'[u] = task[u]
    BY <1>4 DEF IInv, TypeOK
  <1>6. TypeOK'
    BY <1>1, <1>2, <1>3, <1>4 DEF IInv, TypeOK, Finishes, DeliveryState
  <1>7. \A u \in Tasks : /\ Sound(task'[u]) /\ (Holds(task'[u]) => task'[u] = task[u])
                         /\ Holds(task'[u]) => task'[u].delivery # d
    BY <1>1, <1>3, <1>5 DEF IInv, Holders, Holds
  <1>8. QED
    BY <1>1, <1>2, <1>4, <1>6, <1>7, ResultStep

\* The end of a task, or of its worker.
LEMMA TaskEndsStep ==
  ASSUME IInv, NEW t \in Tasks, TaskEnds(t) \/ Crash(t)
  PROVE  IInv'
  <1>1. NoTask \in Task /\ Sound(NoTask) /\ ~Holds(NoTask)
    BY DEF NoTask, Task, Sound, Holds
  <1>2. task[t].phase # "idle" /\ task' = [task EXCEPT ![t] = NoTask]
    BY DEF TaskEnds, Crash
  <1>3. row' \in [Deliveries -> {None, "todo", "doing", "done"}]
    BY <1>2, Busy DEF TaskEnds, Crash
  <1>4. QED
    BY <1>1, <1>2, <1>3, TaskStep, Zenon DEF TaskEnds, Crash, world, provider

-----------------------------------------------------------------------------
(* Maintenance and the provider.                                           *)

\* A new queue row only marks the tasks of the old one.
LEMMA RecoverReadyStep ==
  ASSUME IInv, NEW d \in Deliveries, RecoverReady(d)
  PROVE  IInv'
  <1>1. CASE state' = [state EXCEPT ![d] = "expired"] /\ UNCHANGED <<row, task>>
    <2>1. TypeOK'
      BY <1>1 DEF IInv, TypeOK, RecoverReady, DeliveryState, provider, world
    <2>2. QED
      BY <2>1, <1>1, UnattemptedStep, Zenon DEF RecoverReady, DeliveryState, Results, provider
  <1>2. CASE /\ row' = [row EXCEPT ![d] = "todo"] /\ task' = Superseded(d)
             /\ UNCHANGED state
    <2>1. UNCHANGED <<attempt, receipts, expired, mapped, checker, wire, posts>>
      BY DEF RecoverReady, world, provider
    <2>2. \A t \in Tasks :
            /\ task'[t] \in Task /\ task[t] \in Task
            /\ task'[t].phase = task[t].phase /\ task'[t].delivery = task[t].delivery
            /\ task'[t].attempt = task[t].attempt /\ task'[t].result = task[t].result
      <3>1. \A x \in Task : LET y == [x EXCEPT !.current = FALSE] IN
              /\ y \in Task /\ y.phase = x.phase /\ y.delivery = x.delivery
              /\ y.attempt = x.attempt /\ y.result = x.result
        BY Zenon DEF Task
      <3>2. \A t \in Tasks : task[t] \in Task
        BY DEF IInv, TypeOK
      <3>3. \A t \in Tasks : task'[t] \in {task[t], [task[t] EXCEPT !.current = FALSE]}
        BY <1>2 DEF Superseded
      <3>4. QED
        BY <3>1, <3>2, <3>3, Zenon
    <2>3. TypeOK'
      <3>1. task' \in [Tasks -> Task]
        BY <2>2, <1>2 DEF Superseded
      <3>2. QED
        BY <3>1, <2>1, <1>2 DEF IInv, TypeOK
    <2>4. OneAttempt' /\ Lookups' /\ TruthfulOutcome'
      BY <2>1, <1>2 DEF IInv, OneAttempt, Lookups, TruthfulOutcome
    <2>5. Holders'
      BY SMTT(40), <2>1, <2>2, <1>2 DEF IInv, Holders, Sound, Holds
    <2>6. QED
      BY <2>3, <2>4, <2>5 DEF IInv
  <1>3. QED
    BY <1>1, <1>2 DEF RecoverReady

\* A reconciliation as it starts.
LEMMA NewChecker ==
  ASSUME NEW d \in Deliveries, NEW a \in Nat
  PROVE  LET n == [NoChecker EXCEPT !.delivery = d, !.attempt = a] IN
         n \in Checker /\ n.delivery = d /\ n.attempt = a /\ n.result = None
  BY Zenon DEF NoChecker, Checker

\* The attempt is given up to reconciliation; its task may still be running.
LEMMA UncertainStep ==
  ASSUME IInv, NEW c \in Checkers, NEW d \in Deliveries, Uncertain(c, d)
  PROVE  IInv'
  <1> DEFINE n == [NoChecker EXCEPT !.delivery = d, !.attempt = attempt[d]]
  <1>1. /\ state[d] \in {"sending", "unknown"} /\ state' = [state EXCEPT ![d] = "unknown"]
        /\ checker' = [checker EXCEPT ![c] = n]
        /\ UNCHANGED <<row, attempt, receipts, expired, mapped, task, wire, posts>>
    BY DEF Uncertain, Pending, world, provider
  <1>2. attempt[d] = 1
    BY <1>1 DEF IInv, OneAttempt, Results
  <1>3. n \in Checker /\ n.delivery = d /\ n.attempt = 1 /\ n.result = None
    <2>1. attempt[d] \in Nat
      BY DEF IInv, TypeOK
    <2>2. QED
      BY <2>1, <1>2, NewChecker, Zenon
  <1> HIDE DEF n
  <1>4. /\ state'[d] = "unknown" /\ \A x \in Deliveries \ {d} : state'[x] = state[x]
        /\ checker'[c] = n /\ \A x \in Checkers \ {c} : checker'[x] = checker[x]
    BY <1>1 DEF IInv, TypeOK
  <1>5. TypeOK'
    BY <1>1, <1>3 DEF IInv, TypeOK, DeliveryState, Results
  <1>6. OneAttempt' /\ TruthfulOutcome'
    BY <1>1, <1>4 DEF IInv, OneAttempt, TruthfulOutcome, Results
  <1>7. Lookups'
    BY <1>1, <1>2, <1>3, <1>4, NoneAssumption DEF IInv, Lookups
  <1>8. Holders'
    BY SMTT(40), <1>1, <1>4 DEF IInv, Holders, Sound, Holds
  <1>9. QED
    BY <1>5, <1>6, <1>7, <1>8 DEF IInv

\* A reconciliation looks, or dies.
LEMMA CheckerStep ==
  ASSUME IInv, NEW c \in Checkers, Reads(c) \/ CheckerDies(c)
  PROVE  IInv'
  <1>1. UNCHANGED <<state, row, attempt, receipts, expired, mapped, task, wire, posts>>
    BY DEF Reads, CheckerDies, world, provider
  <1>2. PICK n \in Checker :
           /\ checker' = [checker EXCEPT ![c] = n]
           /\ n.delivery = None => n.result = None
           /\ n.delivery # None =>
                /\ n.delivery = checker[c].delivery /\ n.attempt = checker[c].attempt
                /\ n.result # "known_rejected"
                /\ n.result = "accepted" => wire[n.delivery] = "landed"
    <2>1. CASE CheckerDies(c)
      <3>1. NoChecker \in Checker /\ NoChecker.delivery = None /\ NoChecker.result = None
        BY DEF NoChecker, Checker
      <3>2. QED
        BY <3>1, <2>1, Zenon DEF CheckerDies
    <2>2. CASE Reads(c)
      <3>1. PICK found \in BOOLEAN :
              /\ checker[c].delivery # None
              /\ found => wire[checker[c].delivery] = "landed"
              /\ checker' = [checker EXCEPT ![c].result =
                                 IF found THEN "accepted" ELSE "unknown"]
        BY <2>2, Zenon DEF Reads
      <3> DEFINE n == [checker[c] EXCEPT !.result = IF found THEN "accepted" ELSE "unknown"]
      <3>2. checker[c] \in Checker
        BY DEF IInv, TypeOK
      <3>3. /\ n \in Checker /\ n.delivery = checker[c].delivery
            /\ n.attempt = checker[c].attempt
            /\ n.result = IF found THEN "accepted" ELSE "unknown"
        BY <3>2 DEF Checker, Results
      <3>4. checker' = [checker EXCEPT ![c] = n]
        BY <3>1
      <3> HIDE DEF n
      <3>5. QED
        BY <3>1, <3>3, <3>4, Zenon
    <2>3. QED
      BY <2>1, <2>2
  <1>3. checker'[c] = n /\ \A x \in Checkers \ {c} : checker'[x] = checker[x]
    BY <1>2 DEF IInv, TypeOK
  <1>4. TypeOK'
    BY <1>1, <1>2 DEF IInv, TypeOK
  <1>5. Lookups'
    BY <1>1, <1>2, <1>3 DEF IInv, Lookups
  <1>6. OneAttempt' /\ Holders' /\ TruthfulOutcome'
    BY Zenon, <1>1 DEF IInv, OneAttempt, Holders, Sound, Holds, TruthfulOutcome
  <1>7. QED
    BY <1>4, <1>5, <1>6 DEF IInv

\* The result of a reconciliation.
LEMMA ReconciledStep ==
  ASSUME IInv, NEW c \in Checkers, Reconciled(c)
  PROVE  IInv'
  <1> DEFINE d == checker[c].delivery
             r == checker[c].result
  <1>1. checker[c] \in Checker /\ r # None
    BY DEF IInv, TypeOK, Reconciled
  <1>2. /\ d \in Deliveries /\ r \in Results /\ r # "known_rejected"
        /\ r = "accepted" => wire[d] = "landed"
        /\ checker[c].attempt = 1
    BY <1>1 DEF IInv, Lookups, Checker
  <1>3. /\ Finishes(d, 1, r) /\ checker' = [checker EXCEPT ![c] = NoChecker]
        /\ UNCHANGED <<row, expired, mapped, task, wire, posts>>
    BY <1>2 DEF Reconciled, world, provider
  <1>4. NoChecker \in Checker
    BY DEF NoChecker, Checker
  <1>5. TypeOK'
    BY <1>2, <1>3, <1>4 DEF IInv, TypeOK, Finishes, DeliveryState
  <1>6. \A x \in Checkers : checker'[x] \in {checker[x], NoChecker}
    BY <1>3 DEF IInv, TypeOK
  <1>7. \A t \in Tasks : Sound(task'[t])
    BY <1>3 DEF IInv, Holders
  <1>8. QED
    BY <1>2, <1>3, <1>5, <1>6, <1>7, ResultStep

\* The provider processes the request.
LEMMA ProcessedStep ==
  ASSUME IInv, NEW d \in Deliveries, Processed(d)
  PROVE  IInv'
  <1>1. PICK how \in {"landed", "refused"} :
           wire[d] = "flying" /\ wire' = [wire EXCEPT ![d] = how]
    BY Zenon DEF Processed
  <1>2. UNCHANGED <<state, row, attempt, receipts, expired, mapped, task, checker, posts>>
    BY DEF Processed, world
  <1>3. wire'[d] = how /\ \A x \in Deliveries \ {d} : wire'[x] = wire[x]
    BY <1>1 DEF IInv, TypeOK
  <1>4. TypeOK'
    BY <1>1, <1>2 DEF IInv, TypeOK
  <1>5. OneAttempt' /\ TruthfulOutcome'
    BY <1>1, <1>2, <1>3 DEF IInv, OneAttempt, TruthfulOutcome
  <1>6. Lookups'
    <2>1. \A c \in Checkers : checker[c].delivery \in Deliveries \cup {None}
      BY DEF IInv, TypeOK, Checker
    <2>2. QED
      BY <2>1, <1>1, <1>2, <1>3 DEF IInv, Lookups
  <1>7. Holders'
    <2>1. ASSUME NEW t \in Tasks
          PROVE  Sound(task[t])'
      <3>1. Sound(task[t])
        BY DEF IInv, Holders
      <3>2. CASE task[t].delivery = d
        BY <3>1, <3>2, <1>1, <1>2, <1>3 DEF Sound, Holds
      <3>3. CASE task[t].delivery # d /\ task[t].phase # "idle"
        <4>1. wire'[task[t].delivery] = wire[task[t].delivery]
          BY <3>1, <3>3, <1>3 DEF Sound
        <4>2. QED
          BY Zenon, <4>1, <3>1, <1>2 DEF Sound, Holds
      <3>4. CASE task[t].phase = "idle"
        BY <3>4, <1>2 DEF Sound, Holds
      <3>5. QED
        BY <3>2, <3>3, <3>4
    <2>2. QED
      BY Zenon, <2>1, <1>2 DEF IInv, Holders, Holds
  <1>8. QED
    BY <1>4, <1>5, <1>6, <1>7 DEF IInv

-----------------------------------------------------------------------------
(* The invariant and what follows from it.                                 *)

\* Every transaction, task step and reconciliation preserves the invariant.
LEMMA NextIInv == IInv /\ [Next]_vars => IInv'
  <1> SUFFICES ASSUME IInv, [Next]_vars PROVE IInv'
    OBVIOUS
  <1>1. CASE UNCHANGED vars
    <2>1. TypeOK'
      BY <1>1 DEF IInv, TypeOK, vars
    <2>2. QED
      BY <2>1, <1>1, OutsideStep DEF vars
  <1>2. ASSUME NEW d \in Deliveries,
               \/ Prepare(d) \/ Confirm(d) \/ Cancel(d) \/ RecoverReady(d)
               \/ Processed(d) \/ Expires(d) \/ MappingChanges(d)
        PROVE  IInv'
    BY <1>2, PrepareStep, ConfirmStep, CancelStep, RecoverReadyStep, ProcessedStep, WorldStep
  <1>3. ASSUME NEW d \in Deliveries, NEW k \in Keys,
               NEW r \in {"verified", "needs_changes"}, Verify(d, k, r)
        PROVE  IInv'
    BY <1>3, VerifyStep
  <1>4. ASSUME NEW d \in Deliveries, NEW t \in Tasks, Fetch(t, d)
        PROVE  IInv'
    BY <1>4, FetchStep
  <1>5. ASSUME NEW t \in Tasks, Send(t)
        PROVE  IInv'
    BY <1>5, ClaimStep, ReleaseStep, AnswerStep, PostStep, FinishStep, TaskEndsStep DEF Send
  <1>6. ASSUME NEW c \in Checkers, Reconcile(c)
        PROVE  IInv'
    BY <1>6, UncertainStep, CheckerStep, ReconciledStep DEF Reconcile
  <1>7. QED
    BY <1>1, <1>2, <1>3, <1>4, <1>5, <1>6 DEF Next

\* The inductive invariant holds in every reachable state.
THEOREM InductiveInvariant == Spec => []IInv
  BY InitIInv, NextIInv, PTL DEF Spec

\* The tables, the tasks and the reconciliations keep their shape.
THEOREM TypeCorrect == Spec => []TypeOK
  <1>1. IInv => TypeOK
    BY DEF IInv
  <1>2. QED
    BY <1>1, InductiveInvariant, PTL

\* Never a second POST, for any number of workers and reconciliations: the
\* attempt is issued once, one task holds it, and it posts before it says so.
THEOREM PostedOnce == Spec => []AtMostOnePost
  <1>1. IInv => AtMostOnePost
    <2> SUFFICES ASSUME IInv, NEW d \in Deliveries PROVE posts[d] <= 1
      BY Zenon DEF AtMostOnePost
    <2>1. posts[d] \in {0, 1}
      BY DEF IInv, OneAttempt
    <2>2. QED
      BY <2>1
  <1>2. QED
    BY <1>1, InductiveInvariant, PTL

\* What is recorded is what happened at the provider.
THEOREM OutcomeIsTrue == Spec => []TruthfulOutcome
  <1>1. IInv => TruthfulOutcome
    BY DEF IInv
  <1>2. QED
    BY <1>1, InductiveInvariant, PTL

\* A withdrawn delivery was not sent and will not be.
THEOREM WithdrawnStaysHome == Spec => []WithdrawnNeverSent
  <1>1. IInv => WithdrawnNeverSent
    <2> SUFFICES ASSUME IInv, NEW d \in Deliveries,
                        state[d] \in {"prepared", "ready", "cancelled", "expired"}
                 PROVE  /\ posts[d] = 0
                        /\ \A t \in Tasks : task[t].phase = "claimed" => task[t].delivery # d
      BY DEF WithdrawnNeverSent
    <2>1. posts[d] = 0
      BY DEF IInv, OneAttempt, Results
    <2>2. \A t \in Tasks : task[t].phase = "claimed" => task[t].delivery # d
      BY DEF IInv, Holders, Sound, Holds
    <2>3. QED
      BY <2>1, <2>2
  <1>2. QED
    BY <1>1, InductiveInvariant, PTL

-----------------------------------------------------------------------------
(* The outbox implements OnceDelivery.                                     *)

\* One delivery changes its state, in a way OnceDelivery knows.
LEMMA OutcomeStep ==
  ASSUME TypeOK, NEW d \in Deliveries, NEW s, state' = [state EXCEPT ![d] = s], wire' = wire,
         \/ OutcomeOf(s) = OutcomeOf(state[d])
         \/ OutcomeOf(state[d]) = "pending" /\ OutcomeOf(s) \in {"withdrawn", "attempted"}
         \/ OutcomeOf(state[d]) = "attempted" /\ OutcomeOf(s) = "delivered" /\ wire[d] = "landed"
         \/ /\ OutcomeOf(state[d]) = "attempted" /\ OutcomeOf(s) = "rejected"
            /\ wire[d] \in {"none", "refused"}
  PROVE  [Once!Next]_(Once!vars)
  <1> DEFINE o == [x \in Deliveries |-> OutcomeOf(state[x])]
  <1>1. o[d] = OutcomeOf(state[d])
    OBVIOUS
  <1>2. [x \in Deliveries |-> OutcomeOf(state[x])]' = [o EXCEPT ![d] = OutcomeOf(s)]
    BY Zenon DEF TypeOK
  <1>3. CASE OutcomeOf(s) = OutcomeOf(state[d])
    <2>1. [o EXCEPT ![d] = OutcomeOf(s)] = o
      BY <1>3
    <2>2. QED
      BY <2>1, <1>2 DEF Once!vars
  <1>4. CASE OutcomeOf(state[d]) = "pending" /\ OutcomeOf(s) = "withdrawn"
    BY <1>1, <1>2, <1>4, Zenon DEF Once!Next, Once!Withdraw, Once!Becomes
  <1>5. CASE OutcomeOf(state[d]) = "pending" /\ OutcomeOf(s) = "attempted"
    BY <1>1, <1>2, <1>5, Zenon DEF Once!Next, Once!Attempt, Once!Becomes
  <1>6. CASE /\ OutcomeOf(state[d]) = "attempted" /\ OutcomeOf(s) = "delivered"
             /\ wire[d] = "landed"
    BY <1>1, <1>2, <1>6, Zenon DEF Once!Next, Once!ReportDelivered, Once!Becomes
  <1>7. CASE /\ OutcomeOf(state[d]) = "attempted" /\ OutcomeOf(s) = "rejected"
             /\ wire[d] \in {"none", "refused"}
    BY <1>1, <1>2, <1>7, Zenon DEF Once!Next, Once!ReportRejected, Once!Becomes
  <1>8. QED
    BY <1>3, <1>4, <1>5, <1>6, <1>7

\* How the state of a delivery may change.
Moves(d, s) ==
    /\ state' = [state EXCEPT ![d] = s] /\ wire' = wire
    /\ \/ /\ state[d] \in {"absent", "prepared", "ready"}
          /\ s \in {"prepared", "ready", "sending", "cancelled", "expired"}
       \/ /\ state[d] \in {"sending", "unknown"}
          /\ \/ s = "unknown"
             \/ s = "accepted" /\ wire[d] = "landed"
             \/ s = "known_rejected" /\ wire[d] \in {"none", "refused"}

\* What a step may do to the states and at the provider.
Visible ==
    \/ UNCHANGED <<state, wire>>
    \/ \E d \in Deliveries, s \in DeliveryState : Moves(d, s)
    \/ \E d \in Deliveries :
          /\ state' = state
          /\ \/ /\ state[d] \in {"sending", "unknown"} /\ wire[d] = "none"
                /\ wire' = [wire EXCEPT ![d] = "flying"]
             \/ /\ wire[d] = "flying"
                /\ \E how \in {"landed", "refused"} : wire' = [wire EXCEPT ![d] = how]

\* A result written by finish.
LEMMA FinishesVisible ==
  ASSUME IInv, NEW d \in Deliveries, NEW r \in Results, Finishes(d, 1, r), wire' = wire,
         r = "accepted" => wire[d] = "landed",
         r = "known_rejected" => wire[d] \in {"none", "refused"}
  PROVE  Visible
  <1>1. CASE state' = state
    BY <1>1 DEF Visible
  <1>2. CASE state[d] \in {"sending", "unknown"} /\ state' = [state EXCEPT ![d] = r]
    <2>1. Moves(d, r) /\ r \in DeliveryState
      BY <1>2 DEF Moves, Results, DeliveryState
    <2>2. QED
      BY <2>1 DEF Visible
  <1>3. QED
    BY <1>1, <1>2 DEF Finishes

\* Every step moves one delivery at most, and only forwards.
LEMMA NextVisible ==
  ASSUME IInv, [Next]_vars
  PROVE  Visible
  <1>1. CASE UNCHANGED vars
    BY <1>1 DEF vars, Visible
  <1>2. ASSUME NEW d \in Deliveries, Prepare(d) \/ Confirm(d) \/ Cancel(d) \/ RecoverReady(d)
        PROVE  Visible
    <2>1. \/ UNCHANGED <<state, wire>>
          \/ \E s \in {"prepared", "ready", "cancelled", "expired"} : Moves(d, s)
      BY Zenon, <1>2 DEF Prepare, Confirm, Cancel, Cancellable, RecoverReady, provider, Moves
    <2>2. QED
      BY <2>1 DEF Visible, DeliveryState
  <1>3. ASSUME NEW d \in Deliveries, Processed(d)
        PROVE  Visible
    BY <1>3, Zenon DEF Processed, Visible
  <1>4. ASSUME NEW d \in Deliveries, NEW t \in Tasks, Fetch(t, d)
        PROVE  Visible
    BY <1>4 DEF Fetch, provider, Visible
  <1>5. ASSUME NEW d \in Deliveries,
               \/ Expires(d) \/ MappingChanges(d)
               \/ \E k \in Keys, r \in {"verified", "needs_changes"} : Verify(d, k, r)
        PROVE  Visible
    BY <1>5 DEF Expires, MappingChanges, Verify, provider, Visible
  <1>6. ASSUME NEW t \in Tasks, Claim(t)
        PROVE  Visible
    <2>1. task[t].delivery \in Deliveries
      BY <1>6, Busy DEF Claim
    <2>2. \/ UNCHANGED <<state, wire>>
          \/ \E s \in {"sending", "cancelled", "expired"} : Moves(task[t].delivery, s)
      BY Zenon, <1>6 DEF Claim, Claims, Claimable, provider, Moves
    <2>3. QED
      BY <2>1, <2>2 DEF Visible, DeliveryState
  <1>7. ASSUME NEW t \in Tasks, Post(t)
        PROVE  Visible
    <2>1. /\ task[t].delivery \in Deliveries /\ wire[task[t].delivery] = "none"
          /\ state[task[t].delivery] \in {"sending", "unknown"}
      BY <1>7, Busy DEF Post, Sound, Holds, IInv, TruthfulOutcome
    <2>2. QED
      BY <1>7, <2>1, Zenon DEF Post, Visible
  <1>8. ASSUME NEW t \in Tasks, Finish(t)
        PROVE  Visible
    BY <1>8, Busy, FinishesVisible DEF Finish, Sound, Holds, provider
  <1>9. ASSUME NEW t \in Tasks,
               \/ ClaimRollback(t) \/ Preflight(t) \/ Response(t) \/ Interrupted(t)
               \/ TaskEnds(t) \/ Crash(t)
        PROVE  Visible
    BY <1>9, Zenon DEF ClaimRollback, Preflight, Response, Interrupted, TaskEnds, Crash, provider,
                Visible
  <1>10. ASSUME NEW c \in Checkers, NEW d \in Deliveries, Uncertain(c, d)
         PROVE  Visible
    <2>1. Moves(d, "unknown")
      BY <1>10 DEF Uncertain, Pending, provider, Moves
    <2>2. QED
      BY <2>1 DEF Visible, DeliveryState, Results
  <1>11. ASSUME NEW c \in Checkers, Reads(c) \/ CheckerDies(c)
         PROVE  Visible
    BY <1>11 DEF Reads, CheckerDies, provider, Visible
  <1>12. ASSUME NEW c \in Checkers, Reconciled(c)
         PROVE  Visible
    <2>1. checker[c] \in Checker /\ checker[c].result # None
      BY <1>12 DEF IInv, TypeOK, Reconciled
    <2>2. /\ checker[c].delivery \in Deliveries /\ checker[c].result \in Results
          /\ checker[c].result # "known_rejected" /\ checker[c].attempt = 1
          /\ checker[c].result = "accepted" => wire[checker[c].delivery] = "landed"
      BY <2>1 DEF IInv, Lookups, Checker
    <2>3. QED
      BY <1>12, <2>2, FinishesVisible DEF Reconciled, provider
  <1>13. QED
    BY <1>1, <1>2, <1>3, <1>4, <1>5, <1>6, <1>7, <1>8, <1>9, <1>10, <1>11, <1>12
       DEF Next, Send, Reconcile

\* A settled delivery is not touched by late results, workers or maintenance.
THEOREM SettledStays == Spec => SettledIsFinal
  <1>1. IInv /\ [Next]_vars =>
          [\A d \in Deliveries : state[d] \in Settled => state'[d] = state[d]]_vars
    <2> SUFFICES ASSUME IInv, [Next]_vars, NEW d \in Deliveries, state[d] \in Settled
                 PROVE  state'[d] = state[d]
      OBVIOUS
    <2>1. Visible
      BY NextVisible
    <2>2. QED
      BY <2>1 DEF Visible, Moves, Settled, IInv, TypeOK
  <1>2. QED
    BY <1>1, InductiveInvariant, PTL DEF Spec, SettledIsFinal

\* Every step of the outbox is a step of OnceDelivery or changes nothing its
\* initiator can see.
LEMMA NextOnce ==
  ASSUME IInv, [Next]_vars
  PROVE  [Once!Next]_(Once!vars)
  <1>1. CASE UNCHANGED <<state, wire>>
    BY <1>1 DEF Once!vars
  <1>2. ASSUME NEW d \in Deliveries, NEW s \in DeliveryState, Moves(d, s)
        PROVE  [Once!Next]_(Once!vars)
    <2>1. /\ state[d] \in {"absent", "prepared", "ready"} => OutcomeOf(state[d]) = "pending"
          /\ state[d] \in {"sending", "unknown"} => OutcomeOf(state[d]) = "attempted"
          /\ s \in {"prepared", "ready"} => OutcomeOf(s) = "pending"
          /\ s \in {"cancelled", "expired"} => OutcomeOf(s) = "withdrawn"
          /\ s \in {"sending", "unknown"} => OutcomeOf(s) = "attempted"
          /\ s = "accepted" => OutcomeOf(s) = "delivered"
          /\ s = "known_rejected" => OutcomeOf(s) = "rejected"
      BY DEF OutcomeOf
    <2>2. TypeOK
      BY DEF IInv
    <2>3. QED
      BY <1>2, <2>1, <2>2, OutcomeStep, Zenon DEF Moves
  <1>3. ASSUME NEW d \in Deliveries, state' = state,
               state[d] \in {"sending", "unknown"}, wire[d] = "none",
               wire' = [wire EXCEPT ![d] = "flying"]
        PROVE  [Once!Next]_(Once!vars)
    <2>1. OutcomeOf(state[d]) = "attempted"
      BY <1>3 DEF OutcomeOf
    <2>2. QED
      BY <1>3, <2>1, Zenon DEF Once!Next, Once!Transmit
  <1>4. ASSUME NEW d \in Deliveries, state' = state, wire[d] = "flying",
               NEW how \in {"landed", "refused"}, wire' = [wire EXCEPT ![d] = how]
        PROVE  [Once!Next]_(Once!vars)
    BY <1>4, Zenon DEF Once!Next, Once!Arrive
  <1>5. QED
    BY <1>1, <1>2, <1>3, <1>4, NextVisible DEF Visible

\* The outbox implements the promise of OnceDelivery.
THEOREM ImplementsOnce == Spec => DeliversOnce
  <1>1. Init => Once!Init
    BY DEF Init, Once!Init, OutcomeOf
  <1>2. IInv /\ [Next]_vars => [Once!Next]_(Once!vars)
    BY NextOnce
  <1>3. QED
    BY <1>1, <1>2, InductiveInvariant, PTL DEF Spec, DeliversOnce, Once!Spec

=============================================================================
