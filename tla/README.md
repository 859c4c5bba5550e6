# Verification of the EternalAI backend

TLA+ models of the stateful protocols of this repository, model-checked with TLC on small
instances; their safety properties, all but half of one, are also proved with TLAPS for every
instance. The
models are translated from the Python and SQL sources under `src/`; the documents under
`src/docs` were only used to learn what a part is for.

`PROJECT.json` maps every definition that models code to its source lines, and lists the runs,
the mutants (a plausible bug per property that the property detects), the theorems, the hazards
of the code with the properties that cover them, and the one finding.

## The system and its parts

The backend is one FastAPI application, one Procrastinate worker process and a PostgreSQL
database that both share, a chat provider (Zulip), remote business systems reached over MCP and
browsers on the workers' hosts. Almost every protocol has the same shape. Durable rows are the
truth. A transaction locks one row, or writes with a compare-and-set. Between two transactions a
process awaits something outside: a handler, a provider, a file system, a browser, a person. It
may be cancelled, stall or die there, a second process may take over, and the first may come back.
So each module has the rows as state, one action per transaction or external call, and the
processes as small program counters between them.

| module | part | source |
|---|---|---|
| `BackgroundJobs` | job ledger, queue rows, execution wrapper, reconcile | `app/infra/jobs/*`, `procrastinate/3.10.0/schema.sql` |
| `IMDelivery` | text-delivery outbox and the Zulip adapter | `app/im_deliveries.py`, `app/infra/persistence/im_deliveries.py`, `app/infra/communication/zulip.py` |
| `OnceDelivery` | what the outbox promises; `IMDelivery` refines it | - |
| `PersonalAgents` | questions to a person's agent and their replies; extends `IMDelivery` | `app/personal_agents.py`, `app/infra/persistence/personal_agents.py` |
| `FileArtifacts` | job outputs and chat uploads, rows and files | `app/infra/persistence/file_artifacts.py`, `app/infra/files/local_store.py` |
| `GovernedOperations` | business writes behind a human confirmation | `app/mcp/operations.py`, `workflow_repository.py`, `human_gate/postgresql.py`, `workflow/engine.py` |
| `BrowserStore` | run and lease rows of browser runs; used by the next two | `app/infra/persistence/browser/{runs,leases,authorization}.py` |
| `BrowserRuns` | the worker that reads or writes on a site | `app/browser_skill/{runtime,executor}.py`, `app/infra/browser/*read_execution.py`, `local_resource_lifecycle.py` |
| `BrowserHandoffs` | the worker that fills a form and hands the window to its owner | `app/infra/browser/d_form_*.py`, `runtime.py` |

`MC*` modules only add the symmetry and the values that a cfg file cannot write. The `*Proofs`
modules and `BrowserHandoffsOutcome` hold the theorems.

## Background jobs

| part | state in the model | actions |
|---|---|---|
| ledger (`ledger.py`) | `ledger[j]`, one record per job id; `accepting`, the accepts between check and commit | `AcceptCheck`, `AcceptCommit`, `AcceptRollback`, `CancelRead`, `CancelApply`, `CancelRollback`, the database half of `Claim`, `HeartbeatWrite`, `FinalWrite` |
| queue (`queue_sql.py`, pinned `schema.sql`) | `queue[q]` | `Fetch`, `FinishRow`, and the queue side of accept, cancel and re-dispatch |
| execution wrapper (`execution.py`) | `exec[q]`: the wrapper W, the handler task H, the heartbeat task B | `Claim`, `ClaimInterrupted`, `Interrupt`, `HeartbeatWrite`, `HeartbeatAnswer`, `HandlerEnds`, `FinishLost`, `FinalWrite`, `FinalWriteFails`, `Crash` |
| reconcile (`reconcile.py`) | - | `ReconcileCancel`, `GiveUp`, `Redispatch` |

The ledger row serialises everything; only `cancel` reads the queue row without a lock, so it is
two steps. A reconcile of one job is one step because its writes commute with the worker's. The
handler's result and the error codes are abstracted to how it ended. Left out: the reads, the
replies of a repeated accept that changes nothing, and the unique index on the idempotency key,
which the owner's lock makes redundant (`IdempotentAccept` shows it). `reconcile_once` takes 100
rows at a time in the order of their age; that rows it cannot settle may stand at the head of that
batch is listed as a hazard and not modelled.

Runs: `jobs_lifecycle` (one job, two queue rows, so one re-dispatch; `Fencing`,
`ResultFromLastClaim`, `CancelNeverRestarts`, and under fairness `AcceptedJobEnds`,
`CancelConverges`) and `jobs_accept` (two jobs, two keys, one active job and one dispatch allowed,
so that both limits are met; `ActiveLimit`, `IdempotentAccept`, `BoundedExecutions`).

Fairness: the worker proceeds with a fetched task, the cron entry reconciles each minute and time
passes (weak); a cancel transaction and a heartbeat, which are tried again and again, do not fail
every time (strong). That a handler ends is assumed only in the antecedent of `AcceptedJobEnds`;
`CancelConverges` holds even if it never does.

## Text delivery

`state`, `attempt`, `receipt`, `wire` and `posts` are the row and the provider's side of a
delivery, `task` the send tasks, `checker` the reconciliations. A store method is one transaction,
hence one action; a send is claim, POST, response, finish, a reconcile is mark, read, finish. The
provider stores a message or answers an error for it, and a response may be lost. A queue row is
represented by the status of the row its delivery points to. `recover_ready` handles its rows one
by one, as the code does. A receipt may be given while a delivery is still ready.

`OnceDelivery` is the promise: at most one send, none after a withdrawal, reports that are true.
The refinement maps the eight states to the five outcomes an initiator can learn.

Run `im_delivery`: one delivery, two tasks, one reconciliation. `TruthfulOutcome`,
`WithdrawnNeverSent`, `DeliversOnce` (the refinement), and under fairness `ReadyLeaves` and
`LandedRecorded`. Two tasks give every overlap that two queue rows for one delivery allow; a third
would repeat the second. Fairness: the maintenance cron runs each minute, tasks proceed (weak);
a fetch, a claim and a read that finds the message, which recur, succeed in the end (strong).

## Personal agents

The module extends `IMDelivery`: a reply is a delivery, and everything after its claim is that
module's. It adds the material and the grants of the answering agent, whose row lock serialises
publication, revocation, completion and the claim of a reply, the inbox rows, and the answer task
(`FetchAsk`, `ClaimInbox`, `Question`, `EnqueueStatus`, `ReadMaterial`, `Model`, `Complete`,
`Fail`, `AnswerEnds`). The identities of a question are the flag `trusted`, which may change and
change back; what provider and model return is a free choice; a commit that raises may have
committed.

Runs: `agents_private` (one private question with the send and the reconciliation of its reply:
`AtMostOnePost`, `InboxSettled`, `RevokedStaysHome`) and `agents_kinds` (private, group and
delegated questions, two grants, without the send: `ReplyMatchesInbox`, `QuestionEnds`). The two
are separate because the group and delegated kinds do not touch the send tasks differently, and
together they exceed what TLC can explore.

## File artifacts

A row and two directory entries (`staging`, `object`) change without a common transaction.
`producer[p]` is a `publish_output` or `upload_chat_input` call, `cleaner[c]` a `cleanup_once`
call; `lock` is the row lock, `sharing` the share locks on the job row. Clocks are abstracted to
running, ended and overdue. A commit may raise with its fate open (`limbo`), every file operation
may fail, processes die and the host loses power, which drops what was not synced.

Runs: `files_safety` (two artifacts, two producers, two cleanups: `AvailableIsWhole`,
`RemovedLeavesNothing`, `ToldTruly`, `QuotaHolds`, `FencedPublication`) and `files_liveness`
(`EventuallyRemoved`). Fairness: leases end at the latest ten minutes after the reservation, the
database ends every transaction (weak); the cleanup, which recurs every ten minutes, does not fail
every time (strong). Not modelled: a lock lost with its database connection while the call goes
on, an unlink undone by a power loss, the integrity codes of rows, and reads.

## Governed operations

One operation row and everything that may happen to it. A request (`req[r]`) reads the row,
awaits and writes with a compare-and-set on the revision; a revision number identifies the
contents, so `rev` is all a request has to remember. The digest of an action is the record of what
it was derived from. `gates` are the requests to the person with their write-once decisions,
`guard` the advisory lock. Every exception, refusal, busy guard, lost compare-and-set, cancellation
and death is `Fails`. The remote system and the recovery policy are external: the remote applies or
refuses a write some time after it was sent, also after the sender is gone; the policy's verdicts
are true.

Run `governed`: two overlapping requests of two logins on one operation of one of four tools. The
tools bound what is explored: `retried` everything that needs one login, far enough to send twice;
`retired` the retirement of a card; `adopted` the takeover by another login, also after the write
has left; `single` a tool that may be sent once, with rebinding and reconciliation. Properties:
`SentAsConfirmed`, `SenderUndisturbed`, `OutcomeTrue`, `SentOnce`, `ToldTruly`, `Final`. Not
modelled: the loss of the advisory lock under a live sender, the in-memory card table of the
runtime, trace events.

## Browser runs and handoffs

`BrowserStore` has the rows: `run[r]`, the lease of the shared browser binding, the admission
`auth`. A worker claims a run with an epoch and keeps renewing it; it may stall at any await, lose
the claim and go on with what it holds in memory. A refresh and the store operation after it are
one step, since a change between them makes the operation fail, and every operation may fail.

`BrowserRuns` is the worker on a registered site, with the confirmation of a write, its dispatch,
receipts, captures of the profile, cancel, interruption, death and the cleanup pass. The last look
at the rows is the barrier (`AssertWrite`): `Send` reads none, so a worker that stalls between them
still sends after its claim or its lease is gone. A dispatched write may land as long as the browser
lives. `BrowserHandoffs` is the form filler: it consumes the
confirmation, passes a last barrier, feeds a subprocess, seals the window for its owner and holds
it until a check, a cancel, a deadline or a closed window ends it. The last fence before the browser
(`LaunchFence`) and its start (`Launch`) are two steps, between which the run may be cancelled or
claimed by another. A recorded cancel wins over the seal (`Enter`) and over the check's answer
(`Checked`); `OneVerdict` says so of both. The browser dies with its
process there (`KILL_ON_JOB_CLOSE`).

Runs: `browser_write` (one run of a write step and a read step, two processes, two claims, one
death: `WriteOnce`, `EffectTrue`, `CancelledIsStopped`, `ReleasedIsGone`), `handoff_safety` (two
processes, two claims, one death: `FilledOnce`, `FillTold`, `OwnerAlone`, `WindowKeepsBinding`,
`OneVerdict`) and `handoff_liveness` (`SealedCloses`). Two claims are the stalled worker and its
successor; one death is enough to leave every kind of remains to them. Fairness: a worker goes on,
a claim nobody renews lapses, time passes (weak); every process makes its cleanup passes between
other work (strong).

Over-approximations: `check_handoff` of the only form in the repository always answers
"unsupported", and the model also takes the other answer the runtime handles (`CheckOutcomes`);
a cleanup quarantines whenever the authority is lost; gate and lease expiry are failing steps.
Left out: what steps do on a page, publication and scheduling of skills, Windows process plumbing.

### Finding

`browser_cleanup` expects a violation of `CleanupTruthful`. A run that is interrupted at shutdown
before it could be settled stays active, and `_run_claimed` still records its cleanup
(`runtime.py:468`). A later claim reserves the binding again; that lease is never accounted for,
because the cleanup counts as final. The comment at `runtime.py:478` says "Existing
pending/quarantined state remains the truthful obligation."

## What is proved

Eight modules hold theorems; tlapm checks them to the last leaf with Z3, Zenon and LS4. They hold
for every value of the constants that satisfies the named assumptions (`...Assumption`): positive
limits, queue ids that are numbers, write steps that are steps of the skill, one reply slot per
question and kind of reply, and a null value that is none of the other values. None bounds the
number of jobs, processes, requests, claims or deaths.

The properties are not inductive as they stand. Each proof has an inductive invariant `IInv`, which
TLC checked on an instance first, one lemma per action that it is preserved, and short theorems that
read the properties off it.

| component | inductive invariant | theorems (property) |
|---|---|---|
| `BackgroundJobs` | references between ledger and queue rows, what the row lock of a cancel protects, where an execution stands against its queue row, tokens that are issued once, counts, the traces of a cancellation, who recorded a result | `FencingHolds` (`Fencing`), `Bounded` (`BoundedExecutions`), `LastClaimResult` (`ResultFromLastClaim`), `FinishedStays` (`TerminalIsFinal`), `CancelledStaysStopped` (`CancelNeverRestarts`), `NoOrphans`, `CancelledOnRequest`, `TypeCorrect` |
| | `Admission`, on top of it: the owner's lock has one holder, and what it checked stays true until it commits | `LimitHolds` (`ActiveLimit`), `AcceptedOnce` (`IdempotentAccept`) |
| `IMDelivery` | one attempt per delivery, who holds a claim, what a lookup may still learn, true outcomes | `PostedOnce`, `OutcomeIsTrue` (`TruthfulOutcome`), `WithdrawnStaysHome` (`WithdrawnNeverSent`), `SettledStays`, `ImplementsOnce` (the refinement `DeliversOnce`), `TypeCorrect` |
| `PersonalAgents` | the outbox's invariant, and on top of it: grants are made for published material and never forgotten, one answerer works on a question under its queue row, the group is told once, question and reply agree | `RepliesAgree` (`ReplyMatchesInbox`), `RepliesPostedOnce` (`AtMostOnePost`), `SettledQuestions` (`InboxSettled`), `RevokedAnswersStayHome` (`RevokedStaysHome`), `ReplyOutcomeIsTrue` (`TruthfulOutcome`, of the composition) |
| `FileArtifacts` | one producer per row, where each producer and cleanup stands, and per artifact what row, files, lock and lease say of each other (`Sound`) | `AvailableWhole` (`AvailableIsWhole`), `RemovedIsGone` (`RemovedLeavesNothing`), `CallerToldTruly` (`ToldTruly`), `PublicationFenced` (`FencedPublication`), `SessionQuota` (the session half of `QuotaHolds`) |
| `GovernedOperations` | a remembered revision identifies the row's contents, gates answer for what they were asked, the sender holds guard and row, attempts are numbered, every request stands where its row allows (`Sound`) | `ConfirmedBeforeSent` (`SentAsConfirmed`), `SenderKeepsRow` (`SenderUndisturbed`), `AtMostOneSend` (`SentOnce`), `OutcomeIsTrue` (`OutcomeTrue`), `TaskToldTruly` (`ToldTruly`), `FinishedStays` (`Final`) |
| `BrowserHandoffs` | the shapes of worker, row and memory, claims and epochs, the consumption of a confirmation, what was fed, what stopped | `FillsOnce` (`FilledOnce`), `OwnerIsAlone` (`OwnerAlone`) |
| | on top of it, in `BrowserHandoffsOutcome`: what rows and workers tell of the form (`Told`), and under which lease a window lives | `FillIsTold` (`FillTold`), `WindowHasBinding` (`WindowKeepsBinding`), `VerdictIsFinal` (`OneVerdict`) |
| `BrowserRuns` | a claim's epoch belongs to one worker (`Claims`), a lease epoch to one execution and a browser to the row's lease (`Leased`), what is remembered as released was given back for good (`Quit`), a write goes from its one barrier over the wire to the site (`Dispatched`), and what the row, the journal and the worker of the current claim say of the writes (`Truth`) | `WritesOnce` (`WriteOnce`), `EffectsAreTrue` (`EffectTrue`), `RunningKeepsBinding` (`ReleasedIsGone`), `CancelledStaysStopped` (`CancelledIsStopped`) |

The arguments, in one sentence each.
*Jobs*: a token is the number of the claim, so an execution that still holds the ledger's token is
the execution of the ledger's queue row, and everything a stale one could write is refused.
*Admission*: between the checks and the commit of an accept no other accept of the owner begins, and
every other step keeps owners and keys and only takes jobs out of the active ones.
*Delivery*: the claim is the only way to the POST and is never given back.
*Files*: the row lock and the lease make the producer the only writer of its two entries, and a
cleanup touches them only when the lease is over.
*Operations*: `MoveStep` shows that of the requests that remember a revision only one passes the
compare-and-set, after which the others' memory is stale and stays so.
*Replies*: the claim of a reply takes its one attempt just as the outbox does, and reads grant,
material and question under the lock that every revocation needs.
*Handoffs*: the confirmation is consumed in the same transaction that fixes the epoch, so a second
worker never passes the barrier; a worker of the current claim that ends without a trace of a sent
form either never passed it or saw its subprocess exit.
*Browser runs*: only the worker that set the barrier of a write dispatches it; a worker that takes
over a run that was started makes its effect unknown first, so only the worker of the current claim
has to know what is on the wire.

`BrowserRunsProofs` is the longest proof. Its first lemmas say what a step may do and leave a part
of the invariant as it is (`EpochsKept`, `LeaseKept`, `HoldingKept`, ...). Six lemmas then take the
actions in groups (`SettlingSteps`, `ExecutingSteps`, `OpeningSteps`, `OutsideSteps`,
`ClaimingSteps`, `CleaningSteps`), each with one named step per action: it shows that the action is
such a step, and argues about the parts it really changes. What only one group needs is a step of
that group, which keeps the provers' context small.

## What is only model-checked

- Liveness (`AcceptedJobEnds`, `CancelConverges`, `ReadyLeaves`, `LandedRecorded`, `QuestionEnds`,
  `EventuallyRemoved`, `SealedCloses`): fairness and `ENABLED` are out of the prover's reach.
- The byte half of `QuotaHolds`: the sum over a set is a fold, and what it computes needs an
  induction over data that the installed provers cannot do.

Every other property of a passing run is a theorem. No `RECURSIVE` operator is used.

## What is not modelled

The models cover the parts of the backend in which several processes, a crash or a lost answer can
leave durable state wrong. They stand for a small share of the repository's lines. Most of the rest
has no state of its own or no second actor: HTTP routes, schemas and their validation, prompt
assembly and model calls, parsing and rendering of documents, configuration, the web client,
migrations, tests and scripts. `PROJECT.json` names each part with the reason it was left out.
