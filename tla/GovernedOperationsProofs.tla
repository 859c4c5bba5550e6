----------------------- MODULE GovernedOperationsProofs -----------------------
(***************************************************************************)
(* Proofs about GovernedOperations: the safety properties of the runs for  *)
(* any number of requests, logins, tools, gates and revisions.             *)
(*                                                                         *)
(* The inductive invariant has a part about the row and one about each     *)
(* request.  What a request knows of the row it knows only as long as the  *)
(* row has the revision it read, or under the guard: every change of the   *)
(* row makes the knowledge of the others vacuous.  That is the             *)
(* compare-and-set argument, and MoveStep states it once.                  *)
(***************************************************************************)
EXTENDS GovernedOperations, FiniteSetTheorems, TLAPS

OpFields == {"state", "revision", "action", "gate", "attempt", "sent", "login",
             "error", "attempts", "tool"}

ReqFields == {"pc", "rev", "login", "action", "how"}

\* The pcs of a request that holds the guard.
Guarded == {"resuming", "dispatch", "consuming", "sending", "waiting", "closing",
            "discarding", "recovering", "taking", "rebinding", "rebound",
            "retiring", "telling"}

\* The pcs of a request on its way from the person's answer to the send.
Sending == {"decide", "resume", "resuming", "dispatch", "consuming", "sending"}

\* The states in which the remote system may hold an unknown outcome.
Unsettled == {"UNKNOWN", "WAITING_EXTERNAL_CONFIRM"}

\* An action derived from a row that has changed since.
Old(a) == a.rev \in Nat /\ a.rev < op.revision

\* The write of attempt n was not applied and never will be.
NeverApplied(n) == writes[n] \in {"none", "refused"}

Shapes ==
    /\ DOMAIN op = OpFields
    /\ DOMAIN req = Requests
    /\ \A r \in Requests : DOMAIN req[r] = ReqFields
    /\ DOMAIN writes = Revisions
    /\ op.revision \in Nat
    /\ op.sent \in BOOLEAN

\* Decisions are write-once and about actions of earlier revisions; every use
\* was confirmed.
Answers ==
    /\ confirmed \cap rejected = {}
    /\ \A a \in confirmed : Old(a)
    /\ \A u \in uses : u[2] \in confirmed
    /\ \A u, v \in uses : u[2] = v[2] => u = v

\* What the state of the row says about the other fields, the answers and the
\* remote system.
Row ==
    /\ op.state \in {"absent", "WAITING_LOCAL_CONFIRM", "READY", "CANCELLED",
                     "EXPIRED"} => ~op.sent
    /\ op.attempt \in Revisions
    /\ op.state # "absent" => op.tool \in DOMAIN Tools
    /\ op.state = "absent" => op.revision = 0
    /\ op.state = "SENDING" => op.sent /\ op.attempt = op.revision - 1
    /\ op.state = "READY" => op.attempt = op.revision
    /\ op.state \in {"READY", "SENDING"} => op.action \in confirmed
    /\ op.state # "absent" => Old(op.action)
    /\ op.state \in {"WAITING_LOCAL_CONFIRM", "READY"}
          => \A u \in uses : u[2] # op.action

\* An attempt that is not the row's is settled, and so is every attempt of a row
\* that was not sent; a write that may be sent once was not sent before.
Attempts ==
    /\ \A n \in Revisions : n # op.attempt \/ ~op.sent => NeverApplied(n)
    /\ (op.state = "absent" \/ ~Idempotent) /\ ~op.sent => uses = {}
    /\ op.state # "absent" /\ ~Idempotent => \A u, v \in uses : u = v

\* The task was told about this revision or an earlier one.
Told ==
    /\ told.revision \in Nat /\ told.revision <= op.revision
    /\ ToldTruly

\* A sender holds the guard, and the row is the one it last wrote.
Sender(r) ==
    /\ req[r].pc \in {"dispatch", "consuming", "sending", "waiting", "closing"}
          => op.revision = req[r].rev
    /\ req[r].pc \in {"dispatch", "consuming"} => op.state = "READY"
    /\ req[r].pc \in {"sending", "waiting"} => op.state = "SENDING"
    /\ req[r].pc = "closing" => op.state \in {"READY", "SENDING"}
    /\ req[r].pc = "closing" /\ req[r].how = "VERIFIED_SUCCESS"
             /\ op.state = "SENDING"
          => writes[op.attempt] = "applied"
    /\ req[r].pc = "sending" =>
          /\ \A u \in uses : u[2] # op.action
          /\ ~Idempotent => uses = {}

\* A request that renews has a verdict of the policy on the row it read, or it is
\* a takeover of a row that was not sent.
Renewer(r) ==
    \/ /\ req[r].how \in {"verified", "failed", "reconcile"}
       /\ op.revision = req[r].rev =>
             /\ op.state \in Unsettled /\ Idempotent
             /\ IF req[r].how = "verified" THEN writes[op.attempt] = "applied"
                                           ELSE NeverApplied(op.attempt)
    \/ /\ req[r].how = None /\ guard = r
       /\ op.revision = req[r].rev => ~op.sent

Sound(r) ==
    /\ req[r].rev \in Nat /\ req[r].rev <= op.revision
    /\ req[r].pc # "idle" => op.state # "absent"
    /\ req[r].pc \in Guarded => guard = r
    /\ req[r].pc \in Sending => req[r].how = "confirm"
    /\ req[r].pc = "decide" => Old(req[r].action)
    /\ req[r].pc \in {"gate", "adopt", "rebound"} /\ op.revision = req[r].rev
          => op.state = "WAITING_LOCAL_CONFIRM"
    /\ req[r].pc = "recovering" /\ req[r].how = "reconcile" => Idempotent
    /\ req[r].pc = "reading" /\ op.revision = req[r].rev
          => op.state \in Unsettled /\ Idempotent
    /\ req[r].pc = "taking" => req[r].how = None
    /\ req[r].pc \in {"renew", "renewing"} => Renewer(r)
    /\ req[r].pc = "renewing" => req[r].how \notin {"verified", "failed"}
    /\ req[r].pc \in {"renewing", "rebound"}
          => req[r].action.rev = req[r].rev /\ req[r].action \in gates
    /\ req[r].pc = "telling" => op.state \in Terminal /\ req[r].how = Status
    /\ Sender(r)

IInv ==
    /\ Shapes /\ Answers /\ Row /\ Attempts /\ OutcomeTrue /\ Told
    /\ \A r \in Requests : Sound(r)

-----------------------------------------------------------------------------
(* Steps of one request.                                                   *)

\* Only request r changes, and it takes the guard from nobody.
Only(r) ==
    /\ DOMAIN req' = Requests
    /\ DOMAIN req'[r] = ReqFields
    /\ \A q \in Requests \ {r} : req'[q] = req[q] /\ (guard = q => guard' = q)

\* The row got the next revision.
Bumped ==
    /\ DOMAIN op' = OpFields
    /\ op'.revision = op.revision + 1
    /\ op'.sent \in BOOLEAN
    /\ op'.state # "absent"
    /\ op.state # "absent" => op'.tool = op.tool

\* Request r can change the row and disturb no sender and no teller: it has the
\* guard, or the row is in a state in which there is none.
Undisturbing(r) ==
    guard = r \/ op.state \in Unsettled \cup {"absent", "WAITING_LOCAL_CONFIRM"}

\* The attempts a row can have.
LEMMA AttemptNumbers ==
  ASSUME NEW tool \in DOMAIN Tools, NEW n \in Nat, n <= Tools[tool].revisions
  PROVE  n \in Revisions /\ 0 \in Revisions
BY ConstantsAssumption DEF Revisions

\* The row, the remote system and the task stay, and answers are only added.
LEMMA QuietStep ==
  ASSUME IInv, NEW r \in Requests, Only(r), Sound(r)',
         UNCHANGED <<op, remote, told>>,
         gates \subseteq gates', confirmed \subseteq confirmed',
         confirmed' \cap rejected' = {}, \A a \in confirmed' : Old(a)
  PROVE  IInv'
<1> USE DEF remote
<1>1. Shapes'  BY Zenon DEF IInv, Shapes, Only
<1>2. Answers'  BY Zenon DEF IInv, Answers, Old
<1>3. Row'  BY Zenon DEF IInv, Row, Old
<1>4. Attempts' /\ OutcomeTrue' /\ Told'
  BY Zenon DEF IInv, Attempts, NeverApplied, Idempotent, OutcomeTrue, Told, ToldTruly, Status
<1>5. ASSUME NEW q \in Requests  PROVE Sound(q)'
  <2>1. CASE q = r  BY Zenon, <2>1
  <2>2. CASE q # r
    <3>1. req'[q] = req[q] /\ (guard = q => guard' = q)  BY Zenon, <2>2 DEF Only
    <3>2. Sender(q)'  BY Zenon, <3>1 DEF IInv, Sound, Sender, Idempotent
    <3>3. Renewer(q) => Renewer(q)'  BY Zenon, <3>1 DEF Renewer, Idempotent, NeverApplied
    <3> QED  BY <3>1, <3>2, <3>3 DEF IInv, Sound, Idempotent, Old, Status
  <2> QED  BY Zenon, <2>1, <2>2
<1> QED  BY Zenon, <1>1, <1>2, <1>3, <1>4, <1>5 DEF IInv

LEMMA Numbers ==
  ASSUME IInv
  PROVE  /\ op.revision \in Nat /\ op.revision <= op.revision
         /\ 0 \in Nat /\ 0 <= op.revision
BY DEF IInv, Shapes

LEMMA Grown ==
  ASSUME IInv, Bumped
  PROVE  /\ op.revision \in Nat /\ op'.revision \in Nat
         /\ op'.revision = op.revision + 1 /\ op'.revision <= op'.revision
         /\ op.revision < op'.revision
         /\ \A n \in Nat : n <= op.revision => n <= op'.revision /\ n # op'.revision
         /\ \A n \in Nat : n < op.revision => n < op'.revision
         /\ 0 \in Nat /\ 0 <= op.revision
BY DEF IInv, Shapes, Bumped

\* The compare-and-set argument: what the other requests know of the row becomes
\* vacuous when the row gets a new revision.
LEMMA MoveStep ==
  ASSUME IInv, NEW r \in Requests, Only(r), Bumped, Undisturbing(r), Sound(r)',
         UNCHANGED <<decisions, remote, told>>,
         Row', Attempts', OutcomeTrue'
  PROVE  IInv'
<1> USE DEF remote, decisions
<1>0. /\ op.revision \in Nat /\ op'.revision \in Nat
      /\ \A n \in Nat : n <= op.revision => n <= op'.revision /\ n # op'.revision
      /\ \A n \in Nat : n < op.revision => n < op'.revision
  BY Grown, Zenon
<1>1. Shapes'  BY Zenon, <1>0 DEF IInv, Shapes, Only, Bumped
<1>2. Answers'  BY Zenon, <1>0 DEF IInv, Answers, Old
<1>3. Told'  BY Zenon, <1>0 DEF IInv, Told, ToldTruly
<1>4. ASSUME NEW q \in Requests  PROVE Sound(q)'
  <2>1. CASE q = r  BY Zenon, <2>1
  <2>2. CASE q # r
    <3>1. req'[q] = req[q] /\ (guard = q => guard' = q)  BY Zenon, <2>2 DEF Only
    <3>2. req[q].rev \in Nat /\ req[q].rev <= op'.revision /\ req[q].rev # op'.revision
      BY Zenon, <1>0 DEF IInv, Sound
    <3>3. req[q].pc \notin {"dispatch", "consuming", "sending", "waiting", "closing", "telling"}
      BY Zenon, <2>2 DEF IInv, Sound, Sender, Undisturbing, Guarded, Unsettled, Terminal
    <3>4. Renewer(q) => Renewer(q)'  BY Zenon, <3>1, <3>2 DEF Renewer
    <3>5. Sender(q)'  BY Zenon, <3>1, <3>3 DEF Sender
    <3>6. Old(req[q].action) => Old(req[q].action)'  BY Zenon, <1>0, <3>1 DEF Old
    <3>7. op'.state # "absent" /\ (req[q].pc # "idle" => op'.tool = op.tool)
      BY Zenon DEF IInv, Sound, Bumped
    <3> QED
      BY <3>1, <3>2, <3>3, <3>4, <3>5, <3>6, <3>7 DEF IInv, Sound, Idempotent
  <2> QED  BY Zenon, <2>1, <2>2
<1> QED  BY Zenon, <1>1, <1>2, <1>3, <1>4 DEF IInv

\* A request between two commits, or gone, relies on nothing.
LEMMA Rests ==
  ASSUME NEW r \in Requests, req'[r].pc \in {"idle", "settle"},
         req'[r].pc = "settle" => op'.state # "absent",
         req'[r].rev \in Nat, req'[r].rev <= op'.revision
  PROVE  Sound(r)'
BY Zenon DEF Sound, Sender, Guarded, Sending

\* A row that leaves the card and the send for good, or for an unknown outcome.
LEMMA SettledRow ==
  ASSUME IInv, op.state # "absent", UNCHANGED <<decisions, remote>>,
         NEW s \in Unsettled \cup Terminal,
         op' = Moved(s) \/ op' = [Moved(s) EXCEPT !.error = TRUE],
         s \in {"CANCELLED", "EXPIRED"} => ~op.sent,
         s = "VERIFIED_SUCCESS" => writes[op.attempt] = "applied",
         s = "FAILED" => ~op.sent \/ NeverApplied(op.attempt)
  PROVE  Bumped /\ Row' /\ Attempts' /\ OutcomeTrue'
<1> USE DEF Unsettled, Terminal, decisions, remote
<1>1. /\ DOMAIN op' = OpFields /\ op'.state = s /\ op'.revision = op.revision + 1
      /\ op'.action = op.action /\ op'.attempt = op.attempt /\ op'.tool = op.tool
      /\ op'.sent = op.sent
  BY Zenon DEF IInv, Shapes, OpFields, Moved
<1>2. Bumped  BY Zenon, <1>1 DEF IInv, Shapes, Bumped
<1>3. Old(op.action)'  BY <1>1, <1>2, Grown, Zenon DEF IInv, Row, Old
<1>4. Row'  BY Zenon, <1>1, <1>3 DEF IInv, Row
<1>5. Attempts'  BY Zenon, <1>1 DEF IInv, Attempts, NeverApplied, Idempotent
<1>6. OutcomeTrue'  BY Zenon, <1>1 DEF IInv, Attempts, NeverApplied, OutcomeTrue
<1> QED  BY Zenon, <1>2, <1>4, <1>5, <1>6

\* A row that goes back to the card: its action is new, or it was there before,
\* and the write of an earlier attempt will never be applied.
LEMMA RenewedRow ==
  ASSUME IInv, op.state # "absent", UNCHANGED <<decisions, remote>>,
         NEW r \in Requests, NEW a, NEW g, NEW l,
         Renewal(r, "WAITING_LOCAL_CONFIRM", a, g, l),
         \/ a = op.action /\ op.state = "WAITING_LOCAL_CONFIRM"
         \/ a.rev = op.revision,
         op.sent => Idempotent /\ NeverApplied(op.attempt)
  PROVE  /\ Bumped /\ Row' /\ Attempts' /\ OutcomeTrue'
         /\ op'.state = "WAITING_LOCAL_CONFIRM" /\ op'.action = a
<1> USE DEF decisions, remote
<1>1. /\ DOMAIN op' = OpFields /\ op'.state = "WAITING_LOCAL_CONFIRM"
      /\ op'.revision = op.revision + 1 /\ op'.action = a
      /\ op'.attempt = 0 /\ op'.tool = op.tool /\ op'.sent = FALSE
  BY Zenon DEF IInv, Shapes, OpFields, Renewal, Moved
<1>2. Bumped  BY Zenon, <1>1 DEF Bumped
<1>3. Old(op.action)' /\ \A u \in uses : u[2] # a
  <2>1. CASE a = op.action /\ op.state = "WAITING_LOCAL_CONFIRM"
    BY <1>1, <1>2, <2>1, Grown, Zenon DEF IInv, Row, Old
  <2>2. CASE a.rev = op.revision
    BY <1>1, <1>2, <2>2, Grown DEF IInv, Answers, Old
  <2> QED  BY Zenon, <2>1, <2>2
<1>4. Row'  BY Zenon, <1>1, <1>3 DEF IInv, Row, Revisions
<1>5. \A n \in Revisions : NeverApplied(n)  BY Zenon DEF IInv, Attempts
<1>6. Attempts'  BY Zenon, <1>1, <1>5 DEF IInv, Attempts, NeverApplied, Idempotent
<1>7. OutcomeTrue'  BY Zenon, <1>1 DEF OutcomeTrue
<1> QED  BY Zenon, <1>1, <1>2, <1>4, <1>6, <1>7

\* A transition to such a state, after which request r waits for nothing.
LEMMA SettleStep ==
  ASSUME IInv, op.state # "absent", NEW r \in Requests, Only(r), Undisturbing(r),
         UNCHANGED <<decisions, remote, told>>,
         NEW s \in Unsettled \cup Terminal,
         op' = Moved(s) \/ op' = [Moved(s) EXCEPT !.error = TRUE],
         s \in {"CANCELLED", "EXPIRED"} => ~op.sent,
         s = "VERIFIED_SUCCESS" => writes[op.attempt] = "applied",
         s = "FAILED" => ~op.sent \/ NeverApplied(op.attempt),
         req'[r].pc \in {"idle", "settle"}, req'[r].rev \in {0, req[r].rev}
  PROVE  IInv'
<1>1. Bumped /\ Row' /\ Attempts' /\ OutcomeTrue'  BY Zenon, SettledRow
<1>2. req'[r].rev \in Nat /\ req'[r].rev <= op'.revision
  BY <1>1, Grown, Zenon DEF IInv, Sound
<1>3. Sound(r)'  BY Zenon, <1>1, <1>2, Rests DEF Bumped
<1> QED  BY Zenon, <1>1, <1>3, MoveStep

\* Goes, Returns, Ends and Leaves change request r alone.
LEMMA GoesOnly ==
  ASSUME IInv, NEW r \in Requests, NEW pc, Goes(r, pc),
         guard' = guard \/ Leaves(r)
  PROVE  /\ Only(r)
         /\ req'[r].pc = pc /\ req'[r].rev = req[r].rev /\ req'[r].how = req[r].how
         /\ req'[r].action = req[r].action /\ req'[r].login = req[r].login
BY Zenon DEF IInv, Shapes, Goes, Leaves, Only, ReqFields

LEMMA EndsOnly ==
  ASSUME IInv, NEW r \in Requests, Ends(r), guard' = guard \/ Leaves(r)
  PROVE  Only(r) /\ req'[r].pc = "idle" /\ req'[r].rev = 0
BY Zenon DEF IInv, Shapes, Ends, Idle, Leaves, Only, ReqFields

LEMMA BeginsOnly ==
  ASSUME IInv, NEW r \in Requests, NEW pc, NEW login, NEW how,
         Begins(r, pc, login, how),
         guard' = guard \/ guard = None
  PROVE  /\ Only(r)
         /\ req'[r].pc = pc /\ req'[r].rev = op.revision /\ req'[r].how = how
         /\ req'[r].action = op.action /\ req'[r].login = login
BY Zenon, ConstantsAssumption DEF IInv, Shapes, Begins, Only, ReqFields

LEMMA EntersOnly ==
  ASSUME IInv, NEW r \in Requests, NEW pc, Enters(r, pc)
  PROVE  /\ Only(r) /\ guard' = r
         /\ req'[r].pc = pc /\ req'[r].rev = op.revision /\ req'[r].how = req[r].how
         /\ req'[r].action = req[r].action /\ req'[r].login = req[r].login
BY Zenon, ConstantsAssumption DEF IInv, Shapes, Enters, Only, ReqFields

\* A quiet step with no new decision.
LEMMA StillStep ==
  ASSUME IInv, NEW r \in Requests, Only(r), Sound(r)',
         UNCHANGED <<op, remote, told, confirmed, rejected>>,
         gates \subseteq gates'
  PROVE  IInv'
<1>1. confirmed' \cap rejected' = {} /\ \A a \in confirmed' : Old(a)
  BY Zenon DEF IInv, Answers
<1> QED  BY Zenon, <1>1, QuietStep

\* A quiet step after which request r is between two commits or gone.
LEMMA RestStep ==
  ASSUME IInv, NEW r \in Requests, Only(r),
         req'[r].pc \in {"idle", "settle"}, req'[r].rev \in {0, req[r].rev},
         req'[r].pc = "settle" => req[r].pc # "idle",
         UNCHANGED <<op, decisions, remote, told>>
  PROVE  IInv'
<1>1. req'[r].rev \in Nat /\ req'[r].rev <= op'.revision
  BY Numbers, Zenon DEF IInv, Sound
<1>2. req'[r].pc = "settle" => op'.state # "absent"  BY Zenon DEF IInv, Sound
<1>3. Sound(r)'  BY Zenon, <1>1, <1>2, Rests
<1> QED  BY Zenon, <1>3, StillStep DEF decisions

-----------------------------------------------------------------------------
(* The actions.                                                            *)

LEMMA FailsStep ==
  ASSUME IInv, NEW r \in Requests, Fails(r)
  PROVE  IInv'
BY Zenon, EndsOnly, RestStep DEF Fails

LEMMA StartStep ==
  ASSUME IInv, NEW r \in Requests, NEW login, Start(r, login)
  PROVE  IInv'
<1> USE DEF Start
<1>1. /\ op.state = "absent" /\ op.revision = 0 /\ ~op.sent /\ uses = {}
      /\ DOMAIN op' = OpFields /\ op'.state = "WAITING_LOCAL_CONFIRM"
      /\ op'.revision = 1 /\ op'.action.rev = 0 /\ op'.sent = op.sent
      /\ op'.attempt = op.attempt /\ op'.tool \in DOMAIN Tools
  BY DEF IInv, Shapes, Row, Attempts, OpFields, Action
<1>2. Bumped  BY <1>1 DEF Bumped, IInv, Shapes
<1>3. Row' /\ Attempts' /\ OutcomeTrue'
  BY <1>1 DEF IInv, Row, Attempts, OutcomeTrue, Old, NeverApplied, remote
<1>4. Only(r) /\ req'[r].pc = "gate" /\ req'[r].rev = 1
  BY Zenon DEF IInv, Shapes, Only, ReqFields
<1>5. Sound(r)'
  BY <1>1, <1>4 DEF Sound, Sender, Guarded, Sending
<1> QED  BY Zenon, <1>1, <1>2, <1>3, <1>4, <1>5, MoveStep DEF Undisturbing

LEMMA ReadStep ==
  ASSUME IInv, NEW r \in Requests, NEW login, Read(r, login)
  PROVE  IInv'
<1> USE DEF Read
<1>1. Only(r) /\ req'[r].pc = "gate" /\ req'[r].rev = op.revision
  BY Zenon, BeginsOnly
<1>2. Sound(r)'
  BY <1>1, Numbers, Zenon DEF Sound, Sender, Guarded, Sending
<1> QED  BY Zenon, <1>1, <1>2, StillStep DEF decisions

LEMMA EnsureGateStep ==
  ASSUME IInv, NEW r \in Requests, EnsureGate(r)
  PROVE  IInv'
<1> USE DEF EnsureGate, At
<1>1. Only(r) /\ req'[r].pc = "adopt" /\ req'[r].rev = req[r].rev
  BY Zenon, GoesOnly
<1>2. Sound(r)'
  BY Zenon, <1>1 DEF IInv, Sound, Sender, Guarded, Sending
<1> QED  BY Zenon, <1>1, <1>2, StillStep DEF Ensured

LEMMA EnsureConfirmationStep ==
  ASSUME IInv, NEW r \in Requests, EnsureConfirmation(r)
  PROVE  IInv'
<1> USE DEF EnsureConfirmation, At
<1>1. Only(r) /\ req'[r].pc = "settle" /\ req'[r].rev = req[r].rev
  BY Zenon, GoesOnly
<1>2. ASSUME Unmoved(r)
      PROVE  op.state = "WAITING_LOCAL_CONFIRM" /\ ~op.sent /\ Undisturbing(r)
  BY Zenon, <1>2 DEF IInv, Sound, Row, Unmoved, Undisturbing
<1>3. CASE Transition(r, "EXPIRED")
  BY Zenon, <1>1, <1>2, <1>3, SettleStep DEF Transition, Terminal
<1>4. CASE Renewal(r, "WAITING_LOCAL_CONFIRM", op.action, op.action, op.login)
  <2>1. Unmoved(r)  BY Zenon, <1>4 DEF Renewal
  <2>2. Bumped /\ Row' /\ Attempts' /\ OutcomeTrue' 
    BY Zenon, <1>2, <1>4, <2>1, RenewedRow
  <2>3. Sound(r)'  BY <1>1, <2>2, Rests, Grown, Zenon DEF Bumped, IInv, Sound
  <2> QED  BY Zenon, <1>1, <1>2, <2>1, <2>2, <2>3, MoveStep
<1>5. CASE UNCHANGED op
  BY Zenon, <1>1, <1>5, RestStep
<1> QED  BY Zenon, <1>3, <1>4, <1>5

LEMMA AnswerStep ==
  ASSUME IInv, NEW r \in Requests, NEW login, NEW answer, Answer(r, login, answer)
  PROVE  IInv'
<1> USE DEF Answer
<1>1. /\ Only(r) /\ req'[r].pc \in {"decide", "refuse"} /\ req'[r].rev = op.revision
      /\ req'[r].action = op.action
      /\ req'[r].pc = "decide" => req'[r].how = "confirm"
  BY BeginsOnly
<1>2. Old(req[r].action)'  BY Zenon, <1>1 DEF IInv, Row, Old
<1>3. Sound(r)'
  BY <1>1, <1>2, Numbers, Zenon DEF Sound, Sender, Guarded, Sending
<1> QED  BY Zenon, <1>1, <1>3, StillStep DEF decisions

LEMMA ConfirmStep ==
  ASSUME IInv, NEW r \in Requests, Confirm(r)
  PROVE  IInv'
<1> USE DEF Confirm, At
<1>1. Only(r) /\ req'[r].pc = "resume" /\ req'[r].rev = req[r].rev /\ req'[r].how = "confirm"
  BY Zenon, GoesOnly DEF IInv, Sound, Sending
<1>2. Sound(r)'
  BY Zenon, <1>1 DEF IInv, Sound, Sender, Guarded, Sending
<1>3. Old(req[r].action)  BY Zenon DEF IInv, Sound
<1>4. confirmed' \cap rejected' = {} /\ \A a \in confirmed' : Old(a)
  BY Zenon, <1>3 DEF IInv, Answers
<1> QED  BY Zenon, <1>1, <1>2, <1>4, QuietStep

LEMMA RejectStep ==
  ASSUME IInv, NEW r \in Requests, Reject(r)
  PROVE  IInv'
<1> USE DEF Reject, At
<1>1. Only(r) /\ req'[r].pc = "retire" /\ req'[r].rev = req[r].rev
  BY Zenon DEF IInv, Shapes, Only, ReqFields
<1>2. Sound(r)'
  BY Zenon, <1>1 DEF IInv, Sound, Sender, Guarded, Sending
<1>3. confirmed' \cap rejected' = {} /\ \A a \in confirmed' : Old(a)
  BY Zenon DEF IInv, Answers
<1> QED  BY Zenon, <1>1, <1>2, <1>3, QuietStep

LEMMA ResumeStep ==
  ASSUME IInv, NEW r \in Requests, Resume(r)
  PROVE  IInv'
<1> USE DEF Resume, At
<1>1. /\ Only(r) /\ req'[r].pc = "resuming" /\ req'[r].rev = op.revision
      /\ req'[r].how = "confirm" /\ guard' = r
  BY Zenon, EntersOnly DEF IInv, Sound, Sending
<1>2. Sound(r)'
  BY <1>1, Numbers, Zenon DEF IInv, Sound, Sender
<1> QED  BY Zenon, <1>1, <1>2, StillStep DEF decisions

LEMMA RetireRejectedStep ==
  ASSUME IInv, NEW r \in Requests, RetireRejected(r)
  PROVE  IInv'
<1> USE DEF RetireRejected, At
<1>1. Only(r) /\ req'[r].pc = "retiring" /\ req'[r].rev = op.revision /\ guard' = r
  BY Zenon, EntersOnly
<1>2. Sound(r)'
  BY <1>1, Numbers, Zenon DEF IInv, Sound, Sender, Sending
<1> QED  BY Zenon, <1>1, <1>2, StillStep DEF decisions

LEMMA ResumeLockedStep ==
  ASSUME IInv, NEW r \in Requests, ResumeLocked(r)
  PROVE  IInv'
<1> USE DEF ResumeLocked, At
<1>0. guard = r /\ Undisturbing(r) /\ op.state # "absent" /\ req[r].how = "confirm"
  BY Zenon DEF IInv, Sound, Guarded, Sending, Undisturbing
<1>1. ASSUME Returns(r)
      PROVE  Only(r) /\ req'[r].pc = "settle" /\ req'[r].rev = req[r].rev
  BY Zenon, <1>1, GoesOnly DEF Returns
<1>2. CASE Transition(r, "UNKNOWN") /\ Returns(r)
  BY Zenon, <1>0, <1>1, <1>2, SettleStep DEF Transition, Unsettled
<1>3. CASE UNCHANGED op /\ Returns(r)
  BY Zenon, <1>1, <1>3, RestStep
<1>4. CASE op.state = "WAITING_LOCAL_CONFIRM" /\ Transition(r, "EXPIRED") /\ Returns(r)
  <2>1. ~op.sent  BY Zenon, <1>4 DEF IInv, Row
  <2> QED  BY Zenon, <1>0, <1>1, <1>4, <2>1, SettleStep DEF Transition, Terminal
<1>5. CASE /\ op.state = "WAITING_LOCAL_CONFIRM" /\ op.action \in confirmed
           /\ op' = [Moved("READY") EXCEPT !.gate = op.action,
                                           !.attempt = op.revision + 1]
           /\ req' = [req EXCEPT ![r].pc = "dispatch", ![r].rev = op.revision + 1]
           /\ UNCHANGED guard
  <2>1. /\ DOMAIN op' = OpFields /\ op'.state = "READY" /\ op'.revision = op.revision + 1
        /\ op'.action = op.action /\ op'.attempt = op.revision + 1 /\ op'.tool = op.tool
        /\ op'.sent = op.sent /\ ~op.sent
    BY Zenon, <1>5 DEF IInv, Shapes, Row, OpFields, Moved
  <2>2. Bumped  BY Zenon, <2>1 DEF Bumped, IInv, Shapes
  <2>3. Old(op.action)'  BY <1>5, <2>1, <2>2, Grown, Zenon DEF IInv, Row, Old
  <2>0. op.revision + 1 \in Revisions
    <3>1. op.tool \in DOMAIN Tools /\ op.revision + 1 \in Nat
      BY <1>0 DEF IInv, Shapes, Row
    <3>2. op.revision + 1 <= Tools[op.tool].revisions
      BY <3>1, ConstantsAssumption DEF IInv, Shapes, Unmoved
    <3> QED  BY Zenon, <3>1, <3>2, AttemptNumbers
  <2>4. Row'  BY <1>5, <2>0, <2>1, <2>3 DEF IInv, Row, decisions, remote
  <2>5. Attempts' /\ OutcomeTrue'
    BY Zenon, <1>5, <2>1 DEF IInv, Attempts, OutcomeTrue, NeverApplied, Idempotent, remote
  <2>6. /\ Only(r) /\ req'[r].pc = "dispatch" /\ req'[r].rev = op.revision + 1
        /\ req'[r].how = "confirm"
    BY Zenon, <1>0, <1>5 DEF IInv, Shapes, Only, ReqFields
  <2>7. Sound(r)'
    BY <1>0, <1>5, <2>1, <2>2, <2>6, Grown, Zenon DEF Sound, Sender
  <2> QED  BY Zenon, <1>0, <2>2, <2>4, <2>5, <2>6, <2>7, MoveStep
<1> QED  BY Zenon, <1>2, <1>3, <1>4, <1>5

LEMMA DispatchStep ==
  ASSUME IInv, NEW r \in Requests, Dispatch(r)
  PROVE  IInv'
<1> USE DEF Dispatch, At
<1>1. /\ Only(r) /\ req'[r].pc \in {"closing", "consuming"} /\ req'[r].rev = req[r].rev
      /\ req'[r].how = "confirm" /\ guard = r
  BY Zenon, GoesOnly DEF IInv, Sound, Sending, Guarded
<1>2. Sound(r)'
  BY Zenon, <1>1 DEF IInv, Sound, Sender
<1> QED  BY Zenon, <1>1, <1>2, StillStep DEF decisions

LEMMA ConsumeStep ==
  ASSUME IInv, NEW r \in Requests, Consume(r)
  PROVE  IInv'
<1> USE DEF Consume, At
<1>0. /\ guard = r /\ Undisturbing(r) /\ op.state = "READY" /\ req[r].how = "confirm"
      /\ ~op.sent
  BY Zenon DEF IInv, Sound, Sender, Guarded, Sending, Undisturbing, Row
<1>1. /\ DOMAIN op' = OpFields /\ op'.state = "SENDING" /\ op'.revision = op.revision + 1
      /\ op'.action = op.action /\ op'.attempt = op.attempt /\ op'.tool = op.tool
      /\ op'.sent = TRUE
  BY Zenon DEF IInv, Shapes, OpFields, Transition, Moved
<1>2. Bumped  BY Zenon, <1>1 DEF Bumped
<1>3. Old(op.action)'  BY <1>0, <1>1, <1>2, Grown, Zenon DEF IInv, Row, Old
<1>4. Row'  BY <1>0, <1>1, <1>3 DEF IInv, Shapes, Row, decisions, remote
<1>5. Attempts' /\ OutcomeTrue'
  BY Zenon, <1>0, <1>1 DEF IInv, Attempts, OutcomeTrue, NeverApplied, Idempotent, remote
<1>6. /\ Only(r) /\ req'[r].pc = "sending" /\ req'[r].rev = op.revision + 1
      /\ req'[r].how = "confirm"
  BY Zenon, <1>0 DEF IInv, Shapes, Only, ReqFields
<1>7. (\A u \in uses' : u[2] # op'.action) /\ (~Idempotent' => uses' = {})
  BY Zenon, <1>0, <1>1 DEF IInv, Row, Attempts, Idempotent, remote
<1>8. Sound(r)'
  BY <1>0, <1>1, <1>2, <1>6, <1>7, Grown, Zenon DEF Sound, Sender
<1> QED  BY Zenon, <1>0, <1>2, <1>4, <1>5, <1>6, <1>8, MoveStep

LEMMA SendStep ==
  ASSUME IInv, NEW r \in Requests, Send(r)
  PROVE  IInv'
<1> USE DEF Send, At
<1>0. /\ guard = r /\ op.state = "SENDING" /\ req[r].how = "confirm"
      /\ op.revision = req[r].rev /\ Attempt(r) = op.attempt /\ op.sent
      /\ (\A u \in uses : u[2] # op.action) /\ (~Idempotent => uses = {})
  BY Zenon DEF IInv, Sound, Sender, Guarded, Sending, Row, Attempt
<1>1. CASE Goes(r, "closing") /\ UNCHANGED <<writes, uses>>
  <2>1. /\ Only(r) /\ req'[r].pc = "closing" /\ req'[r].rev = req[r].rev
        /\ req'[r].how = "confirm"
    BY Zenon, <1>0, <1>1, GoesOnly
  <2>2. Sound(r)'
    BY Zenon, <1>0, <1>1, <2>1 DEF IInv, Sound, Sender
  <2> QED  BY Zenon, <1>1, <2>1, <2>2, StillStep DEF decisions, remote
<1>2. CASE /\ writes' = [writes EXCEPT ![Attempt(r)] = "sent"]
           /\ uses' = uses \cup {<<Attempt(r), op.action>>}
           /\ Goes(r, "waiting")
  <2>1. Only(r) /\ req'[r].pc = "waiting" /\ req'[r].rev = req[r].rev
    BY Zenon, <1>2, GoesOnly
  <2>2. /\ DOMAIN writes' = DOMAIN writes
        /\ \A n \in Revisions : n # op.attempt => writes'[n] = writes[n]
    BY Zenon, <1>0, <1>2 DEF IInv, Shapes
  <2>3. Shapes'  BY Zenon, <2>1, <2>2 DEF IInv, Shapes, Only
  <2>4. Answers'
    BY <1>0, <1>2 DEF IInv, Answers, Row, Old, decisions
  <2>5. Row'  BY Zenon, <1>0 DEF IInv, Row, Old, decisions
  <2>6. Attempts'
    BY Zenon, <1>0, <1>2, <2>2 DEF IInv, Attempts, NeverApplied, Idempotent
  <2>7. OutcomeTrue' /\ Told'
    BY Zenon, <1>0 DEF IInv, OutcomeTrue, Told, ToldTruly, Status
  <2>8. ASSUME NEW q \in Requests  PROVE Sound(q)'
    <3>1. CASE q = r
      BY Zenon, <1>0, <2>1, <3>1 DEF IInv, Sound, Sender, Sending
    <3>2. CASE q # r
      <4>1. req'[q] = req[q] /\ guard' = guard  BY Zenon, <2>1, <3>2 DEF Only
      <4>2. req[q].pc \notin {"dispatch", "consuming", "sending", "waiting", "closing", "telling"}
        BY Zenon, <1>0, <3>2 DEF IInv, Sound, Guarded
      <4>3. Sender(q)'  BY Zenon, <4>1, <4>2 DEF Sender
      <4>4. Renewer(q) => Renewer(q)'
        BY Zenon, <1>0, <4>1 DEF Renewer, Unsettled
      <4> QED  BY ZenonT(40), <4>1, <4>2, <4>3, <4>4 DEF IInv, Sound, Idempotent, Old, decisions
    <3> QED  BY Zenon, <3>1, <3>2
  <2> QED  BY Zenon, <2>3, <2>4, <2>5, <2>6, <2>7, <2>8 DEF IInv
<1> QED  BY Zenon, <1>1, <1>2

LEMMA AnsweredStep ==
  ASSUME IInv, NEW r \in Requests, Answered(r)
  PROVE  IInv'
<1> USE DEF Answered, At
<1>0. guard = r /\ op.state = "SENDING" /\ op.revision = req[r].rev /\ Attempt(r) = op.attempt
  BY Zenon DEF IInv, Sound, Sender, Guarded, Row, Attempt
<1>1. /\ Only(r) /\ req'[r].pc = "closing" /\ req'[r].rev = req[r].rev
      /\ req'[r].how = "VERIFIED_SUCCESS" => writes[op.attempt] = "applied"
  BY <1>0 DEF IInv, Shapes, Only, ReqFields
<1>2. Sound(r)'
  BY Zenon, <1>0, <1>1 DEF IInv, Sound, Sender, Sending, remote
<1> QED  BY Zenon, <1>1, <1>2, StillStep DEF decisions

LEMMA CloseStep ==
  ASSUME IInv, NEW r \in Requests, Close(r)
  PROVE  IInv'
<1> USE DEF Close, At
<1>0. guard = r /\ Undisturbing(r)  BY Zenon DEF IInv, Sound, Guarded, Undisturbing
<1>1. Only(r) /\ req'[r].pc = "settle" /\ req'[r].rev = req[r].rev
  BY Zenon, GoesOnly DEF Returns
<1>2. CASE op.state = "READY" /\ Failed(r)
  BY Zenon, <1>0, <1>1, <1>2, SettleStep DEF Failed, Terminal
<1>3. CASE op.state = "SENDING"
  <2> DEFINE s == IF req[r].how \in {"VERIFIED_SUCCESS", "WAITING_EXTERNAL_CONFIRM"}
                  THEN req[r].how ELSE "UNKNOWN"
  <2>1. op' = Moved(s)  BY Zenon, <1>3 DEF Transition
  <2>2. /\ s \in {"VERIFIED_SUCCESS", "WAITING_EXTERNAL_CONFIRM", "UNKNOWN"}
        /\ s = "VERIFIED_SUCCESS" => writes[op.attempt] = "applied"
    BY Zenon, <1>3 DEF IInv, Sound, Sender
  <2> HIDE DEF s
  <2> QED  BY Zenon, <1>0, <1>1, <1>3, <2>1, <2>2, SettleStep DEF Unsettled, Terminal
<1> QED  BY Zenon, <1>2, <1>3

LEMMA DiscardStep ==
  ASSUME IInv, NEW r \in Requests, NEW login, Discard(r, login)
  PROVE  IInv'
<1> USE DEF Discard
<1>1. Only(r) /\ req'[r].pc = "discarding" /\ req'[r].rev = op.revision /\ guard' = r
  BY Zenon, BeginsOnly DEF BeginsGuarded
<1>2. Sound(r)'
  BY <1>1, Numbers, Zenon DEF Sound, Sender, Sending, Calls
<1> QED  BY Zenon, <1>1, <1>2, StillStep DEF decisions

LEMMA DiscardedStep ==
  ASSUME IInv, NEW r \in Requests, Discarded(r)
  PROVE  IInv'
<1> USE DEF Discarded, At
<1>0. guard = r /\ Undisturbing(r)  BY Zenon DEF IInv, Sound, Guarded, Undisturbing
<1>1. Only(r) /\ req'[r].pc = "settle" /\ req'[r].rev = req[r].rev
  BY Zenon, GoesOnly DEF Returns
<1>2. CASE op.state \in {"WAITING_LOCAL_CONFIRM", "READY"}
  <2>1. ~op.sent  BY Zenon, <1>2 DEF IInv, Row
  <2> QED  BY Zenon, <1>0, <1>1, <1>2, <2>1, SettleStep DEF Transition, Terminal
<1>3. CASE UNCHANGED op
  BY Zenon, <1>1, <1>3, RestStep
<1> QED  BY Zenon, <1>2, <1>3

LEMMA RecoverStep ==
  ASSUME IInv, NEW r \in Requests, NEW login, Recover(r, login)
  PROVE  IInv'
<1> USE DEF Recover
<1>1. /\ Only(r) /\ req'[r].pc = "recovering" /\ req'[r].rev = op.revision /\ guard' = r
      /\ req'[r].how = None
  BY ZenonT(40), BeginsOnly DEF BeginsGuarded
<1>2. Sound(r)'
  BY <1>1, ConstantsAssumption, Numbers, Zenon DEF Sound, Sender, Sending, Calls
<1> QED  BY Zenon, <1>1, <1>2, StillStep DEF decisions

LEMMA RecoveredStep ==
  ASSUME IInv, NEW r \in Requests, Recovered(r)
  PROVE  IInv'
<1> USE DEF Recovered, At
<1>0. guard = r /\ Undisturbing(r)  BY Zenon DEF IInv, Sound, Guarded, Undisturbing
<1>1. CASE op.state = "READY" /\ ~op.sent /\ Transition(r, "CANCELLED") /\ Returns(r)
  <2>1. Only(r) /\ req'[r].pc = "settle" /\ req'[r].rev = req[r].rev
    BY Zenon, <1>1, GoesOnly DEF Returns
  <2> QED  BY Zenon, <1>0, <1>1, <2>1, SettleStep DEF Transition, Terminal
<1>2. CASE /\ op.state = "SENDING" /\ Transition(r, "UNKNOWN") /\ Leaves(r)
           /\ Goes(r, "settle")
  <2>1. Only(r) /\ req'[r].pc = "settle" /\ req'[r].rev = req[r].rev
    BY Zenon, <1>2, GoesOnly
  <2> QED  BY Zenon, <1>0, <1>2, <2>1, SettleStep DEF Transition, Unsettled
<1>3. CASE /\ op.state = "SENDING" /\ Transition(r, "UNKNOWN") /\ Leaves(r)
           /\ req[r].how = "reconcile"
           /\ req' = [req EXCEPT ![r].pc = "reading", ![r].rev = op.revision + 1]
  <2>1. Only(r) /\ req'[r].pc = "reading" /\ req'[r].rev = op.revision + 1
    BY Zenon, <1>3 DEF IInv, Shapes, Leaves, Only, ReqFields
  <2>2. Bumped /\ Row' /\ Attempts' /\ OutcomeTrue'
    BY Zenon, <1>3, SettledRow DEF Transition, Unsettled
  <2>3. op'.state = "UNKNOWN" /\ Idempotent'
    BY Zenon, <1>3, <2>2 DEF IInv, Shapes, Sound, Bumped, Idempotent, Transition, Moved, OpFields
  <2>4. Sound(r)'
    BY <2>1, <2>2, <2>3, Grown, Zenon DEF Bumped, Sound, Sender, Guarded, Sending, Unsettled
  <2> QED  BY Zenon, <1>0, <2>1, <2>2, <2>4, MoveStep
<1> QED  BY Zenon, <1>1, <1>2, <1>3

LEMMA RetireStep ==
  ASSUME IInv, NEW r \in Requests, NEW login, NEW reason, Retire(r, login, reason)
  PROVE  IInv'
<1> USE DEF Retire
<1>1. Only(r) /\ req'[r].pc = "retiring" /\ req'[r].rev = op.revision /\ guard' = r
  BY Zenon, BeginsOnly DEF BeginsGuarded
<1>2. Sound(r)'
  BY <1>1, Numbers, Zenon DEF Sound, Sender, Sending, Calls
<1> QED  BY Zenon, <1>1, <1>2, StillStep DEF decisions

LEMMA RetiredStep ==
  ASSUME IInv, NEW r \in Requests, Retired(r)
  PROVE  IInv'
<1> USE DEF Retired, At
<1>0. guard = r /\ Undisturbing(r)  BY Zenon DEF IInv, Sound, Guarded, Undisturbing
<1>1. Only(r) /\ req'[r].pc = "settle" /\ req'[r].rev = req[r].rev
  BY Zenon, GoesOnly DEF Returns
<1>2. CASE UNCHANGED op
  BY Zenon, <1>1, <1>2, RestStep
<1>3. CASE op.state \in {"WAITING_LOCAL_CONFIRM", "READY"} /\ ~op.sent /\ Failed(r)
  BY Zenon, <1>0, <1>1, <1>3, SettleStep DEF Failed, Terminal
<1>4. ASSUME NEW s \in {"EXPIRED", "CANCELLED"}, ~op.sent, Transition(r, s),
             op.state \in {"WAITING_LOCAL_CONFIRM", "READY"}
      PROVE  IInv'
  BY Zenon, <1>0, <1>1, <1>4, SettleStep DEF Transition, Terminal
<1> QED  BY Zenon, <1>2, <1>3, <1>4

LEMMA ReconcileStep ==
  ASSUME IInv, NEW r \in Requests, NEW login, Reconcile(r, login)
  PROVE  IInv'
<1> USE DEF Reconcile
<1>1. CASE op.state = "SENDING" /\ BeginsGuarded(r, "recovering", login, "reconcile")
  <2>1. Only(r) /\ req'[r].pc = "recovering" /\ req'[r].rev = op.revision /\ guard' = r
    BY Zenon, <1>1, BeginsOnly DEF BeginsGuarded
  <2>2. Sound(r)'
    BY <1>1, <2>1, Numbers, Zenon DEF Sound, Sender, Sending, Calls, Idempotent
  <2> QED  BY Zenon, <2>1, <2>2, StillStep DEF decisions
<1>2. CASE /\ op.state \in {"UNKNOWN", "WAITING_EXTERNAL_CONFIRM"}
           /\ Begins(r, "reading", login, "reconcile") /\ UNCHANGED guard
  <2>1. Only(r) /\ req'[r].pc = "reading" /\ req'[r].rev = op.revision
    BY Zenon, <1>2, BeginsOnly
  <2>2. Sound(r)'
    BY <1>2, <2>1, Numbers, Zenon DEF Sound, Sender, Sending, Guarded, Unsettled, Idempotent
  <2> QED  BY Zenon, <2>1, <2>2, StillStep DEF decisions
<1> QED  BY Zenon, <1>1, <1>2

LEMMA ReconcileReadStep ==
  ASSUME IInv, NEW r \in Requests, ReconcileRead(r)
  PROVE  IInv'
<1> USE DEF ReconcileRead, At
<1>0. op.state \in Unsettled /\ Idempotent  BY Zenon DEF IInv, Sound
<1>1. CASE Returns(r)
  <2>1. Only(r) /\ req'[r].pc = "settle" /\ req'[r].rev = req[r].rev
    BY Zenon, <1>1, GoesOnly DEF Returns
  <2> QED  BY Zenon, <2>1, RestStep
<1>2. ASSUME NEW how \in {"verified", "failed", "reconcile"},
             IF how = "verified" THEN writes[op.attempt] = "applied"
                                 ELSE NeverApplied(op.attempt),
             req' = [req EXCEPT ![r].pc = "renew", ![r].how = how], UNCHANGED guard
      PROVE  IInv'
  <2>1. /\ Only(r) /\ req'[r].pc = "renew" /\ req'[r].rev = req[r].rev
        /\ req'[r].how = how
    BY Zenon, <1>2 DEF IInv, Shapes, Only, ReqFields
  <2>2. Renewer(r)'
    BY Zenon, <1>0, <1>2, <2>1 DEF Renewer, Idempotent, NeverApplied, remote
  <2>3. Sound(r)'
    BY Zenon, <1>0, <2>1, <2>2 DEF IInv, Sound, Sender, Sending, Guarded, Unsettled
  <2> QED  BY Zenon, <2>1, <2>3, StillStep DEF decisions
<1> QED  BY Zenon, <1>1, <1>2 DEF NeverApplied

LEMMA ReconciledStep ==
  ASSUME IInv, NEW r \in Requests, Reconciled(r)
  PROVE  IInv'
<1> USE DEF Reconciled, At
<1>1. Only(r) /\ req'[r].pc = "settle" /\ req'[r].rev = req[r].rev
  BY Zenon, GoesOnly DEF Returns
<1>2. /\ op.state \in Unsettled
      /\ IF req[r].how = "verified" THEN writes[op.attempt] = "applied"
                                    ELSE NeverApplied(op.attempt)
  BY Zenon, ConstantsAssumption DEF IInv, Sound, Renewer, Transition, Unmoved
<1>3. Undisturbing(r) /\ op.state # "absent"  BY Zenon, <1>2 DEF Undisturbing, Unsettled
<1>4. CASE req[r].how = "verified"
  BY <1>1, <1>2, <1>3, <1>4, SettleStep DEF Transition, Terminal
<1>5. CASE req[r].how = "failed"
  BY <1>1, <1>2, <1>3, <1>5, SettleStep DEF Transition, Terminal
<1> QED  BY Zenon, <1>4, <1>5

LEMMA RenewGateStep ==
  ASSUME IInv, NEW r \in Requests, RenewGate(r)
  PROVE  IInv'
<1> USE DEF RenewGate, At
<1>1. /\ Only(r) /\ req'[r].pc = "renewing" /\ req'[r].rev = req[r].rev
      /\ req'[r].how = req[r].how
      /\ req'[r].action = RenewedAction(r, req[r].login)
  BY Zenon DEF IInv, Shapes, Only, ReqFields
<1>2. req'[r].action.rev = req'[r].rev /\ req'[r].action \in gates'
  BY <1>1 DEF RenewedAction, Action, Ensured
<1>3. Renewer(r)'
  BY Zenon, <1>1 DEF IInv, Sound, Renewer, Idempotent, NeverApplied, remote
<1>4. Sound(r)'
  BY Zenon, <1>1, <1>2, <1>3 DEF IInv, Sound, Sender, Guarded, Sending
<1> QED  BY Zenon, <1>1, <1>4, StillStep DEF Ensured

LEMMA RenewConfirmationStep ==
  ASSUME IInv, NEW r \in Requests, RenewConfirmation(r)
  PROVE  IInv'
<1> USE DEF RenewConfirmation, At
<1>0. op.state # "absent" /\ req[r].action.rev = req[r].rev /\ Renewer(r)
  BY Zenon DEF IInv, Sound
<1>1. CASE /\ op.state = "WAITING_LOCAL_CONFIRM" /\ Transition(r, "EXPIRED")
           /\ Ends(r) /\ Leaves(r)
  <2>1. Only(r) /\ req'[r].pc = "idle" /\ req'[r].rev = 0
    BY Zenon, <1>1, EndsOnly
  <2>2. ~op.sent /\ Undisturbing(r)  BY Zenon, <1>1 DEF IInv, Row, Undisturbing
  <2> QED  BY Zenon, <1>0, <1>1, <2>1, <2>2, SettleStep DEF Transition, Terminal
<1>2. CASE /\ Renewal(r, "WAITING_LOCAL_CONFIRM", req[r].action, req[r].action, req[r].login)
           /\ Returns(r)
  <2>1. op.revision = req[r].rev  BY Zenon, <1>2 DEF Renewal, Unmoved
  <2>2. /\ op.sent => Idempotent /\ NeverApplied(op.attempt)
        /\ Undisturbing(r)
    BY Zenon, <1>0, <2>1 DEF IInv, Sound, Renewer, Undisturbing
  <2>3. Bumped /\ Row' /\ Attempts' /\ OutcomeTrue'
    BY Zenon, <1>0, <1>2, <2>1, <2>2, RenewedRow
  <2>4. Only(r) /\ req'[r].pc = "settle" /\ req'[r].rev = req[r].rev
    BY Zenon, <1>2, GoesOnly DEF Returns
  <2>5. Sound(r)'  BY <2>3, <2>4, Rests, Grown, Zenon DEF Bumped, IInv, Sound
  <2> QED  BY Zenon, <2>2, <2>3, <2>4, <2>5, MoveStep
<1> QED  BY Zenon, <1>1, <1>2

LEMMA TakeoverStep ==
  ASSUME IInv, NEW r \in Requests, NEW login, Takeover(r, login)
  PROVE  IInv'
<1> USE DEF Takeover
<1>1. /\ Only(r) /\ req'[r].pc = "taking" /\ req'[r].rev = op.revision /\ guard' = r
      /\ req'[r].how = None
  BY BeginsOnly DEF BeginsGuarded
<1>2. Sound(r)'
  BY <1>1, Numbers, Zenon DEF Sound, Sender, Sending, Calls
<1> QED  BY Zenon, <1>1, <1>2, StillStep DEF decisions

LEMMA TakeoverLockedStep ==
  ASSUME IInv, NEW r \in Requests, TakeoverLocked(r)
  PROVE  IInv'
<1> USE DEF TakeoverLocked, At
<1>0. guard = r /\ Undisturbing(r) /\ op.state # "absent" /\ req[r].how = None
  BY Zenon DEF IInv, Sound, Guarded, Undisturbing
<1>1. CASE /\ op.state = "SENDING" /\ Transition(r, "UNKNOWN")
           /\ req' = [req EXCEPT ![r].rev = op.revision + 1]
  <2>1. /\ Only(r) /\ req'[r].pc = "taking" /\ req'[r].rev = op.revision + 1
        /\ req'[r].how = None
    BY Zenon, <1>0, <1>1 DEF IInv, Shapes, Only, ReqFields
  <2>2. Bumped /\ Row' /\ Attempts' /\ OutcomeTrue'
    BY Zenon, <1>1, SettledRow DEF Transition, Unsettled
  <2>3. Sound(r)'
    BY <1>0, <2>1, <2>2, Grown, Zenon DEF Bumped, Sound, Sender, Sending
  <2> QED  BY Zenon, <1>0, <2>1, <2>2, <2>3, MoveStep
<1>2. CASE /\ op.state # "SENDING" /\ op.sent /\ Idempotent
           /\ Renewal(r, "UNKNOWN", Action("takeover", op.revision, req[r].login),
                      None, req[r].login)
           /\ req' = [req EXCEPT ![r].pc = "reading", ![r].rev = op.revision + 1]
  <2>1. Only(r) /\ req'[r].pc = "reading" /\ req'[r].rev = op.revision + 1
    BY Zenon, <1>2 DEF IInv, Shapes, Only, ReqFields
  <2>2. /\ DOMAIN op' = OpFields /\ op'.state = "UNKNOWN"
        /\ op'.revision = op.revision + 1 /\ op'.action.rev = op.revision
        /\ op'.attempt = op.attempt /\ op'.tool = op.tool /\ op'.sent = TRUE
    BY Zenon, <1>2 DEF IInv, Shapes, OpFields, Renewal, Moved, Action
  <2>3. Bumped  BY Zenon, <2>2 DEF Bumped
  <2>4. Row'  BY <2>2 DEF IInv, Shapes, Row, Old
  <2>5. Attempts' /\ OutcomeTrue'
    BY Zenon, <1>2, <2>2 DEF IInv, Attempts, OutcomeTrue, NeverApplied, Idempotent, remote
  <2>6. Sound(r)'
    BY <1>0, <1>2, <2>1, <2>2, <2>3, Grown, Zenon DEF Sound, Sender, Guarded, Sending,
       Unsettled, Idempotent
  <2> QED  BY Zenon, <1>0, <2>1, <2>3, <2>4, <2>5, <2>6, MoveStep
<1>3. CASE ~op.sent /\ Goes(r, "renew") /\ UNCHANGED op
  <2>1. /\ Only(r) /\ req'[r].pc = "renew" /\ req'[r].rev = req[r].rev
        /\ req'[r].how = None
    BY Zenon, <1>0, <1>3, GoesOnly
  <2>2. Renewer(r)'  BY Zenon, <1>0, <1>3, <2>1 DEF Renewer
  <2>3. Sound(r)'
    BY Zenon, <1>0, <1>3, <2>1, <2>2 DEF IInv, Sound, Sender, Guarded, Sending
  <2> QED  BY Zenon, <1>3, <2>1, <2>3, StillStep DEF decisions
<1> QED  BY Zenon, <1>1, <1>2, <1>3

LEMMA RebindStep ==
  ASSUME IInv, NEW r \in Requests, NEW login, NEW answer, Rebind(r, login, answer)
  PROVE  IInv'
<1> USE DEF Rebind
<1>1. Only(r) /\ req'[r].pc = "rebinding" /\ req'[r].rev = op.revision /\ guard' = r
  BY Zenon, BeginsOnly DEF BeginsGuarded
<1>2. Sound(r)'
  BY <1>1, Numbers, Zenon DEF Sound, Sender, Sending, Calls
<1> QED  BY Zenon, <1>1, <1>2, StillStep DEF decisions

LEMMA RebindSessionStep ==
  ASSUME IInv, NEW r \in Requests, RebindSession(r)
  PROVE  IInv'
<1> USE DEF RebindSession, At
<1>1. /\ Only(r) /\ req'[r].pc = "rebound" /\ req'[r].rev = req[r].rev
      /\ req'[r].action = ReboundAction(r)
  BY Zenon DEF IInv, Shapes, Only, ReqFields
<1>2. req'[r].action.rev = req'[r].rev /\ req'[r].action \in gates'
  BY <1>1 DEF ReboundAction, Action, Ensured
<1>3. guard = r  BY Zenon DEF IInv, Sound, Guarded
<1>4. Sound(r)'
  BY Zenon, <1>1, <1>2, <1>3 DEF IInv, Sound, Sender, Sending
<1> QED  BY Zenon, <1>1, <1>4, StillStep DEF Ensured

LEMMA ReboundStep ==
  ASSUME IInv, NEW r \in Requests, Rebound(r)
  PROVE  IInv'
<1> USE DEF Rebound, At
<1>0. /\ guard = r /\ Undisturbing(r) /\ op.state = "WAITING_LOCAL_CONFIRM"
      /\ op.revision = req[r].rev /\ req[r].action.rev = op.revision
  BY Zenon DEF IInv, Sound, Guarded, Undisturbing, Renewal, Unmoved
<1>1. ~op.sent  BY Zenon, <1>0 DEF IInv, Row
<1>2. Bumped /\ Row' /\ Attempts' /\ OutcomeTrue'
  BY Zenon, <1>0, <1>1, RenewedRow
<1>3. /\ Only(r) /\ req'[r].pc \in {"decide", "refuse"} /\ req'[r].rev = req[r].rev
      /\ req'[r].action = req[r].action
      /\ req'[r].pc = "decide" => req'[r].how = "confirm"
  BY GoesOnly
<1>4. Old(req[r].action)'
  BY <1>0, <1>2, <1>3, Grown, Zenon DEF Old
<1>5. Sound(r)'
  BY <1>0, <1>2, <1>3, <1>4, Grown, Zenon DEF IInv, Bumped, Sound, Sender, Guarded, Sending
<1> QED  BY Zenon, <1>0, <1>2, <1>3, <1>5, MoveStep

LEMMA FinalizesStep ==
  ASSUME IInv, NEW r \in Requests, Finalizes(r),
         UNCHANGED <<op, decisions, remote, told>>
  PROVE  IInv'
<1> USE DEF Finalizes
<1>1. /\ Only(r) /\ req'[r].pc = "telling" /\ req'[r].rev = req[r].rev
      /\ req'[r].how = Status /\ guard' = r
  BY Zenon, ConstantsAssumption DEF IInv, Shapes, Only, ReqFields
<1>2. Status' = Status  BY Zenon DEF Status
<1>3. Sound(r)'
  BY Zenon, <1>1, <1>2 DEF IInv, Sound, Sender, Sending, Terminal
<1> QED  BY Zenon, <1>1, <1>3, StillStep DEF decisions

LEMMA FinalizeStep ==
  ASSUME IInv, NEW r \in Requests, Finalize(r)
  PROVE  IInv'
BY Zenon, FinalizesStep DEF Finalize

LEMMA SettleTaskStep ==
  ASSUME IInv, NEW r \in Requests, Settle(r)
  PROVE  IInv'
<1> USE DEF Settle
<1>1. CASE Finalizes(r)  BY Zenon, <1>1, FinalizesStep
<1>2. CASE Ends(r) /\ UNCHANGED guard  BY Zenon, <1>2, EndsOnly, RestStep
<1> QED  BY Zenon, <1>1, <1>2

\* Everything but Told holds whatever the task was told.
LEMMA TellStep ==
  ASSUME IInv, NEW r \in Requests, Tell(r)
  PROVE  IInv'
<1> USE DEF Tell, At, decisions, remote
<1>1. Only(r) /\ req'[r].pc = "idle" /\ req'[r].rev = 0  BY Zenon, EndsOnly
<1>2. Shapes'  BY Zenon, <1>1 DEF IInv, Shapes, Only
<1>3. Answers' /\ Row'  BY Zenon DEF IInv, Answers, Row, Old
<1>4. Attempts' /\ OutcomeTrue'
  BY Zenon DEF IInv, Attempts, NeverApplied, Idempotent, OutcomeTrue
<1>5. Told'
  <2>1. told'.status = Status /\ told'.revision = op.revision  BY Zenon DEF IInv, Sound
  <2> QED  BY <2>1 DEF IInv, Shapes, Told, ToldTruly, Status
<1>6. ASSUME NEW q \in Requests  PROVE Sound(q)'
  <2>1. CASE q = r  BY <1>1, <2>1, Rests DEF IInv, Shapes
  <2>2. CASE q # r
    <3>1. req'[q] = req[q] /\ (guard = q => guard' = q)  BY Zenon, <1>1, <2>2 DEF Only
    <3>2. Sender(q)'  BY <3>1, Zenon DEF IInv, Sound, Sender, Idempotent
    <3>3. Renewer(q) => Renewer(q)'  BY Zenon, <3>1 DEF Renewer, Idempotent, NeverApplied
    <3> QED  BY <3>1, <3>2, <3>3 DEF IInv, Sound, Idempotent, Old, Status
  <2> QED  BY Zenon, <2>1, <2>2
<1> QED  BY Zenon, <1>2, <1>3, <1>4, <1>5, <1>6 DEF IInv

\* Time changes nothing that the invariant speaks of.
LEMMA TimeStep ==
  ASSUME IInv, UNCHANGED <<op, decisions, remote, guard, req, told>>
  PROVE  IInv'
<1> USE DEF decisions, remote
<1>1. Shapes' /\ Answers' /\ Row'  BY Zenon DEF IInv, Shapes, Answers, Row, Old
<1>2. Attempts' /\ OutcomeTrue' /\ Told'
  BY Zenon DEF IInv, Attempts, NeverApplied, Idempotent, OutcomeTrue, Told, ToldTruly, Status
<1>3. ASSUME NEW q \in Requests  PROVE Sound(q)'
  <2>1. Sender(q)'  BY Zenon DEF IInv, Sound, Sender, Idempotent
  <2>2. Renewer(q) => Renewer(q)'  BY Zenon DEF Renewer, Idempotent, NeverApplied
  <2> QED  BY Zenon, <2>1, <2>2 DEF IInv, Sound, Idempotent, Old, Status
<1> QED  BY Zenon, <1>1, <1>2, <1>3 DEF IInv

\* The remote system settles only a write that is under way, so a verdict stands.
LEMMA RemoteSettlesStep ==
  ASSUME IInv, NEW n \in Revisions, RemoteSettles(n)
  PROVE  IInv'
<1> USE DEF RemoteSettles, decisions
<1>1. /\ DOMAIN writes' = DOMAIN writes
      /\ \A m \in Revisions : writes[m] # "sent" => writes'[m] = writes[m]
  BY Zenon DEF IInv, Shapes
<1>2. Shapes' /\ Answers' /\ Row'  BY Zenon, <1>1 DEF IInv, Shapes, Answers, Row, Old
<1>3. \A m \in Revisions : NeverApplied(m) => NeverApplied(m)'  BY Zenon, <1>1 DEF NeverApplied
<1>0. op.attempt \in Revisions  BY Zenon DEF IInv, Row
<1>4. Attempts' /\ OutcomeTrue' /\ Told'
  BY Zenon, <1>0, <1>1, <1>3 DEF IInv, Attempts, NeverApplied, Idempotent, OutcomeTrue, Told, ToldTruly, Status
<1>5. ASSUME NEW q \in Requests  PROVE Sound(q)'
  <2>1. Sender(q)'  BY Zenon, <1>0, <1>1 DEF IInv, Sound, Sender, Idempotent
  <2>2. Renewer(q) => Renewer(q)'
    BY Zenon, <1>0, <1>1 DEF Renewer, Idempotent, NeverApplied
  <2> QED  BY Zenon, <2>1, <2>2 DEF IInv, Sound, Idempotent, Old, Status
<1> QED  BY Zenon, <1>2, <1>4, <1>5 DEF IInv

-----------------------------------------------------------------------------
(* The invariant is inductive.                                             *)

LEMMA InitIInv ==
  ASSUME Init
  PROVE  IInv
<1> USE DEF Init
<1>1. Shapes  BY Zenon DEF Shapes, OpFields, ReqFields, Idle
<1>2. Answers /\ Row /\ Attempts /\ OutcomeTrue
  BY Zenon DEF Answers, Row, Attempts, OutcomeTrue, NeverApplied, Revisions
<1>3. Told  BY DEF Told, ToldTruly
<1>4. ASSUME NEW r \in Requests  PROVE Sound(r)
  BY DEF Sound, Sender, Guarded, Sending, Idle
<1> QED  BY Zenon, <1>1, <1>2, <1>3, <1>4 DEF IInv

LEMMA CalledIInv ==
  ASSUME IInv, NEW r \in Requests, Called(r)
  PROVE  IInv'
<1> PICK login \in Logins :
      \/ Start(r, login) \/ Read(r, login)
      \/ \E answer \in {"confirm", "reject"} :
            Answer(r, login, answer) \/ Rebind(r, login, answer)
      \/ Discard(r, login) \/ Recover(r, login) \/ Reconcile(r, login)
      \/ Takeover(r, login)
      \/ \E reason \in {"expired", "exception", "cancelled"} :
            Retire(r, login, reason)
  BY Zenon DEF Called
<1> QED
  BY StartStep, ReadStep, AnswerStep, RebindStep, DiscardStep, RecoverStep,
     ReconcileStep, TakeoverStep, RetireStep, Zenon

LEMMA StepIInv ==
  ASSUME IInv, NEW r \in Requests, Step(r)
  PROVE  IInv'
BY EnsureGateStep, EnsureConfirmationStep, ConfirmStep, RejectStep, ResumeStep,
   ResumeLockedStep, DispatchStep, ConsumeStep, SendStep, AnsweredStep, CloseStep,
   DiscardedStep, RecoveredStep, RetireRejectedStep, RetiredStep,
   ReconcileReadStep, ReconciledStep, RenewGateStep, RenewConfirmationStep,
   TakeoverLockedStep, RebindSessionStep, ReboundStep, FinalizeStep,
   SettleTaskStep, TellStep, FailsStep, Zenon DEF Step

LEMMA NextIInv ==
  ASSUME IInv, [Next]_vars
  PROVE  IInv'
<1>1. CASE \E r \in Requests : Called(r) \/ Step(r)
  BY <1>1, CalledIInv, StepIInv, Zenon
<1>2. CASE \E a : Expire(a)
  BY Zenon, <1>2, TimeStep DEF Expire
<1>3. CASE ArtifactPasses
  BY Zenon, <1>3, TimeStep DEF ArtifactPasses
<1>4. CASE \E n \in Revisions : RemoteSettles(n)
  BY <1>4, RemoteSettlesStep, Zenon
<1>5. CASE UNCHANGED vars
  BY Zenon, <1>5, TimeStep DEF vars
<1> QED  BY <1>1, <1>2, <1>3, <1>4, <1>5, Zenon DEF Next

\* The invariant of the governed operation holds in every reachable state.
THEOREM InductiveInvariant == Spec => []IInv
<1>1. Init => IInv  BY Zenon, InitIInv
<1>2. IInv /\ [Next]_vars => IInv'  BY Zenon, NextIInv
<1> QED  BY <1>1, <1>2, PTL DEF Spec

-----------------------------------------------------------------------------
(* The properties.                                                         *)

\* Every write that left was sent for an action the person confirmed and did not
\* reject, and no confirmation was used twice (consume, _renew_confirmation,
\* rebind_current_session).
THEOREM ConfirmedBeforeSent == Spec => []SentAsConfirmed
<1>1. IInv => SentAsConfirmed  BY Zenon DEF IInv, Answers, SentAsConfirmed
<1> QED  BY <1>1, InductiveInvariant, PTL

\* From READY until it has written the outcome, a sender holds the guard and the
\* row stays the one it wrote (_resume_locked, recover).
THEOREM SenderKeepsRow == Spec => []SenderUndisturbed
<1>1. ASSUME IInv  PROVE SenderUndisturbed
  <2>1. ASSUME NEW r \in Requests,
               req[r].pc \in {"dispatch", "consuming", "sending", "waiting", "closing"}
        PROVE  guard = r /\ op.revision = req[r].rev
    BY Zenon, <1>1, <2>1 DEF IInv, Sound, Sender, Guarded
  <2>2. ASSUME NEW r \in Requests, req[r].pc \in {"sending", "waiting"}
        PROVE  op.state = "SENDING" /\ op.attempt = Attempt(r)
    BY Zenon, <1>1, <2>1, <2>2 DEF IInv, Sound, Sender, Row, Attempt
  <2> QED  BY Zenon, <2>1, <2>2 DEF SenderUndisturbed
<1> QED  BY <1>1, InductiveInvariant, PTL

\* A write that is not idempotent leaves at most once in the life of its
\* operation (NON_IDEMPOTENT_TOOLS in reconcile and takeover).
THEOREM AtMostOneSend == Spec => []SentOnce
<1>1. ASSUME IInv, op.state # "absent", ~Idempotent  PROVE Cardinality(uses) <= 1
  <2>1. CASE uses = {}
    BY <2>1, FS_EmptySet
  <2>2. CASE uses # {}
    <3>1. PICK u : u \in uses  BY Zenon, <2>2
    <3>2. uses = {u}  BY Zenon, <1>1, <3>1 DEF IInv, Attempts
    <3>3. Cardinality({u}) = 1  BY Zenon, FS_Singleton
    <3> QED  BY <3>2, <3>3
  <2> QED  BY Zenon, <2>1, <2>2
<1>2. IInv => SentOnce  BY Zenon, <1>1 DEF SentOnce
<1> QED  BY <1>2, InductiveInvariant, PTL

\* A success was applied; an operation that failed, was cancelled or expired has
\* no write that was applied or could still be (_resume_locked, reconcile,
\* retire_owned_confirmation).
THEOREM OutcomeIsTrue == Spec => []OutcomeTrue
<1>1. IInv => OutcomeTrue  BY Zenon DEF IInv
<1> QED  BY <1>1, InductiveInvariant, PTL

\* The task is told the outcome of the row as it is at that moment
\* (finalize_governed_task).
THEOREM TaskToldTruly == Spec => []ToldTruly
<1>1. IInv => ToldTruly  BY Zenon DEF IInv, Told
<1> QED  BY <1>1, InductiveInvariant, PTL

\* Out of a finished state transition allows only a new card for an expired one.
LEMMA FromTerminal ==
  ASSUME op.state \in Terminal, NEW s \in Allowed(op.state)
  PROVE  op.state = "EXPIRED" /\ s = "WAITING_LOCAL_CONFIRM"
BY Zenon DEF Terminal, Allowed

\* What Final says of one step.
FinalMove ==
    /\ op.state \in Terminal \ {"EXPIRED"} => op' = op
    /\ op.state = "EXPIRED" /\ op'.state # "EXPIRED"
          => /\ op'.state = "WAITING_LOCAL_CONFIRM"
             /\ op'.action # op.action
             /\ op'.action \in gates \ confirmed

\* A transition leaves no finished state, and a renewal only an expired one.
LEMMA Leaving ==
  ASSUME NEW r \in Requests, op.state \in Terminal
  PROVE  /\ \A s : s # "WAITING_LOCAL_CONFIRM" => ~Transition(r, s)
         /\ ~Failed(r)
         /\ \A s, a, g, l : Renewal(r, s, a, g, l)
               => op.state = "EXPIRED" /\ s = "WAITING_LOCAL_CONFIRM"
<1>1. ~Failed(r)  BY Zenon DEF Failed, Terminal
<1>2. ASSUME NEW s, s # "WAITING_LOCAL_CONFIRM"  PROVE ~Transition(r, s)
  BY Zenon, <1>2, FromTerminal DEF Transition
<1>3. ASSUME NEW s, NEW a, NEW g, NEW l, Renewal(r, s, a, g, l)
      PROVE  op.state = "EXPIRED" /\ s = "WAITING_LOCAL_CONFIRM"
  BY Zenon, <1>3, FromTerminal DEF Renewal
<1> QED  BY <1>1, <1>2, <1>3, Zenon

LEMMA QuietCalls ==
  ASSUME NEW r \in Requests, Called(r), op.state \in Terminal
  PROVE  op' = op
BY Zenon DEF Called, Start, Read, Answer, Rebind, Discard, Recover, Reconcile,
   Takeover, Retire, Terminal

LEMMA QuietSteps ==
  ASSUME NEW r \in Requests,
         \/ EnsureGate(r) \/ Confirm(r) \/ Reject(r) \/ Resume(r) \/ Dispatch(r)
         \/ Send(r) \/ Answered(r) \/ RetireRejected(r) \/ ReconcileRead(r)
         \/ RenewGate(r) \/ RebindSession(r) \/ Finalize(r) \/ Settle(r)
         \/ Tell(r) \/ Fails(r)
  PROVE  op' = op
BY Zenon DEF EnsureGate, Confirm, Reject, Resume, Dispatch, Send, Answered,
   RetireRejected, ReconcileRead, RenewGate, RebindSession, Finalize, Settle,
   Tell, Fails

\* Of the handlers that write the row only a renewal by a takeover finds it
\* finished, and it finds it expired.
LEMMA FinishedSteps ==
  ASSUME IInv, NEW r \in Requests, Step(r), op.state \in Terminal, op' # op
  PROVE  /\ op.state = "EXPIRED" /\ At(r, "renewing")
         /\ Renewal(r, "WAITING_LOCAL_CONFIRM", req[r].action, req[r].action,
                    req[r].login)
<1> USE Leaving
<1>1. ~EnsureConfirmation(r)
  BY Zenon DEF EnsureConfirmation, At, IInv, Sound, Unmoved, Terminal
<1>2. ~ResumeLocked(r) /\ ~Consume(r) /\ ~Close(r)
  BY Zenon DEF ResumeLocked, Consume, Close, Terminal
<1>3. ~Discarded(r) /\ ~Recovered(r) /\ ~Retired(r) /\ ~Reconciled(r)
  BY Zenon DEF Discarded, Recovered, Retired, Reconciled, Terminal
<1>4. ~TakeoverLocked(r)  BY DEF TakeoverLocked
<1>5. ~Rebound(r)
  BY Zenon DEF Rebound, At, IInv, Sound, Renewal, Unmoved, Terminal
<1>6. RenewConfirmation(r)
  BY <1>1, <1>2, <1>3, <1>4, <1>5, QuietSteps, Zenon DEF Step
<1> QED  BY Zenon, <1>6 DEF RenewConfirmation, Terminal

LEMMA NextFinal ==
  ASSUME IInv, [Next]_vars
  PROVE  [FinalMove]_vars
<1>1. CASE op' = op  BY <1>1, Zenon DEF FinalMove
<1>2. CASE op.state \notin Terminal  BY Zenon, <1>2 DEF FinalMove, Terminal
<1>3. CASE op.state \in Terminal /\ op' # op
  <2>1. PICK r \in Requests : Called(r) \/ Step(r)
    BY <1>3, Zenon DEF Next, Expire, ArtifactPasses, RemoteSettles, vars
  <2>2. Step(r)  BY <1>3, <2>1, QuietCalls, Zenon
  <2>3. /\ op.state = "EXPIRED" /\ req[r].pc = "renewing"
        /\ Renewal(r, "WAITING_LOCAL_CONFIRM", req[r].action, req[r].action,
                   req[r].login)
    BY <1>3, <2>2, FinishedSteps, Zenon DEF At
  <2>4. op'.state = "WAITING_LOCAL_CONFIRM" /\ op'.action = req[r].action
    BY Zenon, <2>3 DEF IInv, Shapes, OpFields, Renewal, Moved
  <2>5. req[r].action.rev = op.revision /\ req[r].action \in gates
    BY Zenon, <2>3 DEF IInv, Sound, Renewal, Unmoved
  <2>6. \A a : Old(a) => a # req[r].action
    BY <2>5 DEF IInv, Shapes, Old
  <2>7. Old(op.action) /\ \A a \in confirmed : Old(a)
    BY Zenon, <2>3 DEF IInv, Row, Answers
  <2> QED  BY <2>3, <2>4, <2>5, <2>6, <2>7, Zenon DEF FinalMove, Terminal
<1> QED  BY Zenon, <1>1, <1>2, <1>3

\* A finished operation stays finished; an expired one comes back only as a new
\* card that nobody has confirmed (transition, takeover).
THEOREM FinishedStays == Spec => Final
<1>1. IInv /\ [Next]_vars => [FinalMove]_vars  BY Zenon, NextFinal
<1> QED  BY <1>1, InductiveInvariant, PTL DEF Spec, Final, FinalMove

=============================================================================
