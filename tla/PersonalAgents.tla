--------------------------- MODULE PersonalAgents ---------------------------
(***************************************************************************)
(* Personal agents: an owner publishes material and grants it to people,   *)
(* who ask by a chat message and get a private reply                       *)
(* (app/infra/persistence/personal_agents.py, app/personal_agents.py).     *)
(* The replies are deliveries of the outbox, so the module is composed     *)
(* with IMDelivery: everything after the claim of a reply is that module's.*)
(*                                                                         *)
(* The grants here are those of the agent that answers; whoever changes    *)
(* them, and whoever completes or claims a reply, holds that agent's row   *)
(* lock, so each of these transactions is one action.                      *)
(***************************************************************************)
EXTENDS IMDelivery

CONSTANTS
    Inboxes,      \* inbound events, and the im_inbox rows made for them
    Actors,       \* bindings of the people who ask
    Grants,       \* grant_id values
    Materials,    \* versions of the agent's material
    Kinds,        \* kinds of question: "private", "group" or "delegated"
    Answerers     \* slots of the workers for personal_agents.answer tasks

Slots == {"private", "group_status"}

\* origin_inbox_id and reply_slot identify a reply (ux_im_delivery_inbox_reply).
ASSUME RepliesAssumption == Deliveries = Inboxes \X Slots
ASSUME NoGrantAssumption ==
    None \notin Grants \cup Actors \cup Materials \cup Inboxes \cup {"todo", "doing"}

VARIABLES
    inbox,      \* im_inbox
    ask,        \* status of the queue row of the inbox's answer task
    answerer,   \* the answer tasks of the workers
    grant,      \* personal_agent_grants
    material,   \* personal_agent_materials
    trusted,    \* the bindings of agent, owner and actor are those at arrival
    overdue,    \* a delegated question is older than its deadline
    card        \* what the reply's card_content is

agentTables == <<inbox, ask, answerer, grant, material, trusted, overdue, card>>
agentVars == <<vars, agentTables>>

-----------------------------------------------------------------------------
(* The initial state.                                                      *)

\* An answerer is PersonalAgentService.answer in a worker; `stale' says that the
\* worker's heartbeat looks old, `answer' that the model gave one.  An expired
\* grant is still the grantee's current one.
NoInbox == [state |-> "absent", actor |-> None, kind |-> None, grant |-> None]
NoAnswerer == [phase |-> "idle", inbox |-> None, answer |-> FALSE, stale |-> FALSE]
NoGrant == [state |-> "absent", actor |-> None, material |-> None]

AgentInit ==
    /\ Init
    /\ inbox = [i \in Inboxes |-> NoInbox]
    /\ ask = [i \in Inboxes |-> None]
    /\ answerer = [w \in Answerers |-> NoAnswerer]
    /\ grant = [g \in Grants |-> NoGrant]
    /\ material = [m \in Materials |-> "absent"]
    /\ trusted = [i \in Inboxes |-> TRUE]
    /\ overdue = [i \in Inboxes |-> FALSE]
    /\ card = [d \in Deliveries |-> None]

permissions == <<grant, material>>
circumstances == <<trusted, overdue>>

-----------------------------------------------------------------------------
(* The owner.                                                              *)

Publish(m) ==
    /\ material[m] = "absent"
    /\ material' = [material EXCEPT ![m] = "published"]
    /\ UNCHANGED <<vars, inbox, ask, answerer, grant, circumstances, card>>

\* The grantee's current grant is revoked and replaced.
MakeGrant(g, a, m) ==
    /\ grant[g].state = "absent"
    /\ material[m] = "published"
    /\ grant' = [h \in Grants |->
          IF h = g THEN [state |-> "active", actor |-> a, material |-> m]
          ELSE IF grant[h].actor = a THEN [grant[h] EXCEPT !.state = "revoked"]
          ELSE grant[h]]
    /\ UNCHANGED <<vars, inbox, ask, answerer, material, circumstances, card>>

Revoke(g) ==
    /\ grant[g].state \in {"active", "expired"}
    /\ grant' = [grant EXCEPT ![g].state = "revoked"]
    /\ UNCHANGED <<vars, inbox, ask, answerer, material, circumstances, card>>

Withdraw(m) ==
    /\ material[m] \in {"published", "expired"}
    /\ material' = [material EXCEPT ![m] = "withdrawn"]
    /\ UNCHANGED <<vars, inbox, ask, answerer, grant, circumstances, card>>

Usable(g) == grant[g].state = "active" /\ material[grant[g].material] = "published"

\* _authorized, given that the inbox's identities were checked with it.
Authorized(i) ==
    /\ trusted[i]
    /\ inbox[i].grant # None
    /\ Usable(inbox[i].grant)

-----------------------------------------------------------------------------
(* The inbox.                                                              *)

\* accept: the event is stored with its answer job and with the actor's grant,
\* if one is usable and was given to the actor's present binding.  A repeated
\* event finds its row and changes nothing.
Accept(i, a, kind) ==
    /\ inbox[i].state = "absent"
    /\ \E bound \in BOOLEAN :
          LET usable == {g \in Grants : bound /\ grant[g].actor = a /\ Usable(g)} IN
          \E g \in IF usable = {} THEN {None} ELSE usable :
             inbox' = [inbox EXCEPT ![i] = [state |-> "queued", actor |-> a, kind |-> kind,
                                            grant |-> g]]
    /\ ask' = [ask EXCEPT ![i] = "todo"]
    /\ UNCHANGED <<vars, answerer, permissions, circumstances, card>>

\* Mutant: only a worker that is gone counts, not a task that was cancelled.
LostIfSilent(i) ==
    /\ ask[i] = "doing"
    /\ \A w \in Answerers : answerer[w].inbox = i => answerer[w].stale

\* maintain_inbox: the answer task ended, or its worker is gone or silent.
Lost(i) ==
    \/ ask[i] = "done"
    \/ ask[i] = "doing" /\ \A w \in Answerers : answerer[w].inbox = i => answerer[w].stale

\* Mutant: whatever the inbox is, it fails.
FailedFrom(i) ==
    [inbox EXCEPT ![i].state = IF @ = "absent" THEN @ ELSE "failed"]

\* fail, and the UPDATE of maintain_inbox.
Failed(i) ==
    [inbox EXCEPT ![i].state = IF @ \in {"queued", "running"} THEN "failed" ELSE @]

MaintainInbox(i) ==
    /\ inbox[i].state \in {"queued", "running"}
    /\ Lost(i)
    /\ inbox' = Failed(i)
    /\ UNCHANGED <<vars, ask, answerer, permissions, circumstances, card>>

-----------------------------------------------------------------------------
(* answer: a worker's task for an inbox.                                   *)

FetchAsk(w, i) ==
    /\ answerer[w].phase = "idle"
    /\ ask[i] = "todo"
    /\ ask' = [ask EXCEPT ![i] = "doing"]
    /\ answerer' = [answerer EXCEPT ![w] = [NoAnswerer EXCEPT !.phase = "fetched", !.inbox = i]]
    /\ UNCHANGED <<vars, inbox, permissions, circumstances, card>>

\* The task goes on at `phase', unless its transaction raised: then it fails,
\* whether or not the transaction was committed.
Goes(w, phase, raised) ==
    answerer' = [answerer EXCEPT ![w].phase = IF raised THEN "failing" ELSE phase]

\* claim_inbox.
ClaimInbox(w) ==
    LET i == answerer[w].inbox IN
    /\ answerer[w].phase = "fetched"
    /\ \E raised, committed \in BOOLEAN :
          /\ raised \/ committed
          /\ IF committed /\ inbox[i].state = "queued"
             THEN /\ inbox' = [inbox EXCEPT ![i].state =
                                  IF trusted[i] THEN "running" ELSE "failed"]
                  /\ Goes(w, IF trusted[i] THEN "question" ELSE "exiting", raised)
             ELSE /\ UNCHANGED inbox
                  /\ Goes(w, "exiting", raised)
    /\ UNCHANGED <<vars, ask, permissions, circumstances, card>>

\* _question: the message is read again at the provider.
Question(w) ==
    LET i == answerer[w].inbox IN
    /\ answerer[w].phase = "question"
    /\ \E raised \in BOOLEAN :
          Goes(w, IF inbox[i].kind = "private" THEN "material" ELSE "status", raised)
    /\ UNCHANGED <<vars, inbox, ask, permissions, circumstances, card>>

\* _enqueue: the reply and its send job.
Enqueued(d, content) ==
    /\ state' = [state EXCEPT ![d] = "ready"]
    /\ row' = [row EXCEPT ![d] = "todo"]
    /\ card' = [card EXCEPT ![d] = content]

\* enqueue_status.
EnqueueStatus(w) ==
    LET i == answerer[w].inbox IN
    /\ answerer[w].phase = "status"
    /\ \E raised, committed \in BOOLEAN :
          /\ raised \/ committed
          /\ Goes(w, "material", raised)
          /\ IF committed /\ inbox[i].state = "running" /\ trusted[i]
             THEN Enqueued(<<i, "group_status">>, "status")
             ELSE UNCHANGED <<state, row, card>>
    /\ UNCHANGED <<attempt, receipts, world, task, checker, provider,
                   inbox, ask, permissions, circumstances>>

Expired(i) == inbox[i].kind = "delegated" /\ overdue[i]

\* material: what the model may read, under the locks but given up afterwards.
ReadMaterial(w) ==
    LET i == answerer[w].inbox IN
    /\ answerer[w].phase = "material"
    /\ \E raised \in BOOLEAN :
          Goes(w, IF inbox[i].state = "running" /\ Authorized(i) THEN "model" ELSE "complete",
               raised \/ (inbox[i].state = "running" /\ Expired(i)))
    /\ UNCHANGED <<vars, inbox, ask, permissions, circumstances, card>>

\* answer_published_material.
Model(w) ==
    /\ answerer[w].phase = "model"
    /\ \E raised \in BOOLEAN :
          answerer' = [answerer EXCEPT ![w] = [@ EXCEPT
              !.phase = IF raised THEN "failing" ELSE "complete", !.answer = ~raised]]
    /\ UNCHANGED <<vars, inbox, ask, permissions, circumstances, card>>

\* Mutant: a question that has failed in the meantime is answered all the same.
CompletableAny(i) == inbox[i].state \in {"running", "failed"}

Completable(i) == inbox[i].state = "running"

\* What complete commits.
Completes(i, answered) ==
    \/ /\ ~Completable(i)
       /\ UNCHANGED <<inbox, state, row, card>>
    \/ /\ Completable(i) /\ ~trusted[i]
       /\ inbox' = [inbox EXCEPT ![i].state = "failed"]
       /\ UNCHANGED <<state, row, card>>
    \/ /\ Completable(i) /\ trusted[i] /\ ~Expired(i)
       /\ LET allowed == answered /\ Authorized(i) IN
          /\ inbox' = [inbox EXCEPT ![i].state = IF allowed THEN "completed" ELSE "refused"]
          /\ Enqueued(<<i, "private">>, IF allowed THEN "answer" ELSE "refusal")

\* complete; past its deadline it raises and nothing is committed.
Complete(w) ==
    LET i == answerer[w].inbox IN
    /\ answerer[w].phase = "complete"
    /\ \/ /\ \E raised \in BOOLEAN : Goes(w, "exiting", raised)
          /\ Completes(i, answerer[w].answer)
       \/ /\ Goes(w, "exiting", TRUE)
          /\ UNCHANGED <<inbox, state, row, card>>
    /\ UNCHANGED <<attempt, receipts, world, task, checker, provider,
                   ask, permissions, circumstances>>

\* The except clause; its own transaction may fail too.
Fail(w) ==
    LET i == answerer[w].inbox IN
    /\ answerer[w].phase = "failing"
    /\ Goes(w, "exiting", FALSE)
    /\ inbox' \in {Failed(i), inbox}
    /\ UNCHANGED <<vars, ask, permissions, circumstances, card>>

\* The task is cancelled: nothing is caught.
InterruptAnswer(w) ==
    /\ answerer[w].phase \notin {"idle", "exiting"}
    /\ Goes(w, "exiting", FALSE)
    /\ UNCHANGED <<vars, inbox, ask, permissions, circumstances, card>>

AnswerEnds(w) ==
    /\ answerer[w].phase = "exiting"
    /\ ask' = [ask EXCEPT ![answerer[w].inbox] = "done"]
    /\ answerer' = [answerer EXCEPT ![w] = NoAnswerer]
    /\ UNCHANGED <<vars, inbox, permissions, circumstances, card>>

\* The worker dies, and its queue row stays doing.
AnswerCrash(w) ==
    /\ answerer[w].phase # "idle"
    /\ answerer' = [answerer EXCEPT ![w] = NoAnswerer]
    /\ UNCHANGED <<vars, inbox, ask, permissions, circumstances, card>>

\* The worker is busy or cut off, and goes on later.
FallsSilent(w) ==
    /\ answerer[w].phase # "idle" /\ ~answerer[w].stale
    /\ answerer' = [answerer EXCEPT ![w].stale = TRUE]
    /\ UNCHANGED <<vars, inbox, ask, permissions, circumstances, card>>

-----------------------------------------------------------------------------
(* The claim of a reply, in a send task of the outbox.                     *)

\* Mutant: what complete found is not looked at again.
StillAuthorizedAsked(i) == inbox[i].state = "completed"

StillAuthorized(i) == Authorized(i)

\* Mutant: a reply whose outcome is unknown is taken again.
ReplyClaimableAgain(d) == state[d] \in {"ready", "unknown"}

ReplyClaimable(d) == state[d] = "ready"

\* A new attempt, with the card as it is or replaced by the refusal.
Attempted(d, content) ==
    /\ state' = [state EXCEPT ![d] = "sending"]
    /\ attempt' = [attempt EXCEPT ![d] = @ + 1]
    /\ card' = [card EXCEPT ![d] = content]

\* What claim_reply commits; `valid' is what the provider said of the question
\* and of the targets before.
ClaimsReply(d, valid) ==
    LET i == d[1]
        private == d[2] = "private"
    IN
    \/ /\ \/ ~ReplyClaimable(d)
          \/ /\ valid /\ trusted[i] /\ private
             /\ inbox[i].state \notin {"completed", "refused"}
       /\ UNCHANGED <<state, attempt, inbox, card>>
    \/ /\ ReplyClaimable(d) /\ ~(valid /\ trusted[i])
       /\ state' = [state EXCEPT ![d] = "cancelled"]
       /\ UNCHANGED <<attempt, inbox, card>>
    \/ /\ ReplyClaimable(d) /\ valid /\ trusted[i]
       /\ IF private /\ inbox[i].state = "completed" /\ ~StillAuthorized(i)
          THEN /\ inbox' = [inbox EXCEPT ![i].state = "refused"]
               /\ Attempted(d, "refusal")
          ELSE /\ private => inbox[i].state \in {"completed", "refused"}
               /\ UNCHANGED inbox
               /\ Attempted(d, card[d])

ClaimReply(t) ==
    /\ task[t].phase = "fetched"
    /\ \E valid, returned \in BOOLEAN :
          /\ ClaimsReply(task[t].delivery, valid)
          /\ AfterClaim(t, returned)
    /\ UNCHANGED <<row, receipts, world, checker, provider,
                   ask, answerer, permissions, circumstances>>

-----------------------------------------------------------------------------
(* Time and the directory.                                                 *)

GrantExpires(g) ==
    /\ grant[g].state = "active"
    /\ grant' = [grant EXCEPT ![g].state = "expired"]
    /\ UNCHANGED <<vars, inbox, ask, answerer, material, circumstances, card>>

\* A grant never outlives its material.
MaterialExpires(m) ==
    /\ material[m] = "published"
    /\ \A g \in Grants : grant[g].material = m => grant[g].state # "active"
    /\ material' = [material EXCEPT ![m] = "expired"]
    /\ UNCHANGED <<vars, inbox, ask, answerer, grant, circumstances, card>>

\* The agent, its owner's binding or the actor's is changed, or changed back.
IdentityChanges(i) ==
    /\ inbox[i].state # "absent"
    /\ trusted' = [trusted EXCEPT ![i] = ~@]
    /\ UNCHANGED <<vars, inbox, ask, answerer, permissions, overdue, card>>

DeadlinePasses(i) ==
    /\ inbox[i].kind = "delegated" /\ ~overdue[i]
    /\ overdue' = [overdue EXCEPT ![i] = TRUE]
    /\ UNCHANGED <<vars, inbox, ask, answerer, permissions, trusted, card>>

-----------------------------------------------------------------------------
Owner ==
    \/ \E m \in Materials : Publish(m) \/ Withdraw(m) \/ MaterialExpires(m)
    \/ \E g \in Grants : Revoke(g) \/ GrantExpires(g)
    \/ \E g \in Grants, a \in Actors, m \in Materials : MakeGrant(g, a, m)

Answer(w) ==
    \/ ClaimInbox(w) \/ Question(w) \/ EnqueueStatus(w) \/ ReadMaterial(w) \/ Model(w)
    \/ Complete(w) \/ Fail(w) \/ InterruptAnswer(w) \/ AnswerEnds(w) \/ AnswerCrash(w)
    \/ FallsSilent(w)

\* The outbox, whose replies are claimed here and need no confirmation.
Outbox ==
    \/ \E d \in Deliveries :
          \/ RecoverReady(d) \/ Processed(d)
          \/ \E t \in Tasks : Fetch(t, d)
    \/ \E t \in Tasks :
          \/ ClaimRollback(t) \/ Preflight(t) \/ Post(t) \/ Response(t) \/ Finish(t)
          \/ Interrupted(t) \/ TaskEnds(t) \/ Crash(t)
    \/ \E c \in Checkers : Reconcile(c)

AgentNext ==
    \/ Owner
    \/ \E i \in Inboxes :
          \/ \E a \in Actors, kind \in Kinds : Accept(i, a, kind)
          \/ MaintainInbox(i) \/ IdentityChanges(i) \/ DeadlinePasses(i)
          \/ \E w \in Answerers : FetchAsk(w, i)
    \/ \E w \in Answerers : Answer(w)
    \/ \E t \in Tasks : ClaimReply(t)
    \/ Outbox /\ UNCHANGED agentTables

AgentSpec == AgentInit /\ [][AgentNext]_agentVars

\* The workers keep taking rows and their tasks keep going, the provider and
\* the model answer or time out, and maintenance runs every minute.
AgentFairness ==
    /\ \A i \in Inboxes :
          /\ WF_agentVars(MaintainInbox(i))
          /\ SF_agentVars(\E w \in Answerers : FetchAsk(w, i))
    /\ \A w \in Answerers :
          /\ WF_agentVars(ClaimInbox(w)) /\ WF_agentVars(Question(w))
          /\ WF_agentVars(EnqueueStatus(w)) /\ WF_agentVars(ReadMaterial(w))
          /\ WF_agentVars(Model(w)) /\ WF_agentVars(Complete(w)) /\ WF_agentVars(Fail(w))
          /\ WF_agentVars(AnswerEnds(w))

FairAgentSpec == AgentSpec /\ AgentFairness

-----------------------------------------------------------------------------
(* Properties.                                                             *)

\* The question and its reply agree: a question that is open or failed has no
\* private reply, a refused one has the refusal and a completed one has an
\* answer that the grant of its own actor allowed.  This holds across the
\* answer task's failures after a commit, a maintenance that took a slow worker
\* for dead, and the change of heart in claim_reply.
ReplyMatchesInbox ==
    \A i \in Inboxes :
        LET d == <<i, "private">> IN
        /\ inbox[i].state \notin {"completed", "refused"} => state[d] = "absent"
        /\ inbox[i].state = "refused" => state[d] # "absent" /\ card[d] = "refusal"
        /\ inbox[i].state = "completed" =>
              /\ state[d] # "absent" /\ card[d] = "answer"
              /\ inbox[i].grant # None
              /\ grant[inbox[i].grant].actor = inbox[i].actor

\* Once an owner has revoked a grant or withdrawn its material, or either ran
\* out, no reply whose sending had not begun by then ever carries the answer.
RevokedStaysHome ==
    \A i \in Inboxes : [](
        /\ inbox[i].grant # None
        /\ ~Usable(inbox[i].grant)
        /\ state[<<i, "private">>] \in {"absent", "ready"}
        => [](wire[<<i, "private">>] # "none" => card[<<i, "private">>] # "answer"))

\* A question that was answered, refused or failed stays so: a late failure of
\* the task or maintenance does not reopen it or take the answer back; only the
\* claim of its reply may turn an answer into a refusal.
InboxSettled ==
    [][\A i \in Inboxes :
          /\ inbox[i].state \in {"refused", "failed"} => inbox'[i] = inbox[i]
          /\ inbox[i].state = "completed" =>
                \/ inbox'[i] = inbox[i]
                \/ inbox'[i].state = "refused" /\ state[<<i, "private">>] = "ready"
      ]_agentVars

\* Every stored question ends, even if the worker dies or the task is cancelled
\* between any two of its steps.
QuestionEnds ==
    \A i \in Inboxes :
        inbox[i].state = "queued" ~> inbox[i].state \in {"completed", "refused", "failed"}

=============================================================================
