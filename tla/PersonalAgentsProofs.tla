------------------------ MODULE PersonalAgentsProofs ------------------------
(***************************************************************************)
(* Proofs about PersonalAgents composed with the outbox, for any number of *)
(* questions, people, grants, materials, workers and reconciliations.      *)
(*                                                                         *)
(* The outbox keeps its own inductive invariant here too: a reply is       *)
(* enqueued into a slot that is still absent, and the claim of a reply     *)
(* takes an attempt in the same way as the claim of a confirmed delivery.  *)
(***************************************************************************)
EXTENDS PersonalAgents, IMDeliveryProofs

-----------------------------------------------------------------------------
(* The inductive invariant, in parts.                                      *)

Inbox == [state: {"absent", "queued", "running", "completed", "refused", "failed"},
          actor: Actors \cup {None}, kind: Kinds \cup {None}, grant: Grants \cup {None}]

Answerer == [phase: {"idle", "fetched", "question", "status", "material", "model", "complete",
                     "failing", "exiting"},
             inbox: Inboxes \cup {None}, answer: BOOLEAN, stale: BOOLEAN]

Grant == [state: {"absent", "active", "expired", "revoked"},
          actor: Actors \cup {None}, material: Materials \cup {None}]

AgentTypeOK ==
    /\ inbox \in [Inboxes -> Inbox]
    /\ ask \in [Inboxes -> {None, "todo", "doing", "done"}]
    /\ answerer \in [Answerers -> Answerer]
    /\ grant \in [Grants -> Grant]
    /\ material \in [Materials -> {"absent", "published", "expired", "withdrawn"}]
    /\ card \in [Deliveries -> {None, "status", "answer", "refusal"}]

\* A grant was made for material that was published by then, and the grant of a
\* question is its own actor's: neither is ever forgotten.
Granted ==
    /\ \A g \in Grants : grant[g].state # "absent" =>
          grant[g].material \in Materials /\ material[grant[g].material] # "absent"
    /\ \A g \in Grants : grant[g].state = "absent" => grant[g].actor = None
    /\ \A i \in Inboxes : inbox[i].grant # None =>
          /\ inbox[i].state # "absent"
          /\ grant[inbox[i].grant].state # "absent"
          /\ grant[inbox[i].grant].actor = inbox[i].actor

\* An answerer that has not yet enqueued the status in the group.
BeforeStatus(a) == a.phase \in {"question", "status"}

\* One answerer works on a question, under its queue row, and until it is past
\* the status the group has not been told anything.
Answering ==
    /\ \A i \in Inboxes : inbox[i].state = "absent" => ask[i] \notin {"todo", "doing"}
    /\ \A w \in Answerers : answerer[w].phase # "idle" =>
          answerer[w].inbox \in Inboxes /\ ask[answerer[w].inbox] = "doing"
    /\ \A v, w \in Answerers :
          answerer[v].phase # "idle" /\ answerer[w].phase # "idle"
          /\ answerer[v].inbox = answerer[w].inbox => v = w
    /\ \A w \in Answerers : BeforeStatus(answerer[w]) =>
          /\ inbox[answerer[w].inbox].state \notin {"absent", "queued"}
          /\ state[<<answerer[w].inbox, "group_status">>] = "absent"
    /\ \A i \in Inboxes : inbox[i].state \in {"absent", "queued"} =>
          state[<<i, "group_status">>] = "absent"

AgentInv ==
    /\ IInv
    /\ AgentTypeOK
    /\ Granted
    /\ Answering
    /\ ReplyMatchesInbox

-----------------------------------------------------------------------------
(* What the parts need of a step.                                          *)

\* The questions that were stored stay stored, and those that were taken up stay
\* taken up.
TakenUp(i) == inbox[i].state \notin {"absent", "queued"}

\* The tables start empty.
LEMMA InitAgentInv == AgentInit => AgentInv
  <1> SUFFICES ASSUME AgentInit PROVE AgentInv
    BY Zenon
  <1>1. IInv
    BY Zenon, InitIInv DEF AgentInit
  <1>2. AgentTypeOK
    BY Zenon DEF AgentInit, AgentTypeOK, NoInbox, Inbox, NoAnswerer, Answerer, NoGrant, Grant
  <1>3. Granted
    BY Zenon DEF AgentInit, Granted, NoInbox, NoGrant
  <1>4. \A i \in Inboxes, s \in Slots : state[<<i, s>>] = "absent"
    BY Zenon, RepliesAssumption DEF AgentInit, Init
  <1>5. Answering
    BY Zenon, <1>4, NoGrantAssumption DEF AgentInit, Answering, BeforeStatus, NoAnswerer, Slots
  <1>6. ReplyMatchesInbox
    BY Zenon, <1>4 DEF AgentInit, ReplyMatchesInbox, NoInbox, Slots
  <1>7. QED
    BY Zenon, <1>1, <1>2, <1>3, <1>5, <1>6 DEF AgentInv

\* A step that leaves the outbox alone keeps its invariant.
LEMMA OutboxRests ==
  ASSUME IInv, UNCHANGED vars
  PROVE  IInv'
  <1>1. TypeOK'
    BY Zenon DEF IInv, TypeOK, vars
  <1>2. QED
    BY Zenon, <1>1, OutsideStep DEF vars

\* A question and its reply that a step leaves as they are still agree.
LEMMA AgreementKept ==
  ASSUME AgentInv, NEW i \in Inboxes, inbox'[i] = inbox[i],
         (state'[<<i, "private">>] = "absent") <=> (state[<<i, "private">>] = "absent"),
         card'[<<i, "private">>] = card[<<i, "private">>],
         \A g \in Grants : grant[g].state # "absent" => grant'[g].actor = grant[g].actor
  PROVE  LET d == <<i, "private">> IN
         /\ inbox'[i].state \notin {"completed", "refused"} => state'[d] = "absent"
         /\ inbox'[i].state = "refused" => state'[d] # "absent" /\ card'[d] = "refusal"
         /\ inbox'[i].state = "completed" =>
              /\ state'[d] # "absent" /\ card'[d] = "answer"
              /\ inbox'[i].grant # None
              /\ grant'[inbox'[i].grant].actor = inbox'[i].actor
  <1>1. inbox[i] \in Inbox
    BY Zenon DEF AgentInv, AgentTypeOK
  <1>2. inbox[i].grant # None => inbox[i].grant \in Grants
    BY Zenon, <1>1 DEF Inbox
  <1>3. inbox[i].grant # None => grant[inbox[i].grant].state # "absent"
    BY Zenon DEF AgentInv, Granted
  <1>4. QED
    BY Zenon, <1>2, <1>3 DEF AgentInv, ReplyMatchesInbox

\* Changes of grants, materials, identities and deadlines.
LEMMA PermissionStep ==
  ASSUME AgentInv, UNCHANGED <<vars, inbox, ask, answerer, card>>, AgentTypeOK', Granted',
         \A g \in Grants : grant[g].state # "absent" => grant'[g].actor = grant[g].actor
  PROVE  AgentInv'
  <1>1. IInv'
    BY Zenon, OutboxRests DEF AgentInv
  <1>2. Answering'
    BY Zenon DEF AgentInv, Answering, BeforeStatus, vars
  <1>3. ReplyMatchesInbox'
    BY Zenon, AgreementKept DEF ReplyMatchesInbox, vars
  <1>4. QED
    BY Zenon, <1>1, <1>2, <1>3 DEF AgentInv

\* What was taken up stays so, what is absent is not asked for, and the group is
\* told nothing unless of a question whose answerer is past that.
QuestionsKept ==
    /\ \A i \in Inboxes : TakenUp(i) => TakenUp(i)'
    /\ \A i \in Inboxes : inbox'[i].state = "absent" =>
          inbox[i].state = "absent" /\ ask'[i] = ask[i]
    /\ \A i \in Inboxes : state[<<i, "group_status">>] = "absent" =>
          \/ state'[<<i, "group_status">>] = "absent"
          \/ /\ inbox'[i].state \notin {"absent", "queued"}
             /\ \A v \in Answerers : BeforeStatus(answerer'[v]) => answerer'[v].inbox # i

\* What answerer w may become: idle, or the only one for a question under its
\* queue row.
Fits(w, e) ==
    /\ e.phase # "idle" => e.inbox \in Inboxes /\ ask'[e.inbox] = "doing"
    /\ \A v \in Answerers \ {w} : answerer[v].phase # "idle" =>
          /\ ask'[answerer[v].inbox] = "doing"
          /\ e.phase # "idle" => answerer[v].inbox # e.inbox
    /\ BeforeStatus(e) =>
          /\ e.phase # "idle" /\ inbox'[e.inbox].state \notin {"absent", "queued"}
          /\ state[<<e.inbox, "group_status">>] = "absent"

\* The answerer of one question moves, or ends, while what was taken up stays so.
LEMMA AnsweringStep ==
  ASSUME AgentInv, NEW w \in Answerers, NEW e, answerer' = [answerer EXCEPT ![w] = e],
         QuestionsKept, Fits(w, e)
  PROVE  Answering'
  <1>1. answerer'[w] = e /\ \A v \in Answerers \ {w} : answerer'[v] = answerer[v]
    BY Zenon DEF AgentInv, AgentTypeOK
  <1>2. \A v \in Answerers : answerer'[v].phase # "idle" =>
          answerer'[v].inbox \in Inboxes /\ ask'[answerer'[v].inbox] = "doing"
    BY <1>1 DEF AgentInv, Answering, Fits
  <1>3. \A u, v \in Answerers :
          answerer'[u].phase # "idle" /\ answerer'[v].phase # "idle"
          /\ answerer'[u].inbox = answerer'[v].inbox => u = v
    BY <1>1 DEF AgentInv, Answering, Fits
  <1>4. \A v \in Answerers : BeforeStatus(answerer'[v]) =>
          /\ inbox'[answerer'[v].inbox].state \notin {"absent", "queued"}
          /\ state'[<<answerer'[v].inbox, "group_status">>] = "absent"
    <2> SUFFICES ASSUME NEW v \in Answerers, BeforeStatus(answerer'[v])
                 PROVE  /\ inbox'[answerer'[v].inbox].state \notin {"absent", "queued"}
                        /\ state'[<<answerer'[v].inbox, "group_status">>] = "absent"
      BY Zenon
    <2>1. CASE v = w
      BY Zenon, <2>1, <1>1 DEF Fits, QuestionsKept
    <2>2. CASE v # w
      <3>1. answerer'[v] = answerer[v] /\ answerer[v].phase # "idle"
        BY Zenon, <2>2, <1>1 DEF BeforeStatus
      <3>2. /\ answerer[v].inbox \in Inboxes /\ TakenUp(answerer[v].inbox)
            /\ state[<<answerer[v].inbox, "group_status">>] = "absent"
        BY <3>1, Zenon DEF TakenUp, AgentInv, Answering
      <3>3. inbox'[answerer[v].inbox].state \notin {"absent", "queued"}
        BY Zenon, <3>2 DEF QuestionsKept, TakenUp
      <3>4. QED
        BY Zenon, <3>1, <3>2, <3>3 DEF QuestionsKept
    <2>3. QED
      BY Zenon, <2>1, <2>2
  <1>5. \A i \in Inboxes : inbox'[i].state \in {"absent", "queued"} =>
          state'[<<i, "group_status">>] = "absent"
    BY Zenon DEF TakenUp, AgentInv, Answering, QuestionsKept
  <1>6. \A i \in Inboxes : inbox'[i].state = "absent" => ask'[i] \notin {"todo", "doing"}
    BY Zenon DEF AgentInv, Answering, QuestionsKept
  <1>7. QED
    BY Zenon, <1>2, <1>3, <1>4, <1>5, <1>6 DEF Answering, BeforeStatus

\* The answerers stay where they are.
LEMMA QuietStep ==
  ASSUME AgentInv, answerer' = answerer, ask' = ask, QuestionsKept
  PROVE  Answering'
  <1>1. \A w \in Answerers : BeforeStatus(answerer[w]) => answerer[w].phase # "idle"
    BY Zenon DEF BeforeStatus
  <1>2. \A w \in Answerers : BeforeStatus(answerer'[w]) =>
          /\ inbox'[answerer'[w].inbox].state \notin {"absent", "queued"}
          /\ state'[<<answerer'[w].inbox, "group_status">>] = "absent"
    BY Zenon, <1>1 DEF QuestionsKept, TakenUp, AgentInv, Answering
  <1>3. \A i \in Inboxes : inbox'[i].state \in {"absent", "queued"} =>
          state'[<<i, "group_status">>] = "absent"
    BY Zenon DEF TakenUp, AgentInv, Answering, QuestionsKept
  <1>4. \A i \in Inboxes : inbox'[i].state = "absent" => ask'[i] \notin {"todo", "doing"}
    BY Zenon DEF AgentInv, Answering, QuestionsKept
  <1>5. QED
    BY Zenon, <1>2, <1>3, <1>4 DEF AgentInv, Answering, BeforeStatus

\* A question that is open is taken up or fails.
Moved(i) ==
    /\ inbox[i].state \in {"queued", "running"}
    /\ \E s \in {"running", "failed"} : inbox' = [inbox EXCEPT ![i].state = s]

\* What the parts about questions need of such a step.
LEMMA InboxStep ==
  ASSUME AgentInv, UNCHANGED <<vars, permissions, card>>,
         inbox' = inbox \/ \E i \in Inboxes : Moved(i)
  PROVE  /\ IInv' /\ Granted' /\ ReplyMatchesInbox'
         /\ inbox' \in [Inboxes -> Inbox]
         /\ \A i \in Inboxes : TakenUp(i) => TakenUp(i)'
         /\ \A i \in Inboxes : inbox'[i].state = "absent" => inbox[i].state = "absent"
  <1>1. IInv' /\ UNCHANGED <<state, grant, material, card>>
    BY Zenon, OutboxRests DEF AgentInv, permissions, vars
  <1>2. inbox \in [Inboxes -> Inbox]
    BY Zenon DEF AgentInv, AgentTypeOK
  <1>3. CASE inbox' = inbox
    <2>1. ReplyMatchesInbox'
      BY Zenon, <1>1, <1>3, AgreementKept DEF ReplyMatchesInbox
    <2>2. QED
      BY Zenon, <1>1, <1>2, <1>3, <2>1 DEF AgentInv, Granted, TakenUp
  <1>4. ASSUME NEW i \in Inboxes, Moved(i)
        PROVE  /\ Granted' /\ ReplyMatchesInbox'
               /\ inbox' \in [Inboxes -> Inbox]
               /\ \A j \in Inboxes : TakenUp(j) => TakenUp(j)'
               /\ \A j \in Inboxes : inbox'[j].state = "absent" => inbox[j].state = "absent"
    <2>1. PICK s \in {"running", "failed"} : inbox' = [inbox EXCEPT ![i].state = s]
      BY Zenon, <1>4 DEF Moved
    <2>2. PICK x : x = [inbox[i] EXCEPT !.state = s]
      BY Zenon
    <2>3. inbox' = [inbox EXCEPT ![i] = x]
      BY Zenon, <2>1, <2>2
    <2>4. /\ x \in Inbox /\ x.state = s /\ x.actor = inbox[i].actor /\ x.grant = inbox[i].grant
      BY Zenon, <2>2, <1>2 DEF Inbox
    <2>5. inbox'[i] = x /\ \A j \in Inboxes \ {i} : inbox'[j] = inbox[j]
      BY Zenon, <2>3, <1>2
    <2>6. inbox' \in [Inboxes -> Inbox]
      BY Zenon, <2>3, <2>4, <1>2
    <2>7. Granted'
      BY <2>4, <2>5, <1>1 DEF AgentInv, Granted
    <2>8. \A j \in Inboxes : TakenUp(j) => TakenUp(j)'
      BY Zenon, <2>4, <2>5 DEF TakenUp
    <2>9. state'[<<i, "private">>] = "absent"
      BY Zenon, <1>1, <1>4 DEF Moved, AgentInv, ReplyMatchesInbox
    <2>10. ReplyMatchesInbox'
      BY Zenon, <2>4, <2>5, <2>9, <1>1, AgreementKept DEF ReplyMatchesInbox
    <2>11. \A j \in Inboxes : inbox'[j].state = "absent" => inbox[j].state = "absent"
      BY Zenon, <2>4, <2>5
    <2>12. QED
      BY Zenon, <2>6, <2>7, <2>8, <2>10, <2>11
  <1>5. QED
    BY Zenon, <1>1, <1>3, <1>4

\* The worker of an answer task goes on with it or gives it up; the question
\* stays or is moved.
LEMMA AnswererStep ==
  ASSUME AgentInv, NEW w \in Answerers, NEW e \in Answerer,
         answerer' = [answerer EXCEPT ![w] = e], answerer[w].phase # "idle",
         e.phase = "idle" \/ e.inbox = answerer[w].inbox,
         BeforeStatus(e) =>
            \/ BeforeStatus(answerer[w])
            \/ inbox[e.inbox].state = "queued" /\ TakenUp(e.inbox)',
         inbox' = inbox \/ \E i \in Inboxes : Moved(i),
         UNCHANGED <<vars, ask, permissions, card>>
  PROVE  AgentInv'
  <1>1. /\ IInv' /\ Granted' /\ ReplyMatchesInbox'
        /\ inbox' \in [Inboxes -> Inbox]
        /\ \A i \in Inboxes : TakenUp(i) => TakenUp(i)'
        /\ \A i \in Inboxes : inbox'[i].state = "absent" => inbox[i].state = "absent"
    BY Zenon, InboxStep
  <1>2. AgentTypeOK'
    BY Zenon, <1>1 DEF AgentInv, AgentTypeOK, permissions
  <1>3. state' = state
    BY Zenon DEF vars
  <1>4. answerer[w].inbox \in Inboxes /\ ask[answerer[w].inbox] = "doing"
    BY Zenon DEF AgentInv, Answering
  <1>5. \A v \in Answerers \ {w} : answerer[v].phase # "idle" =>
            /\ ask'[answerer[v].inbox] = "doing"
            /\ e.phase # "idle" => answerer[v].inbox # e.inbox
    BY Zenon DEF AgentInv, Answering
  <1>6. BeforeStatus(e) =>
            e.phase # "idle" /\ TakenUp(e.inbox)' /\ state[<<e.inbox, "group_status">>] = "absent"
    <2> SUFFICES ASSUME BeforeStatus(e)
                 PROVE  e.phase # "idle" /\ TakenUp(e.inbox)' /\ state[<<e.inbox, "group_status">>] = "absent"
      BY Zenon
    <2>1. e.phase # "idle" /\ e.inbox = answerer[w].inbox
      BY Zenon DEF BeforeStatus
    <2>2. CASE BeforeStatus(answerer[w])
      BY Zenon, <2>1, <2>2, <1>1, <1>4 DEF AgentInv, Answering, TakenUp
    <2>3. CASE inbox[e.inbox].state = "queued" /\ TakenUp(e.inbox)'
      BY Zenon, <2>1, <2>3, <1>4 DEF AgentInv, Answering
    <2>4. QED
      BY Zenon, <2>2, <2>3
  <1>7. Answering'
    <2>1. \A i \in Inboxes : inbox'[i].state = "absent" =>
             inbox[i].state = "absent" /\ ask'[i] = ask[i]
      BY Zenon, <1>1
    <2>2. \A i \in Inboxes : state'[<<i, "group_status">>] = state[<<i, "group_status">>]
      BY Zenon, <1>3
    <2>3. e.phase # "idle" => e.inbox \in Inboxes /\ ask'[e.inbox] = "doing"
      BY Zenon, <1>4
    <2>4. \A i \in Inboxes : TakenUp(i) => TakenUp(i)'
      BY Zenon, <1>1
    <2>5. QuestionsKept
      BY Zenon, <2>1, <2>2, <2>4 DEF QuestionsKept
    <2>6. Fits(w, e)
      BY Zenon, <2>3, <1>5, <1>6 DEF Fits, TakenUp
    <2>7. QED
      BY <2>5, <2>6, AnsweringStep, Zenon
  <1>8. QED
    BY Zenon, <1>1, <1>2, <1>7 DEF AgentInv

-----------------------------------------------------------------------------
(* The owner, the directory and the clock.                                 *)

\* New material.
LEMMA PublishStep ==
  ASSUME AgentInv, NEW m \in Materials, Publish(m) \/ Withdraw(m) \/ MaterialExpires(m)
  PROVE  AgentInv'
  <1>1. PICK s \in {"published", "expired", "withdrawn"} : material' = [material EXCEPT ![m] = s]
    BY Zenon DEF Publish, Withdraw, MaterialExpires
  <1>2. UNCHANGED <<vars, inbox, ask, answerer, grant, card>>
    BY Zenon DEF Publish, Withdraw, MaterialExpires
  <1>3. AgentTypeOK'
    BY Zenon, <1>1, <1>2 DEF AgentInv, AgentTypeOK
  <1>4. \A x \in Materials : material[x] # "absent" => material'[x] # "absent"
    BY Zenon, <1>1 DEF AgentInv, AgentTypeOK
  <1>5. Granted'
    BY Zenon, <1>2, <1>4 DEF AgentInv, Granted
  <1>6. QED
    BY Zenon, <1>2, <1>3, <1>5, PermissionStep

\* A grant ends.
LEMMA RevokeStep ==
  ASSUME AgentInv, NEW g \in Grants, Revoke(g) \/ GrantExpires(g)
  PROVE  AgentInv'
  <1>1. PICK s \in {"revoked", "expired"} : grant' = [grant EXCEPT ![g].state = s]
    BY Zenon DEF Revoke, GrantExpires
  <1>2. UNCHANGED <<vars, inbox, ask, answerer, material, card>> /\ grant[g].state # "absent"
    BY Zenon DEF Revoke, GrantExpires
  <1>3. PICK x : x = [grant[g] EXCEPT !.state = s]
    BY Zenon
  <1>4. grant[g] \in Grant /\ grant \in [Grants -> Grant]
    BY Zenon DEF AgentInv, AgentTypeOK
  <1>5. x \in Grant /\ x.state = s /\ x.actor = grant[g].actor /\ x.material = grant[g].material
    BY Zenon, <1>3, <1>4 DEF Grant
  <1>6. grant' = [grant EXCEPT ![g] = x]
    BY Zenon, <1>1, <1>3
  <1>7. grant'[g] = x /\ \A h \in Grants \ {g} : grant'[h] = grant[h]
    BY Zenon, <1>4, <1>6
  <1>8. AgentTypeOK'
    BY Zenon, <1>2, <1>5, <1>6 DEF AgentInv, AgentTypeOK
  <1>9. Granted'
    <2>1. \A h \in Grants : /\ grant'[h].actor = grant[h].actor
                            /\ grant'[h].material = grant[h].material
                            /\ (grant'[h].state = "absent") <=> (grant[h].state = "absent")
      BY Zenon, <1>2, <1>5, <1>7
    <2>2. \A i \in Inboxes : inbox[i].grant # None => inbox[i].grant \in Grants
      BY Zenon DEF AgentInv, AgentTypeOK, Inbox
    <2>3. QED
      BY <2>1, <2>2, <1>2 DEF AgentInv, Granted
  <1>10. QED
    BY Zenon, <1>2, <1>5, <1>7, <1>8, <1>9, PermissionStep

\* A new grant replaces the actor's earlier ones, which stay known.
LEMMA MakeGrantStep ==
  ASSUME AgentInv, NEW g \in Grants, NEW a \in Actors, NEW m \in Materials, MakeGrant(g, a, m)
  PROVE  AgentInv'
  <1>1. /\ UNCHANGED <<vars, inbox, ask, answerer, material, card>>
        /\ grant[g].state = "absent" /\ material[m] = "published"
    BY Zenon DEF MakeGrant
  <1>2. \A h \in Grants : grant[h] \in Grant
    BY Zenon DEF AgentInv, AgentTypeOK
  <1>3. grant'[g] = [state |-> "active", actor |-> a, material |-> m]
    BY Zenon DEF MakeGrant
  <1>4. \A h \in Grants \ {g} :
           grant'[h] = grant[h] \/ (grant[h].actor = a /\ grant'[h] = [grant[h] EXCEPT !.state = "revoked"])
    BY Zenon DEF MakeGrant
  <1>5. \A h \in Grants \ {g} : /\ grant'[h] \in Grant
                                /\ grant'[h].actor = grant[h].actor
                                /\ grant'[h].material = grant[h].material
                                /\ (grant'[h].state = "absent") <=> (grant[h].state = "absent")
    <2> SUFFICES ASSUME NEW h \in Grants \ {g}
                 PROVE  /\ grant'[h] \in Grant
                        /\ grant'[h].actor = grant[h].actor
                        /\ grant'[h].material = grant[h].material
                        /\ (grant'[h].state = "absent") <=> (grant[h].state = "absent")
      BY Zenon
    <2>1. CASE grant'[h] = grant[h]
      BY Zenon, <2>1, <1>2
    <2>2. CASE grant[h].actor = a /\ grant'[h] = [grant[h] EXCEPT !.state = "revoked"]
      <3>1. grant[h].state # "absent"
        BY Zenon, <2>2, NoGrantAssumption DEF AgentInv, Granted
      <3>2. QED
        BY Zenon, <2>2, <3>1, <1>2 DEF Grant
    <2>3. QED
      BY Zenon, <2>1, <2>2, <1>4
  <1>6. grant'[g] \in Grant /\ grant'[g].state = "active" /\ grant'[g].material = m
    BY <1>3 DEF Grant
  <1>7. AgentTypeOK'
    <2>1. grant' \in [Grants -> Grant]
      BY Zenon, <1>5, <1>6 DEF MakeGrant
    <2>2. QED
      BY Zenon, <2>1, <1>1 DEF AgentInv, AgentTypeOK
  <1>8. Granted'
    <2>1. \A h \in Grants : grant'[h].state # "absent" =>
             grant'[h].material \in Materials /\ material'[grant'[h].material] # "absent"
      <3> SUFFICES ASSUME NEW h \in Grants, grant'[h].state # "absent"
                   PROVE  grant'[h].material \in Materials /\ material'[grant'[h].material] # "absent"
        BY Zenon
      <3>1. CASE h = g
        BY Zenon, <3>1, <1>1, <1>6
      <3>2. CASE h # g /\ grant[h].state # "absent"
        BY Zenon, <3>2, <1>1, <1>5 DEF AgentInv, Granted
      <3>3. QED
        BY Zenon, <3>1, <3>2, <1>5
    <2>2. \A i \in Inboxes : inbox[i].grant # None => inbox[i].grant \in Grants \ {g}
      BY <1>1 DEF AgentInv, AgentTypeOK, Inbox, Granted
    <2>3. QED
      BY Zenon, <2>1, <2>2, <1>1, <1>5, <1>6 DEF AgentInv, Granted
  <1>9. \A h \in Grants : grant[h].state # "absent" => grant'[h].actor = grant[h].actor
    BY Zenon, <1>1, <1>5
  <1>10. QED
    BY Zenon, <1>1, <1>7, <1>8, <1>9, PermissionStep

\* A changed identity or a passed deadline changes no table.
LEMMA CircumstanceStep ==
  ASSUME AgentInv, NEW i \in Inboxes, IdentityChanges(i) \/ DeadlinePasses(i)
  PROVE  AgentInv'
  <1>1. UNCHANGED <<vars, inbox, ask, answerer, card>> /\ UNCHANGED <<grant, material>>
    BY Zenon DEF IdentityChanges, DeadlinePasses, permissions
  <1>2. AgentTypeOK' /\ Granted'
    BY Zenon, <1>1 DEF AgentInv, AgentTypeOK, Granted
  <1>3. QED
    BY Zenon, <1>1, <1>2, PermissionStep

-----------------------------------------------------------------------------
(* The inbox.                                                              *)

\* A stored question has no reply, and the grant of its own actor.
LEMMA AcceptStep ==
  ASSUME AgentInv, NEW i \in Inboxes, NEW a \in Actors, NEW kind \in Kinds, Accept(i, a, kind)
  PROVE  AgentInv'
  <1>1. /\ UNCHANGED <<vars, answerer, card>> /\ UNCHANGED <<grant, material>>
        /\ inbox[i].state = "absent" /\ ask' = [ask EXCEPT ![i] = "todo"]
    BY Zenon DEF Accept, permissions
  <1>2. PICK g \in Grants \cup {None} :
           /\ inbox' = [inbox EXCEPT ![i] = [state |-> "queued", actor |-> a, kind |-> kind, grant |-> g]]
           /\ g # None => grant[g].actor = a /\ Usable(g)
    BY Zenon DEF Accept
  <1>3. PICK x : x = [state |-> "queued", actor |-> a, kind |-> kind, grant |-> g]
    BY Zenon
  <1>4. x \in Inbox /\ x.state = "queued" /\ x.actor = a /\ x.grant = g
    BY Zenon, <1>3 DEF Inbox
  <1>5. /\ inbox' = [inbox EXCEPT ![i] = x] /\ inbox \in [Inboxes -> Inbox]
        /\ ask \in [Inboxes -> {None, "todo", "doing", "done"}]
    BY Zenon, <1>2, <1>3 DEF AgentInv, AgentTypeOK
  <1>6. inbox'[i] = x /\ \A j \in Inboxes \ {i} : inbox'[j] = inbox[j]
    BY Zenon, <1>5
  <1>7. IInv'
    BY Zenon, <1>1, OutboxRests DEF AgentInv
  <1>8. AgentTypeOK'
    BY Zenon, <1>1, <1>4, <1>5 DEF AgentInv, AgentTypeOK
  <1>9. Granted'
    BY <1>1, <1>2, <1>4, <1>6 DEF AgentInv, Granted, Usable
  <1>10. state' = state
    BY Zenon, <1>1 DEF vars
  <1>11. state[<<i, "private">>] = "absent" /\ state[<<i, "group_status">>] = "absent"
    BY Zenon, <1>1 DEF AgentInv, ReplyMatchesInbox, Answering
  <1>12. ReplyMatchesInbox'
    BY Zenon, <1>1, <1>4, <1>6, <1>10, <1>11, AgreementKept DEF ReplyMatchesInbox
  <1>13. Answering'
    <2>1. \A w \in Answerers : answerer[w].phase # "idle" => answerer[w].inbox \in Inboxes \ {i}
      BY Zenon, <1>1 DEF AgentInv, Answering
    <2>2. ask'[i] = "todo" /\ \A j \in Inboxes \ {i} : ask'[j] = ask[j]
      BY Zenon, <1>1, <1>5
    <2>3. \A j \in Inboxes : inbox'[j].state = "absent" => ask'[j] \notin {"todo", "doing"}
      BY Zenon, <2>2, <1>4, <1>6 DEF AgentInv, Answering
    <2>4. \A w \in Answerers : answerer'[w].phase # "idle" =>
            answerer'[w].inbox \in Inboxes /\ ask'[answerer'[w].inbox] = "doing"
      BY Zenon, <2>1, <2>2, <1>1 DEF AgentInv, Answering
    <2>5. \A w \in Answerers : BeforeStatus(answerer'[w]) =>
            /\ inbox'[answerer'[w].inbox].state \notin {"absent", "queued"}
            /\ state'[<<answerer'[w].inbox, "group_status">>] = "absent"
      BY Zenon, <2>1, <1>1, <1>6, <1>10 DEF AgentInv, Answering, BeforeStatus
    <2>6. \A j \in Inboxes : inbox'[j].state \in {"absent", "queued"} =>
            state'[<<j, "group_status">>] = "absent"
      BY Zenon, <1>6, <1>10, <1>11 DEF AgentInv, Answering
    <2>7. QED
      BY Zenon, <2>3, <2>4, <2>5, <2>6, <1>1 DEF AgentInv, Answering, BeforeStatus
  <1>14. QED
    BY Zenon, <1>7, <1>8, <1>9, <1>12, <1>13 DEF AgentInv

\* Maintenance gives up a question whose answer task is lost.
LEMMA MaintainInboxStep ==
  ASSUME AgentInv, NEW i \in Inboxes, MaintainInbox(i)
  PROVE  AgentInv'
  <1>1. UNCHANGED <<vars, permissions, card>> /\ UNCHANGED <<ask, answerer>>
    BY Zenon DEF MaintainInbox
  <1>2. Moved(i)
    BY Zenon DEF MaintainInbox, Failed, Moved
  <1>3. /\ IInv' /\ Granted' /\ ReplyMatchesInbox'
        /\ inbox' \in [Inboxes -> Inbox]
        /\ \A j \in Inboxes : TakenUp(j) => TakenUp(j)'
        /\ \A j \in Inboxes : inbox'[j].state = "absent" => inbox[j].state = "absent"
    BY Zenon, <1>1, <1>2, InboxStep
  <1>4. AgentTypeOK'
    BY Zenon, <1>1, <1>3 DEF AgentInv, AgentTypeOK, permissions
  <1>5. Answering'
    BY Zenon, <1>1, <1>3 DEF AgentInv, Answering, BeforeStatus, TakenUp, vars
  <1>6. QED
    BY Zenon, <1>3, <1>4, <1>5 DEF AgentInv

-----------------------------------------------------------------------------
(* The answer task.                                                        *)

\* What is known of an answerer that is not idle.
LEMMA AnswererBusy ==
  ASSUME AgentInv, NEW w \in Answerers, answerer[w].phase # "idle"
  PROVE  /\ answerer[w] \in Answerer /\ answerer[w].inbox \in Inboxes
         /\ ask[answerer[w].inbox] = "doing"
  BY Zenon DEF AgentInv, AgentTypeOK, Answering

\* An answerer that goes on at another place.
LEMMA GoesOn ==
  ASSUME AgentInv, NEW w \in Answerers, answerer[w].phase # "idle",
         NEW phase \in {"question", "status", "material", "model", "complete", "failing", "exiting"},
         NEW e, e = [answerer[w] EXCEPT !.phase = phase]
  PROVE  /\ e \in Answerer /\ e.phase = phase /\ e.inbox = answerer[w].inbox
         /\ BeforeStatus(e) <=> phase \in {"question", "status"}
  <1>1. answerer[w] \in Answerer
    BY Zenon, AnswererBusy
  <1>2. e \in Answerer /\ e.phase = phase /\ e.inbox = answerer[w].inbox
    BY <1>1, Zenon DEF Answerer
  <1>3. QED
    BY <1>2, Zenon DEF BeforeStatus

\* A task is taken, and is the only one for its question.
LEMMA FetchAskStep ==
  ASSUME AgentInv, NEW w \in Answerers, NEW i \in Inboxes, FetchAsk(w, i)
  PROVE  AgentInv'
  <1>0. PICK e : e = [NoAnswerer EXCEPT !.phase = "fetched", !.inbox = i]
    BY Zenon
  <1>1. /\ UNCHANGED <<vars, permissions, card>> /\ inbox' = inbox
        /\ ask[i] = "todo" /\ ask' = [ask EXCEPT ![i] = "doing"]
        /\ answerer' = [answerer EXCEPT ![w] = e]
    BY Zenon, <1>0 DEF FetchAsk
  <1>2. e \in Answerer /\ e.phase = "fetched" /\ e.inbox = i /\ ~BeforeStatus(e)
    BY <1>0, Zenon DEF NoAnswerer, Answerer, BeforeStatus
  <1>3. ask'[i] = "doing" /\ \A j \in Inboxes \ {i} : ask'[j] = ask[j]
    BY Zenon, <1>1 DEF AgentInv, AgentTypeOK
  <1>4. IInv' /\ Granted' /\ ReplyMatchesInbox' /\ inbox' \in [Inboxes -> Inbox]
    BY Zenon, <1>1, InboxStep
  <1>5. AgentTypeOK'
    BY Zenon, <1>1, <1>2, <1>4 DEF AgentInv, AgentTypeOK, permissions
  <1>6. \A v \in Answerers : answerer[v].phase # "idle" => answerer[v].inbox \in Inboxes \ {i}
    BY Zenon, <1>1 DEF AgentInv, Answering
  <1>7. \A v \in Answerers \ {w} : answerer[v].phase # "idle" =>
           ask'[answerer[v].inbox] = "doing" /\ answerer[v].inbox # e.inbox
    BY Zenon, <1>2, <1>3, <1>6 DEF AgentInv, Answering
  <1>8. \A j \in Inboxes : inbox'[j].state = "absent" =>
           inbox[j].state = "absent" /\ ask'[j] = ask[j]
    BY Zenon, <1>1, <1>3 DEF AgentInv, Answering
  <1>9. /\ \A j \in Inboxes : TakenUp(j) => TakenUp(j)'
        /\ \A j \in Inboxes : state'[<<j, "group_status">>] = state[<<j, "group_status">>]
    BY Zenon, <1>1 DEF TakenUp, vars
  <1>10. Answering'
    <2>1. e.phase # "idle" => e.inbox \in Inboxes /\ ask'[e.inbox] = "doing"
      BY Zenon, <1>2, <1>3
    <2>2. answerer' = [answerer EXCEPT ![w] = e]
      BY Zenon, <1>1
    <2>3. \A v \in Answerers \ {w} : answerer[v].phase # "idle" =>
            /\ ask'[answerer[v].inbox] = "doing"
            /\ e.phase # "idle" => answerer[v].inbox # e.inbox
      BY Zenon, <1>7
    <2>4. Fits(w, e)
      BY Zenon, <2>1, <2>3, <1>2 DEF Fits
    <2>5. QuestionsKept
      BY Zenon, <1>8, <1>9 DEF QuestionsKept
    <2>6. QED
      BY <2>2, <2>4, <2>5, AnsweringStep, Zenon
  <1>11. QED
    BY Zenon, <1>4, <1>5, <1>10 DEF AgentInv

\* The question is taken up, once.
LEMMA ClaimInboxStep ==
  ASSUME AgentInv, NEW w \in Answerers, ClaimInbox(w)
  PROVE  AgentInv'
  <1>1. PICK i : i = answerer[w].inbox
    BY Zenon
  <1>2. /\ answerer[w].phase = "fetched" /\ i \in Inboxes
        /\ UNCHANGED <<vars, ask, permissions, card>>
    BY Zenon, <1>1, AnswererBusy DEF ClaimInbox
  <1>3. PICK phase \in {"question", "exiting", "failing"} :
           /\ answerer' = [answerer EXCEPT ![w] = [answerer[w] EXCEPT !.phase = phase]]
           /\ \/ inbox' = inbox /\ phase # "question"
              \/ /\ inbox[i].state = "queued"
                 /\ \E s \in {"running", "failed"} : inbox' = [inbox EXCEPT ![i].state = s]
    BY <1>1, Zenon DEF ClaimInbox, Goes
  <1>4. PICK e : e = [answerer[w] EXCEPT !.phase = phase]
    BY Zenon
  <1>5. /\ e \in Answerer /\ e.phase = phase /\ e.inbox = answerer[w].inbox
        /\ BeforeStatus(e) <=> phase \in {"question", "status"}
    <2>1. /\ answerer[w].phase # "idle"
          /\ phase \in {"question", "status", "material", "model", "complete", "failing", "exiting"}
      BY Zenon, <1>2
    <2>2. QED
      BY <2>1, <1>4, GoesOn
  <1>6. CASE inbox' = inbox /\ phase # "question"
    BY Zenon, <1>2, <1>3, <1>4, <1>5, <1>6, AnswererStep
  <1>7. CASE /\ inbox[i].state = "queued"
             /\ \E s \in {"running", "failed"} : inbox' = [inbox EXCEPT ![i].state = s]
    <2>1. Moved(i)
      BY Zenon, <1>7 DEF Moved
    <2>2. TakenUp(i)'
      <3>1. PICK s \in {"running", "failed"} : inbox' = [inbox EXCEPT ![i].state = s]
        BY Zenon, <1>7
      <3>2. inbox'[i].state = s
        BY Zenon, <3>1, <1>2 DEF AgentInv, AgentTypeOK, Inbox
      <3>3. QED
        BY Zenon, <3>2 DEF TakenUp
    <2>3. QED
      BY Zenon, <2>1, <2>2, <1>1, <1>2, <1>3, <1>4, <1>5, <1>7, AnswererStep
  <1>8. QED
    BY Zenon, <1>3, <1>6, <1>7

\* Steps that only move the answerer.
LEMMA OnwardStep ==
  ASSUME AgentInv, NEW w \in Answerers, Question(w) \/ ReadMaterial(w) \/ InterruptAnswer(w)
  PROVE  AgentInv'
  <1>1. answerer[w].phase # "idle" /\ UNCHANGED <<vars, ask, permissions, card>> /\ inbox' = inbox
    BY Zenon DEF Question, ReadMaterial, InterruptAnswer
  <1>2. PICK phase \in {"status", "material", "model", "complete", "failing", "exiting"} :
           /\ answerer' = [answerer EXCEPT ![w] = [answerer[w] EXCEPT !.phase = phase]]
           /\ phase = "status" => answerer[w].phase = "question"
    BY Zenon DEF Question, ReadMaterial, InterruptAnswer, Goes
  <1>3. PICK e : e = [answerer[w] EXCEPT !.phase = phase]
    BY Zenon
  <1>4. /\ e \in Answerer /\ e.phase = phase /\ e.inbox = answerer[w].inbox
        /\ BeforeStatus(e) <=> phase \in {"question", "status"}
    <2>1. phase \in {"question", "status", "material", "model", "complete", "failing", "exiting"}
      BY Zenon
    <2>2. QED
      BY <2>1, <1>1, <1>3, GoesOn
  <1>5. BeforeStatus(e) => BeforeStatus(answerer[w])
    BY Zenon, <1>2, <1>4 DEF BeforeStatus
  <1>6. QED
    BY Zenon, <1>1, <1>2, <1>3, <1>4, <1>5, AnswererStep

\* The model's answer is kept in memory only.
LEMMA ModelStep ==
  ASSUME AgentInv, NEW w \in Answerers, Model(w)
  PROVE  AgentInv'
  <1>1. answerer[w].phase # "idle" /\ UNCHANGED <<vars, ask, permissions, card>> /\ inbox' = inbox
    BY Zenon DEF Model
  <1>2. PICK raised \in BOOLEAN :
           answerer' = [answerer EXCEPT ![w] = [answerer[w] EXCEPT
              !.phase = IF raised THEN "failing" ELSE "complete", !.answer = ~raised]]
    BY Zenon DEF Model
  <1>3. PICK e : e = [answerer[w] EXCEPT
              !.phase = IF raised THEN "failing" ELSE "complete", !.answer = ~raised]
    BY Zenon
  <1>4. e \in Answerer /\ e.inbox = answerer[w].inbox /\ e.phase \in {"failing", "complete"}
    BY Zenon, <1>1, <1>3, AnswererBusy DEF Answerer
  <1>5. ~BeforeStatus(e)
    BY Zenon, <1>4 DEF BeforeStatus
  <1>6. QED
    BY Zenon, <1>1, <1>2, <1>3, <1>4, <1>5, AnswererStep

\* A worker that falls silent still works on its question.
LEMMA FallsSilentStep ==
  ASSUME AgentInv, NEW w \in Answerers, FallsSilent(w)
  PROVE  AgentInv'
  <1>1. answerer[w].phase # "idle" /\ UNCHANGED <<vars, ask, permissions, card>> /\ inbox' = inbox
    BY Zenon DEF FallsSilent
  <1>2. PICK e : e = [answerer[w] EXCEPT !.stale = TRUE]
    BY Zenon
  <1>3. answerer' = [answerer EXCEPT ![w] = e]
    BY Zenon, <1>2 DEF FallsSilent
  <1>4. e \in Answerer /\ e.inbox = answerer[w].inbox /\ e.phase = answerer[w].phase
    BY Zenon, <1>1, <1>2, AnswererBusy DEF Answerer
  <1>5. BeforeStatus(e) <=> BeforeStatus(answerer[w])
    BY Zenon, <1>4 DEF BeforeStatus
  <1>6. QED
    BY Zenon, <1>1, <1>3, <1>4, <1>5, AnswererStep

\* The except clause fails an open question only.
LEMMA FailStep ==
  ASSUME AgentInv, NEW w \in Answerers, Fail(w)
  PROVE  AgentInv'
  <1>1. PICK i : i = answerer[w].inbox
    BY Zenon
  <1>2. /\ answerer[w].phase = "failing" /\ i \in Inboxes
        /\ UNCHANGED <<vars, ask, permissions, card>>
    BY Zenon, <1>1, AnswererBusy DEF Fail
  <1>3. PICK e : e = [answerer[w] EXCEPT !.phase = "exiting"]
    BY Zenon
  <1>4. answerer' = [answerer EXCEPT ![w] = e]
    BY Zenon, <1>3 DEF Fail, Goes
  <1>5. /\ e \in Answerer /\ e.phase = "exiting" /\ e.inbox = answerer[w].inbox
        /\ ~BeforeStatus(e)
    BY <1>2, <1>3, GoesOn
  <1>6. inbox' = inbox \/ Moved(i)
    <2>1. CASE inbox[i].state \in {"queued", "running"}
      BY <2>1, <1>1, Zenon DEF Fail, Failed, Moved
    <2>2. CASE inbox[i].state \notin {"queued", "running"}
      <3>1. inbox' \in {[inbox EXCEPT ![i].state = inbox[i].state], inbox}
        BY Zenon, <2>2, <1>1 DEF Fail, Failed
      <3>2. inbox \in [Inboxes -> Inbox]
        BY Zenon DEF AgentInv, AgentTypeOK
      <3>3. [inbox EXCEPT ![i].state = inbox[i].state] = inbox
        BY Zenon, <3>2, <1>2 DEF Inbox
      <3>4. QED
        BY Zenon, <3>1, <3>3
    <2>3. QED
      BY Zenon, <2>1, <2>2
  <1>7. QED
    BY Zenon, <1>2, <1>4, <1>5, <1>6, AnswererStep

\* A worker that dies leaves the queue row as it is.
LEMMA AnswerCrashStep ==
  ASSUME AgentInv, NEW w \in Answerers, AnswerCrash(w)
  PROVE  AgentInv'
  <1>1. /\ answerer[w].phase # "idle" /\ UNCHANGED <<vars, ask, permissions, card>> /\ inbox' = inbox
        /\ answerer' = [answerer EXCEPT ![w] = NoAnswerer]
    BY Zenon DEF AnswerCrash
  <1>2. NoAnswerer \in Answerer /\ NoAnswerer.phase = "idle" /\ ~BeforeStatus(NoAnswerer)
    BY Zenon DEF NoAnswerer, Answerer, BeforeStatus
  <1>3. QED
    BY Zenon, <1>1, <1>2, AnswererStep

\* The end of the task ends its queue row, which no other answerer works under.
LEMMA AnswerEndsStep ==
  ASSUME AgentInv, NEW w \in Answerers, AnswerEnds(w)
  PROVE  AgentInv'
  <1>1. PICK i : i = answerer[w].inbox
    BY Zenon
  <1>2. /\ answerer[w].phase = "exiting" /\ i \in Inboxes /\ ask[i] = "doing"
        /\ UNCHANGED <<vars, permissions, card>> /\ inbox' = inbox
        /\ ask' = [ask EXCEPT ![i] = "done"]
        /\ answerer' = [answerer EXCEPT ![w] = NoAnswerer]
    BY Zenon, <1>1, AnswererBusy DEF AnswerEnds
  <1>3. NoAnswerer \in Answerer /\ NoAnswerer.phase = "idle" /\ ~BeforeStatus(NoAnswerer)
    BY Zenon DEF NoAnswerer, Answerer, BeforeStatus
  <1>4. IInv' /\ Granted' /\ ReplyMatchesInbox' /\ inbox' \in [Inboxes -> Inbox]
    BY Zenon, <1>2, InboxStep
  <1>5. AgentTypeOK'
    BY Zenon, <1>2, <1>3, <1>4 DEF AgentInv, AgentTypeOK, permissions
  <1>6. \A j \in Inboxes \ {i} : ask'[j] = ask[j]
    BY Zenon, <1>2 DEF AgentInv, AgentTypeOK
  <1>7. \A v \in Answerers \ {w} : answerer[v].phase # "idle" =>
           answerer[v].inbox \in Inboxes \ {i} /\ ask[answerer[v].inbox] = "doing"
    BY Zenon, <1>1, <1>2 DEF AgentInv, Answering
  <1>8. \A j \in Inboxes : inbox'[j].state = "absent" =>
           inbox[j].state = "absent" /\ ask'[j] = ask[j]
    BY Zenon, <1>2, <1>6 DEF AgentInv, Answering
  <1>9. /\ \A j \in Inboxes : TakenUp(j) => TakenUp(j)'
        /\ \A j \in Inboxes : state'[<<j, "group_status">>] = state[<<j, "group_status">>]
    BY Zenon, <1>2 DEF TakenUp, vars
  <1>10. PICK e : e = NoAnswerer
    BY Zenon
  <1>11. Answering'
    <2>1. answerer' = [answerer EXCEPT ![w] = e]
      BY Zenon, <1>2, <1>10
    <2>2. e.phase # "idle" => e.inbox \in Inboxes /\ ask'[e.inbox] = "doing"
      BY Zenon, <1>3, <1>10
    <2>3. \A v \in Answerers \ {w} : answerer[v].phase # "idle" =>
            /\ ask'[answerer[v].inbox] = "doing"
            /\ e.phase # "idle" => answerer[v].inbox # e.inbox
      BY Zenon, <1>3, <1>6, <1>7, <1>10
    <2>4. Fits(w, e)
      BY Zenon, <2>2, <2>3, <1>3, <1>10 DEF Fits
    <2>5. QuestionsKept
      BY Zenon, <1>8, <1>9 DEF QuestionsKept
    <2>6. QED
      BY <2>1, <2>4, <2>5, AnsweringStep, Zenon
  <1>12. QED
    BY Zenon, <1>4, <1>5, <1>11 DEF AgentInv

-----------------------------------------------------------------------------
(* Replies are enqueued.                                                   *)

\* The slots of a question are different rows of the outbox.
LEMMA ReplySlots ==
  ASSUME NEW i \in Inboxes, NEW s \in Slots
  PROVE  /\ <<i, s>> \in Deliveries
         /\ \A j \in Inboxes \ {i}, r \in Slots : <<j, r>> \in Deliveries \ {<<i, s>>}
         /\ \A r \in Slots \ {s} : <<i, r>> \in Deliveries \ {<<i, s>>}
  BY Zenon, RepliesAssumption DEF Slots

\* A reply is put into a slot that is still absent, without an attempt.
LEMMA EnqueueStep ==
  ASSUME AgentInv, NEW d \in Deliveries, NEW content \in {"status", "answer", "refusal"},
         state[d] = "absent", Enqueued(d, content),
         UNCHANGED <<attempt, receipts, world, task, checker, provider>>
  PROVE  /\ IInv' /\ card' \in [Deliveries -> {None, "status", "answer", "refusal"}]
         /\ state'[d] = "ready" /\ card'[d] = content
         /\ \A x \in Deliveries \ {d} : state'[x] = state[x] /\ card'[x] = card[x]
  <1>1. /\ state' = [state EXCEPT ![d] = "ready"] /\ row' = [row EXCEPT ![d] = "todo"]
        /\ card' = [card EXCEPT ![d] = content]
        /\ UNCHANGED <<attempt, receipts, expired, mapped, task, checker, wire, posts>>
    BY Zenon DEF Enqueued, world, provider
  <1>2. /\ IInv /\ state \in [Deliveries -> DeliveryState]
        /\ card \in [Deliveries -> {None, "status", "answer", "refusal"}]
    BY Zenon DEF AgentInv, AgentTypeOK, IInv, TypeOK
  <1>3. TypeOK'
    <2>1. row' \in [Deliveries -> {None, "todo", "doing", "done"}]
      BY Zenon, <1>1, <1>2 DEF IInv, TypeOK
    <2>2. state' \in [Deliveries -> DeliveryState]
      BY Zenon, <1>1, <1>2 DEF DeliveryState
    <2>3. QED
      BY Zenon, <2>1, <2>2, <1>1, <1>2 DEF IInv, TypeOK
  <1>4. "ready" \in DeliveryState \ ({"sending"} \cup Results) /\ state[d] \notin {"sending"} \cup Results
    BY Zenon DEF DeliveryState, Results
  <1>5. IInv'
    BY <1>1, <1>2, <1>3, <1>4, UnattemptedStep, Zenon
  <1>6. QED
    BY Zenon, <1>1, <1>2, <1>5

\* The group is told once, by the only answerer of the question.
LEMMA EnqueueStatusStep ==
  ASSUME AgentInv, NEW w \in Answerers, EnqueueStatus(w)
  PROVE  AgentInv'
  <1>1. PICK i : i = answerer[w].inbox
    BY Zenon
  <1>2. PICK d : d = <<i, "group_status">>
    BY Zenon
  <1>3. /\ answerer[w].phase = "status" /\ i \in Inboxes /\ TakenUp(i) /\ state[d] = "absent"
        /\ UNCHANGED <<attempt, receipts, world, task, checker, provider>>
        /\ UNCHANGED <<inbox, ask, permissions>>
    BY Zenon, <1>1, <1>2, AnswererBusy DEF EnqueueStatus, AgentInv, Answering, BeforeStatus, TakenUp
  <1>4. PICK phase \in {"material", "failing"} :
           answerer' = [answerer EXCEPT ![w] = [answerer[w] EXCEPT !.phase = phase]]
    BY Zenon DEF EnqueueStatus, Goes
  <1>5. PICK e : e = [answerer[w] EXCEPT !.phase = phase]
    BY Zenon
  <1>6. /\ e \in Answerer /\ e.phase = phase /\ e.inbox = i /\ ~BeforeStatus(e)
        /\ answerer' = [answerer EXCEPT ![w] = e]
    <2>1. /\ answerer[w].phase # "idle"
          /\ phase \in {"question", "status", "material", "model", "complete", "failing", "exiting"}
      BY Zenon, <1>3
    <2>2. QED
      BY <2>1, <1>1, <1>4, <1>5, GoesOn
  <1>7. CASE UNCHANGED <<state, row, card>>
    <2>1. UNCHANGED <<vars, ask, permissions, card>> /\ inbox' = inbox
      BY Zenon, <1>3, <1>7 DEF vars, world, provider
    <2>2. QED
      BY Zenon, <2>1, <1>1, <1>3, <1>6, AnswererStep
  <1>8. CASE Enqueued(d, "status")
    <2>1. d \in Deliveries /\ \A j \in Inboxes : <<j, "private">> \in Deliveries \ {d}
      BY Zenon, <1>2, <1>3, RepliesAssumption DEF Slots
    <2>2. /\ IInv' /\ card' \in [Deliveries -> {None, "status", "answer", "refusal"}]
          /\ \A x \in Deliveries \ {d} : state'[x] = state[x] /\ card'[x] = card[x]
      BY Zenon, <2>1, <1>3, <1>8, EnqueueStep
    <2>3. AgentTypeOK' /\ Granted'
      BY Zenon, <2>2, <1>3, <1>6 DEF AgentInv, AgentTypeOK, Granted, permissions
    <2>4. ReplyMatchesInbox'
      BY ZenonT(40), <2>1, <2>2, <1>3, AgreementKept DEF ReplyMatchesInbox, permissions
    <2>5. \A v \in Answerers \ {w} : answerer[v].phase # "idle" =>
             ask'[answerer[v].inbox] = "doing" /\ answerer[v].inbox # i
      BY Zenon, <1>1, <1>3 DEF AgentInv, Answering
    <2>6. Fits(w, e)
      BY Zenon, <2>5, <1>1, <1>3, <1>6, AnswererBusy DEF Fits
    <2>7. \A v \in Answerers : BeforeStatus(answerer'[v]) => answerer'[v].inbox # i
      BY Zenon, <2>5, <1>6 DEF BeforeStatus, AgentInv, AgentTypeOK
    <2>8. \A j \in Inboxes \ {i} : state'[<<j, "group_status">>] = state[<<j, "group_status">>]
      BY Zenon, <2>2, <1>2, <1>3, RepliesAssumption DEF Slots
    <2>9. QuestionsKept
      BY Zenon, <2>7, <2>8, <1>3 DEF QuestionsKept, TakenUp
    <2>10. Answering'
      BY <2>6, <2>9, <1>6, AnsweringStep, Zenon
    <2>11. QED
      BY Zenon, <2>2, <2>3, <2>4, <2>10 DEF AgentInv
  <1>9. QED
    BY <1>1, <1>2, <1>7, <1>8, Zenon DEF EnqueueStatus

\* An open question gets its reply: the answer only under a grant that is good
\* at this moment.
LEMMA ReplyEnqueued ==
  ASSUME AgentInv, NEW i \in Inboxes, NEW allowed \in BOOLEAN, Completable(i),
         allowed => Authorized(i),
         inbox' = [inbox EXCEPT ![i].state = IF allowed THEN "completed" ELSE "refused"],
         Enqueued(<<i, "private">>, IF allowed THEN "answer" ELSE "refusal"),
         UNCHANGED <<attempt, receipts, world, task, checker, provider>>,
         UNCHANGED <<ask, permissions>>
  PROVE  /\ IInv' /\ Granted' /\ ReplyMatchesInbox'
         /\ inbox' \in [Inboxes -> Inbox]
         /\ card' \in [Deliveries -> {None, "status", "answer", "refusal"}]
         /\ QuestionsKept
  <1>1. PICK d : d = <<i, "private">>
    BY Zenon
  <1>2. /\ d \in Deliveries
        /\ \A j \in Inboxes \ {i} : <<j, "private">> \in Deliveries \ {d}
        /\ \A j \in Inboxes : <<j, "group_status">> \in Deliveries \ {d}
    BY Zenon, <1>1, RepliesAssumption DEF Slots
  <1>3. PICK content \in {"answer", "refusal"} : content = IF allowed THEN "answer" ELSE "refusal"
    BY Zenon
  <1>4. Enqueued(d, content) /\ state[d] = "absent"
    BY Zenon, <1>1, <1>3 DEF AgentInv, ReplyMatchesInbox, Completable
  <1>5. /\ IInv' /\ card' \in [Deliveries -> {None, "status", "answer", "refusal"}]
        /\ state'[d] = "ready" /\ card'[d] = content
        /\ \A x \in Deliveries \ {d} : state'[x] = state[x] /\ card'[x] = card[x]
    <2>1. content \in {"status", "answer", "refusal"}
      BY Zenon, <1>3
    <2>2. QED
      BY Zenon, <2>1, <1>2, <1>4, EnqueueStep
  <1>6. PICK x : x = [inbox[i] EXCEPT !.state = IF allowed THEN "completed" ELSE "refused"]
    BY Zenon
  <1>7. inbox \in [Inboxes -> Inbox] /\ inbox[i].state = "running" /\ inbox' = [inbox EXCEPT ![i] = x]
    BY Zenon, <1>6 DEF AgentInv, AgentTypeOK, Completable
  <1>8. /\ x \in Inbox /\ x.state = IF allowed THEN "completed" ELSE "refused"
        /\ x.actor = inbox[i].actor /\ x.grant = inbox[i].grant
    BY <1>6, <1>7 DEF Inbox
  <1>9. /\ inbox' \in [Inboxes -> Inbox] /\ inbox'[i] = x
        /\ \A j \in Inboxes \ {i} : inbox'[j] = inbox[j]
    BY Zenon, <1>7, <1>8
  <1>10. grant' = grant /\ material' = material /\ ask' = ask
    BY Zenon DEF permissions
  <1>11. Granted'
    BY <1>7, <1>8, <1>9, <1>10 DEF AgentInv, Granted
  <1>12. allowed => inbox[i].grant # None /\ grant[inbox[i].grant].actor = inbox[i].actor
    BY Zenon DEF Authorized, AgentInv, Granted
  <1>13. ReplyMatchesInbox'
    <2> SUFFICES ASSUME NEW j \in Inboxes
                 PROVE  LET y == <<j, "private">> IN
                        /\ inbox'[j].state \notin {"completed", "refused"} => state'[y] = "absent"
                        /\ inbox'[j].state = "refused" => state'[y] # "absent" /\ card'[y] = "refusal"
                        /\ inbox'[j].state = "completed" =>
                             /\ state'[y] # "absent" /\ card'[y] = "answer"
                             /\ inbox'[j].grant # None
                             /\ grant'[inbox'[j].grant].actor = inbox'[j].actor
      BY Zenon DEF ReplyMatchesInbox
    <2>1. CASE j = i
      BY <2>1, <1>1, <1>3, <1>5, <1>8, <1>9, <1>10, <1>12
    <2>2. CASE j # i
      BY <2>2, <1>2, <1>5, <1>9, <1>10, AgreementKept
    <2>3. QED
      BY Zenon, <2>1, <2>2
  <1>14. QuestionsKept
    BY Zenon, <1>2, <1>5, <1>7, <1>8, <1>9, <1>10 DEF QuestionsKept, TakenUp
  <1>15. QED
    BY Zenon, <1>5, <1>9, <1>11, <1>13, <1>14

\* The answer task commits the reply of an open question, or nothing.
LEMMA CompleteStep ==
  ASSUME AgentInv, NEW w \in Answerers, Complete(w)
  PROVE  AgentInv'
  <1>1. PICK i : i = answerer[w].inbox
    BY Zenon
  <1>2. /\ answerer[w].phase = "complete" /\ i \in Inboxes /\ ask[i] = "doing"
        /\ UNCHANGED <<attempt, receipts, world, task, checker, provider>>
        /\ UNCHANGED <<ask, permissions>>
    BY Zenon, <1>1, AnswererBusy DEF Complete
  <1>3. PICK phase \in {"exiting", "failing"} :
           answerer' = [answerer EXCEPT ![w] = [answerer[w] EXCEPT !.phase = phase]]
    BY Zenon DEF Complete, Goes
  <1>4. PICK e : e = [answerer[w] EXCEPT !.phase = phase]
    BY Zenon
  <1>5. /\ e \in Answerer /\ e.phase = phase /\ e.inbox = i /\ ~BeforeStatus(e)
        /\ answerer' = [answerer EXCEPT ![w] = e]
    <2>1. /\ answerer[w].phase # "idle"
          /\ phase \in {"question", "status", "material", "model", "complete", "failing", "exiting"}
      BY Zenon, <1>2
    <2>2. QED
      BY <2>1, <1>1, <1>3, <1>4, GoesOn
  <1>6. CASE UNCHANGED <<state, row, card>> /\ (inbox' = inbox \/ Moved(i))
    <2>1. UNCHANGED <<vars, ask, permissions, card>>
      BY Zenon, <1>2, <1>6 DEF vars, world, provider
    <2>2. QED
      BY Zenon, <2>1, <1>1, <1>2, <1>5, <1>6, AnswererStep
  <1>7. ASSUME NEW allowed \in BOOLEAN, Completable(i), allowed => Authorized(i),
               inbox' = [inbox EXCEPT ![i].state = IF allowed THEN "completed" ELSE "refused"],
               Enqueued(<<i, "private">>, IF allowed THEN "answer" ELSE "refusal")
        PROVE  AgentInv'
    <2>1. /\ IInv' /\ Granted' /\ ReplyMatchesInbox'
          /\ inbox' \in [Inboxes -> Inbox]
          /\ card' \in [Deliveries -> {None, "status", "answer", "refusal"}]
          /\ QuestionsKept
      BY Zenon, <1>2, <1>7, ReplyEnqueued
    <2>2. AgentTypeOK'
      BY Zenon, <2>1, <1>2, <1>5 DEF AgentInv, AgentTypeOK, permissions
    <2>3. \A v \in Answerers \ {w} : answerer[v].phase # "idle" =>
             ask'[answerer[v].inbox] = "doing" /\ answerer[v].inbox # i
      BY Zenon, <1>1, <1>2 DEF AgentInv, Answering
    <2>4. Fits(w, e)
      BY Zenon, <2>3, <1>2, <1>5 DEF Fits
    <2>5. Answering'
      BY <2>1, <2>4, <1>5, AnsweringStep, Zenon
    <2>6. QED
      BY Zenon, <2>1, <2>2, <2>5 DEF AgentInv
  <1>8. \/ UNCHANGED <<inbox, state, row, card>>
        \/ Completes(i, answerer[w].answer)
    BY <1>1, Zenon DEF Complete
  <1>9. CASE UNCHANGED <<inbox, state, row, card>>
    BY Zenon, <1>6, <1>9
  <1>10. CASE Completes(i, answerer[w].answer)
    <2>1. CASE ~Completable(i) /\ UNCHANGED <<inbox, state, row, card>>
      BY Zenon, <2>1, <1>6
    <2>2. CASE /\ Completable(i) /\ inbox' = [inbox EXCEPT ![i].state = "failed"]
               /\ UNCHANGED <<state, row, card>>
      BY Zenon, <2>2, <1>6 DEF Moved, Completable
    <2>3. CASE /\ Completable(i) /\ trusted[i] /\ ~Expired(i)
               /\ LET allowed == answerer[w].answer /\ Authorized(i) IN
                  /\ inbox' = [inbox EXCEPT ![i].state = IF allowed THEN "completed" ELSE "refused"]
                  /\ Enqueued(<<i, "private">>, IF allowed THEN "answer" ELSE "refusal")
      <3>1. PICK allowed \in BOOLEAN : allowed = (answerer[w].answer /\ Authorized(i))
        BY Zenon
      <3>2. QED
        BY <3>1, <2>3, <1>7, Zenon
    <2>4. QED
      BY <2>1, <2>2, <2>3, <1>10, Zenon DEF Completes
  <1>11. QED
    BY Zenon, <1>8, <1>9, <1>10

-----------------------------------------------------------------------------
(* The outbox at work.                                                     *)

\* The claim of a reply turns the answer into a refusal in the same transaction,
\* or leaves question and card as they are.
Retracted(d) ==
    /\ d[2] = "private" /\ state[d] = "ready" /\ inbox[d[1]].state = "completed"
    /\ inbox' = [inbox EXCEPT ![d[1]].state = "refused"]
    /\ card' = [card EXCEPT ![d] = "refusal"]

\* What the claim of a reply commits, as the outbox sees it.
LEMMA ClaimsReplyTakes ==
  ASSUME AgentInv, NEW d \in Deliveries, NEW valid \in BOOLEAN, ClaimsReply(d, valid)
  PROVE  /\ Takes(d)
         /\ UNCHANGED <<inbox, card>> \/ Retracted(d)
  <1>1. [card EXCEPT ![d] = card[d]] = card
    BY Zenon DEF AgentInv, AgentTypeOK
  <1>2. CASE UNCHANGED <<state, attempt, inbox, card>>
    BY Zenon, <1>2 DEF Takes
  <1>3. CASE /\ ReplyClaimable(d) /\ state' = [state EXCEPT ![d] = "cancelled"]
             /\ UNCHANGED <<attempt, inbox, card>>
    BY Zenon, <1>3 DEF Takes, ReplyClaimable
  <1>4. CASE /\ ReplyClaimable(d) /\ d[2] = "private" /\ inbox[d[1]].state = "completed"
             /\ inbox' = [inbox EXCEPT ![d[1]].state = "refused"] /\ Attempted(d, "refusal")
    BY <1>4, Zenon DEF Takes, Retracted, ReplyClaimable, Attempted
  <1>5. CASE ReplyClaimable(d) /\ UNCHANGED inbox /\ Attempted(d, card[d])
    BY <1>1, <1>5, Zenon DEF Takes, ReplyClaimable, Attempted
  <1>6. QED
    BY <1>2, <1>3, <1>4, <1>5, Zenon DEF ClaimsReply

\* A claim takes what is ready, so nothing absent appears.
LEMMA TakesReady ==
  ASSUME IInv, NEW d \in Deliveries, Takes(d)
  PROVE  \A x \in Deliveries : \/ state'[x] = state[x]
                               \/ state[x] = "ready" /\ state'[x] \in {"sending", "expired", "cancelled"}
  BY Zenon DEF IInv, TypeOK, Takes

\* An answer that is taken back is refused as a whole.
LEMMA RetractedStep ==
  ASSUME AgentInv, NEW d \in Deliveries, Retracted(d), grant' = grant,
         \A x \in Deliveries : (state'[x] = "absent") <=> (state[x] = "absent")
  PROVE  /\ inbox' \in [Inboxes -> Inbox]
         /\ card' \in [Deliveries -> {None, "status", "answer", "refusal"}]
         /\ \A j \in Inboxes : /\ inbox'[j].grant = inbox[j].grant
                               /\ inbox'[j].actor = inbox[j].actor
                               /\ \/ inbox'[j].state = inbox[j].state
                                  \/ inbox[j].state = "completed" /\ inbox'[j].state = "refused"
         /\ ReplyMatchesInbox'
  <1>1. PICK i \in Inboxes : d = <<i, "private">> /\ d[1] = i
    BY RepliesAssumption DEF Slots, Retracted
  <1>2. /\ inbox \in [Inboxes -> Inbox] /\ card \in [Deliveries -> {None, "status", "answer", "refusal"}]
        /\ inbox[i].state = "completed" /\ state[d] = "ready" /\ card' = [card EXCEPT ![d] = "refusal"]
    BY Zenon, <1>1 DEF AgentInv, AgentTypeOK, Retracted
  <1>3. PICK x : x = [inbox[i] EXCEPT !.state = "refused"]
    BY Zenon
  <1>4. x \in Inbox /\ x.state = "refused" /\ x.actor = inbox[i].actor /\ x.grant = inbox[i].grant
    BY Zenon, <1>2, <1>3 DEF Inbox
  <1>5. inbox' = [inbox EXCEPT ![i] = x]
    BY Zenon, <1>1, <1>3 DEF Retracted
  <1>6. /\ inbox' \in [Inboxes -> Inbox] /\ inbox'[i] = x
        /\ \A j \in Inboxes \ {i} : inbox'[j] = inbox[j]
    BY Zenon, <1>2, <1>4, <1>5
  <1>7. card'[d] = "refusal" /\ \A y \in Deliveries \ {d} : card'[y] = card[y]
    BY Zenon, <1>2
  <1>8. \A j \in Inboxes : /\ inbox'[j].grant = inbox[j].grant
                           /\ inbox'[j].actor = inbox[j].actor
                           /\ \/ inbox'[j].state = inbox[j].state
                              \/ inbox[j].state = "completed" /\ inbox'[j].state = "refused"
    BY Zenon, <1>2, <1>4, <1>6
  <1>9. ReplyMatchesInbox'
    <2> SUFFICES ASSUME NEW j \in Inboxes
                 PROVE  LET y == <<j, "private">> IN
                        /\ inbox'[j].state \notin {"completed", "refused"} => state'[y] = "absent"
                        /\ inbox'[j].state = "refused" => state'[y] # "absent" /\ card'[y] = "refusal"
                        /\ inbox'[j].state = "completed" =>
                             /\ state'[y] # "absent" /\ card'[y] = "answer"
                             /\ inbox'[j].grant # None
                             /\ grant'[inbox'[j].grant].actor = inbox'[j].actor
      BY Zenon DEF ReplyMatchesInbox
    <2>1. CASE j = i
      BY Zenon, <2>1, <1>1, <1>2, <1>4, <1>6, <1>7
    <2>2. CASE j # i
      <3>1. <<j, "private">> \in Deliveries \ {d}
        BY Zenon, <2>2, <1>1, RepliesAssumption DEF Slots
      <3>2. /\ inbox'[j] = inbox[j] /\ card'[<<j, "private">>] = card[<<j, "private">>]
            /\ (state'[<<j, "private">>] = "absent") <=> (state[<<j, "private">>] = "absent")
        BY Zenon, <2>2, <3>1, <1>6, <1>7
      <3>3. QED
        BY Zenon, <3>2, AgreementKept
    <2>3. QED
      BY Zenon, <2>1, <2>2
  <1>10. QED
    BY Zenon, <1>2, <1>6, <1>8, <1>9

\* The outbox and the agent's tables after the claim of a reply.
LEMMA ClaimReplyStep ==
  ASSUME AgentInv, NEW t \in Tasks, ClaimReply(t)
  PROVE  AgentInv'
  <1>1. PICK d : d = task[t].delivery
    BY Zenon
  <1>2. PICK valid, returned \in BOOLEAN : ClaimsReply(d, valid) /\ AfterClaim(t, returned)
    BY Zenon, <1>1 DEF ClaimReply
  <1>3. /\ task[t].phase = "fetched" /\ d \in Deliveries /\ IInv
        /\ UNCHANGED <<row, receipts, expired, mapped, checker, wire, posts>>
        /\ UNCHANGED <<ask, answerer, grant, material>>
    BY Zenon, <1>1, Busy DEF ClaimReply, AgentInv, world, provider, permissions
  <1>4. Takes(d) /\ (UNCHANGED <<inbox, card>> \/ Retracted(d))
    BY Zenon, <1>2, <1>3, ClaimsReplyTakes
  <1>5. IInv'
    BY Zenon, <1>1, <1>2, <1>3, <1>4, TakesStep
  <1>6. \A x \in Deliveries : (state'[x] = "absent") <=> (state[x] = "absent")
    BY Zenon, <1>3, <1>4, TakesReady
  <1>7. /\ inbox' \in [Inboxes -> Inbox]
        /\ card' \in [Deliveries -> {None, "status", "answer", "refusal"}]
        /\ \A j \in Inboxes : /\ inbox'[j].grant = inbox[j].grant
                              /\ inbox'[j].actor = inbox[j].actor
                              /\ \/ inbox'[j].state = inbox[j].state
                                 \/ inbox[j].state = "completed" /\ inbox'[j].state = "refused"
        /\ ReplyMatchesInbox'
    <2>1. CASE UNCHANGED <<inbox, card>>
      <3>1. \A i \in Inboxes : <<i, "private">> \in Deliveries
        BY Zenon, RepliesAssumption DEF Slots
      <3>2. ReplyMatchesInbox'
        BY Zenon, <3>1, <2>1, <1>3, <1>6, AgreementKept DEF ReplyMatchesInbox
      <3>3. QED
        BY Zenon, <3>2, <2>1 DEF AgentInv, AgentTypeOK
    <2>2. CASE Retracted(d)
      BY Zenon, <2>2, <1>3, <1>6, RetractedStep
    <2>3. QED
      BY Zenon, <2>1, <2>2, <1>4
  <1>8. AgentTypeOK'
    BY Zenon, <1>3, <1>7 DEF AgentInv, AgentTypeOK
  <1>9. Granted'
    BY <1>3, <1>7 DEF AgentInv, Granted
  <1>10. \A i \in Inboxes : state[<<i, "group_status">>] = "absent" =>
            state'[<<i, "group_status">>] = "absent"
    BY Zenon, <1>6, RepliesAssumption DEF Slots
  <1>11. QuestionsKept
    BY Zenon, <1>3, <1>7, <1>10 DEF QuestionsKept, TakenUp
  <1>12. Answering'
    BY Zenon, <1>3, <1>11, QuietStep
  <1>13. QED
    BY Zenon, <1>5, <1>7, <1>8, <1>9, <1>12 DEF AgentInv

\* How the outbox moves a delivery: a ready one expires, an attempted one gets
\* its result.
Progresses(d) ==
    \/ state'[d] = state[d]
    \/ state[d] = "ready" /\ state'[d] = "expired"
    \/ state[d] \in {"sending", "unknown"} /\ state'[d] \in Results

\* A conditional UPDATE of finish.
LEMMA FinishesProgress ==
  ASSUME IInv, NEW x \in Deliveries, NEW a, NEW r \in Results, Finishes(x, a, r)
  PROVE  \A d \in Deliveries : Progresses(d)
  BY Zenon DEF IInv, TypeOK, Finishes, Progresses

\* The outbox's own steps.
LEMMA OutboxProgress ==
  ASSUME IInv, Outbox
  PROVE  \A d \in Deliveries : Progresses(d)
  <1>1. ASSUME NEW x \in Deliveries, RecoverReady(x) PROVE \A d \in Deliveries : Progresses(d)
    BY Zenon, <1>1 DEF RecoverReady, Progresses, IInv, TypeOK
  <1>2. ASSUME NEW x \in Deliveries, Processed(x) \/ \E t \in Tasks : Fetch(t, x)
        PROVE  \A d \in Deliveries : Progresses(d)
    BY <1>2, Zenon DEF Processed, Fetch, Progresses
  <1>3. ASSUME NEW t \in Tasks, \/ ClaimRollback(t) \/ Preflight(t) \/ Post(t) \/ Response(t)
                                \/ Interrupted(t) \/ TaskEnds(t) \/ Crash(t)
        PROVE  \A d \in Deliveries : Progresses(d)
    BY <1>3, Zenon DEF ClaimRollback, Preflight, Post, Response, Interrupted, TaskEnds, Crash, Progresses
  <1>4. ASSUME NEW t \in Tasks, Finish(t) PROVE \A d \in Deliveries : Progresses(d)
    <2>1. task[t].delivery \in Deliveries /\ task[t].result \in Results
      BY Zenon, <1>4, Busy DEF Finish, Sound
    <2>2. QED
      BY Zenon, <2>1, <1>4, FinishesProgress DEF Finish
  <1>5. ASSUME NEW c \in Checkers, Reconciled(c) PROVE \A d \in Deliveries : Progresses(d)
    <2>1. checker[c] \in Checker /\ checker[c].result # None
      BY Zenon, <1>5 DEF Reconciled, IInv, TypeOK
    <2>2. checker[c].delivery \in Deliveries /\ checker[c].result \in Results
      BY Zenon, <2>1 DEF Checker, IInv, Lookups
    <2>3. QED
      BY Zenon, <2>2, <1>5, FinishesProgress DEF Reconciled
  <1>6. ASSUME NEW c \in Checkers, Reads(c) \/ CheckerDies(c)
        PROVE  \A d \in Deliveries : Progresses(d)
    BY <1>6, Zenon DEF Reads, CheckerDies, Progresses
  <1>7. ASSUME NEW c \in Checkers, NEW x \in Deliveries, Uncertain(c, x)
        PROVE  \A d \in Deliveries : Progresses(d)
    BY Zenon, <1>7 DEF Uncertain, Pending, Progresses, Results, IInv, TypeOK
  <1>8. QED
    BY <1>1, <1>2, <1>3, <1>4, <1>5, <1>6, <1>7, Zenon DEF Outbox, Reconcile

\* The outbox never empties or fills a slot, so questions and replies still agree.
LEMMA OutboxStep ==
  ASSUME AgentInv, Outbox, UNCHANGED agentTables
  PROVE  AgentInv'
  <1>1. UNCHANGED <<inbox, ask, answerer, grant, material, card>>
    BY Zenon DEF agentTables
  <1>2. IInv'
    <2>1. Next
      BY Zenon DEF Outbox, Next, Send
    <2>2. QED
      BY Zenon, <2>1, NextIInv DEF AgentInv
  <1>3. \A d \in Deliveries : (state'[d] = "absent") <=> (state[d] = "absent")
    BY Zenon, OutboxProgress DEF AgentInv, Progresses, Results
  <1>4. \A i \in Inboxes, s \in Slots : <<i, s>> \in Deliveries
    BY Zenon, RepliesAssumption
  <1>5. ReplyMatchesInbox'
    BY Zenon, <1>1, <1>3, <1>4, AgreementKept DEF ReplyMatchesInbox, Slots
  <1>6. QuestionsKept
    BY Zenon, <1>1, <1>3, <1>4 DEF QuestionsKept, TakenUp, Slots
  <1>7. Answering'
    BY Zenon, <1>1, <1>6, QuietStep
  <1>8. AgentTypeOK' /\ Granted'
    BY Zenon, <1>1 DEF AgentInv, AgentTypeOK, Granted
  <1>9. QED
    BY Zenon, <1>2, <1>5, <1>7, <1>8 DEF AgentInv

-----------------------------------------------------------------------------
(* The invariant, and what it says of questions and replies.               *)

\* Every step keeps the invariant.
LEMMA NextAgentInv == AgentInv /\ [AgentNext]_agentVars => AgentInv'
  <1> SUFFICES ASSUME AgentInv, [AgentNext]_agentVars PROVE AgentInv'
    BY Zenon
  <1>1. CASE UNCHANGED agentVars
    <2>1. UNCHANGED <<vars, inbox, ask, answerer, card>> /\ UNCHANGED <<grant, material>>
      BY Zenon, <1>1 DEF agentVars, agentTables
    <2>2. AgentTypeOK' /\ Granted'
      BY Zenon, <2>1 DEF AgentInv, AgentTypeOK, Granted
    <2>3. QED
      BY Zenon, <2>1, <2>2, PermissionStep
  <1>2. CASE Owner
    BY <1>2, PublishStep, RevokeStep, MakeGrantStep, Zenon DEF Owner
  <1>3. ASSUME NEW i \in Inboxes,
               \/ \E a \in Actors, kind \in Kinds : Accept(i, a, kind)
               \/ MaintainInbox(i) \/ IdentityChanges(i) \/ DeadlinePasses(i)
               \/ \E w \in Answerers : FetchAsk(w, i)
        PROVE  AgentInv'
    BY <1>3, AcceptStep, MaintainInboxStep, CircumstanceStep, FetchAskStep, Zenon
  <1>4. ASSUME NEW w \in Answerers, Answer(w) PROVE AgentInv'
    BY <1>4, ClaimInboxStep, OnwardStep, EnqueueStatusStep, ModelStep, CompleteStep, FailStep,
       AnswerEndsStep, AnswerCrashStep, FallsSilentStep, Zenon DEF Answer
  <1>5. ASSUME NEW t \in Tasks, ClaimReply(t) PROVE AgentInv'
    BY Zenon, <1>5, ClaimReplyStep
  <1>6. CASE Outbox /\ UNCHANGED agentTables
    BY Zenon, <1>6, OutboxStep
  <1>7. QED
    BY <1>1, <1>2, <1>3, <1>4, <1>5, <1>6, Zenon DEF AgentNext

\* Agents and outbox together: one answerer works on a question, under its queue
\* row; the group is told once; grants of questions are never forgotten.
THEOREM AgentInvariant == AgentSpec => []AgentInv
  BY InitAgentInv, NextAgentInv, PTL DEF AgentSpec

\* The question and its reply agree, through failures after a commit, answerers
\* that were given up and go on, and answers taken back by the claim.
THEOREM RepliesAgree == AgentSpec => []ReplyMatchesInbox
  <1>1. AgentInv => ReplyMatchesInbox
    BY Zenon DEF AgentInv
  <1>2. QED
    BY <1>1, AgentInvariant, PTL

\* A reply is posted at most once, although replies are claimed by other code
\* than the confirmed deliveries of the outbox.
THEOREM RepliesPostedOnce == AgentSpec => []AtMostOnePost
  <1>1. AgentInv => AtMostOnePost
    <2> SUFFICES ASSUME AgentInv, NEW d \in Deliveries PROVE posts[d] <= 1
      BY Zenon DEF AtMostOnePost
    <2>1. posts[d] \in {0, 1}
      BY Zenon DEF AgentInv, IInv, OneAttempt
    <2>2. QED
      BY <2>1
  <1>2. QED
    BY <1>1, AgentInvariant, PTL

\* The outcome recorded for a reply is what happened at the provider.
THEOREM ReplyOutcomeIsTrue == AgentSpec => []TruthfulOutcome
  <1>1. AgentInv => TruthfulOutcome
    BY Zenon DEF AgentInv, IInv
  <1>2. QED
    BY <1>1, AgentInvariant, PTL

-----------------------------------------------------------------------------
(* The course of a question.                                               *)

\* What a step may do to a question.
Course(i) ==
    \/ inbox'[i] = inbox[i]
    \/ inbox[i].state = "absent"
    \/ /\ inbox[i].state \in {"queued", "running"}
       /\ inbox'[i].grant = inbox[i].grant
    \/ /\ inbox[i].state = "completed" /\ inbox'[i].state = "refused"
       /\ state[<<i, "private">>] = "ready"
       /\ inbox'[i].grant = inbox[i].grant

\* An open question moves.
LEMMA OpenCourse ==
  ASSUME AgentInv, NEW i \in Inboxes, inbox[i].state \in {"queued", "running"}, NEW s,
         inbox' = [inbox EXCEPT ![i].state = s]
  PROVE  \A j \in Inboxes : Course(j)
  <1>1. inbox \in [Inboxes -> Inbox]
    BY Zenon DEF AgentInv, AgentTypeOK
  <1>2. \A j \in Inboxes \ {i} : inbox'[j] = inbox[j]
    BY Zenon, <1>1
  <1>3. inbox'[i].grant = inbox[i].grant
    BY Zenon, <1>1 DEF Inbox
  <1>4. QED
    BY Zenon, <1>2, <1>3 DEF Course

\* The answer task moves its question only while it is open.
LEMMA AnswerCourse ==
  ASSUME AgentInv, NEW w \in Answerers, Answer(w)
  PROVE  \A j \in Inboxes : Course(j)
  <1>1. CASE \/ Question(w) \/ EnqueueStatus(w) \/ ReadMaterial(w) \/ Model(w) \/ InterruptAnswer(w)
             \/ AnswerEnds(w) \/ AnswerCrash(w) \/ FallsSilent(w)
    <2>1. inbox' = inbox
      BY <1>1, Zenon DEF Question, EnqueueStatus, ReadMaterial, Model, InterruptAnswer,
         AnswerEnds, AnswerCrash, FallsSilent
    <2>2. QED
      BY Zenon, <2>1 DEF Course
  <1>2. PICK i : i = answerer[w].inbox
    BY Zenon
  <1>3. ASSUME NEW s, inbox[i].state \in {"queued", "running"}, i \in Inboxes,
               inbox' = [inbox EXCEPT ![i].state = s]
        PROVE  \A j \in Inboxes : Course(j)
    BY Zenon, <1>3, OpenCourse
  <1>4. CASE inbox' = inbox
    BY Zenon, <1>4 DEF Course
  <1>5. CASE ClaimInbox(w)
    <2>1. i \in Inboxes
      BY Zenon, <1>2, <1>5, AnswererBusy DEF ClaimInbox
    <2>2. \/ inbox' = inbox
          \/ /\ inbox[i].state = "queued"
             /\ \E s \in {"running", "failed"} : inbox' = [inbox EXCEPT ![i].state = s]
      BY <1>2, <1>5, Zenon DEF ClaimInbox
    <2>3. QED
      BY <2>1, <2>2, <1>3, <1>4
  <1>6. CASE Complete(w)
    <2>1. i \in Inboxes
      BY Zenon, <1>2, <1>6, AnswererBusy DEF Complete
    <2>2. \/ inbox' = inbox
          \/ /\ inbox[i].state = "running"
             /\ \E s \in {"failed", "completed", "refused"} : inbox' = [inbox EXCEPT ![i].state = s]
      BY <1>2, <1>6, Zenon DEF Complete, Completes, Completable
    <2>3. QED
      BY <2>1, <2>2, <1>3, <1>4
  <1>7. CASE Fail(w)
    <2>1. i \in Inboxes
      BY Zenon, <1>2, <1>7, AnswererBusy DEF Fail
    <2>2. inbox' = inbox \/ inbox' = Failed(i)
      BY Zenon, <1>2, <1>7 DEF Fail
    <2>3. CASE inbox' = Failed(i) /\ inbox[i].state \in {"queued", "running"}
      <3>1. inbox' = [inbox EXCEPT ![i].state = "failed"]
        BY <2>3, Zenon DEF Failed
      <3>2. QED
        BY Zenon, <3>1, <2>1, <2>3, OpenCourse
    <2>4. CASE inbox' = Failed(i) /\ inbox[i].state \notin {"queued", "running"}
      <3>1. inbox' = [inbox EXCEPT ![i].state = inbox[i].state] /\ inbox \in [Inboxes -> Inbox]
        BY Zenon, <2>4 DEF Failed, AgentInv, AgentTypeOK
      <3>2. inbox' = inbox
        BY Zenon, <3>1, <2>1 DEF Inbox
      <3>3. QED
        BY Zenon, <3>2, <1>4
    <2>5. QED
      BY Zenon, <2>2, <2>3, <2>4, <1>4
  <1>8. QED
    BY <1>1, <1>5, <1>6, <1>7, Zenon DEF Answer

\* Every step keeps to the course of the questions.
LEMMA NextCourse ==
  ASSUME AgentInv, AgentNext, NEW j \in Inboxes
  PROVE  Course(j)
  <1>1. CASE inbox' = inbox
    BY Zenon, <1>1 DEF Course
  <1>2. CASE Owner
    <2>1. inbox' = inbox
      BY <1>2, Zenon DEF Owner, Publish, Withdraw, MaterialExpires, Revoke, GrantExpires, MakeGrant
    <2>2. QED
      BY Zenon, <2>1, <1>1
  <1>3. ASSUME NEW i \in Inboxes, NEW a \in Actors, NEW kind \in Kinds, Accept(i, a, kind)
        PROVE  Course(j)
    <2>1. inbox[i].state = "absent" /\ \E x : inbox' = [inbox EXCEPT ![i] = x]
      BY <1>3, Zenon DEF Accept
    <2>2. \A k \in Inboxes \ {i} : inbox'[k] = inbox[k]
      BY Zenon, <2>1 DEF AgentInv, AgentTypeOK
    <2>3. QED
      BY Zenon, <2>1, <2>2 DEF Course
  <1>4. ASSUME NEW i \in Inboxes, MaintainInbox(i) PROVE Course(j)
    <2>1. inbox[i].state \in {"queued", "running"} /\ inbox' = [inbox EXCEPT ![i].state = "failed"]
      BY <1>4, Zenon DEF MaintainInbox, Failed
    <2>2. QED
      BY Zenon, <2>1, OpenCourse
  <1>5. ASSUME NEW i \in Inboxes, \/ IdentityChanges(i) \/ DeadlinePasses(i)
                                  \/ \E w \in Answerers : FetchAsk(w, i)
        PROVE  Course(j)
    <2>1. inbox' = inbox
      BY <1>5, Zenon DEF IdentityChanges, DeadlinePasses, FetchAsk
    <2>2. QED
      BY Zenon, <2>1, <1>1
  <1>6. ASSUME NEW w \in Answerers, Answer(w) PROVE Course(j)
    BY Zenon, <1>6, AnswerCourse
  <1>7. ASSUME NEW t \in Tasks, ClaimReply(t) PROVE Course(j)
    <2>1. PICK d : d = task[t].delivery
      BY Zenon
    <2>2. PICK valid \in BOOLEAN : ClaimsReply(d, valid)
      BY Zenon, <2>1, <1>7 DEF ClaimReply
    <2>3. d \in Deliveries
      BY Zenon, <2>1, <1>7, Busy DEF ClaimReply, AgentInv
    <2>4. inbox' = inbox \/ Retracted(d)
      BY Zenon, <2>2, <2>3, ClaimsReplyTakes
    <2>5. CASE Retracted(d)
      <3>1. PICK i \in Inboxes : d = <<i, "private">> /\ d[1] = i
        BY <2>3, <2>5, RepliesAssumption DEF Slots, Retracted
      <3>2. inbox \in [Inboxes -> Inbox] /\ inbox' = [inbox EXCEPT ![i].state = "refused"]
        BY Zenon, <2>5, <3>1 DEF Retracted, AgentInv, AgentTypeOK
      <3>3. \A k \in Inboxes \ {i} : inbox'[k] = inbox[k]
        BY Zenon, <3>2
      <3>4. inbox'[i].state = "refused" /\ inbox'[i].grant = inbox[i].grant
        BY Zenon, <3>2 DEF Inbox
      <3>5. inbox[i].state = "completed" /\ state[<<i, "private">>] = "ready"
        BY Zenon, <2>5, <3>1 DEF Retracted
      <3>6. QED
        BY Zenon, <3>3, <3>4, <3>5 DEF Course
    <2>6. QED
      BY Zenon, <2>4, <2>5, <1>1
  <1>8. CASE Outbox /\ UNCHANGED agentTables
    BY Zenon, <1>1, <1>8 DEF agentTables
  <1>9. QED
    BY <1>2, <1>3, <1>4, <1>5, <1>6, <1>7, <1>8, Zenon DEF AgentNext

\* A question that ended stays as it ended; only the claim of its reply, while
\* that is still waiting, may turn the answer into a refusal.
THEOREM SettledQuestions == AgentSpec => InboxSettled
  <1>1. AgentInv /\ [AgentNext]_agentVars =>
          [\A i \in Inboxes :
              /\ inbox[i].state \in {"refused", "failed"} => inbox'[i] = inbox[i]
              /\ inbox[i].state = "completed" =>
                    \/ inbox'[i] = inbox[i]
                    \/ inbox'[i].state = "refused" /\ state[<<i, "private">>] = "ready"]_agentVars
    BY Zenon, NextCourse DEF Course
  <1>2. QED
    BY <1>1, AgentInvariant, PTL DEF AgentSpec, InboxSettled

-----------------------------------------------------------------------------
(* A grant that is no longer usable.                                       *)

\* What a step may do to the private reply of a question.
ReplyCourse(i) ==
    LET d == <<i, "private">> IN
    \/ state'[d] = state[d] /\ card'[d] = card[d]
    \/ state[d] = "absent" /\ state'[d] = "ready"
    \/ state[d] = "ready" /\ state'[d] \in {"expired", "cancelled"}
    \/ /\ state[d] = "ready" /\ state'[d] = "sending"
       /\ card'[d] = "answer" => Authorized(i)
    \/ /\ state[d] \in {"sending", "unknown"} /\ state'[d] \in Results
       /\ card'[d] = card[d]

\* A grant that was made and cannot be used any more never can again: material is
\* published once, and grants are only ever ended.
LEMMA NeverUsableAgain ==
  ASSUME AgentInv, [AgentNext]_agentVars, NEW g \in Grants, grant[g].state # "absent", ~Usable(g)
  PROVE  ~Usable(g)'
  <1>1. /\ grant[g].material \in Materials /\ material[grant[g].material] # "absent"
        /\ grant \in [Grants -> Grant]
        /\ material \in [Materials -> {"absent", "published", "expired", "withdrawn"}]
    BY Zenon DEF AgentInv, AgentTypeOK, Granted
  <1>2. CASE UNCHANGED permissions
    BY Zenon, <1>2 DEF permissions, Usable
  <1>3. ASSUME NEW m \in Materials, Publish(m) \/ Withdraw(m) \/ MaterialExpires(m)
        PROVE  ~Usable(g)'
    <2>1. grant' = grant
      BY Zenon, <1>3 DEF Publish, Withdraw, MaterialExpires
    <2>2. \A x \in Materials : material'[x] = "published" => material[x] \in {"absent", "published"}
      BY Zenon, <1>1, <1>3 DEF Publish, Withdraw, MaterialExpires
    <2>3. QED
      BY Zenon, <2>1, <2>2, <1>1 DEF Usable
  <1>4. ASSUME NEW h \in Grants, Revoke(h) \/ GrantExpires(h) PROVE ~Usable(g)'
    <2>1. PICK s \in {"revoked", "expired"} : grant' = [grant EXCEPT ![h].state = s]
      BY Zenon, <1>4 DEF Revoke, GrantExpires
    <2>2. material' = material
      BY Zenon, <1>4 DEF Revoke, GrantExpires
    <2>3. CASE h = g
      <3>1. grant'[g].state = s
        BY Zenon, <2>1, <2>3, <1>1 DEF Grant
      <3>2. QED
        BY Zenon, <3>1 DEF Usable
    <2>4. CASE h # g
      <3>1. grant'[g] = grant[g]
        BY Zenon, <2>1, <2>4, <1>1
      <3>2. QED
        BY Zenon, <3>1, <2>2 DEF Usable
    <2>5. QED
      BY Zenon, <2>3, <2>4
  <1>5. ASSUME NEW h \in Grants, NEW a \in Actors, NEW m \in Materials, MakeGrant(h, a, m)
        PROVE  ~Usable(g)'
    <2>1. g # h /\ material' = material
      BY Zenon, <1>5 DEF MakeGrant
    <2>2. grant'[g] = grant[g] \/ grant'[g] = [grant[g] EXCEPT !.state = "revoked"]
      BY <2>1, <1>5, Zenon DEF MakeGrant
    <2>3. grant'[g] = grant[g] \/ grant'[g].state = "revoked"
      BY Zenon, <2>2, <1>1 DEF Grant
    <2>4. QED
      BY Zenon, <2>1, <2>3 DEF Usable
  <1>6. CASE Owner
    BY <1>3, <1>4, <1>5, <1>6, Zenon DEF Owner
  <1>7. ASSUME NEW i \in Inboxes,
               \/ \E a \in Actors, kind \in Kinds : Accept(i, a, kind)
               \/ MaintainInbox(i) \/ IdentityChanges(i) \/ DeadlinePasses(i)
               \/ \E w \in Answerers : FetchAsk(w, i)
        PROVE  UNCHANGED permissions
    BY <1>7, Zenon DEF Accept, MaintainInbox, IdentityChanges, DeadlinePasses, FetchAsk
  <1>8. ASSUME NEW w \in Answerers, Answer(w) PROVE UNCHANGED permissions
    BY <1>8, Zenon DEF Answer, ClaimInbox, Question, EnqueueStatus, ReadMaterial, Model, Complete,
       Fail, InterruptAnswer, AnswerEnds, AnswerCrash, FallsSilent
  <1>9. ASSUME NEW t \in Tasks, ClaimReply(t) PROVE UNCHANGED permissions
    BY Zenon, <1>9 DEF ClaimReply
  <1>10. CASE Outbox /\ UNCHANGED agentTables
    BY Zenon, <1>2, <1>10 DEF agentTables, permissions
  <1>11. CASE UNCHANGED agentVars
    BY Zenon, <1>2, <1>11 DEF agentVars, agentTables, permissions
  <1>12. QED
    BY <1>2, <1>6, <1>7, <1>8, <1>9, <1>10, <1>11, Zenon DEF AgentNext

\* A step that leaves the private reply alone.
LEMMA ReplyRests ==
  ASSUME NEW i \in Inboxes, state'[<<i, "private">>] = state[<<i, "private">>],
         card'[<<i, "private">>] = card[<<i, "private">>]
  PROVE  ReplyCourse(i)
  BY Zenon DEF ReplyCourse

\* The claim looks at the grant again before an answer goes out.
LEMMA ClaimReplyCourse ==
  ASSUME AgentInv, NEW t \in Tasks, ClaimReply(t), NEW j \in Inboxes
  PROVE  ReplyCourse(j)
  <1>1. PICK d : d = task[t].delivery
    BY Zenon
  <1>2. PICK valid \in BOOLEAN : ClaimsReply(d, valid)
    BY Zenon, <1>1 DEF ClaimReply
  <1>3. /\ d \in Deliveries /\ <<j, "private">> \in Deliveries
        /\ state \in [Deliveries -> DeliveryState]
        /\ card \in [Deliveries -> {None, "status", "answer", "refusal"}]
    BY Zenon, <1>1, Busy, RepliesAssumption DEF ClaimReply, AgentInv, AgentTypeOK, IInv, TypeOK, Slots
  <1>4. CASE d # <<j, "private">>
    <2>1. Takes(d) /\ (card' = card \/ Retracted(d))
      BY Zenon, <1>2, <1>3, ClaimsReplyTakes
    <2>2. state'[<<j, "private">>] = state[<<j, "private">>]
      BY Zenon, <2>1, <1>3, <1>4 DEF Takes
    <2>3. card'[<<j, "private">>] = card[<<j, "private">>]
      BY Zenon, <2>1, <1>3, <1>4 DEF Retracted
    <2>4. QED
      BY Zenon, <2>2, <2>3, ReplyRests
  <1>5. CASE d = <<j, "private">>
    <2>1. d[1] = j /\ d[2] = "private"
      BY Zenon, <1>5
    <2>2. CASE UNCHANGED <<state, attempt, inbox, card>>
      BY Zenon, <2>2, ReplyRests
    <2>3. CASE ReplyClaimable(d) /\ state' = [state EXCEPT ![d] = "cancelled"]
      BY Zenon, <2>3, <1>3, <1>5 DEF ReplyCourse, ReplyClaimable
    <2>4. CASE ReplyClaimable(d) /\ Attempted(d, "refusal")
      BY Zenon, <2>4, <1>3, <1>5 DEF ReplyCourse, ReplyClaimable, Attempted
    <2>5. CASE /\ ReplyClaimable(d) /\ Attempted(d, card[d])
               /\ inbox[j].state \in {"completed", "refused"}
               /\ inbox[j].state = "completed" => StillAuthorized(j)
      <3>1. state[d] = "ready" /\ state'[d] = "sending" /\ card'[d] = card[d]
        BY Zenon, <2>5, <1>3 DEF ReplyClaimable, Attempted
      <3>2. card[d] = "answer" => Authorized(j)
        BY Zenon, <2>5, <1>5 DEF AgentInv, ReplyMatchesInbox, StillAuthorized
      <3>3. QED
        BY Zenon, <3>1, <3>2, <1>5 DEF ReplyCourse
    <2>6. QED
      BY <2>1, <2>2, <2>3, <2>4, <2>5, <1>2, Zenon DEF ClaimsReply
  <1>6. QED
    BY Zenon, <1>4, <1>5

\* Every step keeps to the course of the replies.
LEMMA NextReplyCourse ==
  ASSUME AgentInv, AgentNext, NEW j \in Inboxes
  PROVE  ReplyCourse(j)
  <1>1. CASE UNCHANGED <<state, card>>
    BY Zenon, <1>1, ReplyRests
  <1>2. CASE Owner
    <2>1. UNCHANGED <<state, card>>
      BY <1>2, Zenon DEF Owner, Publish, Withdraw, MaterialExpires, Revoke, GrantExpires, MakeGrant, vars
    <2>2. QED
      BY Zenon, <2>1, <1>1
  <1>3. ASSUME NEW i \in Inboxes,
               \/ \E a \in Actors, kind \in Kinds : Accept(i, a, kind)
               \/ MaintainInbox(i) \/ IdentityChanges(i) \/ DeadlinePasses(i)
               \/ \E w \in Answerers : FetchAsk(w, i)
        PROVE  ReplyCourse(j)
    <2>1. UNCHANGED <<state, card>>
      BY <1>3, Zenon DEF Accept, MaintainInbox, IdentityChanges, DeadlinePasses, FetchAsk, vars
    <2>2. QED
      BY Zenon, <2>1, <1>1
  <1>4. ASSUME NEW w \in Answerers,
               \/ ClaimInbox(w) \/ Question(w) \/ ReadMaterial(w) \/ Model(w) \/ Fail(w)
               \/ InterruptAnswer(w) \/ AnswerEnds(w) \/ AnswerCrash(w) \/ FallsSilent(w)
        PROVE  ReplyCourse(j)
    <2>1. UNCHANGED <<state, card>>
      BY <1>4, Zenon DEF ClaimInbox, Question, ReadMaterial, Model, Fail, InterruptAnswer,
         AnswerEnds, AnswerCrash, FallsSilent, vars
    <2>2. QED
      BY Zenon, <2>1, <1>1
  <1>5. ASSUME NEW i \in Inboxes, NEW s \in Slots, NEW content, Enqueued(<<i, s>>, content),
               s = "private" => state[<<i, s>>] = "absent"
        PROVE  ReplyCourse(j)
    <2>1. /\ <<i, s>> \in Deliveries /\ <<j, "private">> \in Deliveries
          /\ state \in [Deliveries -> DeliveryState]
          /\ card \in [Deliveries -> {None, "status", "answer", "refusal"}]
      BY Zenon, RepliesAssumption DEF Slots, AgentInv, AgentTypeOK, IInv, TypeOK
    <2>2. CASE <<i, s>> = <<j, "private">>
      BY Zenon, <2>1, <2>2, <1>5 DEF Enqueued, ReplyCourse
    <2>3. CASE <<i, s>> # <<j, "private">>
      BY Zenon, <2>1, <2>3, <1>5, ReplyRests DEF Enqueued
    <2>4. QED
      BY Zenon, <2>2, <2>3
  <1>6. ASSUME NEW w \in Answerers, EnqueueStatus(w) PROVE ReplyCourse(j)
    <2>1. answerer[w].inbox \in Inboxes
      BY Zenon, <1>6, AnswererBusy DEF EnqueueStatus
    <2>2. UNCHANGED <<state, card>> \/ Enqueued(<<answerer[w].inbox, "group_status">>, "status")
      BY <1>6, Zenon DEF EnqueueStatus
    <2>3. QED
      BY Zenon, <2>1, <2>2, <1>1, <1>5 DEF Slots
  <1>7. ASSUME NEW w \in Answerers, Complete(w) PROVE ReplyCourse(j)
    <2>1. PICK i \in Inboxes : i = answerer[w].inbox
      BY Zenon, <1>7, AnswererBusy DEF Complete
    <2>2. \/ UNCHANGED <<state, card>>
          \/ Completable(i) /\ \E content : Enqueued(<<i, "private">>, content)
      BY <2>1, <1>7, Zenon DEF Complete, Completes
    <2>3. Completable(i) => state[<<i, "private">>] = "absent"
      BY Zenon DEF Completable, AgentInv, ReplyMatchesInbox
    <2>4. "private" \in Slots
      BY Zenon DEF Slots
    <2>5. QED
      BY Zenon, <2>2, <2>3, <2>4, <1>1, <1>5
  <1>8. ASSUME NEW t \in Tasks, ClaimReply(t) PROVE ReplyCourse(j)
    BY Zenon, <1>8, ClaimReplyCourse
  <1>9. CASE Outbox /\ UNCHANGED agentTables
    <2>1. <<j, "private">> \in Deliveries /\ card' = card
      BY Zenon, <1>9, RepliesAssumption DEF Slots, agentTables
    <2>2. Progresses(<<j, "private">>)
      BY Zenon, <2>1, <1>9, OutboxProgress DEF AgentInv
    <2>3. QED
      BY Zenon, <2>1, <2>2 DEF Progresses, ReplyCourse
  <1>10. QED
    BY <1>2, <1>3, <1>4, <1>6, <1>7, <1>8, <1>9, Zenon DEF AgentNext, Answer

\* The grant of a question is spent and its answer has not begun to go out, so it
\* never will.
Spent(i) ==
    /\ inbox[i].grant # None
    /\ ~Usable(inbox[i].grant)
    /\ \/ state[<<i, "private">>] \in {"absent", "ready", "cancelled", "expired"}
       \/ card[<<i, "private">>] # "answer"

\* A spent grant stays spent.
LEMMA SpentStep ==
  ASSUME AgentInv, [AgentNext]_agentVars, NEW i \in Inboxes, Spent(i)
  PROVE  Spent(i)'
  <1>1. CASE UNCHANGED agentVars
    BY Zenon, <1>1 DEF agentVars, agentTables, vars, Spent, Usable
  <1>2. CASE AgentNext
    <2>1. /\ inbox[i].grant \in Grants /\ inbox[i].state # "absent"
          /\ grant[inbox[i].grant].state # "absent"
      BY Zenon DEF Spent, AgentInv, AgentTypeOK, Inbox, Granted
    <2>2. Course(i) /\ ReplyCourse(i)
      BY Zenon, <1>2, NextCourse, NextReplyCourse
    <2>3. inbox'[i].grant = inbox[i].grant
      BY Zenon, <2>1, <2>2 DEF Course
    <2>4. PICK g \in Grants : g = inbox[i].grant
      BY Zenon, <2>1
    <2>5. ~Usable(g)'
      BY Zenon, <2>1, <2>4, NeverUsableAgain DEF Spent
    <2>6. ~Authorized(i)
      BY Zenon DEF Spent, Authorized
    <2>7. \/ state'[<<i, "private">>] \in {"absent", "ready", "cancelled", "expired"}
          \/ card'[<<i, "private">>] # "answer"
      BY Zenon, <2>2, <2>6 DEF Spent, ReplyCourse
    <2>8. QED
      BY Zenon, <2>3, <2>4, <2>5, <2>7 DEF Spent, Usable
  <1>3. QED
    BY Zenon, <1>1, <1>2

\* Whoever loses a grant before the reply is on its way never gets the answer,
\* whatever answer tasks, claims, workers and reconciliations are in progress.
THEOREM RevokedAnswersStayHome == AgentSpec => RevokedStaysHome
  <1>1. ASSUME NEW i \in Inboxes
        PROVE  AgentSpec =>
                 [](/\ inbox[i].grant # None
                    /\ ~Usable(inbox[i].grant)
                    /\ state[<<i, "private">>] \in {"absent", "ready"}
                    => [](wire[<<i, "private">>] # "none" => card[<<i, "private">>] # "answer"))
    <2>1. (/\ inbox[i].grant # None
           /\ ~Usable(inbox[i].grant)
           /\ state[<<i, "private">>] \in {"absent", "ready"}) => Spent(i)
      BY Zenon DEF Spent
    <2>2. AgentInv /\ [AgentNext]_agentVars /\ Spent(i) => Spent(i)'
      BY Zenon, SpentStep
    <2>3. AgentInv /\ Spent(i) => (wire[<<i, "private">>] # "none" => card[<<i, "private">>] # "answer")
      <3>1. <<i, "private">> \in Deliveries
        BY Zenon, RepliesAssumption DEF Slots
      <3>2. QED
        BY Zenon, <3>1 DEF AgentInv, IInv, OneAttempt, Spent, Results
    <2>4. QED
      BY <2>1, <2>2, <2>3, AgentInvariant, PTL DEF AgentSpec
  <1>2. QED
    BY <1>1, Zenon DEF RevokedStaysHome
=============================================================================
