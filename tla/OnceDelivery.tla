---------------------------- MODULE OnceDelivery ----------------------------
(***************************************************************************)
(* What the delivery outbox promises to a person who confirms a message:   *)
(* it is sent at most once, it is never sent after it was withdrawn, and   *)
(* what is reported about it is what happened at the provider.             *)
(***************************************************************************)
CONSTANT Deliveries

VARIABLES
    outcome,   \* what the initiator can learn
    wire       \* what happened at the provider

vars == <<outcome, wire>>

Init ==
    /\ outcome = [d \in Deliveries |-> "pending"]
    /\ wire = [d \in Deliveries |-> "none"]

Becomes(d, from, to) == outcome[d] = from /\ outcome' = [outcome EXCEPT ![d] = to]

\* The initiator, the deadline or a changed account stops it for good.
Withdraw(d) == Becomes(d, "pending", "withdrawn") /\ UNCHANGED wire

Attempt(d) == Becomes(d, "pending", "attempted") /\ UNCHANGED wire

Transmit(d) ==
    /\ outcome[d] = "attempted" /\ wire[d] = "none"
    /\ wire' = [wire EXCEPT ![d] = "flying"]
    /\ UNCHANGED outcome

Arrive(d) ==
    /\ wire[d] = "flying"
    /\ \E how \in {"landed", "refused"} : wire' = [wire EXCEPT ![d] = how]
    /\ UNCHANGED outcome

ReportDelivered(d) ==
    Becomes(d, "attempted", "delivered") /\ wire[d] = "landed" /\ UNCHANGED wire

ReportRejected(d) ==
    Becomes(d, "attempted", "rejected") /\ wire[d] \in {"none", "refused"} /\ UNCHANGED wire

Next ==
    \E d \in Deliveries :
        \/ Withdraw(d) \/ Attempt(d) \/ Transmit(d) \/ Arrive(d)
        \/ ReportDelivered(d) \/ ReportRejected(d)

Spec == Init /\ [][Next]_vars

=============================================================================
