-------------------------- MODULE MCPersonalAgents --------------------------
(* The instances of PersonalAgents that TLC checks. *)
EXTENDS PersonalAgents

CONSTANT i1

MCDeliveries == {i1} \X Slots


=============================================================================
