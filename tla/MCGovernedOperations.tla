------------------------ MODULE MCGovernedOperations ------------------------
(* The instance of GovernedOperations that TLC checks.                     *)
EXTENDS GovernedOperations, TLC

\* Requests are interchangeable, and so are logins.
Symmetry == Permutations(Requests) \cup Permutations(Logins)

\* Four tools.  With the first the owner does everything that needs one login,
\* far enough to send a write twice.  The card of the second is retired, also by
\* another login.  The third is taken over by another login, also after its write
\* has left.  The fourth may be sent once only: two logins answer, rebind and
\* reconcile its card.
ToolSet ==
    [retried |-> [once |-> FALSE, kinds |-> AllKinds \ {"takeover", "rebind", "retire"}, revisions |-> 7],
     retired |-> [once |-> FALSE, kinds |-> {"confirm", "reject", "retire", "recover"}, revisions |-> 5],
     adopted |-> [once |-> FALSE, kinds |-> {"confirm", "takeover"}, revisions |-> 5],
     single |-> [once |-> TRUE, kinds |-> {"confirm", "rebind", "reconcile"}, revisions |-> 7]]
=============================================================================
