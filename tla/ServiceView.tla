------------------------------ MODULE ServiceView ------------------------------
(***************************************************************************)
(* What a name resolver promises a ClientConn: until the ClientConn closes *)
(* it, it shows the service as the service was at some moment, never older *)
(* than what it has shown before.                                          *)
(***************************************************************************)
EXTENDS Integers

VARIABLES
  latest,   \* version of the service's instances, 1, 2, ...
  view,     \* version shown last, 0 before the first
  open      \* the ClientConn has not closed the resolver

Init == latest = 1 /\ view = 0 /\ open = TRUE

Change == latest' = latest + 1 /\ UNCHANGED <<view, open>>

Show ==
  /\ open
  /\ view' \in view..latest
  /\ UNCHANGED <<latest, open>>

Close == open' = FALSE /\ UNCHANGED <<latest, view>>

Next == Change \/ Show \/ Close

Spec == Init /\ [][Next]_<<latest, view, open>>

\* Every version is shown, or skipped for a later one, unless the resolver is
\* closed first.
Converges(V) == \A v \in V : latest = v ~> (view >= v \/ ~ open)

================================================================================
