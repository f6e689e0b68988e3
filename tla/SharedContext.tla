----------------------------- MODULE SharedContext -----------------------------
(***************************************************************************)
(* What endpoints that share an SDK context count on: who takes it gets a  *)
(* live one, and it lives at least until the last of them has given it up. *)
(* It is destroyed then, if the books are exact.                           *)
(***************************************************************************)
CONSTANTS
  Endpoint, Context,
  NIL             \* none of the contexts

VARIABLES
  holders,        \* who took the context and has not given it up
  has,            \* what each of them was given
  current,        \* the shared context, or NIL
  destroyed,
  inexact         \* a call has failed, or the context was replaced

Init ==
  /\ holders = {} /\ has = [e \in Endpoint |-> NIL]
  /\ current = NIL /\ destroyed = {} /\ inexact = FALSE

\* The shared context; a new one if there is none; or nothing.
Take(e) ==
  /\ e \notin holders
  /\ holders' = holders \cup {e}
  /\ \E c \in Context \cup {NIL} :
       /\ c = current \/ (current = NIL /\ c \notin destroyed)
       /\ has' = [has EXCEPT ![e] = c]
       /\ current' = c
       /\ inexact' = (inexact \/ c = NIL)
  /\ UNCHANGED destroyed

Destroy ==
  /\ current # NIL
  /\ destroyed' = destroyed \cup {current}
  /\ current' = NIL

GiveUp(e) ==
  /\ e \in holders
  /\ holders' = holders \ {e}
  /\ \/ holders' = {} /\ Destroy
     \/ (holders' # {} \/ inexact) /\ UNCHANGED <<current, destroyed>>
  /\ UNCHANGED <<has, inexact>>

\* By a context that has not been destroyed.
Replace ==
  /\ current' \in Context \ destroyed
  /\ inexact' = TRUE
  /\ UNCHANGED <<holders, has, destroyed>>

Next == (\E e \in Endpoint : Take(e) \/ GiveUp(e)) \/ Replace

Spec == Init /\ [][Next]_<<holders, has, current, destroyed, inexact>>

\* What holders were given is not destroyed; without holders, and with exact
\* books, there is no context.
Kept ==
  /\ \A e \in holders : has[e] \notin destroyed
  /\ holders = {} /\ ~ inexact => current = NIL

================================================================================
