------------------------------ MODULE Registration ------------------------------
(***************************************************************************)
(* What a server's registration promises the consumers who ask Polaris:    *)
(* it is announced service by service, once; it serves with all of them    *)
(* announced or after taking all back; and it closes after taking them     *)
(* back.  A service stays listed only if taking it back has failed.        *)
(***************************************************************************)
VARIABLES
  names,    \* the services of the server
  listed,   \* those of them that Polaris shows
  kept,     \* those that could not be taken back
  phase     \* "out", "undoing", "failed", "up" or "closed"

Init == listed = {} /\ kept = {} /\ phase = "out"

AllBack == listed \subseteq kept

Announce ==
  /\ phase = "out"
  /\ \E s \in names : listed' = listed \cup {s}
  /\ UNCHANGED <<names, kept, phase>>

ComeUp ==
  /\ phase = "out" /\ listed = names
  /\ phase' = "up"
  /\ UNCHANGED <<names, listed, kept>>

\* One service cannot be announced; whether it is listed is unknown.
Fail ==
  /\ phase = "out"
  /\ listed' = listed \/ \E s \in names : listed' = listed \cup {s}
  /\ phase' = "undoing"
  /\ UNCHANGED <<names, kept>>

TakeBack ==
  /\ phase # "out"
  /\ \E s \in names :
       \/ listed' = listed \ {s} /\ kept' = kept \ {s}
       \/ listed' \in {listed, listed \ {s}} /\ kept' = kept \cup {s}
  /\ UNCHANGED <<names, phase>>

\* After a failure, or without anything to announce.
GiveUp ==
  /\ phase \in {"out", "undoing"} /\ AllBack
  /\ phase' = "failed"
  /\ UNCHANGED <<names, listed, kept>>

\* A server may go on to serve without Polaris.
ServeUnlisted ==
  /\ phase = "failed" /\ AllBack
  /\ phase' = "up"
  /\ UNCHANGED <<names, listed, kept>>

Close ==
  /\ phase \in {"up", "failed"} /\ AllBack
  /\ phase' = "closed"
  /\ UNCHANGED <<names, listed, kept>>

Next == Announce \/ ComeUp \/ Fail \/ TakeBack \/ GiveUp \/ ServeUnlisted \/ Close

Spec == Init /\ [][Next]_<<names, listed, kept, phase>>

=================================================================================
