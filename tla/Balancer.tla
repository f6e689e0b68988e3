------------------------------- MODULE Balancer -------------------------------
(***************************************************************************)
(* The load balancing policy "polaris" of grpc-go-polaris (balancer.go):   *)
(* one polarisNamingBalancer inside one gRPC ClientConn.                   *)
(*                                                                         *)
(* gRPC runs the balancer's methods one at a time (its callback serializer)*)
(* so each of them is one action.  What is concurrent is everything around *)
(* them: the connections change state on their own, the news of it waits   *)
(* in a queue while the resolver adds and removes addresses, and RPCs pick *)
(* from whatever picker was published last.                                *)
(*                                                                         *)
(* An instance of the service is known by its address (host:port).         *)
(***************************************************************************)
EXTENDS Integers, FiniteSets, Sequences

CONSTANTS
  Addr,        \* addresses the resolver may report
  SubConn,     \* identities of gRPC SubConns, reused once forgotten
  LBConfig,    \* load balancing configurations a service config may carry
  NIL,         \* Go's nil
  MaxNotices   \* bound: a connection with that many undelivered notices rests

ASSUME FiniteAssumption == IsFiniteSet(SubConn)
ASSUME BoundAssumption == MaxNotices \in Nat \ {0}

VARIABLES
  \* polarisNamingBalancer
  options, response, apis, lbCfg, subConns, scStates, csEvltr, state,
  resolverErr, connErr, v2Picker,
  \* what the ClientConn was last given by cc.UpdateState
  published,
  \* the gRPC SubConns: actual state, a Connect not yet acted on, and the
  \* state changes not yet delivered to the balancer
  conn, wanted, notices

fields   == <<options, response, apis, lbCfg>>
conns    == <<conn, wanted, notices>>
vars     == <<options, response, apis, lbCfg, subConns, scStates, csEvltr,
              state, resolverErr, connErr, v2Picker, published,
              conn, wanted, notices>>

Counted   == {"Ready", "Connecting", "Idle", "TransientFailure"}
ConnState == Counted \cup {"Shutdown"}

dialOptions == "dialOptions"     \* the attributes' *dialOptions, one per dial
anError     == "error"           \* any non-nil error

\* errPicker and polarisNamingPicker.
Picker ==
  [kind : {"err"}, conn : {NIL, anError}, resolver : {NIL, anError}]
    \cup
  [kind : {"polaris"}, readySCs : [Addr -> SubConn \cup {NIL}],
   options : {NIL, dialOptions}, lbCfg : LBConfig \cup {NIL},
   insList : SUBSET Addr]

\* nil is none of the values.
ASSUME NilAssumption ==
  /\ NIL \notin SubConn
  /\ NIL \notin ConnState \cup {dialOptions, anError}
  /\ \A A \in SUBSET Addr : NIL # A
  /\ \A p \in Picker \cup [state : Counted, picker : Picker] : NIL # p

-----------------------------------------------------------------------------
(* balancer.ConnectivityStateEvaluator: one counter per state but Shutdown. *)

RecordTransition(e, old, new) ==
  [s \in Counted |-> e[s] - (IF s = old THEN 1 ELSE 0)
                          + (IF s = new THEN 1 ELSE 0)]

CurrentState(e) ==
  IF e["Ready"] > 0 THEN "Ready"
  ELSE IF e["Connecting"] > 0 THEN "Connecting"
  ELSE IF e["Idle"] > 0 THEN "Idle"
  ELSE "TransientFailure"

-----------------------------------------------------------------------------
(* The pickers.  All three operators read the fields as the handler that    *)
(* calls them leaves them, hence the primes.                                *)

\* mergeErrors: the error of an errPicker names its causes, if there are any.
ErrPicker == [kind |-> "err", conn |-> connErr', resolver |-> resolverErr']

\* The subConns in state Ready, by address.
ReadySCs(subs, states) ==
  [a \in Addr |-> IF subs[a] # NIL /\ states[subs[a]] = "Ready"
                  THEN subs[a] ELSE NIL]

PolarisPicker(opts) ==
  LET ready == ReadySCs(subConns', scStates')
  IN  [kind |-> "polaris", readySCs |-> ready, options |-> opts,
       lbCfg |-> lbCfg', insList |-> {a \in response' : ready[a] # NIL}]

RegeneratePicker(opts) ==
  v2Picker' = IF state' = "TransientFailure" THEN ErrPicker
                                             ELSE PolarisPicker(opts)

\* cc.UpdateState
\* Mutant: only changes of the aggregated state are handed over.
UpdateStateOnChange ==
  published' = IF state' # state THEN [state |-> state', picker |-> v2Picker']
                                 ELSE published

UpdateState == published' = [state |-> state', picker |-> v2Picker']

-----------------------------------------------------------------------------
(* The resolver's side: new addresses, no address, an error.                *)

\* No notice of a SubConn may still arrive for a fresh identity.
Fresh == {sc \in SubConn : scStates[sc] = NIL /\ notices[sc] = <<>>}

\* What createSubConnection does for every address of A that has no SubConn:
\* a new one (new[a]), or none where NewSubConn failed.
Creations(A) ==
  {new \in [Addr -> Fresh \cup {NIL}] :
     /\ \A a \in Addr : new[a] # NIL => a \in A /\ subConns[a] = NIL
     /\ \A a, b \in Addr : new[a] # NIL /\ new[a] = new[b] => a = b}

\* The SubConns of addresses that the resolver no longer reports.
\* Mutant: they leave the map, but nobody shuts them down.
NotRemoved(A) == {}

Removed(A) == {sc \in SubConn : \E a \in Addr \ A : subConns[a] = sc}

UpdateClientConnState(A, cfg) ==
  /\ A # {}
  /\ options' = IF options = NIL THEN dialOptions ELSE options
  /\ response' = A
  /\ lbCfg' = IF cfg # NIL THEN cfg ELSE lbCfg
  /\ apis' = TRUE
  /\ resolverErr' = NIL
  /\ \E new \in Creations(A) :
       LET created == {sc \in SubConn : \E a \in Addr : new[a] = sc}
           removed == Removed(A)
       IN  /\ subConns' = [a \in Addr |-> IF a \notin A THEN NIL
                                          ELSE IF subConns[a] # NIL
                                               THEN subConns[a] ELSE new[a]]
           /\ scStates' = [sc \in SubConn |-> IF sc \in created THEN "Idle"
                                              ELSE scStates[sc]]
           /\ csEvltr' = [csEvltr EXCEPT !["Idle"] = @ + Cardinality(created)]
           \* sc.Connect() on the created, sc.Shutdown() on the removed
           /\ conn' = [sc \in SubConn |->
                         IF sc \in created THEN "Idle"
                         ELSE IF sc \in removed THEN "Shutdown" ELSE conn[sc]]
           /\ wanted' = (wanted \cup created) \ removed
           /\ notices' = [sc \in SubConn |->
                            IF sc \in removed THEN Append(notices[sc], "Shutdown")
                                              ELSE notices[sc]]
  /\ UNCHANGED <<state, connErr>>
  /\ RegeneratePicker(options')
  /\ UpdateState

\* Mutant: the guard before regeneratePicker(nil) is dropped.
AlwaysReported == TRUE

Reported == state' = "TransientFailure"

\* The body of the method ResolverError; the caller gives the other fields.
ReportResolverError ==
  /\ resolverErr' = anError
  /\ state' = IF \A a \in Addr : subConns[a] = NIL THEN "TransientFailure"
                                                   ELSE state
  /\ UNCHANGED <<subConns, scStates, csEvltr, connErr>>
  /\ UNCHANGED conns
  /\ \/ /\ ~ Reported
        /\ UNCHANGED <<v2Picker, published>>
     \/ /\ Reported
        /\ RegeneratePicker(NIL)
        /\ UpdateState

\* An update without addresses: the fields are taken over before the early
\* return with ErrBadResolverState, the SubConns are left alone.
UpdateWithoutAddresses(cfg) ==
  /\ options' = IF options = NIL THEN dialOptions ELSE options
  /\ response' = {}
  /\ lbCfg' = IF cfg # NIL THEN cfg ELSE lbCfg
  /\ UNCHANGED apis
  /\ ReportResolverError

ResolverError ==
  /\ UNCHANGED fields
  /\ ReportResolverError

-----------------------------------------------------------------------------
(* The connections' side: the next notice of a SubConn is delivered.        *)

\* sc.Connect() asks an idle connection to connect and returns at once.
Connect(sc) == wanted' = IF conn[sc] = "Idle" THEN wanted \cup {sc} ELSE wanted

\* An idle SubConn is asked to connect again.
\* Mutant: it is left alone.
NoReconnect(sc, s) == UNCHANGED wanted

Reconnect(sc, s) == IF s = "Idle" THEN Connect(sc) ELSE UNCHANGED wanted

\* The notices that change nothing but that.
\* Mutant: only the CONNECTING of a failed SubConn is ignored.
IgnoredConnecting(sc, s) ==
  scStates[sc] = NIL \/ (scStates[sc] = "TransientFailure" /\ s = "Connecting")

Ignored(sc, s) ==
  \/ scStates[sc] = NIL
  \/ scStates[sc] = "TransientFailure" /\ s \in {"Connecting", "Idle"}

\* The early returns of UpdateSubConnState: a SubConn it does not know, and
\* one that failed and now reports Idle or Connecting.
IgnoreSubConnState(sc) ==
  /\ notices[sc] # <<>>
  /\ LET s == Head(notices[sc])
     IN  /\ Ignored(sc, s)
         /\ IF scStates[sc] # NIL THEN Reconnect(sc, s) ELSE UNCHANGED wanted
  /\ notices' = [notices EXCEPT ![sc] = Tail(@)]
  /\ UNCHANGED <<fields, subConns, scStates, csEvltr, state, resolverErr,
                 connErr, v2Picker, published, conn>>

\* What scStates holds of a SubConn in state s: nothing after its last notice.
\* Mutant: the entry is not deleted.
NotForgotten(s) == s

Remembered(s) == IF s = "Shutdown" THEN NIL ELSE s

\* Mutant: the old state is read after scStates is written.
RecordedLate(sc, s) == RecordTransition(csEvltr, scStates'[sc], s)

Recorded(sc, s) == RecordTransition(csEvltr, scStates[sc], s)

\* The aggregated state, after the evaluator has recorded the transition.
\* Mutant: it is read before.
AggregatedBefore == CurrentState(csEvltr)

Aggregated == CurrentState(csEvltr')

\* The notice changes what the picker is made of.
\* Mutant: a SubConn that leaves READY is not taken out.
EntersReady(oldS, s) ==
  (s = "Ready" /\ oldS # "Ready") \/ state' = "TransientFailure"

MustRegenerate(oldS, s) ==
  (s = "Ready") # (oldS = "Ready") \/ state' = "TransientFailure"

UpdateSubConnState(sc) ==
  /\ notices[sc] # <<>>
  /\ LET s    == Head(notices[sc])
         oldS == scStates[sc]
     IN  /\ ~ Ignored(sc, s)
         /\ scStates' = [scStates EXCEPT ![sc] = Remembered(s)]
         /\ Reconnect(sc, s)
         /\ connErr' = IF s = "TransientFailure" THEN anError ELSE connErr
         /\ csEvltr' = Recorded(sc, s)
         /\ state' = Aggregated
         /\ UNCHANGED <<fields, subConns, resolverErr, conn>>
         /\ IF MustRegenerate(oldS, s) THEN RegeneratePicker(options)
                                       ELSE UNCHANGED v2Picker
  /\ notices' = [notices EXCEPT ![sc] = Tail(@)]
  /\ UpdateState

-----------------------------------------------------------------------------
(* gRPC's connections (external): an idle one connects when asked, a failed *)
(* one is idle again after its backoff, a ready one may be lost.            *)

Transport(sc, from, to) ==
  /\ conn[sc] = from
  /\ Len(notices[sc]) < MaxNotices
  /\ conn' = [conn EXCEPT ![sc] = to]
  /\ notices' = [notices EXCEPT ![sc] = Append(@, to)]
  /\ UNCHANGED <<fields, subConns, scStates, csEvltr, state, resolverErr,
                 connErr, v2Picker, published>>

Dial(sc) ==
  /\ sc \in wanted
  /\ Transport(sc, "Idle", "Connecting")
  /\ wanted' = wanted \ {sc}

DialSucceeds(sc) == Transport(sc, "Connecting", "Ready") /\ UNCHANGED wanted
DialFails(sc)    == Transport(sc, "Connecting", "TransientFailure") /\ UNCHANGED wanted
BackoffEnds(sc)  == Transport(sc, "TransientFailure", "Idle") /\ UNCHANGED wanted
ConnectionLost(sc) == Transport(sc, "Ready", "Idle") /\ UNCHANGED wanted

-----------------------------------------------------------------------------
(* balancerBuilder.Build, and the specification.                            *)

Init ==
  /\ options = NIL /\ response = NIL /\ apis = FALSE /\ lbCfg = NIL
  /\ subConns = [a \in Addr |-> NIL]
  /\ scStates = [sc \in SubConn |-> NIL]
  /\ csEvltr = [s \in Counted |-> 0]
  /\ state = "Idle"
  /\ resolverErr = NIL /\ connErr = NIL
  /\ v2Picker = NIL /\ published = NIL
  /\ conn = [sc \in SubConn |-> "Shutdown"]
  /\ wanted = {}
  /\ notices = [sc \in SubConn |-> <<>>]

ResolverSide ==
  \/ \E A \in SUBSET Addr, cfg \in LBConfig \cup {NIL} :
       UpdateClientConnState(A, cfg)
  \/ \E cfg \in LBConfig \cup {NIL} : UpdateWithoutAddresses(cfg)
  \/ ResolverError

Delivery(sc) == IgnoreSubConnState(sc) \/ UpdateSubConnState(sc)

ConnectionSide(sc) ==
  \/ Dial(sc) \/ DialSucceeds(sc) \/ DialFails(sc)
  \/ BackoffEnds(sc) \/ ConnectionLost(sc)

Next ==
  \/ ResolverSide
  \/ \E sc \in SubConn : Delivery(sc)
  \/ \E sc \in SubConn : ConnectionSide(sc)

Spec == Init /\ [][Next]_vars

-----------------------------------------------------------------------------
(* Type invariant.                                                          *)

TypeOK ==
  /\ options \in {NIL, dialOptions}
  /\ response \in (SUBSET Addr) \cup {NIL}
  /\ apis \in BOOLEAN
  /\ lbCfg \in LBConfig \cup {NIL}
  /\ subConns \in [Addr -> SubConn \cup {NIL}]
  /\ scStates \in [SubConn -> Counted \cup {NIL}]
  /\ csEvltr \in [Counted -> Nat]
  /\ state \in Counted
  /\ resolverErr \in {NIL, anError}
  /\ connErr \in {NIL, anError}
  /\ v2Picker \in Picker \cup {NIL}
  /\ published \in [state : Counted, picker : Picker] \cup {NIL}
  /\ conn \in [SubConn -> ConnState]
  /\ wanted \in SUBSET SubConn
  /\ notices \in [SubConn -> Seq(ConnState)]

-----------------------------------------------------------------------------
(* Safety.                                                                  *)

\* The evaluator's counters are the numbers of known SubConns per state: no
\* transition is counted twice or lost by the ignored notices, the creations
\* (recorded without a notice) and the deletions.
InState(s) == {sc \in SubConn : scStates[sc] = s}

EvaluatorCounts == \A s \in Counted : csEvltr[s] = Cardinality(InState(s))

\* The SubConn map and gRPC's connections agree: an address never maps to a
\* connection the balancer shut down, two addresses never share one, and a
\* connection the balancer did not shut down is still in the map (no leak).
SubConnsInUse ==
  /\ \A a \in Addr : subConns[a] # NIL =>
       /\ scStates[subConns[a]] # NIL
       /\ conn[subConns[a]] # "Shutdown"
       /\ \A b \in Addr : subConns[b] = subConns[a] => a = b
  /\ \A sc \in SubConn : conn[sc] # "Shutdown" => \E a \in Addr : subConns[a] = sc

\* The current picker offers exactly the READY SubConns of the addresses in
\* use, although it is rebuilt only on some notices; an errPicker is current
\* only while there is none.  Every instance the load balancer may choose
\* has its SubConn in the picker (Pick's ErrNoSubConnAvailable is dead code).
PickerServesReady ==
  LET ready == ReadySCs(subConns, scStates)
  IN  /\ v2Picker = NIL \/ v2Picker.kind = "err" => \A a \in Addr : ready[a] = NIL
      /\ v2Picker # NIL /\ v2Picker.kind = "polaris" =>
           /\ v2Picker.readySCs = ready
           /\ \A a \in v2Picker.insList : ready[a] # NIL

\* What Pick and regeneratePicker dereference is there: a picker with
\* instances always has options, and notices only come once a response,
\* the options and the APIs are set (regeneratePicker(nil) in ResolverError
\* is safe because of the states it can be called in).
NoNilDereference ==
  /\ v2Picker # NIL /\ v2Picker.kind = "polaris" => v2Picker.options # NIL /\ apis
  /\ (\E sc \in SubConn : scStates[sc] # NIL) =>
        options # NIL /\ response # NIL /\ apis

\* RPCs see the state and the picker of the balancer: no handler changes
\* either and forgets to hand both to the ClientConn.
PublishedIsCurrent ==
  IF v2Picker = NIL THEN published = NIL
                    ELSE published = [state |-> state, picker |-> v2Picker]

\* The balancer's state lags behind its evaluator in two ways only: it is
\* still TRANSIENT_FAILURE (no notice came since the addresses changed), or
\* still IDLE as built.  In particular READY and CONNECTING are never stale.
StateLag ==
  state # CurrentState(csEvltr) =>
    \/ state = "TransientFailure"
    \/ state = "Idle" /\ \A sc \in SubConn : scStates[sc] = NIL

Announced(sc, s) == \E i \in 1..Len(notices[sc]) : notices[sc][i] = s

\* No connection in use is forgotten: one that is idle has been told to connect,
\* or its IDLE is on its way to the balancer, which tells it then although it
\* ignores the notice if the SubConn had failed.
NobodyLeftIdle ==
  \A a \in Addr : LET sc == subConns[a] IN
    sc # NIL /\ conn[sc] = "Idle" => sc \in wanted \/ Announced(sc, "Idle")

\* There are known SubConns, and every one has failed.
AllFailed ==
  /\ \E sc \in SubConn : scStates[sc] # NIL
  /\ \A sc \in SubConn : scStates[sc] \in {NIL, "TransientFailure"}

\* While every known backend is failing, the aggregated state does not go
\* back to CONNECTING or IDLE because a backend is tried again: it stays, or
\* a backend is ready.
AllDownStaysDown ==
  [][AllFailed => state' \in {"TransientFailure", "Ready"}]_vars

-----------------------------------------------------------------------------
(* What comments in the code say and the code does not do.                  *)

\* balancer.go:350 "connErr must always be non-nil unless there are no
\* SubConns, in which case resolverErr must be non-nil": the errPicker of a
\* balancer that has SubConns names a cause.
ErrPickerHasCause ==
  v2Picker # NIL /\ v2Picker.kind = "err" /\ (\E a \in Addr : subConns[a] # NIL) =>
    v2Picker.conn # NIL \/ v2Picker.resolver # NIL

=============================================================================
