---------------------------- MODULE BalancerProofs ----------------------------
(***************************************************************************)
(* Proofs about Balancer, for any set of addresses and any finite set of   *)
(* SubConns: the safety properties, by one inductive invariant.            *)
(***************************************************************************)
EXTENDS Balancer, FiniteSetTheorems, TLAPS

\* gRPC tells of the end of a SubConn only once it was shut down.
ShutdownNotices ==
  \A sc \in SubConn : \A i \in 1..Len(notices[sc]) :
    notices[sc][i] = "Shutdown" => conn[sc] = "Shutdown"

\* In TRANSIENT_FAILURE no SubConn in use is connecting or ready: new ones
\* are idle until their first notice, and that notice ends the state.
FailureMeansNoneUp ==
  state = "TransientFailure" =>
    \A a \in Addr : subConns[a] # NIL =>
      scStates[subConns[a]] \in {"Idle", "TransientFailure"}

\* A SubConn exists only once a picker was published.
KnownMeansPicker == (\E sc \in SubConn : scStates[sc] # NIL) => v2Picker # NIL

IInv ==
  /\ TypeOK
  /\ EvaluatorCounts
  /\ SubConnsInUse
  /\ ShutdownNotices
  /\ FailureMeansNoneUp
  /\ KnownMeansPicker
  /\ PickerServesReady
  /\ NoNilDereference
  /\ PublishedIsCurrent
  /\ StateLag

-----------------------------------------------------------------------------
(* What the helpers do.                                                     *)

\* The number of SubConns that f gives the value x.
With(f, x) == {sc \in SubConn : f[sc] = x}

LEMMA Count ==
  ASSUME NEW f, NEW x
  PROVE  /\ IsFiniteSet(With(f, x))
         /\ Cardinality(With(f, x)) \in Nat
         /\ Cardinality(With(f, x)) = 0 <=> \A sc \in SubConn : f[sc] # x
<1>1. IsFiniteSet(With(f, x))
  BY FiniteAssumption, FS_Subset DEF With
<1>2. Cardinality(With(f, x)) \in Nat
  BY <1>1, FS_CardinalityType
<1>3. Cardinality(With(f, x)) = 0 <=> With(f, x) = {}
  BY <1>1, FS_EmptySet
<1> QED
  BY <1>1, <1>2, <1>3 DEF With

\* The number changes as the evaluator's counter does when one value changes.
LEMMA CountUpdated ==
  ASSUME NEW f, NEW g, NEW sc \in SubConn, NEW x,
         \A y \in SubConn \ {sc} : g[y] = f[y]
  PROVE  Cardinality(With(g, x)) =
           Cardinality(With(f, x)) - (IF f[sc] = x THEN 1 ELSE 0)
                                   + (IF g[sc] = x THEN 1 ELSE 0)
<1>1. /\ IsFiniteSet(With(f, x)) /\ Cardinality(With(f, x)) \in Nat
      /\ sc \in With(f, x) <=> f[sc] = x
  BY Count DEF With
<1>2. CASE g[sc] = x
  <2>1. With(g, x) = With(f, x) \cup {sc}
    BY <1>2 DEF With
  <2>2. Cardinality(With(g, x)) = IF f[sc] = x THEN Cardinality(With(f, x))
                                               ELSE Cardinality(With(f, x)) + 1
    BY <1>1, <2>1, FS_AddElement
  <2> QED
    BY <1>1, <1>2, <2>2
<1>3. CASE g[sc] # x
  <2>1. With(g, x) = With(f, x) \ {sc}
    BY <1>3 DEF With
  <2>2. Cardinality(With(g, x)) = IF f[sc] = x THEN Cardinality(With(f, x)) - 1
                                               ELSE Cardinality(With(f, x))
    BY <1>1, <2>1, FS_RemoveElement
  <2> QED
    BY <1>1, <1>3, <2>2
<1> QED
  BY <1>2, <1>3

\* The number of several values set at once.
LEMMA CountAdded ==
  ASSUME NEW f, NEW g, NEW x, NEW C \in SUBSET SubConn,
         With(g, x) = With(f, x) \cup C, With(f, x) \cap C = {}
  PROVE  Cardinality(With(g, x)) = Cardinality(With(f, x)) + Cardinality(C)
<1>1. IsFiniteSet(With(f, x)) /\ Cardinality(With(f, x)) \in Nat
  BY Count
<1>2. IsFiniteSet(C) /\ Cardinality(C) \in Nat
  BY FiniteAssumption, FS_Subset, FS_CardinalityType
<1>3. Cardinality(With(f, x) \cap C) = 0
  BY FS_EmptySet
<1>4. Cardinality(With(f, x) \cup C) =
        Cardinality(With(f, x)) + Cardinality(C) - Cardinality(With(f, x) \cap C)
  BY <1>1, <1>2, FS_Union
<1> QED
  BY <1>1, <1>2, <1>3, <1>4

\* EvaluatorCounts speaks of the function scStates.
LEMMA InStateIs == \A x : InState(x) = With(scStates, x) /\ InState(x)' = With(scStates', x)
BY DEF InState, With

\* The picker that regeneratePicker builds.
LEMMA Regenerated ==
  ASSUME NEW opts \in {NIL, dialOptions}, RegeneratePicker(opts),
         subConns' \in [Addr -> SubConn \cup {NIL}],
         lbCfg' \in LBConfig \cup {NIL},
         connErr' \in {NIL, anError}, resolverErr' \in {NIL, anError},
         state' = "TransientFailure" \/ response' \in SUBSET Addr
  PROVE  LET ready == ReadySCs(subConns', scStates')
         IN  /\ v2Picker' \in Picker
             /\ v2Picker' # NIL
             /\ state' = "TransientFailure" => v2Picker'.kind = "err"
             /\ state' # "TransientFailure" =>
                  /\ v2Picker'.kind = "polaris"
                  /\ v2Picker'.readySCs = ready
                  /\ v2Picker'.options = opts
                  /\ \A a \in v2Picker'.insList : ready[a] # NIL
<1> DEFINE ready == ReadySCs(subConns', scStates')
<1>1. ready \in [Addr -> SubConn \cup {NIL}]
  BY DEF ReadySCs
<1>2. CASE state' = "TransientFailure"
  <2>1. v2Picker' = ErrPicker
    BY <1>2 DEF RegeneratePicker
  <2> QED
    BY <2>1, <1>2, NilAssumption DEF ErrPicker, Picker
<1>3. CASE state' # "TransientFailure"
  <2>1. v2Picker' = [kind |-> "polaris", readySCs |-> ready, options |-> opts,
                     lbCfg |-> lbCfg', insList |-> {a \in response' : ready[a] # NIL}]
    BY <1>3 DEF RegeneratePicker, PolarisPicker
  <2>2. {a \in response' : ready[a] # NIL} \in SUBSET Addr
    BY <1>3
  <2>3. v2Picker' \in Picker
    BY <2>1, <2>2, <1>1 DEF Picker
  <2> QED
    BY <2>1, <2>3, <1>3, NilAssumption
<1> QED
  BY <1>2, <1>3

-----------------------------------------------------------------------------
(* The connections and the notices.                                         *)

LEMMA InitInv == Init => IInv
<1> SUFFICES ASSUME Init PROVE IInv
  OBVIOUS
<1>1. TypeOK
  <2>1. apis \in BOOLEAN
    BY DEF Init
  <2>2. csEvltr \in [Counted -> Nat] /\ notices \in [SubConn -> Seq(ConnState)]
    BY DEF Init
  <2> QED
    BY <2>1, <2>2 DEF Init, TypeOK, Counted, ConnState
<1>2. EvaluatorCounts
  <2>1. \A s \in Counted : InState(s) = {} /\ csEvltr[s] = 0
    BY NilAssumption DEF Init, InState, ConnState
  <2> QED
    BY <2>1, FS_EmptySet DEF EvaluatorCounts
<1>3. SubConnsInUse /\ ShutdownNotices /\ FailureMeansNoneUp
  BY DEF Init, SubConnsInUse, ShutdownNotices, FailureMeansNoneUp
<1>4. KnownMeansPicker /\ NoNilDereference /\ PublishedIsCurrent /\ StateLag
  BY DEF Init, KnownMeansPicker, NoNilDereference, PublishedIsCurrent, StateLag
<1>5. PickerServesReady
  BY DEF Init, PickerServesReady, ReadySCs
<1> QED
  BY <1>1, <1>2, <1>3, <1>4, <1>5 DEF IInv

\* A step of a connection, or a notice the balancer ignores, leaves what the
\* balancer knows alone: only three conjuncts can be disturbed.
LEMMA ConnsOnly ==
  ASSUME IInv,
         UNCHANGED <<options, response, apis, lbCfg, subConns, scStates, csEvltr,
                     state, resolverErr, connErr, v2Picker, published>>,
         conn' \in [SubConn -> ConnState], wanted' \in SUBSET SubConn,
         notices' \in [SubConn -> Seq(ConnState)],
         \A sc \in SubConn : conn[sc] = "Shutdown" <=> conn'[sc] = "Shutdown",
         ShutdownNotices'
  PROVE  IInv'
<1>1. TypeOK'
  BY DEF IInv, TypeOK
<1>2. EvaluatorCounts'
  BY DEF IInv, EvaluatorCounts, InState
<1>3. SubConnsInUse'
  BY DEF IInv, TypeOK, SubConnsInUse
<1>4. FailureMeansNoneUp' /\ KnownMeansPicker'
  BY DEF IInv, FailureMeansNoneUp, KnownMeansPicker
<1>5. PickerServesReady' /\ NoNilDereference'
  <2>1. ReadySCs(subConns, scStates)' = ReadySCs(subConns, scStates)
    OBVIOUS
  <2>2. PickerServesReady'
    BY <2>1 DEF IInv, PickerServesReady
  <2>3. NoNilDereference'
    BY DEF IInv, NoNilDereference
  <2> QED
    BY <2>2, <2>3
<1>6. PublishedIsCurrent' /\ StateLag'
  BY DEF IInv, PublishedIsCurrent, StateLag, CurrentState
<1> QED
  BY <1>1, <1>2, <1>3, <1>4, <1>5, <1>6 DEF IInv

LEMMA TransportInv ==
  ASSUME IInv, NEW sc \in SubConn, NEW from, NEW to \in Counted,
         from # "Shutdown", Transport(sc, from, to),
         wanted' \in SUBSET SubConn
  PROVE  IInv'
<1> USE DEF IInv, TypeOK, Transport, fields, Counted, ConnState
<1>1. notices' \in [SubConn -> Seq(ConnState)] /\ conn' \in [SubConn -> ConnState]
  OBVIOUS
<1>2. \A x \in SubConn : conn[x] = "Shutdown" <=> conn'[x] = "Shutdown"
  OBVIOUS
<1>3. ShutdownNotices'
  <2> SUFFICES ASSUME NEW x \in SubConn, NEW i \in 1..Len(notices'[x]),
                      notices'[x][i] = "Shutdown"
               PROVE  conn'[x] = "Shutdown"
    BY DEF ShutdownNotices
  <2>1. notices[x] \in Seq(ConnState) /\ notices[sc] \in Seq(ConnState)
    OBVIOUS
  <2>2. i \in 1..Len(notices[x]) /\ notices[x][i] = "Shutdown"
    BY <2>1
  <2> QED
    BY <1>2, <2>2 DEF ShutdownNotices
<1> QED
  BY <1>1, <1>2, <1>3, ConnsOnly

LEMMA ConnectionInv ==
  ASSUME IInv, NEW sc \in SubConn, ConnectionSide(sc)
  PROVE  IInv'
<1> USE DEF Counted
<1>1. wanted \in SUBSET SubConn
  BY DEF IInv, TypeOK
<1>2. CASE Dial(sc)
  BY <1>1, <1>2, TransportInv DEF Dial
<1>3. CASE DialSucceeds(sc)
  BY <1>1, <1>3, TransportInv DEF DialSucceeds
<1>4. CASE DialFails(sc)
  BY <1>1, <1>4, TransportInv DEF DialFails
<1>5. CASE BackoffEnds(sc)
  BY <1>1, <1>5, TransportInv DEF BackoffEnds
<1>6. CASE ConnectionLost(sc)
  BY <1>1, <1>6, TransportInv DEF ConnectionLost
<1> QED
  BY <1>2, <1>3, <1>4, <1>5, <1>6 DEF ConnectionSide

\* The delivery of a notice: what is taken from the queue, and what stays.
LEMMA Delivered ==
  ASSUME IInv, NEW sc \in SubConn, notices[sc] # <<>>,
         notices' = [notices EXCEPT ![sc] = Tail(@)], conn' = conn
  PROVE  /\ Head(notices[sc]) \in ConnState
         /\ Head(notices[sc]) = "Shutdown" => conn[sc] = "Shutdown"
         /\ notices' \in [SubConn -> Seq(ConnState)]
         /\ ShutdownNotices'
<1> USE DEF IInv, TypeOK
<1>1. notices[sc] \in Seq(ConnState) /\ Len(notices[sc]) > 0
  OBVIOUS
<1>2. Head(notices[sc]) = notices[sc][1] /\ 1 \in 1..Len(notices[sc])
  BY <1>1
<1>3. notices' \in [SubConn -> Seq(ConnState)]
  BY <1>1
<1>4. ShutdownNotices'
  <2> SUFFICES ASSUME NEW x \in SubConn, NEW i \in 1..Len(notices'[x]),
                      notices'[x][i] = "Shutdown"
               PROVE  conn[x] = "Shutdown"
    BY DEF ShutdownNotices
  <2>1. CASE x = sc
    <3>1. i + 1 \in 1..Len(notices[x]) /\ notices[x][i + 1] = notices'[x][i]
      BY <1>1, <2>1
    <3> QED
      BY <3>1 DEF ShutdownNotices
  <2>2. CASE x # sc
    BY <2>2 DEF ShutdownNotices
  <2> QED
    BY <2>1, <2>2
<1> QED
  BY <1>1, <1>2, <1>3, <1>4 DEF ShutdownNotices

LEMMA IgnoreInv ==
  ASSUME IInv, NEW sc \in SubConn, IgnoreSubConnState(sc)
  PROVE  IInv'
<1>1. notices' \in [SubConn -> Seq(ConnState)] /\ ShutdownNotices'
  BY Delivered DEF IgnoreSubConnState
<1>2. wanted' \in SUBSET SubConn /\ conn' \in [SubConn -> ConnState]
  BY DEF IgnoreSubConnState, Reconnect, Connect, IInv, TypeOK
<1> QED
  BY <1>1, <1>2, ConnsOnly DEF IgnoreSubConnState, fields

-----------------------------------------------------------------------------
(* A notice that counts.                                                    *)

LEMMA NoticeInv ==
  ASSUME IInv, NEW sc \in SubConn, UpdateSubConnState(sc)
  PROVE  IInv'
<1> DEFINE s    == Head(notices[sc])
           oldS == scStates[sc]
<1>1. /\ s \in ConnState
      /\ s = "Shutdown" => conn[sc] = "Shutdown"
      /\ notices' \in [SubConn -> Seq(ConnState)]
      /\ ShutdownNotices'
  BY Delivered DEF UpdateSubConnState
<1>2. oldS \in Counted /\ oldS # NIL
  BY DEF UpdateSubConnState, Ignored, IInv, TypeOK
<1>3. /\ scStates' = [scStates EXCEPT ![sc] = Remembered(s)]
      /\ csEvltr' = RecordTransition(csEvltr, oldS, s)
      /\ state' = CurrentState(csEvltr')
      /\ connErr' \in {NIL, anError}
      /\ UNCHANGED <<options, response, apis, lbCfg, subConns, resolverErr, conn>>
      /\ IF MustRegenerate(oldS, s) THEN RegeneratePicker(options) ELSE UNCHANGED v2Picker
      /\ UpdateState
  BY DEF UpdateSubConnState, Recorded, Aggregated, fields, IInv, TypeOK
<1>4. /\ Remembered(s) \in Counted \cup {NIL}
      /\ \A x \in Counted : Remembered(s) = x <=> s = x
      /\ scStates' \in [SubConn -> Counted \cup {NIL}]
  BY <1>1, <1>3, NilAssumption DEF Remembered, ConnState, Counted, IInv, TypeOK
<1>5. EvaluatorCounts' /\ csEvltr' \in [Counted -> Nat]
  <2>1. \A x \in Counted : csEvltr'[x] = Cardinality(InState(x)')
    <3> SUFFICES ASSUME NEW x \in Counted PROVE csEvltr'[x] = Cardinality(InState(x)')
      OBVIOUS
    <3>1. csEvltr'[x] = csEvltr[x] - (IF x = oldS THEN 1 ELSE 0) + (IF x = s THEN 1 ELSE 0)
      BY <1>3 DEF RecordTransition
    <3>2. csEvltr[x] = Cardinality(InState(x))
      BY DEF IInv, EvaluatorCounts
    <3>3. \A y \in SubConn \ {sc} : scStates'[y] = scStates[y]
      BY <1>3 DEF IInv, TypeOK
    <3>4. scStates'[sc] = x <=> x = s
      BY <1>3, <1>4 DEF IInv, TypeOK
    <3>5. Cardinality(With(scStates', x)) = Cardinality(With(scStates, x))
             - (IF scStates[sc] = x THEN 1 ELSE 0) + (IF scStates'[sc] = x THEN 1 ELSE 0)
      BY <3>3, CountUpdated
    <3> QED
      BY <3>1, <3>2, <3>4, <3>5, InStateIs
  <2>2. \A x \in Counted : Cardinality(InState(x)') \in Nat
    BY Count, InStateIs
  <2>3. csEvltr' = [x \in Counted |-> csEvltr'[x]]
    BY <1>3 DEF RecordTransition
  <2> QED
    BY <2>1, <2>2, <2>3 DEF EvaluatorCounts
<1>6. state' \in Counted
  BY <1>3 DEF CurrentState, Counted
<1>7. \A a \in Addr : subConns[a] # NIL => scStates'[subConns[a]] \in Counted
  BY <1>1, <1>3, <1>4, NilAssumption
     DEF IInv, TypeOK, SubConnsInUse, Remembered, ConnState
<1>8. SubConnsInUse'
  BY <1>3, <1>7, NilAssumption DEF SubConnsInUse, IInv, ConnState
<1>9. FailureMeansNoneUp'
  <2> SUFFICES ASSUME state' = "TransientFailure"
               PROVE  \A y \in SubConn : scStates'[y] \notin {"Ready", "Connecting", "Idle"}
    BY <1>3, <1>7 DEF FailureMeansNoneUp, IInv, TypeOK, Counted
  <2>1. csEvltr'["Ready"] = 0 /\ csEvltr'["Connecting"] = 0 /\ csEvltr'["Idle"] = 0
    BY <1>3, <1>5 DEF CurrentState, Counted
  <2> QED
    BY <1>5, <2>1, Count, InStateIs DEF EvaluatorCounts, Counted
<1>10. v2Picker # NIL /\ options \in {NIL, dialOptions} /\ options # NIL
       /\ response \in SUBSET Addr /\ response # NIL /\ apis
  BY <1>2 DEF IInv, TypeOK, KnownMeansPicker, NoNilDereference
<1> DEFINE PickerIsRight == /\ v2Picker' \in Picker /\ v2Picker' # NIL
                            /\ PickerServesReady' /\ NoNilDereference' /\ KnownMeansPicker'
<1>11. ASSUME MustRegenerate(oldS, s) PROVE PickerIsRight
  <2>1. RegeneratePicker(options)
    BY <1>3, <1>11
  <2>2. /\ subConns' \in [Addr -> SubConn \cup {NIL}] /\ lbCfg' \in LBConfig \cup {NIL}
        /\ resolverErr' \in {NIL, anError} /\ response' \in SUBSET Addr
    BY <1>3, <1>10 DEF IInv, TypeOK
  <2> DEFINE ready == ReadySCs(subConns', scStates')
  <2>3. /\ v2Picker' \in Picker /\ v2Picker' # NIL
        /\ state' = "TransientFailure" => v2Picker'.kind = "err"
        /\ state' # "TransientFailure" =>
             /\ v2Picker'.kind = "polaris" /\ v2Picker'.readySCs = ready
             /\ v2Picker'.options = options /\ \A a \in v2Picker'.insList : ready[a] # NIL
    BY <1>3, <1>10, <2>1, <2>2, Regenerated
  <2>4. state' = "TransientFailure" => \A a \in Addr : ready[a] = NIL
    BY <1>3, <1>9 DEF FailureMeansNoneUp, ReadySCs
  <2>5. PickerServesReady'
    BY <2>3, <2>4 DEF PickerServesReady, ReadySCs
  <2>6. NoNilDereference' /\ KnownMeansPicker'
    BY <1>3, <1>10, <2>3 DEF NoNilDereference, KnownMeansPicker
  <2> QED
    BY <2>3, <2>5, <2>6
<1>12. ASSUME ~ MustRegenerate(oldS, s) PROVE PickerIsRight
  <2>1. v2Picker' = v2Picker
    BY <1>3, <1>12
  <2>2. s = "Ready" <=> oldS = "Ready"
    BY <1>12 DEF MustRegenerate
  <2>3. \A y \in SubConn : scStates'[y] = "Ready" <=> scStates[y] = "Ready"
    BY <1>3, <1>4, <2>2 DEF IInv, TypeOK, Counted
  <2>4. ReadySCs(subConns', scStates') = ReadySCs(subConns, scStates)
    BY <1>3, <2>3 DEF ReadySCs, IInv, TypeOK
  <2>5. PickerServesReady'
    BY <2>1, <2>4 DEF PickerServesReady, IInv
  <2>6. NoNilDereference' /\ KnownMeansPicker'
    BY <1>3, <1>10, <2>1 DEF NoNilDereference, KnownMeansPicker, IInv
  <2>7. v2Picker' \in Picker /\ v2Picker' # NIL
    BY <1>10, <2>1 DEF IInv, TypeOK
  <2> QED
    BY <2>5, <2>6, <2>7
<1>13. PublishedIsCurrent'
  BY <1>3, <1>11, <1>12 DEF PublishedIsCurrent, UpdateState
<1>14. wanted' \in SUBSET SubConn
  BY DEF UpdateSubConnState, Reconnect, Connect, IInv, TypeOK
<1>15. TypeOK'
  BY <1>1, <1>3, <1>4, <1>5, <1>6, <1>11, <1>12, <1>14 DEF IInv, TypeOK, UpdateState
<1>16. StateLag'
  BY <1>3 DEF StateLag
<1> QED
  BY <1>1, <1>5, <1>8, <1>9, <1>11, <1>12, <1>13, <1>15, <1>16 DEF IInv

-----------------------------------------------------------------------------
(* The resolver's side.                                                     *)

LEMMA ErrorInv ==
  ASSUME IInv, ReportResolverError,
         options' \in {NIL, dialOptions}, options # NIL => options' = options,
         response' \in (SUBSET Addr) \cup {NIL}, response # NIL => response' # NIL,
         lbCfg' \in LBConfig \cup {NIL}, apis' = apis
  PROVE  IInv'
<1>1. /\ resolverErr' = anError
      /\ state' \in {state, "TransientFailure"}
      /\ UNCHANGED <<subConns, scStates, csEvltr, connErr, conn, wanted, notices>>
  BY DEF ReportResolverError, conns
<1>2. state' = "TransientFailure" /\ state # "TransientFailure" =>
        \A a \in Addr : subConns[a] = NIL
  BY DEF ReportResolverError
<1>3. EvaluatorCounts' /\ SubConnsInUse' /\ ShutdownNotices'
  BY <1>1 DEF EvaluatorCounts, InState, SubConnsInUse, ShutdownNotices, IInv
<1>4. FailureMeansNoneUp'
  BY <1>1, <1>2 DEF FailureMeansNoneUp, IInv
<1>5. StateLag'
  BY <1>1 DEF StateLag, CurrentState, IInv
<1>6. state' \in Counted
  BY <1>1 DEF IInv, TypeOK, Counted
<1>7. CASE ~ Reported
  <2>1. UNCHANGED <<v2Picker, published>> /\ state' = state
    BY <1>1, <1>7 DEF ReportResolverError, Reported
  <2>2. TypeOK'
    BY <1>1, <1>6, <2>1 DEF TypeOK, IInv
  <2>3. PickerServesReady' /\ KnownMeansPicker' /\ PublishedIsCurrent'
    BY <1>1, <2>1 DEF PickerServesReady, ReadySCs, KnownMeansPicker, PublishedIsCurrent, IInv
  <2>4. NoNilDereference'
    BY <1>1, <2>1 DEF NoNilDereference, IInv
  <2> QED
    BY <1>3, <1>4, <1>5, <2>2, <2>3, <2>4 DEF IInv
<1>8. CASE Reported
  <2>1. RegeneratePicker(NIL) /\ UpdateState /\ state' = "TransientFailure"
    BY <1>8 DEF ReportResolverError, Reported
  <2>2. v2Picker' \in Picker /\ v2Picker' # NIL /\ v2Picker'.kind = "err"
    <3>1. subConns' \in [Addr -> SubConn \cup {NIL}] /\ connErr' \in {NIL, anError}
      BY <1>1 DEF IInv, TypeOK
    <3> QED
      BY <1>1, <2>1, <3>1, Regenerated
  <2>3. TypeOK'
    BY <1>1, <1>6, <2>1, <2>2 DEF TypeOK, IInv, UpdateState
  <2>4. PickerServesReady'
    BY <1>4, <2>1, <2>2 DEF PickerServesReady, ReadySCs, FailureMeansNoneUp
  <2>5. KnownMeansPicker' /\ PublishedIsCurrent'
    BY <2>1, <2>2 DEF KnownMeansPicker, PublishedIsCurrent, UpdateState
  <2>6. NoNilDereference'
    BY <1>1, <2>2 DEF NoNilDereference, IInv
  <2> QED
    BY <1>3, <1>4, <1>5, <2>3, <2>4, <2>5, <2>6 DEF IInv
<1> QED
  BY <1>7, <1>8

LEMMA UpdateInv ==
  ASSUME IInv, NEW A \in SUBSET Addr, NEW cfg \in LBConfig \cup {NIL},
         UpdateClientConnState(A, cfg)
  PROVE  IInv'
<1>1. PICK new \in Creations(A) :
        LET created == {sc \in SubConn : \E a \in Addr : new[a] = sc}
            removed == Removed(A)
        IN  /\ subConns' = [a \in Addr |-> IF a \notin A THEN NIL
                                           ELSE IF subConns[a] # NIL
                                                THEN subConns[a] ELSE new[a]]
            /\ scStates' = [sc \in SubConn |-> IF sc \in created THEN "Idle"
                                               ELSE scStates[sc]]
            /\ csEvltr' = [csEvltr EXCEPT !["Idle"] = @ + Cardinality(created)]
            /\ conn' = [sc \in SubConn |->
                          IF sc \in created THEN "Idle"
                          ELSE IF sc \in removed THEN "Shutdown" ELSE conn[sc]]
            /\ wanted' = (wanted \cup created) \ removed
            /\ notices' = [sc \in SubConn |->
                             IF sc \in removed THEN Append(notices[sc], "Shutdown")
                                               ELSE notices[sc]]
  BY DEF UpdateClientConnState
<1> DEFINE created == {sc \in SubConn : \E a \in Addr : new[a] = sc}
           removed == Removed(A)
<1>2. /\ options' = dialOptions /\ response' = A /\ apis' = TRUE /\ resolverErr' = NIL
      /\ lbCfg' \in LBConfig \cup {NIL}
      /\ UNCHANGED <<state, connErr>> /\ RegeneratePicker(options') /\ UpdateState
  BY DEF UpdateClientConnState, IInv, TypeOK
\* The fresh identities are unknown, the removed ones known.
<1>3. /\ new \in [Addr -> SubConn \cup {NIL}]
      /\ \A sc \in created : scStates[sc] = NIL /\ notices[sc] = <<>>
      /\ \A a \in Addr : new[a] # NIL => subConns[a] = NIL /\ a \in A
      /\ \A a, b \in Addr : new[a] # NIL /\ new[a] = new[b] => a = b
  BY NilAssumption DEF Creations, Fresh
<1>4. \A sc \in removed : scStates[sc] # NIL /\ sc \in SubConn /\ sc \notin created
  BY <1>3, NilAssumption DEF Removed, IInv, SubConnsInUse
<1>5. ShutdownNotices' /\ notices' \in [SubConn -> Seq(ConnState)]
  <2> SUFFICES ASSUME NEW sc \in SubConn
               PROVE  /\ notices'[sc] \in Seq(ConnState)
                      /\ \A i \in 1..Len(notices'[sc]) :
                           notices'[sc][i] = "Shutdown" => conn'[sc] = "Shutdown"
    BY <1>1 DEF ShutdownNotices
  <2>1. notices[sc] \in Seq(ConnState) /\ "Shutdown" \in ConnState
    BY DEF IInv, TypeOK, ConnState
  <2>2. CASE sc \in removed
    BY <1>1, <1>4, <2>1, <2>2
  <2>3. CASE sc \in created
    BY <1>1, <1>3, <1>4, <2>1, <2>3
  <2>4. CASE sc \notin removed /\ sc \notin created
    BY <1>1, <2>1, <2>4 DEF IInv, ShutdownNotices
  <2> QED
    BY <2>2, <2>3, <2>4
<1>6. EvaluatorCounts' /\ csEvltr' \in [Counted -> Nat]
  <2>1. created \subseteq SubConn /\ IsFiniteSet(created) /\ Cardinality(created) \in Nat
    BY FiniteAssumption, FS_Subset, FS_CardinalityType
  <2>2. \A x \in Counted \ {"Idle"} : InState(x)' = InState(x)
    BY <1>1, <1>3, NilAssumption DEF InState, ConnState
  <2>3. InState("Idle")' = InState("Idle") \cup created /\ InState("Idle") \cap created = {}
    BY <1>1, <1>3, NilAssumption DEF InState, ConnState, Counted
  <2>4. csEvltr' = [csEvltr EXCEPT !["Idle"] = @ + Cardinality(created)]
    BY <1>1
  <2> HIDE DEF created
  <2>5. Cardinality(InState("Idle")') = Cardinality(InState("Idle")) + Cardinality(created)
    <3>1. /\ With(scStates', "Idle") = With(scStates, "Idle") \cup created
          /\ With(scStates, "Idle") \cap created = {}
      BY <2>3, InStateIs
    <3>2. Cardinality(With(scStates', "Idle")) =
            Cardinality(With(scStates, "Idle")) + Cardinality(created)
      BY <2>1, <3>1, CountAdded
    <3> QED
      BY <3>2, InStateIs
  <2>6. csEvltr' \in [Counted -> Nat]
    <3>1. csEvltr \in [Counted -> Nat] /\ "Idle" \in Counted
      BY DEF IInv, TypeOK, Counted
    <3>2. csEvltr["Idle"] + Cardinality(created) \in Nat
      BY <2>1, <3>1
    <3> QED
      BY <2>4, <3>1, <3>2
  <2>7. csEvltr'["Idle"] = csEvltr["Idle"] + Cardinality(created)
    BY <2>4 DEF IInv, TypeOK, Counted
  <2>8. \A x \in Counted \ {"Idle"} : csEvltr'[x] = csEvltr[x]
    BY <2>4 DEF IInv, TypeOK
  <2> QED
    BY <2>2, <2>5, <2>6, <2>7, <2>8 DEF EvaluatorCounts, IInv, Counted
<1>7. SubConnsInUse'
  <2>1. ASSUME NEW a \in Addr, subConns'[a] # NIL
        PROVE  /\ scStates'[subConns'[a]] # NIL
               /\ conn'[subConns'[a]] # "Shutdown"
               /\ \A b \in Addr : subConns'[b] = subConns'[a] => a = b
    <3>1. CASE subConns[a] # NIL
      <4>1. /\ subConns'[a] = subConns[a] /\ subConns[a] \in SubConn /\ a \in A
            /\ scStates[subConns[a]] # NIL /\ conn[subConns[a]] # "Shutdown"
        BY <1>1, <2>1, <3>1 DEF IInv, TypeOK, SubConnsInUse
      <4>2. subConns[a] \notin created
        BY <1>3, <4>1
      <4>3. subConns[a] \notin removed
        BY <3>1, <4>1 DEF Removed, IInv, SubConnsInUse
      <4>4. scStates'[subConns[a]] # NIL /\ conn'[subConns[a]] # "Shutdown"
        BY <1>1, <4>1, <4>2, <4>3
      <4>5. \A b \in Addr : subConns'[b] = subConns[a] => a = b
        <5> SUFFICES ASSUME NEW b \in Addr, subConns'[b] = subConns[a] PROVE a = b
          OBVIOUS
        <5>1. subConns'[b] \in {NIL, subConns[b], new[b]}
          BY <1>1
        <5>2. new[b] # subConns[a]
          BY <1>3, <4>1, <4>2
        <5> QED
          BY <3>1, <5>1, <5>2 DEF IInv, SubConnsInUse
      <4> QED
        BY <4>1, <4>4, <4>5
    <3>2. CASE subConns[a] = NIL
      <4>1. subConns'[a] = new[a] /\ new[a] \in created
        BY <1>1, <1>3, <2>1, <3>2
      <4>2. scStates'[new[a]] # NIL /\ conn'[new[a]] # "Shutdown"
        BY <1>1, <4>1, NilAssumption DEF ConnState, Counted
      <4>3. \A b \in Addr : subConns'[b] = new[a] => a = b
        <5> SUFFICES ASSUME NEW b \in Addr, subConns'[b] = new[a] PROVE a = b
          OBVIOUS
        <5>1. new[a] # NIL /\ scStates[new[a]] = NIL
          BY <1>3, <2>1, <4>1
        <5>2. subConns[b] = NIL \/ subConns[b] # new[a]
          BY <5>1 DEF IInv, SubConnsInUse
        <5>3. subConns'[b] \in {NIL, subConns[b], new[b]}
          BY <1>1
        <5> QED
          BY <1>3, <5>1, <5>2, <5>3
      <4> QED
        BY <4>1, <4>2, <4>3
    <3> QED
      BY <3>1, <3>2
  <2>2. ASSUME NEW sc \in SubConn, conn'[sc] # "Shutdown"
        PROVE  \E a \in Addr : subConns'[a] = sc
    BY <1>1, <1>3, <2>2, NilAssumption DEF IInv, TypeOK, SubConnsInUse, Removed
  <2> QED
    BY <2>1, <2>2 DEF SubConnsInUse
<1>8. FailureMeansNoneUp'
  BY <1>1, <1>2, <1>3, NilAssumption DEF FailureMeansNoneUp, IInv, TypeOK
<1>9. /\ subConns' \in [Addr -> SubConn \cup {NIL}]
      /\ scStates' \in [SubConn -> Counted \cup {NIL}]
      /\ conn' \in [SubConn -> ConnState] /\ wanted' \in SUBSET SubConn
  BY <1>1, <1>3 DEF IInv, TypeOK, Counted, ConnState
<1> DEFINE ready == ReadySCs(subConns', scStates')
<1>10. /\ v2Picker' \in Picker /\ v2Picker' # NIL
       /\ state' = "TransientFailure" => v2Picker'.kind = "err"
       /\ state' # "TransientFailure" =>
            /\ v2Picker'.kind = "polaris" /\ v2Picker'.readySCs = ready
            /\ v2Picker'.options = dialOptions
            /\ \A a \in v2Picker'.insList : ready[a] # NIL
  <2>1. connErr' \in {NIL, anError} /\ resolverErr' \in {NIL, anError} /\ response' \in SUBSET Addr
    BY <1>2 DEF IInv, TypeOK
  <2> QED
    BY <1>2, <1>9, <2>1, Regenerated
<1>11. PickerServesReady'
  <2>1. state' = "TransientFailure" => \A a \in Addr : ready[a] = NIL
    BY <1>8 DEF FailureMeansNoneUp, ReadySCs
  <2> QED
    BY <1>10, <2>1 DEF PickerServesReady, ReadySCs
<1>12. KnownMeansPicker' /\ NoNilDereference' /\ PublishedIsCurrent'
  BY <1>2, <1>10, NilAssumption
     DEF KnownMeansPicker, NoNilDereference, PublishedIsCurrent, UpdateState
<1>13. TypeOK'
  BY <1>2, <1>5, <1>6, <1>9, <1>10 DEF TypeOK, IInv, UpdateState
<1>14. StateLag'
  <2>1. \A x \in Counted \ {"Idle"} : csEvltr'[x] = csEvltr[x]
    BY <1>1 DEF IInv, TypeOK
  <2>2. csEvltr'["Idle"] >= csEvltr["Idle"]
    <3>1. Cardinality(created) \in Nat
      BY FiniteAssumption, FS_Subset, FS_CardinalityType
    <3>2. csEvltr' = [csEvltr EXCEPT !["Idle"] = @ + Cardinality(created)]
      BY <1>1
    <3> HIDE DEF created
    <3> QED
      BY <3>1, <3>2 DEF IInv, TypeOK, Counted
  <2>3. CASE state = "TransientFailure"
    BY <1>2, <2>3 DEF StateLag
  <2>4. CASE state # "TransientFailure" /\ state = CurrentState(csEvltr)
    <3>1. CurrentState(csEvltr') = CurrentState(csEvltr)
      BY <1>6, <2>1, <2>2, <2>4 DEF CurrentState, Counted, IInv, TypeOK
    <3> QED
      BY <1>2, <2>4, <3>1 DEF StateLag
  <2>5. CASE state = "Idle" /\ \A sc \in SubConn : scStates[sc] = NIL
    <3>1. \A sc \in SubConn : scStates'[sc] \notin {"Ready", "Connecting"}
      BY <1>1, <2>5, NilAssumption DEF ConnState, Counted
    <3>2. csEvltr'["Ready"] = 0 /\ csEvltr'["Connecting"] = 0
      BY <1>6, <3>1, Count, InStateIs DEF EvaluatorCounts, Counted
    <3>3. CASE csEvltr'["Idle"] > 0
      BY <1>2, <2>5, <3>2, <3>3 DEF StateLag, CurrentState
    <3>4. CASE csEvltr'["Idle"] = 0
      <4>1. \A sc \in SubConn : scStates'[sc] # "Idle"
        BY <1>6, <3>4, Count, InStateIs DEF EvaluatorCounts, Counted
      <4>2. \A sc \in SubConn : scStates'[sc] = NIL
        BY <1>1, <2>5, <4>1
      <4> QED
        BY <1>2, <2>5, <4>2 DEF StateLag
    <3> QED
      BY <1>6, <3>3, <3>4 DEF Counted
  <2> QED
    BY <2>3, <2>4, <2>5 DEF IInv, StateLag
<1> QED
  BY <1>5, <1>6, <1>7, <1>8, <1>11, <1>12, <1>13, <1>14 DEF IInv

-----------------------------------------------------------------------------
(* The theorems.                                                            *)

LEMMA StepInv == IInv /\ [Next]_vars => IInv'
<1> SUFFICES ASSUME IInv, [Next]_vars PROVE IInv'
  OBVIOUS
<1>1. ASSUME NEW A \in SUBSET Addr, NEW cfg \in LBConfig \cup {NIL},
             UpdateClientConnState(A, cfg)
      PROVE  IInv'
  BY <1>1, UpdateInv
<1>2. ASSUME NEW cfg \in LBConfig \cup {NIL}, UpdateWithoutAddresses(cfg)
      PROVE  IInv'
  BY <1>2, ErrorInv, NilAssumption DEF UpdateWithoutAddresses, IInv, TypeOK
<1>3. CASE ResolverError
  BY <1>3, ErrorInv DEF ResolverError, fields, IInv, TypeOK
<1>4. ASSUME NEW sc \in SubConn, Delivery(sc)
      PROVE  IInv'
  BY <1>4, IgnoreInv, NoticeInv DEF Delivery
<1>5. ASSUME NEW sc \in SubConn, ConnectionSide(sc)
      PROVE  IInv'
  BY <1>5, ConnectionInv
<1>6. CASE UNCHANGED vars
  <2>1. UNCHANGED <<options, response, apis, lbCfg, subConns, scStates, csEvltr,
                    state, resolverErr, connErr, v2Picker, published>>
        /\ UNCHANGED <<conn, wanted, notices>>
    BY <1>6 DEF vars
  <2>2. ShutdownNotices'
    BY <2>1 DEF IInv, ShutdownNotices
  <2> QED
    BY <2>1, <2>2, ConnsOnly DEF IInv, TypeOK
<1> QED
  BY <1>1, <1>2, <1>3, <1>4, <1>5, <1>6 DEF Next, ResolverSide

LEMMA Invariance == Spec => []IInv
BY InitInv, StepInv, PTL DEF Spec

\* The fields of the balancer, what it published and gRPC's connections have
\* their types; in particular no counter of the evaluator (csEvltr,
\* RecordTransition in UpdateSubConnState) ever goes below zero.
THEOREM TypeCorrect == Spec => []TypeOK
<1>1. IInv => TypeOK
  BY DEF IInv
<1> QED
  BY <1>1, Invariance, PTL

\* csEvltr counts the known SubConns of each state.
THEOREM CountersRight == Spec => []EvaluatorCounts
<1>1. IInv => EvaluatorCounts
  BY DEF IInv
<1> QED
  BY <1>1, Invariance, PTL

\* subConns and gRPC's connections agree: none is leaked, shared or dead.
THEOREM NoSubConnLeaked == Spec => []SubConnsInUse
<1>1. IInv => SubConnsInUse
  BY DEF IInv
<1> QED
  BY <1>1, Invariance, PTL

\* The picker always offers exactly the ready SubConns in use.
THEOREM PickerCurrent == Spec => []PickerServesReady
<1>1. IInv => PickerServesReady
  BY DEF IInv
<1> QED
  BY <1>1, Invariance, PTL

\* regeneratePicker and Pick never dereference a nil field.
THEOREM NilSafe == Spec => []NoNilDereference
<1>1. IInv => NoNilDereference
  BY DEF IInv
<1> QED
  BY <1>1, Invariance, PTL

\* The ClientConn always holds the balancer's own state and picker.
THEOREM NothingUnpublished == Spec => []PublishedIsCurrent
<1>1. IInv => PublishedIsCurrent
  BY DEF IInv
<1> QED
  BY <1>1, Invariance, PTL

\* The aggregated state lags behind its evaluator only after changes of the
\* addresses, and only in TRANSIENT_FAILURE or in the first IDLE.
THEOREM LagBounded == Spec => []StateLag
<1>1. IInv => StateLag
  BY DEF IInv
<1> QED
  BY <1>1, Invariance, PTL

\* When every known SubConn has failed, the state is TRANSIENT_FAILURE.
LEMMA AllDown ==
  ASSUME IInv, AllFailed
  PROVE  /\ state = "TransientFailure"
         /\ csEvltr["Connecting"] = 0 /\ csEvltr["Idle"] = 0
<1>1. \A x \in {"Ready", "Connecting", "Idle"} : \A sc \in SubConn : scStates[sc] # x
  BY NilAssumption DEF ConnState, Counted, AllFailed
<1>2. \A x \in {"Ready", "Connecting", "Idle"} : csEvltr[x] = 0
  BY <1>1, Count, InStateIs DEF IInv, EvaluatorCounts, Counted
<1>3. CurrentState(csEvltr) = "TransientFailure"
  BY <1>2 DEF CurrentState
<1> QED
  BY <1>2, <1>3 DEF IInv, StateLag, AllFailed

\* UpdateSubConnState never lets retries of failed backends end
\* TRANSIENT_FAILURE: only a ready backend does.
THEOREM FailureIsSticky == Spec => AllDownStaysDown
<1> DEFINE Stays == state' \in {"TransientFailure", "Ready"}
<1>1. IInv /\ [Next]_vars => (AllFailed => Stays)
  <2> SUFFICES ASSUME IInv, [Next]_vars, AllFailed PROVE Stays
    OBVIOUS
  <2>1. /\ state = "TransientFailure"
        /\ csEvltr["Connecting"] = 0 /\ csEvltr["Idle"] = 0
    BY AllDown
  <2>2. CASE state' = state
    BY <2>1, <2>2
  <2>3. CASE ReportResolverError
    BY <2>1, <2>3 DEF ReportResolverError
  <2>4. ASSUME NEW sc \in SubConn, UpdateSubConnState(sc)
        PROVE  Stays
    <3> DEFINE s == Head(notices[sc])
    <3>1. scStates[sc] = "TransientFailure" /\ s \notin {"Connecting", "Idle"}
      BY <2>4 DEF UpdateSubConnState, Ignored, AllFailed
    <3>2. csEvltr' = RecordTransition(csEvltr, "TransientFailure", s)
          /\ state' = CurrentState(csEvltr')
      BY <2>4, <3>1 DEF UpdateSubConnState, Recorded, Aggregated
    <3>3. csEvltr'["Connecting"] = 0 /\ csEvltr'["Idle"] = 0
      BY <2>1, <3>1, <3>2 DEF RecordTransition, Counted
    <3> QED
      BY <3>2, <3>3 DEF CurrentState
  <2>5. \/ state' = state \/ ReportResolverError
        \/ \E sc \in SubConn : UpdateSubConnState(sc)
    BY DEF Next, ResolverSide, Delivery, ConnectionSide, UpdateClientConnState,
           UpdateWithoutAddresses, ResolverError, IgnoreSubConnState, Dial,
           DialSucceeds, DialFails, BackoffEnds, ConnectionLost, Transport, vars
  <2> QED
    BY <2>2, <2>3, <2>4, <2>5
<1> QED
  BY <1>1, Invariance, PTL DEF Spec, AllDownStaysDown

\* mergeErrors (balancer.go:350) has an error to report wherever RPCs fail for
\* want of a connection, once a connection has failed or while the resolver's
\* error stands.  (Before, or in another state, the comment is wrong: the run of
\* MCBalancerErrCause.cfg.)
THEOREM CauseOnceFailed ==
  Spec => [](state = "TransientFailure" /\ (connErr # NIL \/ resolverErr # NIL)
               => /\ v2Picker.kind = "err"
                  /\ v2Picker.conn # NIL \/ v2Picker.resolver # NIL)
<1> DEFINE Current == state = "TransientFailure" =>
             v2Picker = [kind |-> "err", conn |-> connErr, resolver |-> resolverErr]
<1>1. Init => Current
  BY DEF Init
<1>2. Current /\ [Next]_vars => Current'
  <2> SUFFICES ASSUME Current, [Next]_vars, state' = "TransientFailure"
               PROVE  v2Picker' = ErrPicker
    BY DEF ErrPicker
  <2>1. CASE UNCHANGED <<state, connErr, resolverErr, v2Picker>>
    BY <2>1 DEF ErrPicker
  <2>2. ASSUME NEW opts, RegeneratePicker(opts) PROVE v2Picker' = ErrPicker
    BY <2>2 DEF RegeneratePicker
  <2>3. CASE ReportResolverError
    BY <2>2, <2>3 DEF ReportResolverError, Reported
  <2>4. ASSUME NEW A, NEW cfg, UpdateClientConnState(A, cfg) PROVE v2Picker' = ErrPicker
    BY <2>2, <2>4 DEF UpdateClientConnState
  <2>5. ASSUME NEW sc, UpdateSubConnState(sc) PROVE v2Picker' = ErrPicker
    BY <2>2, <2>5 DEF UpdateSubConnState, MustRegenerate
  <2> QED
    BY <2>1, <2>3, <2>4, <2>5
    DEF Next, ResolverSide, Delivery, ConnectionSide, UpdateWithoutAddresses,
        ResolverError, IgnoreSubConnState, Dial, DialSucceeds, DialFails, BackoffEnds,
        ConnectionLost, Transport, vars
<1>3. Current => (state = "TransientFailure" /\ (connErr # NIL \/ resolverErr # NIL)
                    => /\ v2Picker.kind = "err"
                       /\ v2Picker.conn # NIL \/ v2Picker.resolver # NIL)
  OBVIOUS
<1> QED
  BY <1>1, <1>2, <1>3, PTL DEF Spec

-----------------------------------------------------------------------------
(* What the balancer does not know of a connection is on its way to it.     *)

LastNotice(sc) == notices[sc] # <<>> => notices[sc][Len(notices[sc])] = conn[sc]

\* A failed SubConn is tried again without the balancer's taking note.
Retried(sc) == scStates[sc] = "TransientFailure" /\ conn[sc] \in {"Connecting", "Idle"}

KnownAtRest(sc) ==
  notices[sc] = <<>> /\ scStates[sc] # NIL => scStates[sc] = conn[sc] \/ Retried(sc)

NotLeftIdle(sc) == conn[sc] = "Idle" => sc \in wanted \/ Announced(sc, "Idle")

NewsComes == \A sc \in SubConn : LastNotice(sc) /\ KnownAtRest(sc) /\ NotLeftIdle(sc)

\* A SubConn of which nothing changes, or that is told to connect.
LEMMA SameNews ==
  ASSUME NewsComes, NEW sc \in SubConn,
         scStates'[sc] = scStates[sc], conn'[sc] = conn[sc], notices'[sc] = notices[sc],
         sc \in wanted => sc \in wanted'
  PROVE  LastNotice(sc)' /\ KnownAtRest(sc)' /\ NotLeftIdle(sc)'
BY DEF NewsComes, LastNotice, KnownAtRest, Retried, NotLeftIdle, Announced

LEMMA TransportNews ==
  ASSUME TypeOK, NewsComes, NEW sc \in SubConn, NEW from, NEW to \in Counted,
         Transport(sc, from, to), wanted' \in {wanted, wanted \ {sc}}
  PROVE  NewsComes'
<1> USE DEF Counted, ConnState
<1>1. ASSUME NEW x \in SubConn, x # sc
      PROVE  LastNotice(x)' /\ KnownAtRest(x)' /\ NotLeftIdle(x)'
  BY <1>1, SameNews DEF Transport, TypeOK
<1>2. /\ conn'[sc] = to
      /\ Len(notices'[sc]) \in 1..Len(notices'[sc])
      /\ notices'[sc] # <<>> /\ notices'[sc][Len(notices'[sc])] = to
  BY DEF Transport, TypeOK
<1>3. LastNotice(sc)' /\ KnownAtRest(sc)' /\ NotLeftIdle(sc)'
  BY <1>2 DEF LastNotice, KnownAtRest, NotLeftIdle, Announced
<1> QED
  BY <1>1, <1>3 DEF NewsComes

LEMMA TailOf ==
  ASSUME NEW S, NEW q \in Seq(S), q # <<>>
  PROVE  /\ Len(q) \in Nat /\ Len(q) > 0 /\ Head(q) = q[1]
         /\ Tail(q) \in Seq(S) /\ Len(Tail(q)) = Len(q) - 1
         /\ \A i \in 1..Len(Tail(q)) : Tail(q)[i] = q[i + 1]
         /\ Tail(q) = <<>> => Len(q) = 1
<1>1. /\ Len(q) \in Nat /\ Len(q) > 0 /\ Head(q) = q[1]
      /\ Tail(q) \in Seq(S) /\ Len(Tail(q)) = Len(q) - 1
  OBVIOUS
<1>2. \A i \in 1..Len(Tail(q)) : Tail(q)[i] = q[i + 1]
  OBVIOUS
<1>3. Tail(q) = <<>> => Len(q) = 1
  <2>1. Len(<<>>) = 0
    OBVIOUS
  <2>2. Tail(q) = <<>> => Len(q) - 1 = 0
    BY ONLY <1>1, <2>1, Zenon
  <2> QED
    BY ONLY <1>1, <2>2
<1> QED
  BY <1>1, <1>2, <1>3

LEMMA DeliveryNews ==
  ASSUME IInv, NewsComes, NEW sc \in SubConn, Delivery(sc)
  PROVE  NewsComes'
<1> DEFINE s == Head(notices[sc])
           q == notices[sc]
<1>1. /\ q # <<>> /\ notices' = [notices EXCEPT ![sc] = Tail(q)] /\ conn' = conn
      /\ scStates' = scStates \/ scStates' = [scStates EXCEPT ![sc] = Remembered(s)]
  BY DEF Delivery, IgnoreSubConnState, UpdateSubConnState
<1>2. TypeOK /\ SubConnsInUse
  BY DEF IInv
<1>3. /\ q \in Seq(ConnState) /\ Len(q) \in Nat /\ Len(q) > 0 /\ s = q[1]
      /\ Tail(q) \in Seq(ConnState) /\ Len(Tail(q)) = Len(q) - 1
      /\ \A i \in 1..Len(Tail(q)) : Tail(q)[i] = q[i + 1]
      /\ Tail(q) = <<>> => Len(q) = 1
  <2>1. q \in Seq(ConnState)
    BY <1>2 DEF TypeOK
  <2> QED
    BY <1>1, <2>1, TailOf
<1>4. notices'[sc] = Tail(q) /\ conn'[sc] = conn[sc]
  BY <1>1, <1>2 DEF TypeOK
<1>5. ASSUME NEW x \in SubConn, x # sc
      PROVE  LastNotice(x)' /\ KnownAtRest(x)' /\ NotLeftIdle(x)'
  <2>1. x \in wanted => x \in wanted'
    BY DEF Delivery, IgnoreSubConnState, UpdateSubConnState, Reconnect, Connect
  <2> QED
    BY <1>1, <1>2, <1>5, <2>1, SameNews DEF TypeOK
<1>6. LastNotice(sc)'
  <2> SUFFICES ASSUME Tail(q) # <<>>
               PROVE  Tail(q)[Len(Tail(q))] = conn[sc]
    BY <1>4 DEF LastNotice
  <2>1. Len(Tail(q)) \in 1..Len(Tail(q)) /\ Len(Tail(q)) + 1 = Len(q)
    BY <1>3
  <2> QED
    BY <1>1, <1>3, <2>1 DEF NewsComes, LastNotice
<1>7. KnownAtRest(sc)'
  <2> SUFFICES ASSUME Tail(q) = <<>>, scStates'[sc] # NIL
               PROVE  scStates'[sc] = conn[sc]
                      \/ (scStates'[sc] = "TransientFailure" /\ conn[sc] \in {"Connecting", "Idle"})
    BY <1>4 DEF KnownAtRest, Retried
  <2>1. s = conn[sc]
    BY <1>1, <1>3 DEF NewsComes, LastNotice
  <2>2. CASE IgnoreSubConnState(sc)
    BY <2>1, <2>2 DEF IgnoreSubConnState, Ignored
  <2>3. CASE UpdateSubConnState(sc)
    BY <1>2, <2>1, <2>3 DEF UpdateSubConnState, Remembered, TypeOK
  <2> QED
    BY <2>2, <2>3 DEF Delivery
<1>8. NotLeftIdle(sc)'
  <2> SUFFICES ASSUME conn[sc] = "Idle" PROVE sc \in wanted' \/ Announced(sc, "Idle")'
    BY <1>4 DEF NotLeftIdle
  <2>1. scStates[sc] # NIL
    <3>1. PICK a \in Addr : subConns[a] = sc
      BY <1>2 DEF SubConnsInUse
    <3> QED
      BY <1>2, <3>1, NilAssumption DEF SubConnsInUse
  <2>2. Reconnect(sc, s)
    BY <2>1 DEF Delivery, IgnoreSubConnState, UpdateSubConnState
  <2>3. CASE s = "Idle"
    BY <2>2, <2>3 DEF Reconnect, Connect
  <2>4. CASE s # "Idle"
    <3>1. sc \in wanted \/ Announced(sc, "Idle")
      BY DEF NewsComes, NotLeftIdle
    <3>2. CASE sc \in wanted
      BY <2>2, <2>4, <3>2 DEF Reconnect
    <3>3. CASE Announced(sc, "Idle")
      <4>1. PICK i \in 1..Len(q) : q[i] = "Idle"
        BY <3>3 DEF Announced
      <4>2. i - 1 \in 1..Len(Tail(q)) /\ Tail(q)[i - 1] = "Idle"
        BY <1>3, <2>4, <4>1
      <4> QED
        BY <1>4, <4>2 DEF Announced
    <3> QED
      BY <3>1, <3>2, <3>3
  <2> QED
    BY <2>3, <2>4
<1> QED
  BY <1>5, <1>6, <1>7, <1>8 DEF NewsComes

LEMMA UpdateNews ==
  ASSUME IInv, NewsComes, NEW A, NEW cfg, UpdateClientConnState(A, cfg)
  PROVE  NewsComes'
<1>1. PICK new \in Creations(A) :
        LET created == {sc \in SubConn : \E a \in Addr : new[a] = sc}
            removed == Removed(A)
        IN  /\ scStates' = [sc \in SubConn |-> IF sc \in created THEN "Idle"
                                               ELSE scStates[sc]]
            /\ conn' = [sc \in SubConn |->
                          IF sc \in created THEN "Idle"
                          ELSE IF sc \in removed THEN "Shutdown" ELSE conn[sc]]
            /\ wanted' = (wanted \cup created) \ removed
            /\ notices' = [sc \in SubConn |->
                             IF sc \in removed THEN Append(notices[sc], "Shutdown")
                                               ELSE notices[sc]]
  BY DEF UpdateClientConnState
<1> DEFINE created == {sc \in SubConn : \E a \in Addr : new[a] = sc}
           removed == Removed(A)
<1>2. TypeOK /\ SubConnsInUse
  BY DEF IInv
<1>3. \A sc \in created : scStates[sc] = NIL /\ notices[sc] = <<>>
  BY NilAssumption DEF Creations, Fresh
<1>4. \A sc \in removed : sc \notin created
  BY <1>2, <1>3, NilAssumption DEF Removed, SubConnsInUse
<1>5. ASSUME NEW sc \in SubConn
      PROVE  LastNotice(sc)' /\ KnownAtRest(sc)' /\ NotLeftIdle(sc)'
  <2>1. CASE sc \in created
    <3>1. /\ scStates'[sc] = "Idle" /\ conn'[sc] = "Idle" /\ sc \in wanted'
          /\ notices'[sc] = <<>>
      BY <1>1, <1>3, <1>4, <2>1
    <3> QED
      BY <3>1 DEF LastNotice, KnownAtRest, NotLeftIdle
  <2>2. CASE sc \in removed
    <3>1. conn'[sc] = "Shutdown" /\ notices'[sc] = Append(notices[sc], "Shutdown")
      BY <1>1, <1>4, <2>2
    <3>2. notices'[sc] # <<>> /\ notices'[sc][Len(notices'[sc])] = "Shutdown"
      BY <1>2, <3>1 DEF TypeOK, ConnState
    <3> QED
      BY <3>1, <3>2 DEF LastNotice, KnownAtRest, NotLeftIdle
  <2>3. CASE sc \notin created /\ sc \notin removed
    <3>1. /\ scStates'[sc] = scStates[sc] /\ conn'[sc] = conn[sc]
          /\ notices'[sc] = notices[sc] /\ (sc \in wanted => sc \in wanted')
      BY <1>1, <2>3
    <3> QED
      BY <3>1, SameNews
  <2> QED
    BY <2>1, <2>2, <2>3
<1> QED
  BY <1>5 DEF NewsComes

LEMMA NewsStep == IInv /\ NewsComes /\ [Next]_vars => NewsComes'
<1> SUFFICES ASSUME IInv, NewsComes, [Next]_vars PROVE NewsComes'
  OBVIOUS
<1>1. CASE UNCHANGED <<scStates, conn, wanted, notices>>
  BY <1>1, SameNews DEF NewsComes
<1>2. CASE ReportResolverError
  BY <1>1, <1>2 DEF ReportResolverError, conns
<1>3. ASSUME NEW sc \in SubConn, ConnectionSide(sc) PROVE NewsComes'
  BY <1>3, TransportNews
  DEF ConnectionSide, Dial, DialSucceeds, DialFails, BackoffEnds, ConnectionLost,
      Counted, IInv
<1> QED
  BY <1>1, <1>2, <1>3, DeliveryNews, UpdateNews
  DEF Next, ResolverSide, UpdateWithoutAddresses, ResolverError, vars

LEMMA NewsInvariance == Spec => []NewsComes
<1>1. Init => NewsComes
  BY DEF Init, NewsComes, LastNotice, KnownAtRest, NotLeftIdle
<1> QED
  BY <1>1, NewsStep, Invariance, PTL DEF Spec

\* UpdateSubConnState forgets nothing: when no notice of a SubConn waits, the
\* balancer has it in the state it is in, but for a failed one being retried.
THEOREM KnownWhenTold == Spec => [](\A sc \in SubConn : KnownAtRest(sc))
<1>1. NewsComes => \A sc \in SubConn : KnownAtRest(sc)
  BY DEF NewsComes
<1> QED
  BY <1>1, NewsInvariance, PTL

\* Whoever goes idle is told to connect: createSubConnection and both ways
\* through UpdateSubConnState, the one that ignores the notice, too, leave no
\* SubConn in use idle for good.
THEOREM IdleIsTold == Spec => []NobodyLeftIdle
<1>1. TypeOK /\ NewsComes => NobodyLeftIdle
  BY DEF TypeOK, NewsComes, NotLeftIdle, NobodyLeftIdle
<1> QED
  BY <1>1, TypeCorrect, NewsInvariance, PTL

=============================================================================
