----------------------------- MODULE ChannelProofs -----------------------------
(***************************************************************************)
(* Proofs about Channel: it is a behaviour of Resolver and one of Client,  *)
(* for any addresses, SubConns, versions and threads, so that what was     *)
(* proved or checked of each holds in the real pair; and the end-to-end    *)
(* property that follows from the two together.                            *)
(***************************************************************************)
EXTENDS Channel, ClientProofs

-----------------------------------------------------------------------------
(* Every step is one of Resolver, or none.                                  *)

LEMMA StepIsResolver ==
  ASSUME ClientTypeOK, [ChannelNext]_channelVars
  PROVE  [Res!Next]_(Res!vars)
<1>1. CASE Update
  BY <1>1 DEF Update, Res!Next, Res!Watcher, Res!Refresh
<1>2. CASE Report
  BY <1>2 DEF Report, Res!Next, Res!Watcher, Res!Refresh
<1>3. CASE Change
  BY <1>3 DEF Change, Res!Next
<1>4. CASE ResolverStep
  BY <1>4 DEF ResolverStep, Res!Next, Res!Watcher, Res!Refresh
<1>5. CASE BalancerStep
  <2>1. UNCHANGED <<resolver, service>>
    BY <1>5 DEF BalancerStep, Deliver, Connection, RpcStep, Load, PickFails, PickAgain,
                Send
  <2> QED
    BY <2>1 DEF resolver, service, Res!vars
<1>6. CASE UNCHANGED channelVars
  BY <1>6 DEF channelVars, clientVars, service, resolver, Res!vars
<1> QED
  BY <1>1, <1>2, <1>3, <1>4, <1>5, <1>6 DEF ChannelNext

-----------------------------------------------------------------------------
(* The resolver's invariant, about the version that the channel has.        *)

\* A refresh will start, or somebody is about to ask for one.
Asked == ~ built \/ eventCh > 0 \/ calling # {}

OnItsWay ==
  /\ pc = "watch" => Asked
  /\ pc = "update" => view <= found
  /\ pc = "update" /\ watch = "active" => found = Len(instances) \/ Asked
  /\ watch = "active" /\ ~ failed /\ ~ ccClosed
       => view = Len(instances) \/ Asked \/ pc \in {"lookup", "update"}

ClosingOrder ==
  /\ ccClosed => built
  /\ cancelled => ccClosed
  /\ pc \in {"exit", "close", "done", "panicked"} => cancelled
  /\ chClosed => pc = "done"

RInv == Res!TypeOK /\ ClosingOrder /\ OnItsWay /\ (pc = "update" => found > 0)

LEMMA ResolverInv ==
  /\ Res!Init => RInv
  /\ RInv /\ [Res!Next]_(Res!vars) => RInv'
<1>1. Res!Init => RInv
  <2> SUFFICES ASSUME Res!Init PROVE RInv
    OBVIOUS
  <2>1. Len(instances) \in 1..MaxVersion
    BY VersionAssumption DEF Res!Init
  <2>2. found \in 0..Len(instances) /\ view \in 0..Len(instances) /\ eventCh \in 0..1
    BY DEF Res!Init
  <2>3. Res!TypeOK
    BY <2>1, <2>2 DEF Res!Init, Res!TypeOK
  <2> QED
    BY <2>3 DEF Res!Init, RInv, ClosingOrder, OnItsWay, Asked
<1>2. RInv /\ [Res!Next]_(Res!vars) => RInv'
  <2> SUFFICES ASSUME RInv, [Res!Next]_(Res!vars) PROVE RInv'
    OBVIOUS
  <2> DEFINE n0 == Len(instances)
             n1 == Len(instances)'
  <2> USE VersionAssumption DEF RInv, Res!TypeOK, ClosingOrder, OnItsWay, Asked, Res!sdk, Res!grpc
  <2>a. n0 \in 1..MaxVersion /\ n0 \in Nat
    OBVIOUS
  <2>1. CASE Res!BuildReturns \/ Res!ResolveNow
    <3>1. built' /\ eventCh' = 1 /\ n1 = n0
          /\ UNCHANGED <<pc, chClosed, ticker, cancelled, watch, found, calling, view,
                         failed, ccClosed>>
      BY <2>1 DEF Res!BuildReturns, Res!ResolveNow, Res!SendOrDrop, Res!Capacity
    <3> QED
      BY <3>1, <2>a
  <2>2. CASE Res!DoWatch \/ Res!DoWatchFails
    BY <2>2 DEF Res!DoWatch, Res!DoWatchFails
  <2>3. CASE Res!TakeEvent
    BY <2>3 DEF Res!TakeEvent
  <2>4. CASE Res!TakeTick \/ Res!TakeDone
    BY <2>4 DEF Res!TakeTick, Res!TakeDone
  <2>5. CASE Res!Lookup
    <3>1. pc = "lookup" /\ pc' = "update" /\ found' = n0 /\ n1 = n0
          /\ UNCHANGED <<built, eventCh, chClosed, ticker, cancelled, watch, calling, view,
                         failed, ccClosed>>
      BY <2>5 DEF Res!Lookup
    <3> QED
      BY <3>1, <2>a
  <2>6. CASE Res!LookupFails
    <3>1. /\ pc = "lookup" /\ pc' = "select" /\ n1 = n0
          /\ failed' = (failed \/ ~ ccClosed)
          /\ UNCHANGED <<built, eventCh, chClosed, ticker, cancelled, watch, found, calling,
                         view, ccClosed>>
      BY <2>6 DEF Res!LookupFails
    <3>2. watch = "active" /\ ~ failed' /\ ~ ccClosed' => FALSE
      BY <3>1
    <3> QED
      BY <3>1, <3>2, <2>a
  <2>7. CASE Res!UpdateState
    <3>1. /\ pc = "update" /\ pc' = "select" /\ n1 = n0
          /\ UNCHANGED <<built, eventCh, chClosed, ticker, cancelled, watch, found, calling,
                         ccClosed>>
      BY <2>7 DEF Res!UpdateState
    <3>2. \/ ccClosed /\ view' = view /\ failed' = failed
          \/ view' = found /\ failed' = FALSE
      BY <2>7 DEF Res!UpdateState
    <3>3. view' \in 0..n0 /\ found \in 0..n0 /\ failed' \in BOOLEAN
      BY <3>2
    <3>4. Res!TypeOK'
      BY <3>1, <3>3
    <3>5. ClosingOrder'
      BY <3>1
    <3>6. OnItsWay'
      BY <3>1, <3>2
    <3> QED
      BY <3>1, <3>4, <3>5, <3>6
  <2>8. CASE Res!Return
    <3>1. CASE Res!CancelWatch
      BY <2>a, <3>1 DEF Res!CancelWatch
    <3>2. CASE Res!CloseEventCh
      BY <2>a, <3>2 DEF Res!CloseEventCh
    <3> QED
      BY <2>8, <3>1, <3>2 DEF Res!Return
  <2>9. ASSUME NEW n \in Notifier, Res!OnInstancesUpdate(n) PROVE RInv'
    <3>1. /\ eventCh' = 1 \/ (chClosed /\ eventCh' = eventCh)
          /\ calling' \in SUBSET Notifier /\ n1 = n0
          /\ UNCHANGED <<built, pc, chClosed, ticker, cancelled, watch, found, view,
                         failed, ccClosed>>
      BY <2>9 DEF Res!OnInstancesUpdate, Res!Capacity
    <3> QED
      BY <3>1, <2>a
  <2>10. CASE Res!ServiceChanges
    <3>1. /\ n1 = n0 + 1 /\ n0 < MaxVersion
          /\ UNCHANGED <<built, pc, eventCh, chClosed, ticker, cancelled, watch, found, view,
                         failed, ccClosed>>
      BY <2>10 DEF Res!ServiceChanges
    <3>2. /\ calling' \in SUBSET Notifier
          /\ calling \subseteq calling'
          /\ watch = "active" => calling' # {}
      BY <2>10 DEF Res!ServiceChanges
    <3>3. Res!TypeOK'
      BY <3>1, <3>2, <2>a
    <3>4. ClosingOrder' /\ OnItsWay'
      BY <3>1, <3>2
    <3> QED
      BY <3>1, <3>3, <3>4
  <2>11. CASE Res!Tick \/ Res!ClientConnCloses \/ Res!Close
    <3>1. CASE Res!Tick
      BY <2>a, <3>1 DEF Res!Tick
    <3>2. CASE Res!ClientConnCloses
      BY <2>a, <3>2 DEF Res!ClientConnCloses
    <3>3. CASE Res!Close
      BY <2>a, <3>3 DEF Res!Close
    <3> QED
      BY <2>11, <3>1, <3>2, <3>3
  <2>12. CASE UNCHANGED Res!vars
    BY <2>12 DEF Res!vars
  <2> QED
    BY <2>1, <2>2, <2>3, <2>4, <2>5, <2>6, <2>7, <2>8, <2>9, <2>10, <2>11, <2>12
    DEF Res!Next, Res!Watcher, Res!Select, Res!Refresh, Res!Ended
<1> QED
  BY <1>1, <1>2

-----------------------------------------------------------------------------
(* Every step is one of Client, or none.                                    *)

LEMMA StepIsClient ==
  ASSUME ClientTypeOK, RInv, [ChannelNext]_channelVars
  PROVE  [ClientNext]_clientVars
<1>1. CASE Update
  <2>1. view' = found /\ pc = "update"
    BY <1>1 DEF Update, Res!UpdateState
  <2>2. view' \in 1..Len(instances) /\ view' >= view
    BY <2>1 DEF RInv, OnItsWay, Res!TypeOK
  <2>3. Show
    BY <1>1, <2>1, <2>2 DEF Update, Forgotten, Show
  <2> QED
    BY <2>3 DEF ClientNext
<1>2. CASE Report
  BY <1>2 DEF Report, ClientNext
<1>3. CASE Change
  BY <1>3 DEF Change, ClientNext
<1>4. CASE ResolverStep
  BY <1>4 DEF ResolverStep
<1>5. CASE BalancerStep
  BY <1>5 DEF BalancerStep, ClientNext
<1>6. CASE UNCHANGED channelVars
  BY <1>6 DEF channelVars
<1> QED
  BY <1>1, <1>2, <1>3, <1>4, <1>5, <1>6 DEF ChannelNext

\* Whoever was shown instances has a picker.
ShownMeansPicker == view > 0 /\ instances[view] # {} => v2Picker # NIL

LEMMA PickerStays ==
  ASSUME IInv, TypeOK', [Next]_vars, v2Picker # NIL
  PROVE  v2Picker' # NIL
<1>1. TypeOK /\ NoNilDereference
  BY DEF IInv
<1>2. ASSUME NEW opts \in {NIL, dialOptions}, RegeneratePicker(opts),
             state' = "TransientFailure" \/ response' # NIL
      PROVE  v2Picker' # NIL
  BY <1>2, Regenerated DEF TypeOK
<1>3. ASSUME NEW A \in SUBSET Addr, NEW cfg, UpdateClientConnState(A, cfg)
      PROVE  v2Picker' # NIL
  <2>1. RegeneratePicker(options') /\ response' = A /\ options' \in {NIL, dialOptions}
    BY <1>3 DEF UpdateClientConnState, TypeOK
  <2> QED
    BY <1>2, <2>1, NilAssumption
<1>4. CASE ReportResolverError
  BY <1>2, <1>4 DEF ReportResolverError, Reported
<1>5. ASSUME NEW sc \in SubConn, UpdateSubConnState(sc)
      PROVE  v2Picker' # NIL
  <2>1. scStates[sc] # NIL /\ UNCHANGED <<options, response>>
    BY <1>5 DEF UpdateSubConnState, Ignored, fields
  <2>2. response' # NIL /\ options \in {NIL, dialOptions}
    BY <1>1, <2>1 DEF NoNilDereference, TypeOK
  <2>3. v2Picker' = v2Picker \/ RegeneratePicker(options)
    BY <1>5 DEF UpdateSubConnState
  <2> QED
    BY <1>2, <2>2, <2>3
<1>6. \/ v2Picker' = v2Picker \/ ReportResolverError
      \/ \E A \in SUBSET Addr, cfg \in LBConfig \cup {NIL} : UpdateClientConnState(A, cfg)
      \/ \E sc \in SubConn : UpdateSubConnState(sc)
  BY DEF Next, ResolverSide, UpdateWithoutAddresses, ResolverError, Delivery,
         IgnoreSubConnState, ConnectionSide, Dial, DialSucceeds, DialFails,
         BackoffEnds, ConnectionLost, Transport, vars
<1> QED
  BY <1>3, <1>4, <1>5, <1>6

LEMMA ShownStep ==
  CInv /\ CInv' /\ ShownMeansPicker /\ [ClientNext]_clientVars => ShownMeansPicker'
<1> SUFFICES ASSUME CInv, CInv', ShownMeansPicker, [ClientNext]_clientVars,
                    view' > 0, instances'[view'] # {}
             PROVE  v2Picker' # NIL
  BY DEF ShownMeansPicker
<1>1. IInv /\ TypeOK /\ TypeOK' /\ ClientTypeOK /\ [Next]_vars
  BY StepRefines DEF CInv, IInv
<1>2. CASE Show
  <2>1. UpdateClientConnState(instances[view'], NIL) /\ instances[view'] \in SUBSET Addr
    BY <1>1, <1>2, ShownIs
  <2>2. RegeneratePicker(options') /\ response' = instances[view']
    BY <2>1 DEF UpdateClientConnState
  <2> QED
    BY <1>1, <2>1, <2>2, Regenerated DEF TypeOK
<1>3. CASE ServiceChanges
  <2>1. instances'[view'] = instances[view] /\ view' = view
    BY <1>1, <1>3 DEF ServiceChanges, ClientTypeOK
  <2> QED
    BY <1>3, <2>1 DEF ServiceChanges, vars, ShownMeansPicker
<1>4. CASE UNCHANGED service
  BY <1>1, <1>4, PickerStays DEF service, ShownMeansPicker
<1>5. Show \/ ServiceChanges \/ UNCHANGED service
  BY DEF ClientNext, LookupFails, Deliver, Connection, RpcStep, Load, PickFails,
         PickAgain, Send, clientVars, service
<1> QED
  BY <1>2, <1>3, <1>4, <1>5

ChannelInv == CInv /\ RInv /\ ShownMeansPicker

LEMMA ChannelInvariance == ChannelSpec => []ChannelInv
<1>1. ChannelInit => ChannelInv
  <2> SUFFICES ASSUME ChannelInit PROVE ChannelInv
    OBVIOUS
  <2>1. IInv /\ ClientTypeOK /\ ViewTaken /\ ShownMeansPicker
    BY InitInv DEF ChannelInit, ClientInit, ClientTypeOK, ViewTaken, ShownMeansPicker
  <2> QED
    BY <2>1, ResolverInv DEF ChannelInit, ChannelInv, CInv
<1>2. ChannelInv /\ [ChannelNext]_channelVars => ChannelInv'
  <2> SUFFICES ASSUME ChannelInv, [ChannelNext]_channelVars PROVE ChannelInv'
    OBVIOUS
  <2>1. [ClientNext]_clientVars /\ [Res!Next]_(Res!vars)
    BY StepIsClient, StepIsResolver DEF ChannelInv, CInv
  <2>2. RInv'
    BY <2>1, ResolverInv DEF ChannelInv
  <2>3. CInv'
    BY <2>1, StepRefines, ClientTypeStep, StepInv, ViewStep DEF ChannelInv, CInv
  <2> QED
    BY <2>1, <2>2, <2>3, ShownStep DEF ChannelInv
<1> QED
  BY <1>1, <1>2, PTL DEF ChannelSpec

-----------------------------------------------------------------------------
(* The theorems.                                                            *)

\* The calls between watcher and ClientConn are as Resolver has them: the
\* composition shows the resolver (resolver.go) nothing that Resolver does not.
THEOREM ChannelRefinesResolver == ChannelSpec => Res!Spec
<1>1. ChannelInit => Res!Init
  BY DEF ChannelInit
<1>2. ChannelInv /\ [ChannelNext]_channelVars => [Res!Next]_(Res!vars)
  BY StepIsResolver DEF ChannelInv, CInv
<1> QED
  BY <1>1, <1>2, ChannelInvariance, PTL DEF ChannelSpec, Res!Spec

\* What Client takes the resolver to be, it is: the watcher, its events, ticks
\* and failures show the balancer nothing that Client does not.
THEOREM ChannelRefinesClient == ChannelSpec => ClientSpec
<1>1. ChannelInit => ClientInit
  BY DEF ChannelInit
<1>2. ChannelInv /\ [ChannelNext]_channelVars => [ClientNext]_clientVars
  BY StepIsClient DEF ChannelInv, CInv
<1> QED
  BY <1>1, <1>2, ChannelInvariance, PTL DEF ChannelSpec, ClientSpec

\* From the SDK's cache to the RPCs: at rest, RPCs go to the ready instances of
\* the latest version, and to no other (resolver.go and balancer.go together).
THEOREM QuietRouted == ChannelSpec => []QuietMeansRouted
<1>1. ChannelInv /\ RoutedAsShown => QuietMeansRouted
  <2> SUFFICES ASSUME ChannelInv, RoutedAsShown,
                      built, pc = "select", watch = "active", eventCh = 0,
                      calling = {}, ~ failed, ~ ccClosed,
                      instances[Len(instances)] # {}
               PROVE  /\ published # NIL
                      /\ Routed = {a \in instances[Len(instances)] :
                                     ReadySCs(subConns, scStates)[a] # NIL}
    BY DEF QuietMeansRouted
  <2>1. view = Len(instances) /\ view > 0
    BY DEF ChannelInv, RInv, Res!TypeOK, OnItsWay, Asked
  <2>2. v2Picker # NIL
    BY <2>1 DEF ChannelInv, ShownMeansPicker
  <2>3. published # NIL
    BY <2>2, NilAssumption DEF ChannelInv, CInv, IInv, PublishedIsCurrent, TypeOK
  <2> QED
    BY <2>1, <2>3 DEF RoutedAsShown
<1>2. ChannelSpec => []RoutedAsShown
  BY ChannelRefinesClient, RoutedRight, PTL
<1> QED
  BY <1>1, <1>2, ChannelInvariance, PTL

-----------------------------------------------------------------------------
(* What the balancer knows, and what is.                                    *)

\* The connection of an address as it is, and a notice of it that waits.
Up(a)   == subConns[a] # NIL /\ conn[subConns[a]] = "Ready"
News(a) == subConns[a] # NIL /\ notices[subConns[a]] # <<>>

\* When the resolver is at rest, RPCs go to exactly those instances of the
\* latest version that are in fact connected, but for those of which a notice
\* is on its way; QuietMeansRouted says it of what the balancer remembers.
THEOREM QuietTruthful ==
  ChannelSpec =>
    [](LET latest == instances[Len(instances)]
       IN  /\ built /\ pc = "select" /\ watch = "active"
           /\ eventCh = 0 /\ calling = {} /\ ~ failed /\ ~ ccClosed
           /\ latest # {}
           => \A a \in Addr : News(a) \/ (a \in Routed <=> a \in latest /\ Up(a)))
<1>1. ASSUME ChannelInv, NewsComes, QuietMeansRouted
      PROVE  LET latest == instances[Len(instances)]
             IN  /\ built /\ pc = "select" /\ watch = "active"
                 /\ eventCh = 0 /\ calling = {} /\ ~ failed /\ ~ ccClosed
                 /\ latest # {}
                 => \A a \in Addr : News(a) \/ (a \in Routed <=> a \in latest /\ Up(a))
  <2> DEFINE latest == instances[Len(instances)]
             ready  == ReadySCs(subConns, scStates)
  <2> SUFFICES ASSUME built, pc = "select", watch = "active", eventCh = 0,
                      calling = {}, ~ failed, ~ ccClosed, latest # {},
                      NEW a \in Addr, ~ News(a)
               PROVE  a \in Routed <=> a \in latest /\ Up(a)
    OBVIOUS
  <2>1. a \in Routed <=> a \in latest /\ ready[a] # NIL
    BY <1>1 DEF QuietMeansRouted
  <2>2. TypeOK /\ SubConnsInUse
    BY <1>1 DEF ChannelInv, CInv, IInv
  <2>3. CASE subConns[a] = NIL
    BY <2>1, <2>3 DEF ReadySCs, Up
  <2>4. CASE subConns[a] # NIL
    <3>1. /\ subConns[a] \in SubConn /\ scStates[subConns[a]] # NIL
          /\ notices[subConns[a]] = <<>>
      BY <2>2, <2>4 DEF TypeOK, SubConnsInUse, News
    <3>2. scStates[subConns[a]] = "Ready" <=> conn[subConns[a]] = "Ready"
      BY <1>1, <3>1 DEF NewsComes, KnownAtRest, Retried
    <3>3. ready[a] # NIL <=> conn[subConns[a]] = "Ready"
      BY <2>4, <3>2 DEF ReadySCs
    <3> QED
      BY <2>1, <2>4, <3>3 DEF Up
  <2> QED
    BY <2>3, <2>4
<1>2. ChannelSpec => []NewsComes
  BY ChannelRefinesClient, ClientRefinesBalancer, NewsInvariance, PTL
<1> QED
  BY <1>1, <1>2, QuietRouted, ChannelInvariance, PTL

=================================================================================
