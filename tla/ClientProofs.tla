------------------------------ MODULE ClientProofs ------------------------------
(***************************************************************************)
(* Proofs about Client, for any addresses, SubConns and versions: its      *)
(* behaviours are behaviours of the balancer, so that Balancer's theorems  *)
(* hold in the composition, and RPCs are routed by what was shown last.    *)
(***************************************************************************)
EXTENDS Client, BalancerProofs

ClientTypeOK ==
  /\ instances \in Seq(SUBSET Addr)
  /\ view \in 0..Len(instances)

\* The instances that the resolver has shown last, if there are any, are the
\* balancer's, and its picker was made of them.
ViewTaken ==
  view > 0 /\ instances[view] # {} =>
    /\ response = instances[view]
    /\ v2Picker # NIL /\ v2Picker.kind = "polaris" =>
         v2Picker.insList = {a \in response : ReadySCs(subConns, scStates)[a] # NIL}

CInv == IInv /\ ClientTypeOK /\ ViewTaken

-----------------------------------------------------------------------------
(* Every step is one of the balancer, or none.                              *)

LEMMA ShownIs ==
  ASSUME ClientTypeOK, Show
  PROVE  /\ instances[view'] \in SUBSET Addr
         /\ view' \in 1..Len(instances) /\ view' \in 1..Len(instances')
         /\ instances' \in Seq(SUBSET Addr) /\ instances'[view'] = instances[view']
         /\ \/ /\ UpdateClientConnState(instances[view'], NIL)
               /\ instances[view'] # {}
            \/ instances[view'] = {} /\ UpdateWithoutAddresses(NIL)
<1> DEFINE shown == instances[view']
<1>1. /\ view' \in 1..Len(instances)
      /\ instances' = [v \in 1..Len(instances) |->
                         IF v < view' THEN {} ELSE instances[v]]
      /\ \/ UpdateClientConnState(shown, NIL)
         \/ shown = {} /\ UpdateWithoutAddresses(NIL)
  BY DEF Show
<1>2. shown \in SUBSET Addr
  BY <1>1 DEF ClientTypeOK
<1>3. UpdateClientConnState(shown, NIL) => shown # {}
  BY DEF UpdateClientConnState
<1>4. /\ \A v \in 1..Len(instances) : instances'[v] \in SUBSET Addr
      /\ instances'[view'] = shown
  BY <1>1 DEF ClientTypeOK
<1>5. instances' \in Seq(SUBSET Addr) /\ Len(instances') = Len(instances)
  BY <1>1, <1>4 DEF ClientTypeOK
<1> QED
  BY <1>1, <1>2, <1>3, <1>4, <1>5

LEMMA StepRefines ==
  ASSUME ClientTypeOK, [ClientNext]_clientVars
  PROVE  [Next]_vars
<1>1. CASE ServiceChanges
  BY <1>1 DEF ServiceChanges
<1>2. CASE Show
  BY <1>2, ShownIs DEF Next, ResolverSide
<1>3. CASE LookupFails
  BY <1>3 DEF LookupFails, Next, ResolverSide
<1>4. ASSUME NEW sc \in SubConn, Deliver(sc) \/ Connection(ConnectionSide(sc))
      PROVE  Next
  BY <1>4 DEF Deliver, Connection, Next, Delivery
<1>5. CASE RpcStep
  BY <1>5 DEF RpcStep, Load, PickFails, PickAgain, Send
<1>6. CASE UNCHANGED clientVars
  BY <1>6 DEF clientVars
<1> QED
  BY <1>1, <1>2, <1>3, <1>4, <1>5, <1>6 DEF ClientNext

LEMMA ClientTypeStep == ClientTypeOK /\ [ClientNext]_clientVars => ClientTypeOK'
<1> SUFFICES ASSUME ClientTypeOK, [ClientNext]_clientVars PROVE ClientTypeOK'
  OBVIOUS
<1>1. CASE ServiceChanges
  BY <1>1 DEF ServiceChanges, ClientTypeOK
<1>2. CASE Show
  BY <1>2, ShownIs DEF ClientTypeOK
<1>3. CASE UNCHANGED service
  BY <1>3 DEF service, ClientTypeOK
<1>4. UNCHANGED service \/ ServiceChanges \/ Show
  BY DEF ClientNext, LookupFails, Deliver, Connection, RpcStep, Load, PickFails,
         PickAgain, Send, clientVars, service
<1> QED
  BY <1>1, <1>2, <1>3, <1>4

-----------------------------------------------------------------------------
(* The picker's instances.                                                  *)

\* A picker that is made anew is made of the response.
LEMMA MadeAnew ==
  ASSUME NEW opts, RegeneratePicker(opts)
  PROVE  /\ v2Picker'.kind = "polaris" =>
              v2Picker'.insList = {a \in response' : ReadySCs(subConns', scStates')[a] # NIL}
         /\ v2Picker'.kind \in {"err", "polaris"}
BY DEF RegeneratePicker, PolarisPicker, ErrPicker

LEMMA ViewStep == CInv /\ [ClientNext]_clientVars /\ IInv' /\ ClientTypeOK' => ViewTaken'
<1> SUFFICES ASSUME CInv, [ClientNext]_clientVars, IInv', ClientTypeOK',
                    view' > 0, instances'[view'] # {}
             PROVE  /\ response' = instances'[view']
                    /\ v2Picker' # NIL /\ v2Picker'.kind = "polaris" =>
                         v2Picker'.insList =
                           {a \in response' : ReadySCs(subConns', scStates')[a] # NIL}
  BY DEF ViewTaken
<1>1. TypeOK /\ TypeOK' /\ ClientTypeOK /\ ViewTaken
  BY DEF CInv, IInv
<1>2. ASSUME UNCHANGED service
      PROVE  /\ instances'[view'] = instances[view] /\ response = instances[view]
             /\ v2Picker # NIL /\ v2Picker.kind = "polaris" =>
                  v2Picker.insList = {a \in response : ReadySCs(subConns, scStates)[a] # NIL}
  BY <1>1, <1>2 DEF service, ViewTaken
<1>3. CASE UNCHANGED <<instances, view, response, v2Picker, subConns, scStates>>
  BY <1>2, <1>3 DEF service
<1>4. CASE ServiceChanges
  <2>1. instances'[view'] = instances[view] /\ view' = view
    BY <1>1, <1>4 DEF ServiceChanges, ClientTypeOK
  <2> QED
    BY <1>1, <1>4, <2>1 DEF ServiceChanges, vars, ViewTaken
<1>5. CASE Show
  <2>1. /\ UpdateClientConnState(instances[view'], NIL)
        /\ instances'[view'] = instances[view']
    BY <1>1, <1>5, ShownIs
  <2>2. response' = instances'[view'] /\ RegeneratePicker(options') /\ UpdateState
    BY <2>1 DEF UpdateClientConnState
  <2> QED
    BY <2>2, MadeAnew
<1>6. ASSUME ReportResolverError, UNCHANGED <<response, instances, view>>
      PROVE  /\ response' = instances'[view']
             /\ v2Picker' # NIL /\ v2Picker'.kind = "polaris" =>
                  v2Picker'.insList =
                    {a \in response' : ReadySCs(subConns', scStates')[a] # NIL}
  <2>1. CASE UNCHANGED <<v2Picker, subConns, scStates>>
    BY <1>2, <1>6, <2>1 DEF service
  <2>2. CASE RegeneratePicker(NIL)
    BY <1>2, <1>6, <2>2, MadeAnew DEF service
  <2> QED
    BY <1>6, <2>1, <2>2 DEF ReportResolverError
<1>7. CASE LookupFails
  BY <1>6, <1>7 DEF LookupFails, ResolverError, fields, service
<1>8. ASSUME NEW sc \in SubConn, Deliver(sc), UpdateSubConnState(sc)
      PROVE  /\ response' = instances'[view']
             /\ v2Picker' # NIL /\ v2Picker'.kind = "polaris" =>
                  v2Picker'.insList =
                    {a \in response' : ReadySCs(subConns', scStates')[a] # NIL}
  <2> DEFINE s == Head(notices[sc])
  <2>1. /\ scStates' = [scStates EXCEPT ![sc] = Remembered(s)]
        /\ UNCHANGED <<fields, subConns>>
        /\ IF MustRegenerate(scStates[sc], s) THEN RegeneratePicker(options)
                                              ELSE UNCHANGED v2Picker
    BY <1>8 DEF UpdateSubConnState
  <2>2. UNCHANGED service /\ response' = response
    BY <1>8, <2>1 DEF Deliver, fields
  <2>3. CASE MustRegenerate(scStates[sc], s)
    BY <1>2, <2>1, <2>2, <2>3, MadeAnew
  <2>4. CASE ~ MustRegenerate(scStates[sc], s)
    <3>1. (s = "Ready") = (scStates[sc] = "Ready")
      BY <2>4 DEF MustRegenerate
    <3>2. \A x \in SubConn : scStates'[x] = "Ready" <=> scStates[x] = "Ready"
      BY <1>1, <2>1, <3>1, NilAssumption DEF Remembered, TypeOK, ConnState, Counted
    <3>3. \A a \in Addr : ReadySCs(subConns', scStates')[a] = ReadySCs(subConns, scStates)[a]
      BY <1>1, <2>1, <3>2 DEF ReadySCs, TypeOK
    <3>4. response \in SUBSET Addr
      BY <1>1, <1>2, <2>2 DEF ClientTypeOK
    <3> QED
      BY <1>2, <2>1, <2>2, <2>4, <3>3, <3>4
  <2> QED
    BY <2>3, <2>4
<1>9. \/ UNCHANGED <<instances, view, response, v2Picker, subConns, scStates>>
      \/ ServiceChanges \/ Show \/ LookupFails
      \/ \E sc \in SubConn : Deliver(sc) /\ UpdateSubConnState(sc)
  <2> DEFINE Same == UNCHANGED <<instances, view, response, v2Picker, subConns, scStates>>
  <2>1. CASE UNCHANGED clientVars \/ RpcStep
    BY <2>1 DEF RpcStep, Load, PickFails, PickAgain, Send, clientVars, service, vars
  <2>2. ASSUME NEW sc \in SubConn, Connection(ConnectionSide(sc)) PROVE Same
    BY <2>2 DEF Connection, ConnectionSide, Dial, DialSucceeds, DialFails,
                BackoffEnds, ConnectionLost, Transport, service, fields
  <2>3. ASSUME NEW sc \in SubConn, Deliver(sc) PROVE Same \/ UpdateSubConnState(sc)
    BY <2>3 DEF Deliver, IgnoreSubConnState, service, fields
  <2> QED
    BY <2>1, <2>2, <2>3 DEF ClientNext
<1> QED
  BY <1>3, <1>4, <1>5, <1>7, <1>8, <1>9

LEMMA ClientInvariance == ClientSpec => []CInv
<1>1. ClientInit => CInv
  <2> SUFFICES ASSUME ClientInit PROVE CInv
    OBVIOUS
  <2>1. IInv
    BY InitInv DEF ClientInit
  <2>2. ClientTypeOK /\ ViewTaken
    BY DEF ClientInit, ClientTypeOK, ViewTaken
  <2> QED
    BY <2>1, <2>2 DEF CInv
<1>2. CInv /\ [ClientNext]_clientVars => CInv'
  <2> SUFFICES ASSUME CInv, [ClientNext]_clientVars PROVE CInv'
    OBVIOUS
  <2>1. [Next]_vars /\ ClientTypeOK'
    BY StepRefines, ClientTypeStep DEF CInv
  <2>2. IInv'
    BY <2>1, StepInv DEF CInv
  <2> QED
    BY <2>1, <2>2, ViewStep DEF CInv
<1> QED
  BY <1>1, <1>2, PTL DEF ClientSpec

-----------------------------------------------------------------------------
(* The theorems.                                                            *)

\* The resolver, the connections and RPCs drive the balancer (balancer.go) in
\* no way that Balancer does not cover: what is proved of it holds here.
THEOREM ClientRefinesBalancer == ClientSpec => Spec
<1>1. ClientInit => Init
  BY DEF ClientInit
<1>2. CInv /\ [ClientNext]_clientVars => [Next]_vars
  BY StepRefines DEF CInv
<1> QED
  BY <1>1, <1>2, ClientInvariance, PTL DEF ClientSpec, Spec

\* RPCs are routed to the ready instances of the version of the service that
\* was shown last, however the news of connections and lookups interleave.
THEOREM RoutedRight == ClientSpec => []RoutedAsShown
<1>1. CInv => RoutedAsShown
  <2> SUFFICES ASSUME CInv, published # NIL PROVE RoutedAsShown
    BY DEF RoutedAsShown
  <2> DEFINE ready == ReadySCs(subConns, scStates)
  <2>1. TypeOK /\ PickerServesReady /\ PublishedIsCurrent /\ ClientTypeOK /\ ViewTaken
    BY DEF CInv, IInv
  <2>2. v2Picker # NIL /\ published.picker = v2Picker
    BY <2>1 DEF PublishedIsCurrent
  <2>3. CASE v2Picker.kind = "err"
    <3>1. Routed = {} /\ \A a \in Addr : ready[a] = NIL
      BY <2>1, <2>2, <2>3 DEF Routed, PickerServesReady
    <3>2. view > 0 => instances[view] \in SUBSET Addr
      BY <2>1 DEF ClientTypeOK
    <3> QED
      BY <3>1, <3>2 DEF RoutedAsShown
  <2>4. CASE v2Picker.kind # "err"
    <3>1. v2Picker \in Picker
      BY <2>1, <2>2 DEF TypeOK
    <3>2. v2Picker.kind = "polaris" /\ v2Picker.insList \in SUBSET Addr
      BY <3>1, <2>4 DEF Picker
    <3>3. Routed = v2Picker.insList
      BY <2>2, <2>4 DEF Routed
    <3>4. \A a \in Routed : ready[a] # NIL
      BY <2>1, <2>2, <3>2, <3>3 DEF PickerServesReady
    <3>5. \A a \in Routed : subConns[a] # NIL
      BY <3>2, <3>3, <3>4 DEF ReadySCs
    <3>6. view > 0 /\ instances[view] # {} =>
            Routed = {a \in instances[view] : ready[a] # NIL}
      <4> SUFFICES ASSUME view > 0, instances[view] # {}
                   PROVE  Routed = {a \in instances[view] : ready[a] # NIL}
        OBVIOUS
      <4>1. response = instances[view]
        BY <2>1 DEF ViewTaken
      <4>2. v2Picker.insList = {a \in response : ready[a] # NIL}
        BY <2>1, <2>2, <3>2 DEF ViewTaken
      <4> QED
        BY <3>3, <4>1, <4>2
    <3> QED
      BY <3>2, <3>3, <3>5, <3>6 DEF RoutedAsShown
  <2> QED
    BY <2>3, <2>4
<1> QED
  BY <1>1, ClientInvariance, PTL

\* However late an RPC uses a picker that is out of date, the SubConn it is sent
\* to is one that the balancer has not given up (balancer.go, Pick).
THEOREM SentInUse == ClientSpec => SentToInstanceInUse
<1>1. CInv => (\A sc \in SubConn : Send(sc) => \E a \in Addr : subConns[a] = sc)
  BY DEF CInv, IInv, SubConnsInUse, Send
<1>2. CInv =>
        [\A sc \in SubConn : Send(sc) => \E a \in Addr : subConns[a] = sc]_clientVars
  BY <1>1
<1> QED
  BY <1>2, ClientInvariance, PTL DEF SentToInstanceInUse

-----------------------------------------------------------------------------
(* An RPC waits for what is not known yet, and for nothing else.            *)

\* What an RPC holds is the picker that was published last, or it will load a
\* newer one; and if it waits for one, one is to come or it has no choice.
RpcInv ==
  ~ newer =>
    /\ rpc # "sent" => published # NIL
    /\ rpc = "picking" => choice = Choices(published.picker)
    /\ rpc = "wait" => Choices(published.picker) = {} \/ NewsFor(published.picker)

\* A SubConn that the published picker offers is ready, for all that the
\* balancer knows.
LEMMA OfferedIsReady ==
  ASSUME IInv, published # NIL, NEW sc \in Choices(published.picker)
  PROVE  sc \in SubConn /\ scStates[sc] = "Ready"
<1>1. TypeOK /\ PickerServesReady /\ PublishedIsCurrent
  BY DEF IInv
<1>2. v2Picker # NIL /\ v2Picker \in Picker /\ published.picker = v2Picker
  BY <1>1 DEF PublishedIsCurrent, TypeOK
<1>3. v2Picker.kind = "polaris" /\ v2Picker.insList \in SUBSET Addr
  BY <1>2 DEF Picker, Choices
<1>4. PICK a \in v2Picker.insList : sc = v2Picker.readySCs[a]
  BY <1>2, <1>3 DEF Choices
<1>5. sc = ReadySCs(subConns, scStates)[a] /\ sc # NIL /\ a \in Addr
  BY <1>1, <1>2, <1>3, <1>4 DEF PickerServesReady
<1> QED
  BY <1>1, <1>5 DEF ReadySCs, TypeOK

\* The notice of a ready SubConn is never ignored: it brings a picker.
LEMMA NewsStays ==
  ASSUME IInv, published # NIL, NEW sc \in Choices(published.picker),
         ClientTypeOK, notices[sc] # <<>>, [ClientNext]_clientVars, ~ newer', rpc' # "sent"
  PROVE  notices'[sc] # <<>>
<1>1. TypeOK /\ sc \in SubConn /\ scStates[sc] = "Ready"
  BY OfferedIsReady DEF IInv
<1>2. CASE UNCHANGED notices
  BY <1>2
<1>3. CASE Show
  <2>1. PICK A \in SUBSET Addr : UpdateClientConnState(A, NIL) \/ UpdateWithoutAddresses(NIL)
    BY <1>3, ShownIs
  <2>2. CASE UNCHANGED notices
    BY <2>2
  <2>3. CASE UpdateClientConnState(A, NIL)
    <3>1. \/ notices'[sc] = notices[sc]
          \/ notices'[sc] = Append(notices[sc], "Shutdown")
      BY <1>1, <2>3 DEF UpdateClientConnState
    <3>2. notices[sc] \in Seq(ConnState) /\ "Shutdown" \in ConnState
      BY <1>1 DEF TypeOK, ConnState
    <3>3. Append(notices[sc], "Shutdown") # <<>>
      BY ONLY <3>2
    <3> QED
      BY <3>1, <3>3
  <2> QED
    BY <2>1, <2>2, <2>3 DEF UpdateWithoutAddresses, ReportResolverError, conns
<1>4. ASSUME NEW x \in SubConn, Deliver(x) PROVE notices'[sc] # <<>>
  <2>1. CASE UpdateSubConnState(x)
    BY <1>1, <1>4, <2>1 DEF Deliver, IgnoreSubConnState, UpdateSubConnState, Wake
  <2>2. CASE IgnoreSubConnState(x)
    <3>1. x # sc
      BY <1>1, <2>2, NilAssumption DEF IgnoreSubConnState, Ignored, Counted, ConnState
    <3> QED
      BY <1>1, <2>2, <3>1 DEF IgnoreSubConnState, TypeOK
  <2> QED
    BY <1>4, <2>1, <2>2 DEF Deliver
<1>5. ASSUME NEW x \in SubConn, ConnectionSide(x) PROVE notices'[sc] # <<>>
  <2>1. PICK s \in ConnState : notices' = [notices EXCEPT ![x] = Append(@, s)]
    BY <1>5 DEF ConnectionSide, Dial, DialSucceeds, DialFails, BackoffEnds,
                ConnectionLost, Transport, ConnState, Counted
  <2> QED
    BY <1>1, <2>1 DEF TypeOK
<1> QED
  BY <1>2, <1>3, <1>4, <1>5
  DEF ClientNext, ServiceChanges, LookupFails, ResolverError, ReportResolverError,
      Connection, RpcStep, Load, PickFails, PickAgain, Send, clientVars, vars, conns

LEMMA RpcInvStep ==
  CInv /\ NewsComes /\ RpcInv /\ [ClientNext]_clientVars => RpcInv'
<1> SUFFICES ASSUME CInv, NewsComes, RpcInv, [ClientNext]_clientVars, ~ newer',
                    rpc' # "sent"
             PROVE  /\ published' # NIL
                    /\ rpc' = "picking" => choice' = Choices(published.picker)'
                    /\ rpc' = "wait" =>
                         Choices(published.picker)' = {} \/ NewsFor(published.picker)'
  BY DEF RpcInv
<1>1. IInv /\ ClientTypeOK /\ TypeOK
  BY DEF CInv, IInv
<1>2. published' = published /\ Choices(published.picker)' = Choices(published.picker)
  BY NilAssumption
  DEF ClientNext, ServiceChanges, Show, LookupFails, ResolverError,
      UpdateWithoutAddresses, ReportResolverError, Deliver, IgnoreSubConnState,
      Connection, ConnectionSide, Dial, DialSucceeds, DialFails, BackoffEnds,
      ConnectionLost, Transport, RpcStep, Load, PickFails, PickAgain, Send, Wake,
      clientVars, vars
<1>3. CASE ~ newer /\ UNCHANGED <<rpc, choice>>
  <2>1. published # NIL
    BY <1>3 DEF RpcInv
  <2>2. NewsFor(published.picker) => NewsFor(published.picker)'
    BY <1>1, <1>2, <1>3, <2>1, NewsStays DEF NewsFor
  <2> QED
    BY <1>2, <1>3, <2>1, <2>2 DEF RpcInv
<1>4. CASE Load
  BY <1>2, <1>4 DEF Load
<1>5. CASE PickAgain
  <2>1. ~ newer /\ published # NIL /\ choice = Choices(published.picker)
    BY <1>5 DEF PickAgain, RpcInv
  <2>2. PICK sc \in Choices(published.picker) : conn[sc] # "Ready"
    BY <1>5, <2>1 DEF PickAgain
  <2>3. sc \in SubConn /\ scStates[sc] = "Ready"
    BY <1>1, <2>1, OfferedIsReady
  <2>4. notices[sc] # <<>>
    BY <2>2, <2>3, NilAssumption DEF NewsComes, KnownAtRest, Retried, ConnState, Counted
  <2>5. UNCHANGED <<notices, published>> /\ rpc' = "wait"
    BY <1>5 DEF PickAgain, vars, conns
  <2> QED
    BY <2>1, <2>4, <2>5 DEF NewsFor, Choices
<1>6. CASE PickFails
  <2>1. ~ newer /\ published # NIL /\ rpc' = "refused"
    BY <1>6 DEF PickFails, RpcInv
  <2> QED
    BY <1>2, <2>1
<1>7. (~ newer /\ UNCHANGED <<rpc, choice>>) \/ Load \/ PickFails \/ PickAgain
  <2>1. CASE RpcStep
    BY <2>1 DEF RpcStep, Send
  <2>2. ASSUME NEW updates, Wake(updates) PROVE ~ newer /\ UNCHANGED <<rpc, choice>>
    <3>1. rpc # "sent" /\ ~ updates
      BY <2>2 DEF Wake
    <3> QED
      BY <2>2, <3>1 DEF Wake
  <2>3. CASE UNCHANGED rpcs
    BY <2>3 DEF rpcs
  <2> QED
    BY <2>1, <2>2, <2>3
    DEF ClientNext, ServiceChanges, Show, LookupFails, Deliver, Connection, clientVars
<1> QED
  BY <1>3, <1>4, <1>5, <1>6, <1>7

\* An RPC that the SDK has not failed waits for a new picker only while the last
\* one offers nothing, or while a notice is on its way that changes what it
\* offers: UpdateSubConnState (balancer.go) leaves no RPC waiting for what it
\* has been told of.
THEOREM NothingWithheld == ClientSpec => []WaitsForNews
<1>1. ClientInit => RpcInv
  BY DEF ClientInit, RpcInv
<1>2. ClientSpec => []NewsComes
  BY ClientRefinesBalancer, NewsInvariance, PTL
<1>3. RpcInv => WaitsForNews
  BY DEF RpcInv, WaitsForNews
<1> QED
  BY <1>1, <1>2, <1>3, RpcInvStep, ClientInvariance, PTL DEF ClientSpec

=================================================================================
