----------------------------- MODULE ServerProofs -----------------------------
(***************************************************************************)
(* Proofs about Server, for any services and any number of the user's      *)
(* goroutines.  All but the types depends on these being disciplined: they *)
(* call Stop and Deregister only once registration has ended.  (Without    *)
(* that, the run of MCServerRace.cfg shows how an instance is left behind.)*)
(***************************************************************************)
EXTENDS Server, TLAPS

\* Registration has ended; nothing is registered any more.
Over == pc \in {"ready", "serve", "returned", "failed"}

\* TypeOK, and what is being deregistered was requested.
Types ==
  /\ TypeOK
  /\ left \in [Proc -> SUBSET registerRequests]
  /\ pc = "calling" => name \in registerRequests

\* Until registration ends or fails nothing is taken back, and all that was
\* requested is registered, but for the call under way.
Registering ==
  /\ pc \in {"init", "new", "register", "calling"} => left = [p \in Proc |-> {}]
  /\ pc \in {"init", "new"} => registerRequests = {}
  /\ pc = "register" => registered = registerRequests
  /\ pc = "calling" => registerRequests \ {name} \subseteq registered

\* A rollback or a Stop still has on its list whatever is registered, and
\* afterwards only failed calls leave something behind.
TakingBack ==
  /\ pc = "rollback" => registered \subseteq kept \cup left["main"]
  /\ pc = "failed" => registered \subseteq kept
  /\ \A p \in Stopper : stop[p] = "deregister" =>
       Over /\ registered \subseteq kept \cup left[p]

Closing ==
  \/ \E p \in Stopper : stop[p] = "wait"
  \/ drainer # "none"
  \/ grpcServer \in {"draining", "stopped"}

\* The gRPC server is closed only after that.
ClosingIsLate == Closing => Over /\ registered \subseteq kept

IInv == Types /\ (disciplined => Registering /\ TakingBack /\ ClosingIsLate)

-----------------------------------------------------------------------------
(* The inductive invariant.                                                 *)

LEMMA InitInv == Init => IInv
<1> SUFFICES ASSUME Init PROVE IInv
  OBVIOUS
<1>1. TypeOK
  <2>1. gracefulStopEnable \in BOOLEAN /\ isStop \in BOOLEAN
    BY DEF Init
  <2> QED
    BY <2>1, BoundAssumption DEF Init, TypeOK, NoName
<1>2. Types /\ Registering
  BY <1>1 DEF Init, Types, Registering
<1>3. TakingBack /\ ClosingIsLate
  BY DEF Init, TakingBack, ClosingIsLate, Closing
<1> QED
  BY <1>2, <1>3 DEF IInv

\* The steps of the serving goroutine.
LEMMA MainInv == ASSUME IInv, Main PROVE IInv'
<1> USE DEF IInv, Types, TypeOK, config, polaris
<1>1. CASE InitResource
  <2>1. Types'
    BY <1>1 DEF InitResource
  <2>2. disciplined => Registering'
    BY <1>1 DEF InitResource, Registering
  <2>3. disciplined => TakingBack' /\ ClosingIsLate'
    BY <1>1 DEF InitResource, Registering, TakingBack, ClosingIsLate, Closing, Over
  <2> QED
    BY <2>1, <2>2, <2>3, <1>1 DEF InitResource
<1>2. CASE CallServe
  <2>1. Types'
    BY <1>2 DEF CallServe
  <2>2. disciplined => Registering'
    BY <1>2 DEF CallServe, Registering
  <2>3. disciplined => TakingBack' /\ ClosingIsLate'
    BY <1>2 DEF CallServe, Registering, TakingBack, ClosingIsLate, Closing, Over
  <2> QED
    BY <2>1, <2>2, <2>3, <1>2 DEF CallServe
<1>3. CASE NoAddress
  <2>1. Types'
    BY <1>3 DEF NoAddress
  <2>2. disciplined => Registering'
    BY <1>3 DEF NoAddress, Registering
  <2>3. disciplined => TakingBack' /\ ClosingIsLate'
    BY <1>3 DEF NoAddress, Registering, TakingBack, ClosingIsLate, Closing, Over
  <2> QED
    BY <2>1, <2>2, <2>3, <1>3 DEF NoAddress
<1>4. CASE RequestRegister
  <2>1. Types'
    BY <1>4 DEF RequestRegister, NoName
  <2>2. disciplined => Registering'
    BY <1>4 DEF RequestRegister, Registering
  <2>3. disciplined => TakingBack' /\ ClosingIsLate'
    BY <1>4 DEF RequestRegister, Registering, TakingBack, ClosingIsLate, Closing, Over
  <2> QED
    BY <2>1, <2>2, <2>3, <1>4 DEF RequestRegister
<1>5. CASE RegisterSucceeds
  <2>1. Types'
    BY <1>5 DEF RegisterSucceeds
  <2>2. disciplined => Registering'
    BY <1>5 DEF RegisterSucceeds, Registering
  <2>3. disciplined => TakingBack' /\ ClosingIsLate'
    BY <1>5 DEF RegisterSucceeds, Registering, TakingBack, ClosingIsLate, Closing, Over
  <2> QED
    BY <2>1, <2>2, <2>3, <1>5 DEF RegisterSucceeds
<1>6. CASE RegisterFails
  <2>1. Types'
    BY <1>6 DEF RegisterFails, Undone, Proc
  <2>2. disciplined => Registering'
    BY <1>6 DEF RegisterFails, Registering, Undone
  <2>3. disciplined => TakingBack' /\ ClosingIsLate'
    BY <1>6 DEF RegisterFails, Registering, TakingBack, ClosingIsLate, Closing, Over, Undone, Proc
  <2> QED
    BY <2>1, <2>2, <2>3, <1>6 DEF RegisterFails
<1>7. CASE RolledBack
  <2>1. Types'
    BY <1>7 DEF RolledBack
  <2>2. disciplined => Registering'
    BY <1>7 DEF RolledBack, Registering
  <2>3. disciplined => TakingBack' /\ ClosingIsLate'
    BY <1>7 DEF RolledBack, Registering, TakingBack, ClosingIsLate, Closing, Over
  <2> QED
    BY <2>1, <2>2, <2>3, <1>7 DEF RolledBack
<1>8. CASE StartSignalHandler
  <2>1. Types'
    BY <1>8 DEF StartSignalHandler
  <2>2. disciplined => Registering'
    BY <1>8 DEF StartSignalHandler, Registering
  <2>3. disciplined => TakingBack' /\ ClosingIsLate'
    BY <1>8 DEF StartSignalHandler, Registering, TakingBack, ClosingIsLate, Closing, Over
  <2> QED
    BY <2>1, <2>2, <2>3, <1>8 DEF StartSignalHandler
<1>9. CASE GrpcServe
  <2>1. Types'
    BY <1>9 DEF GrpcServe
  <2>2. disciplined => Registering'
    BY <1>9 DEF GrpcServe, Registering
  <2>3. disciplined => TakingBack' /\ ClosingIsLate'
    BY <1>9 DEF GrpcServe, Registering, TakingBack, ClosingIsLate, Closing, Over
  <2> QED
    BY <2>1, <2>2, <2>3, <1>9 DEF GrpcServe
<1>10. CASE GrpcServeReturns
  <2>1. Types'
    BY <1>10 DEF GrpcServeReturns
  <2>2. disciplined => Registering'
    BY <1>10 DEF GrpcServeReturns, Registering
  <2>3. disciplined => TakingBack' /\ ClosingIsLate'
    BY <1>10 DEF GrpcServeReturns, Registering, TakingBack, ClosingIsLate, Closing, Over
  <2> QED
    BY <2>1, <2>2, <2>3, <1>10 DEF GrpcServeReturns
<1> QED
  BY <1>1, <1>2, <1>3, <1>4, <1>5, <1>6, <1>7, <1>8, <1>9, <1>10 DEF Main, RegisterStep

\* The steps of those who stop it.
LEMMA StopInv ==
  ASSUME IInv, NEW p \in Stopper,
         CallDeregister(p) \/ DeregisterReturns(p) \/ CallStop(p) \/ StopStep(p)
  PROVE  IInv'
<1> USE DEF IInv, Types, TypeOK, config, polaris
<1>1. disciplined /\ MayStop(p) => Over
  BY DEF MayStop, Over
<1>2. Over => Requests = {registerRequests}
  BY DEF Requests, Over
<1>3. p \in Proc /\ Requests \subseteq SUBSET registerRequests
  BY DEF Proc, Requests
<1>4. CASE CallDeregister(p)
  <2>1. Types'
    BY <1>4, <1>1, <1>2, <1>3 DEF CallDeregister
  <2>2. disciplined => Registering'
    BY <1>4, <1>1, <1>2, <1>3 DEF CallDeregister, Registering, Over
  <2>3. disciplined => TakingBack' /\ ClosingIsLate'
    BY <1>4, <1>1, <1>2, <1>3 DEF CallDeregister, TakingBack, ClosingIsLate, Closing, Over
  <2> QED
    BY <2>1, <2>2, <2>3, <1>4 DEF CallDeregister
<1>5. CASE DeregisterReturns(p)
  <2>1. Types'
    BY <1>5 DEF DeregisterReturns
  <2>2. disciplined => Registering'
    BY <1>5 DEF DeregisterReturns, Registering
  <2>3. disciplined => TakingBack' /\ ClosingIsLate'
    BY <1>5 DEF DeregisterReturns, TakingBack, ClosingIsLate, Closing, Over
  <2> QED
    BY <2>1, <2>2, <2>3, <1>5 DEF DeregisterReturns
<1>6. CASE CallStop(p)
  <2>1. /\ UNCHANGED <<mode, gracefulStopEnable, names, disciplined, pc, name,
                       registerRequests, drainer, grpcServer, rpcs, registered, kept>>
        /\ isStop' \in BOOLEAN /\ (disciplined => Over)
    BY <1>6, <1>1 DEF CallStop
  <2>2. PICK r \in Requests :
          \/ stop' = [stop EXCEPT ![p] = "returned"] /\ left' = left
          \/ /\ stop' = [stop EXCEPT ![p] = "deregister"]
             /\ left' = [left EXCEPT ![p] = r]
    <3>1. Requests # {}
      BY DEF Requests
    <3> QED
      BY <1>6, <3>1 DEF CallStop
  <2>3. left' \in [Proc -> SUBSET registerRequests] /\ left' \in [Proc -> SUBSET names]
    BY <2>2, <1>3
  <2>4. stop' \in [Stopper -> {"idle", "deregisterOnly", "deregister", "wait", "returned"}]
    BY <2>2
  <2>5. Types'
    BY <2>1, <2>3, <2>4
  <2>6. disciplined => Registering'
    BY <2>1 DEF Registering, Over
  <2>7. disciplined => TakingBack'
    <3>1. disciplined => r = registerRequests
      BY <2>1, <1>2
    <3> QED
      BY <2>1, <2>2, <3>1, <1>3 DEF TakingBack, Over, Proc
  <2>8. disciplined => ClosingIsLate'
    BY <2>1, <2>2 DEF ClosingIsLate, Closing, Over
  <2> QED
    BY <2>1, <2>5, <2>6, <2>7, <2>8 DEF CallStop
<1>7. CASE StopNow(p)
  <2>1. Types'
    BY <1>7, BoundAssumption DEF StopNow, Deregistered
  <2>2. disciplined => Registering'
    BY <1>7 DEF StopNow, Deregistered, Registering
  <2>3. disciplined => TakingBack' /\ ClosingIsLate'
    BY <1>7 DEF StopNow, Deregistered, TakingBack, ClosingIsLate, Closing, Over
  <2> QED
    BY <2>1, <2>2, <2>3, <1>7 DEF StopNow
<1>8. CASE StopGracefully(p)
  <2>1. Types'
    BY <1>8 DEF StopGracefully, Deregistered
  <2>2. disciplined => Registering'
    BY <1>8 DEF StopGracefully, Deregistered, Registering
  <2>3. disciplined => TakingBack' /\ ClosingIsLate'
    BY <1>8 DEF StopGracefully, Deregistered, TakingBack, ClosingIsLate, Closing, Over
  <2> QED
    BY <2>1, <2>2, <2>3, <1>8 DEF StopGracefully
<1>9. CASE WaitEnds(p)
  <2>1. Types'
    BY <1>9 DEF WaitEnds
  <2>2. disciplined => Registering'
    BY <1>9 DEF WaitEnds, Registering
  <2>3. disciplined => TakingBack' /\ ClosingIsLate'
    BY <1>9 DEF WaitEnds, TakingBack, ClosingIsLate, Closing, Over
  <2> QED
    BY <2>1, <2>2, <2>3, <1>9 DEF WaitEnds
<1>10. CASE Deadline(p)
  <2>1. Types'
    BY <1>10 DEF Deadline
  <2>2. disciplined => Registering'
    BY <1>10 DEF Deadline, Registering
  <2>3. disciplined => TakingBack' /\ ClosingIsLate'
    BY <1>10 DEF Deadline, TakingBack, ClosingIsLate, Closing, Over
  <2> QED
    BY <2>1, <2>2, <2>3, <1>10 DEF Deadline
<1> QED
  BY <1>4, <1>5, <1>6, <1>7, <1>8, <1>9, <1>10 DEF StopStep

\* One call of Deregister, whoever makes it.
LEMMA DeregisterInv == ASSUME IInv, NEW p \in Proc, DeregisterOne(p) PROVE IInv'
<1> USE DEF IInv, Types, TypeOK, config
<1>1. PICK s \in left[p] :
        /\ left' = [left EXCEPT ![p] = @ \ {s}]
        /\ \/ registered' = registered \ {s} /\ kept' = kept \ {s}
           \/ registered' \in {registered, registered \ {s}} /\ kept' = kept \cup {s}
        /\ UNCHANGED <<config, pc, name, registerRequests, isStop, stop, drainer,
                       grpcServer, rpcs>>
  BY DEF DeregisterOne
<1>2. Types'
  BY <1>1
<1>3. disciplined => pc \notin {"init", "new", "register", "calling"}
  BY <1>1 DEF Registering
<1>4. disciplined => Registering'
  BY <1>1, <1>3 DEF Registering
\* What the call settles is not on the list any more, or is kept.
<1>5. \A q \in Proc : registered \subseteq kept \cup left[q] => registered' \subseteq kept' \cup left'[q]
  BY <1>1
<1>6. registered \subseteq kept => registered' \subseteq kept'
  BY <1>1
<1>7. disciplined => TakingBack'
  BY <1>1, <1>5, <1>6 DEF TakingBack, Over, Proc
<1>8. disciplined => ClosingIsLate'
  BY <1>1, <1>6 DEF ClosingIsLate, Closing, Over
<1> QED
  BY <1>1, <1>2, <1>4, <1>7, <1>8

LEMMA GrpcInv ==
  ASSUME IInv, DrainBegins \/ DrainEnds \/ RpcBegins \/ RpcEnds
  PROVE  IInv'
<1> USE DEF IInv, Types, TypeOK, config, polaris
<1>1. Types'
  BY BoundAssumption DEF DrainBegins, DrainEnds, RpcBegins, RpcEnds
<1>2. disciplined => Registering' /\ TakingBack'
  BY DEF DrainBegins, DrainEnds, RpcBegins, RpcEnds, Registering, TakingBack, Over
<1>3. disciplined => ClosingIsLate'
  BY DEF DrainBegins, DrainEnds, RpcBegins, RpcEnds, ClosingIsLate, Closing, Over
<1> QED
  BY <1>1, <1>2, <1>3 DEF DrainBegins, DrainEnds, RpcBegins, RpcEnds

LEMMA Invariance == Spec => []IInv
<1>1. IInv /\ [Next]_vars => IInv'
  <2> SUFFICES ASSUME IInv, [Next]_vars PROVE IInv'
    OBVIOUS
  <2>1. CASE Main
    BY <2>1, MainInv
  <2>2. ASSUME NEW p \in Proc, DeregisterOne(p) PROVE IInv'
    BY <2>2, DeregisterInv
  <2>3. ASSUME NEW p \in Stopper,
               CallDeregister(p) \/ DeregisterReturns(p) \/ CallStop(p) \/ StopStep(p)
        PROVE  IInv'
    BY <2>3, StopInv
  <2>4. CASE DrainBegins \/ DrainEnds \/ RpcBegins \/ RpcEnds
    BY <2>4, GrpcInv
  <2>5. CASE UNCHANGED vars
    BY <2>5 DEF vars, IInv, Types, TypeOK, Registering, TakingBack, ClosingIsLate,
                Closing, Over
  <2> QED
    BY <2>1, <2>2, <2>3, <2>4, <2>5 DEF Next
<1> QED
  BY <1>1, InitInv, PTL DEF Spec

-----------------------------------------------------------------------------
(* The theorems.                                                            *)

\* The state of the Server, its requests and Polaris' list have their types;
\* nothing is registered or deregistered that was not requested.
THEOREM TypeCorrect == Spec => []TypeOK
<1>1. IInv => TypeOK
  BY DEF IInv, Types
<1> QED
  BY <1>1, Invariance, PTL

\* Stop: gRPC takes no new RPCs only once Deregister has gone through all
\* the requests.
THEOREM ClosedLast == Spec => []ClosedMeansDeregistered
<1>1. IInv => ClosedMeansDeregistered
  BY DEF IInv, ClosingIsLate, Closing, ClosedMeansDeregistered
<1> QED
  BY <1>1, Invariance, PTL

\* doRegister: a failure takes back every request made so far.
THEOREM NothingHalfRegistered == Spec => []FailedMeansDeregistered
<1>1. IInv => FailedMeansDeregistered
  BY DEF IInv, TakingBack, FailedMeansDeregistered
<1> QED
  BY <1>1, Invariance, PTL

\* Server.Serve: serving starts with all the services registered.
THEOREM RegisteredBeforeServing == Spec => ServingMeansRegistered
<1> DEFINE Starts == disciplined /\ mode = "method" /\ pc # "ready" /\ pc' = "ready"
<1>1. IInv /\ [Next]_vars => (Starts => registered = names)
  <2> SUFFICES ASSUME IInv, [Next]_vars, Starts PROVE registered = names
    OBVIOUS
  <2>1. StartSignalHandler
    BY DEF Next, Main, RegisterStep, InitResource, CallServe, NoAddress,
           RequestRegister, RegisterSucceeds, RegisterFails, RolledBack, GrpcServe,
           GrpcServeReturns, DeregisterOne, CallDeregister, DeregisterReturns,
           CallStop, StopStep, StopNow, StopGracefully, WaitEnds, Deadline,
           DrainBegins, DrainEnds, RpcBegins, RpcEnds, vars
  <2>2. pc = "register" /\ names \subseteq registerRequests
    BY <2>1 DEF StartSignalHandler
  <2> QED
    BY <2>2 DEF IInv, Types, TypeOK, Registering
<1> QED
  BY <1>1, Invariance, PTL DEF Spec, ServingMeansRegistered

-----------------------------------------------------------------------------
(* All or nothing: the steps of the Server are steps of Registration.       *)

RegistrationView == <<names, registered, kept, Phase>>

\* What the abstract phase says of the goroutines.
LEMMA PhaseMeans ==
  ASSUME IInv, disciplined
  PROVE  /\ Phase = "closed" <=> grpcServer \in {"draining", "stopped"}
         /\ Phase \in {"closed", "failed", "up"} <=> Over
         /\ Phase = "out" <=> pc \in {"init", "new", "register", "calling"}
         /\ Phase = "undoing" <=> pc = "rollback"
         /\ pc \in {"ready", "serve", "returned"} => Phase \in {"closed", "up"}
         /\ pc = "failed" => Phase \in {"closed", "failed"}
BY DEF IInv, Types, TypeOK, ClosingIsLate, Closing, Over, Phase

\* The serving goroutine announces, comes up, fails and gives up.
LEMMA MainSimulates ==
  ASSUME IInv, disciplined, Main
  PROVE  [R!Next]_RegistrationView
<1> USE DEF config, polaris
<1>1. CASE InitResource \/ CallServe \/ RequestRegister
  BY <1>1 DEF InitResource, CallServe, RequestRegister, RegistrationView, Phase
<1>2. CASE NoAddress
  <2>1. Phase = "out" /\ Phase' = "failed"
    BY <1>2, PhaseMeans DEF NoAddress, Phase
  <2>2. R!AllBack
    BY <1>2 DEF NoAddress, IInv, Registering, R!AllBack
  <2>3. R!GiveUp
    BY <1>2, <2>1, <2>2 DEF NoAddress, R!GiveUp
  <2> QED
    BY <2>3 DEF R!Next
<1>3. CASE RegisterSucceeds
  <2>1. Phase = "out" /\ Phase' = "out"
    BY <1>3, PhaseMeans DEF RegisterSucceeds, Phase
  <2>2. name \in names
    BY <1>3 DEF RegisterSucceeds, IInv, Types, TypeOK
  <2>3. R!Announce
    BY <1>3, <2>1, <2>2 DEF RegisterSucceeds, R!Announce
  <2> QED
    BY <2>3 DEF R!Next
<1>4. CASE RegisterFails
  <2>1. Phase = "out" /\ Phase' = "undoing"
    BY <1>4, PhaseMeans DEF RegisterFails, Phase
  <2>2. name \in names
    BY <1>4 DEF RegisterFails, IInv, Types, TypeOK
  <2>3. R!Fail
    BY <1>4, <2>1, <2>2 DEF RegisterFails, R!Fail
  <2> QED
    BY <2>3 DEF R!Next
<1>5. CASE RolledBack
  <2>1. Phase = "undoing" /\ Phase' = "failed"
    BY <1>5, PhaseMeans DEF RolledBack, Phase
  <2>2. R!AllBack
    BY <1>5 DEF RolledBack, IInv, TakingBack, R!AllBack
  <2>3. R!GiveUp
    BY <1>5, <2>1, <2>2 DEF RolledBack, R!GiveUp
  <2> QED
    BY <2>3 DEF R!Next
<1>6. CASE StartSignalHandler
  <2>1. CASE pc = "register"
    <3>1. Phase = "out" /\ Phase' = "up"
      BY <1>6, <2>1, PhaseMeans DEF StartSignalHandler, Phase
    <3>2. registered = names
      BY <1>6, <2>1 DEF StartSignalHandler, IInv, Types, TypeOK, Registering
    <3>3. R!ComeUp
      BY <1>6, <3>1, <3>2 DEF StartSignalHandler, R!ComeUp
    <3> QED
      BY <3>3 DEF R!Next
  <2>2. CASE pc = "failed" /\ Phase = "closed"
    BY <1>6, <2>2 DEF StartSignalHandler, RegistrationView, Phase
  <2>3. CASE pc = "failed" /\ Phase # "closed"
    <3>1. Phase = "failed" /\ Phase' = "up"
      BY <1>6, <2>3, PhaseMeans DEF StartSignalHandler, Phase
    <3>2. R!AllBack
      BY <2>3 DEF IInv, TakingBack, R!AllBack
    <3>3. R!ServeUnlisted
      BY <1>6, <3>1, <3>2 DEF StartSignalHandler, R!ServeUnlisted
    <3> QED
      BY <3>3 DEF R!Next
  <2> QED
    BY <1>6, <2>1, <2>2, <2>3 DEF StartSignalHandler
<1>7. CASE GrpcServe \/ GrpcServeReturns
  BY <1>7 DEF GrpcServe, GrpcServeReturns, RegistrationView, Phase
<1> QED
  BY <1>1, <1>2, <1>3, <1>4, <1>5, <1>6, <1>7 DEF Main, RegisterStep

\* Whatever is deregistered, it is after the last announcement.
LEMMA DeregisterSimulates ==
  ASSUME IInv, disciplined, NEW p \in Proc, DeregisterOne(p)
  PROVE  [R!Next]_RegistrationView
<1>1. PICK s \in left[p] :
        /\ \/ registered' = registered \ {s} /\ kept' = kept \ {s}
           \/ registered' \in {registered, registered \ {s}} /\ kept' = kept \cup {s}
        /\ UNCHANGED <<names, pc, grpcServer>>
  BY DEF DeregisterOne, config
<1>2. s \in names
  BY DEF IInv, Types, TypeOK
<1>3. Phase # "out"
  BY <1>1, PhaseMeans DEF IInv, Registering
<1>4. Phase' = Phase
  BY <1>1 DEF Phase
<1>5. R!TakeBack
  BY <1>1, <1>2, <1>3, <1>4 DEF R!TakeBack
<1> QED
  BY <1>5 DEF R!Next

\* Closing gRPC's server, by whatever step, comes after all is taken back.
LEMMA ClosingSimulates ==
  ASSUME IInv, disciplined, Over, registered \subseteq kept,
         grpcServer' \in {"draining", "stopped"},
         UNCHANGED <<names, registered, kept>>
  PROVE  [R!Next]_RegistrationView
<1>1. Phase' = "closed" /\ Phase \in {"closed", "failed", "up"}
  BY PhaseMeans DEF Phase
<1>2. CASE Phase = "closed"
  BY <1>1, <1>2 DEF RegistrationView
<1>3. CASE Phase # "closed"
  <2>1. R!Close
    BY <1>1, <1>3 DEF R!Close, R!AllBack
  <2> QED
    BY <2>1 DEF R!Next
<1> QED
  BY <1>2, <1>3

LEMMA StopSimulates ==
  ASSUME IInv, disciplined, NEW p \in Stopper,
         CallDeregister(p) \/ DeregisterReturns(p) \/ CallStop(p) \/ StopStep(p)
  PROVE  [R!Next]_RegistrationView
<1> USE DEF config, polaris
<1>1. CASE CallDeregister(p) \/ DeregisterReturns(p) \/ CallStop(p)
  BY <1>1 DEF CallDeregister, DeregisterReturns, CallStop, RegistrationView, Phase
<1>2. CASE StopGracefully(p) \/ WaitEnds(p) \/ Deadline(p)
  BY <1>2 DEF StopGracefully, WaitEnds, Deadline, RegistrationView, Phase
<1>3. CASE StopNow(p)
  <2>1. Over /\ registered \subseteq kept
    BY <1>3 DEF StopNow, Deregistered, IInv, TakingBack
  <2> QED
    BY <1>3, <2>1, ClosingSimulates DEF StopNow
<1> QED
  BY <1>1, <1>2, <1>3 DEF StopStep

LEMMA GrpcSimulates ==
  ASSUME IInv, disciplined, DrainBegins \/ DrainEnds \/ RpcBegins \/ RpcEnds
  PROVE  [R!Next]_RegistrationView
<1> USE DEF config, polaris
<1>1. CASE DrainBegins \/ DrainEnds
  <2>1. Over /\ registered \subseteq kept
    BY <1>1 DEF DrainBegins, DrainEnds, IInv, ClosingIsLate, Closing
  <2> QED
    BY <1>1, <2>1, ClosingSimulates DEF DrainBegins, DrainEnds
<1>2. CASE RpcBegins \/ RpcEnds
  BY <1>2 DEF RpcBegins, RpcEnds, RegistrationView, Phase
<1> QED
  BY <1>1, <1>2

LEMMA StepSimulates ==
  ASSUME IInv, disciplined, [Next]_vars
  PROVE  [R!Next]_RegistrationView
<1>1. CASE UNCHANGED vars
  BY <1>1 DEF vars, RegistrationView, Phase
<1> QED
  BY <1>1, MainSimulates, DeregisterSimulates, StopSimulates, GrpcSimulates DEF Next

LEMMA InitSimulates == Init => R!Init
BY DEF Init, R!Init, Phase

\* doRegister, deregisterServices and Stop together, step by step: what Polaris
\* lists of a server with disciplined users changes as Registration allows.
THEOREM AllOrNothing == Spec => ImplementsRegistration
<1>1. IInv /\ [Next]_vars => [disciplined => R!Next]_RegistrationView
  BY StepSimulates
<1> QED
  BY <1>1, InitSimulates, Invariance, PTL
  DEF Spec, ImplementsRegistration, RegistrationView

\* The same as a refinement: if users are disciplined, the behaviour is one of
\* Registration.
THEOREM RegistrationRefined == Spec /\ disciplined => R!Spec
<1>1. [Next]_vars => (disciplined => disciplined')
  BY DEF Next, Main, RegisterStep, InitResource, CallServe, NoAddress,
         RequestRegister, RegisterSucceeds, RegisterFails, RolledBack,
         StartSignalHandler, GrpcServe, GrpcServeReturns, DeregisterOne,
         CallDeregister, DeregisterReturns, CallStop, StopStep, StopNow,
         StopGracefully, WaitEnds, Deadline, DrainBegins, DrainEnds, RpcBegins,
         RpcEnds, vars, config
<1>2. IInv /\ disciplined /\ [Next]_vars => [R!Next]_RegistrationView
  BY StepSimulates
<1> QED
  BY <1>1, <1>2, InitSimulates, Invariance, PTL DEF Spec, R!Spec, RegistrationView

\* gRPC serves while Serve is in it, and Serve returns when gRPC is closed.
ServesInServe ==
  /\ grpcServer = "serving" => pc = "serve"
  /\ pc = "returned" => grpcServer \in {"draining", "stopped"}

LEMMA ServesInServeInv == Spec => []ServesInServe
<1>1. Init => ServesInServe
  BY DEF Init, ServesInServe
<1>2. IInv /\ ServesInServe /\ [Next]_vars => ServesInServe'
  <2> SUFFICES ASSUME IInv, ServesInServe, [Next]_vars PROVE ServesInServe'
    OBVIOUS
  <2>1. CASE GrpcServe
    BY <2>1 DEF GrpcServe, ServesInServe, IInv, Types, TypeOK
  <2>2. CASE UNCHANGED <<pc, grpcServer>>
    BY <2>2 DEF ServesInServe
  <2>3. CASE Main /\ ~ GrpcServe
    BY <2>3 DEF Main, RegisterStep, InitResource, CallServe, NoAddress,
                RequestRegister, RegisterSucceeds, RegisterFails, RolledBack,
                StartSignalHandler, GrpcServeReturns, ServesInServe
  <2>4. CASE \E p \in Stopper : StopNow(p)
    BY <2>4 DEF StopNow, ServesInServe
  <2>5. CASE DrainBegins \/ DrainEnds
    BY <2>5 DEF DrainBegins, DrainEnds, ServesInServe
  <2> QED
    BY <2>1, <2>2, <2>3, <2>4, <2>5
    DEF Next, DeregisterOne, CallDeregister, DeregisterReturns, CallStop, StopStep,
        StopGracefully, WaitEnds, Deadline, RpcBegins, RpcEnds, vars
<1> QED
  BY <1>1, <1>2, Invariance, PTL DEF Spec

\* "Stop deregister and stop" (server.go:142) is true of disciplined users, also
\* of the one whose Stop returned at once because another's was under way.
THEOREM StopDeregisters == Spec => [](disciplined => StopMeansDeregistered)
<1>1. IInv /\ ServesInServe => (disciplined => StopMeansDeregistered)
  BY DEF IInv, ServesInServe, ClosingIsLate, Closing, StopMeansDeregistered
<1> QED
  BY <1>1, Invariance, ServesInServeInv, PTL

\* Once Stop has been called, the gRPC server is stopped or somebody has that
\* in hand: the first caller, who deregisters, or the goroutine that drains.
\* Those who return at once, and the one whose deadline ends, leave it to them
\* (Stop, server.go).
THEOREM SomebodyStops ==
  Spec => [](isStop => \/ \E p \in Stopper : stop[p] = "deregister"
                       \/ drainer \in {"started", "draining"}
                       \/ grpcServer = "stopped")
<1> DEFINE InHand == isStop => \/ \E p \in Stopper : stop[p] = "deregister"
                               \/ drainer \in {"started", "draining"}
                               \/ grpcServer = "stopped"
<1>1. Init => InHand
  BY DEF Init
<1>2. TypeOK /\ InHand /\ [Next]_vars => InHand'
  <2> SUFFICES ASSUME TypeOK, InHand, [Next]_vars PROVE InHand'
    OBVIOUS
  <2>1. CASE UNCHANGED <<isStop, stop, drainer, grpcServer>>
    BY <2>1
  <2>2. CASE GrpcServe
    BY <2>2 DEF GrpcServe
  <2>3. ASSUME NEW p \in Stopper, CallDeregister(p) PROVE InHand'
    <3>1. \A q \in Stopper : stop[q] = "deregister" => stop'[q] = "deregister"
      BY <2>3 DEF CallDeregister, TypeOK
    <3> QED
      BY <2>3, <3>1 DEF CallDeregister
  <2>4. ASSUME NEW p \in Stopper, DeregisterReturns(p) PROVE InHand'
    <3>1. \A q \in Stopper : stop[q] = "deregister" => stop'[q] = "deregister"
      BY <2>4 DEF DeregisterReturns, TypeOK
    <3> QED
      BY <2>4, <3>1 DEF DeregisterReturns
  <2>5. ASSUME NEW p \in Stopper, CallStop(p) PROVE InHand'
    <3>1. CASE isStop
      <4>1. \A q \in Stopper : stop[q] = "deregister" => stop'[q] = "deregister"
        BY <2>5, <3>1 DEF CallStop, TypeOK
      <4> QED
        BY <2>5, <3>1, <4>1 DEF CallStop
    <3>2. CASE ~ isStop
      BY <2>5, <3>2 DEF CallStop, TypeOK
    <3> QED
      BY <3>1, <3>2
  <2>6. ASSUME NEW p \in Stopper, StopNow(p) \/ StopGracefully(p) PROVE InHand'
    BY <2>6 DEF StopNow, StopGracefully
  <2>7. ASSUME NEW p \in Stopper, WaitEnds(p) \/ Deadline(p) PROVE InHand'
    <3>1. /\ stop[p] = "wait" /\ stop' = [stop EXCEPT ![p] = "returned"]
          /\ UNCHANGED <<isStop, drainer, grpcServer>>
      BY <2>7 DEF WaitEnds, Deadline
    <3>2. \A q \in Stopper : stop[q] = "deregister" => stop'[q] = "deregister"
      BY <3>1 DEF TypeOK
    <3> QED
      BY <3>1, <3>2
  <2>8. CASE DrainBegins \/ DrainEnds
    BY <2>8 DEF DrainBegins, DrainEnds
  <2> QED
    BY <2>1, <2>2, <2>3, <2>4, <2>5, <2>6, <2>7, <2>8
    DEF Next, Main, StopStep, RegisterStep, InitResource, CallServe, NoAddress,
        RequestRegister, RegisterSucceeds, RegisterFails, RolledBack,
        StartSignalHandler, GrpcServeReturns, DeregisterOne, RpcBegins, RpcEnds, vars
<1> QED
  BY <1>1, <1>2, TypeCorrect, PTL DEF Spec

=============================================================================
