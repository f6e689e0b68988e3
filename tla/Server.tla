-------------------------------- MODULE Server --------------------------------
(***************************************************************************)
(* The provider side (server.go): one Server, from its construction until  *)
(* its gRPC server has stopped.  The goroutine that serves registers the   *)
(* services one by one; others stop the server: the goroutine that waits   *)
(* for a quit signal, and the user's, who may call Stop and Deregister.    *)
(***************************************************************************)
EXTENDS Integers, FiniteSets

CONSTANTS
  Service,      \* names of the gRPC services
  User,         \* the user's goroutines that may call Stop and Deregister
  MaxRPCs       \* bound: RPCs in flight

ASSUME BoundAssumption == MaxRPCs \in Nat \ {0}
ASSUME UserAssumption == "main" \notin User /\ "signal" \notin User

VARIABLES
  mode,              \* the entry point: Server.Serve, Serve or Register
  gracefulStopEnable,
  names,             \* buildServiceNames
  disciplined,       \* users: they stop only once registration has ended
  pc,                \* where the serving goroutine stands
  name,              \* the service it is registering
  registerRequests,
  isStop,
  stop,              \* where each goroutine that stops stands
  left,              \* what a running deregisterServices has left to do
  drainer,           \* the goroutine of Stop that calls GracefulStop
  grpcServer, rpcs,  \* gRPC: the server, the RPCs in flight
  registered,        \* Polaris: the instances of this server
  kept               \* services whose last Deregister call failed

config == <<mode, gracefulStopEnable, names, disciplined>>
polaris == <<registered, kept>>
vars == <<mode, gracefulStopEnable, names, disciplined, pc, name, registerRequests, isStop,
          stop, left, drainer, grpcServer, rpcs, registered, kept>>

NoName  == "none"
Stopper == User \cup {"signal"}
Proc    == Stopper \cup {"main"}

-----------------------------------------------------------------------------
(* The serving goroutine.                                                   *)

\* initResource returns when the delay strategy allows it.
InitResource ==
  /\ pc = "init"
  /\ pc' = IF mode = "method" THEN "new" ELSE "register"
  /\ UNCHANGED <<config, name, registerRequests, isStop, stop, left, drainer,
                 grpcServer, rpcs, polaris>>

\* The user calls srv.Serve on what NewServer has returned.
CallServe ==
  /\ pc = "new"
  /\ pc' = "register"
  /\ UNCHANGED <<config, name, registerRequests, isStop, stop, left, drainer,
                 grpcServer, rpcs, polaris>>

\* No host or no port to register: doRegister returns before the first request.
NoAddress ==
  /\ pc = "register" /\ registerRequests = {}
  /\ pc' = "failed"
  /\ UNCHANGED <<config, name, registerRequests, isStop, stop, left, drainer,
                 grpcServer, rpcs, polaris>>

\* The request is kept before it is sent.
\* Mutant: it is not.
RequestRegisterOnly ==
  /\ pc = "register"
  /\ name' \in names \ registerRequests
  /\ pc' = "calling"
  /\ UNCHANGED <<config, registerRequests, isStop, stop, left, drainer, grpcServer, rpcs,
                 polaris>>

RequestRegister ==
  /\ pc = "register"
  /\ name' \in names \ registerRequests
  /\ registerRequests' = registerRequests \cup {name'}
  /\ pc' = "calling"
  /\ UNCHANGED <<config, isStop, stop, left, drainer, grpcServer, rpcs, polaris>>

RegisterSucceeds ==
  /\ pc = "calling"
  /\ registered' = registered \cup {name}
  /\ pc' = "register"
  /\ UNCHANGED <<config, name, registerRequests, isStop, stop, left, drainer,
                 grpcServer, rpcs, kept>>

\* The call returns an error; Polaris may have taken the instance all the same.
\* Mutant: the error is logged and the loop continues.
RegisterFailsContinues ==
  /\ pc = "calling"
  /\ registered' \in {registered, registered \cup {name}}
  /\ pc' = "register"
  /\ UNCHANGED <<config, name, registerRequests, isStop, stop, left, drainer,
                 grpcServer, rpcs, kept>>

\* What is undone then.
\* Mutant: the request that failed is left out.
OthersUndone == registerRequests \ {name}

Undone == registerRequests

RegisterFails ==
  /\ pc = "calling"
  /\ registered' \in {registered, registered \cup {name}}
  /\ left' = [left EXCEPT !["main"] = Undone]
  /\ pc' = "rollback"
  /\ UNCHANGED <<config, name, registerRequests, isStop, stop, drainer,
                 grpcServer, rpcs, kept>>

RolledBack ==
  /\ pc = "rollback" /\ left["main"] = {}
  /\ pc' = "failed"
  /\ UNCHANGED <<config, name, registerRequests, isStop, stop, left, drainer,
                 grpcServer, rpcs, polaris>>

\* doRegister is done, the goroutine that waits for a signal is started; the
\* function Serve goes on after an error, too.
StartSignalHandler ==
  /\ \/ pc = "register" /\ names \subseteq registerRequests
     \/ pc = "failed" /\ mode = "package"
  /\ pc' = "ready"
  /\ UNCHANGED <<config, name, registerRequests, isStop, stop, left, drainer,
                 grpcServer, rpcs, polaris>>

\* gRPC refuses to serve once it is stopped.
GrpcServe ==
  /\ pc = "ready"
  /\ IF grpcServer = "new" THEN pc' = "serve" /\ grpcServer' = "serving"
                           ELSE pc' = "returned" /\ UNCHANGED grpcServer
  /\ UNCHANGED <<config, name, registerRequests, isStop, stop, left, drainer,
                 rpcs, polaris>>

GrpcServeReturns ==
  /\ pc = "serve" /\ grpcServer = "stopped"
  /\ pc' = "returned"
  /\ UNCHANGED <<config, name, registerRequests, isStop, stop, left, drainer,
                 grpcServer, rpcs, polaris>>

-----------------------------------------------------------------------------
(* deregisterServices, one request after the other: an error is logged and  *)
(* the loop continues.                                                      *)

\* Mutant: the first error ends the loop.
DeregisterOneOrStop(p) ==
  \E s \in left[p] :
    /\ \/ /\ registered' = registered \ {s} /\ kept' = kept \ {s}
          /\ left' = [left EXCEPT ![p] = @ \ {s}]
       \/ /\ registered' \in {registered, registered \ {s}} /\ kept' = kept \cup {s}
          /\ left' = [left EXCEPT ![p] = {}]
    /\ UNCHANGED <<config, pc, name, registerRequests, isStop, stop, drainer,
                   grpcServer, rpcs>>

DeregisterOne(p) ==
  \E s \in left[p] :
    /\ left' = [left EXCEPT ![p] = @ \ {s}]
    /\ \/ registered' = registered \ {s} /\ kept' = kept \ {s}
       \/ registered' \in {registered, registered \ {s}} /\ kept' = kept \cup {s}
    /\ UNCHANGED <<config, pc, name, registerRequests, isStop, stop, drainer,
                   grpcServer, rpcs>>

\* When the goroutine p has the Server in hand.
MayStop(p) ==
  \/ p = "signal" /\ mode # "register" /\ pc \in {"ready", "serve", "returned"}
  \/ /\ p \in User
     /\ \/ mode = "method" /\ pc # "init"
        \/ mode = "register" /\ pc \in {"ready", "serve", "returned", "failed"}
     /\ disciplined => pc \in {"ready", "serve", "returned", "failed"}

\* The requests that a call of Deregister reads, without a lock: while
\* doRegister appends to them it may miss some.
Requests == IF pc \in {"register", "calling"} THEN SUBSET registerRequests
                                              ELSE {registerRequests}

\* The exported method Deregister.
CallDeregister(p) ==
  /\ p \in User /\ stop[p] = "idle" /\ MayStop(p)
  /\ stop' = [stop EXCEPT ![p] = "deregisterOnly"]
  /\ \E r \in Requests : left' = [left EXCEPT ![p] = r]
  /\ UNCHANGED <<config, pc, name, registerRequests, isStop, drainer, grpcServer,
                 rpcs, polaris>>

DeregisterReturns(p) ==
  /\ stop[p] = "deregisterOnly" /\ left[p] = {}
  /\ stop' = [stop EXCEPT ![p] = "idle"]
  /\ UNCHANGED <<config, pc, name, registerRequests, isStop, left, drainer,
                 grpcServer, rpcs, polaris>>

-----------------------------------------------------------------------------
(* Stop: the first caller deregisters and stops, the others return at once. *)

CallStop(p) ==
  /\ stop[p] = "idle" /\ MayStop(p)
  /\ isStop' = TRUE
  /\ IF isStop THEN stop' = [stop EXCEPT ![p] = "returned"] /\ UNCHANGED left
     ELSE /\ stop' = [stop EXCEPT ![p] = "deregister"]
          /\ \E r \in Requests : left' = [left EXCEPT ![p] = r]
  /\ UNCHANGED <<config, pc, name, registerRequests, drainer, grpcServer, rpcs,
                 polaris>>

\* Mutant: Deregister runs in a goroutine of its own.
DeregisterStarted(p) == stop[p] = "deregister"

Deregistered(p) == stop[p] = "deregister" /\ left[p] = {}

\* Without graceful stop: gRPC cancels the RPCs in flight.
StopNow(p) ==
  /\ Deregistered(p) /\ ~ gracefulStopEnable
  /\ grpcServer' = "stopped"
  /\ rpcs' = 0
  /\ stop' = [stop EXCEPT ![p] = "returned"]
  /\ UNCHANGED <<config, pc, name, registerRequests, isStop, left, drainer, polaris>>

\* Mutant: the caller waits, but nobody stops the gRPC server.
WaitOnly(p) ==
  /\ Deregistered(p) /\ gracefulStopEnable
  /\ stop' = [stop EXCEPT ![p] = "wait"]
  /\ UNCHANGED <<config, pc, name, registerRequests, isStop, left, drainer, grpcServer,
                 rpcs, polaris>>

StopGracefully(p) ==
  /\ Deregistered(p) /\ gracefulStopEnable
  /\ drainer' = "started"
  /\ stop' = [stop EXCEPT ![p] = "wait"]
  /\ UNCHANGED <<config, pc, name, registerRequests, isStop, left, grpcServer,
                 rpcs, polaris>>

\* The goroutine with GracefulStop: no new RPCs, wait for those in flight,
\* cancel the context.
DrainBegins ==
  /\ drainer = "started"
  /\ drainer' = "draining"
  /\ grpcServer' = "draining"
  /\ UNCHANGED <<config, pc, name, registerRequests, isStop, stop, left, rpcs, polaris>>

DrainEnds ==
  /\ drainer = "draining" /\ rpcs = 0
  /\ drainer' = "done"
  /\ grpcServer' = "stopped"
  /\ UNCHANGED <<config, pc, name, registerRequests, isStop, stop, left, rpcs, polaris>>

WaitEnds(p) ==
  /\ stop[p] = "wait" /\ drainer = "done"
  /\ stop' = [stop EXCEPT ![p] = "returned"]
  /\ UNCHANGED <<config, pc, name, registerRequests, isStop, left, drainer,
                 grpcServer, rpcs, polaris>>

\* gracefulStopMaxWaitDuration is over.
\* Mutant: the context has no deadline.
NoDeadline(p) == FALSE /\ UNCHANGED vars

Deadline(p) ==
  /\ stop[p] = "wait"
  /\ stop' = [stop EXCEPT ![p] = "returned"]
  /\ UNCHANGED <<config, pc, name, registerRequests, isStop, left, drainer,
                 grpcServer, rpcs, polaris>>

-----------------------------------------------------------------------------
(* The clients (external).                                                  *)

RpcBegins ==
  /\ grpcServer = "serving" /\ rpcs < MaxRPCs
  /\ rpcs' = rpcs + 1
  /\ UNCHANGED <<config, pc, name, registerRequests, isStop, stop, left, drainer,
                 grpcServer, polaris>>

RpcEnds ==
  /\ rpcs > 0
  /\ rpcs' = rpcs - 1
  /\ UNCHANGED <<config, pc, name, registerRequests, isStop, stop, left, drainer,
                 grpcServer, polaris>>

-----------------------------------------------------------------------------
Init ==
  /\ mode \in {"method", "package", "register"}
  /\ gracefulStopEnable \in BOOLEAN
  /\ names \in SUBSET Service
  /\ disciplined \in BOOLEAN
  /\ pc = "init" /\ name = NoName
  /\ registerRequests = {} /\ isStop = FALSE
  /\ stop = [p \in Stopper |-> "idle"]
  /\ left = [p \in Proc |-> {}]
  /\ drainer = "none"
  /\ grpcServer = "new" /\ rpcs = 0
  /\ registered = {} /\ kept = {}

RegisterStep == RequestRegister \/ RegisterSucceeds \/ RegisterFails \/ RolledBack

Main ==
  \/ InitResource \/ CallServe \/ NoAddress \/ RegisterStep
  \/ StartSignalHandler \/ GrpcServe \/ GrpcServeReturns

StopStep(p) ==
  StopNow(p) \/ StopGracefully(p) \/ WaitEnds(p) \/ Deadline(p)

Next ==
  \/ Main
  \/ \E p \in Proc : DeregisterOne(p)
  \/ \E p \in Stopper :
       CallDeregister(p) \/ DeregisterReturns(p) \/ CallStop(p) \/ StopStep(p)
  \/ DrainBegins \/ DrainEnds
  \/ RpcBegins \/ RpcEnds

Spec == Init /\ [][Next]_vars

\* Goroutines run, SDK calls end, the deadline passes.  Nobody has to call
\* Stop, and an RPC may last for ever.
Fairness ==
  /\ WF_vars(InitResource) /\ WF_vars(RegisterStep)
  /\ WF_vars(StartSignalHandler) /\ WF_vars(GrpcServe) /\ WF_vars(GrpcServeReturns)
  /\ \A p \in Proc : WF_vars(DeregisterOne(p))
  /\ \A p \in Stopper : WF_vars(StopStep(p)) /\ WF_vars(DeregisterReturns(p))
  /\ WF_vars(DrainBegins) /\ WF_vars(DrainEnds)

FairSpec == Spec /\ Fairness

-----------------------------------------------------------------------------
(* Properties.                                                              *)

TypeOK ==
  /\ mode \in {"method", "package", "register"}
  /\ gracefulStopEnable \in BOOLEAN /\ isStop \in BOOLEAN /\ disciplined \in BOOLEAN
  /\ names \in SUBSET Service
  /\ pc \in {"init", "new", "register", "calling", "rollback", "failed",
             "ready", "serve", "returned"}
  /\ name \in names \cup {NoName}
  /\ registerRequests \in SUBSET names
  /\ stop \in [Stopper -> {"idle", "deregisterOnly", "deregister", "wait", "returned"}]
  /\ left \in [Proc -> SUBSET names]
  /\ drainer \in {"none", "started", "draining", "done"}
  /\ grpcServer \in {"new", "serving", "draining", "stopped"}
  /\ rpcs \in 0..MaxRPCs
  /\ registered \in SUBSET registerRequests /\ kept \in SUBSET registerRequests

\* As long as users are disciplined (otherwise see StopMeansDeregistered):

\* Consumers are turned away before the door closes: once gRPC takes no new
\* RPCs, Polaris lists no instance of the server, but those whose Deregister
\* call failed.
ClosedMeansDeregistered ==
  disciplined /\ grpcServer \in {"draining", "stopped"} => registered \subseteq kept

\* When a registration fails, none of the services stays registered, not even
\* the one whose RegisterInstance failed with its outcome unknown.
FailedMeansDeregistered ==
  disciplined /\ pc = "failed" => registered \subseteq kept

\* Server.Serve goes on to serve only once consumers can find all its services.
ServingMeansRegistered ==
  [][ disciplined /\ mode = "method" /\ pc # "ready" /\ pc' = "ready"
        => registered = names ]_vars

\* The Server as Registration sees it.
Phase ==
  IF grpcServer \in {"draining", "stopped"} THEN "closed"
  ELSE CASE pc \in {"init", "new", "register", "calling"} -> "out"
         [] pc = "rollback" -> "undoing"
         [] pc = "failed"   -> "failed"
         [] OTHER           -> "up"

R == INSTANCE Registration WITH listed <- registered, phase <- Phase

\* All or nothing: disciplined users' servers announce each service before they
\* serve and none afterwards, and have taken all of them back when they give up
\* or close, however calls of the SDK fail and goroutines that stop interleave.
ImplementsRegistration ==
  R!Init /\ [][disciplined => R!Next]_<<names, registered, kept, Phase>>

\* Stop returns, by the deadline at last, though an RPC never ends.
StopReturns ==
  \A p \in Stopper :
    stop[p] \in {"deregister", "wait"} ~> stop[p] = "returned"

\* A stopped server's Serve returns, if the RPCs in flight end.
ServeReturns ==
  WF_vars(RpcEnds) => (isStop /\ pc = "serve" ~> pc = "returned")

\* server.go:142 "Stop deregister and stop": when Stop and Serve have returned,
\* Polaris lists no instance that could have been deregistered.
StopMeansDeregistered ==
  (\E p \in Stopper : stop[p] = "returned") /\ pc = "returned"
    => registered \subseteq kept

=============================================================================
