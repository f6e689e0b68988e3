--------------------------------- MODULE Client ---------------------------------
(***************************************************************************)
(* A ClientConn: the balancer together with the resolver that feeds it and *)
(* the RPCs that use its pickers.                                          *)
(*                                                                         *)
(* Of the resolver it is known what ServiceView says (Resolver implements  *)
(* it), and that lookups may fail.  Of RPCs one is enough, as they share   *)
(* nothing; it waits for ready, so that nothing but a new picker wakes it. *)
(***************************************************************************)
EXTENDS Balancer

CONSTANT MaxVersion   \* bound: versions of the service

ASSUME VersionAssumption == MaxVersion \in Nat \ {0}

VARIABLES
  instances,   \* of the service, by version
  view,        \* the version that the resolver has shown last, 0 before
  rpc,         \* where the RPC stands: "wait", "picking", "refused" (it waits
               \* because its last Pick failed in the SDK), "sent"
  newer,       \* the RPC has not loaded the picker that was published last
  choice       \* the SubConns that Pick of the RPC's picker may return

service    == <<instances, view>>
rpcs       == <<rpc, newer, choice>>
clientVars == <<vars, service, rpcs>>

-----------------------------------------------------------------------------
(* The resolver, and what gRPC's wrapper does with its results.             *)

ServiceChanges ==
  /\ Len(instances) < MaxVersion
  /\ \E A \in SUBSET Addr : instances' = Append(instances, A)
  /\ UNCHANGED <<vars, view, rpcs>>

\* cc.UpdateState wakes the RPCs that wait for a picker, for whatever reason.
Wake(updates) ==
  /\ newer' = (rpc # "sent" /\ (newer \/ updates))
  /\ rpc' = IF rpc = "refused" /\ updates THEN "wait" ELSE rpc
  /\ UNCHANGED choice

\* A SubConn that the RPC may still be sent to is not the identity of a new one.
NotReused == \A sc \in choice : conn[sc] = "Shutdown" => conn'[sc] = "Shutdown"

\* A lookup succeeds: cc.UpdateState of the resolver, as ServiceView!Show.
\* Older versions are never shown again, and forgotten.
Show ==
  /\ view' \in 1..Len(instances) /\ view' >= view
  /\ instances' = [v \in 1..Len(instances) |-> IF v < view' THEN {} ELSE instances[v]]
  /\ LET shown == instances[view']
     IN  \/ UpdateClientConnState(shown, NIL) /\ NotReused /\ Wake(TRUE)
         \/ shown = {} /\ UpdateWithoutAddresses(NIL) /\ Wake(Reported)

LookupFails ==
  /\ ResolverError
  /\ Wake(Reported)
  /\ UNCHANGED service

-----------------------------------------------------------------------------
(* The balancer's notices, and the connections.                             *)

Deliver(sc) ==
  /\ \/ IgnoreSubConnState(sc) /\ Wake(FALSE)
     \/ UpdateSubConnState(sc) /\ Wake(TRUE)
  /\ UNCHANGED service

Connection(A) == A /\ UNCHANGED <<service, rpcs>>

-----------------------------------------------------------------------------
(* An RPC in gRPC's pickerWrapper (external): it loads the picker, calls    *)
(* its Pick (one step later), and sends if the SubConn is READY; otherwise, *)
(* and if Pick fails, it waits for a picker newer than the one it has used. *)
(* It begins when it loads its first.                                       *)

\* Pick, when it succeeds: an SDK that balances the load may choose any
\* instance of the picker.
Choices(picker) ==
  IF picker.kind = "err" THEN {}
  ELSE {picker.readySCs[a] : a \in picker.insList}

\* A picker that offers nothing fails whenever its Pick is called.
Load ==
  /\ rpc = "wait" /\ newer /\ published # NIL
  /\ choice' = Choices(published.picker)
  /\ rpc' = IF choice' = {} THEN "wait" ELSE "picking"
  /\ newer' = FALSE
  /\ UNCHANGED <<vars, service>>

\* ProcessRouters or ProcessLoadBalance fails, whatever the picker offers; the
\* RPC goes on with the next picker at once if there is one already.
PickFails ==
  /\ rpc = "picking"
  /\ rpc' = (IF newer THEN "wait" ELSE "refused") /\ choice' = {}
  /\ UNCHANGED <<vars, service, newer>>

\* The SubConn that Pick returns is not READY any more.
PickAgain ==
  /\ rpc = "picking"
  /\ \E sc \in choice : conn[sc] # "Ready"
  /\ rpc' = "wait" /\ choice' = {}
  /\ UNCHANGED <<vars, service, newer>>

Send(sc) ==
  /\ rpc = "picking" /\ sc \in choice /\ conn[sc] = "Ready"
  /\ rpc' = "sent" /\ choice' = {} /\ newer' = FALSE
  /\ UNCHANGED <<vars, service>>

-----------------------------------------------------------------------------
ClientInit ==
  /\ Init
  /\ \E A \in SUBSET Addr : instances = <<A>>
  /\ view = 0
  /\ rpc = "wait" /\ newer = TRUE /\ choice = {}

RpcStep == Load \/ PickFails \/ PickAgain \/ \E sc \in SubConn : Send(sc)

ClientNext ==
  \/ ServiceChanges \/ Show \/ LookupFails
  \/ \E sc \in SubConn : Deliver(sc) \/ Connection(ConnectionSide(sc))
  \/ RpcStep

ClientSpec == ClientInit /\ [][ClientNext]_clientVars

\* gRPC drains its queue, acts on Connect, ends every dial and every backoff,
\* and its RPCs go on.  SF on DialSucceeds: a backend that is dialled again
\* and again is reached at last.  Nothing is assumed of lost connections.
\* The resolver shows the latest version again and again (its ticker), and
\* at last NewSubConn fails for no address of it.
ShowAll ==
  /\ view' = Len(instances) /\ Show
  /\ \A a \in instances[view'] : subConns'[a] # NIL

Dialling(sc) == Dial(sc) \/ DialSucceeds(sc) \/ DialFails(sc) \/ BackoffEnds(sc)

ClientFairness ==
  /\ SF_clientVars(ShowAll)
  /\ \A sc \in SubConn :
       /\ WF_clientVars(Deliver(sc))
       /\ WF_clientVars(Connection(Dialling(sc)))
       /\ SF_clientVars(Connection(DialSucceeds(sc)))
  /\ WF_clientVars(RpcStep)

FairClientSpec == ClientSpec /\ ClientFairness

-----------------------------------------------------------------------------
(* Properties.                                                              *)

Routed == IF published = NIL \/ published.picker.kind = "err" THEN {}
          ELSE published.picker.insList

\* RPCs are routed by what the resolver has shown: exactly to the ready
\* instances of the version shown last; if that has no instances (they are
\* kept then), to none but those in use.
RoutedAsShown ==
  LET ready == ReadySCs(subConns, scStates)
  IN  published # NIL =>
        IF view > 0 /\ instances[view] # {}
        THEN Routed = {a \in instances[view] : ready[a] # NIL}
        ELSE Routed \subseteq {a \in Addr : subConns[a] # NIL}

\* A picker that is out of date does no harm: whichever SubConn an RPC is sent
\* to, it is that of an address in use, not one that the balancer has given up,
\* however late the RPC calls Pick.
SentToInstanceInUse ==
  [][ \A sc \in SubConn : Send(sc) => \E a \in Addr : subConns[a] = sc ]_clientVars

\* A SubConn of the picker has changed, and the balancer is yet to be told.
NewsFor(picker) == \E sc \in Choices(picker) : notices[sc] # <<>>

\* An RPC that no Pick of the SDK's has failed waits for a new picker only while
\* the last one offers nothing, or while a notice is on its way that brings one:
\* the balancer leaves no RPC waiting for what it has been told of.
WaitsForNews ==
  rpc = "wait" /\ ~ newer =>
    /\ published # NIL
    /\ Choices(published.picker) = {} \/ NewsFor(published.picker)

\* Every instance of the last version is routed to at last: through failed
\* lookups, lists, creations and connections.
EventuallyRouted ==
  \A a \in Addr :
    Len(instances) = MaxVersion /\ a \in instances[MaxVersion] ~> a \in Routed

\* What is shut down is forgotten at last, all of it.
Lingering == {sc \in SubConn : conn[sc] = "Shutdown" /\ scStates[sc] # NIL}

ShutDownForgotten == Lingering # {} ~> Lingering = {}

\* No RPC waits for ever while there are instances, unless connections are
\* lost, or the SDK fails to pick, for ever: whatever an RPC waits for is
\* announced by a new picker, after a failed Pick, too.
TroubleEnds ==
  <>[][/\ \A sc \in SubConn : conn[sc] = "Ready" => conn'[sc] # "Idle"
       /\ PickFails => PickAgain]_clientVars

InstancesStay == Len(instances) = MaxVersion /\ instances[MaxVersion] # {}

RpcSent ==
  TroubleEnds =>
    (InstancesStay /\ rpc \in {"wait", "refused"} ~> rpc = "sent")

=================================================================================
