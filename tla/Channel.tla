-------------------------------- MODULE Channel --------------------------------
(***************************************************************************)
(* A ClientConn with the real resolver in it: Client, where the resolver   *)
(* is known by its promise only, and Resolver, where the ClientConn is     *)
(* known by its calls only, put together.  A call from one to the other is *)
(* a step of both; the version that gRPC was shown last is Client's view.  *)
(***************************************************************************)
EXTENDS Client

CONSTANT Notifier     \* SDK threads that may call OnInstancesUpdate

VARIABLES
  \* the resolver, its watch and its closing; see Resolver
  built, pc, eventCh, chClosed, ticker, cancelled, watch, found, calling, failed,
  ccClosed

Res == INSTANCE Resolver WITH latest <- Len(instances), shown <- view

resolver    == <<built, pc, eventCh, chClosed, ticker, cancelled, watch, found, calling,
                 failed, ccClosed>>
channelVars == <<clientVars, resolver>>

-----------------------------------------------------------------------------
(* Calls between the two.                                                   *)

\* The watcher hands on what it has found: cc.UpdateState.  The channel keeps
\* no version older than that.
Forgotten(version) ==
  [v \in 1..Len(instances) |-> IF v < version THEN {} ELSE instances[v]]

Update ==
  /\ ~ ccClosed
  /\ instances' = Forgotten(found)
  /\ Res!UpdateState
  /\ LET shown == instances[found]
     IN  \/ UpdateClientConnState(shown, NIL) /\ NotReused /\ Wake(TRUE)
         \/ shown = {} /\ UpdateWithoutAddresses(NIL) /\ Wake(Reported)

\* cc.ReportError
Report ==
  /\ ~ ccClosed
  /\ LookupFails
  /\ Res!LookupFails

\* The SDK's cache of the service changes, and its listeners are told.
Change == ServiceChanges /\ Res!ServiceChanges

-----------------------------------------------------------------------------
(* What each does by itself.                                                *)


ResolverStep ==
  /\ UNCHANGED clientVars
  /\ \/ Res!BuildReturns \/ Res!ResolveNow
     \/ Res!DoWatch \/ Res!DoWatchFails \/ Res!Select \/ Res!Lookup \/ Res!Return
     \/ ccClosed /\ (Res!UpdateState \/ Res!LookupFails)
     \/ \E n \in Notifier : Res!OnInstancesUpdate(n)
     \/ Res!Tick \/ Res!ClientConnCloses \/ Res!Close

\* ClientConn.Close stops the balancer and the RPCs, too.
BalancerStep ==
  /\ ~ ccClosed
  /\ \/ \E sc \in SubConn : Deliver(sc) \/ Connection(ConnectionSide(sc))
     \/ RpcStep
  /\ UNCHANGED resolver

-----------------------------------------------------------------------------
ChannelInit ==
  /\ ClientInit
  /\ Res!Init

ChannelNext == Update \/ Report \/ Change \/ ResolverStep \/ BalancerStep

ChannelSpec == ChannelInit /\ [][ChannelNext]_channelVars

-----------------------------------------------------------------------------
(* Properties.                                                              *)

\* From the SDK's cache to the RPCs: when the watched resolver rests and its
\* last lookup did not fail, RPCs are routed to exactly the ready instances of
\* the latest version of the service, through whatever dropped events, failed
\* lookups and SubConns and late notices the channel came to rest.
QuietMeansRouted ==
  LET latest == instances[Len(instances)]
      ready  == ReadySCs(subConns, scStates)
  IN  /\ built /\ pc = "select" /\ watch = "active"
      /\ eventCh = 0 /\ calling = {} /\ ~ failed /\ ~ ccClosed
      /\ latest # {}
      => /\ published # NIL
         /\ Routed = {a \in latest : ready[a] # NIL}

================================================================================
