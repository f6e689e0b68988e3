------------------------------- MODULE Resolver -------------------------------
(***************************************************************************)
(* The name resolver (resolver.go): one polarisNamingResolver, from Build  *)
(* to Close.  Its goroutine "watcher" waits for an event, a tick or the    *)
(* cancelled context, looks the service up in the SDK and hands the result *)
(* to gRPC.  Three others write to it: gRPC calls ResolveNow and Close,    *)
(* SDK threads call OnInstancesUpdate, the runtime's ticker fires.         *)
(*                                                                         *)
(* A list of instances is known by its version: 1, 2, ... as the SDK's     *)
(* cache of the service changes.                                           *)
(***************************************************************************)
EXTENDS Integers, FiniteSets

CONSTANTS
  Notifier,     \* SDK threads that may call OnInstancesUpdate
  MaxVersion    \* bound: versions of the service

ASSUME VersionAssumption == MaxVersion \in Nat \ {0}

VARIABLES
  built,        \* Build has called ResolveNow and returned
  pc,           \* where the watcher goroutine stands
  eventCh,      \* number of events in the channel
  chClosed,     \* close(eventCh) was called
  ticker,       \* "none", "armed", "fired" (a tick waits in C), "stopped"
  cancelled,    \* ctx is cancelled
  watch,        \* watchRsp: "none", "active", "nil" (doWatch failed), "cancelled"
  found,        \* what lookup returned
  latest,       \* SDK: version of the service in its cache
  calling,      \* SDK: threads inside OnInstancesUpdate
  shown,        \* gRPC: version of the last UpdateState, 0 before
  failed,       \* gRPC: a ReportError came after that
  ccClosed      \* gRPC: the ClientConn takes no more results

sdk  == <<latest, calling>>
grpc == <<shown, failed, ccClosed>>
vars == <<built, pc, eventCh, chClosed, ticker, cancelled, watch, found,
          latest, calling, shown, failed, ccClosed>>

-----------------------------------------------------------------------------
(* The channel of events.                                                   *)

\* Mutant: make(chan struct{}) without a buffer.
Unbuffered == 0

Capacity == 1

\* ResolveNow: a select with a default, the event is dropped if one waits.
\* Mutant: it is sent in any case.
SendAlways == eventCh' = eventCh + 1

SendOrDrop == eventCh' = IF eventCh < Capacity THEN eventCh + 1 ELSE eventCh

\* The end of Build, after "go d.watcher()".
BuildReturns ==
  /\ ~ built
  /\ built' = TRUE
  /\ SendOrDrop
  /\ UNCHANGED <<pc, chClosed, ticker, cancelled, watch, found, sdk, grpc>>

\* gRPC calls it while the ClientConn is open, at any time.
ResolveNow ==
  /\ built /\ ~ ccClosed
  /\ SendOrDrop
  /\ UNCHANGED <<built, pc, chClosed, ticker, cancelled, watch, found, sdk, grpc>>

\* The thread blocks until there is room; the panic of a send to the closed
\* channel is recovered.
OnInstancesUpdate(n) ==
  /\ n \in calling /\ pc # "panicked"
  /\ \/ chClosed /\ UNCHANGED eventCh
     \/ ~ chClosed /\ eventCh < Capacity /\ eventCh' = eventCh + 1
  /\ calling' = calling \ {n}
  /\ UNCHANGED <<built, pc, chClosed, ticker, cancelled, watch, found, latest, grpc>>

-----------------------------------------------------------------------------
(* The watcher goroutine.                                                   *)

DoWatch ==
  /\ pc = "watch"
  /\ pc' = "select"
  /\ watch' = "active"
  /\ ticker' = "armed"
  /\ UNCHANGED <<built, eventCh, chClosed, cancelled, found, sdk, grpc>>

\* The error is logged, watchRsp stays nil.
\* Mutant: the goroutine returns, its deferred function closes the channel.
DoWatchFailsReturns ==
  /\ pc = "watch"
  /\ pc' = "close"
  /\ watch' = "nil"
  /\ ticker' = "stopped"
  /\ UNCHANGED <<built, eventCh, chClosed, cancelled, found, sdk, grpc>>

DoWatchFails ==
  /\ pc = "watch"
  /\ pc' = "select"
  /\ watch' = "nil"
  /\ ticker' = "armed"
  /\ UNCHANGED <<built, eventCh, chClosed, cancelled, found, sdk, grpc>>

TakeEvent ==
  /\ pc = "select"
  /\ eventCh > 0
  /\ eventCh' = eventCh - 1
  /\ pc' = "lookup"
  /\ UNCHANGED <<built, chClosed, ticker, cancelled, watch, found, sdk, grpc>>

\* Mutant: the tick is consumed, nothing is refreshed.
TakeTickOnly ==
  /\ pc = "select"
  /\ ticker = "fired"
  /\ ticker' = "armed"
  /\ UNCHANGED <<built, pc, eventCh, chClosed, cancelled, watch, found, sdk, grpc>>

TakeTick ==
  /\ pc = "select"
  /\ ticker = "fired"
  /\ ticker' = "armed"
  /\ pc' = "lookup"
  /\ UNCHANGED <<built, eventCh, chClosed, cancelled, watch, found, sdk, grpc>>

TakeDone ==
  /\ pc = "select"
  /\ cancelled
  /\ pc' = "exit"
  /\ UNCHANGED <<built, eventCh, chClosed, ticker, cancelled, watch, found, sdk, grpc>>

Lookup ==
  /\ pc = "lookup"
  /\ found' = latest
  /\ pc' = "update"
  /\ UNCHANGED <<built, eventCh, chClosed, ticker, cancelled, watch, sdk, grpc>>

\* GetInstances fails: cc.ReportError, which gRPC ignores once it is closed.
\* Mutant: the failure is shown as a service without instances.
LookupFailsEmpty ==
  /\ pc = "lookup"
  /\ found' = 0
  /\ pc' = "update"
  /\ UNCHANGED <<built, eventCh, chClosed, ticker, cancelled, watch, sdk, grpc>>

LookupFails ==
  /\ pc = "lookup"
  /\ failed' = (failed \/ ~ ccClosed)
  /\ pc' = "select"
  /\ UNCHANGED <<built, eventCh, chClosed, ticker, cancelled, watch, found, sdk,
                 shown, ccClosed>>

UpdateState ==
  /\ pc = "update"
  /\ IF ccClosed THEN UNCHANGED grpc
     ELSE shown' = found /\ failed' = FALSE /\ UNCHANGED ccClosed
  /\ pc' = "select"
  /\ UNCHANGED <<built, eventCh, chClosed, ticker, cancelled, watch, found, sdk>>

\* The deferred function: ticker.Stop, CancelWatch (a panic if watchRsp is
\* nil, which nothing recovers), then close(eventCh).
CancelWatch ==
  /\ pc = "exit"
  /\ ticker' = "stopped"
  /\ \/ watch = "active" /\ watch' = "cancelled" /\ pc' = "close"
     \/ watch = "nil" /\ UNCHANGED watch /\ pc' = "panicked"
  /\ UNCHANGED <<built, eventCh, chClosed, cancelled, found, sdk, grpc>>

\* Mutant: the channel is never closed.
LeaveOpen ==
  /\ pc = "close"
  /\ pc' = "done"
  /\ UNCHANGED <<built, eventCh, chClosed, ticker, cancelled, watch, found, sdk, grpc>>

CloseEventCh ==
  /\ pc = "close"
  /\ chClosed' = TRUE
  /\ pc' = "done"
  /\ UNCHANGED <<built, eventCh, ticker, cancelled, watch, found, sdk, grpc>>

-----------------------------------------------------------------------------
(* The environment: the SDK, the ticker, and the ClientConn, which stops    *)
(* taking results before it calls Close.                                    *)

\* The instances change; if the service is watched, a thread of the SDK is
\* about to call OnInstancesUpdate.
ServiceChanges ==
  /\ latest < MaxVersion /\ pc # "panicked"
  /\ latest' = latest + 1
  /\ \/ watch # "active" /\ UNCHANGED calling
     \/ watch = "active" /\ \E n \in Notifier \ calling : calling' = calling \cup {n}
  /\ UNCHANGED <<built, pc, eventCh, chClosed, ticker, cancelled, watch, found, grpc>>

Tick ==
  /\ ticker = "armed"
  /\ ticker' = "fired"
  /\ UNCHANGED <<built, pc, eventCh, chClosed, cancelled, watch, found, sdk, grpc>>

ClientConnCloses ==
  /\ built /\ ~ ccClosed
  /\ ccClosed' = TRUE
  /\ UNCHANGED <<built, pc, eventCh, chClosed, ticker, cancelled, watch, found, sdk,
                 shown, failed>>

Close ==
  /\ ccClosed /\ ~ cancelled
  /\ cancelled' = TRUE
  /\ UNCHANGED <<built, pc, eventCh, chClosed, ticker, watch, found, sdk, grpc>>

-----------------------------------------------------------------------------
Init ==
  /\ built = FALSE /\ pc = "watch"
  /\ eventCh = 0 /\ chClosed = FALSE
  /\ ticker = "none" /\ cancelled = FALSE /\ watch = "none"
  /\ found = 0
  /\ latest = 1 /\ calling = {}
  /\ shown = 0 /\ failed = FALSE /\ ccClosed = FALSE

Select  == TakeEvent \/ TakeTick \/ TakeDone
Refresh == Lookup \/ LookupFails \/ UpdateState
Return  == CancelWatch \/ CloseEventCh
Watcher == DoWatch \/ DoWatchFails \/ Select \/ Refresh \/ Return

\* Nothing is left to do, or the process is gone.
Ended ==
  /\ pc = "panicked" \/ (pc = "done" /\ calling = {} /\ latest = MaxVersion)
  /\ UNCHANGED vars

Next ==
  \/ BuildReturns \/ ResolveNow \/ Watcher
  \/ \E n \in Notifier : OnInstancesUpdate(n)
  \/ ServiceChanges \/ Tick \/ ClientConnCloses \/ Close
  \/ Ended

Spec == Init /\ [][Next]_vars

\* Goroutines run, timers fire, gRPC's serializer calls Close.  SF where Go's
\* select, or its queue of blocked senders, takes each of those that are
\* ready again and again; SF on Lookup: the registry is reachable at last.
Fairness ==
  /\ WF_vars(BuildReturns)
  /\ WF_vars(Watcher)
  /\ SF_vars(TakeEvent) /\ SF_vars(TakeDone)
  /\ SF_vars(Lookup)
  /\ WF_vars(Tick)
  /\ WF_vars(Close)
  /\ \A n \in Notifier : SF_vars(OnInstancesUpdate(n))

FairSpec == Spec /\ Fairness

-----------------------------------------------------------------------------
(* Properties.                                                              *)

TypeOK ==
  /\ built \in BOOLEAN /\ chClosed \in BOOLEAN /\ cancelled \in BOOLEAN
  /\ failed \in BOOLEAN /\ ccClosed \in BOOLEAN
  /\ pc \in {"watch", "select", "lookup", "update", "exit", "close", "done", "panicked"}
  /\ eventCh \in 0..1
  /\ ticker \in {"none", "armed", "fired", "stopped"}
  /\ watch \in {"none", "active", "nil", "cancelled"}
  /\ latest \in 1..MaxVersion
  /\ found \in 0..latest /\ shown \in 0..latest
  /\ calling \in SUBSET Notifier

\* No wakeup is lost: when the watched resolver rests (no event, no thread
\* about to send one) and its last lookup did not fail, gRPC has the latest
\* instances, without the help of the ticker.
QuietMeansCurrent ==
  /\ built /\ pc = "select" /\ watch = "active"
  /\ eventCh = 0 /\ calling = {}
  /\ ~ failed /\ ~ ccClosed
  => shown = latest

\* ResolveNow, which recovers nothing, never sends to the closed channel:
\* only a resolver that gRPC has left closes it.
ResolveNowIsSafe == chClosed => ccClosed

\* The resolver implements what gRPC expects of one.
View == INSTANCE ServiceView WITH view <- shown, open <- ~ ccClosed

ImplementsView == View!Spec

\* Whatever happened - a failed doWatch, failed lookups, dropped events - the
\* latest instances reach gRPC: the ticker makes up for all of it.
EventuallyCurrent == View!Converges(1..MaxVersion)

\* A closed resolver ends: the watch is cancelled, the channel closed.  (If
\* doWatch had failed the process panics instead, see NeverPanics.)
CloseEnds ==
  ccClosed ~> (chClosed /\ watch = "cancelled") \/ pc = "panicked"

\* No thread of the SDK is blocked for good by the full channel: the watcher
\* empties it, or closes it.
NotifierReturns ==
  \A n \in Notifier : n \in calling ~> (n \notin calling \/ pc = "panicked")

\* resolver.go:294 "Close resolver closed": Close stops this resolver, and
\* not the process.
NeverPanics == pc # "panicked"

=============================================================================
