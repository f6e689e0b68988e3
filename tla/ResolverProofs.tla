---------------------------- MODULE ResolverProofs ----------------------------
(***************************************************************************)
(* Proofs about Resolver, for any number of versions and of SDK threads:   *)
(* its safety invariants, and that it implements ServiceView.              *)
(***************************************************************************)
EXTENDS Resolver, TLAPS

\* Closing goes from the ClientConn to the context to the goroutine to the
\* channel, and not backwards.
ClosingOrder ==
  /\ ccClosed => built
  /\ cancelled => ccClosed
  /\ pc \in {"exit", "close", "done", "panicked"} => cancelled
  /\ chClosed => pc = "done"

\* A refresh will start, or somebody is about to ask for one.
Asked == ~ built \/ eventCh > 0 \/ calling # {}

\* What is missing in gRPC's view is on its way: the reason why no wakeup is
\* lost.
OnItsWay ==
  /\ pc = "watch" => Asked
  /\ pc = "update" => shown <= found
  /\ pc = "update" /\ watch = "active" => found = latest \/ Asked
  /\ watch = "active" /\ ~ failed /\ ~ ccClosed
       => shown = latest \/ Asked \/ pc \in {"lookup", "update"}

IInv == TypeOK /\ ClosingOrder /\ OnItsWay

-----------------------------------------------------------------------------
\* IInv is an invariant of the watcher, its callers and the environment.
LEMMA Invariance == Spec => []IInv
<1>1. Init => IInv
  <2> SUFFICES ASSUME Init PROVE IInv
    OBVIOUS
  <2>1. TypeOK
    <3>1. built \in BOOLEAN /\ chClosed \in BOOLEAN /\ cancelled \in BOOLEAN
      BY DEF Init
    <3>2. failed \in BOOLEAN /\ ccClosed \in BOOLEAN
      BY DEF Init
    <3>3. latest \in 1..MaxVersion
      BY VersionAssumption DEF Init
    <3>4. found \in 0..latest /\ shown \in 0..latest /\ eventCh \in 0..1
      BY DEF Init
    <3>5. pc \in {"watch", "select", "lookup", "update", "exit", "close", "done", "panicked"}
      BY DEF Init
    <3>. QED
      BY <3>1, <3>2, <3>3, <3>4, <3>5 DEF Init, TypeOK
  <2>2. ClosingOrder
    BY DEF Init, ClosingOrder
  <2>3. OnItsWay
    BY DEF Init, OnItsWay, Asked
  <2> QED
    BY <2>1, <2>2, <2>3 DEF IInv
<1>2. IInv /\ [Next]_vars => IInv'
  <2> SUFFICES ASSUME IInv, [Next]_vars PROVE IInv'
    OBVIOUS
  <2> USE VersionAssumption DEF IInv, TypeOK, ClosingOrder, OnItsWay, Asked, sdk, grpc
  <2>1. CASE BuildReturns
    BY <2>1 DEF BuildReturns, SendOrDrop, Capacity
  <2>2. CASE ResolveNow
    BY <2>2 DEF ResolveNow, SendOrDrop, Capacity
  <2>3. CASE DoWatch
    BY <2>3 DEF DoWatch
  <2>4. CASE DoWatchFails
    BY <2>4 DEF DoWatchFails
  <2>5. CASE TakeEvent
    BY <2>5 DEF TakeEvent
  <2>6. CASE TakeTick
    BY <2>6 DEF TakeTick
  <2>7. CASE TakeDone
    BY <2>7 DEF TakeDone
  <2>8. CASE Lookup
    BY <2>8 DEF Lookup
  <2>9. CASE LookupFails
    BY <2>9 DEF LookupFails
  <2>10. CASE UpdateState
    BY <2>10 DEF UpdateState
  <2>11. CASE CancelWatch
    BY <2>11 DEF CancelWatch
  <2>12. CASE CloseEventCh
    BY <2>12 DEF CloseEventCh
  <2>13. ASSUME NEW n \in Notifier, OnInstancesUpdate(n) PROVE IInv'
    BY <2>13 DEF OnInstancesUpdate, Capacity
  <2>14. CASE ServiceChanges
    BY <2>14 DEF ServiceChanges
  <2>15. CASE Tick
    BY <2>15 DEF Tick
  <2>16. CASE ClientConnCloses
    BY <2>16 DEF ClientConnCloses
  <2>17. CASE Close
    BY <2>17 DEF Close
  <2>18. CASE UNCHANGED vars
    BY <2>18 DEF vars
  <2> QED
    BY <2>1, <2>2, <2>3, <2>4, <2>5, <2>6, <2>7, <2>8, <2>9, <2>10, <2>11, <2>12,
       <2>13, <2>14, <2>15, <2>16, <2>17, <2>18
       DEF Next, Watcher, Select, Refresh, Return, Ended
<1> QED
  BY <1>1, <1>2, PTL DEF Spec

-----------------------------------------------------------------------------
\* The variables keep their types; in particular the channel holds at most
\* one event, and no version is found or shown before it exists.
THEOREM TypeCorrect == Spec => []TypeOK
<1>1. IInv => TypeOK
  BY DEF IInv
<1> QED
  BY <1>1, Invariance, PTL

\* No notification is lost between the SDK's threads and the watcher.
THEOREM NoLostWakeup == Spec => []QuietMeansCurrent
<1>1. IInv => QuietMeansCurrent
  BY DEF IInv, OnItsWay, Asked, QuietMeansCurrent
<1> QED
  BY <1>1, Invariance, PTL

\* ResolveNow never sends to a closed channel.
THEOREM ResolveNowSafe == Spec => []ResolveNowIsSafe
<1>1. IInv => ResolveNowIsSafe
  BY DEF IInv, ClosingOrder, ResolveNowIsSafe
<1> QED
  BY <1>1, Invariance, PTL

\* The resolver implements ServiceView: the changes of the SDK's cache are
\* changes of the service, UpdateState shows a version of it, the ClientConn's
\* closing closes the view, and every other step is a stutter.
THEOREM Refinement == Spec => ImplementsView
<1>1. Init => View!Init
  BY DEF Init, View!Init
<1>2. IInv /\ [Next]_vars => [View!Next]_<<latest, shown, ~ ccClosed>>
  <2> SUFFICES ASSUME IInv, [Next]_vars, <<latest, shown, ccClosed>>' # <<latest, shown, ccClosed>>
               PROVE  View!Next
    OBVIOUS
  <2> USE DEF IInv, TypeOK, OnItsWay, sdk, grpc
  <2>1. CASE ServiceChanges
    BY <2>1 DEF ServiceChanges, View!Next, View!Change
  <2>2. CASE UpdateState
    BY <2>2 DEF UpdateState, View!Next, View!Show
  <2>3. CASE ClientConnCloses
    BY <2>3 DEF ClientConnCloses, View!Next, View!Close
  <2>4. ServiceChanges \/ UpdateState \/ ClientConnCloses
    BY DEF Next, Watcher, Select, Refresh, Return, Ended, vars, BuildReturns, ResolveNow,
           DoWatch, DoWatchFails, TakeEvent, TakeTick, TakeDone, Lookup, LookupFails,
           CancelWatch, CloseEventCh, OnInstancesUpdate, Tick, Close
  <2> QED
    BY <2>1, <2>2, <2>3, <2>4
<1> QED
  BY <1>1, <1>2, Invariance, PTL DEF Spec, ImplementsView, View!Spec

\* "Close resolver closed" (resolver.go:294): Close ends the resolver and not
\* the process, as long as doWatch does not fail.  (If it does, the process may
\* panic: the run of MCResolverPanic.cfg.)
THEOREM WatchedNeverPanics ==
  Spec /\ [][~ DoWatchFails]_vars => []NeverPanics
<1> DEFINE Watched == watch # "nil" /\ NeverPanics
<1>1. Init => Watched
  BY DEF Init, NeverPanics
<1>2. Watched /\ [Next]_vars /\ [~ DoWatchFails]_vars => Watched'
  BY DEF NeverPanics, vars, sdk, Next, Watcher, Select, Refresh, Return, Ended,
         BuildReturns, ResolveNow, DoWatch, TakeEvent, TakeTick, TakeDone, Lookup,
         LookupFails, UpdateState, CancelWatch, CloseEventCh, OnInstancesUpdate,
         ServiceChanges, Tick, ClientConnCloses, Close
<1> QED
  BY <1>1, <1>2, PTL DEF Spec

\* Whoever waits for the watcher is served: while the channel of events is open
\* there is a goroutine that empties it, at rest the ticker brings the next
\* lookup even if doWatch or the last one failed, and when the goroutine has
\* ended the channel is closed, the watch cancelled and the ticker stopped
\* (watcher and its deferred function, resolver.go).
THEOREM WatcherGoesOn ==
  Spec => [](pc # "panicked" =>
               /\ chClosed <=> pc = "done"
               /\ pc = "select" => ticker \in {"armed", "fired"}
               /\ chClosed => watch = "cancelled" /\ ticker = "stopped")
<1> DEFINE Running == pc \in {"select", "lookup", "update", "exit"}
           Goes == /\ chClosed <=> pc = "done"
                   /\ Running => ticker \in {"armed", "fired"} /\ watch \in {"active", "nil"}
                   /\ pc \in {"close", "done"} => ticker = "stopped" /\ watch = "cancelled"
<1>1. Init => Goes
  BY DEF Init
<1>2. Goes /\ [Next]_vars => Goes'
  <2> SUFFICES ASSUME Goes, [Next]_vars PROVE Goes'
    OBVIOUS
  <2>1. CASE BuildReturns \/ ResolveNow
    BY <2>1 DEF BuildReturns, ResolveNow, sdk, grpc
  <2>2. CASE DoWatch \/ DoWatchFails
    BY <2>2 DEF DoWatch, DoWatchFails
  <2>3. CASE Select
    BY <2>3 DEF Select, TakeEvent, TakeTick, TakeDone
  <2>4. CASE Refresh
    BY <2>4 DEF Refresh, Lookup, LookupFails, UpdateState
  <2>5. CASE Return
    BY <2>5 DEF Return, CancelWatch, CloseEventCh
  <2>6. ASSUME NEW n \in Notifier, OnInstancesUpdate(n) PROVE Goes'
    BY <2>6 DEF OnInstancesUpdate
  <2>7. CASE ServiceChanges \/ Tick \/ ClientConnCloses \/ Close
    BY <2>7 DEF ServiceChanges, Tick, ClientConnCloses, Close
  <2>8. CASE UNCHANGED vars
    BY <2>8 DEF vars
  <2> QED
    BY <2>1, <2>2, <2>3, <2>4, <2>5, <2>6, <2>7, <2>8 DEF Next, Watcher, Ended
<1>3. Goes => (pc # "panicked" =>
                 /\ chClosed <=> pc = "done"
                 /\ pc = "select" => ticker \in {"armed", "fired"}
                 /\ chClosed => watch = "cancelled" /\ ticker = "stopped")
  OBVIOUS
<1> QED
  BY <1>1, <1>2, <1>3, PTL DEF Spec

=============================================================================
