# grpc-go-polaris, specified

TLA+ specifications of [grpc-go-polaris](../src), a library that lets gRPC-Go
clients and servers use the Polaris naming service: a load balancing policy, a
name resolver, a server wrapper that registers its services, and a rate
limiter. The library is some two thousand lines of Go between three concurrent
systems: gRPC (v1.64, its channel, its connections, its server), the Polaris
SDK (polaris-go, its caches, its callbacks, its heartbeats) and the user's
goroutines. What can go wrong sits in the interleavings of the three.

The first part of this file is the inventory, the second the modules and what
they show, the third what is proved, the last what is left out.

## 1. The system

```
   user ── DialContext ──► target "polaris://service?options=..."
                                   │
  ┌────────────────────── grpc.ClientConn ──────────────────────┐
  │  ResolveNow, Close             UpdateState, ReportError      │
  │        │                                ▲                    │
  │  polarisNamingResolver (resolver.go) ───┘                    │
  │        watcher goroutine ◄─ eventCh ◄─ OnInstancesUpdate ◄───┼── polaris-go
  │                                                              │   (cache, watch)
  │  polarisNamingBalancer (balancer.go)                         │
  │        UpdateClientConnState, ResolverError,                 │
  │        UpdateSubConnState  ──► picker ──► Pick, report ──────┼─► polaris-go
  │        NewSubConn, Connect, Shutdown ──► SubConns            │   (routing, LB,
  └──────────────────────────────────────────────────────────────┘    breaker)

   user ── NewServer/Serve/Register/Stop/Deregister ── Server (server.go)
                 │                                        │
            grpc.Server ◄── RateLimitInterceptor      RegisterInstance, Deregister
```

| Component | State | Operations | Hard parts | What makes it correct |
|---|---|---|---|---|
| **Balancer**, balancer.go 74-359 | `subConns`, `scStates`, `csEvltr`, `state`, `v2Picker`, `connErr`, `resolverErr`, `options`, `response`, `lbCfg`, the APIs | `Build`, `UpdateClientConnState`, `ResolverError`, `UpdateSubConnState` | notices about connections arrive late, for SubConns already removed; the picker is rebuilt only on some of them; four views of the same connections must agree | counters = connections; map = gRPC's SubConns; picker = READY SubConns; no nil dereference; every address in use is served at last |
| **Resolver**, resolver.go | `eventCh` (capacity 1), context, ticker, watch | `Build`, `ResolveNow`, `OnInstancesUpdate`, `watcher`, `doRefresh`, `Close` | four goroutines around one channel that one of them closes; dropped events; lookups and watches that fail | no lost wakeup; never an unprotected send to the closed channel; gRPC sees the latest instances at last; it ends, and blocks nobody |
| **Server**, server.go, server_option.go | `registerRequests`, `isStop`, the gRPC server, the instances in Polaris | `initResource`, `doRegister`, `Serve`, `Register`, `Stop`, `Deregister` | partial registration, failing deregistration, Stop from several goroutines at any time, the deadline of the graceful stop | all or nothing registered; Polaris is told before the door closes; Stop returns |
| **Picker and reports**, balancer.go 361-635, context.go, client.go 86-104 | none of its own: a snapshot of the balancer, one reporter per RPC | `Pick`, `report`, `reportCircuitBreak`, `RequestScopeLb*`, `injectCallerInfo` | picks from a picker that is no longer the current one; RPCs picked more than once; which of them are counted | an answered RPC is reported once, for the instance that answered; the server counts it for the service it was routed for |
| **SDK context**, global.go 59-112, resolver.go 114-121 | `polarisContext`, `ctxRef`, the builder's cached context | `PolarisContext`, `ClosePolarisContext`, `setPolarisContext`, `setPolarisConfig` | reference counting across failures, builds that race for the builder's cache, users that keep a context they hold no reference to | a context in use is not destroyed; one nobody uses is |
| **Server options**, server_option.go | `serverOptions` | `With*`, `setDefault`, the delay strategies | options in any order, defaults that depend on each other, an error that is ignored | what a server dereferences later is there, after an error too |
| **Rate limiter**, ratelimit.go | none (quota lives in the SDK) | `UnaryInterceptor`, `buildQuotaRequest`, `fetchArguments` | fails open; which headers of the call become part of the request | a limited call never reaches the handler, any other does, once; both ends agree on who called |
| **Dialling**, client.go, client_option.go, default.go | `dialOptions` | `DialContext`, `BuildTarget`, `targetToOptions` | options cross from the dialler to the resolver inside a URL; the interceptor keeps its own copy | what the user set is what the resolver reads |
| Logger, examples, tests | - | - | - | - |

The hazards, each at its line, with the properties that cover it, are listed
under "hazards" in PROJECT.json; those that no property covers say why.

## 2. The modules

| Module | About |
|---|---|
| `Balancer` | the load balancing policy with its gRPC environment |
| `Resolver`, `ServiceView` | the name resolver, and the abstract view of a service it implements |
| `Client` | a ClientConn: `Balancer`, what a resolver shows it, its connections, and an RPC that uses its pickers |
| `Channel` | the same with the real resolver: `Client` and `Resolver` together |
| `Call`, `RateLimit` | one unary RPC end to end, with the options of its channel; the decisions of the rate limiter |
| `Server`, `Registration` | one provider: registration and stop; the all-or-nothing registration it implements |
| `Endpoints`, `SharedContext` | all the endpoints of a process and the SDK context they share; the table of holders that its counter implements |
| `MC...` | symmetry for the model checker; the `.cfg` files give the constants |
| `BalancerProofs`, `ResolverProofs`, `ServerProofs`, `ClientProofs`, `ChannelProofs`, `CallProofs`, `EndpointsProofs` | theorems, checked by TLAPS |

How they fit: `Resolver` implements `ServiceView`; `Client` extends `Balancer`
and takes the resolver as `ServiceView` describes it; `Channel` puts the two
together, and implements both. `Call` looks at the same RPC from the other
side: not when it is sent, but with what, and what is said about it
afterwards; there the balancer is only a source of pickers. `Endpoints` stands
under all of them. Symmetry is used in the runs without liveness properties only.

Next to some definitions stands a variant, marked "Mutant" in its comment. It
is not part of the specification: it is the definition as a plausible bug
would have it, and the property it is listed with in PROJECT.json fails when
it takes the definition's place.

### Balancer

gRPC calls a balancer's methods one at a time (the channel's callback
serializer), so each method is one action, with every call it makes inside.
`rwMutex` adds nothing to that and is left out. Concurrent are gRPC's
connections, whose state changes queue up (`notices`) before the balancer sees
them, and the RPCs, which use whatever was given to `cc.UpdateState` last
(`published`).

| Code | Specification |
|---|---|
| `UpdateClientConnState` | `UpdateClientConnState(A, cfg)` for addresses, `UpdateWithoutAddresses(cfg)` for the early return |
| `createSubConnection`, where `NewSubConn` may fail for any address | `Creations` |
| the loop that removes | `Removed` |
| `ResolverError`, also called by `UpdateClientConnState` | `ReportResolverError` |
| `UpdateSubConnState`, its early returns | `IgnoreSubConnState` |
| `UpdateSubConnState`, the rest | `UpdateSubConnState` |
| `regeneratePicker`, `mergeErrors` | `RegeneratePicker`, `PolarisPicker`, `ErrPicker` |
| `csEvltr` (gRPC's) | `RecordTransition`, `CurrentState` |

An instance is its address. Errors are nil or not; weights are left out, since
no decision here depends on them. A SubConn's identity is used again once
`scStates` has forgotten it and no notice of it is under way: gRPC's
identities are pointers, never used again while something still refers to them.

gRPC's connections are external: IDLE, CONNECTING, then READY or
TRANSIENT_FAILURE, back to IDLE after a backoff or a loss, SHUTDOWN by
`Shutdown()`. Connection health checking is off (`HealthCheckEnabled: false`).

Run `balancer` (2 addresses, 3 SubConns, 2 undelivered notices per SubConn):
two addresses are enough for states to be aggregated and for one to be removed
while the other stays; a third SubConn lets an address come back while the old
connection's notices are still in the queue; two notices let a failure and
the following IDLE, or a state and the SHUTDOWN, wait together. Some 340,000
states. It checks:

- `EvaluatorCounts`: gRPC's evaluator counts the SubConns per state exactly.
- `SubConnsInUse`: the map and gRPC's connections agree; no leak, no dead entry.
- `PickerServesReady`: although it is rebuilt only on some notices, the picker
  always offers exactly the READY SubConns in use. It follows that `Pick`'s last
  line, `ErrNoSubConnAvailable`, is never reached for an instance of its list.
- `NoNilDereference`: `regeneratePicker(nil)` in `ResolverError` is safe because
  of the states in which it can be reached.
- `PublishedIsCurrent`: no handler changes state or picker without handing both on.
- `StateLag`: the two ways, and no others, in which the aggregated state is old.
- `AllDownStaysDown`: the purpose of ignoring IDLE and CONNECTING of failed SubConns.
- `NobodyLeftIdle`: its danger. A SubConn in use that is idle has been told to
  connect, or its IDLE is still to be delivered, although that notice may be
  one that the balancer otherwise ignores.

Liveness is checked in the composition, `Client`. Run `balancer_err_cause`
refutes a comment of the code (see below). Three more remarks on the model:
nothing ever clears `connErr` (balancer.go:133 says leaving TRANSIENT_FAILURE
does); an errPicker outlives that state (balancer.go:309 has one in that state
only), since the condition of lines 300-301 does not regenerate the picker when
CONNECTING or IDLE follows; and an update without addresses replaces the
response while the SubConns stay (balancer.go:197-209), so that the next picker
has connections and no instance to choose from; `RoutedAsShown` of `Client`
states that case on its own.

### Resolver and ServiceView

The steps are those of the goroutines: the `select` of the watcher, the lookup
and the update of gRPC apart, since the service may change between them; the
two halves of the deferred function apart, since SDK threads may send to the
channel meanwhile. A list of instances is its version. `failed` says a
`ReportError` came after the last `UpdateState`.

| Code | Specification |
|---|---|
| `Build` after `go d.watcher()` | `BuildReturns` |
| `ResolveNow`, `OnInstancesUpdate`, `Close` | the same |
| `watcher`: `doWatch`, `select`, the deferred function | `DoWatch`, `DoWatchFails`; `TakeEvent`, `TakeTick`, `TakeDone`; `CancelWatch`, `CloseEventCh` |
| `doRefresh`, `lookup` | `Lookup`, `LookupFails`, `UpdateState` |

External: the SDK's cache and its notifications (`ServiceChanges`), the ticker,
the `ClientConn`, which takes no results any more from the moment its own
`Close` began. That a lookup answers from the cache that was notified about is
how polaris-go works; so is that a failed `WatchAllInstances` returns nil.

Run `resolver` (2 SDK threads, 4 versions: two threads, so that one blocks on
the full channel while another comes; four versions, so that the service
changes before, during and after a lookup with events dropped between) checks
`QuietMeansCurrent` (no lost wakeup), `ResolveNowIsSafe`, and that `Resolver`
implements `ServiceView`: what gRPC is shown is some version the service had,
never an older one than before, and nothing after the end. Its liveness
properties are `EventuallyCurrent` (the latest version is shown at last,
whatever failed or was dropped), `CloseEnds` and `NotifierReturns`. Fairness:
the goroutine runs and the ticker fires (weak); strong where Go's `select`
picks among ready cases at random and a channel serves its blocked senders in
order; strong on `Lookup`: the naming server is reachable at last. Run
`resolver_panic` shows what a failed `doWatch` leads to.

### Server

`mode` is the entry point: `NewServer` with `Server.Serve`, the function
`Serve`, the function `Register`. `pc` is where the serving goroutine stands;
the goroutine of the signal handler and the user's stop it (`stop`), each with
its own list of requests to take back (`left`). A failed SDK call may have
taken effect or not. `kept` is the excuse of the code: it logs a failed
`Deregister` and goes on.

| Code | Specification |
|---|---|
| `initResource`, the delay strategy | `InitResource` |
| `doRegister` | `NoAddress`, `RequestRegister`, `RegisterSucceeds`, `RegisterFails`, `RolledBack` |
| `deregisterServices` | `DeregisterOne`, one step per request |
| `Deregister` | `CallDeregister`, `DeregisterReturns` |
| `Stop` | `CallStop`, `StopNow`, `StopGracefully`, `WaitEnds`, `Deadline`; its goroutine: `DrainBegins`, `DrainEnds` |
| `Serve` | `StartSignalHandler`, `GrpcServe`, `GrpcServeReturns` |

Services are registered in any order: `buildServiceNames` iterates a map, and
that `deregisterServices` follows the order of registration is left out. Data
race: `Deregister` reads `registerRequests` without a lock while `doRegister`
may append, it sees some of them (`Requests`).

`disciplined`, chosen at the start, says that users call `Stop` and
`Deregister` only once registration has ended. Run `server` (2 services, 2 users besides
the signal handler, 1 RPC) checks `ClosedMeansDeregistered`,
`FailedMeansDeregistered` and `ServingMeansRegistered` for disciplined users:
two services make a registration that fails half way, three stopping goroutines
make one that returns early, one that deregisters and one that deregisters
again; one RPC is enough, since all that matters of RPCs is whether one is
left. `StopReturns` and `ServeReturns` are checked for all users.
Fairness: goroutines run, SDK calls end, the deadline passes; nobody has to
call Stop, and an RPC may last for ever (`ServeReturns` states that premise
itself). Deadlock is not checked there: a server that has stopped does nothing
more.

What consumers of the naming server can count on is the module `Registration`:
services are announced one by one; the server comes up with all of them
announced or with all taken back, and closes with all taken back, except those
that could not be (`kept`). `Phase` maps the server to it: "out" until
registration has ended, "undoing" during the rollback, "closed" once the gRPC
server takes no more RPCs. `ImplementsRegistration` states the refinement step
by step, for disciplined users: TLC takes a condition on the users as part of
an action only. It adds to the invariants what they cannot say: nothing is
announced twice or late, and nothing taken back is announced again, whoever
stops the server and however often.

Run `server_race` gives up the discipline and shows an instance left behind by
a Stop during registration. That `Stop` returns at its deadline while
`GracefulStop` still waits for RPCs, and at once for a second caller, is in the
model (`Deadline`, `CallStop`); no property says otherwise.

### Client

The variables of `Balancer`, the service's versions and the one shown last
(`instances`, `view`), and an RPC that waits for ready: it loads the picker
(`Load`), calls its `Pick` one step later (`PickAgain`, `Send`), and waits for a
newer picker if that was in vain (`newer`), be it that the SubConn is not READY
any more or that `Pick` failed ("refused").

| Code | Specification |
|---|---|
| a successful lookup, up to the balancer | `Show`: one of the two `Update...` actions of `Balancer` |
| a failed lookup | `LookupFails`: `Balancer`'s `ResolverError` |
| `cc.UpdateState` waking the RPCs | `Wake` |
| gRPC's notices to the balancer | `Deliver` |
| `Pick`'s choice | `Choices`: any instance of the picker |
| `Pick`'s errors | `PickFails`: the router or the load balancer of the SDK fails |
| gRPC's `pickerWrapper` (external) | `Load`, `PickAgain`, `Send` |

Run `client` (2 addresses, 2 SubConns, 1 notice, 2 versions; some
97,000 states): with two addresses a version can add, drop or exchange an instance, with two
versions the first is superseded while its connections still change. It checks

- `RoutedAsShown`: the picker in use offers exactly the READY instances of the
  version that the resolver showed last, whatever failed on the way.
- `WaitsForNews`: an RPC that no `Pick` has failed waits only while the last
  picker offers nothing, or while a notice of one of its SubConns is on its way:
  what the balancer has been told, it withholds from no RPC.
- `SentToInstanceInUse`: however late an RPC calls `Pick` of a picker long
  superseded, the SubConn it is sent to is that of an address in use.
- `EventuallyRouted`: every instance of the last version is routed to at last.
- `ShutDownForgotten`: `scStates` does not grow for ever; whatever is shut down
  is forgotten at last.
- `RpcSent`: a waiting RPC is not forgotten - no picker it needs is left
  unpublished. Its premise, `TroubleEnds`, is that connections are not lost,
  and that the SDK does not fail to pick, for ever. An RPC whose `Pick` failed is
  in a special position: its picker may have instances, and no notice need be on its
  way. What it waits for is the next picker, and the resolver's ticker brings
  it, since every `UpdateClientConnState` with addresses makes a new one.

Fairness: gRPC drains its queue, acts on `Connect`, ends dials and backoffs,
runs its RPCs (weak); a backend that is dialled again and again is reached at last
(strong); and the resolver, whose ticker fires again and again, shows the latest version
in a way in which `NewSubConn` fails for none of its addresses (`ShowAll`,
strong). Without the last an address whose SubConn could not be created would
wait for a resolution that nobody owes it.

An RPC may begin at any time: its first `Load` is its beginning. Versions older
than the one shown are forgotten, since a resolver never goes back to them.
A SubConn that an RPC still holds is not taken for a new one (`NotReused`): the
RPC has gRPC's pointer, and a pointer that is held is not allocated again.

### Channel

`Client` knows the resolver by its promise, `Resolver` knows the channel by the
calls it makes. `Channel` has the variables of both; the service's versions are
`Client`'s `instances` (`Resolver`'s `latest` is how many there are) and the
version shown is `Client`'s `view` (`Resolver`'s `shown`).

| Code | Specification |
|---|---|
| `doRefresh`, `cc.UpdateState` | `Update`: `UpdateState` of `Resolver` with one of `Balancer`'s `Update...` |
| `doRefresh`, `cc.ReportError` | `Report`: `LookupFails` of both |
| the SDK's cache changes | `Change`: `ServiceChanges` of both |
| every other step of the resolver | `ResolverStep`, the balancer is left alone |
| every other step of the channel | `BalancerStep`, the resolver is left alone |

`ClientConn.Close` ends the balancer and the RPCs with the resolver, so nothing
of `Client` happens after `ClientConnCloses`; what the resolver hands on later
is lost.

Run `channel` (2 addresses, 2 SubConns, 1 notice, 2 versions, 1 SDK thread; some
2 million states) checks `QuietMeansRouted`: when the watched resolver rests and
its last lookup did not fail, RPCs are routed to exactly the ready instances of
the latest version in the SDK's cache. Neither module can say this alone:
`Resolver` says which version was shown, `Client` what is done with it. Two
versions let one change while the other is looked up, handed on or connected
to; the SDK's second thread, which run `resolver` has, adds nothing here, since
what the balancer sees of the resolver is proved for any number of them. The RPC
begins once the last version was shown (`RpcBeginsLate`, an action constraint):
it only reads what it is routed by, and earlier RPCs are those of run `client`.
Deadlock is not checked, since a closed channel comes to its end. There is no
fairness in this run: liveness is that of `Resolver` and of `Client`.

### Call and RateLimit

One unary RPC: the options of the dial, their copy in the target's URL
(`Marshal`, `TargetToOptions`), the headers, the pick, the transport, the limiter,
the handler, the answer and the report. RPCs share only the picker, which here
changes at any time, so one of them is enough. Data are as small as the
decisions on them: an option is unset or set, a header absent or present with
the one who wrote it.

| Code | Specification |
|---|---|
| `DialOption`s, `DialContext`, `BuildTarget`, `grpc.Dial` of a polaris target | `Apply`, `DialContext`, `BuildTarget`, `DialBare`, `DialFails` |
| `targetToOptions` | `TargetToOptions` |
| `RequestScopeLbPolicy`, `RequestScopeLbHashKey` | `RequestScope`; `Forward`, a context that names a caller already |
| `injectCallerInfo` | `InjectCallerInfo`, `Invoke` |
| `Pick` | `Pick`, `PickFails`, with `BuildSourceInfo`, `RouterArguments`, `BuildLoadBalanceRequest` |
| `resultReporter.report`, `reportCircuitBreak` | `Report`, `CircuitBreaker` |
| gRPC's transport (external) | `NotReady`, `Send`, `Retry`, `Lost`, `Answer` |
| `UnaryInterceptor`, `buildQuotaRequest`, `fetchArguments` | `Limit`, `Unlimited`; `UnaryInterceptor`, `BuildQuotaRequest`, `Arguments` in `RateLimit` |

Bounds: each key of the request's scope is set once; the limiter's
configuration, its rules and the form of the method's name are chosen when the
RPC arrives; an errPicker is a picker without instances; two addresses make a
retry that goes elsewhere. Run `call` checks

- `CountedOnce`: an answered RPC is reported once, as the success or failure it
  was, for the instance that answered, however often it was picked.
- `AnswerIsTrue`: what the caller is told is what the server did; a limited RPC
  reached no handler.
- `CallerIsCounted`: a rule on the calling service counts the RPC for the source
  service that the channel routes it by. The two come from different copies of
  the options, one of which went through JSON, a URL and back. A forwarded
  RPC is excepted: its first header, that of the original caller, wins.

What the model also shows, and no property forbids: an RPC that fails before a
byte was received is not reported at all, so the circuit breaker never sees a
backend that only refuses; one turned away by the limiter is reported as a
failure of its instance; of the two options of the request's scope one alone is
dropped, although the comment in balancer.go:482 has that scope used first; a bare `grpc.Dial` reads options whose defaults are
not those of `newDialOptions` (no router); the limiter lets an RPC pass
whenever it cannot ask. Left out as data: `addTrafficLabels` collects the
labels of the inbound rules twice and those of the outbound ones never
(balancer.go:517-518), and the service of a quota request without a configured
name keeps its leading slash.

### Endpoints

Any number of dials, servers and limiters of a process take the shared context,
by `PolarisContext` under its mutex, and may give it up. The resolver builder
caches it without a lock: a write of that interface value is two words, and a
reader may see it between them (`torn`). `Build` reads it twice, for the balancer's
options and for the resolver's consumer, and the two contexts may differ: `ctx`
is the set of those an endpoint uses.

| Code | Specification |
|---|---|
| `PolarisContext`, `ClosePolarisContext`, `setPolarisContext` | the same |
| `WithPolarisContext`, `Build` of the resolver builder | `WithPolarisContext`; `CheckBuilder`, `Acquire`, `StoreType`, `StorePointer`, `UseInBalancer`, `UseInResolver` |
| server options, `setDefault`, the delay strategy | `ServerOption`, `SetDefault`, `DelayEnds` |
| `initResource`, the SDK context | `InitResource`, `TakeContext` |
| `NewRateLimitInterceptor` | the same |
| the end, as examples/quickstart/consumer has it | `Close`, then `Release` |

Users may be `disciplined`: they call `ClosePolarisContext` for what took the
context only and, since dials share one reference of the builder, for dials
only after all of them are over, and dial no more then. Run `endpoints` (2 dials,
so that builds race and share; a server, a limiter; two contexts of the SDK, so that
one can follow a destroyed one; one of the user's; each server is given
a context once; some 1.2 million states) checks

- `GlobalIsAlive`: whatever users do, `PolarisContext` returns no destroyed context.
- `SharedIsAlive`: with disciplined users no endpoint loses a context it uses while it is open.
- `NoLeak`: with them, and without failures, the last release destroys the context.
- `DefaultsComplete`: what servers dereference is set, whatever options they got,
  and although `initResource` ignores that `setDefault` failed: the context
  is asked for last, so that it is the only thing that may be missing.
- `ImplementsSharedContext`: what the counter stands for. `SharedContext` has no
  counter, but a table of holders (`Holding`): who takes the context gets a live
  one, the last to give it up destroys it, nobody else does, and he does unless
  a call has failed before or the context was replaced (`Inexact`). As for
  `Server`, the refinement is stated step by step for disciplined users.

Deadlock is not checked, since all endpoints may be over. Run `endpoints_stale`
(2 dials, one after the other is enough) is the discipline's other side: dial,
close, `ClosePolarisContext`, dial again, and the second dial makes do with the
context that was destroyed before it began.

Durations are left out: `Server` lets the deadline of `Stop` pass at any moment.
So no run shows that `MinGracefulStopWaitDuration`, the "low bound" of
global.go:50-51, is applied nowhere: `setDefault` compares with zero only
(server_option.go:78), and a wait of a nanosecond is accepted.

### Where the code and its words part

Each of these is a run that ends in a counterexample, on the smallest instance
that shows it.

- `mergeErrors` (balancer.go:350) counts on `connErr` being set unless there
  are no SubConns: after a resolver error without SubConns, a successful
  resolution creates some and clears `resolverErr`, the only error there is,
  while the picker is still an errPicker (`balancer_err_cause`).
- "Close resolver closed" (resolver.go:294): after a failed `doWatch` it
  panics instead (`resolver_panic`).
- "Stop deregister and stop" (server.go:142): not while registration runs
  (`server_race`).
- "build a new Resolver" (resolver.go:98): with a context destroyed before
  (`endpoints_stale`).
- "default namespace when namespace is not set" (global.go:41): lookups and
  routing apply it; the caller's header and the circuit breaker get the empty
  one (`call_namespace`).

## 3. What is proved

By TLAPS, for any constants that satisfy the assumptions of the modules; the
theorems are listed in PROJECT.json.

**Balancer.** Assumptions: `SubConn` is finite (the evaluator's counters are
cardinalities), `NIL` is none of the values. All safety invariants of run
`balancer` and the action property. None of them is inductive alone;
`IInv` joins them with three facts: notices of SHUTDOWN come only from SubConns
that were shut down (so that a SubConn in use keeps its entry in `scStates`);
in TRANSIENT_FAILURE no SubConn in use is connecting or ready (so that an
errPicker hides nothing); SubConns are known only once there is a picker. The
counting rests on three lemmas on the number of SubConns in a state when one
entry, or a set of entries, changes. `CauseOnceFailed` is the other side of run
`balancer_err_cause`: where the comment on the errors is right. `KnownWhenTold`
and `IdleIsTold` rest on a second invariant, `NewsComes`, about what is on its
way: the last notice that waits is the state the connection is in, a SubConn of
which none waits is remembered as it is (or was remembered as failed and is being
retried), and one that is idle was told to connect or its IDLE waits. They
are the safety half of `EventuallyRouted`: what remains of it is that gRPC's
connections move on, the fairness that TLC's run assumes.

**Resolver.** All safety properties, and the refinement of `ServiceView`. The
invariant says what each place of the watcher implies: in particular that an
old `found` or `shown` means an event waits, a thread is about to send one, or
a lookup is still ahead. `WatchedNeverPanics`: a failed `doWatch` is the only
cause of the panic that run `resolver_panic` shows. `WatcherGoesOn`: somebody
empties the channel of events as long as it is open, the ticker is armed whenever
the watcher rests, and the goroutine leaves nothing running when it ends.

**Server.** All safety properties. The invariant: for disciplined users, whoever
takes requests back still has on its list whatever is registered, unless a
failed call kept it, and nobody takes anything back before registration ends.
From the same invariant follow the refinement of `Registration`, as the run
states it (`AllOrNothing`) and as an implication between specifications
(`RegistrationRefined`: `Spec /\ disciplined => R!Spec`), and `StopDeregisters`:
what run `server_race` refutes holds for disciplined users. `SomebodyStops`, for
all users: whoever of the callers of `Stop` returns early, the gRPC server is
stopped or a goroutine has it in hand.

**Client.** `ClientRefinesBalancer`: every behaviour of the composition is one
of `Balancer`, so that all of its theorems hold there; the steps of the RPC and
of the service are stutters. `RoutedAsShown` and `SentToInstanceInUse` (of
the step that sends the RPC, for the SubConn it is sent to) follow from `CInv`, which is the balancer's `IInv`, the types of the new variables and
`ViewTaken`: the instances shown last are the balancer's response, and a picker
that is not an errPicker was made from them. `NothingWithheld` proves
`WaitsForNews`, the safety half of `RpcSent`: by `RpcInv`, an RPC that has used the
last picker and waits has no choice in it, or a notice of one of its SubConns is
still to come; such a notice is never one that `UpdateSubConnState` ignores,
since the SubConn is ready. Of an RPC whose `Pick` failed there is nothing to
prove without fairness: it waits for the ticker.

**Channel.** `ChannelRefinesResolver` and `ChannelRefinesClient`: every behaviour
of the real pair is one of `Resolver` and one of `Client` (and so of `Balancer`),
so that what was shown of each holds there. The first needs the types only. For the
second the resolver must never go back to an older version, nor show one before
it has found it: that is the resolver's own invariant, `RInv`, about the version
the channel has. It is that of `ResolverProofs` and one conjunct more; it is
stated and proved again because this prover cannot use a theorem of an
instantiated module. `QuietRouted` joins the two: `RInv` says that the version
shown is the latest, `RoutedRight` that it is the one routed to, and
`ShownMeansPicker` that there is a picker. `QuietTruthful` adds the balancer's
`NewsComes`: the instances routed to are those connected in fact, but for the ones
of which a notice waits.

**Call.** All four invariants of run `call`. Assumption: `NIL` is none of the
answers. `IInv` joins them with four groups of facts: what each place of the
RPC in the client implies (`Places`: nothing is reported before the end, the
copy of the options is theirs or the zero value), and in the server
(`Serving`); that the caller's two headers come together (`Headers`); and what
picker and limiter have seen (`Sources`). That the options survive the URL is
the lemma `RoundTrip`. `NamespaceKnown` says where `NamespaceDefaulted`, which
run `call_namespace` refutes, holds: in a channel whose namespace is set.

**Endpoints.** All five invariants of run `endpoints`, for any finite number of
endpoints. The heart is that the counter bounds the holders (`Counted`) and
what holders were given is alive (`HeldIsAlive`); each needs the other, since
only a counter that reaches zero destroys. It is a bound, not an equality:
failed calls count as well. `DialsTogether` and `DialsHold` carry the context
over to dials that use another dial's; `Exact` says when the bound is an
equality, which is what `NoLeak` needs, together with `MadeInv`: the SDK's
contexts are the current one and the destroyed ones. The refinement of
`SharedContext` needs all of it: `Counted` where a release must not destroy,
`Exact` where it must, `HeldIsAlive` where a context is taken. It is proved as
the run states it (`LastOneDestroys`) and as an implication
(`SharedContextRefined`); `PromiseKept` says of `SharedContext` itself that it is
worth implementing. `BuiltResolverAlive`: what run `endpoints_stale` refutes
holds for disciplined users.

Each of the five runs that end in a counterexample thus has a theorem beside
it: the run shows that the words of the code are wrong, the theorem under which
condition they are right.

Only model-checked: liveness under fairness (out of TLAPS' reach), of which
`KnownWhenTold`, `IdleIsTold`, `NothingWithheld`, `WatcherGoesOn` and
`SomebodyStops` prove the part that is safety; and the violations, which are counterexamples.

## 4. Not modelled

- The logger; examples, tests and generated protobuf code.
- polaris-go and gRPC themselves, which appear as their contracts: routers and
  load balancers may choose any instance, a lookup answers from the cache
  that notified, quota is granted or refused at will.
- The global configuration (`PolarisConfig`, `setPolarisConfig`), which is read
  only when a context is made, and `NewResolver` with a context of the user's.
- Streams: the limiter passes them on, and the picker treats them as RPCs;
  `DstMetadata`, which only travels in the lookup; raw gRPC options; server
  options that assign one field each which is handed on (names, host, port,
  TTL, token, metadata).
- Wall clock time: a ticker, a delay or a deadline may end at any moment.

What could come next: several servers that register the same service and the
consumers that see them, which needs a model of the naming server that this
repository does not contain.
