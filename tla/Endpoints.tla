------------------------------- MODULE Endpoints -------------------------------
(***************************************************************************)
(* The endpoints of a process and the SDK context they share (global.go):  *)
(* client connections (resolver.go, Build), servers (server_option.go and  *)
(* server.go, initResource) and rate limit interceptors (ratelimit.go).    *)
(* Goroutines build and close them at any time.  PolarisContext and        *)
(* ClosePolarisContext hold a mutex, so each is one step; the resolver     *)
(* builder caches the context for all dials without one.                   *)
(***************************************************************************)
EXTENDS Integers, FiniteSets

CONSTANTS
  Dial, Server, Limiter,  \* the endpoints, by kind
  Context,                \* SDK contexts that may ever exist
  UserContext,            \* those of them that the user makes
  NIL                     \* Go's nil

Endpoint == Dial \cup Server \cup Limiter

ASSUME FiniteAssumption == IsFiniteSet(Endpoint)
ASSUME KindAssumption ==
  /\ Dial \cap (Server \cup Limiter) = {} /\ Server \cap Limiter = {}
  /\ UserContext \subseteq Context /\ NIL \notin Context
  /\ "torn" \notin Context \cup {NIL}
ASSUME NilAssumption == NIL \notin BOOLEAN /\ NIL \notin {"wait", "noop"}

VARIABLES
  disciplined,     \* users: see MayRelease and MayDial
  ctxRef, polarisContext,
  made, destroyed, \* the SDK: contexts that were initialised, and destroyed
  builderCtx,      \* sdkCtx of the one resolverBuilder
  pc,              \* where each endpoint stands
  got,             \* what PolarisContext returned for it
  ctx,             \* the contexts it uses
  owes,            \* the endpoints for which PolarisContext was called
  options          \* serverOptions of each server

global == <<ctxRef, polarisContext, made, destroyed>>
vars == <<disciplined, ctxRef, polarisContext, made, destroyed, builderCtx, pc, got,
          ctx, owes, options>>

torn == "torn"   \* an interface value of which one word has been written

-----------------------------------------------------------------------------
(* global.go.                                                               *)

\* PolarisContext returns c, nil if InitContextByConfig fails.
\* Mutant: a context that is there already is returned without counting.
PolarisContextUncounted(c) ==
  \/ /\ polarisContext # NIL /\ c = polarisContext
     /\ UNCHANGED global
  \/ /\ polarisContext = NIL /\ c \in Context \ made
     /\ polarisContext' = c /\ made' = made \cup {c} /\ ctxRef' = ctxRef + 1
     /\ UNCHANGED destroyed
  \/ /\ polarisContext = NIL /\ c = NIL
     /\ ctxRef' = ctxRef + 1
     /\ UNCHANGED <<polarisContext, made, destroyed>>

PolarisContext(c) ==
  /\ ctxRef' = ctxRef + 1
  /\ \/ /\ polarisContext # NIL /\ c = polarisContext
        /\ UNCHANGED <<polarisContext, made>>
     \/ /\ polarisContext = NIL /\ c \in Context \ made
        /\ polarisContext' = c /\ made' = made \cup {c}
     \/ /\ polarisContext = NIL /\ c = NIL
        /\ UNCHANGED <<polarisContext, made>>
  /\ UNCHANGED destroyed

\* Mutant: the variable still refers to the context that was destroyed.
CloseAndKeep ==
  IF polarisContext = NIL THEN UNCHANGED global
  ELSE /\ ctxRef' = ctxRef - 1
       /\ destroyed' = IF ctxRef' = 0 THEN destroyed \cup {polarisContext} ELSE destroyed
       /\ UNCHANGED <<polarisContext, made>>

\* Mutant: the counter is tested before it is decreased.
CloseTestsFirst ==
  IF polarisContext = NIL THEN UNCHANGED global
  ELSE /\ ctxRef' = ctxRef - 1
       /\ IF ctxRef = 0
          THEN destroyed' = destroyed \cup {polarisContext} /\ polarisContext' = NIL
          ELSE UNCHANGED <<destroyed, polarisContext>>
       /\ UNCHANGED made

\* Mutant: destroyed one release too early.
CloseEarly ==
  IF polarisContext = NIL THEN UNCHANGED global
  ELSE /\ ctxRef' = ctxRef - 1
       /\ IF ctxRef' <= 1
          THEN destroyed' = destroyed \cup {polarisContext} /\ polarisContext' = NIL
          ELSE UNCHANGED <<destroyed, polarisContext>>
       /\ UNCHANGED made

ClosePolarisContext ==
  IF polarisContext = NIL THEN UNCHANGED global
  ELSE /\ ctxRef' = ctxRef - 1
       /\ IF ctxRef' = 0
          THEN destroyed' = destroyed \cup {polarisContext} /\ polarisContext' = NIL
          ELSE UNCHANGED <<destroyed, polarisContext>>
       /\ UNCHANGED made

\* The context is one the user made, and nobody has destroyed it.
SetPolarisContext(c) ==
  /\ c \in UserContext \ destroyed
  /\ polarisContext' = c
  /\ UNCHANGED <<ctxRef, made, destroyed>>

-----------------------------------------------------------------------------
(* Dialling: the option WithPolarisContext, then the builder's Build.       *)

\* Disciplined users dial no more once they have given up the dials' context.
MayDial == disciplined => \A d \in Dial : pc[d] # "released"

WithPolarisContext(d) ==
  /\ pc[d] = "idle" /\ MayDial
  /\ \E c \in UserContext : SetPolarisContext(c)
  /\ UNCHANGED <<disciplined, builderCtx, pc, got, ctx, owes, options>>

\* "if rb.sdkCtx == nil"
CheckBuilder(d) ==
  /\ pc[d] = "idle" /\ MayDial
  /\ pc' = [pc EXCEPT ![d] = IF builderCtx = NIL THEN "acquire" ELSE "use"]
  /\ UNCHANGED <<disciplined, global, builderCtx, got, ctx, owes, options>>

\* Mutant: the error is ignored, as setDefault's is.
AcquireUnchecked(d) ==
  /\ pc[d] = "acquire"
  /\ \E c \in Context \cup {NIL} :
       /\ PolarisContext(c)
       /\ got' = [got EXCEPT ![d] = c]
  /\ pc' = [pc EXCEPT ![d] = "store"]
  /\ owes' = owes \cup {d}
  /\ UNCHANGED <<disciplined, builderCtx, ctx, options>>

Acquire(d) ==
  /\ pc[d] = "acquire"
  /\ \E c \in Context \cup {NIL} :
       /\ PolarisContext(c)
       /\ got' = [got EXCEPT ![d] = c]
       /\ pc' = [pc EXCEPT ![d] = IF c = NIL THEN "failed" ELSE "store"]
  /\ owes' = owes \cup {d}
  /\ UNCHANGED <<disciplined, builderCtx, ctx, options>>

\* rb.sdkCtx = sdkCtx: the word of the type, then that of the pointer (a data
\* race; contexts have one type).
StoreType(d) ==
  /\ pc[d] = "store"
  /\ pc' = [pc EXCEPT ![d] = "stored"]
  /\ builderCtx' = IF builderCtx = NIL THEN torn ELSE builderCtx
  /\ UNCHANGED <<disciplined, global, got, ctx, owes, options>>

StorePointer(d) ==
  /\ pc[d] = "stored"
  /\ pc' = [pc EXCEPT ![d] = "use"]
  /\ builderCtx' = got[d]
  /\ UNCHANGED <<disciplined, global, got, ctx, owes, options>>

\* rb.sdkCtx is read twice: for the options, which bring it to the balancer and
\* its pickers, and then for the consumer of the resolver that Build returns.
UseInBalancer(d) ==
  /\ pc[d] = "use"
  /\ pc' = [pc EXCEPT ![d] = "consumer"]
  /\ ctx' = [ctx EXCEPT ![d] = {builderCtx}]
  /\ UNCHANGED <<disciplined, global, builderCtx, got, owes, options>>

UseInResolver(d) ==
  /\ pc[d] = "consumer"
  /\ pc' = [pc EXCEPT ![d] = "open"]
  /\ ctx' = [ctx EXCEPT ![d] = @ \cup {builderCtx}]
  /\ UNCHANGED <<disciplined, global, builderCtx, got, owes, options>>

-----------------------------------------------------------------------------
(* Servers: the options, setDefault, the delay.  The other options assign   *)
(* fields that nothing here depends on, or nothing; of a time to wait, or   *)
(* of none, Server.tla lets the deadline pass at any moment.                *)

ServerOptions ==
  [delayRegisterEnable : BOOLEAN \cup {NIL},
   delayRegisterStrategy : {NIL, "wait", "noop"},
   gracefulStopEnable : BOOLEAN \cup {NIL}]

NoOptions ==
  [delayRegisterEnable |-> NIL, delayRegisterStrategy |-> NIL,
   gracefulStopEnable |-> NIL]

Assign(s, o) ==
  /\ pc[s] = "idle"
  /\ options' = [options EXCEPT ![s] = o]
  /\ UNCHANGED <<disciplined, global, builderCtx, pc, got, ctx, owes>>

WithDelayRegisterEnable(s, strategy) ==
  Assign(s, [options[s] EXCEPT !.delayRegisterEnable = TRUE,
                               !.delayRegisterStrategy = strategy])

WithGracefulStopEnable(s) ==
  Assign(s, [options[s] EXCEPT !.gracefulStopEnable = TRUE])

WithGracefulStopDisable(s) ==
  Assign(s, [options[s] EXCEPT !.gracefulStopEnable = FALSE])

WithSDKContext(s) ==
  /\ pc[s] = "idle" /\ ctx[s] = {}
  /\ \E c \in UserContext :
       SetPolarisContext(c) /\ ctx' = [ctx EXCEPT ![s] = {c}]
  /\ UNCHANGED <<disciplined, builderCtx, pc, got, owes, options>>

ServerOption(s) ==
  \/ \E strategy \in {NIL, "wait"} : WithDelayRegisterEnable(s, strategy)
  \/ WithGracefulStopEnable(s) \/ WithGracefulStopDisable(s)
  \/ WithSDKContext(s)

Default(value, default) == IF value = NIL THEN default ELSE value

SetDefault(o) ==
  LET delay == Default(o.delayRegisterEnable, FALSE)
  IN  [delayRegisterEnable   |-> delay,
       delayRegisterStrategy |-> IF delay THEN Default(o.delayRegisterStrategy, "noop")
                                          ELSE o.delayRegisterStrategy,
       gracefulStopEnable    |-> Default(o.gracefulStopEnable, TRUE)]

\* The context of a server or a limiter; an error is ignored, and leaves nil.
TakeContext(e) ==
  \E c \in Context \cup {NIL} :
    /\ PolarisContext(c)
    /\ got' = [got EXCEPT ![e] = c] /\ ctx' = [ctx EXCEPT ![e] = {c}]
    /\ owes' = owes \cup {e}

\* Mutant: setDefault asks for the context first, and returns if there is none.
InitContextFirst(s) ==
  /\ pc[s] = "idle"
  /\ IF ctx[s] = {} THEN TakeContext(s) ELSE UNCHANGED <<global, got, ctx, owes>>
  /\ options' = [options EXCEPT ![s] = IF NIL \in ctx'[s] THEN @ ELSE SetDefault(@)]
  /\ pc' = [pc EXCEPT ![s] =
              IF options'[s].delayRegisterEnable = TRUE THEN "delay" ELSE "open"]
  /\ UNCHANGED <<disciplined, builderCtx>>

\* initResource up to the delay.
InitResource(s) ==
  /\ pc[s] = "idle"
  /\ options' = [options EXCEPT ![s] = SetDefault(@)]
  /\ pc' = [pc EXCEPT ![s] = IF options'[s].delayRegisterEnable THEN "delay" ELSE "open"]
  /\ IF ctx[s] = {} THEN TakeContext(s) ELSE UNCHANGED <<global, got, ctx, owes>>
  /\ UNCHANGED <<disciplined, builderCtx>>

\* The strategy allows it.
DelayEnds(s) ==
  /\ pc[s] = "delay"
  /\ pc' = [pc EXCEPT ![s] = "open"]
  /\ UNCHANGED <<disciplined, global, builderCtx, got, ctx, owes, options>>

NewRateLimitInterceptor(l) ==
  /\ pc[l] = "idle"
  /\ pc' = [pc EXCEPT ![l] = "open"]
  /\ TakeContext(l)
  /\ UNCHANGED <<disciplined, builderCtx, options>>

-----------------------------------------------------------------------------
(* The end of an endpoint: conn.Close or the server's Stop, and then, as in *)
(* examples/quickstart/consumer, ClosePolarisContext.                       *)

Close(e) ==
  /\ pc[e] = "open"
  /\ pc' = [pc EXCEPT ![e] = "closed"]
  /\ UNCHANGED <<disciplined, global, builderCtx, got, ctx, owes, options>>

Over == {"idle", "failed", "closed", "released"}

\* Disciplined users call it for what called PolarisContext only, and for a
\* dial, whose context others share, only after all the dials.
MayRelease(e) ==
  disciplined => e \in owes /\ (e \in Dial => \A d \in Dial : pc[d] \in Over)

Release(e) ==
  /\ pc[e] = "closed" /\ MayRelease(e)
  /\ pc' = [pc EXCEPT ![e] = "released"]
  /\ ClosePolarisContext
  /\ UNCHANGED <<disciplined, builderCtx, got, ctx, owes, options>>

-----------------------------------------------------------------------------
Init ==
  /\ disciplined \in BOOLEAN
  /\ ctxRef = 0 /\ polarisContext = NIL
  /\ made = UserContext /\ destroyed = {}
  /\ builderCtx = NIL
  /\ pc = [e \in Endpoint |-> "idle"]
  /\ got = [e \in Endpoint |-> NIL] /\ ctx = [e \in Endpoint |-> {}]
  /\ owes = {}
  /\ options = [s \in Server |-> NoOptions]

Build(d) ==
  \/ WithPolarisContext(d) \/ CheckBuilder(d) \/ Acquire(d)
  \/ StoreType(d) \/ StorePointer(d) \/ UseInBalancer(d) \/ UseInResolver(d)

Next ==
  \/ \E d \in Dial : Build(d)
  \/ \E s \in Server : ServerOption(s) \/ InitResource(s) \/ DelayEnds(s)
  \/ \E l \in Limiter : NewRateLimitInterceptor(l)
  \/ \E e \in Endpoint : Close(e) \/ Release(e)

Spec == Init /\ [][Next]_vars

-----------------------------------------------------------------------------
(* Properties.                                                              *)

Place == {"idle", "acquire", "store", "stored", "use", "consumer", "delay", "open",
          "failed", "closed", "released"}

TypeOK ==
  /\ disciplined \in BOOLEAN
  /\ ctxRef \in Int
  /\ made \in SUBSET Context /\ UserContext \subseteq made
  /\ destroyed \in SUBSET made /\ polarisContext \in made \cup {NIL}
  /\ builderCtx \in Context \cup {NIL, torn}
  /\ pc \in [Endpoint -> Place]
  /\ got \in [Endpoint -> Context \cup {NIL}]
  /\ ctx \in [Endpoint -> SUBSET (Context \cup {NIL, torn})]
  /\ owes \in SUBSET Endpoint
  /\ options \in [Server -> ServerOptions]
  /\ \A d \in Dial : pc[d] \in {"store", "stored"} => got[d] \in Context

\* PolarisContext never hands out a context that was destroyed, however often
\* and for whatever ClosePolarisContext is called.
GlobalIsAlive == polarisContext \notin destroyed

\* Endpoints that count on the shared context: built, and not closed yet.
Sharing(e) ==
  /\ pc[e] \in {"delay", "open"}
  /\ e \in Dial \/ e \in owes

\* The counter protects them: as long as users are disciplined, no context
\* that an endpoint uses is destroyed before the endpoint is closed, although
\* failed calls count, several builds may race, dials share the builder's
\* reference, a dial may use two contexts, and options replace the context
\* without a reference.
SharedIsAlive ==
  disciplined => \A e \in Endpoint : Sharing(e) => ctx[e] \cap destroyed = {}

\* A user's context is, or was, the shared one.
UserSet == polarisContext \in UserContext \/ destroyed \cap UserContext # {}

\* And it does not protect them for ever: when all that took the context have
\* given it up, the SDK's context is destroyed.  (Except that a failed call
\* leaves the counter too high, and a context that is replaced is forgotten.)
NoLeak ==
  /\ disciplined /\ ~ UserSet
  /\ \A e \in owes : pc[e] = "released" /\ got[e] # NIL
  => destroyed = made \ UserContext

\* The endpoints that took the context and have not given it up.
Holding == {e \in owes : pc[e] # "released"}

\* A call of PolarisContext has failed, or an option has replaced the context.
Inexact == UserSet \/ \E e \in owes : got[e] = NIL

Shared == INSTANCE SharedContext
  WITH holders <- Holding, has <- got, current <- polarisContext, inexact <- Inexact

\* One counter and two exported functions do what a table of holders would: with
\* disciplined users every call takes a live context, and a context is destroyed
\* by the last of its holders, never earlier, and not later unless a call failed
\* or the context was replaced.
ImplementsSharedContext ==
  Shared!Init /\
  [][disciplined => Shared!Next]_<<Holding, got, polarisContext, destroyed, Inexact>>

\* What a server dereferences is there, the two pointers and the strategy, also
\* when setDefault failed, whose error initResource ignores: the context, the
\* one thing that may be missing, is asked for last.
DefaultsComplete ==
  \A s \in Server : pc[s] # "idle" =>
    /\ options[s].delayRegisterEnable # NIL /\ options[s].gracefulStopEnable # NIL
    /\ options[s].delayRegisterEnable => options[s].delayRegisterStrategy # NIL

\* resolver.go:98 "build a new Resolver resolution service address for the
\* specified Target": Build does not make do with a context that was destroyed
\* before it began.
BuiltResolverResolves ==
  [][ \A d \in Dial : pc[d] = "idle" /\ pc'[d] = "use"
        => builderCtx \notin destroyed ]_vars

===============================================================================
