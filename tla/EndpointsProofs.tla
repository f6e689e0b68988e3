---------------------------- MODULE EndpointsProofs ----------------------------
(***************************************************************************)
(* Proofs about Endpoints, for any finite number of endpoints and any      *)
(* contexts: the safety properties, by one inductive invariant.            *)
(***************************************************************************)
EXTENDS Endpoints, FiniteSetTheorems, TLAPS

\* What the place and the books of an endpoint say of each other.
Books ==
  /\ \A e \in owes : pc[e] \notin {"idle", "acquire"}
  /\ \A e \in Endpoint : got[e] # NIL => e \in owes
  /\ \A d \in Dial : pc[d] \in {"store", "stored"} => d \in owes
  /\ \A e \in owes \ Dial : ctx[e] = {got[e]}

\* The counter counts every holder, and what they hold is not destroyed.
Counted == disciplined => Cardinality(Holding) <= ctxRef
HeldIsAlive == disciplined => \A e \in Holding : got[e] \notin destroyed

\* A dial took the context c.
OfDial(c) == \E d \in Dial \cap owes : got[d] = c

\* Dials are released together, after all of them; until then whatever they
\* use is held by one of them.
DialsTogether ==
  disciplined /\ (\E d \in Dial : pc[d] = "released") => \A d \in Dial : pc[d] \in Over

DialsHold ==
  /\ builderCtx \in Context => OfDial(builderCtx)
  /\ \A d \in Dial : \A c \in ctx[d] \cap Context : OfDial(c)

\* Without failures and users' contexts the counter is exact.
Exact ==
  disciplined /\ ~ UserSet /\ (\A e \in owes : got[e] # NIL) =>
    /\ ctxRef = Cardinality(Holding)
    /\ polarisContext = NIL <=> ctxRef = 0

\* And every context of the SDK is the current one or was destroyed.
MadeInv ==
  /\ UserContext \subseteq made
  /\ ~ UserSet => made = UserContext \cup destroyed \cup ({polarisContext} \ {NIL})

IInv ==
  /\ TypeOK /\ GlobalIsAlive /\ Books /\ Counted /\ HeldIsAlive
  /\ DialsTogether /\ DialsHold /\ Exact /\ MadeInv

-----------------------------------------------------------------------------
(* The number of holders.                                                   *)

LEMMA HoldingFinite ==
  ASSUME TypeOK
  PROVE  IsFiniteSet(Holding) /\ Cardinality(Holding) \in Nat
<1>1. Holding \subseteq Endpoint
  BY DEF Holding, TypeOK
<1> QED
  BY <1>1, FiniteAssumption, FS_Subset, FS_CardinalityType

LEMMA OneMore ==
  ASSUME TypeOK, NEW e \in Endpoint, Holding' = Holding \cup {e}, e \notin Holding
  PROVE  Cardinality(Holding') = Cardinality(Holding) + 1
BY HoldingFinite, FS_AddElement

LEMMA OneLess ==
  ASSUME TypeOK, NEW e \in Endpoint, Holding' = Holding \ {e}, e \in Holding
  PROVE  Cardinality(Holding') = Cardinality(Holding) - 1
BY HoldingFinite, FS_RemoveElement

-----------------------------------------------------------------------------
(* The kinds of steps.                                                      *)

\* Steps that leave the shared context, and who took it, alone.
LEMMA LocalInv ==
  ASSUME IInv, TypeOK', NEW e \in Endpoint,
         UNCHANGED <<disciplined, global, got, owes>>,
         \A x \in Endpoint \ {e} : pc'[x] = pc[x],
         pc'[e] \notin {"idle", "acquire"} \/ e \notin owes,
         pc[e] # "released", pc'[e] # "released",
         e \in Dial /\ pc'[e] \in {"store", "stored"} => e \in owes,
         e \in Dial /\ pc'[e] \notin Over =>
           ~ disciplined \/ \A d \in Dial : pc[d] # "released",
         \A x \in owes \ Dial : ctx'[x] = ctx[x],
         builderCtx' \in Context => OfDial(builderCtx'),
         \A d \in Dial : \A c \in ctx'[d] \cap Context : OfDial(c)
  PROVE  IInv'
<1>1. Holding' = Holding
  BY DEF Holding, IInv, TypeOK
<1>2. UNCHANGED <<ctxRef, polarisContext, made, destroyed>>
  BY DEF global
<1>3. GlobalIsAlive' /\ Counted' /\ HeldIsAlive' /\ MadeInv' /\ Exact'
  BY <1>1, <1>2 DEF IInv, GlobalIsAlive, Counted, HeldIsAlive, MadeInv, Exact, UserSet
<1>4. Books'
  BY <1>2 DEF IInv, Books, TypeOK, Endpoint
<1>5. DialsTogether'
  <2> SUFFICES ASSUME disciplined, NEW r \in Dial, pc'[r] = "released", NEW d \in Dial
               PROVE  pc'[d] \in Over
    BY DEF DialsTogether
  <2>1. r # e /\ pc[r] = "released"
    BY DEF Endpoint
  <2>2. pc[d] \in Over
    BY <2>1 DEF IInv, DialsTogether
  <2> QED
    BY <2>1, <2>2 DEF Endpoint
<1>6. DialsHold'
  BY DEF DialsHold, OfDial
<1> QED
  BY <1>3, <1>4, <1>5, <1>6 DEF IInv

\* Steps in which e takes the context: PolarisContext returned c.
LEMMA TakeInv ==
  ASSUME IInv, TypeOK', NEW e \in Endpoint, NEW c \in Context \cup {NIL},
         PolarisContext(c),
         UNCHANGED <<disciplined, builderCtx>>,
         e \notin owes, owes' = owes \cup {e},
         got' = [got EXCEPT ![e] = c],
         \A x \in Endpoint \ {e} : pc'[x] = pc[x],
         pc'[e] \notin {"idle", "acquire", "released"}, pc[e] # "released",
         e \in Dial /\ pc'[e] \notin Over =>
           ~ disciplined \/ \A d \in Dial : pc[d] # "released",
         e \notin Dial => ctx'[e] = {c},
         \A x \in Endpoint \ {e} : ctx'[x] = ctx[x],
         e \in Dial => ctx'[e] = ctx[e]
  PROVE  IInv'
<1>1. /\ TypeOK /\ GlobalIsAlive /\ Books
  BY DEF IInv
<1>0. /\ owes \subseteq Endpoint /\ ctxRef \in Int
      /\ got \in [Endpoint -> Context \cup {NIL}]
      /\ polarisContext \in Context \cup {NIL}
  BY <1>1 DEF TypeOK
<1>2. got'[e] = c /\ \A x \in Endpoint \ {e} : got'[x] = got[x]
  BY <1>0
<1>3. Holding' = Holding \cup {e} /\ e \notin Holding
  BY <1>0, <1>1 DEF Holding
<1>4. Cardinality(Holding') = Cardinality(Holding) + 1 /\ Cardinality(Holding) \in Nat
  BY <1>1, <1>3, OneMore, HoldingFinite
<1>5. ctxRef' = ctxRef + 1 /\ destroyed' = destroyed /\ destroyed \subseteq made
  BY <1>1 DEF PolarisContext, TypeOK
<1>6. c \notin destroyed /\ polarisContext' = c /\ made \subseteq made'
  BY <1>1, KindAssumption DEF PolarisContext, GlobalIsAlive, TypeOK
<1>7. GlobalIsAlive'
  BY <1>5, <1>6 DEF GlobalIsAlive
<1>8. Books'
  <2>1. \A x \in owes' : pc'[x] \notin {"idle", "acquire"}
    BY <1>0, <1>1 DEF Books
  <2>2. \A x \in Endpoint : got'[x] # NIL => x \in owes'
    BY <1>1, <1>2 DEF Books
  <2>3. \A d \in Dial : pc'[d] \in {"store", "stored"} => d \in owes'
    BY <1>1 DEF Books, Endpoint
  <2>4. \A x \in owes' \ Dial : ctx'[x] = {got'[x]}
    BY <1>0, <1>1, <1>2 DEF Books
  <2> QED
    BY <2>1, <2>2, <2>3, <2>4 DEF Books
<1>9. Counted'
  BY <1>0, <1>4, <1>5 DEF IInv, Counted
<1>10. HeldIsAlive'
  BY <1>0, <1>2, <1>3, <1>5, <1>6 DEF IInv, HeldIsAlive, Holding
<1>11. DialsTogether'
  <2> SUFFICES ASSUME disciplined, NEW r \in Dial, pc'[r] = "released", NEW d \in Dial
               PROVE  pc'[d] \in Over
    BY DEF DialsTogether
  <2>1. r # e /\ pc[r] = "released"
    BY DEF Endpoint
  <2>2. pc[d] \in Over
    BY <2>1 DEF IInv, DialsTogether
  <2> QED
    BY <2>1, <2>2 DEF Endpoint
<1>12. DialsHold'
  <2>1. \A x : OfDial(x) => OfDial(x)'
    BY <1>0, <1>2 DEF OfDial
  <2>2. \A d \in Dial : ctx'[d] = ctx[d]
    BY DEF Endpoint
  <2> QED
    BY <2>1, <2>2 DEF IInv, DialsHold
<1>20. UserSet => UserSet'
  <2>1. polarisContext \in UserContext => polarisContext' = polarisContext
    BY KindAssumption DEF PolarisContext
  <2> QED
    BY <2>1, <1>5 DEF UserSet
<1>13. Exact'
  <2> SUFFICES ASSUME disciplined, ~ UserSet', \A x \in owes' : got'[x] # NIL
               PROVE  /\ ctxRef' = Cardinality(Holding')
                      /\ polarisContext' = NIL <=> ctxRef' = 0
    BY DEF Exact
  <2>1. c # NIL
    BY <1>2
  <2>2. ~ UserSet
    BY <1>20
  <2>3. \A x \in owes : got[x] # NIL
    BY <1>0, <1>2
  <2>4. ctxRef = Cardinality(Holding)
    BY <2>2, <2>3 DEF IInv, Exact
  <2> QED
    BY <1>4, <1>5, <1>6, <2>1, <2>4
<1>14. MadeInv'
  <2>1. UserContext \subseteq made'
    BY <1>6 DEF IInv, MadeInv
  <2>2. ASSUME ~ UserSet'
        PROVE  made' = UserContext \cup destroyed' \cup ({polarisContext'} \ {NIL})
    <3>1. ~ UserSet
      BY <2>2, <1>20
    <3>2. made = UserContext \cup destroyed \cup ({polarisContext} \ {NIL})
      BY <3>1 DEF IInv, MadeInv
    <3>3. CASE polarisContext # NIL
      BY <3>2, <3>3, <1>5 DEF PolarisContext
    <3>4. CASE polarisContext = NIL
      BY <3>2, <3>4, <1>5, KindAssumption DEF PolarisContext
    <3> QED
      BY <3>3, <3>4
  <2> QED
    BY <2>1, <2>2 DEF MadeInv
<1> QED
  BY <1>7, <1>8, <1>9, <1>10, <1>11, <1>12, <1>13, <1>14 DEF IInv

\* Options that make a user's context the shared one.
LEMMA SetInv ==
  ASSUME IInv, TypeOK', NEW c \in UserContext, SetPolarisContext(c),
         UNCHANGED <<disciplined, builderCtx, pc, got, owes>>,
         \A x \in Dial \cup owes : ctx'[x] = ctx[x]
  PROVE  IInv'
<1>1. Holding' = Holding /\ ctxRef' = ctxRef /\ UNCHANGED <<made, destroyed>>
  BY DEF Holding, SetPolarisContext
<1>2. UserSet' /\ GlobalIsAlive'
  BY DEF SetPolarisContext, UserSet, GlobalIsAlive
<1>3. Counted' /\ HeldIsAlive' /\ DialsTogether' /\ Exact' /\ MadeInv'
  BY <1>1, <1>2 DEF IInv, Counted, HeldIsAlive, DialsTogether, Exact, MadeInv
<1>4. Books' /\ DialsHold'
  BY DEF IInv, Books, DialsHold, OfDial
<1> QED
  BY <1>2, <1>3, <1>4 DEF IInv

\* The end of an endpoint.
LEMMA ReleaseInv ==
  ASSUME IInv, TypeOK', NEW e \in Endpoint, Release(e)
  PROVE  IInv'
<1>0. ctxRef \in Int
  BY DEF IInv, TypeOK
<1>1. /\ TypeOK /\ GlobalIsAlive /\ Books
      /\ pc[e] = "closed" /\ pc' = [pc EXCEPT ![e] = "released"]
      /\ UNCHANGED <<disciplined, builderCtx, got, ctx, owes, options>>
      /\ MayRelease(e) /\ ClosePolarisContext
  BY DEF IInv, Release
<1>2. pc'[e] = "released" /\ \A x \in Endpoint \ {e} : pc'[x] = pc[x]
  BY <1>1 DEF TypeOK
<1>3. owes \subseteq Endpoint /\ destroyed \subseteq made
  BY <1>1 DEF TypeOK
<1>4. Holding' = Holding \ {e}
  BY <1>1, <1>2, <1>3 DEF Holding
<1>5. ASSUME disciplined
      PROVE  Cardinality(Holding') = Cardinality(Holding) - 1
  <2>1. e \in Holding
    BY <1>1, <1>5 DEF MayRelease, Holding
  <2> QED
    BY <1>1, <1>4, <2>1, OneLess
<1>6. /\ Cardinality(Holding) \in Nat /\ Cardinality(Holding') \in Nat
      /\ Cardinality(Holding') = 0 => Holding' = {}
  <2>1. IsFiniteSet(Holding) /\ Cardinality(Holding) \in Nat
    BY <1>1, HoldingFinite
  <2>2. IsFiniteSet(Holding')
    BY <2>1, <1>4, FS_Subset
  <2> QED
    BY <2>1, <2>2, FS_CardinalityType, FS_EmptySet
<1>7. made' = made
  BY <1>1 DEF ClosePolarisContext, global
<1>8. GlobalIsAlive'
  BY <1>1, <1>3, KindAssumption, <1>7 DEF GlobalIsAlive, ClosePolarisContext, global, TypeOK
<1>9. Books'
  BY <1>1, <1>2, <1>3 DEF Books, Endpoint
<1>10. Counted'
  BY <1>0, <1>1, <1>5, <1>6 DEF IInv, Counted, ClosePolarisContext, global
<1>11. HeldIsAlive'
  <2> SUFFICES ASSUME disciplined, NEW x \in Holding' PROVE got[x] \notin destroyed'
    BY <1>1 DEF HeldIsAlive
  <2>1. got[x] \notin destroyed
    BY <1>1, <1>4 DEF IInv, HeldIsAlive
  <2>2. destroyed' = destroyed
    <3>1. Cardinality(Holding') # 0
      BY <1>6
    <3>2. ctxRef' # 0
      BY <1>0, <1>1, <1>6, <1>10, <3>1 DEF Counted
    <3> QED
      BY <1>1, <3>2 DEF ClosePolarisContext, global
  <2> QED
    BY <2>1, <2>2
<1>12. DialsTogether'
  <2> SUFFICES ASSUME disciplined, NEW r \in Dial, pc'[r] = "released", NEW d \in Dial
               PROVE  pc'[d] \in Over
    BY <1>1 DEF DialsTogether
  <2>1. \A x \in Dial : pc[x] \in Over
    BY <1>1, <1>2 DEF MayRelease, IInv, DialsTogether, Endpoint
  <2> QED
    BY <2>1, <1>2 DEF Over, Endpoint
<1>13. DialsHold'
  BY <1>1 DEF IInv, DialsHold, OfDial
<1>14. UserSet => UserSet'
  BY <1>1 DEF UserSet, ClosePolarisContext, global
<1>15. Exact'
  <2> SUFFICES ASSUME disciplined, ~ UserSet', \A x \in owes : got[x] # NIL
               PROVE  /\ ctxRef' = Cardinality(Holding')
                      /\ polarisContext' = NIL <=> ctxRef' = 0
    BY <1>1 DEF Exact
  <2>1. ctxRef = Cardinality(Holding) /\ (polarisContext = NIL <=> ctxRef = 0)
    BY <1>14 DEF IInv, Exact
  <2>2. ctxRef # 0 /\ polarisContext # NIL
    BY <2>1, <1>5, <1>6
  <2> QED
    BY <2>1, <2>2, <1>0, <1>1, <1>5, <1>6 DEF ClosePolarisContext
<1>16. MadeInv'
  BY <1>1, <1>7, <1>14 DEF IInv, MadeInv, ClosePolarisContext, global
<1> QED
  BY <1>8, <1>9, <1>10, <1>11, <1>12, <1>13, <1>15, <1>16 DEF IInv

-----------------------------------------------------------------------------
(* Types.                                                                   *)

LEMMA TypeOptions ==
  ASSUME NEW o \in ServerOptions
  PROVE  /\ SetDefault(o) \in ServerOptions
         /\ SetDefault(o).delayRegisterEnable # NIL
         /\ SetDefault(o).gracefulStopEnable # NIL
         /\ SetDefault(o).delayRegisterEnable \in BOOLEAN
         /\ SetDefault(o).delayRegisterEnable => SetDefault(o).delayRegisterStrategy # NIL
<1> DEFINE graceful == Default(o.gracefulStopEnable, TRUE)
           delay    == Default(o.delayRegisterEnable, FALSE)
           strategy == IF delay THEN Default(o.delayRegisterStrategy, "noop")
                                ELSE o.delayRegisterStrategy
<1>1. graceful \in BOOLEAN /\ delay \in BOOLEAN
  BY DEF Default, ServerOptions
<1>2. /\ strategy \in {NIL, "wait", "noop"}
      /\ delay => strategy \in {"wait", "noop"}
  BY <1>1 DEF Default, ServerOptions
<1> HIDE DEF graceful, delay, strategy
<1>3. SetDefault(o) = [delayRegisterEnable |-> delay, delayRegisterStrategy |-> strategy,
                       gracefulStopEnable |-> graceful]
  BY DEF SetDefault, graceful, delay, strategy
<1> QED
  BY <1>1, <1>2, <1>3, NilAssumption DEF ServerOptions

LEMMA TypeInit == Init => TypeOK
<1> SUFFICES ASSUME Init PROVE TypeOK
  OBVIOUS
<1>1. /\ disciplined \in BOOLEAN /\ ctxRef \in Int /\ polarisContext \in made \cup {NIL}
      /\ made \in SUBSET Context /\ UserContext \subseteq made /\ destroyed \in SUBSET made
      /\ builderCtx \in Context \cup {NIL, torn} /\ owes \in SUBSET Endpoint
  BY KindAssumption DEF Init
<1>2. /\ got \in [Endpoint -> Context \cup {NIL}]
      /\ ctx \in [Endpoint -> SUBSET (Context \cup {NIL, torn})]
      /\ \A e \in Endpoint : pc[e] = "idle"
  BY DEF Init
<1>3. \A d \in Dial : pc[d] \notin {"store", "stored"}
  BY <1>2 DEF Endpoint
<1>4. options \in [Server -> {NoOptions}]
  BY DEF Init
<1>5. NoOptions \in ServerOptions
  BY DEF NoOptions, ServerOptions
<1>6. pc \in [Endpoint -> Place]
  BY DEF Init, Place
<1> QED
  BY <1>1, <1>2, <1>3, <1>4, <1>5, <1>6 DEF TypeOK

\* What PolarisContext does to the types.
LEMMA TypeTake ==
  ASSUME TypeOK, NEW c \in Context \cup {NIL}, PolarisContext(c)
  PROVE  /\ ctxRef' \in Int /\ made' \in SUBSET Context /\ UserContext \subseteq made'
         /\ destroyed' \in SUBSET made' /\ polarisContext' \in made' \cup {NIL}
BY DEF TypeOK, PolarisContext

LEMMA TypeStep == TypeOK /\ [Next]_vars => TypeOK'
<1> SUFFICES ASSUME TypeOK, [Next]_vars PROVE TypeOK'
  OBVIOUS
<1> USE KindAssumption DEF TypeOK, Place
<1>1. ASSUME NEW d \in Dial, Build(d) PROVE TypeOK'
  <2>1. d \in Endpoint
    BY DEF Endpoint
  <2>2. CASE WithPolarisContext(d)
    BY <2>2 DEF WithPolarisContext, SetPolarisContext
  <2>3. CASE CheckBuilder(d)
    BY <2>1, <2>3 DEF CheckBuilder, global
  <2>4. CASE Acquire(d)
    BY <2>1, <2>4 DEF Acquire, PolarisContext
  <2>5. CASE StoreType(d)
    BY <2>1, <2>5 DEF StoreType, global
  <2>6. CASE StorePointer(d)
    BY <2>1, <2>6 DEF StorePointer, global
  <2>7. CASE UseInBalancer(d)
    BY <2>1, <2>7 DEF UseInBalancer, global
  <2>8. CASE UseInResolver(d)
    BY <2>1, <2>8 DEF UseInResolver, global
  <2> QED
    BY <1>1, <2>2, <2>3, <2>4, <2>5, <2>6, <2>7, <2>8 DEF Build
<1>2. ASSUME NEW s \in Server, ServerOption(s) PROVE TypeOK'
  <2>1. s \in Endpoint /\ options[s] \in ServerOptions
    BY DEF Endpoint
  <2>2. ASSUME NEW o \in ServerOptions, Assign(s, o) PROVE TypeOK'
    BY <2>1, <2>2 DEF Assign, global
  <2>3. CASE \E strategy \in {NIL, "wait"} : WithDelayRegisterEnable(s, strategy)
    <3>1. PICK strategy \in {NIL, "wait"} : WithDelayRegisterEnable(s, strategy)
      BY <2>3
    <3>2. [options[s] EXCEPT !.delayRegisterEnable = TRUE,
                             !.delayRegisterStrategy = strategy] \in ServerOptions
      BY <2>1 DEF ServerOptions
    <3> QED
      BY <3>1, <3>2, <2>2 DEF WithDelayRegisterEnable
  <2>4. CASE WithGracefulStopEnable(s)
    <3>1. [options[s] EXCEPT !.gracefulStopEnable = TRUE] \in ServerOptions
      BY <2>1 DEF ServerOptions
    <3> QED
      BY <3>1, <2>4, <2>2 DEF WithGracefulStopEnable
  <2>5. CASE WithGracefulStopDisable(s)
    <3>1. [options[s] EXCEPT !.gracefulStopEnable = FALSE] \in ServerOptions
      BY <2>1 DEF ServerOptions
    <3> QED
      BY <3>1, <2>5, <2>2 DEF WithGracefulStopDisable
  <2>6. CASE WithSDKContext(s)
    <3>1. PICK c \in UserContext :
            SetPolarisContext(c) /\ ctx' = [ctx EXCEPT ![s] = {c}]
      BY <2>6 DEF WithSDKContext
    <3>2. ctx' \in [Endpoint -> SUBSET (Context \cup {NIL, torn})]
      BY <3>1
    <3>3. ctxRef' \in Int /\ UNCHANGED <<made, destroyed>> /\ polarisContext' \in made
      BY <3>1 DEF SetPolarisContext
    <3> QED
      BY <3>2, <3>3, <2>6 DEF WithSDKContext
  <2> QED
    BY <1>2, <2>3, <2>4, <2>5, <2>6 DEF ServerOption
<1>3. ASSUME NEW e \in Endpoint \ Dial, TakeContext(e)
      PROVE  /\ ctxRef' \in Int /\ made' \in SUBSET Context /\ UserContext \subseteq made'
             /\ destroyed' \in SUBSET made' /\ polarisContext' \in made' \cup {NIL}
             /\ got' \in [Endpoint -> Context \cup {NIL}]
             /\ ctx' \in [Endpoint -> SUBSET (Context \cup {NIL, torn})]
             /\ owes' \in SUBSET Endpoint
             /\ \A d \in Dial : got'[d] = got[d]
  <2>1. PICK c \in Context \cup {NIL} :
          /\ PolarisContext(c)
          /\ got' = [got EXCEPT ![e] = c] /\ ctx' = [ctx EXCEPT ![e] = {c}]
          /\ owes' = owes \cup {e}
    BY <1>3 DEF TakeContext
  <2>2. /\ got' \in [Endpoint -> Context \cup {NIL}]
        /\ ctx' \in [Endpoint -> SUBSET (Context \cup {NIL, torn})]
        /\ owes' \in SUBSET Endpoint
        /\ \A d \in Dial : got'[d] = got[d]
    BY <2>1 DEF Endpoint
  <2> HIDE DEF TypeOK
  <2> QED
    BY <2>1, <2>2, TypeTake
<1>4. ASSUME NEW s \in Server, InitResource(s) PROVE TypeOK'
  <2>1. SetDefault(options[s]) \in ServerOptions
    <3>1. options[s] \in ServerOptions
      OBVIOUS
    <3> QED
      BY <3>1, TypeOptions
  <2>2. options' \in [Server -> ServerOptions]
    BY <1>4, <2>1 DEF InitResource
  <2>3. s \in Endpoint \ Dial
    BY DEF Endpoint
  <2>4. /\ pc' = [pc EXCEPT ![s] = pc'[s]] /\ pc'[s] \in {"delay", "open"}
    BY <1>4, <2>3 DEF InitResource
  <2>5. /\ pc' \in [Endpoint -> Place]
        /\ \A d \in Dial : pc'[d] = pc[d]
    BY <2>3, <2>4 DEF Endpoint
  <2>6. CASE ctx[s] = {}
    BY <1>3, <1>4, <2>2, <2>3, <2>5, <2>6 DEF InitResource
  <2>7. CASE ctx[s] # {}
    BY <1>4, <2>2, <2>3, <2>5, <2>7 DEF InitResource, global
  <2> QED
    BY <2>6, <2>7
<1>5. ASSUME NEW s \in Server, DelayEnds(s) PROVE TypeOK'
  BY <1>5 DEF DelayEnds, global, Endpoint
<1>6. ASSUME NEW l \in Limiter, NewRateLimitInterceptor(l) PROVE TypeOK'
  <2>1. l \in Endpoint \ Dial
    BY DEF Endpoint
  <2>2. /\ pc' \in [Endpoint -> Place]
        /\ \A d \in Dial : pc'[d] = pc[d]
    BY <1>6, <2>1 DEF NewRateLimitInterceptor, Endpoint
  <2> QED
    BY <1>3, <1>6, <2>1, <2>2 DEF NewRateLimitInterceptor
<1>7. ASSUME NEW e \in Endpoint, Close(e) PROVE TypeOK'
  BY <1>7 DEF Close, global
<1>8. ASSUME NEW e \in Endpoint, Release(e) PROVE TypeOK'
  <2>1. /\ ctxRef' \in Int /\ made' = made
        /\ destroyed' \in SUBSET made /\ polarisContext' \in made \cup {NIL}
    BY <1>8 DEF Release, ClosePolarisContext, global
  <2> QED
    BY <1>8, <2>1 DEF Release
<1>9. CASE UNCHANGED vars
  BY <1>9 DEF vars
<1> QED
  BY <1>1, <1>2, <1>4, <1>5, <1>6, <1>7, <1>8, <1>9 DEF Next

-----------------------------------------------------------------------------
(* The invariant is inductive.                                              *)

LEMMA InvInit == Init => IInv
<1> SUFFICES ASSUME Init PROVE IInv
  OBVIOUS
<1>1. TypeOK
  BY TypeInit
<1>2. Holding = {}
  BY DEF Init, Holding
<1>3. Cardinality(Holding) = 0 /\ ctxRef = 0
  BY <1>2, FS_EmptySet DEF Init
<1>4. Counted /\ HeldIsAlive /\ Exact
  BY <1>2, <1>3 DEF Counted, HeldIsAlive, Exact, Init
<1>5. GlobalIsAlive /\ MadeInv
  BY DEF Init, GlobalIsAlive, MadeInv
<1>6. \A e \in Endpoint : pc[e] = "idle" /\ got[e] = NIL /\ ctx[e] = {}
  BY DEF Init
<1>7. Books /\ DialsTogether
  BY <1>6 DEF Init, Books, DialsTogether, Endpoint
<1>8. DialsHold
  BY <1>6, KindAssumption DEF Init, DialsHold, Endpoint
<1> QED
  BY <1>1, <1>4, <1>5, <1>7, <1>8 DEF IInv

LEMMA BuildInv ==
  ASSUME IInv, TypeOK', NEW d \in Dial, Build(d)
  PROVE  IInv'
<1>1. TypeOK /\ Books /\ DialsTogether /\ DialsHold
  BY DEF IInv
<1>2. /\ d \in Endpoint /\ owes \subseteq Endpoint /\ \A x \in Dial : x \in Endpoint
      /\ pc \in [Endpoint -> Place]
      /\ got \in [Endpoint -> Context \cup {NIL}]
      /\ ctx \in [Endpoint -> SUBSET (Context \cup {NIL, torn})]
      /\ \A x \in Dial : pc[x] \in {"store", "stored"} => got[x] \in Context
  BY <1>1 DEF TypeOK, Endpoint
\* A dial that is under way has seen no release of a dial.
<1>3. pc[d] \notin Over => ~ disciplined \/ \A x \in Dial : pc[x] # "released"
  BY <1>1 DEF DialsTogether
<1>4. CASE WithPolarisContext(d)
  <2>1. PICK c \in UserContext : SetPolarisContext(c)
    BY <1>4 DEF WithPolarisContext
  <2> QED
    BY <1>4, <2>1, SetInv DEF WithPolarisContext
<1>5. CASE CheckBuilder(d)
  <2>1. /\ pc[d] = "idle" /\ MayDial /\ pc'[d] \in {"acquire", "use"}
        /\ \A x \in Endpoint \ {d} : pc'[x] = pc[x]
        /\ UNCHANGED <<disciplined, global, builderCtx, got, ctx, owes>>
    BY <1>2, <1>5 DEF CheckBuilder
  <2>2. d \notin owes
    BY <1>1, <2>1 DEF Books
  <2>3. ~ disciplined \/ \A x \in Dial : pc[x] # "released"
    BY <2>1 DEF MayDial
  <2> QED
    BY <1>1, <1>2, <2>1, <2>2, <2>3, LocalInv DEF DialsHold
<1>6. CASE Acquire(d)
  <2>1. PICK c \in Context \cup {NIL} :
          /\ PolarisContext(c)
          /\ got' = [got EXCEPT ![d] = c]
          /\ pc' = [pc EXCEPT ![d] = IF c = NIL THEN "failed" ELSE "store"]
    BY <1>6 DEF Acquire
  <2>2. /\ pc[d] = "acquire" /\ pc'[d] \in {"failed", "store"}
        /\ \A x \in Endpoint \ {d} : pc'[x] = pc[x]
    BY <1>2, <1>6, <2>1 DEF Acquire
  <2>3. d \notin owes
    BY <1>1, <2>2 DEF Books
  <2>4. ~ disciplined \/ \A x \in Dial : pc[x] # "released"
    BY <1>3, <2>2 DEF Over
  <2> QED
    BY <1>2, <1>6, <2>1, <2>2, <2>3, <2>4, TakeInv DEF Acquire
<1>7. CASE StoreType(d)
  <2>1. /\ pc[d] = "store" /\ pc'[d] = "stored"
        /\ \A x \in Endpoint \ {d} : pc'[x] = pc[x]
        /\ UNCHANGED <<disciplined, global, got, ctx, owes>>
        /\ builderCtx' \in {torn, builderCtx}
    BY <1>2, <1>7 DEF StoreType
  <2>2. d \in owes /\ (~ disciplined \/ \A x \in Dial : pc[x] # "released")
    BY <1>1, <1>3, <2>1 DEF Books, Over
  <2>3. builderCtx' \in Context => OfDial(builderCtx')
    BY <1>1, <2>1, KindAssumption DEF torn, DialsHold
  <2> QED
    BY <1>1, <1>2, <2>1, <2>2, <2>3, LocalInv DEF DialsHold
<1>8. CASE StorePointer(d)
  <2>1. /\ pc[d] = "stored" /\ pc'[d] = "use"
        /\ \A x \in Endpoint \ {d} : pc'[x] = pc[x]
        /\ UNCHANGED <<disciplined, global, got, ctx, owes>>
        /\ builderCtx' = got[d]
    BY <1>2, <1>8 DEF StorePointer
  <2>2. d \in owes /\ (~ disciplined \/ \A x \in Dial : pc[x] # "released")
    BY <1>1, <1>3, <2>1 DEF Books, Over
  <2>3. OfDial(builderCtx')
    BY <2>1, <2>2 DEF OfDial
  <2> QED
    BY <1>1, <1>2, <2>1, <2>2, <2>3, LocalInv DEF DialsHold
<1>9. ASSUME UseInBalancer(d) \/ UseInResolver(d) PROVE IInv'
  <2>1. /\ pc[d] \in {"use", "consumer"} /\ pc'[d] \in {"consumer", "open"}
        /\ \A x \in Endpoint \ {d} : pc'[x] = pc[x]
        /\ UNCHANGED <<disciplined, global, builderCtx, got, owes>>
        /\ ctx'[d] \subseteq ctx[d] \cup {builderCtx}
        /\ \A x \in Endpoint \ {d} : ctx'[x] = ctx[x]
    BY <1>2, <1>9 DEF UseInBalancer, UseInResolver
  <2>2. ~ disciplined \/ \A x \in Dial : pc[x] # "released"
    BY <1>3, <2>1 DEF Over
  <2>3. \A x \in Dial : \A c \in ctx'[x] \cap Context : OfDial(c)
    BY <1>1, <1>2, <2>1 DEF DialsHold
  <2>4. \A x \in owes \ Dial : ctx'[x] = ctx[x]
    BY <1>2, <2>1
  <2> QED
    BY <1>1, <1>2, <2>1, <2>2, <2>3, <2>4, LocalInv DEF DialsHold
<1> QED
  BY <1>4, <1>5, <1>6, <1>7, <1>8, <1>9 DEF Build

LEMMA ServerInv ==
  ASSUME IInv, TypeOK', NEW s \in Server,
         ServerOption(s) \/ InitResource(s) \/ DelayEnds(s)
  PROVE  IInv'
<1>1. TypeOK /\ Books /\ DialsTogether /\ DialsHold
  BY DEF IInv
<1>2. /\ s \in Endpoint /\ s \notin Dial /\ owes \subseteq Endpoint
      /\ \A x \in Dial : x \in Endpoint \ {s}
      /\ pc \in [Endpoint -> Place]
      /\ got \in [Endpoint -> Context \cup {NIL}]
      /\ ctx \in [Endpoint -> SUBSET (Context \cup {NIL, torn})]
  BY <1>1, KindAssumption DEF TypeOK, Endpoint
<1>3. pc[s] = "idle" => s \notin owes
  BY <1>1 DEF Books
<1>4. ASSUME NEW o, Assign(s, o) PROVE IInv'
  <2>1. /\ pc[s] = "idle" /\ UNCHANGED <<disciplined, global, builderCtx, pc, got, ctx, owes>>
    BY <1>4 DEF Assign
  <2> QED
    BY <1>1, <1>2, <1>3, <2>1, LocalInv DEF DialsHold
<1>5. CASE WithSDKContext(s)
  <2>1. PICK c \in UserContext : SetPolarisContext(c) /\ ctx' = [ctx EXCEPT ![s] = {c}]
    BY <1>5 DEF WithSDKContext
  <2>2. \A x \in Dial \cup owes : ctx'[x] = ctx[x]
    BY <1>2, <1>3, <1>5, <2>1 DEF WithSDKContext
  <2> QED
    BY <1>5, <2>1, <2>2, SetInv DEF WithSDKContext
<1>6. CASE ServerOption(s)
  BY <1>4, <1>5, <1>6 DEF ServerOption, WithDelayRegisterEnable, WithGracefulStopEnable,
                         WithGracefulStopDisable
<1>7. CASE InitResource(s)
  <2>1. /\ pc[s] = "idle" /\ pc'[s] \in {"delay", "open"} /\ s \notin owes
        /\ \A x \in Endpoint \ {s} : pc'[x] = pc[x]
        /\ UNCHANGED <<disciplined, builderCtx>>
    BY <1>2, <1>3, <1>7 DEF InitResource
  <2>2. CASE ctx[s] = {}
    <3>1. PICK c \in Context \cup {NIL} :
            /\ PolarisContext(c)
            /\ got' = [got EXCEPT ![s] = c] /\ ctx' = [ctx EXCEPT ![s] = {c}]
            /\ owes' = owes \cup {s}
      BY <1>7, <2>2 DEF InitResource, TakeContext
    <3>2. ctx'[s] = {c} /\ \A x \in Endpoint \ {s} : ctx'[x] = ctx[x]
      BY <1>2, <3>1
    <3> QED
      BY <1>2, <2>1, <3>1, <3>2, TakeInv
  <2>3. CASE ctx[s] # {}
    <3>1. UNCHANGED <<global, got, ctx, owes>>
      BY <1>7, <2>3 DEF InitResource
    <3> QED
      BY <1>1, <1>2, <2>1, <3>1, LocalInv DEF DialsHold
  <2> QED
    BY <2>2, <2>3
<1>8. CASE DelayEnds(s)
  <2>1. /\ pc[s] = "delay" /\ pc'[s] = "open"
        /\ \A x \in Endpoint \ {s} : pc'[x] = pc[x]
        /\ UNCHANGED <<disciplined, global, builderCtx, got, ctx, owes>>
    BY <1>2, <1>8 DEF DelayEnds
  <2> QED
    BY <1>1, <1>2, <2>1, LocalInv DEF DialsHold
<1> QED
  BY <1>6, <1>7, <1>8

LEMMA LimiterInv ==
  ASSUME IInv, TypeOK', NEW l \in Limiter, NewRateLimitInterceptor(l)
  PROVE  IInv'
<1>1. TypeOK /\ Books
  BY DEF IInv
<1>2. /\ l \in Endpoint /\ l \notin Dial /\ owes \subseteq Endpoint
      /\ pc \in [Endpoint -> Place]
      /\ ctx \in [Endpoint -> SUBSET (Context \cup {NIL, torn})]
  BY <1>1, KindAssumption DEF TypeOK, Endpoint
<1>3. PICK c \in Context \cup {NIL} :
        /\ PolarisContext(c)
        /\ got' = [got EXCEPT ![l] = c] /\ ctx' = [ctx EXCEPT ![l] = {c}]
        /\ owes' = owes \cup {l}
  BY DEF NewRateLimitInterceptor, TakeContext
<1>4. /\ pc[l] = "idle" /\ pc'[l] = "open" /\ l \notin owes
      /\ \A x \in Endpoint \ {l} : pc'[x] = pc[x]
      /\ UNCHANGED <<disciplined, builderCtx>>
  BY <1>1, <1>2 DEF NewRateLimitInterceptor, Books
<1>5. ctx'[l] = {c} /\ \A x \in Endpoint \ {l} : ctx'[x] = ctx[x]
  BY <1>2, <1>3
<1> QED
  BY <1>2, <1>3, <1>4, <1>5, TakeInv

LEMMA CloseInv ==
  ASSUME IInv, TypeOK', NEW e \in Endpoint, Close(e)
  PROVE  IInv'
<1>1. TypeOK /\ DialsHold
  BY DEF IInv
<1>2. /\ pc[e] = "open" /\ pc'[e] = "closed" /\ \A x \in Endpoint \ {e} : pc'[x] = pc[x]
      /\ UNCHANGED <<disciplined, global, builderCtx, got, ctx, owes>>
  BY <1>1 DEF Close, TypeOK
<1> QED
  BY <1>1, <1>2, LocalInv DEF DialsHold, Over

LEMMA InvStep == IInv /\ [Next]_vars => IInv'
<1> SUFFICES ASSUME IInv, [Next]_vars PROVE IInv'
  OBVIOUS
<1>1. TypeOK'
  BY TypeStep DEF IInv
<1>2. CASE UNCHANGED vars
  BY <1>1, <1>2 DEF vars, IInv, GlobalIsAlive, Books, Counted, HeldIsAlive, Holding,
                   DialsTogether, DialsHold, OfDial, Exact, MadeInv, UserSet
<1>3. CASE Next
  BY <1>1, <1>3, BuildInv, ServerInv, LimiterInv, CloseInv, ReleaseInv DEF Next
<1> QED
  BY <1>2, <1>3

LEMMA SpecInv == Spec => []IInv
BY InvInit, InvStep, PTL DEF Spec

-----------------------------------------------------------------------------
(* The theorems.                                                            *)

\* Variables hold what they should, and a dial that stores a context in the
\* builder has one (resolver.go, Build).
THEOREM EndpointsTypeCorrect == Spec => []TypeOK
<1>1. IInv => TypeOK
  BY DEF IInv
<1> QED
  BY <1>1, SpecInv, PTL

\* PolarisContext (global.go) never hands out a destroyed context, whatever
\* the users of the package do.
THEOREM GlobalAlive == Spec => []GlobalIsAlive
<1>1. IInv => GlobalIsAlive
  BY DEF IInv
<1> QED
  BY <1>1, SpecInv, PTL

LEMMA InvKeepsAlive == IInv => SharedIsAlive
<1> SUFFICES ASSUME IInv, disciplined, NEW e \in Endpoint, Sharing(e),
                    NEW c \in ctx[e] \cap destroyed
             PROVE  FALSE
  BY DEF SharedIsAlive
<1>1. TypeOK /\ Books /\ HeldIsAlive /\ DialsTogether /\ DialsHold
  BY DEF IInv
<1>2. destroyed \subseteq Context /\ owes \subseteq Endpoint
  BY <1>1 DEF TypeOK
<1>3. CASE e \in Dial
  <2>1. \A d \in Dial : pc[d] # "released"
    BY <1>1, <1>3 DEF DialsTogether, Sharing, Over
  <2>2. PICK d \in Dial \cap owes : got[d] = c
    BY <1>1, <1>2, <1>3 DEF DialsHold, OfDial
  <2> QED
    BY <1>1, <2>1, <2>2 DEF HeldIsAlive, Holding
<1>4. CASE e \notin Dial
  <2>1. e \in Holding /\ ctx[e] = {got[e]}
    BY <1>1, <1>4 DEF Sharing, Holding, Books
  <2> QED
    BY <1>1, <2>1 DEF HeldIsAlive
<1> QED
  BY <1>3, <1>4

\* Any number of dials, servers and limiters that close in a disciplined
\* order keep the shared context to the end.
THEOREM SharedAlive == Spec => []SharedIsAlive
BY InvKeepsAlive, SpecInv, PTL

\* ClosePolarisContext (global.go) destroys what PolarisContext made, once
\* all have closed.
THEOREM NothingLeaks == Spec => []NoLeak
<1>1. IInv => NoLeak
  <2> SUFFICES ASSUME IInv, disciplined, ~ UserSet,
                      \A e \in owes : pc[e] = "released" /\ got[e] # NIL
               PROVE  destroyed = made \ UserContext
    BY DEF NoLeak
  <2>1. Cardinality(Holding) = 0
    <3>1. Holding = {}
      BY DEF Holding
    <3> QED
      BY <3>1, FS_EmptySet
  <2>2. polarisContext = NIL
    BY <2>1 DEF IInv, Exact
  <2>3. made = UserContext \cup destroyed
    BY <2>2 DEF IInv, MadeInv
  <2>4. destroyed \cap UserContext = {}
    BY DEF UserSet
  <2> QED
    BY <2>3, <2>4
<1> QED
  BY <1>1, SpecInv, PTL

\* After initResource (server.go), which ignores that setDefault failed, a
\* server has what it dereferences, whatever was set before, in whatever order.
THEOREM DefaultsAreComplete == Spec => []DefaultsComplete
<1>1. Init => DefaultsComplete
  BY DEF Init, DefaultsComplete, Endpoint
<1>2. TypeOK /\ DefaultsComplete /\ [Next]_vars => DefaultsComplete'
  <2> SUFFICES ASSUME TypeOK, DefaultsComplete, [Next]_vars, NEW s \in Server,
                      pc'[s] # "idle"
               PROVE  /\ options'[s].delayRegisterEnable # NIL
                      /\ options'[s].gracefulStopEnable # NIL
                      /\ options'[s].delayRegisterEnable =>
                           options'[s].delayRegisterStrategy # NIL
    BY DEF DefaultsComplete
  <2>1. CASE InitResource(s)
    <3>1. options[s] \in ServerOptions
      BY DEF TypeOK
    <3>2. options'[s] = SetDefault(options[s])
      BY <2>1 DEF InitResource, TypeOK
    <3> QED
      BY <3>1, <3>2, TypeOptions
  <2>2. CASE ~ InitResource(s)
    <3>0. s \in Endpoint /\ s \notin Dial \cup Limiter
      BY KindAssumption DEF Endpoint
    <3>1. ASSUME NEW e \in Endpoint, e # s, NEW v, pc' = [pc EXCEPT ![e] = v]
          PROVE  pc'[s] = pc[s]
      BY <3>0, <3>1 DEF TypeOK
    <3>2. CASE options' = options
      <4>1. pc[s] # "idle"
        <5>1. CASE \E d \in Dial : Build(d)
          BY <3>0, <3>1, <5>1 DEF Build, WithPolarisContext, CheckBuilder, Acquire,
                StoreType, StorePointer, UseInBalancer, UseInResolver, Endpoint
        <5>2. CASE \E x \in Server : ServerOption(x) \/ DelayEnds(x)
          BY <3>0, <3>1, <5>2 DEF ServerOption, Assign, WithDelayRegisterEnable,
                WithGracefulStopEnable, WithGracefulStopDisable, WithSDKContext,
                DelayEnds, Endpoint
        <5>3. CASE \E x \in Server : InitResource(x)
          BY <2>2, <3>0, <3>1, <5>3 DEF InitResource, Endpoint
        <5>4. CASE \E l \in Limiter : NewRateLimitInterceptor(l)
          BY <3>0, <3>1, <5>4 DEF NewRateLimitInterceptor, Endpoint
        <5>5. CASE \E e \in Endpoint : Close(e) \/ Release(e)
          BY <3>0, <3>1, <5>5 DEF Close, Release
        <5>6. CASE UNCHANGED vars
          BY <5>6 DEF vars
        <5> QED
          BY <5>1, <5>2, <5>3, <5>4, <5>5, <5>6 DEF Next
      <4> QED
        BY <3>2, <4>1 DEF DefaultsComplete
    <3>3. CASE \E x \in Server : x # s /\ InitResource(x)
      <4>1. PICK x \in Server : x # s /\ InitResource(x)
        BY <3>3
      <4>2. pc'[s] = pc[s] /\ options'[s] = options[s]
        BY <3>0, <4>1 DEF InitResource, TypeOK
      <4> QED
        BY <4>2 DEF DefaultsComplete
    <3>4. CASE \E x \in Server : \E o : Assign(x, o)
      <4>1. pc' = pc
        BY <3>4 DEF Assign
      <4>2. options'[s] = options[s]
        BY <3>4, <4>1 DEF Assign, TypeOK
      <4> QED
        BY <4>1, <4>2 DEF DefaultsComplete
    <3>5. \/ options' = options
          \/ \E x \in Server : InitResource(x)
          \/ \E x \in Server : \E o : Assign(x, o)
      BY DEF Next, Build, WithPolarisContext, CheckBuilder, Acquire, StoreType,
             StorePointer, UseInBalancer, UseInResolver, ServerOption,
             WithDelayRegisterEnable, WithGracefulStopEnable, WithGracefulStopDisable,
             WithSDKContext, DelayEnds,
             NewRateLimitInterceptor, Close, Release, vars
    <3> QED
      BY <2>2, <3>2, <3>3, <3>4, <3>5
  <2> QED
    BY <2>1, <2>2
<1> QED
  BY <1>1, <1>2, EndpointsTypeCorrect, PTL DEF Spec

-----------------------------------------------------------------------------
(* The shared context: the steps of the endpoints are steps of SharedContext. *)

SharedView == <<Holding, got, polarisContext, destroyed, Inexact>>

\* Steps that neither take the context nor give it up.
LEMMA StutterSimulates ==
  ASSUME IInv, NEW e \in Endpoint,
         UNCHANGED <<global, got, owes>>,
         \A x \in Endpoint \ {e} : pc'[x] = pc[x],
         pc[e] # "released", pc'[e] # "released"
  PROVE  [Shared!Next]_SharedView
<1>1. Holding' = Holding
  BY DEF Holding, IInv, TypeOK
<1>2. UNCHANGED SharedView
  BY <1>1 DEF SharedView, Inexact, UserSet, global
<1> QED
  BY <1>2

LEMMA TakeSimulates ==
  ASSUME IInv, NEW e \in Endpoint, NEW c \in Context \cup {NIL},
         PolarisContext(c),
         e \notin owes, owes' = owes \cup {e},
         got' = [got EXCEPT ![e] = c],
         \A x \in Endpoint \ {e} : pc'[x] = pc[x],
         pc'[e] # "released"
  PROVE  [Shared!Next]_SharedView
<1>1. /\ owes \subseteq Endpoint /\ UserContext \subseteq made /\ destroyed \subseteq made
      /\ made \subseteq Context /\ GlobalIsAlive
      /\ got \in [Endpoint -> Context \cup {NIL}]
  BY DEF IInv, TypeOK
<1>2. e \notin Holding /\ Holding' = Holding \cup {e}
  BY <1>1 DEF Holding
<1>3. c = polarisContext \/ (polarisContext = NIL /\ c \notin destroyed)
  BY <1>1, KindAssumption DEF PolarisContext
<1>4. polarisContext' = c /\ destroyed' = destroyed
  BY DEF PolarisContext
\* The context is not the user's now if it was not before.
<1>5. UserSet' <=> UserSet
  BY <1>1, <1>4, KindAssumption DEF PolarisContext, UserSet
<1>6. (\E x \in owes' : got'[x] = NIL) <=> (\E x \in owes : got[x] = NIL) \/ c = NIL
  BY <1>1
<1>7. Inexact' = (Inexact \/ c = NIL)
  BY <1>5, <1>6 DEF Inexact
<1>8. Shared!Take(e)
  BY <1>2, <1>3, <1>4, <1>7 DEF Shared!Take
<1> QED
  BY <1>8 DEF Shared!Next

LEMMA ReplaceSimulates ==
  ASSUME IInv, NEW c \in UserContext, SetPolarisContext(c), UNCHANGED <<pc, got, owes>>
  PROVE  [Shared!Next]_SharedView
<1>1. Holding' = Holding /\ Inexact' = TRUE
  BY DEF Holding, SetPolarisContext, Inexact, UserSet
<1>2. Shared!Replace
  BY <1>1, KindAssumption DEF SetPolarisContext, Shared!Replace
<1> QED
  BY <1>2 DEF Shared!Next

LEMMA ReleaseSimulates ==
  ASSUME IInv, disciplined, NEW e \in Endpoint, Release(e)
  PROVE  [Shared!Next]_SharedView
<1>1. /\ TypeOK /\ pc[e] = "closed" /\ pc' = [pc EXCEPT ![e] = "released"]
      /\ UNCHANGED <<got, owes>> /\ e \in owes /\ ClosePolarisContext
  BY DEF IInv, Release, MayRelease
<1>2. e \in Holding /\ Holding' = Holding \ {e}
  BY <1>1 DEF Holding, TypeOK
<1>3. /\ IsFiniteSet(Holding') /\ Cardinality(Holding) \in Nat
      /\ Cardinality(Holding') = Cardinality(Holding) - 1 /\ ctxRef \in Int
  BY <1>1, <1>2, OneLess, HoldingFinite, FS_Subset DEF TypeOK
<1>4. Cardinality(Holding') \in Nat /\ (Cardinality(Holding') = 0 <=> Holding' = {})
  BY <1>3, FS_CardinalityType, FS_EmptySet
<1>5. Cardinality(Holding) <= ctxRef
  BY DEF IInv, Counted
<1>6. Inexact' <=> Inexact
  <2>1. UserSet' <=> UserSet
    BY <1>1, KindAssumption DEF UserSet, ClosePolarisContext, global
  <2> QED
    BY <1>1, <2>1 DEF Inexact
<1>7. ~ Inexact => ctxRef = Cardinality(Holding) /\ polarisContext # NIL
  BY <1>2, <1>3, <1>4 DEF IInv, Exact, Inexact
<1>8. CASE polarisContext # NIL /\ ctxRef = 1
  <2>1. polarisContext' = NIL /\ destroyed' = destroyed \cup {polarisContext}
    BY <1>1, <1>8 DEF ClosePolarisContext
  <2>2. Holding' = {}
    BY <1>3, <1>4, <1>5, <1>8
  <2>3. Shared!GiveUp(e)
    BY <1>1, <1>2, <1>6, <1>8, <2>1, <2>2 DEF Shared!GiveUp, Shared!Destroy, Inexact
  <2> QED
    BY <2>3 DEF Shared!Next
<1>9. CASE polarisContext = NIL \/ ctxRef # 1
  <2>1. UNCHANGED <<polarisContext, destroyed>>
    BY <1>1, <1>3, <1>9 DEF ClosePolarisContext, global
  <2>2. Holding' # {} \/ Inexact
    BY <1>3, <1>4, <1>7, <1>9
  <2>3. Shared!GiveUp(e)
    BY <1>1, <1>2, <1>6, <2>1, <2>2 DEF Shared!GiveUp, Inexact
  <2> QED
    BY <2>3 DEF Shared!Next
<1> QED
  BY <1>8, <1>9

LEMMA BuildSimulates ==
  ASSUME IInv, NEW d \in Dial, Build(d)
  PROVE  [Shared!Next]_SharedView
<1>1. TypeOK /\ Books
  BY DEF IInv
<1>2. d \in Endpoint
  BY DEF Endpoint
<1>3. CASE WithPolarisContext(d)
  BY <1>3, ReplaceSimulates DEF WithPolarisContext
<1>4. CASE Acquire(d)
  <2>1. PICK c \in Context \cup {NIL} :
          /\ PolarisContext(c)
          /\ got' = [got EXCEPT ![d] = c]
          /\ pc' = [pc EXCEPT ![d] = IF c = NIL THEN "failed" ELSE "store"]
    BY <1>4 DEF Acquire
  <2>2. /\ d \notin owes /\ owes' = owes \cup {d} /\ pc'[d] # "released"
        /\ \A x \in Endpoint \ {d} : pc'[x] = pc[x]
    BY <1>1, <1>2, <1>4, <2>1 DEF Acquire, Books, TypeOK
  <2> QED
    BY <1>2, <2>1, <2>2, TakeSimulates
<1>5. CASE CheckBuilder(d) \/ StoreType(d) \/ StorePointer(d)
            \/ UseInBalancer(d) \/ UseInResolver(d)
  <2>1. /\ pc[d] # "released" /\ pc'[d] # "released"
        /\ \A x \in Endpoint \ {d} : pc'[x] = pc[x]
        /\ UNCHANGED <<global, got, owes>>
    BY <1>1, <1>2, <1>5 DEF CheckBuilder, StoreType, StorePointer, UseInBalancer,
                           UseInResolver, TypeOK
  <2> QED
    BY <1>2, <2>1, StutterSimulates
<1> QED
  BY <1>3, <1>4, <1>5 DEF Build

LEMMA ServerSimulates ==
  ASSUME IInv, NEW s \in Server, ServerOption(s) \/ InitResource(s) \/ DelayEnds(s)
  PROVE  [Shared!Next]_SharedView
<1>1. TypeOK /\ Books
  BY DEF IInv
<1>2. s \in Endpoint
  BY DEF Endpoint
<1>3. ASSUME NEW o, Assign(s, o) PROVE [Shared!Next]_SharedView
  BY <1>2, <1>3, StutterSimulates DEF Assign
<1>4. CASE WithSDKContext(s)
  BY <1>4, ReplaceSimulates DEF WithSDKContext
<1>5. CASE ServerOption(s)
  BY <1>3, <1>4, <1>5 DEF ServerOption, WithDelayRegisterEnable, WithGracefulStopEnable,
                         WithGracefulStopDisable
<1>6. CASE InitResource(s)
  <2>1. /\ pc[s] = "idle" /\ pc'[s] # "released" /\ s \notin owes
        /\ \A x \in Endpoint \ {s} : pc'[x] = pc[x]
    BY <1>1, <1>2, <1>6 DEF InitResource, TypeOK, Books
  <2>2. CASE ctx[s] = {}
    <3>1. PICK c \in Context \cup {NIL} :
            PolarisContext(c) /\ got' = [got EXCEPT ![s] = c] /\ owes' = owes \cup {s}
      BY <1>6, <2>2 DEF InitResource, TakeContext
    <3> QED
      BY <1>2, <2>1, <3>1, TakeSimulates
  <2>3. CASE ctx[s] # {}
    <3>1. UNCHANGED <<global, got, owes>>
      BY <1>6, <2>3 DEF InitResource
    <3> QED
      BY <1>2, <2>1, <3>1, StutterSimulates
  <2> QED
    BY <2>2, <2>3
<1>7. CASE DelayEnds(s)
  <2>1. /\ pc[s] # "released" /\ pc'[s] # "released"
        /\ \A x \in Endpoint \ {s} : pc'[x] = pc[x]
        /\ UNCHANGED <<global, got, owes>>
    BY <1>1, <1>2, <1>7 DEF DelayEnds, TypeOK
  <2> QED
    BY <1>2, <2>1, StutterSimulates
<1> QED
  BY <1>5, <1>6, <1>7

LEMMA LimiterSimulates ==
  ASSUME IInv, NEW l \in Limiter, NewRateLimitInterceptor(l)
  PROVE  [Shared!Next]_SharedView
<1>1. PICK c \in Context \cup {NIL} :
        PolarisContext(c) /\ got' = [got EXCEPT ![l] = c] /\ owes' = owes \cup {l}
  BY DEF NewRateLimitInterceptor, TakeContext
<1>2. /\ l \in Endpoint /\ l \notin owes /\ pc'[l] # "released"
      /\ \A x \in Endpoint \ {l} : pc'[x] = pc[x]
  BY DEF NewRateLimitInterceptor, IInv, TypeOK, Books, Endpoint
<1> QED
  BY <1>1, <1>2, TakeSimulates

LEMMA CloseSimulates ==
  ASSUME IInv, NEW e \in Endpoint, Close(e)
  PROVE  [Shared!Next]_SharedView
<1>1. /\ pc[e] # "released" /\ pc'[e] # "released"
      /\ \A x \in Endpoint \ {e} : pc'[x] = pc[x]
      /\ UNCHANGED <<global, got, owes>>
  BY DEF Close, IInv, TypeOK
<1> QED
  BY <1>1, StutterSimulates

LEMMA StepSimulates ==
  ASSUME IInv, disciplined, [Next]_vars
  PROVE  [Shared!Next]_SharedView
<1>1. CASE UNCHANGED vars
  BY <1>1 DEF vars, SharedView, Holding, Inexact, UserSet
<1> QED
  BY <1>1, BuildSimulates, ServerSimulates, LimiterSimulates, CloseSimulates,
     ReleaseSimulates DEF Next

\* SharedContext's own invariant.
SharedInv ==
  /\ Shared!Kept
  /\ Holding \subseteq Endpoint /\ got \in [Endpoint -> Context \cup {NIL}]
  /\ polarisContext \notin destroyed /\ NIL \notin destroyed

LEMMA InitSimulates == Init => Shared!Init
BY KindAssumption DEF Init, Shared!Init, Holding, Inexact, UserSet

LEMMA StaysDisciplined == [Next]_vars => (disciplined => disciplined')
BY DEF Next, Build, WithPolarisContext, CheckBuilder, Acquire, StoreType,
       StorePointer, UseInBalancer, UseInResolver, ServerOption, Assign,
       WithDelayRegisterEnable, WithGracefulStopEnable, WithGracefulStopDisable, WithSDKContext, InitResource,
       DelayEnds, NewRateLimitInterceptor, Close, Release, vars

\* PolarisContext and ClosePolarisContext (global.go), as servers, limiters and
\* the resolver builder call them for disciplined users, are a table of holders.
THEOREM LastOneDestroys == Spec => ImplementsSharedContext
<1>1. IInv /\ [Next]_vars => [disciplined => Shared!Next]_SharedView
  BY StepSimulates
<1> QED
  BY <1>1, InitSimulates, SpecInv, PTL DEF Spec, ImplementsSharedContext, SharedView

\* The same as a refinement: if users are disciplined, the behaviour is one of
\* SharedContext.
THEOREM SharedContextRefined == Spec /\ disciplined => Shared!Spec
<1>1. IInv /\ disciplined /\ [Next]_vars => [Shared!Next]_SharedView
  BY StepSimulates
<1> QED
  BY <1>1, StaysDisciplined, InitSimulates, SpecInv, PTL DEF Spec, Shared!Spec, SharedView

\* What SharedContext promises, by itself: whatever a holder was given lives
\* until the last holder has given up, and no longer if the books are exact.
THEOREM PromiseKept == Shared!Spec => []Shared!Kept
<1>1. Shared!Init => SharedInv
  BY DEF Shared!Init, SharedInv, Shared!Kept
<1>2. SharedInv /\ [Shared!Next]_SharedView => SharedInv'
  <2> SUFFICES ASSUME SharedInv, [Shared!Next]_SharedView PROVE SharedInv'
    OBVIOUS
  <2>1. ASSUME NEW e \in Endpoint, Shared!Take(e) PROVE SharedInv'
    <3>1. PICK c \in Context \cup {NIL} :
            /\ c = polarisContext \/ (polarisContext = NIL /\ c \notin destroyed)
            /\ got' = [got EXCEPT ![e] = c]
            /\ polarisContext' = c /\ Inexact' = (Inexact \/ c = NIL)
      BY <2>1 DEF Shared!Take
    <3>2. c \notin destroyed /\ destroyed' = destroyed
      BY <2>1, <3>1 DEF SharedInv, Shared!Take
    <3>3. Holding' = Holding \cup {e}
      BY <2>1 DEF Shared!Take
    <3> QED
      BY <3>1, <3>2, <3>3 DEF SharedInv, Shared!Kept
  <2>2. ASSUME NEW e \in Endpoint, Shared!GiveUp(e) PROVE SharedInv'
    BY <2>2 DEF Shared!GiveUp, Shared!Destroy, SharedInv, Shared!Kept
  <2>3. CASE Shared!Replace
    BY <2>3 DEF Shared!Replace, SharedInv, Shared!Kept
  <2>4. CASE UNCHANGED SharedView
    BY <2>4 DEF SharedView, SharedInv, Shared!Kept
  <2> QED
    BY <2>1, <2>2, <2>3, <2>4 DEF Shared!Next
<1>3. SharedInv => Shared!Kept
  BY DEF SharedInv
<1> QED
  BY <1>1, <1>2, <1>3, PTL DEF Shared!Spec, SharedView

\* Build (resolver.go) does not make do with a destroyed context for
\* disciplined users, though the builder caches a context it holds no
\* reference to.  (For others it may: the run of MCEndpointsStale.cfg.)
THEOREM BuiltResolverAlive ==
  Spec => [][ disciplined => \A d \in Dial : pc[d] = "idle" /\ pc'[d] = "use"
                => builderCtx \notin destroyed ]_vars
<1> DEFINE Built ==
      disciplined => \A d \in Dial : pc[d] = "idle" /\ pc'[d] = "use"
                       => builderCtx \notin destroyed
<1>1. IInv /\ [Next]_vars => [Built]_vars
  <2> SUFFICES ASSUME IInv, Next, disciplined, NEW d \in Dial,
                      pc[d] = "idle", pc'[d] = "use", builderCtx \in destroyed
               PROVE  FALSE
    OBVIOUS
  <2>1. /\ d \in Endpoint /\ d \notin Server \cup Limiter
        /\ pc \in [Endpoint -> Place] /\ destroyed \subseteq Context
        /\ owes \subseteq Endpoint
    BY KindAssumption DEF IInv, TypeOK, Endpoint
  <2>2. MayDial
    <3>1. ASSUME NEW e \in Endpoint, e # d, NEW v, pc' = [pc EXCEPT ![e] = v]
          PROVE  FALSE
      BY <2>1, <3>1
    <3>2. pc' # pc
      OBVIOUS
    <3>3. CASE \E x \in Dial : Build(x)
      BY <2>1, <3>1, <3>2, <3>3 DEF Build, WithPolarisContext, CheckBuilder, Acquire,
            StoreType, StorePointer, UseInBalancer, UseInResolver, Endpoint
    <3>4. CASE \E s \in Server : ServerOption(s) \/ InitResource(s) \/ DelayEnds(s)
      BY <2>1, <3>1, <3>2, <3>4 DEF ServerOption, Assign, WithDelayRegisterEnable,
            WithGracefulStopEnable, WithGracefulStopDisable, WithSDKContext,
            InitResource, DelayEnds, Endpoint
    <3>5. CASE \E l \in Limiter : NewRateLimitInterceptor(l)
      BY <2>1, <3>1, <3>5 DEF NewRateLimitInterceptor, Endpoint
    <3>6. CASE \E e \in Endpoint : Close(e) \/ Release(e)
      BY <2>1, <3>1, <3>6 DEF Close, Release
    <3> QED
      BY <3>3, <3>4, <3>5, <3>6 DEF Next
  <2>3. PICK x \in Dial \cap owes : got[x] = builderCtx
    BY <2>1 DEF IInv, DialsHold, OfDial
  <2> QED
    BY <2>1, <2>2, <2>3 DEF MayDial, IInv, HeldIsAlive, Holding
<1> QED
  BY <1>1, SpecInv, PTL DEF Spec

================================================================================
