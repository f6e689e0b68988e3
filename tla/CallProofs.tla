------------------------------- MODULE CallProofs -------------------------------
(***************************************************************************)
(* Proofs about Call: the safety properties, for any set of instances.     *)
(***************************************************************************)
EXTENDS Call, TLAPS

\* The copy of a dial without options.
Bare == TargetToOptions([f \in {} |-> f])

\* What holds where the RPC stands in the client.
Places ==
  /\ pc = "options" => copy = NIL /\ picked = NIL /\ injects = FALSE
  /\ pc \notin {"options", "done"} => copy \in {options, Bare}
  /\ injects => copy = options
  /\ pc # "done" => reports = <<>> /\ answer = NIL
  /\ pc \notin {"sent", "done"} => server = "idle"
  /\ pc \in {"options", "open"} => quota.request = NIL
  /\ pc \in {"picked", "sent"} =>
       picked.instance \in Addr /\ (picked.breaker # {}) = copy.CircuitBreaker
  /\ pc = "sent" => at = picked.instance

\* What holds where it stands in the server.
Serving ==
  /\ server \notin {"ok", "error"} => handled = <<>>
  /\ server \in {"ok", "error"} => handled = <<at>>
  /\ server = "limited" => quota.request # NIL
  /\ answer \in {"limited", "ok", "error"} => server = answer

\* The two headers of the caller come together, and the channel's caller is in
\* them once it is known.
First(key) == md[key][1]

Headers ==
  /\ md[CallerServiceKey] # <<>> <=> md[CallerNamespaceKey] # <<>>
  /\ md[CallerNamespaceKey] # <<>> => First(CallerNamespaceKey) \in {Unset, "ns"}
  /\ pc \notin {"options", "open"} /\ injects /\ options.SrcService # Unset =>
       md[CallerServiceKey] # <<>>

\* The picker and the limiter saw the source service and the caller.
Sources ==
  /\ server # "idle" \/ quota.request # NIL \/ pc \in {"picked", "sent"} =>
       picked.source = BuildSourceInfo(copy)
  /\ quota.request # NIL /\ "CALLER_SERVICE" \in quota.matches
       /\ md[CallerServiceKey] # <<>> =>
         <<"CALLER_SERVICE", First(CallerNamespaceKey), First(CallerServiceKey)>>
           \in quota.request.arguments

IInv ==
  /\ TypeOK /\ Places /\ Serving /\ Headers /\ Sources /\ CountedOnce

-----------------------------------------------------------------------------
(* The options of the dial in the target's URL.                             *)

LEMMA BareCopy == Bare \in DialOptions
<1> DEFINE zero == [NewDialOptions EXCEPT !.Route = FALSE, !.CircuitBreaker = FALSE]
<1>1. zero \in DialOptions
  <2>1. NewDialOptions \in DialOptions
    BY DEF NewDialOptions, DialOptions
  <2> QED
    BY <2>1 DEF DialOptions
<1>2. zero = [f \in DOMAIN zero |-> zero[f]]
  BY DEF NewDialOptions
<1>3. Bare = [f \in DOMAIN zero |-> zero[f]]
  BY DEF Bare, TargetToOptions
<1> QED
  BY <1>1, <1>2, <1>3

LEMMA RoundTrip ==
  ASSUME NEW o \in DialOptions
  PROVE  TargetToOptions(Marshal(o)) = o
<1> DEFINE D == {"Namespace", "SrcService", "SrcMetadata", "Route", "CircuitBreaker"}
<1>1. DOMAIN o = D /\ o = [f \in D |-> o[f]]
  BY DEF DialOptions
<1>2. DOMAIN [NewDialOptions EXCEPT !.Route = FALSE, !.CircuitBreaker = FALSE] = D
  BY DEF NewDialOptions
<1>3. Marshal(o) = o
  BY <1>1 DEF Marshal
<1> QED
  BY <1>1, <1>2, <1>3 DEF TargetToOptions

-----------------------------------------------------------------------------
(* Headers.                                                                 *)

LEMMA FirstOfAppend ==
  ASSUME NEW S, NEW s \in Seq(S), NEW x \in S
  PROVE  /\ Append(s, x) \in Seq(S) /\ Append(s, x) # <<>>
         /\ Append(s, x)[1] = IF s = <<>> THEN x ELSE s[1]
<1>1. CASE s = <<>>
  BY <1>1
<1>2. CASE s # <<>>
  BY <1>2
<1> QED
  BY <1>1, <1>2

Value == {"request", "other", "ns", "caller", Unset}

LEMMA Appended ==
  ASSUME NEW h \in Header, NEW key \in Key, NEW x \in Value
  PROVE  LET g == AppendToOutgoing(h, key, x)
         IN  /\ g \in Header
             /\ \A k \in Key : k # key => g[k] = h[k]
             /\ g[key] # <<>>
             /\ g[key][1] = IF h[key] = <<>> THEN x ELSE h[key][1]
<1>1. h \in [Key -> Seq(Value)]
  BY DEF Header, Value
<1>2. h[key] \in Seq(Value)
  BY <1>1
<1>3. AppendToOutgoing(h, key, x) = [h EXCEPT ![key] = Append(h[key], x)]
  BY DEF AppendToOutgoing
<1>4. Append(h[key], x) \in Seq(Value) /\ Append(h[key], x) # <<>>
      /\ Append(h[key], x)[1] = IF h[key] = <<>> THEN x ELSE h[key][1]
  BY <1>2, FirstOfAppend
<1>5. AppendToOutgoing(h, key, x) \in [Key -> Seq(Value)]
  BY <1>1, <1>3, <1>4
<1> QED
  BY <1>1, <1>3, <1>4, <1>5 DEF Header, Value

\* Both headers of a caller.
LEMMA CallerAppended ==
  ASSUME NEW h \in Header, NEW svc \in Value, NEW ns \in Value
  PROVE  LET g == AppendToOutgoing(AppendToOutgoing(h, CallerServiceKey, svc),
                                   CallerNamespaceKey, ns)
         IN  /\ g \in Header
             /\ g[CallerServiceKey] # <<>> /\ g[CallerNamespaceKey] # <<>>
             /\ g[CallerNamespaceKey][1] =
                  IF h[CallerNamespaceKey] = <<>> THEN ns ELSE h[CallerNamespaceKey][1]
<1> DEFINE f == AppendToOutgoing(h, CallerServiceKey, svc)
           g == AppendToOutgoing(f, CallerNamespaceKey, ns)
<1>1. /\ {CallerServiceKey, CallerNamespaceKey} \subseteq Key
      /\ CallerServiceKey # CallerNamespaceKey
  BY DEF Key, CallerServiceKey, CallerNamespaceKey
<1>2. /\ f \in Header /\ f[CallerServiceKey] # <<>>
      /\ \A k \in Key : k # CallerServiceKey => f[k] = h[k]
  BY <1>1, Appended
<1> HIDE DEF f
<1>3. /\ g \in Header /\ g[CallerNamespaceKey] # <<>>
      /\ \A k \in Key : k # CallerNamespaceKey => g[k] = f[k]
      /\ g[CallerNamespaceKey][1] =
           IF f[CallerNamespaceKey] = <<>> THEN ns ELSE f[CallerNamespaceKey][1]
  BY <1>1, <1>2, Appended
<1> HIDE DEF g
<1>4. /\ g \in Header
      /\ g[CallerServiceKey] # <<>> /\ g[CallerNamespaceKey] # <<>>
      /\ g[CallerNamespaceKey][1] =
           IF h[CallerNamespaceKey] = <<>> THEN ns ELSE h[CallerNamespaceKey][1]
  BY <1>1, <1>2, <1>3
<1> QED
  BY <1>4 DEF f, g

-----------------------------------------------------------------------------
(* The invariant is inductive, action by action.                            *)

LEMMA InvInit == Init => IInv
<1> SUFFICES ASSUME Init PROVE IInv
  OBVIOUS
<1>1. NewDialOptions \in DialOptions
  BY DEF NewDialOptions, DialOptions
<1>2. md \in Header /\ \A key \in Key : md[key] = <<>>
  BY DEF Init, Header
<1>3. TypeOK
  BY <1>1, <1>2 DEF Init, TypeOK
<1>4. Places /\ Serving /\ Sources
  BY NilAssumption DEF Init, Places, Serving, Sources
<1>5. Headers
  BY <1>2 DEF Init, Headers, Key
<1>6. CountedOnce
  <2>1. reports = <<>> /\ answer \notin {"limited", "ok", "error"}
    BY NilAssumption DEF Init
  <2>2. Len(reports) <= 1
    BY <2>1
  <2> QED
    BY <2>1, <2>2 DEF CountedOnce
<1> QED
  BY <1>3, <1>4, <1>5, <1>6 DEF IInv

LEMMA ApplyInv ==
  ASSUME IInv, NEW opt \in DialOption, Apply(opt)
  PROVE  IInv'
<1>1. /\ pc = "options" /\ options' = [options EXCEPT ![opt[1]] = opt[2]]
      /\ UNCHANGED <<copy, injects, published, pc, md, picked, at, answer, reports,
                     server, quota, handled>>
  BY DEF Apply, serving
<1>2. options' \in DialOptions
  <2>1. options \in DialOptions
    BY DEF IInv, TypeOK
  <2>2. CASE opt = <<"Namespace", "ns">>
    BY <1>1, <2>1, <2>2 DEF DialOptions
  <2>3. CASE opt = <<"SrcService", "caller">>
    BY <1>1, <2>1, <2>3 DEF DialOptions
  <2>4. CASE opt = <<"SrcMetadata", "metadata">>
    BY <1>1, <2>1, <2>4 DEF DialOptions
  <2>5. ASSUME NEW b \in BOOLEAN, opt = <<"Route", b>> PROVE options' \in DialOptions
    BY <1>1, <2>1, <2>5 DEF DialOptions
  <2>6. ASSUME NEW b \in BOOLEAN, opt = <<"CircuitBreaker", b>>
        PROVE  options' \in DialOptions
    BY <1>1, <2>1, <2>6 DEF DialOptions
  <2> QED
    BY <2>2, <2>3, <2>4, <2>5, <2>6 DEF DialOption
<1>3. copy = NIL /\ injects = FALSE
  BY <1>1 DEF IInv, Places
<1>4. TypeOK'
  BY <1>1, <1>2, <1>3 DEF IInv, TypeOK
<1>5. Places' /\ Serving' /\ Headers' /\ Sources'
  BY <1>1, <1>3 DEF IInv, Places, Serving, Headers, First, Sources
<1>6. CountedOnce'
  BY <1>1 DEF IInv, CountedOnce
<1> QED
  BY <1>4, <1>5, <1>6 DEF IInv

LEMMA DialInv ==
  ASSUME IInv, DialContext \/ BuildTarget \/ DialBare
  PROVE  IInv'
<1>1. options \in DialOptions
  BY DEF IInv, TypeOK
<1>2. PICK encoded, interceptor :
        /\ interceptor \in BOOLEAN
        /\ Dialled(encoded, interceptor)
        /\ TargetToOptions(encoded) \in {options, Bare}
        /\ interceptor => TargetToOptions(encoded) = options
  <2>1. CASE Dialled(Marshal(options), TRUE) \/ Dialled(Marshal(options), FALSE)
    BY <1>1, <2>1, RoundTrip
  <2>2. CASE DialBare
    <3>1. Dialled([f \in {} |-> f], FALSE) /\ TargetToOptions([f \in {} |-> f]) = Bare
      BY <2>2 DEF DialBare, Bare
    <3> QED
      BY <3>1
  <2> QED
    BY <2>1, <2>2 DEF DialContext, BuildTarget
<1>3. /\ pc = "options" /\ pc' = "open"
      /\ copy' \in {options, Bare} /\ injects' \in BOOLEAN
      /\ injects' => copy' = options
      /\ UNCHANGED <<options, published, md, picked, at, answer, reports, server, quota,
                     handled>>
  BY <1>2 DEF Dialled, serving
<1>4. /\ picked = NIL /\ server = "idle" /\ quota.request = NIL
      /\ reports = <<>> /\ answer = NIL
  BY <1>3 DEF IInv, Places
<1>5. TypeOK'
  BY <1>3 DEF IInv, TypeOK, Bare
<1>6. Places' /\ Serving' /\ Headers' /\ Sources'
  BY <1>3, <1>4 DEF IInv, Places, Serving, Headers, First, Sources
<1>7. CountedOnce'
  <2>1. reports' = <<>> /\ answer' \notin {"limited", "ok", "error"}
    BY <1>3, <1>4, NilAssumption
  <2>2. Len(reports') <= 1
    BY <2>1
  <2> QED
    BY <2>1, <2>2 DEF CountedOnce
<1> QED
  BY <1>5, <1>6, <1>7 DEF IInv

LEMMA DialFailsInv ==
  ASSUME IInv, DialFails
  PROVE  IInv'
<1>1. /\ pc = "options" /\ pc' = "done" /\ answer' = "not dialled"
      /\ UNCHANGED <<options, copy, injects, published, md, picked, at, reports, server,
                     quota, handled>>
  BY DEF DialFails, channel, serving
<1>2. /\ TypeOK' /\ Places' /\ Serving' /\ Headers' /\ Sources'
  BY <1>1 DEF IInv, TypeOK, Places, Serving, Headers, First, Sources
<1>3. CountedOnce'
  BY <1>1 DEF IInv, CountedOnce
<1> QED
  BY <1>2, <1>3 DEF IInv

\* Steps of the caller that change the headers.
LEMMA HeaderInv ==
  ASSUME IInv, pc = "open", pc' \in {"open", "pick"}, md' \in Header,
         UNCHANGED <<options, copy, injects, published, picked, at, answer, reports,
                     server, quota, handled>>,
         Headers'
  PROVE  IInv'
<1>1. quota.request = NIL /\ server = "idle"
  BY DEF IInv, Places
<1>2. TypeOK' /\ Places' /\ Serving' /\ Sources'
  BY <1>1 DEF IInv, TypeOK, Places, Serving, Sources
<1>3. CountedOnce'
  BY DEF IInv, CountedOnce
<1> QED
  BY <1>2, <1>3 DEF IInv

LEMMA ScopeInv ==
  ASSUME IInv,
         (\E key \in {LbPolicyKey, LbHashKeyKey, UserKey} : RequestScope(key)) \/ Forward
  PROVE  IInv'
<1>1. /\ pc = "open" /\ pc' = pc
      /\ UNCHANGED <<options, copy, injects, published, picked, at, answer, reports,
                     server, quota, handled>>
  BY DEF RequestScope, Forward, InScope, channel, serving
<1>2. md \in Header /\ Headers
  BY DEF IInv, TypeOK
<1>3. ASSUME NEW key \in {LbPolicyKey, LbHashKeyKey, UserKey}, RequestScope(key)
      PROVE  md' \in Header /\ Headers'
  <2>1. md' = AppendToOutgoing(md, key, "request") /\ md[key] = <<>>
    BY <1>3 DEF RequestScope, InScope
  <2>2. key \in Key /\ key \notin {CallerServiceKey, CallerNamespaceKey}
        /\ {CallerServiceKey, CallerNamespaceKey} \subseteq Key
    BY DEF Key, CallerServiceKey, CallerNamespaceKey, LbPolicyKey, LbHashKeyKey, UserKey
  <2>3. /\ md' \in Header /\ md'[key] # <<>> /\ md'[key][1] = "request"
        /\ \A k \in Key : k # key => md'[k] = md[k]
    <3> DEFINE g == AppendToOutgoing(md, key, "request")
    <3>1. "request" \in Value
      BY DEF Value
    <3>2. /\ g \in Header /\ g[key] # <<>>
          /\ g[key][1] = IF md[key] = <<>> THEN "request" ELSE md[key][1]
          /\ \A k \in Key : k # key => g[k] = md[k]
      BY <1>2, <2>2, <3>1, Appended
    <3> HIDE DEF g
    <3>3. md' = g
      BY <2>1 DEF g
    <3> QED
      BY <2>1, <3>2, <3>3
  <2> QED
    BY <1>1, <1>2, <2>2, <2>3 DEF Headers, First
<1>4. CASE Forward
  <2>1. md' = AppendToOutgoing(AppendToOutgoing(md, CallerServiceKey, "other"),
                               CallerNamespaceKey, "ns")
    BY <1>4 DEF Forward, InScope
  <2>2. /\ md' \in Header
        /\ md'[CallerServiceKey] # <<>> /\ md'[CallerNamespaceKey] # <<>>
        /\ md'[CallerNamespaceKey][1] =
             IF md[CallerNamespaceKey] = <<>> THEN "ns" ELSE md[CallerNamespaceKey][1]
    <3>1. "other" \in Value /\ "ns" \in Value
      BY DEF Value
    <3> QED
      BY <1>2, <2>1, <3>1, CallerAppended
  <2>3. Headers'
    BY <1>1, <1>2, <2>2 DEF Headers, First
  <2> QED
    BY <1>1, <2>2, <2>3, HeaderInv
<1> QED
  BY <1>1, <1>3, <1>4, HeaderInv

LEMMA InvokeInv ==
  ASSUME IInv, Invoke
  PROVE  IInv'
<1>1. /\ pc = "open" /\ pc' = "pick" /\ md' = InjectCallerInfo(md)
      /\ UNCHANGED <<options, copy, injects, published, picked, at, answer, reports,
                     server, quota, handled>>
  BY DEF Invoke, channel, serving
<1>2. md \in Header /\ Headers /\ options \in DialOptions
  BY DEF IInv, TypeOK
<1>3. CASE injects /\ options.SrcService # Unset
  <2>1. md' = AppendToOutgoing(AppendToOutgoing(md, CallerServiceKey, options.SrcService),
                               CallerNamespaceKey, options.Namespace)
    BY <1>1, <1>3 DEF InjectCallerInfo
  <2>2. options.SrcService \in Value /\ options.Namespace \in {Unset, "ns"}
        /\ options.Namespace \in Value
    BY <1>2 DEF DialOptions, Value
  <2>3. /\ md' \in Header
        /\ md'[CallerServiceKey] # <<>> /\ md'[CallerNamespaceKey] # <<>>
        /\ md'[CallerNamespaceKey][1] =
             IF md[CallerNamespaceKey] = <<>> THEN options.Namespace
                                              ELSE md[CallerNamespaceKey][1]
    BY <1>2, <2>1, <2>2, CallerAppended
  <2>4. Headers'
    BY <1>2, <2>2, <2>3 DEF Headers, First
  <2> QED
    BY <1>1, <2>3, <2>4, HeaderInv
<1>4. CASE ~ (injects /\ options.SrcService # Unset)
  <2>1. md' = md
    BY <1>1, <1>4 DEF InjectCallerInfo
  <2>2. Headers'
    BY <1>1, <1>2, <1>4, <2>1 DEF Headers, First
  <2> QED
    BY <1>1, <1>2, <2>1, <2>2, HeaderInv
<1> QED
  BY <1>3, <1>4

LEMMA PickInv ==
  ASSUME IInv, Pick
  PROVE  IInv'
<1>1. /\ pc = "pick" /\ pc' = "picked"
      /\ UNCHANGED <<options, copy, injects, published, md, at, answer, reports, server,
                     quota, handled>>
  BY DEF Pick, channel, serving
<1>2. PICK i \in published, labels \in {{}, Label}, lbCfg \in LBConfig :
        picked' = [instance  |-> i,
                   source    |-> BuildSourceInfo(copy),
                   arguments |-> RouterArguments(labels),
                   lb        |-> BuildLoadBalanceRequest(lbCfg, md),
                   breaker   |-> CircuitBreaker(copy)]
  BY DEF Pick
<1>3. copy \in DialOptions
  BY <1>1, BareCopy DEF IInv, Places, TypeOK
<1>4. picked'.instance \in Addr /\ (picked'.breaker # {}) = copy.CircuitBreaker
  <2>1. published \in SUBSET Addr
    BY DEF Pick, IInv, TypeOK
  <2> QED
    BY <1>2, <1>3, <2>1 DEF CircuitBreaker, DialOptions
<1>5. TypeOK' /\ Places' /\ Serving'
  BY <1>1, <1>4 DEF IInv, TypeOK, Places, Serving
<1>6. Headers' /\ Sources'
  BY <1>1, <1>2 DEF IInv, Headers, First, Sources
<1>7. CountedOnce'
  BY <1>1 DEF IInv, CountedOnce
<1> QED
  BY <1>5, <1>6, <1>7 DEF IInv

\* Steps of which the server knows nothing, before the RPC is sent.
LEMMA QuietInv ==
  ASSUME IInv, pc \notin {"options", "sent"},
         pc' \in {"pick", "blocked", "done", pc}, pc = "open" \/ pc = "done" => pc' = pc,
         answer' = answer \/ (pc' = "done" /\ answer' = "unavailable"),
         published' \in (SUBSET Addr) \cup {NIL},
         UNCHANGED <<options, copy, injects, md, picked, at, reports, server, quota,
                     handled>>
  PROVE  IInv'
<1>1. TypeOK' /\ Places' /\ Serving'
  <2>1. TypeOK'
    <3>1. /\ pc' \in {"options", "open", "pick", "blocked", "picked", "sent", "done"}
          /\ answer' \in Told \cup {NIL, "not dialled"}
      BY DEF IInv, TypeOK, Told
    <3>2. UNCHANGED <<options, copy, injects, md, at, server>>
      OBVIOUS
    <3> QED
      BY <3>1, <3>2 DEF IInv, TypeOK
  <2>2. Places'
    <3>1. CASE pc' = pc
      BY <3>1 DEF IInv, Places
    <3>2. CASE pc' \in {"pick", "blocked"} /\ pc # "done"
      BY <3>2 DEF IInv, Places
    <3>3. CASE pc' = "done"
      BY <3>3 DEF IInv, Places
    <3> QED
      BY <3>1, <3>2, <3>3
  <2>3. Serving'
    BY DEF IInv, Places, Serving
  <2> QED
    BY <2>1, <2>2, <2>3
<1>2. Headers' /\ Sources'
  BY DEF IInv, Headers, First, Sources
<1>3. CountedOnce'
  BY DEF IInv, CountedOnce
<1> QED
  BY <1>1, <1>2, <1>3 DEF IInv

LEMMA PickerInv ==
  ASSUME IInv, PickFails \/ Publish \/ NotReady
  PROVE  IInv'
<1>1. published \in (SUBSET Addr) \cup {NIL}
  BY DEF IInv, TypeOK
<1>2. CASE PickFails
  BY <1>1, <1>2, QuietInv DEF PickFails, channel, serving
<1>3. CASE NotReady
  BY <1>1, <1>3, QuietInv DEF NotReady, Report, channel, serving
<1>4. CASE Publish
  <2>1. CASE pc = "sent"
    <3>1. /\ pc' = pc /\ published' \in SUBSET Addr
          /\ UNCHANGED <<options, copy, injects, md, picked, at, answer, reports, server,
                         quota, handled>>
      BY <1>4, <2>1 DEF Publish, channel, serving
    <3>2. TypeOK' /\ Places' /\ Serving'
      <4>1. TypeOK'
        BY <3>1 DEF IInv, TypeOK
      <4>2. Places'
        BY <3>1 DEF IInv, Places
      <4>3. Serving'
        BY <3>1 DEF IInv, Serving
      <4> QED
        BY <4>1, <4>2, <4>3
    <3>3. Headers' /\ Sources'
      BY <3>1 DEF IInv, Headers, First, Sources
    <3>4. CountedOnce'
      BY <3>1 DEF IInv, CountedOnce
    <3> QED
      BY <3>2, <3>3, <3>4 DEF IInv
  <2>2. CASE pc # "sent"
    BY <1>4, <2>2, QuietInv DEF Publish, channel, serving
  <2> QED
    BY <2>1, <2>2
<1> QED
  BY <1>2, <1>3, <1>4

LEMMA SendInv ==
  ASSUME IInv, Send
  PROVE  IInv'
<1>1. /\ pc = "picked" /\ pc' = "sent" /\ at' = picked.instance /\ server' = "arrived"
      /\ UNCHANGED <<options, copy, injects, published, md, picked, answer, reports, quota,
                     handled>>
  BY DEF Send, channel
<1>2. server = "idle" /\ reports = <<>> /\ answer = NIL
  BY <1>1 DEF IInv, Places
<1>3. TypeOK' /\ Places' /\ Serving'
  BY <1>1, <1>2, NilAssumption DEF IInv, TypeOK, Places, Serving
<1>4. Headers' /\ Sources'
  BY <1>1 DEF IInv, Headers, First, Sources
<1>5. CountedOnce'
  BY <1>1, <1>2, NilAssumption DEF IInv, CountedOnce
<1> QED
  BY <1>3, <1>4, <1>5 DEF IInv

LEMMA RetryInv ==
  ASSUME IInv, Retry
  PROVE  IInv'
<1>1. /\ pc = "sent" /\ pc' = "pick" /\ server = "arrived" /\ server' = "idle"
      /\ UNCHANGED <<options, copy, injects, published, md, picked, at, answer, reports,
                     quota, handled>>
  BY DEF Retry, Report, channel
<1>2. TypeOK' /\ Places' /\ Serving'
  BY <1>1, NilAssumption DEF IInv, TypeOK, Places, Serving
<1>3. Headers' /\ Sources'
  BY <1>1 DEF IInv, Headers, First, Sources
<1>4. CountedOnce'
  BY <1>1 DEF IInv, CountedOnce
<1> QED
  BY <1>2, <1>3, <1>4 DEF IInv

\* The end of the RPC, with at most one report.
LEMMA DoneInv ==
  ASSUME IInv, Lost \/ Answer
  PROVE  IInv'
<1>1. /\ pc = "sent" /\ pc' = "done"
      /\ UNCHANGED <<options, copy, injects, published, md, picked, at, server, quota,
                     handled>>
      /\ answer' = "unavailable" \/ (answer' = server /\ server \in {"limited", "ok", "error"})
  BY DEF Lost, Answer, channel, serving
<1>2. /\ reports = <<>> /\ at = picked.instance
      /\ (picked.breaker # {}) = copy.CircuitBreaker
  BY <1>1 DEF IInv, Places
<1>3. TypeOK' /\ Places' /\ Serving'
  <2>1. TypeOK'
    BY <1>1 DEF IInv, TypeOK, Told
  <2>2. Places'
    BY <1>1 DEF IInv, Places
  <2>3. Serving'
    BY <1>1 DEF IInv, Serving
  <2> QED
    BY <2>1, <2>2, <2>3
<1>4. Headers' /\ Sources'
  BY <1>1 DEF IInv, Headers, First, Sources
<1>5. ASSUME NEW failed
      PROVE  LET r == Append(<<>>, [instance |-> picked.instance, failed |-> failed,
                                    breaker |-> picked.breaker])
             IN  /\ Len(r) = 1 /\ r[1].instance = picked.instance
                 /\ r[1].failed = failed /\ r[1].breaker = picked.breaker
  OBVIOUS
<1>6. CountedOnce'
  <2>1. CASE Lost
    <3>1. answer' = "unavailable"
      BY <2>1 DEF Lost
    <3>2. Len(reports') <= 1
      <4>1. CASE reports' = <<>>
        BY <4>1
      <4>2. CASE reports' = Append(<<>>, [instance |-> picked.instance, failed |-> TRUE,
                                          breaker |-> picked.breaker])
        BY <1>5, <4>2
      <4> QED
        BY <1>2, <2>1, <4>1, <4>2 DEF Lost, Report
    <3> QED
      BY <3>1, <3>2 DEF CountedOnce
  <2>2. CASE Answer
    <3>1. /\ answer' = server
          /\ reports' = Append(<<>>, [instance |-> picked.instance,
                                      failed |-> (server # "ok"),
                                      breaker |-> picked.breaker])
      BY <1>2, <2>2 DEF Answer, Report
    <3>2. /\ Len(reports') = 1 /\ reports'[1].instance = picked.instance
          /\ reports'[1].failed = (server # "ok")
          /\ reports'[1].breaker = picked.breaker
      BY <1>5, <3>1
    <3> QED
      BY <1>1, <1>2, <3>1, <3>2 DEF CountedOnce
  <2> QED
    BY <2>1, <2>2
<1> QED
  BY <1>3, <1>4, <1>6 DEF IInv

LEMMA ServerInv ==
  ASSUME IInv, Unlimited \/ Limit \/ Handle
  PROVE  IInv'
<1>1. /\ server \in {"arrived", "handler"} /\ server' # "arrived" /\ server' # "idle"
      /\ UNCHANGED <<options, copy, injects, published, pc, md, picked, at, answer,
                     reports>>
  BY DEF Unlimited, Limit, Handle, UnaryInterceptor, channel
<1>2. pc \in {"sent", "done"} /\ answer \notin {"limited", "ok", "error"} /\ handled = <<>>
  BY <1>1 DEF IInv, Places, Serving, TypeOK
<1>3. CountedOnce' /\ Headers'
  BY <1>1 DEF IInv, CountedOnce, Headers, First
<1>4. CASE Unlimited
  <2>1. server' = "handler" /\ UNCHANGED <<quota, handled>>
    BY <1>4 DEF Unlimited
  <2>2. TypeOK'
    BY <1>1, <1>2, <2>1 DEF IInv, TypeOK
  <2>3. Places'
    BY <1>1, <1>2, <2>1 DEF IInv, Places
  <2>4. Serving'
    BY <1>1, <1>2, <2>1 DEF IInv, Serving
  <2>5. Sources'
    BY <1>1, <1>2, <2>1 DEF IInv, Sources, First
  <2> QED
    BY <1>3, <2>2, <2>3, <2>4, <2>5 DEF IInv
<1>5. CASE Handle
  <2>1. server' \in {"ok", "error"} /\ handled' = <<at>> /\ UNCHANGED quota
    BY <1>2, <1>5 DEF Handle
  <2>2. TypeOK'
    BY <1>1, <1>2, <2>1 DEF IInv, TypeOK
  <2>3. Places'
    BY <1>1, <1>2, <2>1 DEF IInv, Places
  <2>4. Serving'
    BY <1>1, <1>2, <2>1 DEF IInv, Serving
  <2>5. Sources'
    BY <1>1, <1>2, <2>1 DEF IInv, Sources, First
  <2> QED
    BY <1>3, <2>2, <2>3, <2>4, <2>5 DEF IInv
<1>6. CASE Limit
  <2>1. PICK limiter \in Limiter, path \in FullMethod, ip \in BOOLEAN,
             matches \in {{}, Match} :
          LET request == BuildQuotaRequest(limiter, path, md, ip, matches)
          IN  /\ quota' = [request |-> request, matches |-> matches]
              /\ server' \in UnaryInterceptor(request)
    BY <1>6 DEF Limit
  <2> DEFINE request == BuildQuotaRequest(limiter, path, md, ip, matches)
  <2>2. /\ quota'.request = request /\ quota'.matches = matches
        /\ server' \in {"handler", "limited"} /\ (server' = "limited" => request # NIL)
        /\ handled' = handled
    BY <1>6, <2>1 DEF UnaryInterceptor, Limit
  <2>3. ASSUME request # NIL, "CALLER_SERVICE" \in matches, md[CallerServiceKey] # <<>>
        PROVE  <<"CALLER_SERVICE", First(CallerNamespaceKey), First(CallerServiceKey)>>
                 \in request.arguments
    <3>1. md[CallerNamespaceKey] # <<>>
      BY <2>3 DEF IInv, Headers
    <3>2. request.arguments = UNION {Arguments(m, md, ip) : m \in matches}
      BY <2>3 DEF BuildQuotaRequest
    <3>3. Arguments("CALLER_SERVICE", md, ip) =
            {<<"CALLER_SERVICE", md[CallerNamespaceKey][1], md[CallerServiceKey][1]>>}
      BY <2>3, <3>1 DEF Arguments
    <3> QED
      BY <2>3, <3>2, <3>3 DEF First
  <2> HIDE DEF request
  <2>4. TypeOK'
    BY <1>1, <1>2, <2>2 DEF IInv, TypeOK
  <2>5. Places'
    BY <1>1, <1>2, <2>2 DEF IInv, Places
  <2>6. Serving'
    BY <1>1, <1>2, <2>2 DEF IInv, Serving
  <2>7. Sources'
    BY <1>1, <2>2, <2>3 DEF IInv, Sources, First
  <2> QED
    BY <1>3, <2>4, <2>5, <2>6, <2>7 DEF IInv
<1> QED
  BY <1>4, <1>5, <1>6

LEMMA InvStep == IInv /\ [Next]_vars => IInv'
<1> SUFFICES ASSUME IInv, [Next]_vars PROVE IInv'
  OBVIOUS
<1>1. CASE Client
  BY <1>1, ApplyInv, DialInv, DialFailsInv, ScopeInv, InvokeInv, PickInv, PickerInv
     DEF Client, DialStep
<1>2. CASE Publish \/ Transport
  BY <1>2, PickerInv, SendInv, RetryInv, DoneInv DEF Transport
<1>3. CASE Unlimited \/ Limit \/ Handle
  BY <1>3, ServerInv
<1>4. CASE UNCHANGED vars
  <2>1. UNCHANGED <<options, copy, injects, published, pc, md, picked, at, answer, reports,
                    server, quota, handled>>
    BY <1>4 DEF vars
  <2>2. TypeOK' /\ Places' /\ Serving'
    <3>1. TypeOK'
      BY <2>1 DEF IInv, TypeOK
    <3>2. Places'
      BY <2>1 DEF IInv, Places
    <3>3. Serving'
      BY <2>1 DEF IInv, Serving
    <3> QED
      BY <3>1, <3>2, <3>3
  <2>3. Headers' /\ Sources'
    BY <2>1 DEF IInv, Headers, First, Sources
  <2>4. CountedOnce'
    BY <2>1 DEF IInv, CountedOnce
  <2> QED
    BY <2>2, <2>3, <2>4 DEF IInv
<1> QED
  BY <1>1, <1>2, <1>3, <1>4 DEF Next

LEMMA SpecInv == Spec => []IInv
BY InvInit, InvStep, PTL DEF Spec

-----------------------------------------------------------------------------
(* The theorems.                                                            *)

\* The dial's options survive the way through the target's URL
\* (client_option.go, resolver.go): the pickers see those of DialContext.
THEOREM CallTypeCorrect == Spec => []TypeOK
<1>1. IInv => TypeOK
  BY DEF IInv
<1> QED
  BY <1>1, SpecInv, PTL

\* resultReporter (balancer.go) reports every answered RPC once, rightly, for
\* any number of pickers, refused SubConns and transparent retries.
THEOREM ReportedOnce == Spec => []CountedOnce
<1>1. IInv => CountedOnce
  BY DEF IInv
<1> QED
  BY <1>1, SpecInv, PTL

\* What the caller is told of the limiter (ratelimit.go) and the handler is
\* what happened there.
THEOREM ToldTheTruth == Spec => []AnswerIsTrue
<1>1. IInv => AnswerIsTrue
  <2> SUFFICES ASSUME IInv PROVE AnswerIsTrue
    OBVIOUS
  <2>1. Len(handled) <= 1
    <3>1. handled = <<>> \/ handled = <<at>>
      BY DEF IInv, Serving
    <3>2. CASE handled = <<>>
      BY <3>2
    <3>3. CASE handled = <<at>>
      <4>1. Len(handled) = 1
        BY <3>3
      <4> QED
        BY <4>1
    <3> QED
      BY <3>1, <3>2, <3>3
  <2> QED
    BY <2>1 DEF IInv, Serving, AnswerIsTrue
<1> QED
  BY <1>1, SpecInv, PTL

\* injectCallerInfo (client.go), the source of the pickers (balancer.go) and
\* the limiter's CALLER_SERVICE argument (ratelimit.go) name one service.
THEOREM CountedForItsCaller == Spec => []CallerIsCounted
<1>1. IInv => CallerIsCounted
  <2> SUFFICES ASSUME IInv, quota.request # NIL, "CALLER_SERVICE" \in quota.matches,
                      injects, picked.source # NIL, picked.source.service # Unset,
                      ~ Forwarded
               PROVE  \E n \in {Unset, "ns"} :
                        <<"CALLER_SERVICE", n, picked.source.service>>
                          \in quota.request.arguments
    BY DEF CallerIsCounted
  <2>1. copy = options /\ pc \notin {"options", "open"}
    BY DEF IInv, Places
  <2>2. picked.source = BuildSourceInfo(options)
    BY <2>1 DEF IInv, Sources
  <2>3. picked.source.service = options.SrcService
    BY <2>2 DEF BuildSourceInfo
  <2>4. md[CallerServiceKey] # <<>>
    BY <2>1, <2>3 DEF IInv, Headers
  <2>5. First(CallerServiceKey) = options.SrcService
    BY <2>4 DEF Forwarded, First
  <2>6. First(CallerNamespaceKey) \in {Unset, "ns"}
    BY <2>4 DEF IInv, Headers
  <2> QED
    BY <2>3, <2>4, <2>5, <2>6 DEF IInv, Sources
<1> QED
  BY <1>1, SpecInv, PTL

-----------------------------------------------------------------------------
(* The namespace of a channel for which it is set.                          *)

NamespaceIs ==
  /\ pc = "options" => md[CallerNamespaceKey] = <<>>
  /\ copy # NIL /\ copy.Namespace # Unset =>
       /\ md[CallerNamespaceKey] # <<>> => First(CallerNamespaceKey) # Unset
       /\ pc \in {"picked", "sent"} => picked.breaker \subseteq {copy.Namespace}
       /\ \A i \in DOMAIN reports : reports[i].breaker \subseteq {copy.Namespace}

LEMMA NamespaceStep ==
  ASSUME IInv, NamespaceIs, [Next]_vars
  PROVE  NamespaceIs'
<1>1. md \in Header /\ options \in DialOptions
  BY DEF IInv, TypeOK
<1>2. ASSUME NEW encoded, NEW interceptor, Dialled(encoded, interceptor)
      PROVE  NamespaceIs'
  <2>1. reports = <<>> /\ DOMAIN reports = {}
    BY <1>2 DEF Dialled, IInv, Places
  <2> QED
    BY <1>2, <2>1 DEF Dialled, serving, NamespaceIs
<1>3. ASSUME NEW key \in {LbPolicyKey, LbHashKeyKey, UserKey}, RequestScope(key)
      PROVE  NamespaceIs'
  <2>1. md'[CallerNamespaceKey] = md[CallerNamespaceKey]
    BY <1>1, <1>3
    DEF RequestScope, InScope, AppendToOutgoing, Header, Key, CallerServiceKey,
        CallerNamespaceKey, LbPolicyKey, LbHashKeyKey, UserKey
  <2> QED
    BY <1>3, <2>1 DEF RequestScope, InScope, channel, NamespaceIs, First
<1>4. CASE Forward
  <2>1. md[CallerNamespaceKey] = <<>>
    BY <1>4 DEF Forward, IInv, Headers
  <2>2. md'[CallerNamespaceKey][1] = "ns"
    BY <1>1, <1>4, <2>1, CallerAppended DEF Forward, InScope, Value
  <2> QED
    BY <1>4, <2>2 DEF Forward, InScope, channel, NamespaceIs, First, Unset
<1>5. CASE Invoke
  <2>1. CASE injects /\ options.SrcService # Unset
    <3>1. options.SrcService \in Value /\ options.Namespace \in Value
      BY <1>1 DEF DialOptions, Value
    <3>2. md'[CallerNamespaceKey][1] = IF md[CallerNamespaceKey] = <<>>
                                       THEN options.Namespace
                                       ELSE md[CallerNamespaceKey][1]
      BY <1>1, <1>5, <2>1, <3>1, CallerAppended DEF Invoke, InjectCallerInfo
    <3>3. copy = options
      BY <2>1 DEF IInv, Places
    <3> QED
      BY <1>5, <3>2, <3>3 DEF Invoke, channel, NamespaceIs, First
  <2>2. CASE ~ (injects /\ options.SrcService # Unset)
    <3>1. md' = md
      BY <1>5, <2>2 DEF Invoke, InjectCallerInfo
    <3> QED
      BY <1>5, <3>1 DEF Invoke, channel, NamespaceIs, First
  <2> QED
    BY <2>1, <2>2
<1>6. CASE Pick
  <2>1. picked'.breaker = CircuitBreaker(copy) /\ UNCHANGED <<copy, md, reports>> /\ pc' # "options"
    BY <1>6 DEF Pick, channel
  <2> QED
    BY <2>1 DEF CircuitBreaker, NamespaceIs, First
<1>7. ASSUME NEW received, NEW failed, Report(received, failed), pc \in {"picked", "sent"},
             pc' # "options", pc' \notin {"picked", "sent"},
             UNCHANGED <<copy, md, picked>>
      PROVE  NamespaceIs'
  <2> DEFINE r == Append(<<>>, [instance |-> picked.instance, failed |-> failed,
                                breaker |-> picked.breaker])
  <2>1. reports = <<>> /\ reports' \in {<<>>, r}
    BY <1>7 DEF Report, IInv, Places
  <2>2. \A i \in DOMAIN r : r[i].breaker = picked.breaker
    OBVIOUS
  <2> HIDE DEF r
  <2>3. \A i \in DOMAIN reports' : reports'[i].breaker = picked.breaker
    BY <2>1, <2>2
  <2> QED
    BY <1>7, <2>3 DEF NamespaceIs, First
<1>8. CASE NotReady \/ Retry \/ Lost \/ Answer
  BY <1>7, <1>8 DEF NotReady, Retry, Lost, Answer, channel
<1>9. ASSUME pc' = pc \/ pc' \notin {"options", "picked"},
             pc' = "sent" => pc \in {"picked", "sent"},
             UNCHANGED <<copy, md, picked, reports>>
      PROVE  NamespaceIs'
  BY <1>9 DEF NamespaceIs, First
<1>10. CASE UNCHANGED vars \/ (\E opt \in DialOption : Apply(opt)) \/ DialFails
            \/ PickFails \/ Publish \/ Send \/ Unlimited \/ Limit \/ Handle
  BY <1>9, <1>10 DEF vars, Apply, DialFails, PickFails, Publish, Send, Unlimited, Limit,
                     Handle, channel, serving
<1> QED
  BY <1>2, <1>3, <1>4, <1>5, <1>6, <1>8, <1>10
  DEF Next, Client, DialStep, DialContext, BuildTarget, DialBare, Transport

\* "default namespace when namespace is not set" (global.go:41) is true of a
\* channel whose namespace is set: header, breaker and router name the same.
\* (Of others it is not: the run of MCCallNamespace.cfg.)
THEOREM NamespaceKnown ==
  Spec => [](copy # NIL /\ copy.Namespace # Unset => NamespaceDefaulted)
<1>1. Init => NamespaceIs
  BY DEF Init, NamespaceIs, Key
<1>2. IInv /\ NamespaceIs /\ [Next]_vars => NamespaceIs'
  BY NamespaceStep
<1>3. NamespaceIs => (copy # NIL /\ copy.Namespace # Unset => NamespaceDefaulted)
  BY DEF NamespaceIs, NamespaceDefaulted, Namespace, First
<1> QED
  BY <1>1, <1>2, <1>3, SpecInv, PTL DEF Spec

=================================================================================
