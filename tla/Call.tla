---------------------------------- MODULE Call ----------------------------------
(***************************************************************************)
(* One unary RPC, end to end: the options of the channel (client.go,       *)
(* client_option.go, resolver.go), the request scope (context.go), the     *)
(* pick and the report of its outcome (balancer.go), and on the server the *)
(* rate limit (ratelimit.go) and the handler.                              *)
(*                                                                         *)
(* Around them: the balancer publishes pickers at any time, and the        *)
(* connection may be gone before, while or after the server answers.  RPCs *)
(* share nothing else, so one of them is enough.                           *)
(***************************************************************************)
EXTENDS RateLimit

CONSTANT Addr     \* addresses of instances

ASSUME NilAssumption ==
  NIL \notin {"not dialled", "unavailable", "limited", "ok", "error"}

VARIABLES
  options,    \* *dialOptions of DialContext, shared with injectCallerInfo
  copy,       \* what Build decodes from the target, shared with the pickers
  injects,    \* the channel has the interceptor injectCallerInfo
  published,  \* the ClientConn's picker, by its instances (an errPicker has none)
  pc,         \* where the RPC stands in the client
  md,         \* its outgoing metadata, the headers the server sees
  picked,     \* of the last Pick: the requests to the SDK, the resultReporter
  at,         \* the instance the RPC was sent to last
  answer,     \* what the caller of the RPC is told
  reports,    \* calls of UpdateServiceCallResult and circuitBreakerAPI.Report
  server,     \* where the RPC stands in the server
  quota,      \* the SDK: the quota asked for, and the rules' match arguments
  handled     \* instances whose handler was called for the RPC

channel == <<options, copy, injects>>
serving == <<server, quota, handled>>
vars == <<options, copy, injects, published, pc, md, picked, at, answer, reports,
          server, quota, handled>>

-----------------------------------------------------------------------------
(* The options of a dial, and the copy of them in the target's URL.         *)

DialOptions ==
  [Namespace : {Unset, "ns"}, SrcService : {Unset, "caller"},
   SrcMetadata : {Unset, "metadata"}, Route : BOOLEAN, CircuitBreaker : BOOLEAN]

NewDialOptions ==
  [Namespace |-> Unset, SrcService |-> Unset, SrcMetadata |-> Unset,
   Route |-> TRUE, CircuitBreaker |-> TRUE]

\* The fields that options assign, and the values they may give them.
DialOption ==
  {<<"Namespace", "ns">>, <<"SrcService", "caller">>, <<"SrcMetadata", "metadata">>}
    \cup {"Route", "CircuitBreaker"} \X BOOLEAN

Apply(opt) ==
  /\ pc = "options"
  /\ options' = [options EXCEPT ![opt[1]] = opt[2]]
  /\ UNCHANGED <<copy, injects, published, pc, md, picked, at, answer, reports,
                 serving>>

\* json.Marshal keeps the exported fields that have no tag "-".
\* Mutant: the source service has the tag "-".
MarshalWithoutSource(o) == [f \in DOMAIN o \ {"SrcService"} |-> o[f]]

Marshal(o) == [f \in DOMAIN o |-> o[f]]

\* targetToOptions starts from the zero value, not from newDialOptions.
TargetToOptions(encoded) ==
  LET zero == [NewDialOptions EXCEPT !.Route = FALSE, !.CircuitBreaker = FALSE]
  IN  [f \in DOMAIN zero |-> IF f \in DOMAIN encoded THEN encoded[f] ELSE zero[f]]

Dialled(encoded, interceptor) ==
  /\ pc = "options"
  /\ pc' = "open"
  /\ copy' = TargetToOptions(encoded)
  /\ injects' = interceptor
  /\ UNCHANGED <<options, published, md, picked, at, answer, reports, serving>>

DialContext == Dialled(Marshal(options), TRUE)
BuildTarget == Dialled(Marshal(options), FALSE)

\* grpc.Dial of a polaris target that has no options.
DialBare == options = NewDialOptions /\ Dialled([f \in {} |-> f], FALSE)

\* parseHost refuses the host: no channel.
DialFails ==
  /\ pc = "options"
  /\ pc' = "done" /\ answer' = "not dialled"
  /\ UNCHANGED <<channel, published, md, picked, at, reports, serving>>

-----------------------------------------------------------------------------
(* The caller of the RPC, and injectCallerInfo.                             *)

LbPolicyKey  == "polaris.balancer.request.lbPolicy"
LbHashKeyKey == "polaris.balancer.request.hashKey"
Key == {LbPolicyKey, LbHashKeyKey, UserKey, CallerServiceKey, CallerNamespaceKey}

AppendToOutgoing(header, key, value) == [header EXCEPT ![key] = Append(@, value)]

InScope(header) ==
  /\ pc = "open" /\ md' = header
  /\ UNCHANGED <<channel, published, pc, picked, at, answer, reports, serving>>

\* RequestScopeLbPolicy, RequestScopeLbHashKey and the caller's own header;
\* bound: each is set once.
RequestScope(key) ==
  md[key] = <<>> /\ InScope(AppendToOutgoing(md, key, "request"))

\* The context already names a caller: that of the RPC being served.
Forward ==
  /\ md[CallerServiceKey] = <<>>
  /\ InScope(AppendToOutgoing(AppendToOutgoing(md, CallerServiceKey, "other"),
                              CallerNamespaceKey, "ns"))

\* Mutant: the information of the channel's caller replaces nothing and is
\* left out when there are headers already.
InjectIfEmpty(header) ==
  IF injects /\ options.SrcService # Unset /\ \A key \in Key : header[key] = <<>>
  THEN AppendToOutgoing(AppendToOutgoing(header, CallerServiceKey, options.SrcService),
                        CallerNamespaceKey, options.Namespace)
  ELSE header

InjectCallerInfo(header) ==
  IF injects /\ options.SrcService # Unset
  THEN AppendToOutgoing(AppendToOutgoing(header, CallerServiceKey, options.SrcService),
                        CallerNamespaceKey, options.Namespace)
  ELSE header

Invoke ==
  /\ pc = "open"
  /\ pc' = "pick"
  /\ md' = InjectCallerInfo(md)
  /\ UNCHANGED <<channel, published, picked, at, answer, reports, serving>>

-----------------------------------------------------------------------------
(* The picker.                                                              *)

Namespace(o) == IF o.Namespace # Unset THEN o.Namespace ELSE DefaultNamespace

BuildSourceInfo(o) ==
  IF o.SrcService = Unset /\ o.SrcMetadata = Unset THEN NIL
  ELSE [service |-> o.SrcService, namespace |-> Namespace(o)]

\* The labels of the inbound rules' sources that addTrafficLabels turns into
\* arguments: the path, and headers the RPC has.
Label == {"path", UserKey}

AddTrafficLabels(labels, header) ==
  {l \in labels : l = "path" \/ header[l] # <<>>}

RouterArguments(labels) ==
  IF copy.Route /\ BuildSourceInfo(copy) = NIL THEN AddTrafficLabels(labels, md) ELSE {}

\* The namespace of the resource that reportCircuitBreak names, if it is on.
CircuitBreaker(o) == IF o.CircuitBreaker THEN {o.Namespace} ELSE {}

\* One option of the request's scope alone counts for nothing.
BuildLoadBalanceRequest(cfg, header) ==
  IF header[LbPolicyKey] # <<>> /\ header[LbHashKeyKey] # <<>>
  THEN [policy |-> header[LbPolicyKey][1], hashKey |-> header[LbHashKeyKey][1]]
  ELSE cfg

\* What the service config may say.
LBConfig == [policy : {Unset, "config"}, hashKey : {Unset, "config"}]

\* The SDK chooses any instance of the picker (all have a SubConn in it);
\* the labels are none when the rules cannot be fetched.
Pick ==
  /\ pc = "pick" /\ published # NIL
  /\ \E i \in published, labels \in {{}, Label}, lbCfg \in LBConfig :
       picked' = [instance  |-> i,
                  source    |-> BuildSourceInfo(copy),
                  arguments |-> RouterArguments(labels),
                  lb        |-> BuildLoadBalanceRequest(lbCfg, md),
                  breaker   |-> CircuitBreaker(copy)]
  /\ pc' = "picked"
  /\ UNCHANGED <<channel, published, md, at, answer, reports, serving>>

\* The picker is an errPicker, or the SDK fails (on an empty list, too): the RPC
\* fails, or if it waits for ready it blocks until the next picker.
PickFails ==
  /\ pc = "pick" /\ published # NIL
  /\ \/ pc' = "done" /\ answer' = "unavailable"
     \/ pc' = "blocked" /\ UNCHANGED answer
  /\ UNCHANGED <<channel, published, md, picked, at, reports, serving>>

-----------------------------------------------------------------------------
(* resultReporter: DoneInfo.BytesReceived and whether there is an error.    *)

\* Mutant: RPCs without a received byte are reported, too.
ReportAlways(received, failed) ==
  reports' = Append(reports, [instance |-> picked.instance, failed |-> failed,
                              breaker |-> picked.breaker])

Report(received, failed) ==
  reports' = IF received
             THEN Append(reports, [instance |-> picked.instance, failed |-> failed,
                                   breaker |-> picked.breaker])
             ELSE reports

-----------------------------------------------------------------------------
(* gRPC (external): pickers, and what happens to an RPC that was picked.    *)

Publish ==
  /\ pc \notin {"options", "done"}
  /\ published' \in SUBSET Addr
  /\ pc' = IF pc = "blocked" THEN "pick" ELSE pc
  /\ UNCHANGED <<channel, md, picked, at, answer, reports, serving>>

\* The SubConn is not ready any more: Done with an empty DoneInfo.
NotReady ==
  /\ pc = "picked"
  /\ pc' = "blocked"
  /\ Report(FALSE, FALSE)
  /\ UNCHANGED <<channel, published, md, picked, at, answer, serving>>

Send ==
  /\ pc = "picked"
  /\ pc' = "sent" /\ at' = picked.instance /\ server' = "arrived"
  /\ UNCHANGED <<channel, published, md, picked, answer, reports, quota, handled>>

\* The server has not seen it: gRPC tries again by itself.
Retry ==
  /\ pc = "sent" /\ server = "arrived"
  /\ pc' = "pick" /\ server' = "idle"
  /\ Report(FALSE, TRUE)
  /\ UNCHANGED <<channel, published, md, picked, at, answer, quota, handled>>

\* The connection breaks, or the deadline passes; an answer that began is
\* bytes received.
Lost ==
  /\ pc = "sent"
  /\ pc' = "done" /\ answer' = "unavailable"
  /\ \/ Report(FALSE, TRUE)
     \/ server \in {"limited", "ok", "error"} /\ Report(TRUE, TRUE)
  /\ UNCHANGED <<channel, published, md, picked, at, serving>>

Answer ==
  /\ pc = "sent" /\ server \in {"limited", "ok", "error"}
  /\ pc' = "done" /\ answer' = server
  /\ Report(TRUE, server # "ok")
  /\ UNCHANGED <<channel, published, md, picked, at, serving>>

-----------------------------------------------------------------------------
(* The server.                                                              *)

Service == "pkg.Svc"
\* gRPC's server accepts both forms.
FullMethod == {<<"", Service, "Method">>, <<Service, "Method">>}

\* NewServer gives the interceptor the server's namespace and service name;
\* one of NewRateLimitInterceptor has neither.
Limiter == [namespace : {DefaultNamespace}, svcName : {Unset, "service"}]
             \cup [namespace : {Unset}, svcName : {Unset}]

\* A server without the interceptor.
Unlimited ==
  /\ server = "arrived"
  /\ server' = "handler"
  /\ UNCHANGED <<channel, published, pc, md, picked, at, answer, reports, quota,
                 handled>>

Limit ==
  /\ server = "arrived"
  /\ \E limiter \in Limiter, path \in FullMethod, ip \in BOOLEAN, matches \in {{}, Match} :
       LET request == BuildQuotaRequest(limiter, path, md, ip, matches)
       IN  /\ quota' = [request |-> request, matches |-> matches]
           /\ server' \in UnaryInterceptor(request)
  /\ UNCHANGED <<channel, published, pc, md, picked, at, answer, reports, handled>>

\* The user's handler.
Handle ==
  /\ server = "handler"
  /\ server' \in {"ok", "error"}
  /\ handled' = Append(handled, at)
  /\ UNCHANGED <<channel, published, pc, md, picked, at, answer, reports, quota>>

-----------------------------------------------------------------------------
Init ==
  /\ options = NewDialOptions /\ copy = NIL /\ injects = FALSE
  /\ published = NIL
  /\ pc = "options" /\ md = [key \in Key |-> <<>>]
  /\ picked = NIL /\ at = NIL /\ answer = NIL /\ reports = <<>>
  /\ server = "idle" /\ quota = [request |-> NIL, matches |-> {}] /\ handled = <<>>

DialStep ==
  \/ \E opt \in DialOption : Apply(opt)
  \/ DialContext \/ BuildTarget \/ DialBare \/ DialFails

Client ==
  \/ DialStep
  \/ \E key \in {LbPolicyKey, LbHashKeyKey, UserKey} : RequestScope(key)
  \/ Forward \/ Invoke \/ Pick \/ PickFails

Transport == NotReady \/ Send \/ Retry \/ Lost \/ Answer

Next == Client \/ Publish \/ Transport \/ Unlimited \/ Limit \/ Handle

Spec == Init /\ [][Next]_vars

-----------------------------------------------------------------------------
(* Properties.                                                              *)

Header == [Key -> Seq({"request", "other", "ns", "caller", Unset})]
Told == {"unavailable", "limited", "ok", "error"}

TypeOK ==
  /\ options \in DialOptions
  /\ copy = NIL \/ copy = options \/ copy = TargetToOptions([f \in {} |-> f])
  /\ injects \in BOOLEAN
  /\ published \in (SUBSET Addr) \cup {NIL}
  /\ md \in Header
  /\ pc \in {"options", "open", "pick", "blocked", "picked", "sent", "done"}
  /\ at \in Addr \cup {NIL}
  /\ answer \in Told \cup {NIL, "not dialled"}
  /\ server \in {"idle", "arrived", "handler", "limited", "ok", "error"}

\* The circuit breaker counts every answered RPC once, as what it was, for the
\* instance that answered: whatever pickers came and went meanwhile, and
\* however often the RPC was picked before it was sent.  (resultReporter)
CountedOnce ==
  /\ Len(reports) <= 1
  /\ answer \in {"limited", "ok", "error"} =>
       /\ Len(reports) = 1
       /\ reports[1].instance = at
       /\ reports[1].failed = (answer # "ok")
       /\ (reports[1].breaker # {}) = copy.CircuitBreaker

\* What the caller is told is what happened on the server: an RPC turned away
\* by the SDK's word has not reached a handler, one that was answered was
\* handled once, by the instance that is told of, and no RPC twice.
AnswerIsTrue ==
  /\ Len(handled) <= 1
  /\ answer = "limited" => handled = <<>> /\ quota.request # NIL
  /\ answer \in {"ok", "error"} => handled = <<at>>

\* The server sees another caller first.
Forwarded == md[CallerServiceKey] # <<>> /\ md[CallerServiceKey][1] # options.SrcService

\* The two copies of the dial's options, and the headers in between, agree: a
\* server whose rules ask for the caller's service counts the RPC for the
\* source service the channel routes it by, unless the RPC was forwarded.
CallerIsCounted ==
  quota.request # NIL /\ "CALLER_SERVICE" \in quota.matches
    /\ injects /\ picked.source # NIL /\ picked.source.service # Unset
    /\ ~ Forwarded
  => \E n \in {Unset, "ns"} :
       <<"CALLER_SERVICE", n, picked.source.service>> \in quota.request.arguments

\* global.go:41 "DefaultNamespace default namespace when namespace is not set":
\* whoever is told the namespace of the channel, the server (the caller's) and
\* the circuit breaker (the callee's), is told the one the channel resolves in.
NamespaceDefaulted ==
  /\ md[CallerNamespaceKey] # <<>> => md[CallerNamespaceKey][1] # Unset
  /\ \A i \in DOMAIN reports : reports[i].breaker \subseteq {Namespace(copy)}

===============================================================================
