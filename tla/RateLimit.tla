-------------------------------- MODULE RateLimit --------------------------------
(***************************************************************************)
(* The rate limit interceptor of a server (ratelimit.go): which quota it   *)
(* asks the SDK for, and what it does with the answer.  It keeps no state. *)
(*                                                                         *)
(* A full method name is the sequence of its parts between the slashes:    *)
(* "/pkg.Svc/Method" is <<"", "pkg.Svc", "Method">>.  A header is a        *)
(* function from keys to the sequences of their values.                    *)
(***************************************************************************)
EXTENDS Naturals, Sequences

CONSTANT NIL     \* Go's nil

Unset            == ""
DefaultNamespace == "default"

\* The keys of injectCallerInfo, and one that rules and applications use.
CallerServiceKey   == "polaris.request.caller.service"
CallerNamespaceKey == "polaris.request.caller.namespace"
UserKey            == "user"

\* The types of the match arguments a rule may have.
Match == {"CALLER_SERVICE", "HEADER", "CALLER_IP"}

ExtractBareMethodName(path) ==
  IF Len(path) < 2 THEN <<>> ELSE <<path[Len(path)]>>

ExtractBareServiceName(path) ==
  IF Len(path) < 2 THEN <<>> ELSE SubSeq(path, 1, Len(path) - 1)

\* The arguments that the request gets for one match argument: none without
\* the headers, or if the peer's address has no port or more than one colon.
Arguments(m, header, ip) ==
  LET first(key) == header[key][1]
      present(keys) == \A key \in keys : header[key] # <<>>
  IN  CASE m = "CALLER_SERVICE" /\ present({CallerServiceKey, CallerNamespaceKey}) ->
             {<<m, first(CallerNamespaceKey), first(CallerServiceKey)>>}
        [] m = "HEADER" /\ present({UserKey}) -> {<<m, UserKey, first(UserKey)>>}
        [] m = "CALLER_IP" /\ ip -> {<<m>>}
        [] OTHER -> {}

\* matches: what fetchArguments found in the rules, none if it failed.
BuildQuotaRequest(limiter, path, header, ip, matches) ==
  IF Len(path) # 3 THEN NIL
  ELSE [namespace |-> IF limiter.namespace # Unset THEN limiter.namespace
                                                   ELSE DefaultNamespace,
        service   |-> IF limiter.svcName # Unset THEN <<limiter.svcName>>
                                                 ELSE ExtractBareServiceName(path),
        method    |-> IF limiter.svcName # Unset THEN path
                                                 ELSE ExtractBareMethodName(path),
        arguments |-> UNION {Arguments(m, header, ip) : m \in matches}]

\* What may become of an RPC: "handler" without a request or when GetQuota
\* fails, else what the SDK says.
\* Mutant: without a request there is nothing to allow.
FailClosed(request) == IF request = NIL THEN {"limited"} ELSE {"handler", "limited"}

UnaryInterceptor(request) ==
  IF request = NIL THEN {"handler"} ELSE {"handler", "limited"}

==================================================================================
