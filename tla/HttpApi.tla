------------------------------- MODULE HttpApi ------------------------------
(***************************************************************************)
(* One request's way through the HTTP API: the correlation, the router, the *)
(* bearer credential and the claims it carries (internal/adapters/oidc),    *)
(* the handler's own checks, the door of the use case (internal/app), and   *)
(* the one answer it is given; and the readiness probe, whose checks run at *)
(* the same time under one budget.                                          *)
(*                                                                         *)
(* Requests share nothing in this package, so one is followed at a time.    *)
(* What the caller sent is chosen where the code first looks at it.  The    *)
(* key lookup is KeySet's and the work behind a door is Wagering's: here    *)
(* they are their outcomes.                                                 *)
(***************************************************************************)
EXTENDS Naturals, FiniteSets

CONSTANTS
  Providers,   \* providers a claim, a path or a body may name
  Tokens,      \* credentials callers present
  Checks,      \* names of the readiness checks
  Algorithms,  \* the allow-list
  Skew,        \* clock skew allowed, in ticks
  MaxTime,     \* bound: the wall clock
  Nil          \* nothing, a blank

ASSUME HttpAssumption == Skew \in Nat /\ MaxTime \in Nat /\ Nil \notin Providers

(* A token's window is written in numbers, or not at all. *)
ASSUME TokenAssumption ==
  Nil \notin Tokens /\ \A t \in Tokens : t.exp \in Nat \cup {Nil} /\ t.nbf \in Nat \cup {Nil}

VARIABLES
  stage,    \* where the request is
  req,      \* what is known of it so far
  matched,  \* routed.matched: a registered handler ran
  reply,    \* what went out, Nil before
  touched,  \* what the use case committed or disclosed: subset of {"read", "write"}
  checks,   \* a readiness probe's answers so far
  health,   \* external: what each dependency does when asked
  now       \* the wall clock

vars == <<stage, req, matched, reply, touched, checks, health, now>>

WalletRoutes == {"openWallet", "readWallet", "readLedger", "reconcileWallet"}
OperationRoutes == {"submitOperation", "readOperation", "readProviderOperation"}
HealthRoutes == {"live", "ready"}
Routes == WalletRoutes \cup OperationRoutes \cup HealthRoutes
Unrouted == {"unknown path", "other method", "unclean path"}

Nobody == [kind |-> Nil, provider |-> Nil]
Fresh == [route |-> Nil, correlation |-> Nil, token |-> Nil, principal |-> Nobody,
          admittedAt |-> Nil, names |-> Nil]
Pending == [n \in Checks |-> "pending"]

Init ==
  /\ stage = "idle" /\ req = Fresh /\ matched = FALSE
  /\ reply = Nil /\ touched = {}
  /\ checks = Pending /\ health \in [Checks -> {"up", "down", "hung"}]
  /\ now = 0

-----------------------------------------------------------------------------
(* Responses.  by says who worded the answer, shape what its body is. *)

(* The writer the mux dispatches through: what the mux composed itself is   *)
(* restated in the contract's shape, what a handler wrote passes through.   *)
WriteHeader(marked, status) ==
  CASE ~marked /\ status \in {404, 405} -> [status |-> status, by |-> "router", shape |-> "json"]
    [] ~marked /\ status \in 300 .. 399 -> [status |-> status, by |-> "router", shape |-> "empty"]
    [] OTHER -> [status |-> status, by |-> "handler", shape |-> "json"]

(* The answer ServeHTTP gives before there is a mux to go through. *)
writeError(status) == [status |-> status, by |-> "handler", shape |-> "json"]

dispatched == TRUE

Answer(status) ==
  /\ reply' = WriteHeader(matched, status)
  /\ stage' = "answered"

-----------------------------------------------------------------------------
(* ServeHTTP *)

(* A supplied correlation is kept, replaced when too long, and refused when *)
(* it is written wrongly; the refusal then carries a fresh one.             *)
Supplied == {Nil, "fits", "too long", "malformed"}

correlationOf(supplied) == IF supplied = "fits" THEN "fits" ELSE "minted"
checkCorrelation(supplied) == supplied # "malformed"

muxStatus == [r \in Unrouted |-> CASE r = "unknown path" -> 404
                                   [] r = "other method" -> 405
                                   [] r = "unclean path" -> 307]

ServeHTTP ==
  /\ stage = "idle"
  /\ \E route \in Routes \cup Unrouted, supplied \in Supplied :
       /\ req' = [Fresh EXCEPT !.route = route, !.correlation = correlationOf(supplied)]
       /\ IF ~checkCorrelation(supplied)
            THEN reply' = writeError(400) /\ stage' = "answered" /\ matched' = FALSE
          ELSE IF route \in Unrouted
            THEN /\ reply' = WriteHeader(FALSE, muxStatus[route])
                 /\ stage' = "answered" /\ matched' = FALSE
          ELSE /\ matched' = dispatched
               /\ reply' = Nil
               /\ stage' = CASE route = "live" -> "live"
                             [] route = "ready" -> "probing"
                             [] OTHER -> "dispatched"
  /\ touched' = {} /\ checks' = Pending
  /\ UNCHANGED <<health, now>>

-----------------------------------------------------------------------------
(* authenticated: from the header to a principal. *)

BearerToken(header) == header = "bearer"

(* Everything the token's own header can be refused for, before a key is    *)
(* looked up for it.                                                        *)
headerAccepted(t) ==
  /\ t.wellFormed /\ t.signatures = 1
  /\ t.alg \in Algorithms
  /\ t.kid # Nil

(* verify, given what the lookup came to. *)
verify(t, lookup) ==
  CASE ~headerAccepted(t) -> "refused"
    [] headerAccepted(t) /\ lookup = "gone" -> "gone"
    [] headerAccepted(t) /\ lookup = "unavailable" -> "refused"
    [] headerAccepted(t) /\ lookup = "found" ->
         IF t.keyAlg \in {Nil, t.alg} /\ t.signed THEN "verified" ELSE "refused"

(* claims.validate: issuer, audience, subject, and the window, widened by   *)
(* the skew at both ends.                                                   *)
validate(t) ==
  /\ t.iss = "issuer" /\ "wagering" \in t.aud /\ t.sub # Nil
  /\ t.exp # Nil /\ now <= t.exp + Skew
  /\ t.nbf # Nil => now + Skew >= t.nbf
  /\ t.iat # Nil => now + Skew >= t.iat

NewProviderPrincipal(p) == [kind |-> "PROVIDER", provider |-> p]
NewServicePrincipal == [kind |-> "SERVICE", provider |-> Nil]

(* A mutant: a token with both roles is read as its provider role. *)
ProviderRoleFirst(t) ==
  CASE "provider" \in t.roles /\ t.providerId # Nil -> NewProviderPrincipal(t.providerId)
    [] "internal" \in t.roles -> NewServicePrincipal
    [] OTHER -> Nobody

(* claims.principal: the role decides, alone; both, neither and a provider  *)
(* without a name are refused.                                              *)
principal(t) ==
  CASE "provider" \in t.roles /\ "internal" \notin t.roles /\ t.providerId # Nil ->
         NewProviderPrincipal(t.providerId)
    [] "internal" \in t.roles /\ "provider" \notin t.roles -> NewServicePrincipal
    [] OTHER -> Nobody

Admits(t, lookup) == verify(t, lookup) = "verified" /\ validate(t) /\ principal(t) # Nobody

authenticated ==
  /\ stage = "dispatched"
  /\ \E header \in {"none", "other scheme", "bearer"}, t \in Tokens,
       lookup \in {"found", "unavailable", "gone"} :
       IF BearerToken(header) /\ Admits(t, lookup)
         THEN /\ req' = [req EXCEPT !.token = t, !.principal = principal(t), !.admittedAt = now]
              /\ stage' = "authenticated"
              /\ UNCHANGED reply
         ELSE /\ Answer(IF BearerToken(header) /\ verify(t, lookup) = "gone" THEN 503 ELSE 401)
              /\ UNCHANGED req
  /\ UNCHANGED <<matched, touched, checks, health, now>>

-----------------------------------------------------------------------------
(* The handlers up to their use case: a submission's key, the body, the     *)
(* identifiers of the path, the limit.                                      *)
HasBody == {"submitOperation", "openWallet"}

decodeBody(body) == CASE body = "good" -> 200 [] body = "too large" -> 413 [] body = "unreadable" -> 400

handle ==
  /\ stage = "authenticated"
  /\ \E named \in Providers \cup {Nil}, key \in BOOLEAN, pathOk \in BOOLEAN,
       body \in {"good", "unreadable", "too large"} :
       LET needsKey == req.route = "submitOperation" /\ ~key
           refusal  == IF needsKey THEN 400
                       ELSE IF req.route \in HasBody THEN decodeBody(body)
                       ELSE IF pathOk /\ (req.route = "readProviderOperation" => named # Nil)
                         THEN 200 ELSE 400
       IN IF refusal # 200
            THEN Answer(refusal) /\ UNCHANGED req
            ELSE /\ req' = [req EXCEPT !.names = named]
                 /\ stage' = "decoded"
                 /\ UNCHANGED reply
  /\ UNCHANGED <<matched, touched, checks, health, now>>

-----------------------------------------------------------------------------
(* The doors of internal/app. *)
MaySubmitAs(p, named) == p.kind = "PROVIDER" /\ p.provider = named
MayReadAs(p, named) == p.kind = "SERVICE" \/ (p.kind = "PROVIDER" /\ p.provider = named)
MayAdministerWallets(p) == p.kind = "SERVICE"

Door(p, route, named) ==
  CASE route \in WalletRoutes -> MayAdministerWallets(p)
    [] route = "submitOperation" -> MaySubmitAs(p, named)
    [] route = "readProviderOperation" -> MayReadAs(p, named)
    [] route = "readOperation" -> TRUE

(* Work behind a door comes to a status and, only when it succeeds, to      *)
(* something written or disclosed; a failure rolls back.                    *)
submissionStatus == [s \in {"PROCESSED", "PENDING_REFERENCE", "REJECTED"} |->
                       CASE s = "PROCESSED" -> 200 [] s = "PENDING_REFERENCE" -> 202
                         [] s = "REJECTED" -> 422]
Failures == {400, 404, 409, 500, 503}

Success(route) ==
  CASE route = "submitOperation" ->
         {[status |-> submissionStatus[s], touched |-> {"write"}] : s \in DOMAIN submissionStatus}
    [] route = "openWallet" -> {[status |-> 201, touched |-> {"write"}]}
    [] OTHER -> {[status |-> 200, touched |-> {"read"}]}

Outcomes(route) == Success(route) \cup {[status |-> f, touched |-> {}] : f \in Failures}

(* scopedResult: a provider reading by this system's identifier is shown    *)
(* its own operations only; the owner's name is what the row says.          *)
scopedResult(p, owner) == p.kind = "SERVICE" \/ (p.kind = "PROVIDER" /\ p.provider = owner)

Scoped(outcome, owner) ==
  IF req.route = "readOperation" /\ "read" \in outcome.touched /\ ~scopedResult(req.principal, owner)
    THEN [status |-> 404, touched |-> {}] ELSE outcome

(* A submission that names no provider is refused before it is asked whose. *)
useCase ==
  /\ stage = "decoded"
  /\ IF req.route = "submitOperation" /\ req.names = Nil
       THEN Answer(400) /\ UNCHANGED <<touched, req>>
     ELSE IF ~Door(req.principal, req.route, req.names)
       THEN Answer(403) /\ UNCHANGED <<touched, req>>
     ELSE \E o \in Outcomes(req.route), owner \in Providers \cup {Nil} :
            LET shown == Scoped(o, owner)
            IN /\ Answer(shown.status)
               /\ touched' = shown.touched
               /\ req' = IF req.route = "readOperation" THEN [req EXCEPT !.names = owner] ELSE req
  /\ UNCHANGED <<matched, checks, health, now>>

-----------------------------------------------------------------------------
(* Health. *)
live ==
  /\ stage = "live"
  /\ Answer(200)
  /\ UNCHANGED <<req, matched, touched, checks, health, now>>

Asked(n) == checks[n] = "pending"  \* every check is asked at once

CheckAnswers(n) ==
  /\ stage = "probing" /\ Asked(n) /\ health[n] # "hung"
  /\ checks' = [checks EXCEPT ![n] = IF health[n] = "up" THEN "ok" ELSE "failed"]
  /\ UNCHANGED <<stage, req, matched, reply, touched, health, now>>

(* A mutant: the probe waits for as long as a dependency does. *)
NoBudget == FALSE /\ stage = "probing" /\ UNCHANGED vars

(* The budget passes: the context ends, and whoever was still waiting on a  *)
(* dependency returns its error.  A dependency that answers answers before. *)
BudgetPasses ==
  /\ stage = "probing"
  /\ \A n \in Checks : Asked(n) => health[n] = "hung"
  /\ \E n \in Checks : checks[n] = "pending"
  /\ checks' = [n \in Checks |-> IF checks[n] = "pending" THEN "failed" ELSE checks[n]]
  /\ UNCHANGED <<stage, req, matched, reply, touched, health, now>>

ready ==
  /\ stage = "probing" /\ \A n \in Checks : checks[n] # "pending"
  /\ Answer(IF \A n \in Checks : checks[n] = "ok" THEN 200 ELSE 503)
  /\ UNCHANGED <<req, matched, touched, checks, health, now>>

-----------------------------------------------------------------------------
NextRequest ==
  /\ stage = "answered"
  /\ stage' = "idle" /\ req' = Fresh /\ matched' = FALSE /\ reply' = Nil /\ touched' = {}
  /\ checks' = Pending
  /\ UNCHANGED <<health, now>>

Tick == now < MaxTime /\ now' = now + 1
        /\ UNCHANGED <<stage, req, matched, reply, touched, checks, health>>

Step == \/ authenticated \/ handle \/ useCase \/ live \/ ready \/ BudgetPasses
        \/ \E n \in Checks : CheckAnswers(n)
Next == ServeHTTP \/ Step \/ NextRequest \/ Tick

Spec == Init /\ [][Next]_vars
FairSpec == Spec /\ WF_vars(Step)

-----------------------------------------------------------------------------
(* The shape of the state. *)
TypeOK ==
  /\ stage \in {"idle", "dispatched", "authenticated", "decoded", "live", "probing", "answered"}
  /\ req.route \in Routes \cup Unrouted \cup {Nil}
  /\ req.token \in Tokens \cup {Nil}
  /\ touched \in SUBSET {"read", "write"}
  /\ checks \in [Checks -> {"pending", "ok", "failed"}]
  /\ now \in 0 .. MaxTime
  /\ (reply = Nil) = (stage # "answered")

(* Whatever a request writes or is shown, the token it came with was good   *)
(* when it was looked at and grants exactly that: a provider's token moves  *)
(* and reads that provider's operations only, the service's administers     *)
(* wallets and submits nothing, and a token with both roles does neither.   *)
(* The claims, the principal and the doors decide it between them, in three *)
(* packages.  A request that is refused leaves nothing behind: "an          *)
(* unauthorized submission must leave no trace" (app/wagering.go).          *)
ActsWithinGrant ==
  touched # {} =>
    LET t == req.token IN
    /\ reply.status \in {200, 201, 202, 422}
    /\ t # Nil /\ t.signed /\ t.iss = "issuer" /\ t.exp # Nil
    /\ req.admittedAt <= t.exp + Skew
    /\ t.nbf # Nil => req.admittedAt >= t.nbf - Skew
    /\ Cardinality(t.roles \cap {"provider", "internal"}) = 1
    /\ "write" \in touched /\ req.route = "submitOperation" =>
         "provider" \in t.roles /\ t.providerId = req.names
    /\ req.route \in WalletRoutes => "internal" \in t.roles
    /\ req.route \in OperationRoutes /\ "provider" \in t.roles => t.providerId = req.names

(* Every request is answered, a dependency that never answers included.     *)
EveryRequestAnswered == (stage \notin {"idle", "answered"}) ~> (stage = "answered")
=============================================================================
