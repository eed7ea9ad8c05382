---------------------------- MODULE HttpApiProofs ---------------------------
(***************************************************************************)
(* Theorems about HttpApi, for any tokens, providers and allow-list, any    *)
(* skew and any readiness checks; and, below, about ErrorClasses, for       *)
(* errors of any number of layers.                                          *)
(*                                                                          *)
(* What a request may do is decided in three packages, each trusting what   *)
(* the one before left in the request.  The invariant says what that is:    *)
(* past authentication the request carries a token that was good at the     *)
(* moment it was looked at, and the principal that token names.             *)
(***************************************************************************)
EXTENDS HttpApi, ErrorClasses, FiniteSetTheorems, SequenceTheorems, WellFoundedInduction, TLAPS

Principals == {Nobody} \cup {principal(t) : t \in Tokens}
Guarded == WalletRoutes \cup OperationRoutes
Requests == [route : Routes \cup Unrouted \cup {Nil}, correlation : {"fits", "minted", Nil},
             token : Tokens \cup {Nil}, principal : Principals,
             admittedAt : Nat \cup {Nil}, names : Providers \cup {Nil}]
Succeeded == {200, 201, 202, 422}

(* The request r was let in at some time, with a token good at that time. *)
LetIn(r) ==
  /\ r.route \in Guarded /\ r.token \in Tokens
  /\ r.token.signed /\ r.token.iss = "issuer"
  /\ r.token.exp # Nil /\ r.token.exp \in Nat
  /\ r.admittedAt \in Nat /\ r.admittedAt <= r.token.exp + Skew
  /\ r.token.nbf # Nil => r.token.nbf \in Nat /\ r.admittedAt >= r.token.nbf - Skew
  /\ r.principal = principal(r.token) /\ r.principal # Nobody

GrantInv ==
  /\ now \in Nat /\ req \in Requests
  /\ stage = "dispatched" => req.route \in Guarded
  /\ stage \in {"authenticated", "decoded"} => LetIn(req)
  /\ touched # {} => stage = "answered"
  /\ ActsWithinGrant

(* What verify, validate and the claims together establish. *)
LEMMA AdmittedIsGood ==
  ASSUME NEW t \in Tokens, NEW lookup \in {"found", "unavailable", "gone"},
         Admits(t, lookup), now \in Nat
  PROVE  /\ t.signed /\ t.iss = "issuer"
         /\ t.exp # Nil /\ t.exp \in Nat /\ now <= t.exp + Skew
         /\ t.nbf # Nil => t.nbf \in Nat /\ now >= t.nbf - Skew
         /\ principal(t) # Nobody
<1>1. verify(t, lookup) = "verified" /\ validate(t) /\ principal(t) # Nobody  BY DEF Admits
<1>2. t.signed  BY <1>1 DEF verify
<1>3. t.iss = "issuer" /\ t.exp # Nil /\ now <= t.exp + Skew /\ (t.nbf # Nil => now + Skew >= t.nbf)
  BY <1>1 DEF validate
<1>4. t.exp \in Nat /\ (t.nbf # Nil => t.nbf \in Nat)  BY <1>3, TokenAssumption
<1>5. Skew \in Nat  BY HttpAssumption
<1>6. t.nbf # Nil => now >= t.nbf - Skew  BY <1>3, <1>4, <1>5
<1> QED  BY <1>1, <1>2, <1>3, <1>4, <1>6

(* A principal comes from one role, the provider's with the name it carries. *)
LEMMA OneRole ==
  ASSUME NEW t \in Tokens, principal(t) # Nobody
  PROVE  /\ Cardinality(t.roles \cap {"provider", "internal"}) = 1
         /\ \/ /\ "provider" \in t.roles /\ "internal" \notin t.roles
               /\ principal(t).kind = "PROVIDER" /\ principal(t).provider = t.providerId
            \/ /\ "internal" \in t.roles /\ "provider" \notin t.roles
               /\ principal(t).kind = "SERVICE"
<1>1. CASE "provider" \in t.roles /\ "internal" \notin t.roles /\ t.providerId # Nil
  <2>1. principal(t) = NewProviderPrincipal(t.providerId)  BY <1>1 DEF principal
  <2>2. t.roles \cap {"provider", "internal"} = {"provider"}  BY <1>1
  <2>3. Cardinality({"provider"}) = 1  BY FS_Singleton
  <2> QED  BY <1>1, <2>1, <2>2, <2>3 DEF NewProviderPrincipal
<1>2. CASE "internal" \in t.roles /\ "provider" \notin t.roles
  <2>1. principal(t) = NewServicePrincipal  BY <1>2 DEF principal
  <2>2. t.roles \cap {"provider", "internal"} = {"internal"}  BY <1>2
  <2>3. Cardinality({"internal"}) = 1  BY FS_Singleton
  <2> QED  BY <1>2, <2>1, <2>2, <2>3 DEF NewServicePrincipal
<1> QED  BY <1>1, <1>2 DEF principal

(* The status an answer was given goes out, whoever words it. *)
LEMMA StatusGoesOut == ASSUME NEW marked, NEW status PROVE WriteHeader(marked, status).status = status
BY DEF WriteHeader

(* The first state. *)
LEMMA InitGrant == Init => GrantInv
<1> SUFFICES ASSUME Init PROVE GrantInv  OBVIOUS
<1>1. Fresh \in Requests  BY DEF Fresh, Requests, Principals
<1> QED  BY <1>1 DEF Init, GrantInv, ActsWithinGrant

(* A request arrives: it is guarded only when it goes to a guarded route. *)
LEMMA ServeStep ==
  ASSUME GrantInv, ServeHTTP
  PROVE  GrantInv'
<1>1. PICK route \in Routes \cup Unrouted, supplied \in Supplied :
        /\ req' = [Fresh EXCEPT !.route = route, !.correlation = correlationOf(supplied)]
        /\ stage' \in {"answered", "live", "probing", "dispatched"}
        /\ stage' = "dispatched" => route \in Routes \ HealthRoutes
  BY DEF ServeHTTP, HealthRoutes
<1>2. touched' = {} /\ now' = now  BY DEF ServeHTTP
<1>3. correlationOf(supplied) \in {"fits", "minted", Nil}  BY DEF correlationOf
<1>4. req' \in Requests /\ req'.route = route
  BY <1>1, <1>3 DEF Fresh, Requests, Principals
<1>5. stage' = "dispatched" => req'.route \in Guarded  BY <1>1, <1>4 DEF Guarded, Routes
<1> QED  BY <1>1, <1>2, <1>4, <1>5 DEF GrantInv, ActsWithinGrant

(* Authentication lets in what it found good. *)
LEMMA AuthenticatedStep ==
  ASSUME GrantInv, authenticated
  PROVE  GrantInv'
<1>1. /\ stage = "dispatched" /\ touched = {} /\ touched' = {} /\ now' = now
      /\ now \in Nat /\ req \in Requests /\ req.route \in Guarded
  BY DEF authenticated, GrantInv
<1>2. CASE stage' = "answered" /\ req' = req
  BY <1>1, <1>2 DEF GrantInv, ActsWithinGrant
<1>3. ASSUME NEW t \in Tokens, NEW lookup \in {"found", "unavailable", "gone"}, Admits(t, lookup),
             req' = [req EXCEPT !.token = t, !.principal = principal(t), !.admittedAt = now],
             stage' = "authenticated"
      PROVE  GrantInv'
  <2>1. /\ req' \in Requests /\ req'.route = req.route /\ req'.token = t
        /\ req'.principal = principal(t) /\ req'.admittedAt = now
    <3>1. principal(t) \in Principals  BY DEF Principals
    <3> QED  BY <1>1, <1>3, <3>1 DEF Requests
  <2>2. LetIn(req')  BY <1>1, <1>3, <2>1, AdmittedIsGood DEF LetIn
  <2> QED  BY <1>1, <1>3, <2>1, <2>2 DEF GrantInv, ActsWithinGrant, LetIn
<1> QED  BY <1>2, <1>3 DEF authenticated, Answer

(* The handler's own checks leave who the request is as it was. *)
LEMMA HandleStep ==
  ASSUME GrantInv, handle
  PROVE  GrantInv'
<1>1. /\ stage = "authenticated" /\ touched = {} /\ touched' = {} /\ now' = now
      /\ now \in Nat /\ req \in Requests /\ LetIn(req)
  BY DEF handle, GrantInv
<1>2. CASE stage' = "answered" /\ req' = req
  BY <1>1, <1>2 DEF GrantInv, ActsWithinGrant
<1>3. ASSUME NEW named \in Providers \cup {Nil}, req' = [req EXCEPT !.names = named],
             stage' = "decoded"
      PROVE  GrantInv'
  <2>1. /\ req' \in Requests /\ req'.route = req.route /\ req'.token = req.token
        /\ req'.principal = req.principal /\ req'.admittedAt = req.admittedAt
    BY <1>1, <1>3 DEF Requests
  <2>2. LetIn(req')  BY <1>1, <2>1 DEF LetIn
  <2> QED  BY <1>1, <1>3, <2>1, <2>2 DEF GrantInv, ActsWithinGrant
<1> QED  BY <1>2, <1>3 DEF handle, Answer

(* What the work behind a door comes to: nothing is written or shown unless *)
(* it succeeds.                                                             *)
LEMMA OutcomeShape ==
  ASSUME NEW route \in Guarded, NEW o \in Outcomes(route)
  PROVE  o.touched # {} => o.status \in Succeeded
<1>1. ASSUME o \in Success(route)
      PROVE  o.status \in Succeeded
  <2>1. CASE route = "submitOperation"
    <3>1. PICK s \in DOMAIN submissionStatus :
            o = [status |-> submissionStatus[s], touched |-> {"write"}]
      BY <1>1, <2>1 DEF Success
    <3>2. submissionStatus[s] \in {200, 202, 422}  BY DEF submissionStatus
    <3> QED  BY <3>1, <3>2 DEF Succeeded
  <2>2. CASE route = "openWallet"
    <3>1. o = [status |-> 201, touched |-> {"write"}]  BY <1>1, <2>2 DEF Success
    <3> QED  BY <3>1 DEF Succeeded
  <2>3. CASE route # "submitOperation" /\ route # "openWallet"
    <3>1. o = [status |-> 200, touched |-> {"read"}]  BY <1>1, <2>3 DEF Success
    <3> QED  BY <3>1 DEF Succeeded
  <2> QED  BY <2>1, <2>2, <2>3
<1>2. ASSUME o \notin Success(route) PROVE o.touched = {}
  <2>1. PICK f \in Failures : o = [status |-> f, touched |-> {}]  BY <1>2 DEF Outcomes
  <2> QED  BY <2>1
<1> QED  BY <1>1, <1>2

(* The door and, behind it, the scope of a read. *)
LEMMA UseCaseStep ==
  ASSUME GrantInv, useCase
  PROVE  GrantInv'
<1>1. /\ stage = "decoded" /\ stage' = "answered" /\ touched = {} /\ now' = now
      /\ now \in Nat /\ req \in Requests /\ LetIn(req)
  BY DEF useCase, GrantInv, Answer
<1>2. CASE touched' = touched /\ req' = req
  BY <1>1, <1>2 DEF GrantInv, ActsWithinGrant
<1>3. ASSUME NEW o \in Outcomes(req.route), NEW owner \in Providers \cup {Nil},
             Door(req.principal, req.route, req.names),
             Answer(Scoped(o, owner).status), touched' = Scoped(o, owner).touched,
             req' = IF req.route = "readOperation" THEN [req EXCEPT !.names = owner] ELSE req
      PROVE  GrantInv'
  <2>1. /\ req' \in Requests /\ req'.route = req.route /\ req'.token = req.token
        /\ req'.principal = req.principal /\ req'.admittedAt = req.admittedAt
        /\ req'.names = IF req.route = "readOperation" THEN owner ELSE req.names
    BY <1>1, <1>3 DEF Requests
  <2>2. ASSUME touched' # {} PROVE ActsWithinGrant'
    <3> DEFINE t == req.token
               p == req.principal
    <3>1. Scoped(o, owner) = o
      <4>1. Scoped(o, owner) = o \/ Scoped(o, owner) = [status |-> 404, touched |-> {}]
        BY DEF Scoped
      <4> QED  BY <1>3, <2>2, <4>1
    <3>2. reply'.status \in Succeeded /\ touched' = o.touched
      <4>1. reply'.status = o.status  BY <1>3, <3>1, StatusGoesOut DEF Answer
      <4>2. req.route \in Guarded  BY <1>1 DEF LetIn
      <4> QED  BY <1>3, <2>2, <3>1, <4>1, <4>2, OutcomeShape
    <3>3. LetIn(req')  BY <1>1, <2>1 DEF LetIn
    <3>4. /\ Cardinality(t.roles \cap {"provider", "internal"}) = 1
          /\ \/ /\ "provider" \in t.roles /\ "internal" \notin t.roles
                /\ p.kind = "PROVIDER" /\ p.provider = t.providerId
             \/ /\ "internal" \in t.roles /\ "provider" \notin t.roles
                /\ p.kind = "SERVICE"
      BY <1>1, OneRole DEF LetIn
    <3>5. req.route = "submitOperation" => "provider" \in t.roles /\ t.providerId = req'.names
      BY <1>3, <2>1, <3>4 DEF Door, WalletRoutes, MaySubmitAs
    <3>6. req.route \in WalletRoutes => "internal" \in t.roles
      BY <1>3, <3>4 DEF Door, WalletRoutes, MayAdministerWallets
    <3>7. req.route = "readProviderOperation" /\ "provider" \in t.roles => t.providerId = req'.names
      BY <1>3, <2>1, <3>4 DEF Door, WalletRoutes, MayReadAs
    <3>8. req.route = "readOperation" /\ "provider" \in t.roles => t.providerId = req'.names
      <4>1. SUFFICES ASSUME req.route = "readOperation", "provider" \in t.roles
                     PROVE  t.providerId = owner
        BY <2>1
      <4>2. o.touched = {"read"}
        <5>1. o.touched # {}  BY <2>2, <3>2
        <5>2. o \in Success(req.route)
          <6>1. ASSUME NEW f \in Failures, o = [status |-> f, touched |-> {}] PROVE FALSE
            BY <5>1, <6>1
          <6> QED  BY <6>1 DEF Outcomes
        <5>3. o = [status |-> 200, touched |-> {"read"}]  BY <4>1, <5>2 DEF Success
        <5> QED  BY <5>3
      <4>3. scopedResult(p, owner)
        <5>1. ASSUME ~scopedResult(p, owner) PROVE FALSE
          <6>1. Scoped(o, owner) = [status |-> 404, touched |-> {}]
            BY <4>1, <4>2, <5>1 DEF Scoped
          <6> QED  BY <1>3, <2>2, <6>1
        <5> QED  BY <5>1
      <4> QED  BY <3>4, <4>1, <4>3 DEF scopedResult
    <3>9. t # Nil /\ t.exp # Nil
      BY <1>1, TokenAssumption DEF LetIn
    <3>10. req.route \in OperationRoutes /\ "provider" \in t.roles => t.providerId = req'.names
      BY <3>5, <3>7, <3>8 DEF OperationRoutes
    <3> QED
      BY <2>1, <3>2, <3>3, <3>4, <3>5, <3>6, <3>9, <3>10 DEF ActsWithinGrant, LetIn, Succeeded
  <2>3. ActsWithinGrant'  BY <2>2 DEF ActsWithinGrant
  <2> QED  BY <1>1, <2>1, <2>3 DEF GrantInv
<1> QED  BY <1>2, <1>3 DEF useCase

(* Probes, the next request and the clock. *)
LEMMA OtherSteps ==
  ASSUME GrantInv,
         \/ live \/ ready \/ BudgetPasses \/ (\E n \in Checks : CheckAnswers(n))
         \/ NextRequest \/ Tick \/ UNCHANGED vars
  PROVE  GrantInv'
<1>1. CASE NextRequest
  <2>1. Fresh \in Requests  BY DEF Fresh, Requests, Principals
  <2> QED  BY <1>1, <2>1 DEF NextRequest, GrantInv, ActsWithinGrant
<1>2. CASE live \/ ready
  BY <1>2 DEF live, ready, Answer, GrantInv, ActsWithinGrant
<1>3. CASE BudgetPasses \/ (\E n \in Checks : CheckAnswers(n)) \/ Tick \/ UNCHANGED vars
  <2>1. UNCHANGED <<stage, req, reply, touched>> /\ now' \in Nat
    BY <1>3 DEF BudgetPasses, CheckAnswers, Tick, vars, GrantInv
  <2> QED  BY <2>1 DEF GrantInv, ActsWithinGrant
<1> QED  BY <1>1, <1>2, <1>3

(* Past authentication a request carries a token that was good when it was  *)
(* looked at, and the principal it names; whatever it touches, that token   *)
(* grants.                                                                  *)
THEOREM GrantHolds == Spec => []GrantInv
<1>1. GrantInv /\ [Next]_vars => GrantInv'
  <2> SUFFICES ASSUME GrantInv, [Next]_vars PROVE GrantInv'  OBVIOUS
  <2> QED
    BY ServeStep, AuthenticatedStep, HandleStep, UseCaseStep, OtherSteps DEF Next, Step
<1> QED  BY <1>1, InitGrant, PTL DEF Spec

(* Whatever a request writes or is shown, the token it came with was good   *)
(* when it was looked at and grants exactly that; a refused request leaves  *)
(* nothing behind.                                                          *)
THEOREM NobodyExceedsTheirGrant == Spec => []ActsWithinGrant
<1>1. GrantInv => ActsWithinGrant  BY DEF GrantInv
<1> QED  BY <1>1, GrantHolds, PTL

-----------------------------------------------------------------------------
(* Failures on their way to an answer.                                      *)
(*                                                                          *)
(* What the two transports look at is the first classified layer and, when  *)
(* it names no code, the first failure.  The invariant says what these are  *)
(* between the report of a failure and its answer: layers are only ever     *)
(* put in front, context changes neither, and a sentinel of the port, which *)
(* turns into a conflict, is met only on the failure of a race.             *)

Layer == {Refusal(c) : c \in Codes}
         \cup {AppError(class, code) : class \in Classes, code \in Codes \cup {None}}
         \cup {Context}
         \cup {Sentinel(n) : n \in {"duplicate", "walletExists", "reversed", "aborted",
                                    "lostUpdate", "foreignOperation", "foreignWallet"}}
         \cup {PgError(s, r) : s \in TransientStates \cup OtherStates,
                               r \in DOMAIN PortErrors \cup TransientRules
                                     \cup {"wallet_balance_check", None}}
         \cup {Driver(d) : d \in {"context", "txClosed", "connect", "network",
                                  "connection", "timeout"}}
         \cup Sdk
         \cup {Entry(c, f) : c \in {"throttle", "entryFault", "other"}, f \in BOOLEAN}

Ports == {Sentinel("duplicate"), Sentinel("walletExists"), Sentinel("reversed")}

(* The failures the property judges, and what the answer is made of then.   *)
Judged == {"stored", "declined", "refused", "missing", "foreign"}

Fits(truth, e) ==
  truth \in Judged =>
    /\ Carries(e, "app")
    /\ truth = "stored" => First(e, "app").class \in {"AUDIT", "UNRETRYABLE"}
    /\ truth = "declined" => First(e, "app").class = "RETRYABLE"
    /\ truth = "refused" => First(e, "app").class = "UNRETRYABLE"
    /\ truth \in {"missing", "foreign"} =>
         First(e, "app") = AppError("NOT_FOUND", None) /\ ~Carries(e, "failure")

FailureInv ==
  /\ err \in Seq(Layer) /\ DOMAIN origin = {"from", "truth", "err"}
  /\ at \in {"arose", "use case", "edge", "resolved", "answered"}
  /\ origin.from = "sqs" => origin.truth \in {"declined", "refused"}
  /\ at = "arose" => origin \in Origins /\ err = origin.err
  /\ at = "use case" /\ origin.truth \in Judged => \A p \in Ports : ~Has(err, p)
  /\ at \in {"use case", "edge"} => Fits(origin.truth, err)
  /\ AnswerFitsFailure

(* A nonempty set of naturals has a least element.                          *)
LEMMA LeastNatural ==
  ASSUME NEW T, T \subseteq Nat, T # {}
  PROVE  \E x \in T : \A y \in T : x <= y
<1> DEFINE R == OpToRel(<, Nat)
<1>1. IsWellFoundedOn(R, Nat)  BY Zenon, NatLessThanWellFounded
<1>2. R = {ss \in Nat \X Nat : ss[1] < ss[2]}  BY Zenon DEF OpToRel
<1> HIDE DEF R
<1>3. PICK x \in T : \A y \in T : ~(<<y, x>> \in R)  BY <1>1, WFMin
<1>4. ASSUME NEW y \in T PROVE x <= y
  <2>1. ~(<<y, x>> \in R) /\ x \in Nat /\ y \in Nat  BY <1>3
  <2>2. ~(y < x)
    <3>1. <<y, x>> \in Nat \X Nat  BY <2>1
    <3>2. <<y, x>>[1] = y /\ <<y, x>>[2] = x  OBVIOUS
    <3> QED  BY <1>2, <2>1, <3>1, <3>2
  <2> QED  BY <2>1, <2>2
<1> QED  BY <1>3, <1>4

(* The layers of a kind are positions, and the first of them is its layer.  *)
LEMMA FirstIs ==
  ASSUME NEW e \in Seq(Layer), NEW kind, NEW i \in 1 .. Len(e), e[i].is = kind,
         \A j \in 1 .. Len(e) : e[j].is = kind => i <= j
  PROVE  Carries(e, kind) /\ First(e, kind) = e[i]
<1> DEFINE L == Layers(e, kind)
<1>1. L = {j \in 1 .. Len(e) : e[j].is = kind}  BY DEF Layers
<1>2. i \in L /\ \A j \in L : i <= j  BY <1>1
<1>3. \A k \in L : (\A j \in L : k <= j) => k = i
  BY <1>1, <1>2
<1>4. (CHOOSE k \in L : \A j \in L : k <= j) = i
  <2> HIDE DEF L
  <2> QED  BY <1>2, <1>3
<1> QED  BY <1>2, <1>4 DEF Carries, First

(* A layer of the kind carried is a position, and the first one.            *)
LEMMA FirstExists ==
  ASSUME NEW e \in Seq(Layer), NEW kind, Carries(e, kind)
  PROVE  \E i \in 1 .. Len(e) : /\ e[i].is = kind /\ First(e, kind) = e[i]
                                /\ \A j \in 1 .. Len(e) : e[j].is = kind => i <= j
<1> DEFINE L == Layers(e, kind)
<1>1. L = {j \in 1 .. Len(e) : e[j].is = kind} /\ L # {} /\ L \subseteq Nat  BY DEF Layers, Carries
<1>2. PICK i \in L : \A j \in L : i <= j  BY <1>1, LeastNatural
<1>3. i \in 1 .. Len(e) /\ e[i].is = kind /\ \A j \in 1 .. Len(e) : e[j].is = kind => i <= j
  BY <1>1, <1>2
<1> QED  BY <1>3, FirstIs

(* What putting a layer in front of an error changes.                       *)
LEMMA Prefixed ==
  ASSUME NEW l \in Layer, NEW e \in Seq(Layer), NEW kind
  PROVE  /\ <<l>> \o e \in Seq(Layer) /\ (<<l>> \o e)[1] = l
         /\ Carries(<<l>> \o e, kind) <=> (l.is = kind \/ Carries(e, kind))
         /\ l.is = kind => First(<<l>> \o e, kind) = l
         /\ l.is # kind /\ Carries(e, kind) => First(<<l>> \o e, kind) = First(e, kind)
<1> DEFINE f == <<l>> \o e
<1>1. /\ f \in Seq(Layer) /\ Len(f) = Len(e) + 1 /\ Len(e) \in Nat
      /\ f[1] = l /\ \A i \in 1 .. Len(e) : f[i + 1] = e[i]
  OBVIOUS
<1> HIDE DEF f
<1>2. ASSUME l.is = kind PROVE Carries(f, kind) /\ First(f, kind) = l
  <2>1. 1 \in 1 .. Len(f) /\ \A j \in 1 .. Len(f) : 1 <= j  BY <1>1
  <2> QED  BY <1>1, <1>2, <2>1, FirstIs
<1>3. ASSUME l.is # kind, Carries(e, kind) PROVE Carries(f, kind) /\ First(f, kind) = First(e, kind)
  <2>1. PICK i \in 1 .. Len(e) : /\ e[i].is = kind /\ First(e, kind) = e[i]
                                 /\ \A j \in 1 .. Len(e) : e[j].is = kind => i <= j
    BY <1>3, FirstExists
  <2>2. i + 1 \in 1 .. Len(f) /\ f[i + 1] = e[i]  BY <1>1
  <2>3. ASSUME NEW j \in 1 .. Len(f), f[j].is = kind PROVE i + 1 <= j
    <3>1. j # 1 /\ j - 1 \in 1 .. Len(e) /\ f[(j - 1) + 1] = e[j - 1]  BY <1>1, <1>3, <2>3
    <3> QED  BY <1>1, <2>1, <2>3, <3>1
  <2> QED  BY <1>1, <2>1, <2>2, <2>3, FirstIs
<1>4. ASSUME l.is # kind, Carries(f, kind) PROVE Carries(e, kind)
  <2>1. PICK i \in 1 .. Len(f) : f[i].is = kind  BY <1>1, <1>4, FirstExists
  <2>2. i # 1 /\ i - 1 \in 1 .. Len(e) /\ f[(i - 1) + 1] = e[i - 1]  BY <1>1, <1>4, <2>1
  <2>3. e[i - 1].is = kind  BY <1>1, <2>1, <2>2
  <2> QED  BY <2>2, <2>3 DEF Carries, Layers
<1> QED  BY <1>1, <1>2, <1>3, <1>4 DEF f

(* What an error has, with a layer put in front of it.                      *)
LEMMA HasPrefixed ==
  ASSUME NEW l \in Layer, NEW e \in Seq(Layer), NEW x
  PROVE  Has(<<l>> \o e, x) <=> (x = l \/ Has(e, x))
<1> DEFINE f == <<l>> \o e
<1>1. /\ f \in Seq(Layer) /\ Len(f) = Len(e) + 1 /\ Len(e) \in Nat
      /\ f[1] = l /\ \A i \in 1 .. Len(e) : f[i + 1] = e[i]
  OBVIOUS
<1> HIDE DEF f
<1>2. \A y : Has(f, y) <=> \E i \in 1 .. Len(f) : f[i] = y  BY <1>1 DEF Has, ToSet
<1>3. \A y : Has(e, y) <=> \E i \in 1 .. Len(e) : e[i] = y  BY DEF Has, ToSet
<1>4. ASSUME x = l \/ Has(e, x) PROVE Has(f, x)
  BY <1>1, <1>2, <1>3, <1>4
<1>5. ASSUME Has(f, x), x # l PROVE Has(e, x)
  <2>1. PICK i \in 1 .. Len(f) : f[i] = x  BY <1>2, <1>5
  <2>2. i # 1 /\ i - 1 \in 1 .. Len(e) /\ f[(i - 1) + 1] = e[i - 1]  BY <1>1, <1>5, <2>1
  <2> QED  BY <1>1, <1>3, <2>1, <2>2
<1> QED  BY <1>4, <1>5 DEF f

(* An error of one layer. *)
LEMMA Single ==
  ASSUME NEW l \in Layer, NEW kind, NEW x
  PROVE  /\ <<l>> \in Seq(Layer) /\ <<l>>[1] = l
         /\ Carries(<<l>>, kind) <=> l.is = kind
         /\ l.is = kind => First(<<l>>, kind) = l
         /\ Has(<<l>>, x) <=> x = l
<1>1. PICK e : e = <<>>  OBVIOUS
<1>2. e \in Seq(Layer) /\ <<l>> \o e = <<l>>  BY <1>1
<1>3. ~Carries(e, kind) /\ ~Has(e, x)  BY <1>1 DEF Carries, Layers, Has, ToSet
<1>4. /\ <<l>> \o e \in Seq(Layer) /\ (<<l>> \o e)[1] = l
      /\ Carries(<<l>> \o e, kind) <=> (l.is = kind \/ Carries(e, kind))
      /\ l.is = kind => First(<<l>> \o e, kind) = l
      /\ Has(<<l>> \o e, x) <=> (x = l \/ Has(e, x))
  BY <1>2, Prefixed, HasPrefixed
<1> QED  BY Zenon, <1>2, <1>3, <1>4

(* As puts a layer of its class in front of what another layer hides.       *)
LEMMA AsPrefixes ==
  ASSUME NEW class \in Classes, NEW l \in Layer, l.is # "app", NEW e \in Seq(Layer)
  PROVE  As(class, <<l>> \o e) = <<AppError(class, None)>> \o (<<l>> \o e)
<1>1. (<<l>> \o e)[1] = l  BY Prefixed
<1> QED  BY <1>1 DEF As, isClassified

(* Which layers there are.                                                  *)
LEMMA LayersAre ==
  /\ \A c \in Codes : Refusal(c) \in Layer /\ Refusal(c).is = "failure" /\ Refusal(c).code = c
  /\ \A class \in Classes, code \in Codes \cup {None} :
       /\ AppError(class, code) \in Layer /\ AppError(class, code).is = "app"
       /\ AppError(class, code).class = class /\ AppError(class, code).code = code
  /\ Context \in Layer /\ Context.is = "context"
  /\ \A n \in {"duplicate", "walletExists", "reversed", "aborted", "lostUpdate",
               "foreignOperation", "foreignWallet"} :
       Sentinel(n) \in Layer /\ Sentinel(n).is = "sentinel" /\ Sentinel(n).name = n
  /\ \A s \in TransientStates \cup OtherStates,
        r \in DOMAIN PortErrors \cup TransientRules \cup {"wallet_balance_check", None} :
       /\ PgError(s, r) \in Layer /\ PgError(s, r).is = "pg"
       /\ PgError(s, r).state = s /\ PgError(s, r).rule = r
  /\ \A d \in {"context", "txClosed", "connect", "network", "connection", "timeout"} :
       Driver(d) \in Layer /\ Driver(d).is = "driver" /\ Driver(d).what = d
  /\ \A s \in Sdk : s \in Layer /\ s.is = "sdk"
  /\ \A c \in {"throttle", "entryFault", "other"}, f \in BOOLEAN :
       /\ Entry(c, f) \in Layer /\ Entry(c, f).is = "entry"
       /\ Entry(c, f).code = c /\ Entry(c, f).senderFault = f
<1>1. \A c \in Codes : Refusal(c) \in Layer /\ Refusal(c).is = "failure" /\ Refusal(c).code = c
  BY DEF Layer, Refusal
<1>2. ASSUME NEW class \in Classes, NEW code \in Codes \cup {None}
      PROVE  /\ AppError(class, code) \in Layer /\ AppError(class, code).is = "app"
             /\ AppError(class, code).class = class /\ AppError(class, code).code = code
  <2>1. AppError(class, code) \in Layer  BY DEF Layer
  <2> QED  BY <2>1 DEF AppError
<1>3. Context \in Layer /\ Context.is = "context"  BY DEF Layer, Context
<1>4. ASSUME NEW n \in {"duplicate", "walletExists", "reversed", "aborted", "lostUpdate",
                        "foreignOperation", "foreignWallet"}
      PROVE  Sentinel(n) \in Layer /\ Sentinel(n).is = "sentinel" /\ Sentinel(n).name = n
  <2>1. Sentinel(n) \in Layer  BY DEF Layer
  <2> QED  BY <2>1 DEF Sentinel
<1>5. ASSUME NEW s \in TransientStates \cup OtherStates,
             NEW r \in DOMAIN PortErrors \cup TransientRules \cup {"wallet_balance_check", None}
      PROVE  /\ PgError(s, r) \in Layer /\ PgError(s, r).is = "pg"
             /\ PgError(s, r).state = s /\ PgError(s, r).rule = r
  <2>1. PgError(s, r) \in Layer  BY DEF Layer
  <2> QED  BY <2>1 DEF PgError
<1>6. ASSUME NEW d \in {"context", "txClosed", "connect", "network", "connection", "timeout"}
      PROVE  Driver(d) \in Layer /\ Driver(d).is = "driver" /\ Driver(d).what = d
  <2>1. Driver(d) \in Layer  BY DEF Layer
  <2> QED  BY <2>1 DEF Driver
<1>7. ASSUME NEW s \in Sdk PROVE s \in Layer /\ s.is = "sdk"
  <2>1. s \in Layer  BY DEF Layer
  <2> QED  BY <2>1 DEF Sdk, SdkError
<1>8. ASSUME NEW c \in {"throttle", "entryFault", "other"}, NEW f \in BOOLEAN
      PROVE  /\ Entry(c, f) \in Layer /\ Entry(c, f).is = "entry"
             /\ Entry(c, f).code = c /\ Entry(c, f).senderFault = f
  <2>1. Entry(c, f) \in Layer  BY DEF Layer
  <2>2. Entry(c, f).is = "entry" /\ Entry(c, f).code = c  BY DEF Entry
  <2>3. Entry(c, f).senderFault = f  BY Zenon DEF Entry
  <2> QED  BY <2>1, <2>2, <2>3
<1> QED  BY Zenon, <1>1, <1>2, <1>3, <1>4, <1>5, <1>6, <1>7, <1>8

(* Context and the sentinel of an aborted batch change nothing the          *)
(* transports look at.                                                      *)
LEMMA ContextFits ==
  ASSUME NEW truth, NEW e \in Seq(Layer), Fits(truth, e)
  PROVE  /\ <<Context>> \o e \in Seq(Layer) /\ Fits(truth, <<Context>> \o e)
         /\ \A p \in Ports : Has(<<Context>> \o e, p) => Has(e, p)
<1>1. Context \in Layer /\ Context.is = "context"  BY LayersAre
<1>2. \A kind \in {"app", "failure"} :
        /\ Carries(<<Context>> \o e, kind) <=> Carries(e, kind)
        /\ Carries(e, kind) => First(<<Context>> \o e, kind) = First(e, kind)
  BY <1>1, Prefixed
<1>3. \A p \in Ports : p # Context  BY DEF Ports, Sentinel, Context
<1>4. \A p \in Ports : Has(<<Context>> \o e, p) => Has(e, p)  BY <1>1, <1>3, HasPrefixed
<1>5. <<Context>> \o e \in Seq(Layer)  BY <1>1, Prefixed
<1> HIDE DEF Ports
<1> QED  BY <1>2, <1>4, <1>5 DEF Fits

(* A failure reported as of a class, in a layer put in front of the context *)
(* it was met in, fits whatever that class stands for.                      *)
LEMMA ReportedAs ==
  ASSUME NEW class \in {"RETRYABLE", "UNRETRYABLE"}, NEW e \in Seq(Layer),
         NEW l \in Layer, l.is # "app", l \notin Ports,
         \A p \in Ports : ~Has(e, p),
         NEW truth, truth = "stored" \/ truth = "refused" => class = "UNRETRYABLE",
         truth = "declined" => class = "RETRYABLE", truth \notin {"missing", "foreign"}
  PROVE  /\ As(class, <<l>> \o e) \in Seq(Layer) /\ Fits(truth, As(class, <<l>> \o e))
         /\ \A p \in Ports : ~Has(As(class, <<l>> \o e), p)
<1> DEFINE f == <<l>> \o e
           a == AppError(class, None)
<1>1. f \in Seq(Layer) /\ \A p \in Ports : ~Has(f, p)  BY Prefixed, HasPrefixed
<1>2. a \in Layer /\ a.is = "app" /\ a.class = class
  <2>1. class \in Classes /\ None \in Codes \cup {None}  BY DEF Classes
  <2> QED  BY <2>1, LayersAre
<1>3. As(class, f) = <<a>> \o f
  <2>1. class \in Classes  BY DEF Classes
  <2> QED  BY <2>1, AsPrefixes
<1>4. a \notin Ports  BY DEF Ports, Sentinel, AppError
<1> HIDE DEF f, a
<1>5. /\ <<a>> \o f \in Seq(Layer) /\ Carries(<<a>> \o f, "app") /\ First(<<a>> \o f, "app") = a
  BY <1>1, <1>2, Prefixed
<1>6. \A p \in Ports : ~Has(<<a>> \o f, p)  BY <1>1, <1>2, <1>4, HasPrefixed
<1>7. Fits(truth, <<a>> \o f)  BY <1>2, <1>5 DEF Fits
<1> QED  BY <1>1, <1>3, <1>5, <1>6, <1>7 DEF f

(* What a reported failure is to the use case that meets it.                *)
Settled(truth, e) ==
  e \in Seq(Layer) /\ Fits(truth, e) /\ (truth \in Judged => \A p \in Ports : ~Has(e, p))

(* Report, for the failure o.                                               *)
Reported(o) ==
  CASE o.from = "stored"   -> corrupt(o.err)
    [] o.from = "finding"  -> auditFinding(o.err)
    [] o.from = "postgres" -> fail(o.err)
    [] o.from = "sqs"      -> sqsFail(o.err)
    [] o.from = "entry"    -> entryFailure(o.err)
    [] OTHER               -> o.err

(* No layer but a sentinel of the port is one.                              *)
LEMMA NoPort ==
  ASSUME NEW l \in Layer, l.is # "sentinel"
  PROVE  l \notin Ports
BY DEF Ports, Sentinel

(* Refusals of the domain: of a submission, of a stored row, of an audit.   *)
LEMMA DomainReports ==
  ASSUME NEW o \in FromDomain
  PROVE  Settled(o.truth, Reported(o)) /\ o.from # "sqs"
<1>1. PICK c \in Codes : o \in {Origin("submission", "caller", <<Refusal(c)>>),
                                Origin("stored", "stored", <<Refusal(c)>>),
                                Origin("finding", "stored", <<Refusal(c)>>)}
  BY DEF FromDomain
<1> DEFINE e == <<Refusal(c)>>
<1>2. Refusal(c) \in Layer /\ Refusal(c).is = "failure" /\ Refusal(c).code = c  BY LayersAre
<1>3. /\ e \in Seq(Layer) /\ Carries(e, "failure") /\ First(e, "failure").code = c
      /\ \A p \in Ports : ~Has(e, p)
  BY <1>2, Single, NoPort
<1> HIDE DEF e
<1>4. CASE o = Origin("submission", "caller", e)
  <2>1. Reported(o) = e /\ o.truth = "caller" /\ o.from = "submission"
    BY <1>4 DEF Reported, Origin
  <2> QED  BY <1>3, <2>1 DEF Settled, Fits, Judged
<1>5. CASE o = Origin("stored", "stored", e)
  <2>1. Reported(o) = As("UNRETRYABLE", <<Context>> \o e) /\ o.truth = "stored" /\ o.from = "stored"
    BY <1>5 DEF Reported, Origin, corrupt
  <2>2. Context \in Layer /\ Context.is # "app" /\ Context \notin Ports  BY LayersAre, NoPort
  <2> QED  BY <1>3, <2>1, <2>2, ReportedAs DEF Settled
<1>6. CASE o = Origin("finding", "stored", e)
  <2> DEFINE a == AppError("AUDIT", c)
  <2>1. failureCodeOf(e) = c  BY <1>3 DEF failureCodeOf
  <2>2. Reported(o) = <<a>> \o e /\ o.truth = "stored" /\ o.from = "finding"
    BY <1>6, <2>1 DEF Reported, Origin, auditFinding
  <2>3. a \in Layer /\ a.is = "app" /\ a.class = "AUDIT"
    <3>1. "AUDIT" \in Classes /\ c \in Codes \cup {None}  BY DEF Classes
    <3> QED  BY <3>1, LayersAre
  <2> HIDE DEF a
  <2>4. /\ <<a>> \o e \in Seq(Layer) /\ Carries(<<a>> \o e, "app") /\ First(<<a>> \o e, "app") = a
        /\ \A p \in Ports : ~Has(<<a>> \o e, p)
    BY <1>3, <2>3, Prefixed, HasPrefixed, NoPort
  <2> QED  BY <2>2, <2>3, <2>4 DEF Settled, Fits
<1> QED  BY <1>1, <1>4, <1>5, <1>6 DEF e

(* What PostgreSQL and its driver report.                                   *)
ruleOf(e) == IF Carries(e, "pg") THEN First(e, "pg").rule ELSE None

(* fail, for an error that breaks no rule the port has a name for.         *)
LEMMA FailReports ==
  ASSUME NEW e \in Seq(Layer), \A p \in Ports : ~Has(e, p), NEW truth,
         ruleOf(e) \notin DOMAIN PortErrors, truth \in {"declined", "refused", "lost"},
         truth = "declined" => ruleOf(e) \in TransientRules \/ transient(e),
         truth = "refused" => ~(ruleOf(e) \in TransientRules \/ transient(e))
  PROVE  Settled(truth, fail(e))
<1> DEFINE class == IF ruleOf(e) \in TransientRules \/ transient(e) THEN "RETRYABLE" ELSE "UNRETRYABLE"
<1>1. fail(e) = As(class, <<Context>> \o e)  BY DEF fail, ruleOf
<1>2. Context \in Layer /\ Context.is # "app" /\ Context \notin Ports  BY LayersAre, NoPort
<1>3. /\ class \in {"RETRYABLE", "UNRETRYABLE"}
      /\ truth = "declined" => class = "RETRYABLE"
      /\ truth = "refused" => class = "UNRETRYABLE"
  OBVIOUS
<1> HIDE DEF class
<1> QED  BY <1>1, <1>2, <1>3, ReportedAs DEF Settled

(* One error of the driver, or of the server.                               *)
LEMMA DriverAlone ==
  ASSUME NEW d \in {"context", "txClosed", "connect", "network", "connection", "timeout"}
  PROVE  /\ <<Driver(d)>> \in Seq(Layer) /\ \A p \in Ports : ~Has(<<Driver(d)>>, p)
         /\ ~Carries(<<Driver(d)>>, "pg") /\ ~Carries(<<Driver(d)>>, "sdk")
         /\ Has(<<Driver(d)>>, Driver(d))
<1>1. Driver(d) \in Layer /\ Driver(d).is = "driver"  BY LayersAre
<1> QED  BY <1>1, Single, NoPort

(* One error of the server, with the rule it names.                         *)
LEMMA ServerAlone ==
  ASSUME NEW s \in TransientStates \cup OtherStates,
         NEW r \in DOMAIN PortErrors \cup TransientRules \cup {"wallet_balance_check", None}
  PROVE  /\ <<PgError(s, r)>> \in Seq(Layer) /\ \A p \in Ports : ~Has(<<PgError(s, r)>>, p)
         /\ ruleOf(<<PgError(s, r)>>) = r
         /\ transient(<<PgError(s, r)>>) <=> s \in TransientStates
<1> DEFINE l == PgError(s, r)
<1>1. l \in Layer /\ l.is = "pg" /\ l.state = s /\ l.rule = r  BY LayersAre
<1>2. /\ <<l>> \in Seq(Layer) /\ \A p \in Ports : ~Has(<<l>>, p)
      /\ Carries(<<l>>, "pg") /\ First(<<l>>, "pg") = l
  BY <1>1, Single, NoPort
<1>3. \A d : ~Has(<<l>>, Driver(d))
  <2>1. \A d : Driver(d) # l  BY <1>1 DEF Driver
  <2> HIDE DEF l
  <2> QED  BY <1>1, <2>1, Single
<1> HIDE DEF l
<1>4. ruleOf(<<l>>) = r  BY <1>1, <1>2 DEF ruleOf
<1>5. transient(<<l>>) <=> s \in TransientStates  BY <1>1, <1>2, <1>3 DEF transient
<1> QED  BY <1>2, <1>4, <1>5 DEF l

(* Which rules and states the adapter tells apart: none of them twice.      *)
LEMMA RulesAre ==
  /\ None \notin DOMAIN PortErrors /\ None \notin TransientRules
  /\ "wallet_balance_check" \notin DOMAIN PortErrors \cup TransientRules
  /\ TransientRules \cap DOMAIN PortErrors = {}
  /\ TransientStates \cap OtherStates = {} /\ {"23505", "23514"} \subseteq OtherStates
  /\ \A r \in DOMAIN PortErrors : Sentinel(PortErrors[r]) \in Layer
<1>1. None \notin DOMAIN PortErrors /\ None \notin TransientRules  BY FailureAssumption
<1>2. DOMAIN PortErrors = {"wager_transaction_provider_external_key",
        "wager_transaction_provider_idempotency_key",
        "wager_transaction_provider_external_id_key", "wallet_player_currency_key",
        "active_reversal_pkey", "wager_transaction_one_successful_reversal_per_kind"}
  BY DEF PortErrors
<1>3. "wallet_balance_check" \notin DOMAIN PortErrors \cup TransientRules
      /\ TransientRules \cap DOMAIN PortErrors = {}
  BY <1>2 DEF TransientRules
<1>4. TransientStates \cap OtherStates = {} /\ {"23505", "23514"} \subseteq OtherStates
  BY DEF TransientStates, OtherStates
<1>5. \A r \in DOMAIN PortErrors : PortErrors[r] \in {"duplicate", "walletExists", "reversed"}
  BY <1>2 DEF PortErrors
<1>6. \A r \in DOMAIN PortErrors : Sentinel(PortErrors[r]) \in Layer  BY <1>5, LayersAre
<1> QED  BY <1>1, <1>3, <1>4, <1>6

(* An error of two layers is one put in front of the other.                 *)
LEMMA TwoLayers == ASSUME NEW a, NEW b PROVE <<a>> \o <<b>> = <<a, b>>
<1>1. PICK s, t : s = <<a>> \o <<b>> /\ t = <<a, b>>  OBVIOUS
<1>2. <<a>> \in Seq({a, b}) /\ <<b>> \in Seq({a, b}) /\ <<a, b>> \in Seq({a, b})  OBVIOUS
<1>3. s \in Seq({a, b}) /\ Len(s) = 2 /\ s[1] = a /\ s[2] = b  BY <1>1, <1>2
<1>4. t \in Seq({a, b}) /\ Len(t) = 2 /\ t[1] = a /\ t[2] = b  BY <1>1, <1>2
<1>5. \A i \in 1 .. Len(s) : s[i] = t[i]  BY <1>3, <1>4
<1>6. s = t  BY <1>3, <1>4, <1>5, SeqEqual
<1> QED  BY <1>1, <1>6

(* Every failure of the store, reported by fail.                            *)
LEMMA PostgresReports ==
  ASSUME NEW o \in FromPostgres
  PROVE  Settled(o.truth, Reported(o)) /\ o.from # "sqs"
<1>0. \A truth, e : /\ Origin("postgres", truth, e).truth = truth
                    /\ Origin("postgres", truth, e).from = "postgres"
                    /\ Reported(Origin("postgres", truth, e)) = fail(e)
  BY DEF Origin, Reported
<1>1. ASSUME NEW d \in {"context", "txClosed", "connect"},
             o = Origin("postgres", "declined", <<Driver(d)>>)
      PROVE  Settled(o.truth, Reported(o)) /\ o.from # "sqs"
  <2> DEFINE e == <<Driver(d)>>
  <2>1. e \in Seq(Layer) /\ (\A p \in Ports : ~Has(e, p)) /\ ~Carries(e, "pg") /\ Has(e, Driver(d))
    BY DriverAlone
  <2> HIDE DEF e
  <2>2. ruleOf(e) \notin DOMAIN PortErrors  BY <2>1, RulesAre DEF ruleOf
  <2>3. transient(e)  BY <2>1 DEF transient
  <2>4. Settled("declined", fail(e))  BY <2>1, <2>2, <2>3, FailReports
  <2> QED  BY <1>0, <1>1, <2>4 DEF e
<1>2. ASSUME NEW s \in TransientStates \cup OtherStates,
             o = Origin("postgres", "declined", <<Driver("connect"), PgError(s, None)>>)
      PROVE  Settled(o.truth, Reported(o)) /\ o.from # "sqs"
  <2> DEFINE p == <<PgError(s, None)>>
             l == Driver("connect")
             e == <<l>> \o p
  <2>1. p \in Seq(Layer) /\ (\A q \in Ports : ~Has(p, q)) /\ ruleOf(p) = None
    BY ServerAlone
  <2>2. l \in Layer /\ l.is = "driver" /\ l \notin Ports  BY LayersAre, NoPort
  <2>3. e = <<Driver("connect"), PgError(s, None)>>  BY TwoLayers
  <2>4. e \in Seq(Layer) /\ (\A q \in Ports : ~Has(e, q)) /\ Has(e, l) /\ ruleOf(e) = None
    <3> HIDE DEF l, p
    <3>1. e \in Seq(Layer) /\ (\A q \in Ports : ~Has(e, q)) /\ Has(e, l)
      BY <2>1, <2>2, Prefixed, HasPrefixed
    <3>2. /\ Carries(e, "pg") <=> Carries(p, "pg")
          /\ Carries(p, "pg") => First(e, "pg") = First(p, "pg")
      BY <2>1, <2>2, Prefixed
    <3> HIDE DEF e
    <3> QED  BY <2>1, <3>1, <3>2 DEF ruleOf
  <2>5. transient(e)  BY <2>4 DEF transient
  <2>6. ruleOf(e) \notin DOMAIN PortErrors  BY <2>4, RulesAre
  <2> HIDE DEF e
  <2>7. Settled("declined", fail(e))  BY <2>4, <2>5, <2>6, FailReports
  <2> QED  BY <1>0, <1>2, <2>3, <2>7
<1>3. ASSUME NEW s \in TransientStates, o = Origin("postgres", "declined", <<PgError(s, None)>>)
      PROVE  Settled(o.truth, Reported(o)) /\ o.from # "sqs"
  <2> DEFINE e == <<PgError(s, None)>>
  <2>1. e \in Seq(Layer) /\ (\A p \in Ports : ~Has(e, p)) /\ ruleOf(e) = None /\ transient(e)
    BY ServerAlone
  <2>2. ruleOf(e) \notin DOMAIN PortErrors  BY <2>1, RulesAre
  <2> HIDE DEF e
  <2>3. Settled("declined", fail(e))  BY <2>1, <2>2, FailReports
  <2> QED  BY <1>0, <1>3, <2>3 DEF e
<1>4. ASSUME NEW r \in TransientRules, o = Origin("postgres", "declined", <<PgError("23505", r)>>)
      PROVE  Settled(o.truth, Reported(o)) /\ o.from # "sqs"
  <2>1. Settled("declined", fail(<<PgError("23505", r)>>))  BY ServerAlone, RulesAre, FailReports
  <2> QED  BY <1>0, <1>4, <2>1
<1>5. ASSUME NEW s \in OtherStates, o = Origin("postgres", "refused", <<PgError(s, None)>>)
      PROVE  Settled(o.truth, Reported(o)) /\ o.from # "sqs"
  <2>1. s \notin TransientStates  BY RulesAre
  <2>2. Settled("refused", fail(<<PgError(s, None)>>))  BY <2>1, ServerAlone, RulesAre, FailReports
  <2> QED  BY <1>0, <1>5, <2>2
<1>6. CASE o = Origin("postgres", "refused", <<PgError("23514", "wallet_balance_check")>>)
  <2>1. "23514" \notin TransientStates  BY RulesAre
  <2>2. Settled("refused", fail(<<PgError("23514", "wallet_balance_check")>>))
    BY <2>1, ServerAlone, RulesAre, FailReports
  <2> QED  BY <1>0, <1>6, <2>2
<1>7. ASSUME NEW r \in DOMAIN PortErrors, o = Origin("postgres", "race", <<PgError("23505", r)>>)
      PROVE  Settled(o.truth, Reported(o)) /\ o.from # "sqs"
  <2> DEFINE e == <<PgError("23505", r)>>
             n == Sentinel(PortErrors[r])
  <2>1. e \in Seq(Layer) /\ ruleOf(e) = r  BY ServerAlone, RulesAre
  <2>2. n \in Layer /\ Context \in Layer  BY LayersAre, RulesAre
  <2> HIDE DEF e
  <2>3. fail(e) = <<Context, n>> \o e  BY <2>1 DEF fail, ruleOf
  <2>4. fail(e) \in Seq(Layer)
    <3> HIDE DEF n
    <3> QED  BY <2>1, <2>2, <2>3
  <2>5. Settled("race", fail(e))  BY <2>4 DEF Settled, Fits, Judged
  <2> QED  BY <1>0, <1>7, <2>5 DEF e
<1>8. CASE o = Origin("postgres", "lost", <<Driver("network")>>)
  <2> DEFINE e == <<Driver("network")>>
  <2>1. e \in Seq(Layer) /\ (\A p \in Ports : ~Has(e, p)) /\ ~Carries(e, "pg")
    BY DriverAlone
  <2> HIDE DEF e
  <2>2. ruleOf(e) \notin DOMAIN PortErrors  BY <2>1, RulesAre DEF ruleOf
  <2>3. Settled("lost", fail(e))  BY <2>1, <2>2, FailReports
  <2> QED  BY <1>0, <1>8, <2>3 DEF e
<1> QED
  <2>1. \/ \E d \in {"context", "txClosed", "connect"} :
             o = Origin("postgres", "declined", <<Driver(d)>>)
        \/ \E s \in TransientStates \cup OtherStates :
             o = Origin("postgres", "declined", <<Driver("connect"), PgError(s, None)>>)
        \/ \E s \in TransientStates : o = Origin("postgres", "declined", <<PgError(s, None)>>)
        \/ \E r \in TransientRules : o = Origin("postgres", "declined", <<PgError("23505", r)>>)
        \/ \E s \in OtherStates : o = Origin("postgres", "refused", <<PgError(s, None)>>)
        \/ o = Origin("postgres", "refused", <<PgError("23514", "wallet_balance_check")>>)
        \/ \E r \in DOMAIN PortErrors : o = Origin("postgres", "race", <<PgError("23505", r)>>)
        \/ o = Origin("postgres", "lost", <<Driver("network")>>)
    BY DEF FromPostgres
  <2> QED  BY Zenon, <1>1, <1>2, <1>3, <1>4, <1>5, <1>6, <1>7, <1>8, <2>1

(* What the queue's SDK reports, and a refused entry of a batch.            *)
LEMMA Declining ==
  ASSUME NEW e \in Seq(Layer), \A p \in Ports : ~Has(e, p), NEW truth \in {"declined", "refused"},
         retryable(e) <=> truth = "declined"
  PROVE  Settled(truth, sqsFail(e))
<1> DEFINE class == IF retryable(e) THEN "RETRYABLE" ELSE "UNRETRYABLE"
<1>1. sqsFail(e) = As(class, <<Context>> \o e)  BY DEF sqsFail
<1>2. Context \in Layer /\ Context.is # "app" /\ Context \notin Ports  BY LayersAre, NoPort
<1>3. /\ class \in {"RETRYABLE", "UNRETRYABLE"}
      /\ truth = "declined" => class = "RETRYABLE"
      /\ truth = "refused" => class = "UNRETRYABLE"
  OBVIOUS
<1> HIDE DEF class
<1> QED  BY <1>1, <1>2, <1>3, ReportedAs DEF Settled

(* A refused entry of a batch: its code settles it first, then the flag.    *)
LEMMA EntryReports ==
  ASSUME NEW c \in {"throttle", "entryFault", "other"}, NEW f \in BOOLEAN,
         NEW truth \in {"declined", "refused"},
         truth = "refused" <=> c # "throttle" /\ (c = "entryFault" \/ f)
  PROVE  Settled(truth, entryFailure(<<Entry(c, f)>>))
<1> DEFINE l == Entry(c, f)
<1>1. l \in Layer /\ l.is = "entry" /\ l.code = c /\ l.senderFault = f  BY LayersAre
<1>2. First(<<l>>, "entry") = l  BY <1>1, Single
<1>3. PICK e : e = <<>>  OBVIOUS
<1>4. e \in Seq(Layer) /\ <<l>> = <<l>> \o e /\ \A p \in Ports : ~Has(e, p)
  BY <1>3 DEF Has, ToSet
<1> HIDE DEF l
<1> DEFINE class == IF l.code # "throttle" /\ (l.code = "entryFault" \/ l.senderFault)
                    THEN "UNRETRYABLE" ELSE "RETRYABLE"
<1>5. entryFailure(<<l>>) = As(class, <<l>>)  BY <1>2 DEF entryFailure
<1>6. /\ class \in {"RETRYABLE", "UNRETRYABLE"}
      /\ truth = "declined" => class = "RETRYABLE"
      /\ truth = "refused" => class = "UNRETRYABLE"
  BY <1>1
<1>7. l \notin Ports  BY <1>1, NoPort
<1> HIDE DEF class
<1>8. Settled(truth, As(class, <<l>> \o e))  BY <1>1, <1>4, <1>6, <1>7, ReportedAs DEF Settled
<1> QED  BY <1>4, <1>5, <1>8 DEF l

(* Every failure of the queue.                                              *)
LEMMA QueueReports ==
  ASSUME NEW o \in FromQueue
  PROVE  Settled(o.truth, Reported(o)) /\ (o.from = "sqs" => o.truth \in {"declined", "refused"})
<1>0. \A truth, e : /\ Origin("sqs", truth, e).truth = truth
                    /\ Origin("sqs", truth, e).from = "sqs"
                    /\ Reported(Origin("sqs", truth, e)) = sqsFail(e)
                    /\ Origin("entry", truth, e).truth = truth
                    /\ Origin("entry", truth, e).from = "entry"
                    /\ Reported(Origin("entry", truth, e)) = entryFailure(e)
  BY DEF Origin, Reported
<1>1. ASSUME NEW d \in {"context", "connection", "timeout"},
             o = Origin("sqs", "declined", <<Driver(d)>>)
      PROVE  Settled(o.truth, Reported(o)) /\ (o.from = "sqs" => o.truth \in {"declined", "refused"})
  <2> DEFINE e == <<Driver(d)>>
  <2>1. e \in Seq(Layer) /\ (\A p \in Ports : ~Has(e, p)) /\ ~Carries(e, "sdk") /\ Has(e, Driver(d))
    BY DriverAlone
  <2> HIDE DEF e
  <2>2. retryable(e)  BY <2>1 DEF retryable
  <2>3. Settled("declined", sqsFail(e))  BY <2>1, <2>2, Declining
  <2> QED  BY <1>0, <1>1, <2>3 DEF e
<1>2. ASSUME NEW s \in Sdk,
             o = Origin("sqs", IF Declined(s) THEN "declined" ELSE "refused", <<s>>)
      PROVE  Settled(o.truth, Reported(o)) /\ (o.from = "sqs" => o.truth \in {"declined", "refused"})
  <2> DEFINE e == <<s>>
             truth == IF Declined(s) THEN "declined" ELSE "refused"
  <2>1. s \in Layer /\ s.is = "sdk"  BY LayersAre
  <2>2. /\ e \in Seq(Layer) /\ \A p \in Ports : ~Has(e, p)
        /\ Carries(e, "sdk") /\ First(e, "sdk") = s
    BY <2>1, Single, NoPort
  <2>3. \A d : ~Has(e, Driver(d))
    <3>1. \A d : Driver(d) # s  BY <2>1 DEF Driver
    <3> QED  BY <2>1, <3>1, Single
  <2> HIDE DEF e
  <2>4. retryable(e) <=> Declined(s)  BY <2>2, <2>3 DEF retryable, Declined, RetryableStatuses
  <2>5. truth \in {"declined", "refused"} /\ (Declined(s) <=> truth = "declined")  OBVIOUS
  <2> HIDE DEF truth
  <2>6. Settled(truth, sqsFail(e))  BY <2>2, <2>4, <2>5, Declining
  <2> QED  BY <1>0, <1>2, <2>5, <2>6 DEF e, truth
<1>3. ASSUME NEW c \in {"throttle", "entryFault", "other"}, NEW f \in BOOLEAN,
             NEW truth \in {"declined", "refused"},
             truth = "refused" <=> c # "throttle" /\ (c = "entryFault" \/ f),
             o = Origin("entry", truth, <<Entry(c, f)>>)
      PROVE  Settled(o.truth, Reported(o)) /\ (o.from = "sqs" => o.truth \in {"declined", "refused"})
  <2>1. Settled(truth, entryFailure(<<Entry(c, f)>>))  BY <1>3, EntryReports
  <2> QED  BY <1>0, <1>3, <2>1
<1> QED
  <2>1. \/ \E d \in {"context", "connection", "timeout"} :
             o = Origin("sqs", "declined", <<Driver(d)>>)
        \/ \E s \in Sdk : o = Origin("sqs", IF Declined(s) THEN "declined" ELSE "refused", <<s>>)
        \/ \E f \in BOOLEAN : o = Origin("entry", "declined", <<Entry("throttle", f)>>)
        \/ \E f \in BOOLEAN : o = Origin("entry", "refused", <<Entry("entryFault", f)>>)
        \/ \E f \in BOOLEAN :
             o = Origin("entry", IF f THEN "refused" ELSE "declined", <<Entry("other", f)>>)
    BY DEF FromQueue
  <2>2. ASSUME NEW f \in BOOLEAN, o = Origin("entry", "declined", <<Entry("throttle", f)>>)
        PROVE  Settled(o.truth, Reported(o)) /\ (o.from = "sqs" => o.truth \in {"declined", "refused"})
    BY <1>3, <2>2
  <2>3. ASSUME NEW f \in BOOLEAN, o = Origin("entry", "refused", <<Entry("entryFault", f)>>)
        PROVE  Settled(o.truth, Reported(o)) /\ (o.from = "sqs" => o.truth \in {"declined", "refused"})
    BY <1>3, <2>3
  <2>4. ASSUME NEW f \in BOOLEAN,
               o = Origin("entry", IF f THEN "refused" ELSE "declined", <<Entry("other", f)>>)
        PROVE  Settled(o.truth, Reported(o)) /\ (o.from = "sqs" => o.truth \in {"declined", "refused"})
    <3> DEFINE truth == IF f THEN "refused" ELSE "declined"
    <3>1. truth \in {"declined", "refused"} /\ (truth = "refused" <=> f)  OBVIOUS
    <3> HIDE DEF truth
    <3> QED  BY <1>3, <2>4, <3>1 DEF truth
  <2> QED  BY Zenon, <1>1, <1>2, <2>1, <2>2, <2>3, <2>4

(* What the application itself reports.                                     *)
LEMMA AppReports ==
  ASSUME NEW o \in FromApp
  PROVE  Settled(o.truth, Reported(o)) /\ o.from # "sqs"
<1>0. \A truth, e : /\ Origin("app", truth, e).truth = truth
                    /\ Origin("app", truth, e).from = "app"
                    /\ Reported(Origin("app", truth, e)) = e
  BY DEF Origin, Reported
<1>1. ASSUME NEW class \in Classes, NEW c \in Codes \cup {None}, NEW truth \in {"caller", "defect"},
             o = Origin("app", truth, <<AppError(class, c)>>)
      PROVE  Settled(o.truth, Reported(o)) /\ o.from # "sqs"
  <2>1. <<AppError(class, c)>> \in Seq(Layer)  BY LayersAre, Single
  <2> QED  BY <1>0, <1>1, <2>1 DEF Settled, Fits, Judged
<1>2. CASE o = Origin("app", "declined", As("RETRYABLE", <<Context, Sentinel("lostUpdate")>>))
  <2> DEFINE l == Sentinel("lostUpdate")
             e == <<l>>
  <2>1. l \in Layer /\ l \notin Ports  BY LayersAre DEF Ports, Sentinel
  <2>2. e \in Seq(Layer) /\ \A p \in Ports : ~Has(e, p)
    <3> HIDE DEF l
    <3> QED  BY <2>1, Single
  <2>3. Context \in Layer /\ Context.is # "app" /\ Context \notin Ports  BY LayersAre, NoPort
  <2>4. <<Context>> \o e = <<Context, l>>  BY TwoLayers
  <2> HIDE DEF e, l
  <2>5. Settled("declined", As("RETRYABLE", <<Context>> \o e))
    <3>1. PICK class, truth : class = "RETRYABLE" /\ truth = "declined"  OBVIOUS
    <3>2. Settled(truth, As(class, <<Context>> \o e))
      BY <2>2, <2>3, <3>1, ReportedAs DEF Settled
    <3> QED  BY <3>1, <3>2
  <2> QED  BY <1>0, <1>2, <2>4, <2>5 DEF l
<1>3. CASE o = Origin("app", "missing", <<AppError("NOT_FOUND", None)>>)
  <2> DEFINE l == AppError("NOT_FOUND", None)
  <2>1. l \in Layer /\ l.is = "app"
    <3>1. "NOT_FOUND" \in Classes /\ None \in Codes \cup {None}  BY DEF Classes
    <3> QED  BY <3>1, LayersAre
  <2> HIDE DEF l
  <2>2. /\ <<l>> \in Seq(Layer) /\ \A p \in Ports : ~Has(<<l>>, p)
        /\ Carries(<<l>>, "app") /\ First(<<l>>, "app") = l /\ ~Carries(<<l>>, "failure")
    BY <2>1, Single, NoPort
  <2>3. Settled("missing", <<l>>)  BY <2>2 DEF Settled, Fits, l
  <2> QED  BY <1>0, <1>3, <2>3 DEF l
<1>4. ASSUME NEW n \in {"foreignOperation", "foreignWallet"},
             o = Origin("app", "foreign", notFoundWrapping(n))
      PROVE  Settled(o.truth, Reported(o)) /\ o.from # "sqs"
  <2> DEFINE l == AppError("NOT_FOUND", None)
             m == Sentinel(n)
             f == <<m>>
             e == <<l>> \o f
  <2>1. l \in Layer /\ l.is = "app"
    <3>1. "NOT_FOUND" \in Classes /\ None \in Codes \cup {None}  BY DEF Classes
    <3> QED  BY <3>1, LayersAre
  <2>2. m \in Layer /\ m.is = "sentinel" /\ m \notin Ports  BY LayersAre DEF Ports, Sentinel
  <2>3. notFoundWrapping(n) = e  BY TwoLayers DEF notFoundWrapping
  <2> HIDE DEF l, m
  <2>4. f \in Seq(Layer) /\ (\A p \in Ports : ~Has(f, p)) /\ ~Carries(f, "failure")
    BY <2>2, Single
  <2> HIDE DEF f
  <2>5. /\ e \in Seq(Layer) /\ (\A p \in Ports : ~Has(e, p))
        /\ Carries(e, "app") /\ First(e, "app") = l /\ ~Carries(e, "failure")
    BY <2>1, <2>4, Prefixed, HasPrefixed, NoPort
  <2> HIDE DEF e
  <2>6. Settled("foreign", e)  BY <2>5 DEF Settled, Fits, l
  <2> QED  BY <1>0, <1>4, <2>3, <2>6
<1> QED
  <2>1. /\ {"INVALID", "UNAUTHORIZED", "UNRETRYABLE"} \subseteq Classes
        /\ {"INVALID_FIELD_FORMAT", "MISSING_REQUIRED_FIELD", None} \subseteq Codes \cup {None}
    BY DEF Classes, Codes, CorrectableCodes
  <2>2. \/ \E c \in {"INVALID_FIELD_FORMAT", "MISSING_REQUIRED_FIELD"} :
             o = Origin("app", "caller", <<AppError("INVALID", c)>>)
        \/ o = Origin("app", "declined", As("RETRYABLE", <<Context, Sentinel("lostUpdate")>>))
        \/ o = Origin("app", "caller", <<AppError("UNAUTHORIZED", None)>>)
        \/ o = Origin("app", "defect", <<AppError("UNRETRYABLE", None)>>)
        \/ o = Origin("app", "missing", <<AppError("NOT_FOUND", None)>>)
        \/ \E n \in {"foreignOperation", "foreignWallet"} :
             o = Origin("app", "foreign", notFoundWrapping(n))
    BY DEF FromApp
  <2> QED  BY Zenon, <1>1, <1>2, <1>3, <1>4, <2>1, <2>2

(* A failure is reported: what arose becomes what the use case meets.       *)
LEMMA ReportStep ==
  ASSUME FailureInv, Report
  PROVE  FailureInv'
<1>1. /\ at = "arose" /\ at' = "use case" /\ origin' = origin /\ answer' = answer
      /\ origin \in Origins /\ err = origin.err
  BY DEF Report, FailureInv
<1>2. err' = Reported(origin)  BY <1>1 DEF Report, Reported
<1>3. Settled(origin.truth, Reported(origin)) /\ (origin.from = "sqs" => origin.truth \in {"declined", "refused"})
  BY <1>1, DomainReports, PostgresReports, QueueReports, AppReports DEF Origins
<1>4. origin.from = "sqs" => origin.truth \in {"declined", "refused"}  BY <1>3
<1>5. DOMAIN origin = {"from", "truth", "err"}  BY DEF FailureInv
<1> QED  BY <1>1, <1>2, <1>3, <1>5 DEF FailureInv, Settled, AnswerFitsFailure

(* A caller adds what it was doing.                                         *)
LEMMA WrapStep ==
  ASSUME FailureInv, Wrap
  PROVE  FailureInv'
<1>1. /\ at \in {"use case", "edge"} /\ at' = at /\ origin' = origin /\ answer' = answer
      /\ err' = <<Context>> \o err
      /\ err \in Seq(Layer) /\ Fits(origin.truth, err)
  BY DEF Wrap, FailureInv
<1>2. /\ err' \in Seq(Layer) /\ Fits(origin.truth, err')
      /\ \A p \in Ports : Has(err', p) => Has(err, p)
  BY <1>1, ContextFits
<1>3. Fits(origin.truth, err)'  BY <1>1, <1>2
<1>4. AnswerFitsFailure'  BY <1>1 DEF AnswerFitsFailure
<1>5. (at = "use case" /\ origin.truth \in Judged => \A p \in Ports : ~Has(err, p))'
  BY <1>1, <1>2 DEF FailureInv
<1>6. (at = "arose" => origin \in Origins /\ err = origin.err)'  BY <1>1
<1> QED  BY <1>1, <1>2, <1>3, <1>4, <1>5, <1>6 DEF FailureInv

(* A batch aborted: whatever stopped it, the rest of it was not offered.    *)
LEMMA AbortStep ==
  ASSUME FailureInv, Abort
  PROVE  FailureInv'
<1> DEFINE l == Sentinel("aborted")
<1>1. /\ at = "use case" /\ at' = at /\ answer' = answer /\ origin.from = "sqs"
      /\ origin' = [origin EXCEPT !.truth = "declined"]
      /\ err' = As("RETRYABLE", <<l>> \o err)
      /\ err \in Seq(Layer) /\ DOMAIN origin = {"from", "truth", "err"}
      /\ origin.truth \in {"declined", "refused"}
  BY DEF Abort, FailureInv
<1>2. origin'.truth = "declined" /\ origin'.from = "sqs" /\ DOMAIN origin' = {"from", "truth", "err"}
  BY <1>1
<1>3. \A p \in Ports : ~Has(err, p)  BY <1>1 DEF FailureInv, Judged
<1>4. l \in Layer /\ l.is # "app" /\ l \notin Ports  BY LayersAre DEF Ports, Sentinel
<1> HIDE DEF l
<1>5. /\ err' \in Seq(Layer) /\ Fits("declined", err')
      /\ \A p \in Ports : ~Has(err', p)
  <2>1. PICK class, truth : class = "RETRYABLE" /\ truth = "declined"  OBVIOUS
  <2>2. /\ As(class, <<l>> \o err) \in Seq(Layer) /\ Fits(truth, As(class, <<l>> \o err))
        /\ \A p \in Ports : ~Has(As(class, <<l>> \o err), p)
    BY <1>1, <1>3, <1>4, <2>1, ReportedAs
  <2> QED  BY <1>1, <2>1, <2>2
<1>6. Fits(origin.truth, err)'  BY <1>2, <1>5
<1>7. AnswerFitsFailure'  BY <1>1 DEF AnswerFitsFailure
<1>8. (origin.from = "sqs" => origin.truth \in {"declined", "refused"})'  BY <1>2
<1>9. (at = "use case" /\ origin.truth \in Judged => \A p \in Ports : ~Has(err, p))'  BY <1>5
<1>10. (at = "arose" => origin \in Origins /\ err = origin.err)'  BY <1>1
<1>11. at' = "use case" /\ DOMAIN origin' = {"from", "truth", "err"} /\ err' \in Seq(Layer)
  BY <1>1, <1>2, <1>5
<1> QED  BY <1>6, <1>7, <1>8, <1>9, <1>10, <1>11 DEF FailureInv

(* Classifying an error once more changes neither its class nor what fits.  *)
LEMMA ConcludeStep ==
  ASSUME FailureInv, Conclude
  PROVE  FailureInv'
<1>1. /\ at = "use case" /\ origin' = origin /\ answer' = answer
      /\ err \in Seq(Layer) /\ Fits(origin.truth, err)
      /\ origin.truth \in Judged => \A p \in Ports : ~Has(err, p)
  BY DEF Conclude, FailureInv
<1>2. CASE Has(err, Sentinel("duplicate"))
  <2>1. at' = "resolved" /\ err' = err  BY <1>2 DEF Conclude
  <2> QED  BY <1>1, <2>1 DEF FailureInv, AnswerFitsFailure
<1>3. CASE ~Has(err, Sentinel("duplicate"))
  <2>1. /\ at' = "edge"
        /\ err' = IF Has(err, Sentinel("reversed"))
                      THEN conflict("REFERENCE_ALREADY_REVERSED", err)
                    ELSE IF Has(err, Sentinel("walletExists"))
                      THEN conflict("WALLET_ALREADY_EXISTS", err)
                    ELSE classify(err)
    BY <1>3 DEF Conclude
  <2>2. ASSUME NEW class \in Classes, NEW c \in Codes \cup {None}
        PROVE  <<AppError(class, c)>> \o err \in Seq(Layer)
    <3>1. AppError(class, c) \in Layer  BY LayersAre
    <3> QED  BY <1>1, <3>1, Prefixed
  <2>3. err' \in Seq(Layer) /\ Fits(origin.truth, err')
    <3>1. CASE Has(err, Sentinel("reversed")) \/ Has(err, Sentinel("walletExists"))
      <4>1. origin.truth \notin Judged  BY <1>1, <3>1 DEF Ports
      <4>2. PICK c \in Codes : err' = conflict(c, err)
        <5>1. {"REFERENCE_ALREADY_REVERSED", "WALLET_ALREADY_EXISTS"} \subseteq Codes
          BY DEF Codes, DefinitiveCodes
        <5> QED  BY <2>1, <3>1, <5>1
      <4>3. err' \in Seq(Layer)
        <5>1. "CONFLICT" \in Classes  BY DEF Classes
        <5> QED  BY <2>2, <4>2, <5>1 DEF conflict
      <4> QED  BY <4>1, <4>3 DEF Fits
    <3>2. CASE ~Has(err, Sentinel("reversed")) /\ ~Has(err, Sentinel("walletExists")) /\ Carries(err, "app")
      <4>1. err' = err  BY <2>1, <3>2 DEF classify
      <4> QED  BY <1>1, <4>1
    <3>3. CASE ~Has(err, Sentinel("reversed")) /\ ~Has(err, Sentinel("walletExists")) /\ ~Carries(err, "app")
      <4>1. origin.truth \notin Judged  BY <1>1, <3>3 DEF Fits
      <4>2. err' = <<AppError(ClassOf(err), failureCodeOf(err))>> \o err  BY <2>1, <3>3 DEF classify
      <4>3. ClassOf(err) \in Classes  BY <3>3 DEF ClassOf, Classes
      <4>4. failureCodeOf(err) \in Codes \cup {None}
        <5>1. CASE Carries(err, "failure")
          <6>1. PICK i \in 1 .. Len(err) : err[i].is = "failure" /\ First(err, "failure") = err[i]
            BY <1>1, <5>1, FirstExists
          <6>2. err[i] \in Layer  BY <1>1, ElementOfSeq
          <6>3. \E c \in Codes : err[i] = Refusal(c)
            BY <6>1, <6>2 DEF Layer, AppError, Context, Sentinel, PgError, Driver, Sdk, SdkError, Entry
          <6> QED  BY <5>1, <6>1, <6>3 DEF failureCodeOf, Refusal
        <5> QED  BY <5>1 DEF failureCodeOf
      <4>5. err' \in Seq(Layer)  BY <2>2, <4>2, <4>3, <4>4
      <4> QED  BY <4>1, <4>5 DEF Fits
    <3> QED  BY <3>1, <3>2, <3>3
  <2> QED  BY <1>1, <2>1, <2>3 DEF FailureInv, AnswerFitsFailure
<1> QED  BY <1>2, <1>3

(* The answer, made of the class and the code.                              *)
LEMMA AnswerFailureStep ==
  ASSUME FailureInv, AnswerFailure
  PROVE  FailureInv'
<1>1. /\ at = "edge" /\ at' = "answered" /\ origin' = origin /\ err' = err
      /\ answer' = [status |-> statusFor(ClassOf(err)), code |-> codeFor(err),
                    message |-> disposition(ClassOf(err))]
      /\ Fits(origin.truth, err)
  BY DEF AnswerFailure, FailureInv
<1>2. answer'.status = statusFor(ClassOf(err)) /\ answer'.message = disposition(ClassOf(err))
  BY <1>1
<1>3. origin.truth \in Judged => ClassOf(err) = First(err, "app").class
  BY <1>1 DEF Fits, ClassOf
<1>4. origin.truth = "stored" => answer'.status = 500 /\ answer'.message = "poisoned"
  BY <1>1, <1>2, <1>3 DEF Fits, Judged, statusFor, disposition
<1>5. origin.truth = "declined" => answer'.status = 503 /\ answer'.message = "deferred"
  BY <1>1, <1>2, <1>3 DEF Fits, Judged, statusFor, disposition
<1>6. origin.truth = "refused" => answer'.status = 500 /\ answer'.message = "poisoned"
  BY <1>1, <1>2, <1>3 DEF Fits, Judged, statusFor, disposition
<1>7. ASSUME origin.truth \in {"foreign", "missing"}
      PROVE  answer' = [status |-> 404, code |-> "NOT_FOUND", message |-> "deferred"]
  <2>1. /\ Carries(err, "app") /\ ~Carries(err, "failure")
        /\ First(err, "app") = AppError("NOT_FOUND", None)
    BY <1>1, <1>7 DEF Fits, Judged
  <2>2. First(err, "app").class = "NOT_FOUND" /\ First(err, "app").code = None
    BY <2>1 DEF AppError
  <2>3. ClassOf(err) = "NOT_FOUND" /\ CodeOf(err) = None
    BY <2>1, <2>2 DEF ClassOf, CodeOf, failureCodeOf
  <2>4. codeFor(err) = "NOT_FOUND"  BY <2>3 DEF codeFor
  <2>5. statusFor("NOT_FOUND") = 404 /\ disposition("NOT_FOUND") = "deferred"
    BY DEF statusFor, disposition
  <2> QED  BY <1>1, <2>3, <2>4, <2>5
<1>8. AnswerFitsFailure'
  BY <1>1, <1>4, <1>5, <1>6, <1>7 DEF AnswerFitsFailure
<1> QED  BY <1>1, <1>8 DEF FailureInv

(* The next failure arises.                                                 *)
LEMMA OriginShape ==
  ASSUME NEW o \in Origins
  PROVE  /\ DOMAIN o = {"from", "truth", "err"} /\ o.err \in Seq(Layer)
         /\ o.from = "sqs" => o.truth \in {"declined", "refused"}
<1>1. o.from = "sqs" => o.truth \in {"declined", "refused"}
  BY DomainReports, PostgresReports, QueueReports, AppReports DEF Origins
<1>2. ASSUME NEW from, NEW truth, NEW e \in Seq(Layer), o = Origin(from, truth, e)
      PROVE  DOMAIN o = {"from", "truth", "err"} /\ o.err \in Seq(Layer)
  BY <1>2 DEF Origin
<1>3. \A l \in Layer : <<l>> \in Seq(Layer)  OBVIOUS
<1>4. ASSUME o \in FromDomain PROVE DOMAIN o = {"from", "truth", "err"} /\ o.err \in Seq(Layer)
  <2>1. PICK c \in Codes : \E from, truth : o = Origin(from, truth, <<Refusal(c)>>)
    BY <1>4 DEF FromDomain
  <2>2. PICK from, truth : o = Origin(from, truth, <<Refusal(c)>>)  BY <2>1
  <2>3. <<Refusal(c)>> \in Seq(Layer)  BY <1>3, LayersAre
  <2> QED  BY <1>2, <2>2, <2>3
<1>5. ASSUME o \in FromPostgres PROVE DOMAIN o = {"from", "truth", "err"} /\ o.err \in Seq(Layer)
  <2>1. \/ \E d \in {"context", "txClosed", "connect", "network"} : \E from, truth :
             o = Origin(from, truth, <<Driver(d)>>)
        \/ \E s \in TransientStates \cup OtherStates :
             o = Origin("postgres", "declined", <<Driver("connect"), PgError(s, None)>>)
        \/ \E s \in TransientStates \cup OtherStates,
              r \in DOMAIN PortErrors \cup TransientRules \cup {"wallet_balance_check", None} :
              \E from, truth : o = Origin(from, truth, <<PgError(s, r)>>)
    <3>1. {"23505", "23514"} \subseteq OtherStates  BY RulesAre
    <3> QED  BY <1>5, <3>1 DEF FromPostgres
  <2>2. ASSUME NEW s \in TransientStates \cup OtherStates
        PROVE  <<Driver("connect"), PgError(s, None)>> \in Seq(Layer)
    <3>1. Driver("connect") \in Layer /\ PgError(s, None) \in Layer  BY LayersAre
    <3> QED  BY <3>1
  <2>3. /\ \A d \in {"context", "txClosed", "connect", "network"} : Driver(d) \in Layer
        /\ \A s \in TransientStates \cup OtherStates,
              r \in DOMAIN PortErrors \cup TransientRules \cup {"wallet_balance_check", None} :
             PgError(s, r) \in Layer
    BY LayersAre
  <2>4. ASSUME NEW d \in {"context", "txClosed", "connect", "network"}, NEW from, NEW truth,
               o = Origin(from, truth, <<Driver(d)>>)
        PROVE  DOMAIN o = {"from", "truth", "err"} /\ o.err \in Seq(Layer)
    <3>1. <<Driver(d)>> \in Seq(Layer)  BY <1>3, <2>3
    <3> QED  BY <1>2, <2>4, <3>1
  <2>5. ASSUME NEW s \in TransientStates \cup OtherStates,
               NEW r \in DOMAIN PortErrors \cup TransientRules \cup {"wallet_balance_check", None},
               NEW from, NEW truth, o = Origin(from, truth, <<PgError(s, r)>>)
        PROVE  DOMAIN o = {"from", "truth", "err"} /\ o.err \in Seq(Layer)
    <3>1. <<PgError(s, r)>> \in Seq(Layer)  BY <1>3, <2>3
    <3> QED  BY <1>2, <2>5, <3>1
  <2>6. ASSUME NEW s \in TransientStates \cup OtherStates,
               o = Origin("postgres", "declined", <<Driver("connect"), PgError(s, None)>>)
        PROVE  DOMAIN o = {"from", "truth", "err"} /\ o.err \in Seq(Layer)
    BY <1>2, <2>2, <2>6
  <2> QED  BY Zenon, <2>1, <2>4, <2>5, <2>6
<1>6. ASSUME o \in FromQueue PROVE DOMAIN o = {"from", "truth", "err"} /\ o.err \in Seq(Layer)
  <2>1. \/ \E d \in {"context", "connection", "timeout"} : \E from, truth :
             o = Origin(from, truth, <<Driver(d)>>)
        \/ \E s \in Sdk : \E from, truth : o = Origin(from, truth, <<s>>)
        \/ \E c \in {"throttle", "entryFault", "other"}, f \in BOOLEAN : \E from, truth :
             o = Origin(from, truth, <<Entry(c, f)>>)
    BY <1>6 DEF FromQueue
  <2>2. /\ \A d \in {"context", "connection", "timeout"} : Driver(d) \in Layer
        /\ \A s \in Sdk : s \in Layer
        /\ \A c \in {"throttle", "entryFault", "other"}, f \in BOOLEAN : Entry(c, f) \in Layer
    BY LayersAre
  <2>3. ASSUME NEW l \in Layer, NEW from, NEW truth, o = Origin(from, truth, <<l>>)
        PROVE  DOMAIN o = {"from", "truth", "err"} /\ o.err \in Seq(Layer)
    <3>1. <<l>> \in Seq(Layer)  BY <1>3
    <3> QED  BY <1>2, <2>3, <3>1
  <2> QED  BY Zenon, <2>1, <2>2, <2>3
<1>7. ASSUME o \in FromApp PROVE DOMAIN o = {"from", "truth", "err"} /\ o.err \in Seq(Layer)
  <2>1. Settled(o.truth, Reported(o)) /\ o.from = "app" /\ \E e, truth : o = Origin("app", truth, e)
    <3>1. PICK e, truth : o = Origin("app", truth, e)  BY <1>7 DEF FromApp
    <3>2. o.from = "app"  BY <3>1 DEF Origin
    <3> QED  BY <1>7, <3>1, <3>2, AppReports
  <2>2. Reported(o) = o.err  BY <2>1 DEF Reported
  <2>3. o.err \in Seq(Layer)  BY <2>1, <2>2 DEF Settled
  <2>4. DOMAIN o = {"from", "truth", "err"}
    <3>1. PICK e, truth : o = Origin("app", truth, e)  BY <2>1
    <3> QED  BY <3>1 DEF Origin
  <2> QED  BY <2>3, <2>4
<1> QED  BY <1>1, <1>4, <1>5, <1>6, <1>7 DEF Origins

(* The same, of the failure of the next state.                              *)
LEMMA ArisenInv ==
  ASSUME NEW o \in Origins, NEW e, e = o.err
  PROVE  /\ e \in Seq(Layer) /\ DOMAIN o = {"from", "truth", "err"}
         /\ o.from = "sqs" => o.truth \in {"declined", "refused"}
BY OriginShape

(* The answer fits the failure (ErrorClasses, internal/app/errors.go and    *)
(* both transports): whatever the error went through on its way, what is    *)
(* wrong with stored records is answered as this service's own fault, what  *)
(* may pass is to be sent again and what will not is not, and what belongs  *)
(* to another is answered as what does not exist.                           *)
THEOREM AnswersFitFailures == FailureSpec => []AnswerFitsFailure
<1>1. FailureInit => FailureInv
  <2> SUFFICES ASSUME FailureInit PROVE FailureInv  OBVIOUS
  <2>1. origin \in Origins /\ err = origin.err /\ at = "arose"  BY DEF FailureInit
  <2> QED  BY <2>1, OriginShape DEF FailureInv, AnswerFitsFailure
<1>2. FailureInv /\ [FailureNext]_failure => FailureInv'
  <2> SUFFICES ASSUME FailureInv, [FailureNext]_failure PROVE FailureInv'  OBVIOUS
  <2>1. CASE Report  BY <2>1, ReportStep
  <2>2. CASE Wrap  BY <2>2, WrapStep
  <2>3. CASE Abort  BY <2>3, AbortStep
  <2>4. CASE Conclude  BY <2>4, ConcludeStep
  <2>5. CASE AnswerFailure  BY <2>5, AnswerFailureStep
  <2>6. CASE Arise
    <3>1. origin' \in Origins /\ err' = origin'.err /\ at' = "arose"  BY <2>6 DEF Arise
    <3>2. /\ DOMAIN origin' = {"from", "truth", "err"} /\ err' \in Seq(Layer)
          /\ origin'.from = "sqs" => origin'.truth \in {"declined", "refused"}
      BY <3>1, ArisenInv
    <3>3. (at = "arose" => origin \in Origins /\ err = origin.err)'  BY <3>1
    <3> QED  BY <3>1, <3>2, <3>3 DEF FailureInv, AnswerFitsFailure
  <2>7. CASE UNCHANGED failure
    <3>1. origin' = origin /\ err' = err /\ at' = at /\ answer' = answer  BY <2>7 DEF failure
    <3>2. AnswerFitsFailure'  BY <3>1 DEF FailureInv, AnswerFitsFailure
    <3>3. (at = "arose" => origin \in Origins /\ err = origin.err)'  BY <3>1 DEF FailureInv
    <3>4. (at = "use case" /\ origin.truth \in Judged => \A p \in Ports : ~Has(err, p))'
      BY <3>1 DEF FailureInv
    <3> QED  BY <3>1, <3>2, <3>3, <3>4 DEF FailureInv
  <2> QED  BY <2>1, <2>2, <2>3, <2>4, <2>5, <2>6, <2>7 DEF FailureNext
<1>3. FailureInv => AnswerFitsFailure  BY DEF FailureInv
<1> QED  BY <1>1, <1>2, <1>3, PTL DEF FailureSpec
=============================================================================
