---------------------------- MODULE ErrorClasses ----------------------------
(***************************************************************************)
(* The error model: what a failure becomes on its way from where it arose   *)
(* (a refusal of the domain, a stored row that cannot be rebuilt, a driver, *)
(* the queue's SDK, the application itself) through the adapters and the    *)
(* application layer (internal/app/errors.go) to the two transports, which  *)
(* answer a status and decide what becomes of a message.                    *)
(*                                                                         *)
(* An error is the sequence of its layers, outermost first, as errors.Is    *)
(* and errors.AsType walk it.  Words are left out: a layer that adds        *)
(* context renders differently from what it wraps, and that is all          *)
(* isClassified looks at.                                                   *)
(***************************************************************************)
EXTENDS Naturals, Sequences, SequencesExt

CONSTANTS
  None,      \* no code, no rule, no answer
  MaxLayers  \* bound: layers an error has when context is added to it

(* The catalogue of internal/domain/failure. *)
CorrectableCodes ==
  {"UNINITIALIZED_VALUE", "INVALID_AMOUNT_FORMAT", "INVALID_AMOUNT_SCALE",
   "AMOUNT_OUT_OF_RANGE", "INVALID_AMOUNT_FOR_KIND", "UNSUPPORTED_CURRENCY",
   "MISSING_REQUIRED_FIELD", "INVALID_FIELD_FORMAT", "UNSUPPORTED_TRANSACTION_KIND",
   "REFERENCE_REQUIRED", "REFERENCE_NOT_APPLICABLE", "INVALID_STATE_TRANSITION"}

AuditCodes == {"LEDGER_BALANCE_MISMATCH"}

DefinitiveCodes == AuditCodes \cup
  {"INSUFFICIENT_FUNDS", "REVERSAL_INSUFFICIENT_FUNDS", "BALANCE_OUT_OF_RANGE",
   "CURRENCY_MISMATCH", "REFERENCE_NOT_FOUND", "REFERENCE_NOT_PROCESSED",
   "REFERENCE_NOT_REVERSIBLE", "REFERENCE_ALREADY_REVERSED", "REFERENCE_MISMATCH",
   "REVERSAL_AMOUNT_MISMATCH", "IDEMPOTENCY_PAYLOAD_CONFLICT", "WALLET_ALREADY_EXISTS"}

Codes == CorrectableCodes \cup DefinitiveCodes

Classes == {"INVALID", "CONFLICT", "AUDIT", "UNAUTHORIZED", "NOT_FOUND",
            "RETRYABLE", "UNRETRYABLE"}

-----------------------------------------------------------------------------
(* Layers.  is says what the layer is, and what it carries. *)

Refusal(code) == [is |-> "failure", code |-> code]
AppError(class, code) == [is |-> "app", class |-> class, code |-> code]
Context == [is |-> "context"]
Sentinel(name) == [is |-> "sentinel", name |-> name]
PgError(state, rule) == [is |-> "pg", state |-> state, rule |-> rule]
Driver(what) == [is |-> "driver", what |-> what]
SdkError(throttle, fault, status) ==
  [is |-> "sdk", throttle |-> throttle, fault |-> fault, status |-> status]
Entry(code, senderFault) == [is |-> "entry", code |-> code, senderFault |-> senderFault]

Layers(err, kind) == {i \in DOMAIN err : err[i].is = kind}
Has(err, layer) == layer \in ToSet(err)

(* errors.AsType: the first layer of the kind. *)
Carries(err, kind) == Layers(err, kind) # {}
First(err, kind) == err[CHOOSE i \in Layers(err, kind) : \A j \in Layers(err, kind) : i <= j]

-----------------------------------------------------------------------------
(* internal/app/errors.go *)

failureCodeOf(err) == IF Carries(err, "failure") THEN First(err, "failure").code ELSE None

CodeOf(err) ==
  IF Carries(err, "app") /\ First(err, "app").code # None
  THEN First(err, "app").code ELSE failureCodeOf(err)

ClassOf(err) ==
  LET code == failureCodeOf(err)
  IN  IF Carries(err, "app") THEN First(err, "app").class
      ELSE IF code \in AuditCodes THEN "AUDIT"
      ELSE IF code \in CorrectableCodes THEN "INVALID"
      ELSE IF code \in {"WALLET_ALREADY_EXISTS", "IDEMPOTENCY_PAYLOAD_CONFLICT"} THEN "CONFLICT"
      ELSE "UNRETRYABLE"  \* with no code at all too

isClassified(err) == err[1].is = "app"

As(class, err) == IF isClassified(err) THEN err ELSE <<AppError(class, None)>> \o err

classify(err) ==
  IF Carries(err, "app") THEN err
  ELSE <<AppError(ClassOf(err), failureCodeOf(err))>> \o err

auditFinding(err) == <<AppError("AUDIT", failureCodeOf(err))>> \o err

conflict(code, err) == <<AppError("CONFLICT", code)>> \o err

notFoundWrapping(name) == <<AppError("NOT_FOUND", None), Sentinel(name)>>

-----------------------------------------------------------------------------
(* internal/adapters/postgres/errors.go *)

PortErrors ==
  [wager_transaction_provider_external_key |-> "duplicate",
   wager_transaction_provider_idempotency_key |-> "duplicate",
   wager_transaction_provider_external_id_key |-> "duplicate",
   wallet_player_currency_key |-> "walletExists",
   active_reversal_pkey |-> "reversed",
   wager_transaction_one_successful_reversal_per_kind |-> "reversed"]

TransientRules == {"inbox_pkey"}

(* What is absent has no code, breaks no rule and is no API error.         *)
ASSUME FailureAssumption ==
  None \notin Codes \cup DOMAIN PortErrors \cup TransientRules \cup {"server", "client"}

(* serialization_failure, deadlock_detected, lock_not_available,          *)
(* query_canceled, too_many_connections, admin_shutdown, crash_shutdown,  *)
(* cannot_connect_now, idle_session_timeout, and class 08.                *)
TransientStates == {"40001", "40P01", "55P03", "57014", "53300", "57P01", "57P02",
                    "57P03", "57P05", "08006"}

(* What refuses a statement for good, or a connection for now. *)
OtherStates == {"55000", "28P01", "23505", "23514", "42501"}

(* A wrong variant: the SQLSTATE is asked before the connection. *)
TransientByState(err) ==
  \/ Has(err, Driver("context")) \/ Has(err, Driver("txClosed"))
  \/ IF Carries(err, "pg") THEN First(err, "pg").state \in TransientStates
     ELSE Has(err, Driver("connect"))

transient(err) ==
  \/ Has(err, Driver("context")) \/ Has(err, Driver("txClosed"))
  \/ Has(err, Driver("connect"))
  \/ Carries(err, "pg") /\ First(err, "pg").state \in TransientStates

fail(err) ==
  LET rule == IF Carries(err, "pg") THEN First(err, "pg").rule ELSE None
  IN  IF rule \in DOMAIN PortErrors THEN <<Context, Sentinel(PortErrors[rule])>> \o err
      ELSE IF rule \in TransientRules \/ transient(err) THEN As("RETRYABLE", <<Context>> \o err)
      ELSE As("UNRETRYABLE", <<Context>> \o err)

corrupt(err) == As("UNRETRYABLE", <<Context>> \o err)

-----------------------------------------------------------------------------
(* internal/adapters/sqs/errors.go.  What a response says is in one layer;   *)
(* status 0 is no response, fault None no API error.                         *)

RetryableStatuses == {408, 429}

retryable(err) ==
  LET e == First(err, "sdk")
  IN  \/ Has(err, Driver("context"))
      \/ /\ Carries(err, "sdk")
         /\ \/ e.throttle
            \/ e.status >= 500 \/ e.status \in RetryableStatuses
            \/ e.fault = "server"
      \/ ~(Carries(err, "sdk") /\ e.fault # None)
         /\ (Has(err, Driver("connection")) \/ Has(err, Driver("timeout")))

sqsFail(err) ==
  As(IF retryable(err) THEN "RETRYABLE" ELSE "UNRETRYABLE", <<Context>> \o err)

(* One refused entry of a batch: its code settles it first, then the flag. *)
entryFailure(err) ==
  LET e == First(err, "entry")
  IN  As(IF e.code # "throttle" /\ (e.code = "entryFault" \/ e.senderFault)
         THEN "UNRETRYABLE" ELSE "RETRYABLE", err)

-----------------------------------------------------------------------------
(* The transports. *)

statusFor(class) ==
  CASE class = "INVALID"      -> 400
    [] class = "UNAUTHORIZED" -> 403
    [] class = "NOT_FOUND"    -> 404
    [] class = "CONFLICT"     -> 409
    [] class = "RETRYABLE"    -> 503
    [] OTHER                  -> 500

codeFor(err) == IF CodeOf(err) # None THEN CodeOf(err) ELSE ClassOf(err)

(* internal/workers/consumer.go: what becomes of the message. *)
disposition(class) == IF class \in {"RETRYABLE", "NOT_FOUND"} THEN "deferred" ELSE "poisoned"

-----------------------------------------------------------------------------
(* Where a failure arises, and what is true of it there. *)

Sdk == {s \in {SdkError(t, f, n) : t \in BOOLEAN, f \in {None, "server", "client"},
                                   n \in {0, 400, 403, 408, 429, 500, 503}} :
          s.throttle => s.fault = "client" /\ s.status = 400}

Declined(s) == s.throttle \/ s.fault = "server" \/ s.status >= 500 \/ s.status \in {408, 429}

Origin(from, truth, err) == [from |-> from, truth |-> truth, err |-> err]

FromDomain ==
  {Origin("submission", "caller", <<Refusal(c)>>) : c \in Codes \ AuditCodes} \cup
  {Origin("stored", "stored", <<Refusal(c)>>) : c \in Codes} \cup
  {Origin("finding", "stored", <<Refusal(c)>>) : c \in Codes}

FromPostgres ==
  {Origin("postgres", "declined", <<Driver(d)>>) : d \in {"context", "txClosed", "connect"}} \cup
  {Origin("postgres", "declined", <<Driver("connect"), PgError(s, None)>>) :
     s \in TransientStates \cup OtherStates} \cup
  {Origin("postgres", "declined", <<PgError(s, None)>>) : s \in TransientStates} \cup
  {Origin("postgres", "declined", <<PgError("23505", r)>>) : r \in TransientRules} \cup
  {Origin("postgres", "refused", <<PgError(s, None)>>) : s \in OtherStates} \cup
  {Origin("postgres", "refused", <<PgError("23514", "wallet_balance_check")>>)} \cup
  {Origin("postgres", "race", <<PgError("23505", r)>>) : r \in DOMAIN PortErrors} \cup
  {Origin("postgres", "lost", <<Driver("network")>>)}

FromQueue ==
  {Origin("sqs", "declined", <<Driver(d)>>) : d \in {"context", "connection", "timeout"}} \cup
  {Origin("sqs", IF Declined(s) THEN "declined" ELSE "refused", <<s>>) : s \in Sdk} \cup
  {Origin("entry", "declined", <<Entry("throttle", f)>>) : f \in BOOLEAN} \cup
  {Origin("entry", "refused", <<Entry("entryFault", f)>>) : f \in BOOLEAN} \cup
  {Origin("entry", IF f THEN "refused" ELSE "declined", <<Entry("other", f)>>) : f \in BOOLEAN}

FromApp ==
  {Origin("app", "caller", <<AppError("INVALID", c)>>) :
     c \in {"INVALID_FIELD_FORMAT", "MISSING_REQUIRED_FIELD"}} \cup
  {Origin("app", "declined", As("RETRYABLE", <<Context, Sentinel("lostUpdate")>>)),
   Origin("app", "caller", <<AppError("UNAUTHORIZED", None)>>),
   Origin("app", "defect", <<AppError("UNRETRYABLE", None)>>),
   Origin("app", "missing", <<AppError("NOT_FOUND", None)>>),
   Origin("app", "foreign", notFoundWrapping("foreignOperation")),
   Origin("app", "foreign", notFoundWrapping("foreignWallet"))}

-----------------------------------------------------------------------------
VARIABLES
  origin,  \* where the failure arose
  err,     \* the error as it is now
  at,      \* the layer that has it
  answer   \* [status, code, message], what both transports came to

failure == <<origin, err, at, answer>>

(* The adapter, or the use case that met a domain refusal, reports it. *)
Report ==
  /\ at = "arose"
  /\ at' = "use case"
  /\ err' = CASE origin.from = "stored"   -> corrupt(err)
              [] origin.from = "finding"  -> auditFinding(err)
              [] origin.from = "postgres" -> fail(err)
              [] origin.from = "sqs"      -> sqsFail(err)
              [] origin.from = "entry"    -> entryFailure(err)
              [] OTHER                    -> err
  /\ UNCHANGED <<origin, answer>>

(* A caller adds what it was doing. *)
Wrap ==
  /\ at \in {"use case", "edge"} /\ Len(err) < MaxLayers
  /\ err' = <<Context>> \o err
  /\ UNCHANGED <<origin, at, answer>>

(* SendBatch stopped at this failure: the messages behind it were never      *)
(* offered, and theirs is another error that wraps it.                       *)
Abort ==
  /\ at = "use case" /\ origin.from = "sqs" /\ ~Has(err, Sentinel("aborted"))
  /\ origin' = [origin EXCEPT !.truth = "declined"]
  /\ err' = As("RETRYABLE", <<Sentinel("aborted")>> \o err)
  /\ UNCHANGED <<at, answer>>

(* The end of a use case: it branches on the sentinels, resolving a duplicate *)
(* by reading it, and classifies the rest.                                    *)
Conclude ==
  /\ at = "use case"
  /\ IF Has(err, Sentinel("duplicate")) THEN at' = "resolved" /\ UNCHANGED err
     ELSE /\ at' = "edge"
          /\ err' = IF Has(err, Sentinel("reversed"))
                      THEN conflict("REFERENCE_ALREADY_REVERSED", err)
                    ELSE IF Has(err, Sentinel("walletExists"))
                      THEN conflict("WALLET_ALREADY_EXISTS", err)
                    ELSE classify(err)
  /\ UNCHANGED <<origin, answer>>

AnswerFailure ==
  /\ at = "edge"
  /\ at' = "answered"
  /\ answer' = [status |-> statusFor(ClassOf(err)), code |-> codeFor(err),
                message |-> disposition(ClassOf(err))]
  /\ UNCHANGED <<origin, err>>

Origins == FromDomain \cup FromPostgres \cup FromQueue \cup FromApp

(* The next failure. *)
Arise ==
  /\ at \in {"answered", "resolved"}
  /\ origin' \in Origins /\ err' = origin'.err /\ at' = "arose" /\ answer' = None

FailureInit == origin \in Origins /\ err = origin.err /\ at = "arose" /\ answer = None

FailureNext ==
  Report \/ Wrap \/ Abort \/ Conclude \/ AnswerFailure \/ Arise

FailureSpec == FailureInit /\ [][FailureNext]_failure
-----------------------------------------------------------------------------
(* The answer fits the failure, whatever the error went through on its way: *)
(* what is wrong with stored records is no fault of the request and nothing  *)
(* another attempt repairs, although the refusal that was met carries the    *)
(* code of a malformed submission; what recorded nothing and may pass is     *)
(* sent again on both paths and what was refused for good is not, so that a  *)
(* database closed for maintenance fills no dead-letter queue; and what      *)
(* belongs to another is answered exactly as what does not exist.            *)
AnswerFitsFailure ==
  at = "answered" =>
    /\ origin.truth = "stored" => answer.status = 500 /\ answer.message = "poisoned"
    /\ origin.truth \in {"declined", "refused"} =>
         /\ (answer.status = 503) = (origin.truth = "declined")
         /\ (answer.message = "deferred") = (origin.truth = "declined")
    /\ origin.truth \in {"foreign", "missing"} =>
         answer = [status |-> 404, code |-> "NOT_FOUND", message |-> "deferred"]
=============================================================================
