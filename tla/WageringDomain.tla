--------------------------- MODULE WageringDomain ---------------------------
(***************************************************************************)
(* The rules of the wagering domain (internal/domain/wagering): what the   *)
(* kinds of operation are, which operation may name which, and what an     *)
(* operation comes to when it is applied to a wallet.  Nothing here has    *)
(* state: every operator is a function of the values it is handed, as the  *)
(* domain package is.                                                      *)
(*                                                                         *)
(* An operation is a record with the fields of wagering.Command that the   *)
(* rules read.  A wallet is a record [player, currency, balance, version,  *)
(* updatedAt].  Times are naturals and 0 is Go's zero time, "not set".     *)
(***************************************************************************)
EXTENDS Integers, Sequences

CONSTANTS
  Nil,          \* the absent value: no reference, no provider, no wallet
  MaxBalance,   \* the largest amount of minor units (2^63 - 1 in the code)
  MaxAttempts,  \* ReferencePolicy.MaxAttempts
  TTL           \* ReferencePolicy.TTL, in ticks of the model's clock

ASSUME PolicyAssumption ==
  /\ MaxBalance \in Nat
  /\ MaxAttempts \in Nat \ {0}
  /\ TTL \in Nat \ {0}
  /\ Nil \notin {"CREDIT", "DEBIT"}

-----------------------------------------------------------------------------
(* Kinds, statuses and directions. *)

Kinds == {"OPENING", "BET", "WIN", "LOSS", "REFUND", "ROLLBACK"}

IsReversal(k) == k \in {"REFUND", "ROLLBACK"}

MovesMoney(k) == k # "LOSS"

AllowsReference(k) == k = "WIN" \/ IsReversal(k)

(* A wrong variant: any reversal undoes any operation that moved money. *)
CanReverseAnything(k, target) == IsReversal(k) /\ MovesMoney(target)

(* A refund returns a bet; a rollback undoes a bet, a win or a refund; *)
(* nothing undoes a rollback.                                          *)
CanReverse(k, target) ==
  \/ k = "REFUND" /\ target = "BET"
  \/ k = "ROLLBACK" /\ target \in {"BET", "WIN", "REFUND"}

Direction(k) ==
  CASE k \in {"OPENING", "WIN", "REFUND"} -> "CREDIT"
    [] k = "BET" -> "DEBIT"
    [] OTHER -> Nil

Opposite(d) ==
  CASE d = "DEBIT" -> "CREDIT"
    [] d = "CREDIT" -> "DEBIT"
    [] OTHER -> Nil

Statuses == {"PENDING", "PENDING_REFERENCE", "PROCESSED", "REJECTED", "FAILED"}

IsTerminal(status) == status \in {"PROCESSED", "REJECTED", "FAILED"}

CanTransitionTo(from, to) ==
  /\ from \in {"PENDING", "PENDING_REFERENCE"}
  /\ to \in Statuses \ {"PENDING"}

-----------------------------------------------------------------------------
(* Commands. *)

namesReference(op) == AllowsReference(op.kind) /\ op.ref # Nil

(* Command.Validate with validateProviderFields, checkAmount and             *)
(* checkReference: what a submission must be before anything is read or      *)
(* written for it.                                                           *)
Validate(op) ==
  /\ op.kind \in Kinds \ {"OPENING"}
  /\ Nil \notin {op.provider, op.ext, op.key}
  /\ IF op.kind = "LOSS" THEN op.amount = 0 ELSE op.amount > 0
  /\ IsReversal(op.kind) => op.ref # Nil
  /\ ~AllowsReference(op.kind) => op.ref = Nil
  /\ op.ref # op.ext

(* The idempotency hash covers every field of the submission but the *)
(* idempotency key itself, so equal hashes are equal records once the *)
(* key is masked.                                                     *)
PayloadHash(op) == [op EXCEPT !.key = Nil]

AssertSamePayload(stored, op) == PayloadHash(stored) = PayloadHash(op)

-----------------------------------------------------------------------------
(* The reference an operation names.  A view is Nil when the reference was *)
(* not found, else [id, op, status, reversals]; a reversal in it is        *)
(* [kind, reversed].  Only PROCESSED reversals are ever put into a view.   *)

ActiveReversal(view) == \E r \in view.reversals : ~r.reversed

HasSuccessfulReversalOfKind(view, k) == \E r \in view.reversals : r.kind = k

referenceAgrees(op, target) ==
  /\ target.wallet = op.wallet
  /\ target.player = op.player
  /\ target.currency = op.currency
  /\ target.provider = op.provider
  /\ target.round = op.round

(* Whether a reference in good standing may carry this operation: "APPLY", *)
(* or the code of the rule that refuses it.                                *)
reversalRules(op, view) ==
  IF ~CanReverse(op.kind, view.op.kind) THEN "REFERENCE_NOT_REVERSIBLE"
  ELSE IF op.amount # view.op.amount THEN "REVERSAL_AMOUNT_MISMATCH"
  ELSE IF HasSuccessfulReversalOfKind(view, op.kind) \/ ActiveReversal(view)
       THEN "REFERENCE_ALREADY_REVERSED"
  ELSE "APPLY"

(* "APPLY", "WAIT", or the code of a rejection. *)
evaluateReference(op, view) ==
  IF ~namesReference(op) THEN "APPLY"
  ELSE IF view = Nil THEN "WAIT"
  ELSE IF view.status \in {"PENDING", "PENDING_REFERENCE"} THEN "WAIT"
  ELSE IF view.status # "PROCESSED" THEN "REFERENCE_NOT_PROCESSED"
  ELSE IF ~referenceAgrees(op, view.op) THEN "REFERENCE_MISMATCH"
  ELSE IF IsReversal(op.kind) THEN reversalRules(op, view)
  ELSE IF view.op.kind # "BET" THEN "REFERENCE_MISMATCH"
  ELSE "APPLY"

-----------------------------------------------------------------------------
(* Applying an operation to a wallet. *)

(* The direction a money-moving operation moves in; a rollback takes the *)
(* opposite of what it undoes.  Nil when nothing moves.                  *)
movement(op, view) ==
  CASE ~MovesMoney(op.kind) -> Nil
    [] op.kind = "ROLLBACK" -> Opposite(Direction(view.op.kind))
    [] OTHER -> Direction(op.kind)

applyDirection(d, balance, amount) ==
  CASE d = "CREDIT" -> balance + amount
    [] d = "DEBIT" -> balance - amount
    [] OTHER -> balance

(* What an operation comes to: the status it takes, the code it is         *)
(* rejected with, the reference it resolved, the direction money moves in  *)
(* and the wait it has spent.  The events that announce it follow from the *)
(* status and the direction.                                               *)
NoOutcome(row) ==
  [status |-> row.status, code |-> Nil, resolved |-> row.resolved,
   direction |-> Nil, attempts |-> row.attempts, deadline |-> row.deadline]

reject(outcome, code) == [outcome EXCEPT !.status = "REJECTED", !.code = code]

ReferenceBudgetExhausted(row, now) ==
  \/ row.attempts >= MaxAttempts
  \/ row.deadline # 0 /\ now >= row.deadline

(* A wrong variant: the deadline is started again by every attempt. *)
MarkPendingReferenceAfresh(row, now) ==
  [NoOutcome(row) EXCEPT !.status = "PENDING_REFERENCE",
                         !.attempts = row.attempts + 1,
                         !.deadline = now + TTL]

(* The deadline is set by the first park and kept by the later ones. *)
MarkPendingReference(row, now) ==
  [NoOutcome(row) EXCEPT !.status = "PENDING_REFERENCE",
                         !.attempts = row.attempts + 1,
                         !.deadline = IF row.deadline = 0 THEN now + TTL
                                                          ELSE row.deadline]

wait(row, now) ==
  IF ReferenceBudgetExhausted(row, now)
  THEN reject(NoOutcome(row), "REFERENCE_NOT_FOUND")
  ELSE MarkPendingReference(row, now)

movementRejection(op, after) ==
  IF after > MaxBalance THEN "BALANCE_OUT_OF_RANGE"
  ELSE IF IsReversal(op.kind) THEN "REVERSAL_INSUFFICIENT_FUNDS"
  ELSE "INSUFFICIENT_FUNDS"

(* A wrong variant: the balance is not held within its range. *)
applyMovementUnchecked(row, w, view) ==
  [NoOutcome(row) EXCEPT
     !.status = "PROCESSED", !.direction = movement(row.op, view),
     !.resolved = IF namesReference(row.op) THEN view.id ELSE row.resolved]

(* The movement of an operation no rule refuses.  A refused movement is a *)
(* rejection that keeps the reference it resolved.                        *)
applyMovement(row, w, view) ==
  LET op        == row.op
      direction == movement(op, view)
      after     == applyDirection(direction, w.balance, op.amount)
      resolved  == IF namesReference(op) THEN view.id ELSE row.resolved
      base      == [NoOutcome(row) EXCEPT !.resolved = resolved]
  IN  IF after \in 0..MaxBalance
      THEN [base EXCEPT !.status = "PROCESSED", !.direction = direction]
      ELSE reject(base, movementRejection(op, after))

(* Processor.apply: the currency, then the reference, then the movement. *)
apply(row, w, view, now) ==
  LET verdict == evaluateReference(row.op, view)
  IN  CASE row.op.currency # w.currency ->
             reject(NoOutcome(row), "CURRENCY_MISMATCH")
        [] row.op.currency = w.currency /\ verdict = "WAIT" -> wait(row, now)
        [] row.op.currency = w.currency /\ verdict = "APPLY" ->
             applyMovement(row, w, view)
        [] OTHER -> reject(NoOutcome(row), verdict)

=============================================================================
