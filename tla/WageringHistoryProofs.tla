------------------------ MODULE WageringHistoryProofs ------------------------
(***************************************************************************)
(* Theorems about what Wagering records, for every value of its constants: *)
(* rows only move forward, an operation is recorded and applied once and   *)
(* answered with its own row, a parked one waits within its budget, and    *)
(* every settlement is announced.                                          *)
(*                                                                         *)
(* The steps that write are Settle, Resume, cannotCarryForward and Open.   *)
(* Settle and Resume are one thing, a settlement: Decision says what the   *)
(* domain may have decided and Settlement what is written for it, and the  *)
(* invariants are shown from these two and no longer from apply and        *)
(* commitOutcome.                                                          *)
(***************************************************************************)
EXTENDS WageringProofs, FiniteSetTheorems

-----------------------------------------------------------------------------
(* What the domain may decide. *)

Undecided == {"PENDING", "PENDING_REFERENCE"}

(* What Processor.apply comes to for a row that is not settled. *)
Decision(row, view, now, out) ==
  /\ out.status \in {"PENDING_REFERENCE", "PROCESSED", "REJECTED"}
  /\ out.direction # Nil <=> out.status = "PROCESSED" /\ MovesMoney(row.op.kind)
  /\ out.attempts = IF out.status = "PENDING_REFERENCE" THEN row.attempts + 1
                                                        ELSE row.attempts
  /\ row.deadline # 0 => out.deadline = row.deadline
  /\ out.status = "PENDING_REFERENCE" =>
       /\ namesReference(row.op) /\ now < out.deadline
       /\ view = Nil \/ view.status \in Undecided
  /\ out.status = "PROCESSED" /\ IsReversal(row.op.kind) =>
       /\ view # Nil /\ view.status = "PROCESSED"
       /\ referenceAgrees(row.op, view.op) /\ CanReverse(row.op.kind, view.op.kind)
       /\ row.op.amount = view.op.amount
       /\ ~HasSuccessfulReversalOfKind(view, row.op.kind) /\ ~ActiveReversal(view)
       /\ out.resolved = view.id
       /\ out.direction = Opposite(Direction(view.op.kind))
  /\ out.status = "PROCESSED" /\ MovesMoney(row.op.kind) /\ ~IsReversal(row.op.kind) =>
       out.direction = Direction(row.op.kind)

(* A reversal names what it reverses: checkReference sees to it. *)
LEMMA ReversalsNameReferences ==
  ASSUME NEW op \in RowOperations, IsReversal(op.kind)
  PROVE  namesReference(op)
<1>1. CASE op \in Operations
  <2>1. PICK d \in Deliveries : op = d.op  BY <1>1 DEF Operations
  <2>2. Validate(op)  BY <2>1, ServiceAssumption
  <2> QED  BY <2>2 DEF Validate, namesReference, AllowsReference
<1>2. CASE op \in {OpeningOperation(o) : o \in Openings}
  BY <1>2 DEF OpeningOperation, IsReversal
<1> QED  BY <1>1, <1>2 DEF RowOperations

(* Only a rule that was passed lets a reversal be applied. *)
LEMMA ReversalApplies ==
  ASSUME NEW op, NEW view, namesReference(op), IsReversal(op.kind),
         evaluateReference(op, view) = "APPLY"
  PROVE  /\ view # Nil /\ view.status = "PROCESSED"
         /\ referenceAgrees(op, view.op) /\ CanReverse(op.kind, view.op.kind)
         /\ op.amount = view.op.amount
         /\ ~HasSuccessfulReversalOfKind(view, op.kind) /\ ~ActiveReversal(view)
BY DEF evaluateReference, reversalRules

(* What is reversed moved money, and a refund and a rollback move it back. *)
LEMMA ReversalMovement ==
  ASSUME NEW op, NEW view, CanReverse(op.kind, view.op.kind)
  PROVE  /\ movement(op, view) = Opposite(Direction(view.op.kind))
         /\ movement(op, view) \in {"CREDIT", "DEBIT"}
         /\ IsReversal(op.kind)
BY PolicyAssumption DEF CanReverse, movement, MovesMoney, Direction, Opposite, IsReversal

(* Any other kind moves money in its own direction, or none. *)
LEMMA PlainMovement ==
  ASSUME NEW op, NEW view, op.kind \in Kinds, ~IsReversal(op.kind)
  PROVE  /\ MovesMoney(op.kind) => /\ movement(op, view) = Direction(op.kind)
                                   /\ movement(op, view) \in {"CREDIT", "DEBIT"}
         /\ ~MovesMoney(op.kind) => movement(op, view) = Nil
BY PolicyAssumption DEF Kinds, movement, MovesMoney, Direction, IsReversal

(* Processor.apply decides. *)
LEMMA ApplyDecides ==
  ASSUME NEW row \in TxnRow, row.status \in Undecided, NEW held \in WalletRow,
         NEW view \in View \cup {Nil}, NEW now \in Nat \ {0}
  PROVE  Decision(row, view, now, apply(row, held, view, now))
<1> DEFINE verdict == evaluateReference(row.op, view)
           none == NoOutcome(row)
<1>1. /\ row.op \in RowOperations /\ row.op.kind \in Kinds
      /\ row.attempts \in Nat /\ row.deadline \in Nat
  BY RowOperationFacts, PolicyAssumption DEF TxnRow
<1>2. /\ none.status = row.status /\ none.direction = Nil /\ none.attempts = row.attempts
      /\ none.deadline = row.deadline /\ none.code = Nil
  BY DEF NoOutcome
<1>3. ASSUME NEW code, NEW base,
             base.direction = Nil, base.attempts = row.attempts, base.deadline = row.deadline,
             DOMAIN base = DOMAIN none
      PROVE  Decision(row, view, now, reject(base, code))
  <2>1. /\ reject(base, code).status = "REJECTED" /\ reject(base, code).direction = Nil
        /\ reject(base, code).attempts = row.attempts
        /\ reject(base, code).deadline = row.deadline
    BY <1>3 DEF reject, NoOutcome
  <2> HIDE DEF none
  <2> QED  BY <2>1 DEF Decision
<1>4. ASSUME verdict = "WAIT"
      PROVE  Decision(row, view, now, wait(row, now))
  <2>1. CASE ReferenceBudgetExhausted(row, now)
    BY <2>1, <1>2, <1>3 DEF wait
  <2>2. CASE ~ReferenceBudgetExhausted(row, now)
    <3> DEFINE out == MarkPendingReference(row, now)
    <3>1. /\ out.status = "PENDING_REFERENCE" /\ out.direction = Nil
          /\ out.attempts = row.attempts + 1
          /\ out.deadline = IF row.deadline = 0 THEN now + TTL ELSE row.deadline
      BY DEF MarkPendingReference, NoOutcome
    <3>2. now < out.deadline
      BY <3>1, <2>2, <1>1, PolicyAssumption DEF ReferenceBudgetExhausted
    <3>3. namesReference(row.op) /\ (view = Nil \/ view.status \in Undecided)
      BY <1>4 DEF evaluateReference, reversalRules, Undecided
    <3>4. wait(row, now) = out  BY <2>2 DEF wait
    <3> HIDE DEF out
    <3> QED  BY <3>1, <3>2, <3>3, <3>4 DEF Decision
  <2> QED  BY <2>1, <2>2
<1>5. ASSUME verdict = "APPLY"
      PROVE  Decision(row, view, now, applyMovement(row, held, view))
  <2> DEFINE direction == movement(row.op, view)
             after == applyDirection(direction, held.balance, row.op.amount)
             resolved == IF namesReference(row.op) THEN view.id ELSE row.resolved
             base == [none EXCEPT !.resolved = resolved]
             done == [base EXCEPT !.status = "PROCESSED", !.direction = direction]
  <2>1. /\ base.direction = Nil /\ base.attempts = row.attempts
        /\ base.deadline = row.deadline /\ DOMAIN base = DOMAIN none
        /\ done.status = "PROCESSED" /\ done.direction = direction
        /\ done.attempts = row.attempts /\ done.deadline = row.deadline
        /\ done.resolved = resolved
    BY DEF NoOutcome
  <2>2. applyMovement(row, held, view) =
          IF after \in 0..MaxBalance THEN done ELSE reject(base, movementRejection(row.op, after))
    BY DEF applyMovement
  <2> HIDE DEF done, base, none
  <2>3. CASE after \notin 0..MaxBalance
    BY <2>3, <2>1, <2>2, <1>3
  <2>4. CASE after \in 0..MaxBalance
    <3>1. CASE IsReversal(row.op.kind)
      <4>1. namesReference(row.op)  BY <3>1, <1>1, ReversalsNameReferences
      <4>2. /\ view # Nil /\ view.status = "PROCESSED"
            /\ referenceAgrees(row.op, view.op) /\ CanReverse(row.op.kind, view.op.kind)
            /\ row.op.amount = view.op.amount
            /\ ~HasSuccessfulReversalOfKind(view, row.op.kind) /\ ~ActiveReversal(view)
        BY <3>1, <4>1, <1>5, ReversalApplies
      <4>3. /\ direction = Opposite(Direction(view.op.kind))
            /\ direction \in {"CREDIT", "DEBIT"}
        BY <4>2, ReversalMovement
      <4>4. MovesMoney(row.op.kind) /\ direction # Nil
        BY <3>1, <4>3, PolicyAssumption DEF MovesMoney, IsReversal
      <4>5. done.resolved = view.id  BY <4>1, <2>1
      <4> QED  BY <2>1, <2>2, <2>4, <3>1, <4>2, <4>3, <4>4, <4>5 DEF Decision
    <3>2. CASE ~IsReversal(row.op.kind)
      <4>1. direction # Nil <=> MovesMoney(row.op.kind)
        BY <3>2, <1>1, PlainMovement, PolicyAssumption
      <4>2. MovesMoney(row.op.kind) => direction = Direction(row.op.kind)
        BY <3>2, <1>1, PlainMovement
      <4> QED  BY <2>1, <2>2, <2>4, <3>2, <4>1, <4>2 DEF Decision
    <3> QED  BY <3>1, <3>2
  <2> QED  BY <2>3, <2>4
<1>6. CASE row.op.currency # held.currency
  <2>1. apply(row, held, view, now) = reject(none, "CURRENCY_MISMATCH")
    BY <1>6 DEF apply
  <2> QED  BY <2>1, <1>2, <1>3
<1>7. CASE row.op.currency = held.currency
  <2>1. CASE verdict = "WAIT"
    BY <1>7, <2>1, <1>4 DEF apply
  <2>2. CASE verdict = "APPLY"
    BY <1>7, <2>2, <1>5 DEF apply
  <2>3. CASE verdict \notin {"APPLY", "WAIT"}
    <3>1. apply(row, held, view, now) = reject(none, verdict)
      BY <1>7, <2>3 DEF apply
    <3> QED  BY <3>1, <1>2, <1>3
  <2> QED  BY <2>1, <2>2, <2>3
<1> QED  BY <1>6, <1>7

-----------------------------------------------------------------------------
(* What a step writes. *)

(* The rows MakeDue wakes. *)
Awaits(row, op) ==
  /\ Parked(row) /\ row.op.wallet = op.wallet
  /\ row.op.provider = op.provider /\ row.op.ref = op.ext

Woken(row, now) == [row EXCEPT !.nextAttempt = now]

(* A sequence's domain gives its length. *)
LEMMA IntervalLength ==
  ASSUME NEW m \in Nat, NEW n \in Nat, 1..m = 1..n
  PROVE  m = n
<1>1. m \in 1..m \/ m = 0  OBVIOUS
<1>2. n \in 1..n \/ n = 0  OBVIOUS
<1> QED  BY <1>1, <1>2

(* Write puts row i in its place and wakes what waits on it, nothing else. *)
LEMMA WrittenRows ==
  ASSUME txns \in Seq(TxnRow), NEW i \in 1..Len(txns) + 1, NEW row \in TxnRow,
         NEW now \in Nat
  PROVE  LET new == Write(i, row, now)
         IN  /\ DOMAIN new = IF i = Len(txns) + 1 THEN 1..Len(txns) + 1 ELSE 1..Len(txns)
             /\ new[i] = row
             /\ \A j \in 1..Len(txns) : j # i =>
                  new[j] = IF row.status = "PROCESSED" /\ Awaits(txns[j], row.op)
                           THEN Woken(txns[j], now) ELSE txns[j]
<1> DEFINE written == IF i = Len(txns) + 1 THEN Append(txns, row)
                                           ELSE [txns EXCEPT ![i] = row]
           new == Write(i, row, now)
<1>1. Len(txns) \in Nat /\ DOMAIN txns = 1..Len(txns)  BY LenProperties
<1>2. /\ DOMAIN written = IF i = Len(txns) + 1 THEN 1..Len(txns) + 1 ELSE 1..Len(txns)
      /\ written[i] = row
      /\ \A j \in 1..Len(txns) : j # i => written[j] = txns[j]
  <2>1. CASE i = Len(txns) + 1
    BY <2>1, <1>1, AppendProperties
  <2>2. CASE i # Len(txns) + 1
    <3>1. i \in 1..Len(txns) /\ written = [txns EXCEPT ![i] = row]  BY <2>2, <1>1
    <3> QED  BY <2>2, <3>1, <1>1
  <2> QED  BY <2>1, <2>2
<1>3. new = IF row.status = "PROCESSED" THEN MakeDue(written, row.op, now) ELSE written
  BY DEF Write
<1> HIDE DEF written
<1>4. CASE row.status = "PROCESSED"
  <2>1. new = [j \in DOMAIN written |->
                 IF Awaits(written[j], row.op) THEN Woken(written[j], now) ELSE written[j]]
    BY <1>3, <1>4 DEF MakeDue, Awaits, Woken
  <2> HIDE DEF new
  <2>2. ~Awaits(row, row.op)  BY <1>4 DEF Awaits, Parked
  <2>3. i \in DOMAIN written /\ \A j \in 1..Len(txns) : j \in DOMAIN written
    BY <1>1, <1>2
  <2>4. DOMAIN new = DOMAIN written /\ new[i] = row  BY <2>1, <2>2, <2>3, <1>2
  <2>5. \A j \in 1..Len(txns) : j # i =>
          new[j] = IF Awaits(txns[j], row.op) THEN Woken(txns[j], now) ELSE txns[j]
    BY <2>1, <2>3, <1>2
  <2> QED  BY <2>4, <2>5, <1>2, <1>4 DEF new
<1>5. CASE row.status # "PROCESSED"
  BY <1>2, <1>3, <1>5
<1> QED  BY <1>4, <1>5

(* The two settlements: a submission's of the row it inserts, and a       *)
(* resumption's of the row it claimed.                                     *)
Settling(s, i, row) ==
  /\ s \in Sessions
  /\ \/ /\ s \in Submitters /\ sess[s].pc = "settle"
        /\ i = Len(txns) + 1 /\ row = SubmittedRow(s)
        /\ row.op = sess[s].request.op /\ sess[s].request \in Deliveries
     \/ /\ s \in Workers /\ sess[s].pc = "resume"
        /\ i = sess[s].cand /\ i \in 1..Len(txns)
        /\ row = txns[i]
  /\ row \in TxnRow /\ i \in Nat \ {0}
  /\ row.op.wallet = sess[s].wallet /\ sess[s].wallet \in Wallets
  /\ sess[s].held \in WalletRow /\ sess[s].held = wallets[sess[s].wallet]
  /\ sess[s].now \in Nat \ {0} /\ sess[s].view \in View \cup {Nil}

OutcomeOf(s, row) == apply(row, sess[s].held, sess[s].view, sess[s].now)
SettledOf(s, row) == Settled(row, OutcomeOf(s, row), sess[s].held, sess[s].now)

(* A settlement writes what commitOutcome says and ends its session. *)
Settlement(s, i, row) ==
  /\ Settling(s, i, row)
  /\ ~ClockRefuses(sess[s].wallet, row, OutcomeOf(s, row), sess[s].now)
  /\ ~Backstop(sess[s].wallet, i, row, OutcomeOf(s, row), sess[s].held, sess[s].now)
  /\ commitOutcome(sess[s].wallet, i, row, OutcomeOf(s, row), sess[s].held, sess[s].now)
  /\ sess' = [sess EXCEPT ![s] = Idle]
  /\ clock' = clock

(* What a session comes to in a step that writes no row. *)
Inserting(s) ==
  LET op == sess[s].request.op
  IN  /\ s \in Submitters /\ sess[s].pc = "record" /\ sess[s].request \in Deliveries
      /\ ~InsertInFlight(s, op)
      /\ ByIdempotencyKey(op) \cup ByExternal(op) = {}
      /\ \E now \in ReadClock :
           sess'[s] = [sess[s] EXCEPT !.pc = "settle", !.now = now,
                                      !.view = ReferenceFor(op)]

Claiming(s) ==
  /\ s \in Workers /\ sess[s].pc = "claim" /\ Due(sess[s].cand, sess[s].now)
  /\ sess'[s] = [sess[s] EXCEPT !.pc = "resume",
                                !.view = ReferenceFor(txns[sess[s].cand].op)]

Looking(s) ==
  \/ sess'[s].pc \notin {"settle"} \cup ResumePcs
  \/ sess'[s].pc = "claimLock" /\ sess'[s].now \in ReadClock
  \/ sess[s].pc = "claimLock" /\ sess'[s].pc = "claim" /\ sess'[s].now = sess[s].now

Quiet ==
  /\ UNCHANGED <<wallets, txns, ledger, active, outbox>>
  /\ clock' \in {clock, clock + 1}
  /\ \A s \in Sessions : sess'[s] = sess[s] \/ Inserting(s) \/ Claiming(s) \/ Looking(s)
  /\ \A s, t \in Sessions : s # t => sess'[s] = sess[s] \/ sess'[t] = sess[t]

(* A settlement of a submission is one. *)
LEMMA SettleIsSettlement ==
  ASSUME IInv, NEW s \in Submitters, sess[s].pc = "settle"
  PROVE  /\ Settling(s, Len(txns) + 1, SubmittedRow(s))
         /\ Settle(s) => Settlement(s, Len(txns) + 1, SubmittedRow(s))
<1>1. s \in Sessions /\ sess[s].pc \in Locked  BY DEF Sessions, Locked
<1>2. /\ sess[s].wallet \in Wallets /\ sess[s].held \in WalletRow
      /\ sess[s].held = wallets[sess[s].wallet]
  BY <1>1, HeldFacts
<1>3. /\ sess[s].request \in Deliveries /\ sess[s].wallet = sess[s].request.op.wallet
      /\ sess[s].now # 0
  BY <1>1 DEF IInv, SessionsAttached, Attached, SubmitPcs
<1>4. sess[s].now \in Nat \ {0} /\ sess[s].view \in View \cup {Nil}
  BY <1>1, <1>3 DEF IInv, TypeOK, Session
<1>5. SubmittedRow(s) \in TxnRow /\ SubmittedRow(s).op = sess[s].request.op
  BY <1>3, <1>4, DeliveryFacts, SubmittedRowFacts DEF SubmittedRow
<1>6. Len(txns) + 1 \in Nat \ {0}  BY LenProperties DEF IInv, TypeOK
<1>7. Settling(s, Len(txns) + 1, SubmittedRow(s))
  BY <1>1, <1>2, <1>3, <1>4, <1>5, <1>6 DEF Settling
<1> QED  BY <1>7 DEF Settlement, Settle, SubmitBackstop, SubmitOutcome, OutcomeOf, Finish

(* A settlement of a resumption is one. *)
LEMMA ResumeIsSettlement ==
  ASSUME IInv, NEW s \in Workers, sess[s].pc = "resume"
  PROVE  /\ Settling(s, sess[s].cand, ResumedRow(s))
         /\ Resume(s) => Settlement(s, sess[s].cand, ResumedRow(s))
<1>1. s \in Sessions /\ sess[s].pc \in Locked  BY DEF Sessions, Locked
<1>2. /\ sess[s].wallet \in Wallets /\ sess[s].held \in WalletRow
      /\ sess[s].held = wallets[sess[s].wallet]
  BY <1>1, HeldFacts
<1>3. /\ sess[s].cand \in 1..Len(txns) /\ sess[s].wallet = txns[sess[s].cand].op.wallet
      /\ sess[s].now # 0
  BY <1>1 DEF IInv, SessionsAttached, Attached, ResumePcs
<1>4. sess[s].now \in Nat \ {0} /\ sess[s].view \in View \cup {Nil}
  BY <1>1, <1>3 DEF IInv, TypeOK, Session
<1>5. ResumedRow(s) = txns[sess[s].cand] /\ ResumedRow(s) \in TxnRow
  BY <1>3, ElementOfSeq DEF ResumedRow, IInv, TypeOK
<1>6. sess[s].cand \in Nat \ {0}  BY <1>3, LenProperties DEF IInv, TypeOK
<1>7. Settling(s, sess[s].cand, ResumedRow(s))
  BY <1>1, <1>2, <1>3, <1>4, <1>5, <1>6 DEF Settling
<1> QED  BY <1>7 DEF Settlement, Resume, ResumeBackstop, ResumeOutcome, OutcomeOf, Finish

(* A transaction that ends without a row is quiet. *)
LEMMA FinishIsQuiet ==
  ASSUME IInv, NEW s \in Sessions, Finish(s),
         UNCHANGED <<wallets, txns, ledger, active, outbox, clock>>
  PROVE  Quiet
<1>1. sess \in [Sessions -> Session] /\ sess' = [sess EXCEPT ![s] = Idle]
  BY DEF Finish, IInv, TypeOK
<1>2. sess'[s] = Idle /\ \A t \in Sessions \ {s} : sess'[t] = sess[t]  BY <1>1
<1>3. Looking(s)  BY <1>2 DEF Looking, Idle, ResumePcs
<1> QED  BY <1>2, <1>3 DEF Quiet

(* One session moved to a statement that needs nothing read. *)
LEMMA GotoIsQuiet ==
  ASSUME IInv, NEW s \in Sessions, NEW x,
         sess' = [sess EXCEPT ![s] = x],
         \/ x.pc \notin {"settle"} \cup ResumePcs
         \/ x.pc = "claimLock" /\ x.now \in ReadClock
         \/ sess[s].pc = "claimLock" /\ x.pc = "claim" /\ x.now = sess[s].now,
         UNCHANGED <<wallets, txns, ledger, active, outbox, clock>>
  PROVE  Quiet
<1>1. sess \in [Sessions -> Session]  BY DEF IInv, TypeOK
<1>2. sess'[s] = x /\ \A t \in Sessions \ {s} : sess'[t] = sess[t]  BY <1>1
<1>3. Looking(s)  BY <1>2 DEF Looking
<1> QED  BY <1>2, <1>3 DEF Quiet

(* The lookups of a submission and the lock it waits for. *)
LEMMA LookupsAreQuiet ==
  ASSUME IInv, NEW s \in Submitters,
         \/ \E d \in Deliveries : Submit(s, d)
         \/ FindInbox(s) \/ RecordInbox(s) \/ ReplayByKey(s) \/ ReplayByExternal(s)
         \/ LockByID(s) \/ ResolveDuplicate(s)
  PROVE  Quiet
<1>1. s \in Sessions  BY DEF Sessions
<1>2. sess \in [Sessions -> Session] /\ sess[s] \in Session  BY <1>1 DEF IInv, TypeOK
<1>3. ASSUME NEW pc \in {"recordInbox", "byKey", "byExternal", "lock"}, Goto(s, pc),
             UNCHANGED <<wallets, txns, ledger, active, outbox, clock>>
      PROVE  Quiet
  <2> DEFINE x == [sess[s] EXCEPT !.pc = pc]
  <2>1. sess' = [sess EXCEPT ![s] = x]  BY <1>2, <1>3 DEF Goto
  <2>2. x.pc = pc  BY <1>2 DEF Session
  <2> HIDE DEF x
  <2>3. x.pc \notin {"settle"} \cup ResumePcs  BY <2>2, <1>3 DEF ResumePcs
  <2> QED  BY <2>1, <2>3, <1>1, <1>3, GotoIsQuiet
<1>4. CASE \E d \in Deliveries : Submit(s, d)
  <2>1. PICK d \in Deliveries : Submit(s, d)  BY <1>4
  <2> DEFINE x == [Idle EXCEPT !.pc = IF d.msg = Nil THEN "byKey" ELSE "findInbox",
                               !.request = d, !.wallet = d.op.wallet]
  <2>2. x.pc \in {"byKey", "findInbox"}  BY DEF Idle
  <2>3. sess' = [sess EXCEPT ![s] = x] /\ UNCHANGED <<db, clock, acks>>
    BY <2>1 DEF Submit
  <2> HIDE DEF x
  <2>4. x.pc \notin {"settle"} \cup ResumePcs  BY <2>2 DEF ResumePcs
  <2> QED  BY <2>3, <2>4, <1>1, GotoIsQuiet DEF db
<1>5. CASE FindInbox(s)
  BY <1>1, <1>3, <1>5, FinishIsQuiet DEF FindInbox, db
<1>6. CASE RecordInbox(s)
  BY <1>1, <1>3, <1>6, FinishIsQuiet DEF RecordInbox, db
<1>7. CASE ReplayByKey(s)
  BY <1>1, <1>3, <1>7, FinishIsQuiet DEF ReplayByKey, replayOf, db
<1>8. CASE ReplayByExternal(s)
  BY <1>1, <1>3, <1>8, FinishIsQuiet DEF ReplayByExternal, replayOf, db
<1>9. CASE LockByID(s)
  <2> DEFINE held == wallets[sess[s].request.op.wallet]
             x == [sess[s] EXCEPT !.pc = "record", !.held = held]
  <2>1. \/ Finish(s)
        \/ sess' = [sess EXCEPT ![s].pc = "record", ![s].held = held]
    BY <1>9 DEF LockByID
  <2>2. UNCHANGED <<wallets, txns, ledger, active, outbox, clock>>  BY <1>9 DEF LockByID, db
  <2> HIDE DEF held
  <2>3. CASE sess' = [sess EXCEPT ![s].pc = "record", ![s].held = held]
    <3>1. sess' = [sess EXCEPT ![s] = x]  BY <2>3, <1>1, <1>2
    <3>2. x.pc = "record"  BY <1>2 DEF Session
    <3> HIDE DEF x
    <3>3. x.pc \notin {"settle"} \cup ResumePcs  BY <3>2 DEF ResumePcs
    <3> QED  BY <3>1, <3>3, <2>2, <1>1, GotoIsQuiet
  <2> QED  BY <2>1, <2>2, <2>3, <1>1, FinishIsQuiet
<1>10. CASE ResolveDuplicate(s)
  BY <1>1, <1>10, FinishIsQuiet DEF ResolveDuplicate, db
<1> QED  BY <1>4, <1>5, <1>6, <1>7, <1>8, <1>9, <1>10

(* The insert reads the clock and the reference, or finds its key taken. *)
LEMMA RecordIsQuiet ==
  ASSUME IInv, NEW s \in Submitters, Record(s)
  PROVE  Quiet
<1> DEFINE d == sess[s].request
           dup == [Idle EXCEPT !.pc = "duplicate", !.request = d]
<1>1. s \in Sessions  BY DEF Sessions
<1>2. /\ sess \in [Sessions -> Session] /\ sess[s].pc = "record" /\ ~InsertInFlight(s, d.op)
      /\ UNCHANGED <<wallets, txns, ledger, active, outbox, clock>>
  BY DEF Record, IInv, TypeOK, db
<1>3. d \in Deliveries  BY <1>1, <1>2 DEF IInv, SessionsAttached, Attached, SubmitPcs
<1>4. CASE ByIdempotencyKey(d.op) \cup ByExternal(d.op) # {}
  <2>1. sess' = [sess EXCEPT ![s] = dup]  BY <1>4 DEF Record
  <2>2. dup.pc = "duplicate"  BY DEF Idle
  <2> HIDE DEF dup
  <2>3. dup.pc \notin {"settle"} \cup ResumePcs  BY <2>2 DEF ResumePcs
  <2> QED  BY <2>1, <2>3, <1>1, <1>2, GotoIsQuiet
<1>5. CASE ByIdempotencyKey(d.op) \cup ByExternal(d.op) = {}
  <2>1. PICK now \in ReadClock :
          sess' = [sess EXCEPT ![s].pc = "settle", ![s].now = now,
                               ![s].view = ReferenceFor(d.op)]
    BY <1>5 DEF Record
  <2> DEFINE view == ReferenceFor(d.op)
  <2>2. /\ sess'[s] = [sess[s] EXCEPT !.pc = "settle", !.now = now, !.view = view]
        /\ \A t \in Sessions \ {s} : sess'[t] = sess[t]
    BY <2>1, <1>1, <1>2
  <2>3. Inserting(s)  BY <2>2, <1>2, <1>3, <1>5 DEF Inserting
  <2> QED  BY <2>2, <2>3, <1>2 DEF Quiet
<1> QED  BY <1>4, <1>5

(* What a worker does up to the settlement of the row it claimed. *)
LEMMA ClaimsAreQuiet ==
  ASSUME IInv, NEW s \in Workers, NextDue(s) \/ ResumeLock(s) \/ ClaimForUpdate(s)
  PROVE  Quiet
<1>1. s \in Sessions  BY DEF Sessions
<1>2. sess \in [Sessions -> Session] /\ sess[s] \in Session  BY <1>1 DEF IInv, TypeOK
<1>3. UNCHANGED <<wallets, txns, ledger, active, outbox, clock>>
  BY DEF NextDue, ResumeLock, ClaimForUpdate, db
<1>4. CASE NextDue(s)
  <2>1. PICK now \in ReadClock, i \in DOMAIN txns :
          sess' = [sess EXCEPT ![s] = [Idle EXCEPT !.pc = "claimLock", !.cand = i, !.now = now,
                                                   !.wallet = txns[i].op.wallet]]
    BY <1>4 DEF NextDue
  <2> DEFINE x == [Idle EXCEPT !.pc = "claimLock", !.cand = i, !.now = now,
                               !.wallet = txns[i].op.wallet]
  <2>2. sess' = [sess EXCEPT ![s] = x]  BY <2>1
  <2>3. x.pc = "claimLock" /\ x.now = now  BY DEF Idle
  <2> HIDE DEF x
  <2> QED  BY <2>2, <2>3, <1>1, <1>3, GotoIsQuiet
<1>5. CASE ResumeLock(s)
  <2> DEFINE held == wallets[sess[s].wallet]
             x == [sess[s] EXCEPT !.pc = "claim", !.held = held]
  <2>1. /\ sess' = [sess EXCEPT ![s].pc = "claim", ![s].held = held]
        /\ sess[s].pc = "claimLock"
    BY <1>5 DEF ResumeLock
  <2> HIDE DEF held
  <2>2. sess' = [sess EXCEPT ![s] = x]  BY <2>1, <1>1, <1>2
  <2>3. x.pc = "claim" /\ x.now = sess[s].now  BY <1>2 DEF Session
  <2> HIDE DEF x
  <2> QED  BY <2>1, <2>2, <2>3, <1>1, <1>3, GotoIsQuiet
<1>6. CASE ClaimForUpdate(s)
  <2> DEFINE view == ReferenceFor(txns[sess[s].cand].op)
  <2>1. /\ sess[s].pc = "claim"
        /\ \/ /\ Due(sess[s].cand, sess[s].now)
              /\ sess' = [sess EXCEPT ![s].pc = "resume", ![s].view = view]
           \/ Finish(s)
    BY <1>6 DEF ClaimForUpdate
  <2>2. CASE /\ Due(sess[s].cand, sess[s].now)
             /\ sess' = [sess EXCEPT ![s].pc = "resume", ![s].view = view]
    <3> HIDE DEF view
    <3>1. /\ sess'[s] = [sess[s] EXCEPT !.pc = "resume", !.view = view]
          /\ \A t \in Sessions \ {s} : sess'[t] = sess[t]
      BY <2>2, <1>1, <1>2
    <3>2. Claiming(s)  BY <3>1, <2>1, <2>2 DEF Claiming, view
    <3> QED  BY <3>1, <3>2, <1>3 DEF Quiet
  <2> QED  BY <2>1, <2>2, <1>1, <1>3, FinishIsQuiet
<1> QED  BY <1>4, <1>5, <1>6

(* A row put aside: FAILED past its deadline, else looked at again later. *)
PutAside(row, now) ==
  IF row.deadline # 0 /\ now >= row.deadline
  THEN [row EXCEPT !.status = "FAILED", !.nextAttempt = 0, !.updatedAt = now]
  ELSE [row EXCEPT !.nextAttempt = nextAttemptAt(row.attempts, now, row.deadline)]

(* Every step is quiet, settles a row, puts one aside or opens a wallet. *)
LEMMA StepCases ==
  ASSUME IInv, [Next]_vars
  PROVE  \/ Quiet
         \/ \E s \in Sessions, i \in Nat : \E row \in TxnRow : Settlement(s, i, row)
         \/ \E s \in Workers : cannotCarryForward(s)
         \/ \E o \in Openings : Open(o)
<1>1. ASSUME NEW s \in Submitters, SubmitStep(s), ~Quiet
      PROVE  \E t \in Sessions, i \in Nat : \E row \in TxnRow : Settlement(t, i, row)
  <2>1. Settle(s)
    BY <1>1, LookupsAreQuiet, RecordIsQuiet DEF SubmitStep
  <2>2. Settlement(s, Len(txns) + 1, SubmittedRow(s))
    BY <2>1, SettleIsSettlement DEF Settle
  <2> QED  BY <2>2 DEF Settlement, Settling
<1>2. ASSUME NEW s \in Workers, ResumeStep(s), ~Quiet, ~cannotCarryForward(s)
      PROVE  \E t \in Sessions, i \in Nat : \E row \in TxnRow : Settlement(t, i, row)
  <2>1. Resume(s)
    BY <1>2, ClaimsAreQuiet DEF ResumeStep
  <2>2. Settlement(s, sess[s].cand, ResumedRow(s))
    BY <2>1, ResumeIsSettlement DEF Resume
  <2> QED  BY <2>2 DEF Settlement, Settling
<1>3. ASSUME NEW s \in Sessions, Refused(s) \/ Abort(s)
      PROVE  Quiet
  <2>1. Finish(s) /\ UNCHANGED <<db, clock, acks>>  BY <1>3 DEF Refused, Abort
  <2> QED  BY <2>1, FinishIsQuiet DEF db
<1>4. CASE Tick \/ UNCHANGED vars
  <2>1. /\ UNCHANGED <<wallets, txns, ledger, active, outbox, sess>>
        /\ clock' \in {clock, clock + 1}
    BY <1>4 DEF Tick, vars, db
  <2> QED  BY <2>1 DEF Quiet
<1> QED  BY <1>1, <1>2, <1>3, <1>4 DEF Next

(* What a settlement does to the rows. *)
LEMMA SettlementRows ==
  ASSUME IInv, NEW s \in Sessions, NEW i \in Nat, NEW row \in TxnRow, Settlement(s, i, row)
  PROVE  LET new == SettledOf(s, row)
         IN  /\ Len(txns) \in Nat /\ DOMAIN txns = 1..Len(txns)
             /\ i \in 1..Len(txns) + 1
             /\ DOMAIN txns' = IF i = Len(txns) + 1 THEN 1..Len(txns) + 1 ELSE 1..Len(txns)
             /\ txns'[i] = new
             /\ \A j \in 1..Len(txns) : j # i =>
                  txns'[j] = IF new.status = "PROCESSED" /\ Awaits(txns[j], row.op)
                             THEN Woken(txns[j], sess[s].now) ELSE txns[j]
             /\ new \in TxnRow /\ new.op = row.op /\ new.status = OutcomeOf(s, row).status
             /\ Sound(OutcomeOf(s, row), sess[s].held, row.op)
<1> DEFINE out == OutcomeOf(s, row)
           new == SettledOf(s, row)
           now == sess[s].now
<1>1. txns \in Seq(TxnRow) /\ Len(txns) \in Nat /\ DOMAIN txns = 1..Len(txns)
  BY LenProperties DEF IInv, TypeOK
<1>2. /\ i \in 1..Len(txns) + 1 /\ sess[s].held \in WalletRow /\ now \in Nat \ {0}
      /\ sess[s].view \in View \cup {Nil}
  BY <1>1 DEF Settlement, Settling
<1>3. Sound(out, sess[s].held, row.op)  BY <1>2, ApplySound DEF OutcomeOf
<1>4. new \in TxnRow /\ new.op = row.op /\ new.status = out.status
  BY <1>2, <1>3, SettledFacts DEF SettledOf
<1>5. txns' = Write(i, new, now)
  BY DEF Settlement, commitOutcome, SettledOf
<1> HIDE DEF new, out
<1>6. LET txs == Write(i, new, now)
      IN  /\ DOMAIN txs = IF i = Len(txns) + 1 THEN 1..Len(txns) + 1 ELSE 1..Len(txns)
          /\ txs[i] = new
          /\ \A j \in 1..Len(txns) : j # i =>
               txs[j] = IF new.status = "PROCESSED" /\ Awaits(txns[j], new.op)
                        THEN Woken(txns[j], now) ELSE txns[j]
  BY <1>1, <1>2, <1>4, WrittenRows
<1> QED  BY <1>1, <1>2, <1>3, <1>4, <1>5, <1>6 DEF new, out

(* What putting a row aside does to the rows. *)
LEMMA PutAsideRows ==
  ASSUME IInv, NEW s \in Workers, cannotCarryForward(s)
  PROVE  LET i == sess[s].cand
         IN  /\ Len(txns) \in Nat /\ DOMAIN txns = 1..Len(txns)
             /\ i \in 1..Len(txns) /\ s \in Sessions /\ sess[s].pc = "resume"
             /\ txns[i] \in TxnRow /\ ~Carriable(txns[i])
             /\ txns[i].op.wallet = sess[s].wallet
             /\ sess[s].now \in Nat \ {0}
             /\ DOMAIN txns' = 1..Len(txns)
             /\ txns'[i] = PutAside(txns[i], sess[s].now)
             /\ \A j \in 1..Len(txns) : j # i => txns'[j] = txns[j]
             /\ sess' = [sess EXCEPT ![s] = Idle]
             /\ UNCHANGED <<wallets, ledger, active, inbox, outbox, clock, acks>>
<1> DEFINE i == sess[s].cand
           new == PutAside(txns[i], sess[s].now)
<1>1. s \in Sessions  BY DEF Sessions
<1>2. /\ sess[s].pc = "resume" /\ ~Carriable(txns[i]) /\ txns' = [txns EXCEPT ![i] = new]
      /\ sess' = [sess EXCEPT ![s] = Idle]
      /\ UNCHANGED <<wallets, ledger, active, inbox, outbox, clock, acks>>
  BY DEF cannotCarryForward, ResumedRow, PutAside, Finish
<1>3. i \in 1..Len(txns) /\ sess[s].now # 0 /\ txns[i].op.wallet = sess[s].wallet
  BY <1>1, <1>2 DEF IInv, SessionsAttached, Attached, ResumePcs
<1>4. txns[i] \in TxnRow /\ Len(txns) \in Nat /\ DOMAIN txns = 1..Len(txns)
  BY <1>3, ElementOfSeq, LenProperties DEF IInv, TypeOK
<1>5. sess[s].now \in Nat \ {0}  BY <1>1, <1>3 DEF IInv, TypeOK, Session
<1> HIDE DEF new
<1> QED  BY <1>1, <1>2, <1>3, <1>4, <1>5 DEF new

(* The row an opening writes. *)
OpeningRow(o) ==
  [NewExternalTransaction(OpeningOperation(o), clock)
     EXCEPT !.status = "PROCESSED", !.result = o.amount]

(* What opening a wallet does to the rows. *)
LEMMA OpenRows ==
  ASSUME IInv, NEW o \in Openings, Open(o)
  PROVE  /\ Len(txns) \in Nat /\ DOMAIN txns = 1..Len(txns)
         /\ o.wallet \in Wallets /\ wallets[o.wallet] = Nil
         /\ \A v \in Wallets : v # o.wallet => wallets'[v] = wallets[v]
         /\ UNCHANGED <<active, inbox, sess, clock, acks>>
         /\ o.amount = 0 => UNCHANGED <<txns, ledger, outbox>>
         /\ o.amount # 0 =>
              /\ DOMAIN txns' = 1..Len(txns) + 1
              /\ \A j \in 1..Len(txns) : txns'[j] = txns[j]
              /\ txns'[Len(txns) + 1] = OpeningRow(o)
         /\ OpeningRow(o) \in TxnRow /\ OpeningRow(o).op = OpeningOperation(o)
         /\ OpeningRow(o).status = "PROCESSED" /\ OpeningRow(o).result = o.amount
         /\ OpeningRow(o).attempts = 0 /\ OpeningRow(o).nextAttempt = 0
<1>1. /\ txns \in Seq(TxnRow) /\ Len(txns) \in Nat /\ DOMAIN txns = 1..Len(txns)
      /\ wallets \in [Wallets -> WalletRow \cup {Nil}] /\ clock \in Nat \ {0}
  BY LenProperties DEF IInv, TypeOK
<1>2. o.wallet \in Wallets /\ o.amount \in Amounts  BY ServiceAssumption DEF Amounts
<1>3. OpeningOperation(o) \in RowOperations  BY DEF RowOperations
<1>4. /\ OpeningRow(o) \in TxnRow /\ OpeningRow(o).op = OpeningOperation(o)
      /\ OpeningRow(o).status = "PROCESSED" /\ OpeningRow(o).result = o.amount
      /\ OpeningRow(o).attempts = 0 /\ OpeningRow(o).nextAttempt = 0
  <2> DEFINE fresh == NewExternalTransaction(OpeningOperation(o), clock)
  <2>1. fresh \in TxnRow /\ fresh.op = OpeningOperation(o)
    BY <1>1, <1>3, SubmittedRowFacts
  <2>2. fresh.attempts = 0 /\ fresh.nextAttempt = 0  BY DEF NewExternalTransaction
  <2>3. OpeningRow(o) = [fresh EXCEPT !.status = "PROCESSED", !.result = o.amount]
    BY DEF OpeningRow
  <2> HIDE DEF fresh
  <2> QED  BY <2>1, <2>2, <2>3, <1>2 DEF TxnRow, Statuses
<1>5. /\ wallets[o.wallet] = Nil
      /\ \E x : wallets' = [wallets EXCEPT ![o.wallet] = x]
      /\ UNCHANGED <<active, inbox, sess, clock, acks>>
      /\ o.amount = 0 => UNCHANGED <<txns, ledger, outbox>>
      /\ o.amount # 0 => txns' = Append(txns, OpeningRow(o))
  BY DEF Open, OpeningRow
<1>6. o.amount # 0 => /\ DOMAIN txns' = 1..Len(txns) + 1
                      /\ \A j \in 1..Len(txns) : txns'[j] = txns[j]
                      /\ txns'[Len(txns) + 1] = OpeningRow(o)
  BY <1>1, <1>4, <1>5, AppendProperties
<1> QED  BY <1>1, <1>2, <1>4, <1>5, <1>6

-----------------------------------------------------------------------------
(* Rows are decided once and wait within their budget. *)

(* Submissions settle submitted rows and workers resume parked ones. *)
RolesKept ==
  \A s \in Sessions : /\ sess[s].pc = "settle" => s \in Submitters
                      /\ sess[s].pc = "resume" => s \in Workers

(* An instant a session works with has been. *)
InstantsPast ==
  \A s \in Sessions : sess[s].pc \in {"settle"} \cup ResumePcs => sess[s].now <= clock

(* A claimed row is still parked: only a holder of its wallet's lock settles it. *)
ClaimedIsParked ==
  \A s \in Sessions : sess[s].pc = "resume" => Parked(txns[sess[s].cand])

(* What a committed row is, at an instant. *)
RowSound(row, at) ==
  /\ row.status # "PENDING"
  /\ row.op.kind = "OPENING" => row.status = "PROCESSED"
  /\ Parked(row) =>
       /\ namesReference(row.op) /\ row.attempts > 0
       /\ row.nextAttempt > 0 /\ row.updatedAt < row.deadline
       /\ row.nextAttempt <= row.deadline \/ row.nextAttempt <= at

RowsSound == \A i \in 1..Len(txns) : RowSound(txns[i], clock)

HistoryInv == RolesKept /\ InstantsPast /\ ClaimedIsParked /\ RowsSound

(* What a settlement decides, once the row it claimed is known to be parked. *)
LEMMA SettlementDecides ==
  ASSUME IInv, ClaimedIsParked, NEW s \in Sessions, NEW i, NEW row, Settling(s, i, row)
  PROVE  /\ row.status \in Undecided
         /\ sess[s].pc = "settle" => row.status = "PENDING" /\ row.attempts = 0 /\ row.deadline = 0
         /\ sess[s].pc = "resume" => Parked(row)
         /\ Decision(row, sess[s].view, sess[s].now, OutcomeOf(s, row))
<1>1. sess[s].pc = "settle" => row.status = "PENDING" /\ row.attempts = 0 /\ row.deadline = 0
  BY DEF Settling, SubmittedRow, NewExternalTransaction
<1>2. sess[s].pc = "resume" => Parked(row)
  BY DEF Settling, ClaimedIsParked
<1>3. row.status \in Undecided
  BY <1>1, <1>2 DEF Settling, Undecided, Parked
<1>4. Decision(row, sess[s].view, sess[s].now, OutcomeOf(s, row))
  BY <1>3, ApplyDecides DEF Settling, OutcomeOf
<1> QED  BY <1>1, <1>2, <1>3, <1>4

(* The fields of a settled row. *)
LEMMA SettledFields ==
  ASSUME NEW s \in Sessions, NEW row \in TxnRow
  PROVE  LET new == SettledOf(s, row)
             out == OutcomeOf(s, row)
         IN  /\ new.op = row.op /\ new.status = out.status /\ new.attempts = out.attempts
             /\ new.deadline = out.deadline /\ new.resolved = out.resolved
             /\ new.updatedAt = sess[s].now
             /\ new.nextAttempt = IF out.status = "PENDING_REFERENCE"
                                  THEN nextAttemptAt(out.attempts, sess[s].now, out.deadline)
                                  ELSE 0
             /\ new.result = IF out.status = "PROCESSED"
                             THEN applyDirection(out.direction, sess[s].held.balance,
                                                 row.op.amount)
                             ELSE Nil
BY DEF SettledOf, Settled, TxnRow

(* The next attempt is in the future and not past the deadline. *)
LEMMA NextAttemptBounded ==
  ASSUME NEW attempts \in 0..MaxAttempts, NEW now \in Nat \ {0}, NEW deadline \in Nat \ {0}
  PROVE  /\ nextAttemptAt(attempts, now, deadline) \in Nat \ {0}
         /\ nextAttemptAt(attempts, now, deadline) <= deadline
<1>1. (IF attempts < 1 THEN 1 ELSE attempts) \in 1..MaxAttempts
  BY PolicyAssumption
<1>2. Backoff[IF attempts < 1 THEN 1 ELSE attempts] \in Nat
  BY <1>1, ServiceAssumption
<1> QED  BY <1>2 DEF nextAttemptAt

(* Woken rows keep everything but the instant they are due. *)
LEMMA WokenFields ==
  ASSUME NEW row \in TxnRow, NEW now
  PROVE  /\ Woken(row, now).nextAttempt = now /\ Woken(row, now).op = row.op
         /\ Woken(row, now).status = row.status /\ Woken(row, now).attempts = row.attempts
         /\ Woken(row, now).deadline = row.deadline /\ Woken(row, now).code = row.code
         /\ Woken(row, now).resolved = row.resolved /\ Woken(row, now).result = row.result
         /\ Woken(row, now).updatedAt = row.updatedAt
         /\ Parked(Woken(row, now)) <=> Parked(row)
BY DEF Woken, TxnRow, Parked

(* A row put aside keeps its operation, its attempts and its deadline. *)
LEMMA PutAsideFields ==
  ASSUME NEW row \in TxnRow, NEW now \in Nat \ {0}
  PROVE  LET new == PutAside(row, now)
         IN  /\ new.op = row.op /\ new.attempts = row.attempts /\ new.deadline = row.deadline
             /\ new.resolved = row.resolved /\ new.result = row.result
             /\ \/ new.status = "FAILED"
                \/ /\ new.status = row.status /\ new.updatedAt = row.updatedAt
                   /\ new.nextAttempt = nextAttemptAt(row.attempts, now, row.deadline)
BY DEF PutAside, TxnRow

(* Another session at its own wallet keeps its own row from being written. *)
LEMMA ClaimsExclusive ==
  ASSUME IInv, NEW s \in Sessions, NEW t \in Sessions \ {s},
         sess[t].pc \in Locked, sess[s].pc \in Locked
  PROVE  sess[s].wallet # sess[t].wallet
BY DEF IInv, HeldIsCurrent, HoldsLock

(* Quiet steps: sessions come to a settlement with what they read. *)
LEMMA HistoryQuiet ==
  ASSUME IInv, HistoryInv, Quiet
  PROVE  HistoryInv'
<1>1. clock \in Nat /\ clock' \in Nat /\ clock <= clock'
  BY DEF IInv, TypeOK, Quiet
<1>2. ASSUME NEW s \in Sessions
      PROVE  /\ sess'[s].pc = "settle" => s \in Submitters
             /\ sess'[s].pc = "resume" => s \in Workers
             /\ sess'[s].pc \in {"settle"} \cup ResumePcs => sess'[s].now <= clock
             /\ sess'[s].pc = "resume" => Parked(txns[sess'[s].cand])
  <2>1. sess[s] \in Session  BY DEF IInv, TypeOK
  <2>2. CASE sess'[s] = sess[s]
    BY <2>2 DEF HistoryInv, RolesKept, InstantsPast, ClaimedIsParked
  <2>3. CASE Inserting(s)
    <3>1. PICK now \in ReadClock :
            sess'[s] = [sess[s] EXCEPT !.pc = "settle", !.now = now,
                                       !.view = ReferenceFor(sess[s].request.op)]
      BY <2>3 DEF Inserting
    <3>2. sess'[s].pc = "settle" /\ sess'[s].now = now  BY <2>1, <3>1 DEF Session
    <3>3. now <= clock  BY <1>1 DEF ReadClock
    <3> QED  BY <2>3, <3>2, <3>3 DEF Inserting
  <2>4. CASE Claiming(s)
    <3>1. /\ sess'[s].pc = "resume" /\ sess'[s].now = sess[s].now
          /\ sess'[s].cand = sess[s].cand /\ sess[s].pc = "claim"
      BY <2>1, <2>4 DEF Claiming, Session
    <3>2. sess[s].now <= clock  BY <3>1 DEF HistoryInv, InstantsPast, ResumePcs
    <3> QED  BY <2>4, <3>1, <3>2 DEF Claiming, Due
  <2>5. CASE Looking(s)
    <3>1. sess'[s].pc \notin {"settle", "resume"}
      BY <2>5 DEF Looking, ResumePcs
    <3>2. sess'[s].pc \in ResumePcs => sess'[s].now <= clock
      BY <2>5, <1>1 DEF Looking, HistoryInv, InstantsPast, ResumePcs, ReadClock
    <3> QED  BY <3>1, <3>2
  <2> QED  BY <2>2, <2>3, <2>4, <2>5 DEF Quiet
<1>3. RolesKept'  BY <1>2 DEF RolesKept
<1>4. InstantsPast'
  <2>1. \A s \in Sessions : sess'[s].pc \in {"settle"} \cup ResumePcs => sess'[s].now \in Nat
    <3>1. ASSUME NEW s \in Sessions PROVE sess'[s].pc \in {"settle"} \cup ResumePcs => sess'[s].now \in Nat
      <4>1. sess[s] \in Session  BY DEF IInv, TypeOK
      <4>2. CASE sess'[s] = sess[s]  BY <4>1, <4>2 DEF Session
      <4>3. CASE Inserting(s)
        <5>1. PICK now \in ReadClock :
                sess'[s] = [sess[s] EXCEPT !.pc = "settle", !.now = now,
                                           !.view = ReferenceFor(sess[s].request.op)]
          BY <4>3 DEF Inserting
        <5>2. now \in Nat  BY ReadClockFacts DEF IInv
        <5> QED  BY <4>1, <5>1, <5>2 DEF Session
      <4>4. CASE Claiming(s)  BY <4>1, <4>4 DEF Claiming, Session
      <4>5. CASE Looking(s)
        <5>1. \A now \in ReadClock : now \in Nat  BY ReadClockFacts DEF IInv
        <5> QED  BY <4>1, <4>5, <5>1 DEF Looking, Session
      <4> QED  BY <4>2, <4>3, <4>4, <4>5 DEF Quiet
    <3> QED  BY <3>1
  <2> QED  BY <1>1, <1>2, <2>1 DEF InstantsPast
<1>5. ClaimedIsParked'  BY <1>2 DEF ClaimedIsParked, Quiet, Parked
<1>6. RowsSound'
  <2>1. \A i \in 1..Len(txns) : txns[i] \in TxnRow
    BY ElementOfSeq DEF IInv, TypeOK
  <2>2. \A i \in 1..Len(txns) : txns[i].nextAttempt \in Nat
    BY <2>1 DEF TxnRow
  <2> QED  BY <2>2, <1>1 DEF Quiet, HistoryInv, RowsSound, RowSound, Parked
<1> QED  BY <1>3, <1>4, <1>5, <1>6 DEF HistoryInv

(* A step that ends a session with the lock, or none, and writes only rows   *)
(* nobody else has claimed.                                                  *)
LEMMA HistoryAfterWrite ==
  ASSUME IInv, HistoryInv, clock' = clock,
         \A t \in Sessions : sess'[t] = sess[t] \/ sess'[t] = Idle,
         \A t \in Sessions : sess'[t] = sess[t] /\ sess[t].pc = "resume" =>
                               Parked(txns'[sess[t].cand])
  PROVE  RolesKept' /\ InstantsPast' /\ ClaimedIsParked'
<1>1. Idle.pc = "idle"  BY DEF Idle
<1>2. RolesKept'  BY <1>1 DEF HistoryInv, RolesKept
<1>3. InstantsPast'  BY <1>1 DEF HistoryInv, InstantsPast, ResumePcs
<1>4. ClaimedIsParked'  BY <1>1 DEF ClaimedIsParked, Parked
<1> QED  BY <1>2, <1>3, <1>4

(* A settlement leaves rows sound. *)
LEMMA HistorySettlement ==
  ASSUME IInv, IInv', HistoryInv, NEW s \in Sessions, NEW i \in Nat, NEW row \in TxnRow,
         Settlement(s, i, row)
  PROVE  HistoryInv'
<1> DEFINE new == SettledOf(s, row)
           out == OutcomeOf(s, row)
           now == sess[s].now
<1>1. /\ Len(txns) \in Nat /\ DOMAIN txns = 1..Len(txns) /\ i \in 1..Len(txns) + 1
      /\ DOMAIN txns' = IF i = Len(txns) + 1 THEN 1..Len(txns) + 1 ELSE 1..Len(txns)
      /\ txns'[i] = new
      /\ \A j \in 1..Len(txns) : j # i =>
           txns'[j] = IF new.status = "PROCESSED" /\ Awaits(txns[j], row.op)
                      THEN Woken(txns[j], now) ELSE txns[j]
      /\ Sound(out, sess[s].held, row.op)
  BY SettlementRows
<1>2. Settling(s, i, row) /\ sess' = [sess EXCEPT ![s] = Idle] /\ clock' = clock
  BY DEF Settlement
<1>3. /\ row.status \in Undecided /\ Decision(row, sess[s].view, now, out)
      /\ sess[s].pc = "settle" => row.status = "PENDING"
      /\ sess[s].pc = "resume" => Parked(row)
  BY <1>2, SettlementDecides DEF HistoryInv
<1>4. /\ new.op = row.op /\ new.status = out.status /\ new.attempts = out.attempts
      /\ new.deadline = out.deadline /\ new.updatedAt = now
      /\ new.nextAttempt = IF out.status = "PENDING_REFERENCE"
                           THEN nextAttemptAt(out.attempts, now, out.deadline) ELSE 0
  BY SettledFields
<1>5. /\ now \in Nat \ {0} /\ now <= clock /\ clock \in Nat
  BY <1>2 DEF Settling, HistoryInv, InstantsPast, ResumePcs, IInv, TypeOK
<1>6. Len(txns') \in Nat /\ DOMAIN txns' = 1..Len(txns')
  BY LenProperties DEF IInv, TypeOK
<1>7. \A j \in 1..Len(txns) : txns[j] \in TxnRow
  BY ElementOfSeq DEF IInv, TypeOK
<1>8. RowSound(new, clock')
  <2>1. out \in Outcomes  BY <1>1 DEF Sound
  <2>2. new.op.kind = "OPENING" => new.status = "PROCESSED"
    <3>1. CASE sess[s].pc = "settle"
      <4>1. row.op \in Operations  BY <1>2, <3>1, DeliveryFacts DEF Settling
      <4>2. PICK d \in Deliveries : row.op = d.op  BY <4>1 DEF Operations
      <4>3. row.op.kind # "OPENING"  BY <4>2, ServiceAssumption DEF Validate
      <4> QED  BY <4>3, <1>4
    <3>2. CASE sess[s].pc = "resume"
      <4>1. i \in 1..Len(txns) /\ row = txns[i]  BY <1>2, <3>2 DEF Settling
      <4>2. row.op.kind # "OPENING"
        BY <4>1, <3>2, <1>3 DEF HistoryInv, RowsSound, RowSound, Parked
      <4> QED  BY <4>2, <1>4
    <3> QED  BY <3>1, <3>2, <1>2 DEF Settling
  <2>3. new.status # "PENDING"  BY <1>3, <1>4 DEF Decision
  <2>4. ASSUME Parked(new)
        PROVE  /\ namesReference(new.op) /\ new.attempts > 0
               /\ new.nextAttempt > 0 /\ new.updatedAt < new.deadline
               /\ new.nextAttempt <= new.deadline
    <3>1. out.status = "PENDING_REFERENCE"  BY <2>4, <1>4 DEF Parked
    <3>2. namesReference(row.op) /\ now < out.deadline /\ out.attempts = row.attempts + 1
      BY <3>1, <1>3 DEF Decision
    <3>3. out.deadline \in Nat \ {0} /\ out.attempts \in 0..MaxAttempts
      BY <2>1, <3>2, <1>5 DEF Outcomes
    <3>4. /\ new.nextAttempt \in Nat \ {0} /\ new.nextAttempt <= out.deadline
      BY <3>1, <3>3, <1>4, <1>5, NextAttemptBounded
    <3>5. row.attempts \in Nat  BY DEF TxnRow
    <3> QED  BY <3>2, <3>3, <3>4, <3>5, <1>4
  <2> HIDE DEF new, out
  <2> QED  BY <2>2, <2>3, <2>4, <1>2 DEF RowSound, Parked
<1> HIDE DEF new, out
<1>9. \A j \in 1..Len(txns) : j # i => RowSound(txns'[j], clock')
  <2> SUFFICES ASSUME NEW j \in 1..Len(txns), j # i PROVE RowSound(txns'[j], clock')  OBVIOUS
  <2>1. RowSound(txns[j], clock)  BY DEF HistoryInv, RowsSound
  <2>2. CASE txns'[j] = txns[j]
    BY <2>1, <2>2, <1>2 DEF RowSound, Parked
  <2>3. CASE txns'[j] = Woken(txns[j], now)
    BY <2>1, <2>3, <1>2, <1>5, <1>7, WokenFields DEF RowSound, Parked
  <2> QED  BY <2>2, <2>3, <1>1
<1>10. RowsSound'
  BY <1>1, <1>6, <1>8, <1>9 DEF RowsSound
<1>11. \A t \in Sessions : sess'[t] = sess[t] \/ sess'[t] = Idle
  BY <1>2 DEF IInv, TypeOK
<1>12. ASSUME NEW t \in Sessions, sess'[t] = sess[t], sess[t].pc = "resume"
       PROVE  Parked(txns'[sess[t].cand])
  <2>1. t # s
    BY <1>2, <1>12 DEF Idle, IInv, TypeOK
  <2>2. sess[t].cand \in 1..Len(txns) /\ sess[t].wallet = txns[sess[t].cand].op.wallet
    BY <1>12 DEF IInv, SessionsAttached, Attached, ResumePcs
  <2>3. sess[t].wallet # sess[s].wallet
    BY <2>1, <1>2, <1>12, ClaimsExclusive DEF Settling, Locked
  <2>4. sess[t].cand # i
    BY <2>2, <2>3, <1>2, <1>1 DEF Settling
  <2>5. Parked(txns[sess[t].cand])  BY <1>12 DEF HistoryInv, ClaimedIsParked
  <2> QED  BY <2>2, <2>4, <2>5, <1>1, <1>7, WokenFields
<1> QED  BY <1>2, <1>10, <1>11, <1>12, HistoryAfterWrite DEF HistoryInv

(* A row put aside is sound, and no other session had claimed it. *)
LEMMA HistoryPutAside ==
  ASSUME IInv, IInv', HistoryInv, NEW s \in Workers, cannotCarryForward(s)
  PROVE  HistoryInv'
<1> DEFINE i == sess[s].cand
           new == PutAside(txns[i], sess[s].now)
<1>1. /\ Len(txns) \in Nat /\ i \in 1..Len(txns) /\ s \in Sessions /\ sess[s].pc = "resume"
      /\ txns[i] \in TxnRow /\ sess[s].now \in Nat \ {0}
      /\ txns[i].op.wallet = sess[s].wallet
      /\ DOMAIN txns' = 1..Len(txns) /\ txns'[i] = new
      /\ \A j \in 1..Len(txns) : j # i => txns'[j] = txns[j]
      /\ sess' = [sess EXCEPT ![s] = Idle] /\ clock' = clock
  BY PutAsideRows
<1>2. Parked(txns[i]) /\ RowSound(txns[i], clock)
  BY <1>1 DEF HistoryInv, ClaimedIsParked, RowsSound
<1>3. /\ new.op = txns[i].op /\ new.attempts = txns[i].attempts
      /\ new.deadline = txns[i].deadline
      /\ \/ new.status = "FAILED"
         \/ /\ new.status = txns[i].status /\ new.updatedAt = txns[i].updatedAt
            /\ new.nextAttempt = nextAttemptAt(txns[i].attempts, sess[s].now, txns[i].deadline)
  BY <1>1, PutAsideFields
<1>4. /\ txns[i].deadline \in Nat \ {0} /\ txns[i].attempts \in 0..MaxAttempts
  BY <1>1, <1>2 DEF RowSound, TxnRow
<1>5. /\ nextAttemptAt(txns[i].attempts, sess[s].now, txns[i].deadline) \in Nat \ {0}
      /\ nextAttemptAt(txns[i].attempts, sess[s].now, txns[i].deadline) <= txns[i].deadline
  BY <1>1, <1>4, NextAttemptBounded
<1> HIDE DEF new
<1>6. RowSound(new, clock')
  BY <1>2, <1>3, <1>5, <1>1 DEF RowSound, Parked
<1>7. Len(txns') \in Nat /\ DOMAIN txns' = 1..Len(txns')
  BY LenProperties DEF IInv, TypeOK
<1>8. \A j \in 1..Len(txns) : j # i => RowSound(txns'[j], clock')
  BY <1>1 DEF HistoryInv, RowsSound, RowSound, Parked
<1>9. RowsSound'
  BY <1>1, <1>6, <1>7, <1>8 DEF RowsSound
<1>10. \A t \in Sessions : sess'[t] = sess[t] \/ sess'[t] = Idle
  BY <1>1 DEF IInv, TypeOK
<1>11. ASSUME NEW t \in Sessions, sess'[t] = sess[t], sess[t].pc = "resume"
       PROVE  Parked(txns'[sess[t].cand])
  <2>1. t # s
    BY <1>1, <1>11 DEF Idle, IInv, TypeOK
  <2>2. sess[t].cand \in 1..Len(txns) /\ sess[t].wallet = txns[sess[t].cand].op.wallet
    BY <1>11 DEF IInv, SessionsAttached, Attached, ResumePcs
  <2>3. sess[t].wallet # sess[s].wallet
    BY <2>1, <1>1, <1>11, ClaimsExclusive DEF Locked
  <2>4. Parked(txns[sess[t].cand])  BY <1>11 DEF HistoryInv, ClaimedIsParked
  <2> QED  BY <2>2, <2>3, <2>4, <1>1
<1> QED  BY <1>1, <1>9, <1>10, <1>11, HistoryAfterWrite DEF HistoryInv

(* The opening row is PROCESSED from the start. *)
LEMMA HistoryOpen ==
  ASSUME IInv, IInv', HistoryInv, NEW o \in Openings, Open(o)
  PROVE  HistoryInv'
<1>1. /\ Len(txns) \in Nat /\ UNCHANGED <<sess, clock>>
      /\ o.amount = 0 => txns' = txns
      /\ o.amount # 0 => /\ DOMAIN txns' = 1..Len(txns) + 1
                         /\ \A j \in 1..Len(txns) : txns'[j] = txns[j]
                         /\ txns'[Len(txns) + 1] = OpeningRow(o)
      /\ OpeningRow(o).status = "PROCESSED"
  BY OpenRows
<1>2. Len(txns') \in Nat /\ DOMAIN txns' = 1..Len(txns')
  BY LenProperties DEF IInv, TypeOK
<1>3. /\ Len(txns') \in {Len(txns), Len(txns) + 1}
      /\ \A j \in 1..Len(txns) : txns'[j] = txns[j]
      /\ \A j \in 1..Len(txns') : j \notin 1..Len(txns) => txns'[j] = OpeningRow(o)
  <2>1. CASE o.amount = 0
    BY <2>1, <1>1
  <2>2. CASE o.amount # 0
    <3>1. DOMAIN txns' = 1..Len(txns) + 1  BY <2>2, <1>1
    <3>2. 1..Len(txns') = 1..Len(txns) + 1  BY <3>1, <1>2
    <3>3. Len(txns) + 1 \in Nat  BY <1>1
    <3>4. Len(txns') = Len(txns) + 1  BY <3>2, <3>3, <1>2, IntervalLength, Zenon
    <3> QED  BY <2>2, <3>4, <1>1
  <2> QED  BY <2>1, <2>2
<1> DEFINE opening == OpeningRow(o)
<1> HIDE DEF opening
<1>4. RowsSound'
  <2>1. \A j \in 1..Len(txns) : RowSound(txns'[j], clock')
    BY <1>1, <1>3 DEF HistoryInv, RowsSound, RowSound, Parked
  <2>2. \A j \in 1..Len(txns') : j \notin 1..Len(txns) => RowSound(txns'[j], clock')
    BY <1>1, <1>3 DEF RowSound, Parked
  <2> QED  BY <2>1, <2>2, <1>3 DEF RowsSound
<1>5. ASSUME NEW t \in Sessions, sess[t].pc = "resume"
      PROVE  Parked(txns'[sess[t].cand])
  <2>1. sess[t].cand \in 1..Len(txns)
    BY <1>5 DEF IInv, SessionsAttached, Attached, ResumePcs
  <2> QED  BY <2>1, <1>3, <1>5 DEF HistoryInv, ClaimedIsParked
<1> QED  BY <1>1, <1>4, <1>5, HistoryAfterWrite DEF HistoryInv

(* Every step keeps the history sound. *)
LEMMA HistoryPreserved == IInv /\ IInv' /\ HistoryInv /\ [Next]_vars => HistoryInv'
<1> SUFFICES ASSUME IInv, IInv', HistoryInv, [Next]_vars PROVE HistoryInv'  OBVIOUS
<1> QED  BY StepCases, HistoryQuiet, HistorySettlement, HistoryPutAside, HistoryOpen

(* Initially there is no history. *)
LEMMA InitHistory == Init => HistoryInv
<1> SUFFICES ASSUME Init PROVE HistoryInv  OBVIOUS
<1>1. \A s \in Sessions : sess[s].pc = "idle"  BY DEF Init, Idle
<1>2. Len(txns) = 0  BY DEF Init
<1> QED  BY <1>1, <1>2 DEF HistoryInv, RolesKept, InstantsPast, ClaimedIsParked, RowsSound,
            ResumePcs

(* The history is sound in every reachable state. *)
LEMMA HistoryHolds == Spec => []HistoryInv
BY IInvHolds, InitHistory, HistoryPreserved, PTL DEF Spec

(* Every step takes rows forward. *)
LEMMA StepsMoveForward ==
  ASSUME IInv, IInv', HistoryInv, [Next]_vars, NEW i \in DOMAIN txns'
  PROVE  /\ txns'[i].status # "PENDING"
         /\ i \in DOMAIN txns =>
              /\ txns'[i].op = txns[i].op
              /\ IsTerminal(txns[i].status) => txns'[i] = txns[i]
              /\ txns'[i].attempts >= txns[i].attempts
              /\ txns[i].deadline # 0 => txns'[i].deadline = txns[i].deadline
<1>1. /\ Len(txns) \in Nat /\ DOMAIN txns = 1..Len(txns)
      /\ Len(txns') \in Nat /\ DOMAIN txns' = 1..Len(txns')
      /\ \A j \in 1..Len(txns) : txns[j] \in TxnRow
  BY LenProperties, ElementOfSeq DEF IInv, TypeOK
<1>2. \A j \in 1..Len(txns) : txns[j].attempts \in Nat /\ txns[j].status # "PENDING"
  BY <1>1 DEF TxnRow, HistoryInv, RowsSound, RowSound
<1>3. HistoryInv'  BY HistoryPreserved
<1>4. txns'[i].status # "PENDING"
  BY <1>1, <1>3 DEF HistoryInv, RowsSound, RowSound
<1> SUFFICES ASSUME i \in 1..Len(txns)
             PROVE  /\ txns'[i].op = txns[i].op
                    /\ IsTerminal(txns[i].status) => txns'[i] = txns[i]
                    /\ txns'[i].attempts >= txns[i].attempts
                    /\ txns[i].deadline # 0 => txns'[i].deadline = txns[i].deadline
  BY <1>1, <1>4
<1>5. CASE txns'[i] = txns[i]
  BY <1>2, <1>5
<1>6. Parked(txns[i]) => ~IsTerminal(txns[i].status)  BY DEF Parked, IsTerminal
<1>7. ASSUME NEW s \in Sessions, NEW k \in Nat, NEW row \in TxnRow, Settlement(s, k, row),
             txns'[i] # txns[i]
      PROVE  /\ txns'[i].op = txns[i].op /\ Parked(txns[i])
             /\ txns'[i].attempts >= txns[i].attempts
             /\ txns[i].deadline # 0 => txns'[i].deadline = txns[i].deadline
  <2> DEFINE new == SettledOf(s, row)
             out == OutcomeOf(s, row)
  <2>1. /\ txns'[k] = new
        /\ \A j \in 1..Len(txns) : j # k =>
             txns'[j] = IF new.status = "PROCESSED" /\ Awaits(txns[j], row.op)
                        THEN Woken(txns[j], sess[s].now) ELSE txns[j]
    BY <1>7, SettlementRows
  <2>2. CASE i # k
    <3>1. Awaits(txns[i], row.op) /\ txns'[i] = Woken(txns[i], sess[s].now)
      BY <2>1, <2>2, <1>7
    <3> QED  BY <3>1, <1>1, <1>2, WokenFields DEF Awaits
  <2>3. CASE i = k
    <3>1. Settling(s, k, row)  BY <1>7 DEF Settlement
    <3>2. row = txns[i] /\ sess[s].pc = "resume"
      BY <3>1, <2>3, <1>1 DEF Settling
    <3>3. Parked(row) /\ Decision(row, sess[s].view, sess[s].now, out)
      BY <3>1, <3>2, SettlementDecides DEF HistoryInv
    <3>4. new.op = row.op /\ new.attempts = out.attempts /\ new.deadline = out.deadline
      BY SettledFields
    <3> HIDE DEF new, out
    <3> QED  BY <2>1, <2>3, <3>2, <3>3, <3>4, <1>2 DEF Decision
  <2> QED  BY <2>2, <2>3
<1>8. ASSUME NEW s \in Workers, cannotCarryForward(s), txns'[i] # txns[i]
      PROVE  /\ txns'[i].op = txns[i].op /\ Parked(txns[i])
             /\ txns'[i].attempts >= txns[i].attempts
             /\ txns[i].deadline # 0 => txns'[i].deadline = txns[i].deadline
  <2>1. /\ sess[s].pc = "resume" /\ s \in Sessions /\ sess[s].now \in Nat \ {0}
        /\ txns'[sess[s].cand] = PutAside(txns[sess[s].cand], sess[s].now)
        /\ \A j \in 1..Len(txns) : j # sess[s].cand => txns'[j] = txns[j]
    BY <1>8, PutAsideRows
  <2>2. i = sess[s].cand  BY <2>1, <1>8
  <2>3. Parked(txns[i])  BY <2>1, <2>2 DEF HistoryInv, ClaimedIsParked
  <2> QED  BY <2>1, <2>2, <2>3, <1>1, <1>2, PutAsideFields
<1>9. ASSUME NEW o \in Openings, Open(o)
      PROVE  txns'[i] = txns[i]
  BY <1>9, OpenRows
<1>10. Quiet => txns'[i] = txns[i]  BY DEF Quiet
<1> QED  BY <1>5, <1>6, <1>7, <1>8, <1>9, <1>10, StepCases

(* Whatever is submitted, resumed, refused or crashes in between, a row's   *)
(* operation never changes, a settled row is settled for good, attempts are *)
(* only ever added, the first park's deadline is kept and no row is left    *)
(* PENDING.                                                                 *)
THEOREM RowsMoveForward == Spec => RowsOnlyMoveForward
<1> DEFINE Forward ==
             \A i \in DOMAIN txns' :
               /\ txns'[i].status # "PENDING"
               /\ i \in DOMAIN txns =>
                    /\ txns'[i].op = txns[i].op
                    /\ IsTerminal(txns[i].status) => txns'[i] = txns[i]
                    /\ txns'[i].attempts >= txns[i].attempts
                    /\ txns[i].deadline # 0 => txns'[i].deadline = txns[i].deadline
<1>1. IInv /\ IInv' /\ HistoryInv /\ [Next]_vars => [Forward]_txns
  BY StepsMoveForward
<1>2. Spec => [][Forward]_txns
  BY <1>1, IInvHolds, HistoryHolds, PTL DEF Spec
<1> QED  BY <1>2 DEF RowsOnlyMoveForward

(* A parked operation is always scheduled, within the budget its first park  *)
(* set, however often it is woken, put off or looked at.                     *)
THEOREM WaitsAreBounded == Spec => []WaitIsBounded
<1>1. IInv /\ HistoryInv => WaitIsBounded
  <2> SUFFICES ASSUME IInv, HistoryInv, NEW i \in DOMAIN txns, Parked(txns[i])
               PROVE  /\ txns[i].attempts > 0 /\ txns[i].nextAttempt > 0
                      /\ \/ txns[i].nextAttempt <= txns[i].deadline
                         \/ txns[i].nextAttempt <= clock
                      /\ txns[i].updatedAt < txns[i].deadline
    BY DEF WaitIsBounded
  <2>1. i \in 1..Len(txns)  BY LenProperties DEF IInv, TypeOK
  <2> QED  BY <2>1 DEF HistoryInv, RowsSound, RowSound
<1> QED  BY <1>1, IInvHolds, HistoryHolds, PTL

-----------------------------------------------------------------------------
(* An operation is recorded once and answered with its own row. *)

SameKeys(a, b) == a.provider = b.provider /\ (a.key = b.key \/ a.ext = b.ext)

(* The two unique indexes of wager_transaction, over the committed rows. *)
KeysUnique ==
  \A i, j \in 1..Len(txns) :
    i # j /\ txns[i].op.provider # Nil => ~SameKeys(txns[i].op, txns[j].op)

(* The same indexes, over the rows of open transactions. *)
InsertsExclusive ==
  \A s \in Submitters : sess[s].pc = "settle" =>
    /\ \A i \in 1..Len(txns) : ~SameKeys(txns[i].op, sess[s].request.op)
    /\ \A t \in Submitters \ {s} :
         sess[t].pc = "settle" => ~SameKeys(sess[t].request.op, sess[s].request.op)

KeysInv == KeysUnique /\ InsertsExclusive

(* What is submitted carries the identifiers of a provider; an opening none. *)
LEMMA ProviderFields ==
  /\ \A d \in Deliveries : d.op.provider # Nil /\ d.op.key # Nil /\ d.op.ext # Nil
  /\ \A o : OpeningOperation(o).provider = Nil /\ OpeningOperation(o).ref = Nil
BY ServiceAssumption DEF Validate, OpeningOperation

(* A step keeps the rows there are, each with its operation. *)
LEMMA OperationsKept ==
  ASSUME IInv, IInv', HistoryInv, [Next]_vars
  PROVE  /\ Len(txns) \in Nat /\ DOMAIN txns = 1..Len(txns)
         /\ Len(txns') \in Nat /\ DOMAIN txns' = 1..Len(txns')
         /\ \A j \in 1..Len(txns) : j \in 1..Len(txns') /\ txns'[j].op = txns[j].op
<1>1. /\ Len(txns) \in Nat /\ DOMAIN txns = 1..Len(txns)
      /\ Len(txns') \in Nat /\ DOMAIN txns' = 1..Len(txns')
  BY LenProperties DEF IInv, TypeOK
<1>2. \A j \in 1..Len(txns) : j \in DOMAIN txns'
  <2>0. \A j \in 1..Len(txns) : j \in 1..Len(txns) + 1  BY <1>1
  <2>1. ASSUME NEW s \in Sessions, NEW k \in Nat, NEW row \in TxnRow, Settlement(s, k, row)
        PROVE  \A j \in 1..Len(txns) : j \in DOMAIN txns'
    <3>1. DOMAIN txns' = IF k = Len(txns) + 1 THEN 1..Len(txns) + 1 ELSE 1..Len(txns)
      BY <2>1, SettlementRows
    <3> QED  BY <3>1, <2>0, <1>1
  <2>2. ASSUME NEW s \in Workers, cannotCarryForward(s)
        PROVE  \A j \in 1..Len(txns) : j \in DOMAIN txns'
    BY <2>2, PutAsideRows
  <2>3. ASSUME NEW o \in Openings, Open(o)
        PROVE  \A j \in 1..Len(txns) : j \in DOMAIN txns'
    <3>1. \/ txns' = txns
          \/ DOMAIN txns' = 1..Len(txns) + 1
      BY <2>3, OpenRows
    <3> QED  BY <3>1, <2>0, <1>1
  <2>4. Quiet => \A j \in 1..Len(txns) : j \in DOMAIN txns'
    BY <1>1 DEF Quiet
  <2> QED  BY <2>1, <2>2, <2>3, <2>4, StepCases
<1>3. \A j \in 1..Len(txns) : txns'[j].op = txns[j].op
  BY <1>1, <1>2, StepsMoveForward
<1> QED  BY <1>1, <1>2, <1>3

(* A row comes to be as the next one, submitted or opened. *)
Added(j) ==
  /\ j = Len(txns) + 1 /\ Len(txns') = j
  /\ \/ \E s \in Submitters : /\ Settlement(s, j, SubmittedRow(s))
                              /\ sess[s].pc = "settle"
                              /\ sess[s].request \in Deliveries
                              /\ txns'[j].op = sess[s].request.op
     \/ \E o \in Openings : Open(o) /\ txns'[j] = OpeningRow(o) /\ o.amount # 0

(* Nothing but the settlement of a submission and an opening adds a row. *)
LEMMA RowsAdded ==
  ASSUME IInv, IInv', [Next]_vars, NEW j \in 1..Len(txns'), j \notin 1..Len(txns)
  PROVE  Added(j)
<1>1. /\ Len(txns) \in Nat /\ DOMAIN txns = 1..Len(txns)
      /\ Len(txns') \in Nat /\ DOMAIN txns' = 1..Len(txns')
  BY LenProperties DEF IInv, TypeOK
<1>2. ASSUME DOMAIN txns' = 1..Len(txns) + 1
      PROVE  j = Len(txns) + 1 /\ Len(txns') = j
  <2>1. 1..Len(txns') = 1..Len(txns) + 1  BY <1>1, <1>2
  <2>2. Len(txns) + 1 \in Nat  BY <1>1
  <2>3. Len(txns') = Len(txns) + 1  BY <2>1, <2>2, <1>1, IntervalLength, Zenon
  <2> QED  BY <2>3, <1>1
<1>3. ASSUME DOMAIN txns' = 1..Len(txns)
      PROVE  FALSE
  BY <1>1, <1>3
<1>4. ASSUME NEW s \in Sessions, NEW k \in Nat, NEW row \in TxnRow, Settlement(s, k, row)
      PROVE  Added(j)
  <2>1. /\ DOMAIN txns' = IF k = Len(txns) + 1 THEN 1..Len(txns) + 1 ELSE 1..Len(txns)
        /\ txns'[k].op = row.op
    BY <1>4, SettlementRows
  <2>2. DOMAIN txns' = 1..Len(txns) + 1 /\ k = Len(txns) + 1  BY <2>1, <1>3
  <2>3. k = j /\ Len(txns') = j  BY <2>2, <1>2
  <2>4. Settling(s, k, row)  BY <1>4 DEF Settlement
  <2>5. /\ s \in Submitters /\ sess[s].pc = "settle" /\ row = SubmittedRow(s)
        /\ row.op = sess[s].request.op /\ sess[s].request \in Deliveries
    BY <2>2, <2>4, <1>1 DEF Settling
  <2> QED  BY <2>1, <2>2, <2>3, <2>5, <1>4 DEF Added
<1>5. ASSUME NEW s \in Workers, cannotCarryForward(s)
      PROVE  FALSE
  BY <1>3, <1>5, PutAsideRows
<1>6. ASSUME NEW o \in Openings, Open(o)
      PROVE  Added(j)
  <2>1. o.amount # 0  BY <1>1, <1>6, OpenRows
  <2>2. DOMAIN txns' = 1..Len(txns) + 1 /\ txns'[Len(txns) + 1] = OpeningRow(o)
    BY <2>1, <1>6, OpenRows
  <2>3. j = Len(txns) + 1 /\ Len(txns') = j  BY <2>2, <1>2
  <2> QED  BY <2>1, <2>2, <2>3, <1>6 DEF Added
<1>7. Quiet => FALSE  BY DEF Quiet
<1> QED  BY <1>4, <1>5, <1>6, <1>7, StepCases

(* A session at its insert was there before, or comes to it alone. *)
LEMMA AtSettle ==
  ASSUME IInv, [Next]_vars, NEW s \in Sessions, sess'[s].pc = "settle"
  PROVE  \/ sess'[s] = sess[s]
         \/ /\ Quiet /\ Inserting(s) /\ sess'[s].request = sess[s].request
            /\ \A t \in Sessions \ {s} : sess'[t] = sess[t]
<1>1. sess \in [Sessions -> Session] /\ sess[s] \in Session  BY DEF IInv, TypeOK
<1>2. Idle.pc # "settle"  BY DEF Idle
<1>3. CASE Quiet
  <2>1. CASE Inserting(s)
    <3>1. sess'[s].request = sess[s].request  BY <2>1, <1>1 DEF Inserting, Session
    <3>2. sess'[s] # sess[s]  BY <2>1, <1>1 DEF Inserting, Session
    <3> QED  BY <2>1, <3>1, <3>2, <1>3 DEF Quiet
  <2>2. ~Claiming(s)  BY <1>1 DEF Claiming, Session
  <2>3. ~Looking(s)  BY DEF Looking, ResumePcs
  <2> QED  BY <2>1, <2>2, <2>3, <1>3 DEF Quiet
<1>4. ASSUME NEW t \in Sessions, NEW k \in Nat, NEW row \in TxnRow, Settlement(t, k, row)
      PROVE  sess'[s] = sess[s]
  <2>1. sess' = [sess EXCEPT ![t] = Idle]  BY <1>4 DEF Settlement
  <2> QED  BY <2>1, <1>1, <1>2
<1>5. ASSUME NEW t \in Workers, cannotCarryForward(t)
      PROVE  sess'[s] = sess[s]
  <2>1. sess' = [sess EXCEPT ![t] = Idle]  BY <1>5, PutAsideRows
  <2> QED  BY <2>1, <1>1, <1>2
<1>6. ASSUME NEW o \in Openings, Open(o)
      PROVE  sess'[s] = sess[s]
  BY <1>6, OpenRows
<1> QED  BY <1>3, <1>4, <1>5, <1>6, StepCases

(* Each key is taken once: a step keeps both indexes. *)
LEMMA KeysPreserved ==
  IInv /\ IInv' /\ HistoryInv /\ KeysInv /\ [Next]_vars => KeysInv'
<1> SUFFICES ASSUME IInv, IInv', HistoryInv, KeysInv, [Next]_vars
             PROVE  KeysInv'
  OBVIOUS
<1>1. /\ Len(txns) \in Nat /\ Len(txns') \in Nat
      /\ \A j \in 1..Len(txns) : j \in 1..Len(txns') /\ txns'[j].op = txns[j].op
  BY OperationsKept
<1>2. ASSUME NEW s \in Submitters, sess'[s].pc = "settle"
      PROVE  /\ sess'[s].request = sess[s].request /\ sess[s].request \in Deliveries
             /\ \A i \in 1..Len(txns) : ~SameKeys(txns[i].op, sess[s].request.op)
  <2>1. s \in Sessions  BY DEF Sessions
  <2>2. CASE sess'[s] = sess[s]
    BY <2>1, <2>2, <1>2 DEF KeysInv, InsertsExclusive, IInv, SessionsAttached, Attached, SubmitPcs
  <2>3. CASE Inserting(s) /\ sess'[s].request = sess[s].request
    <3>1. ByIdempotencyKey(sess[s].request.op) = {} /\ ByExternal(sess[s].request.op) = {}
      BY <2>3 DEF Inserting
    <3>2. DOMAIN txns = 1..Len(txns)  BY OperationsKept
    <3>3. \A i \in 1..Len(txns) : ~SameKeys(txns[i].op, sess[s].request.op)
      BY <3>1, <3>2 DEF ByIdempotencyKey, ByExternal, SameKeys
    <3> QED  BY <2>3, <3>3 DEF Inserting
  <2> QED  BY <2>1, <2>2, <2>3, <1>2, AtSettle
<1>3. ASSUME NEW j \in 1..Len(txns'), j \notin 1..Len(txns), txns'[j].op.provider # Nil
      PROVE  \E s \in Submitters : /\ Settlement(s, j, SubmittedRow(s)) /\ sess[s].pc = "settle"
                                   /\ txns'[j].op = sess[s].request.op
  <2>1. Added(j)  BY <1>3, RowsAdded
  <2>2. \A o \in Openings : Open(o) => OpeningRow(o).op = OpeningOperation(o)  BY OpenRows
  <2> QED  BY <2>1, <2>2, <1>3, ProviderFields DEF Added
<1>4. KeysUnique'
  <2> SUFFICES ASSUME NEW i \in 1..Len(txns'), NEW j \in 1..Len(txns'), i # j,
                      txns'[i].op.provider # Nil, SameKeys(txns'[i].op, txns'[j].op)
               PROVE  FALSE
    BY DEF KeysUnique
  <2>1. txns'[j].op.provider # Nil  BY DEF SameKeys
  <2>2. CASE i \in 1..Len(txns) /\ j \in 1..Len(txns)
    BY <2>2, <1>1 DEF KeysInv, KeysUnique
  <2>3. ASSUME NEW a \in 1..Len(txns'), NEW b \in 1..Len(txns), a \notin 1..Len(txns),
               txns'[a].op.provider # Nil
        PROVE  ~SameKeys(txns'[b].op, txns'[a].op)
    <3>1. PICK s \in Submitters : sess[s].pc = "settle" /\ txns'[a].op = sess[s].request.op
      BY <2>3, <1>3
    <3>2. ~SameKeys(txns[b].op, sess[s].request.op)
      BY <3>1, <2>3 DEF KeysInv, InsertsExclusive
    <3> QED  BY <3>1, <3>2, <1>1
  <2>4. SameKeys(txns'[j].op, txns'[i].op)  BY DEF SameKeys
  <2>5. i \in 1..Len(txns) \/ j \in 1..Len(txns)
    <3>1. ASSUME i \notin 1..Len(txns), j \notin 1..Len(txns) PROVE FALSE
      <4>1. i = Len(txns) + 1 /\ j = Len(txns) + 1  BY <3>1, RowsAdded DEF Added
      <4> QED  BY <4>1
    <3> QED  BY <3>1
  <2> QED  BY <2>1, <2>2, <2>3, <2>4, <2>5
<1>5. InsertsExclusive'
  <2> SUFFICES ASSUME NEW s \in Submitters, sess'[s].pc = "settle"
               PROVE  /\ \A i \in 1..Len(txns') : ~SameKeys(txns'[i].op, sess'[s].request.op)
                      /\ \A t \in Submitters \ {s} : sess'[t].pc = "settle" =>
                           ~SameKeys(sess'[t].request.op, sess'[s].request.op)
    BY DEF InsertsExclusive
  <2> DEFINE op == sess[s].request.op
  <2>0. s \in Sessions  BY DEF Sessions
  <2>1. sess'[s].request.op = op /\ sess[s].request \in Deliveries /\ op.provider # Nil
    BY <1>2, ProviderFields
  <2>2. ASSUME NEW i \in 1..Len(txns'), SameKeys(txns'[i].op, op)
        PROVE  FALSE
    <3>1. CASE i \in 1..Len(txns)
      BY <3>1, <2>2, <1>1, <1>2
    <3>2. CASE i \notin 1..Len(txns)
      <4>1. txns'[i].op.provider # Nil  BY <2>1, <2>2 DEF SameKeys
      <4>2. PICK t \in Submitters : /\ Settlement(t, i, SubmittedRow(t)) /\ sess[t].pc = "settle"
                                    /\ txns'[i].op = sess[t].request.op
        BY <3>2, <4>1, <1>3
      <4>3. sess' = [sess EXCEPT ![t] = Idle] /\ sess \in [Sessions -> Session] /\ t \in Sessions
        BY <4>2 DEF Settlement, IInv, TypeOK, Sessions
      <4>4. t # s  BY <4>3 DEF Idle
      <4>5. sess'[s] = sess[s]  BY <4>3, <4>4, <2>0
      <4>6. sess[s].pc = "settle"  BY <4>5
      <4>7. ~SameKeys(sess[t].request.op, op)
        BY <4>2, <4>4, <4>6 DEF KeysInv, InsertsExclusive
      <4> QED  BY <4>2, <4>7, <2>2
    <3> QED  BY <3>1, <3>2
  <2>3. ASSUME NEW t \in Submitters \ {s}, sess'[t].pc = "settle",
               SameKeys(sess'[t].request.op, op)
        PROVE  FALSE
    <3>1. t \in Sessions /\ sess'[t].request = sess[t].request  BY <2>3, <1>2 DEF Sessions
    <3>2. CASE sess'[s] = sess[s] /\ sess'[t] = sess[t]
      BY <3>1, <3>2, <2>3 DEF KeysInv, InsertsExclusive
    <3>3. CASE Inserting(s) /\ sess'[t] = sess[t]
      <4>1. ~InsertInFlight(s, op)  BY <3>3 DEF Inserting
      <4> QED  BY <4>1, <3>3, <2>3 DEF InsertInFlight, SameKeys
    <3>4. CASE Inserting(t) /\ sess'[s] = sess[s]
      <4>1. ~InsertInFlight(t, sess[t].request.op)  BY <3>4 DEF Inserting
      <4> QED  BY <4>1, <3>1, <3>4, <2>3 DEF InsertInFlight, SameKeys
    <3> QED  BY <3>1, <3>2, <3>3, <3>4, <2>0, <2>3, AtSettle
  <2> QED  BY <2>1, <2>2, <2>3
<1> QED  BY <1>4, <1>5 DEF KeysInv

(* Initially no key is taken. *)
LEMMA InitKeys == Init => KeysInv
<1> SUFFICES ASSUME Init PROVE KeysInv  OBVIOUS
<1>1. \A s \in Submitters : sess[s].pc = "idle"  BY DEF Init, Idle, Sessions
<1>2. Len(txns) = 0  BY DEF Init
<1> QED  BY <1>1, <1>2 DEF KeysInv, KeysUnique, InsertsExclusive

(* No two rows, committed or about to be, share a key. *)
LEMMA KeysHold == Spec => []KeysInv
BY IInvHolds, HistoryHolds, InitKeys, KeysPreserved, PTL DEF Spec

(* The same key and the same payload are the same operation. *)
LEMMA SamePayload ==
  ASSUME NEW a \in RowOperations, NEW b \in Operations, a.key = b.key, AssertSamePayload(a, b)
  PROVE  a = b
<1>1. a = [kind |-> a.kind, wallet |-> a.wallet, player |-> a.player,
           currency |-> a.currency, amount |-> a.amount, provider |-> a.provider,
           ext |-> a.ext, key |-> a.key, round |-> a.round, ref |-> a.ref]
  <2>1. CASE a \in Operations
    BY <2>1, RecordAssumption
  <2>2. CASE \E o \in Openings : a = OpeningOperation(o)
    BY <2>2 DEF OpeningOperation
  <2> QED  BY <2>1, <2>2 DEF RowOperations
<1>2. b = [kind |-> b.kind, wallet |-> b.wallet, player |-> b.player,
           currency |-> b.currency, amount |-> b.amount, provider |-> b.provider,
           ext |-> b.ext, key |-> b.key, round |-> b.round, ref |-> b.ref]
  BY RecordAssumption
<1>3. [a EXCEPT !.key = Nil] = [b EXCEPT !.key = Nil]
  BY DEF AssertSamePayload, PayloadHash
<1>4. /\ a.kind = b.kind /\ a.wallet = b.wallet /\ a.player = b.player
      /\ a.currency = b.currency /\ a.amount = b.amount /\ a.provider = b.provider
      /\ a.ext = b.ext /\ a.round = b.round /\ a.ref = b.ref
  <2>1. ASSUME NEW x, x = [kind |-> x.kind, wallet |-> x.wallet, player |-> x.player,
                           currency |-> x.currency, amount |-> x.amount,
                           provider |-> x.provider, ext |-> x.ext, key |-> x.key,
                           round |-> x.round, ref |-> x.ref]
        PROVE  LET y == [x EXCEPT !.key = Nil]
               IN  /\ x.kind = y.kind /\ x.wallet = y.wallet /\ x.player = y.player
                   /\ x.currency = y.currency /\ x.amount = y.amount
                   /\ x.provider = y.provider /\ x.ext = y.ext /\ x.round = y.round
                   /\ x.ref = y.ref
    <3>1. DOMAIN x = {"kind", "wallet", "player", "currency", "amount", "provider", "ext",
                      "key", "round", "ref"}
      BY <2>1
    <3> QED  BY <3>1
  <2> QED  BY <2>1, <1>1, <1>2, <1>3
<1> QED  BY <1>1, <1>2, <1>4

(* An answer, or an inbox row, is only ever given for a recorded operation. *)
Recorded(op, i, rows) == i \in 1..Len(rows) /\ rows[i].op = op

Answered ==
  \/ acks' = acks
  \/ \E op \in Operations, i \in Nat : /\ Recorded(op, i, txns')
                                       /\ acks' = [acks EXCEPT ![op] = @ \cup {i}]

Handled ==
  \/ inbox' = inbox
  \/ \E m \in Messages, op \in Operations, i \in Nat :
       /\ Recorded(op, i, txns')
       /\ inbox' = [inbox EXCEPT ![m] = op]

(* A replay answers with the row of the very operation that was submitted. *)
LEMMA ReplayAnswers ==
  ASSUME IInv, NEW s \in Submitters, sess[s].request \in Deliveries,
         NEW i \in DOMAIN txns, replayOf(s, i), txns[i].op.key = sess[s].request.op.key
  PROVE  Answered /\ Handled
<1> DEFINE d == sess[s].request
<1>1. d.op \in Operations /\ d.msg \in Messages \cup {Nil}  BY DeliveryFacts
<1>2. i \in 1..Len(txns) /\ Len(txns) \in Nat /\ txns[i] \in TxnRow /\ txns' = txns
  BY LenProperties, ElementOfSeq DEF IInv, TypeOK, replayOf
<1>3. CASE AssertSamePayload(txns[i].op, d.op)
  <2>1. txns[i].op = d.op
    BY <1>1, <1>2, <1>3, SamePayload DEF TxnRow
  <2>2. Recorded(d.op, i, txns')  BY <2>1, <1>2 DEF Recorded
  <2>3. Answered  BY <2>2, <1>1, <1>2, <1>3 DEF replayOf, Answer, Answered
  <2>4. Handled
    BY <2>2, <1>1, <1>2, <1>3 DEF replayOf, CommitInbox, Handled
  <2> QED  BY <2>3, <2>4
<1>4. CASE ~AssertSamePayload(txns[i].op, d.op)
  BY <1>4 DEF replayOf, Answered, Handled
<1> QED  BY <1>3, <1>4

(* Whatever the step, callers learn of recorded operations only. *)
LEMMA StepsAnswer ==
  ASSUME IInv, IInv', [Next]_vars
  PROVE  Answered /\ Handled
<1>1. UNCHANGED <<inbox, acks>> => Answered /\ Handled  BY DEF Answered, Handled
<1>2. ASSUME NEW s \in Submitters, sess[s].pc \in SubmitPcs \cup {"duplicate"}
      PROVE  sess[s].request \in Deliveries
  BY <1>2 DEF IInv, SessionsAttached, Attached, Sessions
<1>3. DOMAIN txns = 1..Len(txns) /\ Len(txns) \in Nat  BY LenProperties DEF IInv, TypeOK
<1>4. ASSUME NEW s \in Submitters, SubmitStep(s)
      PROVE  Answered /\ Handled
  <2>1. CASE ReplayByKey(s)
    <3>1. sess[s].request \in Deliveries  BY <2>1, <1>2 DEF ReplayByKey, SubmitPcs
    <3>2. CASE \E i \in ByIdempotencyKey(sess[s].request.op) : replayOf(s, i)
      <4>1. PICK i \in DOMAIN txns : replayOf(s, i) /\ txns[i].op.key = sess[s].request.op.key
        BY <3>2 DEF ByIdempotencyKey
      <4> QED  BY <4>1, <3>1, ReplayAnswers
    <3> QED  BY <2>1, <3>2, <1>1 DEF ReplayByKey, db
  <2>2. CASE ReplayByExternal(s)
    <3>1. sess[s].request \in Deliveries  BY <2>2, <1>2 DEF ReplayByExternal, SubmitPcs
    <3>2. CASE \E i \in ByExternal(sess[s].request.op) :
                 txns[i].op.key = sess[s].request.op.key /\ replayOf(s, i)
      <4>1. PICK i \in DOMAIN txns : replayOf(s, i) /\ txns[i].op.key = sess[s].request.op.key
        BY <3>2 DEF ByExternal
      <4> QED  BY <4>1, <3>1, ReplayAnswers
    <3> QED  BY <2>2, <3>2, <1>1 DEF ReplayByExternal, db
  <2>3. CASE ResolveDuplicate(s)
    <3> DEFINE op == sess[s].request.op
    <3>1. sess[s].request \in Deliveries  BY <2>3, <1>2 DEF ResolveDuplicate, SubmitPcs
    <3>2. op \in Operations  BY <3>1, DeliveryFacts
    <3>3. inbox' = inbox /\ txns' = txns  BY <2>3 DEF ResolveDuplicate, db
    <3>4. \/ acks' = acks
          \/ \E i \in DOMAIN txns : /\ txns[i].op.key = op.key
                                    /\ AssertSamePayload(txns[i].op, op)
                                    /\ Answer(op, i)
      BY <2>3 DEF ResolveDuplicate, ByIdempotencyKey, ByExternal
    <3>5. CASE \E i \in DOMAIN txns : /\ txns[i].op.key = op.key
                                      /\ AssertSamePayload(txns[i].op, op)
                                      /\ Answer(op, i)
      <4>1. PICK i \in DOMAIN txns : /\ txns[i].op.key = op.key
                                     /\ AssertSamePayload(txns[i].op, op)
                                     /\ Answer(op, i)
        BY <3>5
      <4>2. txns[i] \in TxnRow  BY <1>3, ElementOfSeq DEF IInv, TypeOK
      <4>3. txns[i].op = op  BY <3>2, <4>1, <4>2, SamePayload DEF TxnRow
      <4>4. Recorded(op, i, txns') /\ i \in Nat  BY <3>3, <4>3, <1>3 DEF Recorded
      <4>5. acks' = [acks EXCEPT ![op] = @ \cup {i}]  BY <4>1 DEF Answer
      <4> HIDE DEF op
      <4>6. Answered  BY <3>2, <4>4, <4>5 DEF Answered
      <4> QED  BY <4>6, <3>3 DEF Handled
    <3> QED  BY <3>3, <3>4, <3>5, <1>1
  <2>4. CASE Settle(s)
    <3> DEFINE d == sess[s].request
               i == Len(txns) + 1
    <3>1. d \in Deliveries  BY <2>4, <1>2 DEF Settle, SubmitPcs
    <3>2. d.op \in Operations /\ d.msg \in Messages \cup {Nil}  BY <3>1, DeliveryFacts
    <3>3. Settlement(s, i, SubmittedRow(s))  BY <2>4, SettleIsSettlement DEF Settle
    <3>4. /\ s \in Sessions /\ i \in Nat /\ SubmittedRow(s) \in TxnRow
          /\ SubmittedRow(s).op = d.op
      BY <3>3, <2>4, <1>3 DEF Settlement, Settling, Settle
    <3>5. /\ DOMAIN txns' = IF i = Len(txns) + 1 THEN 1..Len(txns) + 1 ELSE 1..Len(txns)
          /\ txns'[i].op = d.op
      BY <3>3, <3>4, SettlementRows
    <3>6. Recorded(d.op, i, txns')
      <4>1. i \in DOMAIN txns'  BY <3>5, <1>3
      <4>2. DOMAIN txns' = 1..Len(txns')  BY LenProperties DEF IInv, TypeOK
      <4> QED  BY <4>1, <4>2, <3>5 DEF Recorded
    <3>7. acks' = [acks EXCEPT ![d.op] = @ \cup {i}]  BY <2>4 DEF Settle, Answer
    <3>8. inbox' = IF d.msg = Nil THEN inbox ELSE [inbox EXCEPT ![d.msg] = d.op]
      BY <2>4 DEF Settle, CommitInbox
    <3> HIDE DEF d, i
    <3>9. Answered  BY <3>2, <3>4, <3>6, <3>7 DEF Answered
    <3>10. Handled  BY <3>2, <3>4, <3>6, <3>8 DEF Handled
    <3> QED  BY <3>9, <3>10
  <2> QED
    BY <2>1, <2>2, <2>3, <2>4, <1>1, <1>4
       DEF SubmitStep, Submit, FindInbox, RecordInbox, LockByID, Record, db
<1>5. ASSUME NEW s \in Workers, ResumeStep(s)
      PROVE  UNCHANGED <<inbox, acks>>
  BY <1>5 DEF ResumeStep, NextDue, ResumeLock, ClaimForUpdate, Resume, cannotCarryForward, db
<1>6. ASSUME NEW s \in Sessions, Refused(s) \/ Abort(s)
      PROVE  UNCHANGED <<inbox, acks>>
  BY <1>6 DEF Refused, Abort, db
<1>7. ASSUME NEW o \in Openings, Open(o)
      PROVE  UNCHANGED <<inbox, acks>>
  BY <1>7 DEF Open
<1>8. Tick \/ UNCHANGED vars => UNCHANGED <<inbox, acks>>  BY DEF Tick, vars, db
<1> QED  BY <1>1, <1>4, <1>5, <1>6, <1>7, <1>8 DEF Next

(* Every answer that was given still stands, and every handled message has *)
(* its operation.                                                          *)
CallersInv ==
  /\ \A op \in Operations : \A i \in acks[op] : Recorded(op, i, txns)
  /\ \A m \in Messages : inbox[m] # Nil => \E i \in 1..Len(txns) : txns[i].op = inbox[m]

(* A step takes no answer back. *)
LEMMA CallersPreserved ==
  IInv /\ IInv' /\ HistoryInv /\ CallersInv /\ [Next]_vars => CallersInv'
<1> SUFFICES ASSUME IInv, IInv', HistoryInv, CallersInv, [Next]_vars
             PROVE  CallersInv'
  OBVIOUS
<1>1. \A j \in 1..Len(txns) : j \in 1..Len(txns') /\ txns'[j].op = txns[j].op
  BY OperationsKept
<1>2. acks \in [Operations -> SUBSET (Nat \ {0})] /\ inbox \in [Messages -> Operations \cup {Nil}]
  BY DEF IInv, TypeOK
<1>3. ASSUME NEW op \in Operations, NEW i \in acks'[op]
      PROVE  Recorded(op, i, txns')
  <2>1. CASE i \in acks[op]
    <3>1. Recorded(op, i, txns)  BY <2>1 DEF CallersInv
    <3> QED  BY <3>1, <1>1 DEF Recorded
  <2>2. CASE i \notin acks[op]
    <3>1. PICK p \in Operations, k \in Nat : /\ Recorded(p, k, txns')
                                             /\ acks' = [acks EXCEPT ![p] = @ \cup {k}]
      BY <2>2, <1>3, StepsAnswer DEF Answered
    <3>2. op = p /\ i = k  BY <3>1, <2>2, <1>2, <1>3
    <3> QED  BY <3>1, <3>2
  <2> QED  BY <2>1, <2>2
<1>4. ASSUME NEW m \in Messages, inbox'[m] # Nil
      PROVE  \E i \in 1..Len(txns') : txns'[i].op = inbox'[m]
  <2>1. CASE inbox'[m] = inbox[m]
    <3>1. PICK i \in 1..Len(txns) : txns[i].op = inbox[m]  BY <2>1, <1>4 DEF CallersInv
    <3> QED  BY <3>1, <2>1, <1>1
  <2>2. CASE inbox'[m] # inbox[m]
    <3>1. PICK n \in Messages, op \in Operations, i \in Nat :
            Recorded(op, i, txns') /\ inbox' = [inbox EXCEPT ![n] = op]
      BY <2>2, StepsAnswer DEF Handled
    <3>2. n = m /\ inbox'[m] = op  BY <3>1, <2>2, <1>2
    <3> QED  BY <3>1, <3>2 DEF Recorded
  <2> QED  BY <2>1, <2>2
<1> QED  BY <1>3, <1>4 DEF CallersInv

(* Initially nobody has been answered. *)
LEMMA InitCallers == Init => CallersInv
BY DEF Init, CallersInv

(* The answers are sound in every reachable state. *)
LEMMA CallersHold == Spec => []CallersInv
BY IInvHolds, HistoryHolds, InitCallers, CallersPreserved, PTL DEF Spec

(* However submissions race, are retried or redelivered, one row is recorded *)
(* for an idempotency key and one for an external id, and every caller is    *)
(* answered with the row of its own operation, which is there for good.      *)
THEOREM AnswersAlwaysAgree == Spec => []AnswersAgree
<1>1. IInv /\ KeysInv /\ CallersInv => AnswersAgree
  <2> SUFFICES ASSUME IInv, KeysInv, CallersInv PROVE AnswersAgree  OBVIOUS
  <2>1. DOMAIN txns = 1..Len(txns)  BY LenProperties DEF IInv, TypeOK
  <2>2. ASSUME NEW i \in DOMAIN txns, NEW j \in DOMAIN txns, i # j,
               txns[i].op.provider # Nil, txns[i].op.provider = txns[j].op.provider
        PROVE  txns[i].op.key # txns[j].op.key /\ txns[i].op.ext # txns[j].op.ext
    BY <2>1, <2>2 DEF KeysInv, KeysUnique, SameKeys
  <2>3. \A op \in Operations : \A i \in acks[op] : i \in DOMAIN txns /\ txns[i].op = op
    BY <2>1 DEF CallersInv, Recorded
  <2> QED  BY <2>2, <2>3 DEF AnswersAgree
<1> QED  BY <1>1, IInvHolds, KeysHold, CallersHold, PTL

(* No crash, refusal or replay leaves a message in the inbox whose operation *)
(* was not recorded.                                                         *)
THEOREM HandledIsRecorded == Spec => []HandledMeansRecorded
<1>1. IInv /\ CallersInv => HandledMeansRecorded
  <2> SUFFICES ASSUME IInv, CallersInv PROVE HandledMeansRecorded  OBVIOUS
  <2>1. DOMAIN txns = 1..Len(txns)  BY LenProperties DEF IInv, TypeOK
  <2> QED  BY <2>1 DEF CallersInv, HandledMeansRecorded
<1> QED  BY <1>1, IInvHolds, CallersHold, PTL

-----------------------------------------------------------------------------
(* An operation is applied once. *)

(* An entry is of a PROCESSED row of its wallet, and says what the row says. *)
EntriesSound ==
  \A w \in Wallets : \A k \in 1..Len(ledger[w]) :
    LET e == ledger[w][k]
    IN  /\ e.tx \in 1..Len(txns) /\ txns[e.tx].status = "PROCESSED"
        /\ MovesMoney(txns[e.tx].op.kind) /\ txns[e.tx].op.wallet = w
        /\ e.amount = txns[e.tx].op.amount /\ e.after = txns[e.tx].result

(* No two entries of a wallet are of one row. *)
EntriesDistinct ==
  \A w \in Wallets : \A k, l \in 1..Len(ledger[w]) :
    k # l => ledger[w][k].tx # ledger[w][l].tx

(* A row that moved money has its entry. *)
EntriesThere ==
  \A i \in 1..Len(txns) :
    txns[i].status = "PROCESSED" /\ MovesMoney(txns[i].op.kind) =>
      \E k \in 1..Len(ledger[txns[i].op.wallet]) : ledger[txns[i].op.wallet][k].tx = i

EntriesInv == EntriesSound /\ EntriesDistinct /\ EntriesThere

(* The ledger of one wallet with an entry more. *)
LedgerAppends(w, entry) ==
  /\ Len(ledger'[w]) = Len(ledger[w]) + 1
  /\ ledger'[w][Len(ledger[w]) + 1] = entry
  /\ \A k \in 1..Len(ledger[w]) : ledger'[w][k] = ledger[w][k]
  /\ \A v \in Wallets : v # w => ledger'[v] = ledger[v]

(* An update appends. *)
LEMMA LedgerUpdate ==
  ASSUME IInv, NEW w \in Wallets, NEW entry,
         ledger' = [ledger EXCEPT ![w] = Append(@, entry)]
  PROVE  LedgerAppends(w, entry) /\ Len(ledger[w]) \in Nat
<1>1. ledger \in [Wallets -> Seq(LedgerRow)] /\ ledger[w] \in Seq(LedgerRow)
  BY DEF IInv, TypeOK
<1>2. Len(ledger[w]) \in Nat  BY <1>1, LenProperties
<1>3. ledger'[w] = Append(ledger[w], entry)  BY <1>1
<1> QED  BY <1>1, <1>2, <1>3 DEF LedgerAppends

(* What the ledgers hold after an entry is what they held and the entry. *)
LEMMA LedgerGrowth ==
  ASSUME IInv, NEW w \in Wallets, NEW entry, LedgerAppends(w, entry), NEW v \in Wallets
  PROVE  /\ \A k \in 1..Len(ledger'[v]) :
              \/ k \in 1..Len(ledger[v]) /\ ledger'[v][k] = ledger[v][k]
              \/ v = w /\ k = Len(ledger[v]) + 1 /\ ledger'[v][k] = entry
         /\ \A k \in 1..Len(ledger[v]) :
              k \in 1..Len(ledger'[v]) /\ ledger'[v][k] = ledger[v][k]
<1>1. ledger[v] \in Seq(LedgerRow)  BY DEF IInv, TypeOK
<1>2. Len(ledger[v]) \in Nat  BY <1>1, LenProperties
<1>3. CASE v = w
  <2>1. /\ Len(ledger'[v]) = Len(ledger[v]) + 1 /\ ledger'[v][Len(ledger[v]) + 1] = entry
        /\ \A k \in 1..Len(ledger[v]) : ledger'[v][k] = ledger[v][k]
    BY <1>3 DEF LedgerAppends
  <2> QED  BY <2>1, <1>2, <1>3
<1>4. CASE v # w
  BY <1>4 DEF LedgerAppends
<1> QED  BY <1>3, <1>4

(* What is left of the rows when one that was not PROCESSED is written. *)
LEMMA EntriesAfter ==
  ASSUME IInv, IInv', EntriesInv, NEW i \in 1..Len(txns'),
         Len(txns) \in Nat, Len(txns') \in Nat,
         i \in 1..Len(txns) => txns[i].status # "PROCESSED",
         \A j \in 1..Len(txns) : j \in 1..Len(txns'),
         \A j \in 1..Len(txns') : j # i => j \in 1..Len(txns),
         \A j \in 1..Len(txns) : j # i => /\ txns'[j].op = txns[j].op
                                          /\ txns'[j].status = txns[j].status
                                          /\ txns'[j].result = txns[j].result,
         IF txns'[i].status = "PROCESSED" /\ MovesMoney(txns'[i].op.kind)
         THEN \E entry \in LedgerRow :
                /\ entry.tx = i /\ entry.amount = txns'[i].op.amount
                /\ entry.after = txns'[i].result
                /\ LedgerAppends(txns'[i].op.wallet, entry)
         ELSE ledger' = ledger
  PROVE  EntriesInv'
<1> DEFINE w == txns'[i].op.wallet
           applied == txns'[i].status = "PROCESSED" /\ MovesMoney(txns'[i].op.kind)
<1>1. \A v \in Wallets : Len(ledger[v]) \in Nat
  <2>1. \A v \in Wallets : ledger[v] \in Seq(LedgerRow)  BY DEF IInv, TypeOK
  <2> QED  BY <2>1, LenProperties
<1>2. w \in Wallets
  <2>1. txns'[i] \in TxnRow  BY ElementOfSeq DEF IInv, TypeOK
  <2> QED  BY <2>1, RowOperationFacts DEF TxnRow
<1>3. ASSUME NEW v \in Wallets, NEW k \in 1..Len(ledger[v])
      PROVE  ledger[v][k].tx \in 1..Len(txns) /\ ledger[v][k].tx # i
  BY <1>3 DEF EntriesInv, EntriesSound
<1>4. ASSUME NEW v \in Wallets
      PROVE  /\ \A k \in 1..Len(ledger'[v]) :
                  \/ k \in 1..Len(ledger[v]) /\ ledger'[v][k] = ledger[v][k]
                  \/ /\ applied /\ v = w /\ k = Len(ledger[v]) + 1
                     /\ ledger'[v][k].tx = i /\ ledger'[v][k].amount = txns'[i].op.amount
                     /\ ledger'[v][k].after = txns'[i].result
             /\ \A k \in 1..Len(ledger[v]) :
                  k \in 1..Len(ledger'[v]) /\ ledger'[v][k] = ledger[v][k]
  <2>1. CASE applied
    <3>1. PICK entry \in LedgerRow :
            /\ entry.tx = i /\ entry.amount = txns'[i].op.amount
            /\ entry.after = txns'[i].result /\ LedgerAppends(w, entry)
      BY <2>1
    <3> HIDE DEF w, applied
    <3> QED  BY <2>1, <3>1, <1>2, <1>4, LedgerGrowth
  <2>2. CASE ~applied
    <3>1. ledger' = ledger  BY <2>2
    <3> QED  BY <3>1
  <2> QED  BY <2>1, <2>2
<1>6. EntriesSound'
  <2> SUFFICES ASSUME NEW v \in Wallets, NEW k \in 1..Len(ledger'[v])
               PROVE  LET e == ledger'[v][k]
                      IN  /\ e.tx \in 1..Len(txns') /\ txns'[e.tx].status = "PROCESSED"
                          /\ MovesMoney(txns'[e.tx].op.kind) /\ txns'[e.tx].op.wallet = v
                          /\ e.amount = txns'[e.tx].op.amount
                          /\ e.after = txns'[e.tx].result
    BY DEF EntriesSound
  <2>1. CASE k \in 1..Len(ledger[v]) /\ ledger'[v][k] = ledger[v][k]
    <3> DEFINE tx == ledger[v][k].tx
    <3>1. /\ tx \in 1..Len(txns) /\ txns[tx].status = "PROCESSED"
          /\ MovesMoney(txns[tx].op.kind) /\ txns[tx].op.wallet = v
          /\ ledger[v][k].amount = txns[tx].op.amount /\ ledger[v][k].after = txns[tx].result
      BY <2>1 DEF EntriesInv, EntriesSound
    <3>2. tx # i  BY <2>1, <1>3
    <3>3. /\ tx \in 1..Len(txns') /\ txns'[tx].op = txns[tx].op
          /\ txns'[tx].status = txns[tx].status /\ txns'[tx].result = txns[tx].result
      BY <3>1, <3>2
    <3> QED  BY <2>1, <3>1, <3>3
  <2> QED  BY <2>1, <1>4
<1>7. EntriesDistinct'
  <2> SUFFICES ASSUME NEW v \in Wallets, NEW k \in 1..Len(ledger'[v]),
                      NEW l \in 1..Len(ledger'[v]), k # l
               PROVE  ledger'[v][k].tx # ledger'[v][l].tx
    BY DEF EntriesDistinct
  <2>1. CASE k \in 1..Len(ledger[v]) /\ l \in 1..Len(ledger[v])
    BY <2>1, <1>4 DEF EntriesInv, EntriesDistinct
  <2>2. ASSUME NEW a \in 1..Len(ledger'[v]), NEW b \in 1..Len(ledger[v]),
               a \notin 1..Len(ledger[v])
        PROVE  ledger'[v][a].tx # ledger'[v][b].tx
    <3>1. ledger'[v][a].tx = i  BY <2>2, <1>4
    <3>2. ledger'[v][b] = ledger[v][b]  BY <2>2, <1>4
    <3>3. ledger[v][b].tx # i  BY <2>2, <1>3
    <3> QED  BY <3>1, <3>2, <3>3
  <2>3. k \in 1..Len(ledger[v]) \/ l \in 1..Len(ledger[v])
    BY <1>4
  <2> QED  BY <2>1, <2>2, <2>3
<1>8. EntriesThere'
  <2> SUFFICES ASSUME NEW j \in 1..Len(txns'), txns'[j].status = "PROCESSED",
                      MovesMoney(txns'[j].op.kind)
               PROVE  \E k \in 1..Len(ledger'[txns'[j].op.wallet]) :
                        ledger'[txns'[j].op.wallet][k].tx = j
    BY DEF EntriesThere
  <2>1. CASE j = i
    <3>1. PICK entry \in LedgerRow : entry.tx = i /\ LedgerAppends(w, entry)
      BY <2>1
    <3>2. Len(ledger[w]) + 1 \in 1..Len(ledger'[w])
      BY <3>1, <1>1, <1>2 DEF LedgerAppends
    <3> QED  BY <2>1, <3>1, <3>2 DEF LedgerAppends
  <2>2. CASE j # i
    <3>1. j \in 1..Len(txns) /\ txns[j].op = txns'[j].op /\ txns[j].status = "PROCESSED"
      BY <2>2
    <3>2. txns[j] \in TxnRow  BY <3>1, ElementOfSeq DEF IInv, TypeOK
    <3>3. txns[j].op.wallet \in Wallets  BY <3>2, RowOperationFacts DEF TxnRow
    <3>4. PICK k \in 1..Len(ledger[txns[j].op.wallet]) : ledger[txns[j].op.wallet][k].tx = j
      BY <3>1 DEF EntriesInv, EntriesThere
    <3>5. k \in 1..Len(ledger'[txns[j].op.wallet])
          /\ ledger'[txns[j].op.wallet][k] = ledger[txns[j].op.wallet][k]
      BY <3>3, <1>4
    <3> QED  BY <3>1, <3>4, <3>5
  <2> QED  BY <2>1, <2>2
<1> QED  BY <1>6, <1>7, <1>8 DEF EntriesInv

(* A settlement that moves money appends its entry, any other none. *)
LEMMA SettlementLedger ==
  ASSUME IInv, HistoryInv, NEW s \in Sessions, NEW i \in Nat, NEW row \in TxnRow,
         Settlement(s, i, row)
  PROVE  IF SettledOf(s, row).status = "PROCESSED" /\ MovesMoney(row.op.kind)
         THEN \E entry \in LedgerRow :
                /\ entry.tx = i /\ entry.amount = row.op.amount
                /\ entry.after = SettledOf(s, row).result
                /\ entry.direction = OutcomeOf(s, row).direction
                /\ entry.before = wallets[row.op.wallet].balance
                /\ LedgerAppends(row.op.wallet, entry)
         ELSE ledger' = ledger
<1> DEFINE out == OutcomeOf(s, row)
           held == sess[s].held
           w == row.op.wallet
           new == SettledOf(s, row)
           entry == Entry(i, row, out, held)
<1>1. /\ Settling(s, i, row) /\ commitOutcome(w, i, row, out, held, sess[s].now)
      /\ w = sess[s].wallet /\ w \in Wallets /\ held \in WalletRow /\ held = wallets[w]
      /\ i \in Nat \ {0}
  BY DEF Settlement, Settling
<1>2. Decision(row, sess[s].view, sess[s].now, out) /\ new.status = out.status
  BY <1>1, SettlementDecides, SettledFields DEF HistoryInv
<1>3. ledger' = IF out.direction # Nil THEN [ledger EXCEPT ![w] = Append(@, entry)] ELSE ledger
  BY <1>1 DEF commitOutcome
<1>4. /\ entry.tx = i /\ entry.direction = out.direction /\ entry.amount = row.op.amount
      /\ entry.after = applyDirection(out.direction, held.balance, row.op.amount)
      /\ entry.before = held.balance
  BY DEF Entry
<1>5. out.status = "PROCESSED" =>
        new.result = applyDirection(out.direction, held.balance, row.op.amount)
  BY SettledFields
<1>6. Sound(out, held, row.op)  BY SettlementRows
<1>7. out.direction # Nil => entry \in LedgerRow
  <2> SUFFICES ASSUME out.direction # Nil PROVE entry \in LedgerRow  OBVIOUS
  <2>1. /\ out.direction \in {"CREDIT", "DEBIT"}
        /\ applyDirection(out.direction, held.balance, row.op.amount) \in Amounts
    BY <1>6 DEF Sound, Outcomes
  <2>2. row.op.amount \in Amounts  BY RowOperationFacts DEF TxnRow
  <2>3. held.balance \in Amounts /\ held.version + 1 \in Nat \ {0}  BY <1>1 DEF WalletRow
  <2> HIDE DEF out, held
  <2> QED  BY <2>1, <2>2, <2>3, <1>1 DEF Entry, LedgerRow
<1> HIDE DEF out, entry, new, held
<1>8. out.direction # Nil => LedgerAppends(w, entry)
  BY <1>1, <1>3, LedgerUpdate
<1>9. out.direction # Nil <=> new.status = "PROCESSED" /\ MovesMoney(row.op.kind)
  BY <1>2 DEF Decision
<1>10. CASE out.direction # Nil
  BY <1>1, <1>2, <1>4, <1>5, <1>7, <1>8, <1>9, <1>10 DEF out, new
<1>11. CASE out.direction = Nil
  BY <1>3, <1>9, <1>11 DEF new
<1> QED  BY <1>10, <1>11

(* Every step keeps entries and rows together. *)
LEMMA EntriesPreserved ==
  IInv /\ IInv' /\ HistoryInv /\ EntriesInv /\ [Next]_vars => EntriesInv'
<1> SUFFICES ASSUME IInv, IInv', HistoryInv, EntriesInv, [Next]_vars
             PROVE  EntriesInv'
  OBVIOUS
<1>1. /\ Len(txns) \in Nat /\ DOMAIN txns = 1..Len(txns)
      /\ Len(txns') \in Nat /\ DOMAIN txns' = 1..Len(txns')
      /\ \A j \in 1..Len(txns) : j \in 1..Len(txns') /\ txns'[j].op = txns[j].op
  BY OperationsKept
<1>2. \A j \in 1..Len(txns) : txns[j] \in TxnRow  BY ElementOfSeq DEF IInv, TypeOK
<1>3. ASSUME NEW s \in Sessions, NEW i \in Nat, NEW row \in TxnRow, Settlement(s, i, row)
      PROVE  EntriesInv'
  <2> DEFINE new == SettledOf(s, row)
  <2>1. /\ i \in 1..Len(txns) + 1 /\ txns'[i] = new /\ new.op = row.op
        /\ DOMAIN txns' = IF i = Len(txns) + 1 THEN 1..Len(txns) + 1 ELSE 1..Len(txns)
        /\ \A j \in 1..Len(txns) : j # i =>
             txns'[j] = IF new.status = "PROCESSED" /\ Awaits(txns[j], row.op)
                        THEN Woken(txns[j], sess[s].now) ELSE txns[j]
    BY <1>3, SettlementRows
  <2>2. i \in 1..Len(txns) => txns[i].status # "PROCESSED"
    <3>1. Settling(s, i, row)  BY <1>3 DEF Settlement
    <3>2. row.status \in Undecided  BY <3>1, SettlementDecides DEF HistoryInv
    <3> QED  BY <3>1, <3>2, <1>1 DEF Settling, Undecided
  <2>3. i \in 1..Len(txns') /\ \A j \in 1..Len(txns') : j # i => j \in 1..Len(txns)
    BY <2>1, <1>1
  <2>4. IF new.status = "PROCESSED" /\ MovesMoney(row.op.kind)
        THEN \E e \in LedgerRow :
               /\ e.tx = i /\ e.amount = row.op.amount /\ e.after = new.result
               /\ LedgerAppends(row.op.wallet, e)
        ELSE ledger' = ledger
    BY <1>3, SettlementLedger
  <2> HIDE DEF new
  <2>5. \A j \in 1..Len(txns) : j # i => /\ txns'[j].op = txns[j].op
                                         /\ txns'[j].status = txns[j].status
                                         /\ txns'[j].result = txns[j].result
    BY <2>1, <1>2, WokenFields
  <2>6. IF txns'[i].status = "PROCESSED" /\ MovesMoney(txns'[i].op.kind)
        THEN \E e \in LedgerRow : /\ e.tx = i /\ e.amount = txns'[i].op.amount
                                  /\ e.after = txns'[i].result
                                  /\ LedgerAppends(txns'[i].op.wallet, e)
        ELSE ledger' = ledger
    BY <2>1, <2>4
  <2> QED  BY <2>2, <2>3, <2>5, <2>6, <1>1, EntriesAfter
<1>4. ASSUME NEW s \in Workers, cannotCarryForward(s)
      PROVE  EntriesInv'
  <2> DEFINE i == sess[s].cand
  <2>1. /\ i \in 1..Len(txns) /\ s \in Sessions /\ sess[s].pc = "resume"
        /\ DOMAIN txns' = 1..Len(txns) /\ sess[s].now \in Nat \ {0}
        /\ txns'[i] = PutAside(txns[i], sess[s].now)
        /\ \A j \in 1..Len(txns) : j # i => txns'[j] = txns[j]
        /\ ledger' = ledger
    BY <1>4, PutAsideRows
  <2>2. Parked(txns[i])  BY <2>1 DEF HistoryInv, ClaimedIsParked
  <2>3. txns[i].status # "PROCESSED" /\ txns'[i].status # "PROCESSED"
    <3>1. txns[i] \in TxnRow  BY <2>1, <1>2
    <3>2. PutAside(txns[i], sess[s].now).status \in {"FAILED", txns[i].status}
      BY <2>1, <3>1, PutAsideFields
    <3> QED  BY <2>1, <2>2, <3>2 DEF Parked
  <2> HIDE DEF i
  <2> QED  BY <2>1, <2>3, <1>1, EntriesAfter
<1>5. ASSUME NEW o \in Openings, Open(o)
      PROVE  EntriesInv'
  <2> DEFINE i == Len(txns) + 1
             entry == [tx |-> i, direction |-> "CREDIT", amount |-> o.amount,
                       before |-> 0, after |-> o.amount, version |-> 1]
  <2>1. CASE o.amount = 0
    <3>1. txns' = txns /\ ledger' = ledger  BY <2>1, <1>5, OpenRows
    <3> QED  BY <3>1 DEF EntriesInv, EntriesSound, EntriesDistinct, EntriesThere
  <2>2. CASE o.amount # 0
    <3>1. /\ DOMAIN txns' = 1..Len(txns) + 1 /\ txns'[i] = OpeningRow(o)
          /\ \A j \in 1..Len(txns) : txns'[j] = txns[j]
          /\ OpeningRow(o).op = OpeningOperation(o) /\ o.wallet \in Wallets
          /\ OpeningRow(o).result = o.amount
      BY <2>2, <1>5, OpenRows
    <3>2. OpeningOperation(o).amount = o.amount /\ OpeningOperation(o).wallet = o.wallet
      BY DEF OpeningOperation
    <3>3. ledger' = [ledger EXCEPT ![o.wallet] = Append(@, entry)]
      BY <2>2, <1>5 DEF Open
    <3>4. entry.tx = i /\ entry.amount = o.amount /\ entry.after = o.amount  OBVIOUS
    <3>5. entry \in LedgerRow
      <4>1. i \in Nat \ {0} /\ 0 \in Amounts /\ o.amount \in Amounts
        BY <1>1, ServiceAssumption, PolicyAssumption DEF Amounts
      <4> QED  BY <4>1 DEF LedgerRow
    <3> HIDE DEF entry
    <3>6. LedgerAppends(o.wallet, entry)  BY <3>1, <3>3, LedgerUpdate
    <3>7. i \in 1..Len(txns') /\ i \notin 1..Len(txns)
          /\ \A j \in 1..Len(txns') : j # i => j \in 1..Len(txns)
      BY <3>1, <1>1
    <3>8. OpeningRow(o).status = "PROCESSED" /\ MovesMoney(OpeningOperation(o).kind)
      BY <1>5, OpenRows DEF OpeningOperation, MovesMoney
    <3>9. \E e \in LedgerRow : /\ e.tx = i /\ e.amount = txns'[i].op.amount
                               /\ e.after = txns'[i].result
                               /\ LedgerAppends(txns'[i].op.wallet, e)
      BY <3>1, <3>2, <3>4, <3>5, <3>6
    <3> HIDE DEF i
    <3> QED  BY <3>1, <3>7, <3>8, <3>9, <1>1, EntriesAfter
  <2> QED  BY <2>1, <2>2
<1>6. Quiet => EntriesInv'
  BY DEF Quiet, EntriesInv, EntriesSound, EntriesDistinct, EntriesThere
<1> QED  BY <1>3, <1>4, <1>5, <1>6, StepCases

(* Initially nothing has been applied. *)
LEMMA InitEntries == Init => EntriesInv
<1> SUFFICES ASSUME Init PROVE EntriesInv  OBVIOUS
<1>1. Len(txns) = 0 /\ \A w \in Wallets : Len(ledger[w]) = 0  BY DEF Init
<1> QED  BY <1>1 DEF EntriesInv, EntriesSound, EntriesDistinct, EntriesThere

(* Entries and rows are together in every reachable state. *)
LEMMA EntriesHold == Spec => []EntriesInv
BY IInvHolds, HistoryHolds, InitEntries, EntriesPreserved, PTL DEF Spec

(* However deliveries, resumptions and retries interleave, a PROCESSED      *)
(* operation that moves money has one ledger entry, of its amount and its   *)
(* result, on its own wallet, and no other operation has any.               *)
THEOREM AppliedOnce == Spec => []AppliedExactlyOnce
<1>1. IInv /\ EntriesInv => AppliedExactlyOnce
  <2> SUFFICES ASSUME IInv, EntriesInv, NEW i \in DOMAIN txns, NEW w \in Wallets
               PROVE  LET op == txns[i].op
                          entries == {k \in DOMAIN ledger[w] : ledger[w][k].tx = i}
                      IN  IF /\ txns[i].status = "PROCESSED" /\ MovesMoney(op.kind)
                             /\ w = op.wallet
                          THEN \E k \in entries : /\ entries = {k}
                                                  /\ ledger[w][k].amount = op.amount
                                                  /\ ledger[w][k].after = txns[i].result
                          ELSE entries = {}
    BY DEF AppliedExactlyOnce
  <2> DEFINE entries == {k \in DOMAIN ledger[w] : ledger[w][k].tx = i}
  <2>1. DOMAIN txns = 1..Len(txns) /\ DOMAIN ledger[w] = 1..Len(ledger[w])
    <3>1. ledger[w] \in Seq(LedgerRow)  BY DEF IInv, TypeOK
    <3> QED  BY <3>1, LenProperties DEF IInv, TypeOK
  <2>2. \A k \in entries : /\ txns[i].status = "PROCESSED" /\ MovesMoney(txns[i].op.kind)
                           /\ w = txns[i].op.wallet /\ ledger[w][k].amount = txns[i].op.amount
                           /\ ledger[w][k].after = txns[i].result
    BY <2>1 DEF EntriesInv, EntriesSound
  <2>3. \A k, l \in entries : k = l
    BY <2>1 DEF EntriesInv, EntriesDistinct
  <2>4. /\ txns[i].status = "PROCESSED" /\ MovesMoney(txns[i].op.kind) /\ w = txns[i].op.wallet
        => \E k \in entries : TRUE
    BY <2>1 DEF EntriesInv, EntriesThere
  <2> HIDE DEF entries
  <2>5. \A k \in entries : entries = {k}  BY <2>3
  <2> QED  BY <2>2, <2>4, <2>5 DEF entries
<1> QED  BY <1>1, IInvHolds, EntriesHold, PTL

-----------------------------------------------------------------------------
(* Every settlement is announced. *)

At(events, e) == {k \in 1..Len(events) : events[k] = e}

Event(type, i) == [type |-> type, tx |-> i]

(* No event is of a row that is not there. *)
EventsOfRows ==
  \A w \in Wallets : \A k \in 1..Len(outbox[w]) : outbox[w][k].tx \in 1..Len(txns)

(* The events of a row are counted by its status and its attempts. *)
Counted(i) ==
  LET events == outbox[txns[i].op.wallet]
  IN  /\ Cardinality(At(events, Event("Processed", i))) =
           IF txns[i].status = "PROCESSED" THEN 1 ELSE 0
      /\ Cardinality(At(events, Event("Rejected", i))) =
           IF txns[i].status = "REJECTED" THEN 1 ELSE 0
      /\ Cardinality(At(events, Event("PendingReference", i))) = txns[i].attempts

EventsCounted == \A i \in 1..Len(txns) : Counted(i)

(* The BalanceChanged events of a wallet are its ledger. *)
IsMove(w, k) == k \in 1..Len(outbox[w]) /\ outbox[w][k].type = "BalanceChanged"

MovesAnnounced ==
  \A w \in Wallets :
    /\ \A k \in 1..Len(outbox[w]) : IsMove(w, k) =>
         \E n \in 1..Len(ledger[w]) : outbox[w][k].tx = ledger[w][n].tx
    /\ \A n \in 1..Len(ledger[w]) :
         \E k \in 1..Len(outbox[w]) : IsMove(w, k) /\ outbox[w][k].tx = ledger[w][n].tx
    /\ \A k, l \in 1..Len(outbox[w]), n, m \in 1..Len(ledger[w]) :
         /\ IsMove(w, k) /\ outbox[w][k].tx = ledger[w][n].tx
         /\ IsMove(w, l) /\ outbox[w][l].tx = ledger[w][m].tx
         => (k < l <=> n < m)

OutboxInv == EventsOfRows /\ EventsCounted /\ MovesAnnounced

(* The places of an event in a sequence can be counted. *)
LEMMA AtFinite ==
  ASSUME NEW events \in Seq(EventRow), NEW e
  PROVE  IsFiniteSet(At(events, e)) /\ Cardinality(At(events, e)) \in Nat
<1>1. Len(events) \in Nat  BY LenProperties
<1>2. IsFiniteSet(1..Len(events))  BY <1>1, FS_Interval
<1>3. At(events, e) \subseteq 1..Len(events)  BY DEF At
<1>4. IsFiniteSet(At(events, e))  BY <1>2, <1>3, FS_Subset
<1> QED  BY <1>4, FS_CardinalityType

(* Events that are not e change no count of e. *)
LEMMA CountKept ==
  ASSUME NEW a \in Seq(EventRow), NEW ev \in Seq(EventRow), NEW e,
         \A p \in 1..Len(ev) : ev[p] # e
  PROVE  At(a \o ev, e) = At(a, e)
<1> DEFINE b == a \o ev
<1>1. Len(a) \in Nat /\ Len(ev) \in Nat /\ b \in Seq(EventRow)  BY LenProperties, ConcatProperties
<1>2. /\ Len(b) = Len(a) + Len(ev)
      /\ \A k \in 1..Len(b) : b[k] = IF k <= Len(a) THEN a[k] ELSE ev[k - Len(a)]
  BY <1>1, ConcatProperties
<1> HIDE DEF b
<1>3. ASSUME NEW k \in At(b, e) PROVE k \in At(a, e)
  <2>1. k \in 1..Len(b) /\ b[k] = e  BY <1>3 DEF At
  <2>2. CASE k <= Len(a)
    BY <2>1, <2>2, <1>1, <1>2 DEF At
  <2>3. CASE ~(k <= Len(a))
    <3>1. k - Len(a) \in 1..Len(ev) /\ b[k] = ev[k - Len(a)]  BY <2>1, <2>3, <1>1, <1>2
    <3> QED  BY <2>1, <3>1
  <2> QED  BY <2>2, <2>3
<1>4. ASSUME NEW k \in At(a, e) PROVE k \in At(b, e)
  <2>1. k \in 1..Len(a) /\ a[k] = e  BY <1>4 DEF At
  <2>2. k \in 1..Len(b) /\ k <= Len(a)  BY <2>1, <1>1, <1>2
  <2> QED  BY <2>1, <2>2, <1>2 DEF At
<1> QED  BY <1>3, <1>4 DEF b

(* One e among the events raises the count of e by one. *)
LEMMA CountOneMore ==
  ASSUME NEW a \in Seq(EventRow), NEW ev \in Seq(EventRow), NEW e,
         NEW p \in 1..Len(ev), ev[p] = e, \A q \in 1..Len(ev) : q # p => ev[q] # e
  PROVE  Cardinality(At(a \o ev, e)) = Cardinality(At(a, e)) + 1
<1> DEFINE b == a \o ev
<1>1. Len(a) \in Nat /\ Len(ev) \in Nat /\ b \in Seq(EventRow)  BY LenProperties, ConcatProperties
<1>2. /\ Len(b) = Len(a) + Len(ev)
      /\ \A k \in 1..Len(b) : b[k] = IF k <= Len(a) THEN a[k] ELSE ev[k - Len(a)]
  BY <1>1, ConcatProperties
<1> HIDE DEF b
<1>3. Len(a) + p \notin At(a, e)
  <2>1. Len(a) + p \notin 1..Len(a)  BY <1>1
  <2> QED  BY <2>1 DEF At
<1>4. ASSUME NEW k \in At(b, e) PROVE k \in At(a, e) \cup {Len(a) + p}
  <2>1. k \in 1..Len(b) /\ b[k] = e  BY <1>4 DEF At
  <2>2. CASE k <= Len(a)
    BY <2>1, <2>2, <1>1, <1>2 DEF At
  <2>3. CASE ~(k <= Len(a))
    <3>1. k - Len(a) \in 1..Len(ev) /\ b[k] = ev[k - Len(a)]  BY <2>1, <2>3, <1>1, <1>2
    <3>2. k - Len(a) = p  BY <2>1, <3>1
    <3> QED  BY <2>1, <3>2, <1>1
  <2> QED  BY <2>2, <2>3
<1>5. ASSUME NEW k \in At(a, e) PROVE k \in At(b, e)
  <2>1. k \in 1..Len(a) /\ a[k] = e  BY <1>5 DEF At
  <2>2. k \in 1..Len(b) /\ k <= Len(a)  BY <2>1, <1>1, <1>2
  <2> QED  BY <2>1, <2>2, <1>2 DEF At
<1>6. Len(a) + p \in At(b, e)
  <2>1. Len(a) + p \in 1..Len(b) /\ ~(Len(a) + p <= Len(a)) /\ (Len(a) + p) - Len(a) = p
    BY <1>1, <1>2
  <2>2. b[Len(a) + p] = e  BY <2>1, <1>2
  <2> QED  BY <2>1, <2>2 DEF At
<1>7. At(b, e) = At(a, e) \cup {Len(a) + p}  BY <1>4, <1>5, <1>6
<1>8. IsFiniteSet(At(a, e))  BY AtFinite
<1> QED  BY <1>3, <1>7, <1>8, FS_AddElement DEF b

(* The outbox of one wallet with events more. *)
OutboxAppends(w, ev) ==
  /\ outbox'[w] = outbox[w] \o ev
  /\ \A v \in Wallets : v # w => outbox'[v] = outbox[v]

(* The attempts a row had before the step. *)
Before(i) == IF i \in 1..Len(txns) THEN txns[i].attempts ELSE 0

(* The announcement of row i: what it says and what it goes with. *)
Announcement(i, ev) ==
  LET row == txns'[i]
  IN  \/ /\ row.status = "PROCESSED" /\ row.attempts = Before(i)
         /\ ev = <<Event("Processed", i), Event("BalanceChanged", i)>>
         /\ \E entry : entry.tx = i /\ LedgerAppends(row.op.wallet, entry)
      \/ /\ row.status = "PROCESSED" /\ row.attempts = Before(i) /\ ledger' = ledger
         /\ ev = <<Event("Processed", i)>>
      \/ /\ row.status = "REJECTED" /\ row.attempts = Before(i) /\ ledger' = ledger
         /\ ev = <<Event("Rejected", i)>>
      \/ /\ row.status = "PENDING_REFERENCE" /\ row.attempts = Before(i) + 1
         /\ ledger' = ledger /\ ev = <<Event("PendingReference", i)>>

(* Every event of an announcement is of its row, and it names one settlement. *)
LEMMA AnnouncementFacts ==
  ASSUME NEW i \in Nat \ {0}, NEW ev, Announcement(i, ev)
  PROVE  /\ ev \in Seq(EventRow) /\ Len(ev) \in 1..2
         /\ \A p \in 1..Len(ev) : ev[p].tx = i
         /\ \A p \in 1..Len(ev) : ev[p].type = "BalanceChanged" <=> p = 2
         /\ ev[1] = Event(IF txns'[i].status = "PROCESSED" THEN "Processed"
                          ELSE IF txns'[i].status = "REJECTED" THEN "Rejected"
                          ELSE "PendingReference", i)
         /\ Len(ev) = 2 => \E entry : entry.tx = i /\ LedgerAppends(txns'[i].op.wallet, entry)
         /\ Len(ev) = 1 => ledger' = ledger
<1>1. \A type \in {"Processed", "BalanceChanged", "Rejected", "PendingReference"} :
        /\ Event(type, i) \in EventRow /\ Event(type, i).tx = i /\ Event(type, i).type = type
  BY DEF EventRow, Event
<1> DEFINE done == Event("Processed", i)
           moved == Event("BalanceChanged", i)
           refused == Event("Rejected", i)
           waits == Event("PendingReference", i)
<1>2. /\ done \in EventRow /\ done.tx = i /\ done.type = "Processed"
      /\ moved \in EventRow /\ moved.tx = i /\ moved.type = "BalanceChanged"
      /\ refused \in EventRow /\ refused.tx = i /\ refused.type = "Rejected"
      /\ waits \in EventRow /\ waits.tx = i /\ waits.type = "PendingReference"
  BY <1>1
<1> HIDE DEF done, moved, refused, waits
<1>3. CASE ev = <<done, moved>> /\ txns'[i].status = "PROCESSED"
           /\ \E entry : entry.tx = i /\ LedgerAppends(txns'[i].op.wallet, entry)
  BY <1>2, <1>3 DEF done
<1>4. CASE ev = <<done>> /\ txns'[i].status = "PROCESSED" /\ ledger' = ledger
  BY <1>2, <1>4 DEF done
<1>5. CASE ev = <<refused>> /\ txns'[i].status = "REJECTED" /\ ledger' = ledger
  BY <1>2, <1>5 DEF refused
<1>6. CASE ev = <<waits>> /\ txns'[i].status = "PENDING_REFERENCE" /\ ledger' = ledger
  BY <1>2, <1>6 DEF waits
<1> QED  BY <1>3, <1>4, <1>5, <1>6 DEF Announcement, done, moved, refused, waits

(* The counts of the row that is announced. *)
LEMMA CountedAfter ==
  ASSUME NEW a \in Seq(EventRow), NEW i \in Nat \ {0}, NEW ev, Announcement(i, ev),
         NEW n \in Nat, n = Before(i),
         Cardinality(At(a, Event("Processed", i))) = 0,
         Cardinality(At(a, Event("Rejected", i))) = 0,
         Cardinality(At(a, Event("PendingReference", i))) = n
  PROVE  /\ Cardinality(At(a \o ev, Event("Processed", i))) =
              IF txns'[i].status = "PROCESSED" THEN 1 ELSE 0
         /\ Cardinality(At(a \o ev, Event("Rejected", i))) =
              IF txns'[i].status = "REJECTED" THEN 1 ELSE 0
         /\ Cardinality(At(a \o ev, Event("PendingReference", i))) = txns'[i].attempts
<1>1. /\ ev \in Seq(EventRow) /\ Len(ev) \in 1..2
      /\ \A p \in 1..Len(ev) : ev[p].type = "BalanceChanged" <=> p = 2
      /\ ev[1] = Event(IF txns'[i].status = "PROCESSED" THEN "Processed"
                       ELSE IF txns'[i].status = "REJECTED" THEN "Rejected"
                       ELSE "PendingReference", i)
  BY AnnouncementFacts
<1>2. \A type : Event(type, i).type = type  BY DEF Event
<1>3. \A p \in 1..Len(ev) : p # 1 => p = 2 /\ ev[p].type = "BalanceChanged"
  BY <1>1
<1>4. ASSUME NEW type, type # "BalanceChanged", ev[1] = Event(type, i)
      PROVE  /\ Cardinality(At(a \o ev, Event(type, i))) =
                  Cardinality(At(a, Event(type, i))) + 1
             /\ \A other : other \notin {type, "BalanceChanged"} =>
                  At(a \o ev, Event(other, i)) = At(a, Event(other, i))
  <2>1. 1 \in 1..Len(ev) /\ \A q \in 1..Len(ev) : q # 1 => ev[q] # Event(type, i)
    BY <1>1, <1>2, <1>3, <1>4
  <2>2. Cardinality(At(a \o ev, Event(type, i))) = Cardinality(At(a, Event(type, i))) + 1
    BY <2>1, <1>1, <1>4, CountOneMore
  <2>3. ASSUME NEW other, other \notin {type, "BalanceChanged"}
        PROVE  At(a \o ev, Event(other, i)) = At(a, Event(other, i))
    <3>1. \A p \in 1..Len(ev) : ev[p] # Event(other, i)
      BY <2>3, <1>2, <1>3, <1>4
    <3> QED  BY <3>1, <1>1, CountKept
  <2> QED  BY <2>2, <2>3
<1>5. CASE txns'[i].status = "PROCESSED"
  <2>1. ev[1] = Event("Processed", i)  BY <1>1, <1>5
  <2>2. txns'[i].attempts = n  BY <1>5 DEF Announcement
  <2> QED  BY <2>1, <2>2, <1>4, <1>5
<1>6. CASE txns'[i].status = "REJECTED"
  <2>1. ev[1] = Event("Rejected", i)  BY <1>1, <1>6
  <2>2. txns'[i].attempts = n  BY <1>6 DEF Announcement
  <2> QED  BY <2>1, <2>2, <1>4, <1>6
<1>7. CASE txns'[i].status = "PENDING_REFERENCE"
  <2>1. ev[1] = Event("PendingReference", i)  BY <1>1, <1>7
  <2>2. txns'[i].attempts = n + 1  BY <1>7 DEF Announcement
  <2> QED  BY <2>1, <2>2, <1>4, <1>7
<1> QED  BY <1>5, <1>6, <1>7 DEF Announcement

(* What the outbox holds after an announcement is what it held and the events. *)
LEMMA OutboxGrowth ==
  ASSUME IInv, NEW w \in Wallets, NEW ev \in Seq(EventRow), OutboxAppends(w, ev),
         NEW v \in Wallets
  PROVE  /\ Len(outbox[v]) \in Nat /\ Len(ev) \in Nat
         /\ \A k \in 1..Len(outbox'[v]) :
              \/ k \in 1..Len(outbox[v]) /\ outbox'[v][k] = outbox[v][k]
              \/ /\ v = w /\ k > Len(outbox[v]) /\ k - Len(outbox[v]) \in 1..Len(ev)
                 /\ outbox'[v][k] = ev[k - Len(outbox[v])]
         /\ \A k \in 1..Len(outbox[v]) :
              k \in 1..Len(outbox'[v]) /\ outbox'[v][k] = outbox[v][k]
         /\ v = w => \A p \in 1..Len(ev) :
              Len(outbox[v]) + p \in 1..Len(outbox'[v]) /\ outbox'[v][Len(outbox[v]) + p] = ev[p]
<1> DEFINE a == outbox[v]
           b == outbox'[v]
<1>1. a \in Seq(EventRow)  BY DEF IInv, TypeOK
<1>2. Len(a) \in Nat /\ Len(ev) \in Nat  BY <1>1, LenProperties
<1>3. CASE v = w
  <2>1. b = a \o ev  BY <1>3 DEF OutboxAppends
  <2> HIDE DEF a, b
  <2>2. /\ Len(b) = Len(a) + Len(ev)
        /\ \A k \in 1..Len(b) : b[k] = IF k <= Len(a) THEN a[k] ELSE ev[k - Len(a)]
    BY <2>1, <1>1, ConcatProperties
  <2>3. \A k \in 1..Len(b) : \/ k \in 1..Len(a) /\ b[k] = a[k]
                             \/ /\ k > Len(a) /\ k - Len(a) \in 1..Len(ev)
                                /\ b[k] = ev[k - Len(a)]
    BY <2>2, <1>2
  <2>4. \A k \in 1..Len(a) : k \in 1..Len(b) /\ b[k] = a[k]
    BY <2>2, <1>2
  <2>5. \A p \in 1..Len(ev) : Len(a) + p \in 1..Len(b) /\ b[Len(a) + p] = ev[p]
    <3> SUFFICES ASSUME NEW p \in 1..Len(ev)
                 PROVE  Len(a) + p \in 1..Len(b) /\ b[Len(a) + p] = ev[p]
      OBVIOUS
    <3>1. Len(a) + p \in 1..Len(b) /\ ~(Len(a) + p <= Len(a)) /\ (Len(a) + p) - Len(a) = p
      BY <2>2, <1>2
    <3> QED  BY <3>1, <2>2
  <2> QED  BY <1>2, <1>3, <2>3, <2>4, <2>5 DEF a, b
<1>4. CASE v # w
  BY <1>2, <1>4 DEF OutboxAppends
<1> QED  BY <1>3, <1>4

(* The counts after row i is announced. *)
LEMMA CountsAfter ==
  ASSUME IInv, IInv', OutboxInv, NEW i \in 1..Len(txns'), NEW ev,
         Len(txns) \in Nat, Len(txns') \in Nat, Announcement(i, ev),
         OutboxAppends(txns'[i].op.wallet, ev),
         i \in 1..Len(txns) => /\ txns[i].status \notin {"PROCESSED", "REJECTED"}
                               /\ txns'[i].op = txns[i].op,
         \A j \in 1..Len(txns') : j # i => j \in 1..Len(txns),
         \A j \in 1..Len(txns) : j # i => /\ txns'[j].op = txns[j].op
                                          /\ txns'[j].status = txns[j].status
                                          /\ txns'[j].attempts = txns[j].attempts
  PROVE  EventsCounted'
<1> DEFINE w == txns'[i].op.wallet
<1>1. \A j \in 1..Len(txns') : txns'[j].op.wallet \in Wallets
  <2>1. \A j \in 1..Len(txns') : txns'[j] \in TxnRow  BY ElementOfSeq DEF IInv, TypeOK
  <2> QED  BY <2>1, RowOperationFacts DEF TxnRow
<1>2. w \in Wallets /\ outbox[w] \in Seq(EventRow)  BY <1>1 DEF IInv, TypeOK
<1>3. i \in Nat \ {0}  OBVIOUS
<1>4. ev \in Seq(EventRow) /\ \A p \in 1..Len(ev) : ev[p].tx = i
  BY <1>3, AnnouncementFacts
<1>5. outbox'[w] = outbox[w] \o ev  BY DEF OutboxAppends
<1>6. Counted(i)'
  <2>1. /\ Before(i) \in Nat
        /\ Cardinality(At(outbox[w], Event("Processed", i))) = 0
        /\ Cardinality(At(outbox[w], Event("Rejected", i))) = 0
        /\ Cardinality(At(outbox[w], Event("PendingReference", i))) = Before(i)
    <3>1. CASE i \in 1..Len(txns)
      <4>1. txns[i] \in TxnRow  BY <3>1, ElementOfSeq DEF IInv, TypeOK
      <4>2. txns[i].attempts \in Nat  BY <4>1, PolicyAssumption DEF TxnRow
      <4>3. Counted(i) /\ txns[i].op.wallet = w  BY <3>1 DEF OutboxInv, EventsCounted
      <4> QED  BY <3>1, <4>2, <4>3 DEF Counted, Before
    <3>2. CASE i \notin 1..Len(txns)
      <4>1. \A type : At(outbox[w], Event(type, i)) = {}
        <5>1. \A k \in 1..Len(outbox[w]) : outbox[w][k].tx # i
          BY <3>2, <1>2 DEF OutboxInv, EventsOfRows
        <5>2. \A type : Event(type, i).tx = i  BY DEF Event
        <5> QED  BY <5>1, <5>2 DEF At
      <4>2. Cardinality({}) = 0  BY FS_EmptySet
      <4> QED  BY <3>2, <4>1, <4>2 DEF Before
    <3> QED  BY <3>1, <3>2
  <2>2. /\ Cardinality(At(outbox[w] \o ev, Event("Processed", i))) =
             IF txns'[i].status = "PROCESSED" THEN 1 ELSE 0
        /\ Cardinality(At(outbox[w] \o ev, Event("Rejected", i))) =
             IF txns'[i].status = "REJECTED" THEN 1 ELSE 0
        /\ Cardinality(At(outbox[w] \o ev, Event("PendingReference", i))) = txns'[i].attempts
    BY <2>1, <1>2, <1>3, CountedAfter
  <2> QED  BY <2>2, <1>5 DEF Counted
<1>7. ASSUME NEW j \in 1..Len(txns'), j # i
      PROVE  Counted(j)'
  <2> DEFINE v == txns[j].op.wallet
  <2>1. /\ j \in 1..Len(txns) /\ txns'[j].op = txns[j].op
        /\ txns'[j].status = txns[j].status /\ txns'[j].attempts = txns[j].attempts
    BY <1>7
  <2>2. v \in Wallets  BY <2>1, <1>1
  <2>3. Counted(j)  BY <2>1 DEF OutboxInv, EventsCounted
  <2>4. \A type : At(outbox'[v], Event(type, j)) = At(outbox[v], Event(type, j))
    <3>1. CASE v = w
      <4>1. \A type : Event(type, j).tx = j  BY DEF Event
      <4>2. \A type : \A p \in 1..Len(ev) : ev[p] # Event(type, j)
        BY <4>1, <1>4, <1>7
      <4>3. \A type : At(outbox[w] \o ev, Event(type, j)) = At(outbox[w], Event(type, j))
        BY <4>2, <1>2, <1>4, CountKept
      <4> QED  BY <4>3, <3>1, <1>5
    <3>2. CASE v # w
      BY <3>2, <2>2 DEF OutboxAppends
    <3> QED  BY <3>1, <3>2
  <2> QED  BY <2>1, <2>3, <2>4 DEF Counted
<1> QED  BY <1>6, <1>7 DEF EventsCounted

(* The moves after row i is announced: those there were, and that of row i *)
(* if it comes with an entry, last in both.                                 *)
LEMMA MovesAfter ==
  ASSUME IInv, IInv', EntriesInv, OutboxInv, NEW i \in 1..Len(txns'), NEW ev,
         Len(txns) \in Nat, Len(txns') \in Nat, Announcement(i, ev),
         OutboxAppends(txns'[i].op.wallet, ev),
         i \in 1..Len(txns) => txns[i].status # "PROCESSED"
  PROVE  MovesAnnounced'
<1> DEFINE w == txns'[i].op.wallet
           Pair(v, k, n) == IsMove(v, k) /\ n \in 1..Len(ledger[v])
                            /\ outbox[v][k].tx = ledger[v][n].tx
           Next2(v, k, n) == /\ k \in 1..Len(outbox'[v]) /\ n \in 1..Len(ledger'[v])
                             /\ outbox'[v][k].type = "BalanceChanged"
                             /\ outbox'[v][k].tx = ledger'[v][n].tx
<1>1. w \in Wallets
  <2>1. txns'[i] \in TxnRow  BY ElementOfSeq DEF IInv, TypeOK
  <2> QED  BY <2>1, RowOperationFacts DEF TxnRow
<1>2. i \in Nat \ {0}  OBVIOUS
<1>3. /\ ev \in Seq(EventRow) /\ Len(ev) \in 1..2
      /\ \A p \in 1..Len(ev) : ev[p].tx = i
      /\ \A p \in 1..Len(ev) : ev[p].type = "BalanceChanged" <=> p = 2
      /\ Len(ev) = 2 => \E entry : entry.tx = i /\ LedgerAppends(w, entry)
      /\ Len(ev) = 1 => ledger' = ledger
  BY <1>2, AnnouncementFacts
<1> SUFFICES ASSUME NEW v \in Wallets
             PROVE  /\ \A k \in 1..Len(outbox'[v]) : outbox'[v][k].type = "BalanceChanged" =>
                         \E n \in 1..Len(ledger'[v]) : outbox'[v][k].tx = ledger'[v][n].tx
                    /\ \A n \in 1..Len(ledger'[v]) :
                         \E k \in 1..Len(outbox'[v]) :
                           /\ outbox'[v][k].type = "BalanceChanged"
                           /\ outbox'[v][k].tx = ledger'[v][n].tx
                    /\ \A k, l \in 1..Len(outbox'[v]), n, m \in 1..Len(ledger'[v]) :
                         Next2(v, k, n) /\ Next2(v, l, m) => (k < l <=> n < m)
  BY DEF MovesAnnounced, IsMove
<1> DEFINE last == Len(outbox[v]) + 2
           final == Len(ledger[v]) + 1
           adds == v = w /\ Len(ev) = 2
<1>4. Len(ledger[v]) \in Nat /\ Len(outbox[v]) \in Nat
  <2>1. ledger[v] \in Seq(LedgerRow) /\ outbox[v] \in Seq(EventRow)  BY DEF IInv, TypeOK
  <2> QED  BY <2>1, LenProperties
(* Nothing that was there is of row i. *)
<1>5. /\ \A n \in 1..Len(ledger[v]) : ledger[v][n].tx # i
      /\ \A k : IsMove(v, k) => outbox[v][k].tx # i
  <2>1. \A n \in 1..Len(ledger[v]) : ledger[v][n].tx # i
    BY DEF EntriesInv, EntriesSound
  <2>2. \A k : IsMove(v, k) => \E n \in 1..Len(ledger[v]) : outbox[v][k].tx = ledger[v][n].tx
    BY DEF OutboxInv, MovesAnnounced, IsMove
  <2> QED  BY <2>1, <2>2
(* The moves there are now, and the entries. *)
<1>6. /\ \A k \in 1..Len(outbox'[v]) : outbox'[v][k].type = "BalanceChanged" =>
           \/ IsMove(v, k) /\ outbox'[v][k] = outbox[v][k]
           \/ adds /\ k = last /\ outbox'[v][k].tx = i
      /\ \A k \in 1..Len(outbox[v]) :
           k \in 1..Len(outbox'[v]) /\ outbox'[v][k] = outbox[v][k]
      /\ adds => /\ last \in 1..Len(outbox'[v]) /\ outbox'[v][last].tx = i
                 /\ outbox'[v][last].type = "BalanceChanged"
  <2>1. /\ \A k \in 1..Len(outbox'[v]) :
             \/ k \in 1..Len(outbox[v]) /\ outbox'[v][k] = outbox[v][k]
             \/ /\ v = w /\ k > Len(outbox[v]) /\ k - Len(outbox[v]) \in 1..Len(ev)
                /\ outbox'[v][k] = ev[k - Len(outbox[v])]
        /\ \A k \in 1..Len(outbox[v]) :
             k \in 1..Len(outbox'[v]) /\ outbox'[v][k] = outbox[v][k]
        /\ v = w => \A p \in 1..Len(ev) :
             Len(outbox[v]) + p \in 1..Len(outbox'[v]) /\ outbox'[v][Len(outbox[v]) + p] = ev[p]
    BY <1>1, <1>3, OutboxGrowth
  <2>2. ASSUME NEW k \in 1..Len(outbox'[v]), outbox'[v][k].type = "BalanceChanged"
        PROVE  \/ IsMove(v, k) /\ outbox'[v][k] = outbox[v][k]
               \/ adds /\ k = last /\ outbox'[v][k].tx = i
    <3>1. CASE k \in 1..Len(outbox[v]) /\ outbox'[v][k] = outbox[v][k]
      BY <2>2, <3>1 DEF IsMove
    <3>2. CASE /\ v = w /\ k > Len(outbox[v]) /\ k - Len(outbox[v]) \in 1..Len(ev)
               /\ outbox'[v][k] = ev[k - Len(outbox[v])]
      <4>1. k - Len(outbox[v]) = 2 /\ outbox'[v][k].tx = i  BY <3>2, <2>2, <1>3
      <4> QED  BY <4>1, <3>2, <1>3, <1>4
    <3> QED  BY <2>1, <3>1, <3>2
  <2>3. adds => /\ last \in 1..Len(outbox'[v]) /\ outbox'[v][last].tx = i
                /\ outbox'[v][last].type = "BalanceChanged"
    <3> SUFFICES ASSUME adds
                 PROVE  /\ last \in 1..Len(outbox'[v]) /\ outbox'[v][last].tx = i
                        /\ outbox'[v][last].type = "BalanceChanged"
      OBVIOUS
    <3>1. 2 \in 1..Len(ev) /\ v = w  OBVIOUS
    <3>2. ev[2].tx = i /\ ev[2].type = "BalanceChanged"  BY <3>1, <1>3
    <3>3. last \in 1..Len(outbox'[v]) /\ outbox'[v][last] = ev[2]  BY <3>1, <2>1, Zenon
    <3> QED  BY <3>2, <3>3
  <2> QED  BY <2>1, <2>2, <2>3
<1>7. /\ \A n \in 1..Len(ledger'[v]) :
           \/ n \in 1..Len(ledger[v]) /\ ledger'[v][n] = ledger[v][n]
           \/ adds /\ n = final /\ ledger'[v][n].tx = i
      /\ \A n \in 1..Len(ledger[v]) :
           n \in 1..Len(ledger'[v]) /\ ledger'[v][n] = ledger[v][n]
      /\ adds => final \in 1..Len(ledger'[v]) /\ ledger'[v][final].tx = i
  <2>1. CASE Len(ev) = 2
    <3>1. PICK entry : entry.tx = i /\ LedgerAppends(w, entry)  BY <2>1, <1>3
    <3>2. /\ \A n \in 1..Len(ledger'[v]) :
               \/ n \in 1..Len(ledger[v]) /\ ledger'[v][n] = ledger[v][n]
               \/ v = w /\ n = Len(ledger[v]) + 1 /\ ledger'[v][n] = entry
          /\ \A n \in 1..Len(ledger[v]) :
               n \in 1..Len(ledger'[v]) /\ ledger'[v][n] = ledger[v][n]
      BY <3>1, <1>1, LedgerGrowth
    <3>3. v = w => final \in 1..Len(ledger'[v]) /\ ledger'[v][final].tx = i
      BY <3>1, <1>4 DEF LedgerAppends
    <3> QED  BY <3>1, <3>2, <3>3, <2>1
  <2>2. CASE Len(ev) = 1
    <3>1. ledger' = ledger /\ ~adds  BY <2>2, <1>3
    <3> QED  BY <3>1
  <2> QED  BY <2>1, <2>2, <1>3
<1> HIDE DEF adds, last, final, w
<1>8. ASSUME NEW k, NEW n, Next2(v, k, n)
      PROVE  \/ Pair(v, k, n) /\ k \in 1..Len(outbox[v])
             \/ adds /\ k = last /\ n = final
  BY <1>8, <1>5, <1>6, <1>7 DEF IsMove
<1>9. \A k, l \in 1..Len(outbox[v]), n, m \in 1..Len(ledger[v]) :
        Pair(v, k, n) /\ Pair(v, l, m) => (k < l <=> n < m)
  BY DEF OutboxInv, MovesAnnounced
<1>10. /\ \A k \in 1..Len(outbox[v]) : k < last /\ ~(last < k) /\ ~(last < last)
       /\ \A n \in 1..Len(ledger[v]) : n < final /\ ~(final < n) /\ ~(final < final)
       /\ last \in Int /\ final \in Int
  BY <1>4 DEF last, final
<1>11. \A k, l \in 1..Len(outbox'[v]), n, m \in 1..Len(ledger'[v]) :
         Next2(v, k, n) /\ Next2(v, l, m) => (k < l <=> n < m)
  <2> SUFFICES ASSUME NEW k, NEW l, NEW n, NEW m, Next2(v, k, n), Next2(v, l, m)
               PROVE  k < l <=> n < m
    OBVIOUS
  <2>1. \/ Pair(v, k, n) /\ k \in 1..Len(outbox[v]) /\ n \in 1..Len(ledger[v])
        \/ k = last /\ n = final
    BY <1>8
  <2>2. \/ Pair(v, l, m) /\ l \in 1..Len(outbox[v]) /\ m \in 1..Len(ledger[v])
        \/ l = last /\ m = final
    BY <1>8
  <2> HIDE DEF Pair, Next2
  <2> QED  BY <2>1, <2>2, <1>4, <1>9, <1>10
<1>12. \A k \in 1..Len(outbox'[v]) : outbox'[v][k].type = "BalanceChanged" =>
         \E n \in 1..Len(ledger'[v]) : outbox'[v][k].tx = ledger'[v][n].tx
  <2> SUFFICES ASSUME NEW k \in 1..Len(outbox'[v]), outbox'[v][k].type = "BalanceChanged"
               PROVE  \E n \in 1..Len(ledger'[v]) : outbox'[v][k].tx = ledger'[v][n].tx
    OBVIOUS
  <2>1. CASE IsMove(v, k) /\ outbox'[v][k] = outbox[v][k]
    <3>1. PICK n \in 1..Len(ledger[v]) : outbox[v][k].tx = ledger[v][n].tx
      BY <2>1 DEF OutboxInv, MovesAnnounced, IsMove
    <3> QED  BY <2>1, <3>1, <1>7
  <2> QED  BY <2>1, <1>6, <1>7
<1>13. \A n \in 1..Len(ledger'[v]) :
         \E k \in 1..Len(outbox'[v]) : /\ outbox'[v][k].type = "BalanceChanged"
                                       /\ outbox'[v][k].tx = ledger'[v][n].tx
  <2> SUFFICES ASSUME NEW n \in 1..Len(ledger'[v])
               PROVE  \E k \in 1..Len(outbox'[v]) : /\ outbox'[v][k].type = "BalanceChanged"
                                                    /\ outbox'[v][k].tx = ledger'[v][n].tx
    OBVIOUS
  <2>1. CASE n \in 1..Len(ledger[v]) /\ ledger'[v][n] = ledger[v][n]
    <3>1. PICK k \in 1..Len(outbox[v]) : IsMove(v, k) /\ outbox[v][k].tx = ledger[v][n].tx
      BY <2>1 DEF OutboxInv, MovesAnnounced
    <3> QED  BY <2>1, <3>1, <1>6 DEF IsMove
  <2> QED  BY <2>1, <1>6, <1>7
<1> QED  BY <1>11, <1>12, <1>13

(* An announcement keeps the outbox and the tables together. *)
LEMMA OutboxAfter ==
  ASSUME IInv, IInv', EntriesInv, OutboxInv, NEW i \in 1..Len(txns'), NEW ev,
         Len(txns) \in Nat, Len(txns') \in Nat, Announcement(i, ev),
         OutboxAppends(txns'[i].op.wallet, ev),
         i \in 1..Len(txns) => /\ txns[i].status \notin {"PROCESSED", "REJECTED"}
                               /\ txns'[i].op = txns[i].op,
         \A j \in 1..Len(txns) : j \in 1..Len(txns'),
         \A j \in 1..Len(txns') : j # i => j \in 1..Len(txns),
         \A j \in 1..Len(txns) : j # i => /\ txns'[j].op = txns[j].op
                                          /\ txns'[j].status = txns[j].status
                                          /\ txns'[j].attempts = txns[j].attempts
  PROVE  OutboxInv'
<1>1. EventsCounted'  BY CountsAfter
<1>2. MovesAnnounced'  BY MovesAfter
<1>3. EventsOfRows'
  <2>1. txns'[i] \in TxnRow  BY ElementOfSeq DEF IInv, TypeOK
  <2>2. txns'[i].op.wallet \in Wallets  BY <2>1, RowOperationFacts DEF TxnRow
  <2>3. i \in Nat \ {0}  OBVIOUS
  <2>4. ev \in Seq(EventRow) /\ \A p \in 1..Len(ev) : ev[p].tx = i
    BY <2>3, AnnouncementFacts
  <2>5. ASSUME NEW v \in Wallets, NEW k \in 1..Len(outbox'[v])
        PROVE  outbox'[v][k].tx \in 1..Len(txns')
    <3>1. CASE k \in 1..Len(outbox[v]) /\ outbox'[v][k] = outbox[v][k]
      BY <3>1 DEF OutboxInv, EventsOfRows
    <3>2. CASE k - Len(outbox[v]) \in 1..Len(ev) /\ outbox'[v][k] = ev[k - Len(outbox[v])]
      BY <3>2, <2>4
    <3> QED  BY <2>2, <2>4, <2>5, <3>1, <3>2, OutboxGrowth
  <2> QED  BY <2>5 DEF EventsOfRows
<1> QED  BY <1>1, <1>2, <1>3 DEF OutboxInv

(* A settlement announces itself. *)
LEMMA SettlementAnnounces ==
  ASSUME IInv, HistoryInv, NEW s \in Sessions, NEW i \in Nat, NEW row \in TxnRow,
         Settlement(s, i, row)
  PROVE  \E ev : Announcement(i, ev) /\ OutboxAppends(txns'[i].op.wallet, ev)
<1> DEFINE out == OutcomeOf(s, row)
           new == SettledOf(s, row)
           w == row.op.wallet
           ev == EventsOf(i, new, out)
<1>1. /\ Settling(s, i, row) /\ w \in Wallets
      /\ commitOutcome(w, i, row, out, sess[s].held, sess[s].now)
  BY DEF Settlement, Settling
<1>2. /\ Decision(row, sess[s].view, sess[s].now, out)
      /\ sess[s].pc = "settle" => row.attempts = 0
  BY <1>1, SettlementDecides DEF HistoryInv
<1>3. txns'[i] = new /\ DOMAIN txns = 1..Len(txns) /\ Len(txns) \in Nat
  BY SettlementRows
<1>4. new.op = row.op /\ new.status = out.status /\ new.attempts = out.attempts
  BY SettledFields
<1>5. row.attempts = Before(i)
  <2>1. CASE sess[s].pc = "settle"
    <3>1. i = Len(txns) + 1  BY <1>1, <2>1 DEF Settling
    <3>2. i \notin 1..Len(txns)  BY <3>1, <1>3
    <3> QED  BY <3>2, <2>1, <1>2 DEF Before
  <2>2. CASE sess[s].pc = "resume"
    BY <1>1, <2>2 DEF Settling, Before
  <2> QED  BY <2>1, <2>2, <1>1 DEF Settling
<1>6. IF new.status = "PROCESSED" /\ MovesMoney(row.op.kind)
      THEN \E entry : entry.tx = i /\ LedgerAppends(w, entry)
      ELSE ledger' = ledger
  BY SettlementLedger
<1>7. OutboxAppends(w, ev)
  <2>1. outbox' = [outbox EXCEPT ![w] = @ \o ev]
    BY <1>1 DEF commitOutcome, SettledOf
  <2>2. outbox \in [Wallets -> Seq(EventRow)]  BY DEF IInv, TypeOK
  <2> HIDE DEF ev
  <2> QED  BY <2>1, <2>2, <1>1 DEF OutboxAppends
<1> HIDE DEF new, out
<1>8. CASE out.status = "PROCESSED" /\ out.direction # Nil
  <2>1. ev = <<Event("Processed", i), Event("BalanceChanged", i)>>
    BY <1>4, <1>8 DEF EventsOf, Event
  <2>2. MovesMoney(row.op.kind) /\ out.attempts = row.attempts  BY <1>2, <1>8 DEF Decision
  <2>3. \E entry : entry.tx = i /\ LedgerAppends(w, entry)  BY <2>2, <1>4, <1>6, <1>8
  <2> HIDE DEF ev
  <2>4. Announcement(i, ev)  BY <2>1, <2>2, <2>3, <1>3, <1>4, <1>5, <1>8 DEF Announcement
  <2> QED  BY <2>4, <1>3, <1>4, <1>7
<1>9. CASE out.status = "PROCESSED" /\ out.direction = Nil
  <2>1. ev = <<Event("Processed", i)>>
    BY <1>4, <1>9 DEF EventsOf, Event
  <2>2. ~MovesMoney(row.op.kind) /\ out.attempts = row.attempts  BY <1>2, <1>9 DEF Decision
  <2> HIDE DEF ev
  <2>3. Announcement(i, ev)  BY <2>1, <2>2, <1>3, <1>4, <1>5, <1>6, <1>9 DEF Announcement
  <2> QED  BY <2>3, <1>3, <1>4, <1>7
<1>10. CASE out.status = "REJECTED"
  <2>1. ev = <<Event("Rejected", i)>>
    BY <1>4, <1>10 DEF EventsOf, Event
  <2>2. out.attempts = row.attempts  BY <1>2, <1>10 DEF Decision
  <2> HIDE DEF ev
  <2>3. Announcement(i, ev)  BY <2>1, <2>2, <1>3, <1>4, <1>5, <1>6, <1>10 DEF Announcement
  <2> QED  BY <2>3, <1>3, <1>4, <1>7
<1>11. CASE out.status = "PENDING_REFERENCE"
  <2>1. ev = <<Event("PendingReference", i)>>
    BY <1>4, <1>11 DEF EventsOf, Event
  <2>2. out.attempts = row.attempts + 1  BY <1>2, <1>11 DEF Decision
  <2> HIDE DEF ev
  <2>3. Announcement(i, ev)  BY <2>1, <2>2, <1>3, <1>4, <1>5, <1>6, <1>11 DEF Announcement
  <2> QED  BY <2>3, <1>3, <1>4, <1>7
<1> QED  BY <1>2, <1>8, <1>9, <1>10, <1>11 DEF Decision

(* Nothing is announced and nothing entered. *)
LEMMA MovesStay ==
  ASSUME MovesAnnounced, ledger' = ledger, outbox' = outbox
  PROVE  MovesAnnounced'
<1>1. \A w, k : IsMove(w, k)' <=> IsMove(w, k)  BY DEF IsMove
<1>2. ASSUME NEW w \in Wallets
      PROVE  /\ outbox'[w] = outbox[w] /\ ledger'[w] = ledger[w]
             /\ Len(outbox'[w]) = Len(outbox[w]) /\ Len(ledger'[w]) = Len(ledger[w])
  OBVIOUS
<1>3. ASSUME NEW w \in Wallets, NEW k \in 1..Len(outbox'[w]), IsMove(w, k)'
      PROVE  \E n \in 1..Len(ledger'[w]) : outbox'[w][k].tx = ledger'[w][n].tx
  <2>1. IsMove(w, k) /\ k \in 1..Len(outbox[w])  BY <1>1, <1>2, <1>3
  <2>2. \E n \in 1..Len(ledger[w]) : outbox[w][k].tx = ledger[w][n].tx
    BY <2>1 DEF MovesAnnounced
  <2> QED  BY <2>2
<1>4. ASSUME NEW w \in Wallets, NEW n \in 1..Len(ledger'[w])
      PROVE  \E k \in 1..Len(outbox'[w]) : IsMove(w, k)' /\ outbox'[w][k].tx = ledger'[w][n].tx
  <2>1. \E k \in 1..Len(outbox[w]) : IsMove(w, k) /\ outbox[w][k].tx = ledger[w][n].tx
    BY <1>2, <1>4 DEF MovesAnnounced
  <2> QED  BY <2>1, <1>1
<1>5. ASSUME NEW w \in Wallets
      PROVE  \A k, l \in 1..Len(outbox'[w]), n, m \in 1..Len(ledger'[w]) :
               /\ IsMove(w, k)' /\ outbox'[w][k].tx = ledger'[w][n].tx
               /\ IsMove(w, l)' /\ outbox'[w][l].tx = ledger'[w][m].tx
               => (k < l <=> n < m)
  <2>1. \A k, l \in 1..Len(outbox[w]), n, m \in 1..Len(ledger[w]) :
          /\ IsMove(w, k) /\ outbox[w][k].tx = ledger[w][n].tx
          /\ IsMove(w, l) /\ outbox[w][l].tx = ledger[w][m].tx
          => (k < l <=> n < m)
    BY Zenon DEF MovesAnnounced
  <2> SUFFICES ASSUME NEW k \in 1..Len(outbox'[w]), NEW l \in 1..Len(outbox'[w]),
                      NEW n \in 1..Len(ledger'[w]), NEW m \in 1..Len(ledger'[w]),
                      IsMove(w, k)', outbox'[w][k].tx = ledger'[w][n].tx,
                      IsMove(w, l)', outbox'[w][l].tx = ledger'[w][m].tx
               PROVE  k < l <=> n < m
    OBVIOUS
  <2>2. /\ k \in 1..Len(outbox[w]) /\ l \in 1..Len(outbox[w])
        /\ n \in 1..Len(ledger[w]) /\ m \in 1..Len(ledger[w])
        /\ outbox[w][k].tx = ledger[w][n].tx /\ outbox[w][l].tx = ledger[w][m].tx
    OBVIOUS
  <2>3. IsMove(w, k) /\ IsMove(w, l)  BY <1>1, Zenon
  <2> QED  BY <2>1, <2>2, <2>3, Zenon
<1> QED  BY <1>3, <1>4, <1>5, Zenon DEF MovesAnnounced

(* Every step keeps the outbox and the tables together. *)
LEMMA OutboxPreserved ==
  IInv /\ IInv' /\ HistoryInv /\ EntriesInv /\ OutboxInv /\ [Next]_vars => OutboxInv'
<1> SUFFICES ASSUME IInv, IInv', HistoryInv, EntriesInv, OutboxInv, [Next]_vars
             PROVE  OutboxInv'
  OBVIOUS
<1>1. /\ Len(txns) \in Nat /\ DOMAIN txns = 1..Len(txns)
      /\ Len(txns') \in Nat /\ DOMAIN txns' = 1..Len(txns')
      /\ \A j \in 1..Len(txns) : j \in 1..Len(txns') /\ txns'[j].op = txns[j].op
  BY OperationsKept
<1>2. \A j \in 1..Len(txns) : txns[j] \in TxnRow  BY ElementOfSeq DEF IInv, TypeOK
<1>3. ASSUME NEW s \in Sessions, NEW i \in Nat, NEW row \in TxnRow, Settlement(s, i, row)
      PROVE  OutboxInv'
  <2> DEFINE new == SettledOf(s, row)
  <2>1. /\ i \in 1..Len(txns) + 1 /\ txns'[i] = new /\ new.op = row.op
        /\ DOMAIN txns' = IF i = Len(txns) + 1 THEN 1..Len(txns) + 1 ELSE 1..Len(txns)
        /\ \A j \in 1..Len(txns) : j # i =>
             txns'[j] = IF new.status = "PROCESSED" /\ Awaits(txns[j], row.op)
                        THEN Woken(txns[j], sess[s].now) ELSE txns[j]
    <3>1. /\ i \in 1..Len(txns) + 1 /\ txns'[i] = SettledOf(s, row) /\ SettledOf(s, row).op = row.op
          /\ DOMAIN txns' = IF i = Len(txns) + 1 THEN 1..Len(txns) + 1 ELSE 1..Len(txns)
      BY <1>3, SettlementRows
    <3>2. \A j \in 1..Len(txns) : j # i =>
             txns'[j] = IF SettledOf(s, row).status = "PROCESSED" /\ Awaits(txns[j], row.op)
                        THEN Woken(txns[j], sess[s].now) ELSE txns[j]
      BY <1>3, SettlementRows
    <3> QED  BY <3>1, <3>2, Zenon
  <2>2. i \in 1..Len(txns) => txns[i].status \notin {"PROCESSED", "REJECTED"}
    <3>1. Settling(s, i, row)  BY <1>3 DEF Settlement
    <3>2. row.status \in Undecided  BY <3>1, SettlementDecides DEF HistoryInv
    <3> QED  BY <3>1, <3>2, <1>1 DEF Settling, Undecided
  <2>3. i \in 1..Len(txns') /\ \A j \in 1..Len(txns') : j # i => j \in 1..Len(txns)
    BY <2>1, <1>1
  <2> HIDE DEF new
  <2>4. \A j \in 1..Len(txns) : j # i => /\ txns'[j].op = txns[j].op
                                         /\ txns'[j].status = txns[j].status
                                         /\ txns'[j].attempts = txns[j].attempts
    BY <2>1, <1>2, WokenFields
  <2>5. PICK ev : Announcement(i, ev) /\ OutboxAppends(txns'[i].op.wallet, ev)
    BY <1>3, SettlementAnnounces
  <2> QED  BY <2>2, <2>3, <2>4, <2>5, <1>1, OutboxAfter
<1>4. ASSUME NEW s \in Workers, cannotCarryForward(s)
      PROVE  OutboxInv'
  <2> DEFINE i == sess[s].cand
  <2>1. /\ i \in 1..Len(txns) /\ s \in Sessions /\ sess[s].pc = "resume"
        /\ DOMAIN txns' = 1..Len(txns) /\ sess[s].now \in Nat \ {0}
        /\ txns'[i] = PutAside(txns[i], sess[s].now)
        /\ \A j \in 1..Len(txns) : j # i => txns'[j] = txns[j]
        /\ ledger' = ledger /\ outbox' = outbox
    BY <1>4, PutAsideRows
  <2>2. txns[i].status = "PENDING_REFERENCE"
    BY <2>1 DEF HistoryInv, ClaimedIsParked, Parked
  <2>3. /\ txns'[i].op = txns[i].op /\ txns'[i].attempts = txns[i].attempts
        /\ txns'[i].status \in {"FAILED", "PENDING_REFERENCE"}
    BY <2>1, <2>2, <1>2, PutAsideFields
  <2> HIDE DEF i
  <2>4. ASSUME NEW j \in 1..Len(txns') PROVE Counted(j)'
    <3>1. /\ j \in 1..Len(txns) /\ txns'[j].op = txns[j].op
          /\ txns'[j].attempts = txns[j].attempts
          /\ \/ txns'[j].status = txns[j].status
             \/ /\ txns[j].status = "PENDING_REFERENCE"
                /\ txns'[j].status \in {"FAILED", "PENDING_REFERENCE"}
      BY <2>1, <2>2, <2>3, <2>4, <1>1
    <3>2. Counted(j)  BY <3>1 DEF OutboxInv, EventsCounted
    <3> QED  BY <3>1, <3>2, <2>1 DEF Counted
  <2>6. EventsCounted'  BY <2>4 DEF EventsCounted
  <2>7. EventsOfRows'  BY <2>1, <1>1 DEF OutboxInv, EventsOfRows
  <2>8. MovesAnnounced'
    <3>1. MovesAnnounced /\ ledger' = ledger /\ outbox' = outbox  BY <2>1 DEF OutboxInv
    <3> QED  BY <3>1, MovesStay
  <2> QED  BY <2>6, <2>7, <2>8 DEF OutboxInv
<1>5. ASSUME NEW o \in Openings, Open(o)
      PROVE  OutboxInv'
  <2> DEFINE i == Len(txns) + 1
             entry == [tx |-> i, direction |-> "CREDIT", amount |-> o.amount,
                       before |-> 0, after |-> o.amount, version |-> 1]
             ev == <<Event("Processed", i), Event("BalanceChanged", i)>>
  <2>1. CASE o.amount = 0
    <3>1. txns' = txns /\ ledger' = ledger /\ outbox' = outbox  BY <2>1, <1>5, OpenRows
    <3> QED  BY <3>1 DEF OutboxInv, EventsOfRows, EventsCounted, Counted, MovesAnnounced, IsMove
  <2>2. CASE o.amount # 0
    <3>1. /\ DOMAIN txns' = 1..Len(txns) + 1 /\ txns'[i] = OpeningRow(o)
          /\ \A j \in 1..Len(txns) : txns'[j] = txns[j]
          /\ OpeningRow(o).op = OpeningOperation(o) /\ o.wallet \in Wallets
          /\ OpeningRow(o).status = "PROCESSED" /\ OpeningRow(o).attempts = 0
      BY <2>2, <1>5, OpenRows
    <3>2. OpeningOperation(o).wallet = o.wallet  BY DEF OpeningOperation
    <3>3. /\ ledger' = [ledger EXCEPT ![o.wallet] = Append(@, entry)]
          /\ outbox' = [outbox EXCEPT ![o.wallet] = @ \o ev]
      BY <2>2, <1>5 DEF Open, Event
    <3>4. entry.tx = i  OBVIOUS
    <3> HIDE DEF entry, ev
    <3>5. LedgerAppends(o.wallet, entry)  BY <3>1, <3>3, LedgerUpdate
    <3>6. OutboxAppends(o.wallet, ev)
      <4>1. outbox \in [Wallets -> Seq(EventRow)]  BY DEF IInv, TypeOK
      <4> QED  BY <3>1, <3>3, <4>1 DEF OutboxAppends
    <3>7. i \in 1..Len(txns') /\ i \notin 1..Len(txns)
          /\ \A j \in 1..Len(txns') : j # i => j \in 1..Len(txns)
      BY <3>1, <1>1
    <3>8. Before(i) = 0  BY <3>7 DEF Before
    <3>9. Announcement(i, ev)
      BY <3>1, <3>2, <3>4, <3>5, <3>8 DEF Announcement, ev
    <3>10. OutboxAppends(txns'[i].op.wallet, ev)  BY <3>1, <3>2, <3>6
    <3> HIDE DEF i
    <3> QED  BY <3>1, <3>7, <3>9, <3>10, <1>1, OutboxAfter
  <2> QED  BY <2>1, <2>2
<1>6. ASSUME Quiet PROVE OutboxInv'
  <2>1. UNCHANGED <<txns, ledger, outbox>>  BY <1>6 DEF Quiet
  <2>2. EventsOfRows'  BY <2>1 DEF OutboxInv, EventsOfRows
  <2>3. EventsCounted'  BY <2>1 DEF OutboxInv, EventsCounted, Counted
  <2>4. MovesAnnounced'
    <3>1. MovesAnnounced /\ ledger' = ledger /\ outbox' = outbox  BY <2>1 DEF OutboxInv
    <3> QED  BY <3>1, MovesStay
  <2> QED  BY <2>2, <2>3, <2>4 DEF OutboxInv
<1> QED  BY <1>3, <1>4, <1>5, <1>6, StepCases

(* Initially there is nothing to tell. *)
LEMMA InitOutbox == Init => OutboxInv
<1> SUFFICES ASSUME Init PROVE OutboxInv  OBVIOUS
<1>1. /\ Len(txns) = 0
      /\ \A w \in Wallets : Len(ledger[w]) = 0 /\ Len(outbox[w]) = 0
  BY DEF Init
<1> QED  BY <1>1 DEF OutboxInv, EventsOfRows, EventsCounted, MovesAnnounced, IsMove

(* The outbox and the tables are together in every reachable state. *)
LEMMA OutboxHolds == Spec => []OutboxInv
BY IInvHolds, HistoryHolds, EntriesHold, InitOutbox, OutboxPreserved, PTL DEF Spec

(* Whatever order settlements commit in, the events of a wallet tell what    *)
(* happened to it: one settlement event per settled row, one event per       *)
(* attempt, and the balance changes exactly as the ledger has them, in its   *)
(* order.                                                                    *)
THEOREM StoryIsTold == Spec => []OutboxTellsTheStory
<1>1. IInv /\ OutboxInv => OutboxTellsTheStory
  <2> SUFFICES ASSUME IInv, OutboxInv PROVE OutboxTellsTheStory  OBVIOUS
  <2>1. DOMAIN txns = 1..Len(txns)  BY LenProperties DEF IInv, TypeOK
  <2>2. \A w \in Wallets : /\ DOMAIN ledger[w] = 1..Len(ledger[w])
                           /\ DOMAIN outbox[w] = 1..Len(outbox[w])
    <3>1. \A w \in Wallets : ledger[w] \in Seq(LedgerRow) /\ outbox[w] \in Seq(EventRow)
      BY DEF IInv, TypeOK
    <3> QED  BY <3>1, LenProperties
  <2>3. \A i \in DOMAIN txns : txns[i].op.wallet \in Wallets
    <3>1. \A i \in DOMAIN txns : txns[i] \in TxnRow  BY <2>1, ElementOfSeq DEF IInv, TypeOK
    <3> QED  BY <3>1, RowOperationFacts DEF TxnRow
  <2>4. \A type : \A i \in DOMAIN txns :
          {k \in DOMAIN outbox[txns[i].op.wallet] :
             outbox[txns[i].op.wallet][k] = [type |-> type, tx |-> i]} =
          At(outbox[txns[i].op.wallet], Event(type, i))
    BY <2>2, <2>3 DEF At, Event
  <2>5. \A i \in DOMAIN txns : Counted(i)  BY <2>1 DEF OutboxInv, EventsCounted
  <2>6. ASSUME NEW w \in Wallets
        PROVE  LET moves == {k \in DOMAIN outbox[w] : outbox[w][k].type = "BalanceChanged"}
                   Announces(k, n) == outbox[w][k].tx = ledger[w][n].tx
               IN  /\ \A k \in moves : \E n \in DOMAIN ledger[w] : Announces(k, n)
                   /\ \A n \in DOMAIN ledger[w] : \E k \in moves : Announces(k, n)
                   /\ \A k, l \in moves, n, m \in DOMAIN ledger[w] :
                        Announces(k, n) /\ Announces(l, m) => (k < l <=> n < m)
    <3> DEFINE moves == {k \in DOMAIN outbox[w] : outbox[w][k].type = "BalanceChanged"}
    <3>1. \A k : k \in moves <=> k \in 1..Len(outbox[w]) /\ IsMove(w, k)
      BY <2>2 DEF IsMove
    <3> HIDE DEF moves
    <3>2. DOMAIN ledger[w] = 1..Len(ledger[w])  BY <2>2
    <3>3. \A k \in moves : \E n \in 1..Len(ledger[w]) : outbox[w][k].tx = ledger[w][n].tx
      BY <3>1 DEF OutboxInv, MovesAnnounced
    <3>4. \A n \in 1..Len(ledger[w]) : \E k \in moves : outbox[w][k].tx = ledger[w][n].tx
      BY <3>1 DEF OutboxInv, MovesAnnounced
    <3>5. \A k, l \in moves, n, m \in 1..Len(ledger[w]) :
            outbox[w][k].tx = ledger[w][n].tx /\ outbox[w][l].tx = ledger[w][m].tx
            => (k < l <=> n < m)
      BY <3>1 DEF OutboxInv, MovesAnnounced
    <3> QED  BY <3>2, <3>3, <3>4, <3>5 DEF moves
  <2>7. \A i \in DOMAIN txns :
          LET events(type) == {k \in DOMAIN outbox[txns[i].op.wallet] :
                                 outbox[txns[i].op.wallet][k] = [type |-> type, tx |-> i]}
          IN  /\ Cardinality(events("Processed")) =
                   IF txns[i].status = "PROCESSED" THEN 1 ELSE 0
              /\ Cardinality(events("Rejected")) =
                   IF txns[i].status = "REJECTED" THEN 1 ELSE 0
              /\ Cardinality(events("PendingReference")) = txns[i].attempts
    BY <2>4, <2>5 DEF Counted
  <2> QED  BY <2>6, <2>7 DEF OutboxTellsTheStory
<1> QED  BY <1>1, IInvHolds, OutboxHolds, PTL
=============================================================================
