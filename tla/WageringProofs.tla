--------------------------- MODULE WageringProofs ---------------------------
(***************************************************************************)
(* Theorems about Wagering for every value of its constants: the tables    *)
(* stay well typed, a transaction that holds a wallet's row lock decides   *)
(* on the wallet as it is, and the wallet and its ledger never part.       *)
(***************************************************************************)
EXTENDS Wagering, SequenceTheorems, TLAPS

-----------------------------------------------------------------------------
(* What an operation comes to. *)

Outcomes == [status : Statuses \ {"PENDING"}, code : Codes \cup {Nil}, resolved : Nat,
             direction : {"CREDIT", "DEBIT", Nil}, attempts : 0..MaxAttempts,
             deadline : Nat]

(* Money moves only to a balance in range, and only a PROCESSED operation *)
(* has a resulting balance.                                                *)
Sound(outcome, held, op) ==
  /\ outcome \in Outcomes
  /\ outcome.direction # Nil \/ outcome.status = "PROCESSED" =>
       applyDirection(outcome.direction, held.balance, op.amount) \in Amounts
  /\ outcome.status = "PENDING_REFERENCE" => outcome.attempts \in 1..MaxAttempts

(* Every row's operation names a wallet and an amount in range. *)
LEMMA RowOperationFacts ==
  ASSUME NEW op \in RowOperations
  PROVE  op.wallet \in Wallets /\ op.amount \in Amounts /\ op.kind \in Kinds
<1>1. CASE op \in Operations
  <2>1. PICK d \in Deliveries : op = d.op  BY <1>1 DEF Operations
  <2>2. Validate(op)  BY <2>1, ServiceAssumption
  <2> QED  BY <1>1, <2>2, ServiceAssumption DEF Validate, Amounts
<1>2. CASE op \in {OpeningOperation(o) : o \in Openings}
  <2>1. PICK o \in Openings : op = OpeningOperation(o)  BY <1>2
  <2>2. op.wallet = o.wallet /\ op.amount = o.amount /\ op.kind = "OPENING"
    BY <2>1 DEF OpeningOperation
  <2> QED  BY <2>2, ServiceAssumption DEF Amounts, Kinds
<1> QED  BY <1>1, <1>2 DEF RowOperations

(* Processor.movement yields a direction, or nothing for an operation that *)
(* moves no money.                                                         *)
LEMMA MovementFacts ==
  ASSUME NEW op \in RowOperations, NEW view
  PROVE  movement(op, view) \in {"CREDIT", "DEBIT", Nil}
<1>1. \A d : Opposite(d) \in {"CREDIT", "DEBIT", Nil}  BY DEF Opposite
<1>2. \A k : Direction(k) \in {"CREDIT", "DEBIT", Nil}  BY DEF Direction
<1> QED  BY <1>1, <1>2 DEF movement

(* The verdict on a reference is to wait, to go on or the code of a *)
(* rejection, and without the named operation it is to wait.        *)
LEMMA VerdictFacts ==
  ASSUME NEW op, NEW view
  PROVE  /\ evaluateReference(op, view) \in {"APPLY", "WAIT"} \cup Codes
         /\ namesReference(op) /\ view = Nil => evaluateReference(op, view) = "WAIT"
BY DEF evaluateReference, reversalRules, Codes

(* Processor.apply is sound. *)
LEMMA ApplySound ==
  ASSUME NEW row \in TxnRow, NEW held \in WalletRow, NEW view \in View \cup {Nil},
         NEW now \in Nat
  PROVE  Sound(apply(row, held, view, now), held, row.op)
<1> DEFINE verdict == evaluateReference(row.op, view)
<1>1. row.op \in RowOperations  BY DEF TxnRow
<1>2. row.op.amount \in Nat /\ held.balance \in Nat
  BY <1>1, RowOperationFacts, PolicyAssumption DEF WalletRow, Amounts
<1>3. NoOutcome(row) \in [status : Statuses, code : {Nil}, resolved : Nat, direction : {Nil},
                          attempts : 0..MaxAttempts, deadline : Nat]
  BY DEF NoOutcome, TxnRow
<1>4. ASSUME NEW base \in [status : Statuses, code : {Nil}, resolved : Nat, direction : {Nil},
                          attempts : 0..MaxAttempts, deadline : Nat],
             NEW code \in Codes
      PROVE  Sound(reject(base, code), held, row.op)
  BY <1>4 DEF Sound, reject, Outcomes, Statuses
<1>5. Sound(wait(row, now), held, row.op)
  <2>1. CASE ReferenceBudgetExhausted(row, now)
    <3>1. "REFERENCE_NOT_FOUND" \in Codes  BY DEF Codes
    <3> QED  BY <2>1, <3>1, <1>3, <1>4 DEF wait
  <2>2. CASE ~ReferenceBudgetExhausted(row, now)
    <3>1. row.attempts + 1 \in 1..MaxAttempts
      BY <2>2, PolicyAssumption DEF ReferenceBudgetExhausted, TxnRow
    <3>2. (IF row.deadline = 0 THEN now + TTL ELSE row.deadline) \in Nat
      BY PolicyAssumption DEF TxnRow
    <3>3. MarkPendingReference(row, now) \in Outcomes
      <4>1. ASSUME NEW base \in [status : Statuses, code : {Nil}, resolved : Nat,
                                 direction : {Nil}, attempts : 0..MaxAttempts,
                                 deadline : Nat],
                   NEW attempts \in 0..MaxAttempts, NEW deadline \in Nat
            PROVE  [base EXCEPT !.status = "PENDING_REFERENCE", !.attempts = attempts,
                                !.deadline = deadline] \in Outcomes
        BY DEF Outcomes, Statuses
      <4>2. row.attempts + 1 \in 0..MaxAttempts
        BY <3>1, PolicyAssumption
      <4> QED  BY <4>1, <4>2, <3>2, <1>3 DEF MarkPendingReference
    <3>4. /\ MarkPendingReference(row, now).attempts = row.attempts + 1
          /\ MarkPendingReference(row, now).status = "PENDING_REFERENCE"
          /\ MarkPendingReference(row, now).direction = Nil
      BY DEF MarkPendingReference, NoOutcome
    <3> QED  BY <2>2, <3>1, <3>3, <3>4 DEF wait, Sound
  <2> QED  BY <2>1, <2>2
<1>6. ASSUME verdict = "APPLY"
      PROVE  Sound(applyMovement(row, held, view), held, row.op)
  <2> DEFINE direction == movement(row.op, view)
             after == applyDirection(direction, held.balance, row.op.amount)
             resolved == IF namesReference(row.op) THEN view.id ELSE row.resolved
             base == [NoOutcome(row) EXCEPT !.resolved = resolved]
             done == [base EXCEPT !.status = "PROCESSED", !.direction = direction]
  <2>1. resolved \in Nat
    BY <1>6, VerdictFacts DEF View, TxnRow
  <2>2. base \in [status : Statuses, code : {Nil}, resolved : Nat, direction : {Nil},
                  attempts : 0..MaxAttempts, deadline : Nat]
    BY <2>1, <1>3
  <2>3. direction \in {"CREDIT", "DEBIT", Nil}
    BY <1>1, MovementFacts
  <2>4. CASE after \in 0..MaxBalance
    <3>1. applyMovement(row, held, view) = done
      BY <2>4 DEF applyMovement
    <3>2. done \in Outcomes /\ done.direction = direction /\ done.status = "PROCESSED"
      BY <2>2, <2>3 DEF Outcomes, Statuses
    <3> QED  BY <3>1, <3>2, <2>4 DEF Sound, Amounts
  <2>5. CASE after \notin 0..MaxBalance
    <3>1. applyMovement(row, held, view) = reject(base, movementRejection(row.op, after))
      BY <2>5 DEF applyMovement
    <3>2. movementRejection(row.op, after) \in Codes
      BY DEF movementRejection, Codes
    <3> QED  BY <3>1, <3>2, <2>2, <1>4
  <2> QED  BY <2>4, <2>5
<1>7. verdict \in {"APPLY", "WAIT"} \cup Codes
  BY VerdictFacts
<1>8. CASE row.op.currency # held.currency
  <2>1. apply(row, held, view, now) = reject(NoOutcome(row), "CURRENCY_MISMATCH")
    BY <1>8 DEF apply
  <2> QED  BY <2>1, <1>3, <1>4 DEF Codes
<1>9. CASE row.op.currency = held.currency
  <2>1. CASE verdict = "WAIT"
    BY <1>9, <2>1, <1>5 DEF apply
  <2>2. CASE verdict = "APPLY"
    BY <1>9, <2>2, <1>6 DEF apply
  <2>3. CASE verdict \notin {"APPLY", "WAIT"}
    <3>1. apply(row, held, view, now) = reject(NoOutcome(row), verdict)
      BY <1>9, <2>3 DEF apply
    <3> QED  BY <3>1, <2>3, <1>7, <1>3, <1>4
  <2> QED  BY <2>1, <2>2, <2>3
<1> QED  BY <1>8, <1>9

-----------------------------------------------------------------------------
(* What a settlement writes. *)

(* BackoffPolicy.next yields an instant for every attempt of the budget. *)
LEMMA NextAttemptFacts ==
  ASSUME NEW attempts \in 0..MaxAttempts, NEW now \in Nat, NEW deadline \in Nat
  PROVE  nextAttemptAt(attempts, now, deadline) \in Nat
<1>1. (IF attempts < 1 THEN 1 ELSE attempts) \in 1..MaxAttempts
  BY PolicyAssumption
<1>2. Backoff[IF attempts < 1 THEN 1 ELSE attempts] \in Nat
  BY <1>1, ServiceAssumption
<1> QED  BY <1>2 DEF nextAttemptAt

(* A settled row is a row, of the same operation. *)
LEMMA SettledFacts ==
  ASSUME NEW row \in TxnRow, NEW held \in WalletRow, NEW now \in Nat \ {0},
         NEW outcome, Sound(outcome, held, row.op)
  PROVE  /\ Settled(row, outcome, held, now) \in TxnRow
         /\ Settled(row, outcome, held, now).op = row.op
         /\ Settled(row, outcome, held, now).status = outcome.status
<1> DEFINE result == IF outcome.status = "PROCESSED"
                     THEN applyDirection(outcome.direction, held.balance, row.op.amount)
                     ELSE Nil
           next == IF outcome.status = "PENDING_REFERENCE"
                   THEN nextAttemptAt(outcome.attempts, now, outcome.deadline) ELSE 0
<1>1. outcome \in Outcomes  BY DEF Sound
<1>2. result \in Amounts \cup {Nil}  BY DEF Sound
<1>3. next \in Nat  BY <1>1, NextAttemptFacts DEF Outcomes
<1>4. /\ outcome.status \in Statuses /\ outcome.code \in Codes \cup {Nil}
      /\ outcome.resolved \in Nat /\ outcome.attempts \in 0..MaxAttempts
      /\ outcome.deadline \in Nat
  BY <1>1 DEF Outcomes
<1> HIDE DEF result, next
<1>5. Settled(row, outcome, held, now) =
        [row EXCEPT !.status = outcome.status, !.code = outcome.code,
                    !.resolved = outcome.resolved, !.attempts = outcome.attempts,
                    !.deadline = outcome.deadline, !.result = result,
                    !.nextAttempt = next, !.updatedAt = now]
  BY DEF Settled, result, next
<1> QED  BY <1>2, <1>3, <1>4, <1>5 DEF TxnRow

(* Waking the rows that wait changes no row's operation. *)
LEMMA MakeDueFacts ==
  ASSUME NEW rows \in Seq(TxnRow), NEW op, NEW now \in Nat
  PROVE  /\ MakeDue(rows, op, now) \in Seq(TxnRow)
         /\ Len(MakeDue(rows, op, now)) = Len(rows)
         /\ \A j \in 1..Len(rows) : MakeDue(rows, op, now)[j].op = rows[j].op
<1> DEFINE due == MakeDue(rows, op, now)
<1>1. Len(rows) \in Nat /\ DOMAIN rows = 1..Len(rows)  BY LenProperties
<1>2. \A j \in 1..Len(rows) : rows[j] \in TxnRow  BY ElementOfSeq
<1>3. \A row \in TxnRow : /\ [row EXCEPT !.nextAttempt = now] \in TxnRow
                          /\ [row EXCEPT !.nextAttempt = now].op = row.op
  BY DEF TxnRow
<1>4. DOMAIN due = 1..Len(rows)  BY <1>1 DEF MakeDue
<1>5. ASSUME NEW j \in 1..Len(rows)
      PROVE  due[j] \in TxnRow /\ due[j].op = rows[j].op
  <2>1. due[j] = rows[j] \/ due[j] = [rows[j] EXCEPT !.nextAttempt = now]
    BY <1>1 DEF MakeDue
  <2> QED  BY <2>1, <1>2, <1>3
<1>6. due \in [1..Len(rows) -> TxnRow]
  <2>1. due = [j \in 1..Len(rows) |-> due[j]]  BY <1>1 DEF MakeDue
  <2> HIDE DEF due
  <2> QED  BY <2>1, <1>5
<1>7. due \in Seq(TxnRow)  BY <1>1, <1>6, SeqDef
<1> HIDE DEF due
<1>8. Len(due) = Len(rows)  BY <1>1, <1>4, <1>7, LenProperties
<1> QED  BY <1>5, <1>7, <1>8 DEF due

(* Writing row i keeps the operation of every row there was. *)
LEMMA WriteFacts ==
  ASSUME txns \in Seq(TxnRow), NEW i \in 1..Len(txns) + 1, NEW row \in TxnRow,
         NEW now \in Nat, i \in 1..Len(txns) => txns[i].op = row.op
  PROVE  /\ Write(i, row, now) \in Seq(TxnRow)
         /\ Len(Write(i, row, now)) >= Len(txns)
         /\ \A j \in 1..Len(txns) : Write(i, row, now)[j].op = txns[j].op
         /\ \A j \in 1..Len(Write(i, row, now)) :
              j \notin 1..Len(txns) => Write(i, row, now)[j].op = row.op
<1> DEFINE written == IF i = Len(txns) + 1 THEN Append(txns, row)
                                           ELSE [txns EXCEPT ![i] = row]
<1>1. Len(txns) \in Nat  BY LenProperties
<1>2. /\ written \in Seq(TxnRow) /\ Len(written) >= Len(txns)
      /\ \A j \in 1..Len(txns) : written[j].op = txns[j].op
      /\ \A j \in 1..Len(written) : j \notin 1..Len(txns) => written[j].op = row.op
  <2>1. CASE i = Len(txns) + 1
    BY <2>1, <1>1, AppendProperties
  <2>2. CASE i # Len(txns) + 1
    <3>1. i \in 1..Len(txns) /\ written = [txns EXCEPT ![i] = row]  BY <2>2, <1>1
    <3>2. /\ written \in Seq(TxnRow) /\ Len(written) = Len(txns)
          /\ \A j \in 1..Len(txns) : written[j] = IF j = i THEN row ELSE txns[j]
      BY <3>1, ExceptSeq
    <3> QED  BY <3>1, <3>2
  <2> QED  BY <2>1, <2>2
<1>3. Write(i, row, now) = IF row.status = "PROCESSED" THEN MakeDue(written, row.op, now)
                                                       ELSE written
  BY DEF Write
<1> HIDE DEF written
<1>4. CASE row.status = "PROCESSED"
  <2>1. Write(i, row, now) = MakeDue(written, row.op, now)  BY <1>3, <1>4
  <2>2. Len(written) \in Nat  BY <1>2, LenProperties
  <2>3. /\ MakeDue(written, row.op, now) \in Seq(TxnRow)
        /\ Len(MakeDue(written, row.op, now)) = Len(written)
        /\ \A j \in 1..Len(written) : MakeDue(written, row.op, now)[j].op = written[j].op
    BY <1>2, MakeDueFacts
  <2> QED  BY <2>1, <2>2, <2>3, <1>1, <1>2
<1>5. CASE row.status # "PROCESSED"
  BY <1>2, <1>3, <1>5
<1> QED  BY <1>4, <1>5

(* What a session reads of the reference it names is a view of a row. *)
LEMMA ReferenceForFacts ==
  ASSUME txns \in Seq(TxnRow), NEW op
  PROVE  /\ ReferenceFor(op) \in View \cup {Nil}
         /\ (\E i \in DOMAIN txns : /\ op.ref # Nil
                                   /\ txns[i].op.provider = op.provider
                                   /\ txns[i].op.ext = op.ref)
            => ReferenceFor(op) \in View
<1> DEFINE named == {i \in DOMAIN txns : /\ op.ref # Nil
                                         /\ txns[i].op.provider = op.provider
                                         /\ txns[i].op.ext = op.ref}
           id == CHOOSE i \in named : TRUE
<1>1. DOMAIN txns = 1..Len(txns) /\ Len(txns) \in Nat  BY LenProperties
<1>2. \A j \in DOMAIN txns : txns[j] \in TxnRow  BY <1>1, ElementOfSeq
<1>3. CASE named = {}
  BY <1>3 DEF ReferenceFor
<1>4. CASE named # {}
  <2>1. id \in DOMAIN txns  BY <1>4
  <2>2. \A j \in DOMAIN txns : txns[j].op.kind \in Kinds
    BY <1>2, RowOperationFacts DEF TxnRow
  <2>3. ReversalsOf(id) \in SUBSET [kind : Kinds, reversed : BOOLEAN]
    <3>1. ASSUME NEW j \in DOMAIN txns
          PROVE  [kind |-> txns[j].op.kind, reversed |-> ~\E a \in active : a.reversal = j]
                   \in [kind : Kinds, reversed : BOOLEAN]
      BY <2>2, Zenon
    <3> QED  BY <3>1, Zenon DEF ReversalsOf
  <2> HIDE DEF id, named
  <2>4. [id |-> id, op |-> txns[id].op, status |-> txns[id].status,
         reversals |-> ReversalsOf(id)] \in View
    BY <2>1, <2>3, <1>1, <1>2 DEF View, TxnRow
  <2> QED  BY <2>4, <1>4 DEF ReferenceFor, id, named
<1> QED  BY <1>3, <1>4

(* The row a submission inserts. *)
LEMMA SubmittedRowFacts ==
  ASSUME NEW op \in RowOperations, NEW now \in Nat \ {0}
  PROVE  /\ NewExternalTransaction(op, now) \in TxnRow
         /\ NewExternalTransaction(op, now).op = op
BY PolicyAssumption DEF NewExternalTransaction, TxnRow, Statuses

(* The events of a settlement. *)
LEMMA EventFacts ==
  ASSUME NEW i \in Nat \ {0}, NEW row, NEW outcome
  PROVE  EventsOf(i, row, outcome) \in Seq(EventRow)
<1>1. \A type \in {"Processed", "BalanceChanged", "Rejected", "PendingReference"} :
        [type |-> type, tx |-> i] \in EventRow
  BY DEF EventRow
<1> QED  BY <1>1 DEF EventsOf

-----------------------------------------------------------------------------
(* The inductive invariant. *)

SubmitPcs == {"findInbox", "recordInbox", "byKey", "byExternal", "lock", "record", "settle"}
ResumePcs == {"claimLock", "claim", "resume"}

(* A session works for a delivery or for a row, on that one's wallet. *)
Attached(x, rows) ==
  /\ x.pc \in SubmitPcs \cup {"duplicate"} => x.request \in Deliveries
  /\ x.pc \in SubmitPcs => x.wallet = x.request.op.wallet
  /\ x.pc \in ResumePcs => /\ x.cand \in 1..Len(rows)
                           /\ x.wallet = rows[x.cand].op.wallet
  /\ x.pc \in {"settle"} \cup ResumePcs => x.now # 0

SessionsAttached == \A s \in Sessions : Attached(sess[s], txns)

(* The foreign key of wager_transaction on wallet. *)
RowsHaveWallets == \A i \in 1..Len(txns) : wallets[txns[i].op.wallet] # Nil

IInv ==
  /\ TypeOK
  /\ SessionsAttached
  /\ RowsHaveWallets
  /\ HeldIsCurrent
  /\ WalletMatchesLedger

(* Initially nothing is open and nothing has been written. *)
LEMMA InitEstablishesIInv == Init => IInv
<1> SUFFICES ASSUME Init PROVE IInv  OBVIOUS
<1>1. Idle \in Session
  BY DEF Idle, Session
<1>2. TypeOK
  BY <1>1 DEF Init, TypeOK
<1>3. \A s \in Sessions : sess[s] = Idle
  BY DEF Init
<1>4. SessionsAttached /\ HeldIsCurrent
  BY <1>3 DEF SessionsAttached, Attached, HeldIsCurrent, Idle, SubmitPcs, ResumePcs, Locked
<1>5. RowsHaveWallets /\ WalletMatchesLedger
  BY DEF Init, RowsHaveWallets, WalletMatchesLedger
<1> QED  BY <1>2, <1>4, <1>5 DEF IInv

(* A session that holds a lock has the wallet in hand. *)
LEMMA HeldFacts ==
  ASSUME IInv, NEW s \in Sessions, sess[s].pc \in Locked
  PROVE  /\ sess[s].wallet \in Wallets
         /\ sess[s].held \in WalletRow
         /\ sess[s].held = wallets[sess[s].wallet]
         /\ \A t \in Sessions \ {s} : ~HoldsLock(t, sess[s].wallet)
<1>1. sess[s] \in Session  BY DEF IInv, TypeOK
<1>2. sess[s].held # Nil /\ sess[s].held = wallets[sess[s].wallet]
  BY DEF IInv, HeldIsCurrent
<1>3. sess[s].held \in WalletRow  BY <1>1, <1>2 DEF Session
<1>4. sess[s].wallet \in Wallets
  <2>1. CASE sess[s].pc \in SubmitPcs
    <3>1. sess[s].request \in Deliveries /\ sess[s].wallet = sess[s].request.op.wallet
      BY <2>1 DEF IInv, SessionsAttached, Attached
    <3> QED  BY <3>1, ServiceAssumption DEF Operations
  <2>2. CASE sess[s].pc \in ResumePcs
    <3>1. /\ sess[s].cand \in 1..Len(txns)
          /\ sess[s].wallet = txns[sess[s].cand].op.wallet
      BY <2>2 DEF IInv, SessionsAttached, Attached
    <3>2. txns[sess[s].cand] \in TxnRow
      BY <3>1, ElementOfSeq DEF IInv, TypeOK
    <3> QED  BY <3>1, <3>2, RowOperationFacts DEF TxnRow
  <2> QED  BY <2>1, <2>2 DEF Locked, SubmitPcs, ResumePcs
<1> QED  BY <1>2, <1>3, <1>4 DEF IInv, HeldIsCurrent

(* A step of one session that writes no wallet, row, entry, reversal or event. *)
LEMMA QuietStep ==
  ASSUME IInv, NEW s \in Sessions, NEW x \in Session,
         sess' = [sess EXCEPT ![s] = x],
         Attached(x, txns),
         x.pc \in Locked => /\ x.held # Nil /\ x.held = wallets[x.wallet]
                            /\ \A t \in Sessions \ {s} : ~HoldsLock(t, x.wallet),
         UNCHANGED <<wallets, txns, ledger, active, outbox, clock>>,
         inbox' \in [Messages -> Operations \cup {Nil}],
         acks' \in [Operations -> SUBSET (Nat \ {0})]
  PROVE  IInv'
<1>1. sess \in [Sessions -> Session]  BY DEF IInv, TypeOK
<1>2. /\ sess'[s] = x
      /\ \A t \in Sessions \ {s} : sess'[t] = sess[t]
  BY <1>1
<1>3. TypeOK'
  BY <1>1 DEF IInv, TypeOK
<1>4. SessionsAttached'
  BY <1>2 DEF IInv, SessionsAttached, Attached
<1>5. RowsHaveWallets'
  BY DEF IInv, RowsHaveWallets
<1>6. HeldIsCurrent'
  BY <1>2 DEF IInv, HeldIsCurrent, HoldsLock
<1>7. WalletMatchesLedger'
  BY DEF IInv, WalletMatchesLedger, LastEntry
<1> QED  BY <1>3, <1>4, <1>5, <1>6, <1>7 DEF IInv

(* The end of a transaction that wrote nothing, or only its inbox row. *)
LEMMA FinishStep ==
  ASSUME IInv, NEW s \in Sessions, Finish(s),
         UNCHANGED <<wallets, txns, ledger, active, outbox, clock>>,
         inbox' \in [Messages -> Operations \cup {Nil}],
         acks' \in [Operations -> SUBSET (Nat \ {0})]
  PROVE  IInv'
<1>1. Idle \in Session /\ Attached(Idle, txns) /\ Idle.pc \notin Locked
  BY DEF Idle, Session, Attached, SubmitPcs, ResumePcs, Locked
<1>2. sess' = [sess EXCEPT ![s] = Idle]  BY DEF Finish
<1> HIDE DEF Idle
<1> QED  BY <1>1, <1>2, QuietStep

-----------------------------------------------------------------------------
(* Steps that write. *)

(* An entry made from the wallet as it is continues the wallet's ledger. *)
LEMMA LedgerContinues ==
  ASSUME WalletMatchesLedger, NEW w \in Wallets,
         wallets \in [Wallets -> WalletRow \cup {Nil}],
         ledger \in [Wallets -> Seq(LedgerRow)],
         NEW entry \in LedgerRow, NEW row \in WalletRow,
         entry.before = IF wallets[w] = Nil THEN 0 ELSE wallets[w].balance,
         wallets[w] # Nil => entry.version = wallets[w].version + 1,
         entry.after = applyDirection(entry.direction, entry.before, entry.amount),
         row.balance = entry.after, row.version = entry.version,
         wallets' = [wallets EXCEPT ![w] = row],
         ledger' = [ledger EXCEPT ![w] = Append(@, entry)]
  PROVE  WalletMatchesLedger'
<1> DEFINE old == ledger[w]
           new == Append(old, entry)
<1>1. old \in Seq(LedgerRow) /\ Len(old) \in Nat /\ ledger'[w] = new /\ wallets'[w] = row
  BY LenProperties
<1>2. /\ Len(new) = Len(old) + 1 /\ new # <<>> /\ new[Len(old) + 1] = entry
      /\ \A k \in 1..Len(old) : new[k] = old[k]
  BY <1>1, AppendProperties
<1>3. row # Nil  BY NilAssumption
<1>4. old # <<>> => /\ Len(old) > 0 /\ wallets[w] # Nil
                    /\ old[Len(old)].after = entry.before
                    /\ entry.version = old[Len(old)].version + 1
  <2>1. old # <<>> => Len(old) > 0  BY <1>1, EmptySeq
  <2> QED  BY <2>1 DEF WalletMatchesLedger, LastEntry
<1>5. old = <<>> => entry.before = 0 /\ Len(old) = 0
  BY DEF WalletMatchesLedger
<1>6. \A k \in 1..Len(old) :
        /\ old[k].after = applyDirection(old[k].direction, old[k].before, old[k].amount)
        /\ k = 1 => old[k].before = 0
        /\ k > 1 => /\ old[k].before = old[k - 1].after
                    /\ old[k].version = old[k - 1].version + 1
  <2>1. wallets[w] = Nil => old = <<>>  BY DEF WalletMatchesLedger
  <2> QED  BY <2>1 DEF WalletMatchesLedger
<1> HIDE DEF old, new
<1>7. \A k \in 1..Len(new) :
        /\ new[k].after = applyDirection(new[k].direction, new[k].before, new[k].amount)
        /\ k = 1 => new[k].before = 0
        /\ k > 1 => /\ new[k].before = new[k - 1].after
                    /\ new[k].version = new[k - 1].version + 1
  <2> TAKE k \in 1..Len(new)
  <2>1. CASE k = Len(old) + 1
    <3>1. new[k] = entry  BY <2>1, <1>2
    <3>2. k = 1 => entry.before = 0
      BY <2>1, <1>1, <1>4, <1>5
    <3>3. k > 1 => /\ old # <<>> /\ k - 1 = Len(old) /\ new[k - 1] = old[Len(old)]
      BY <2>1, <1>1, <1>2, <1>5
    <3> QED  BY <3>1, <3>2, <3>3, <1>4
  <2>2. CASE k \in 1..Len(old)
    <3>1. new[k] = old[k]  BY <2>2, <1>2
    <3>2. k > 1 => k - 1 \in 1..Len(old)  BY <2>2, <1>1
    <3>3. k > 1 => new[k - 1] = old[k - 1]  BY <3>2, <1>2
    <3> QED  BY <3>1, <3>3, <2>2, <1>6
  <2> QED  BY <2>1, <2>2, <1>1, <1>2
<1>8. new[Len(new)] = entry  BY <1>1, <1>2
<1>9. ASSUME NEW v \in Wallets, v # w
      PROVE  wallets'[v] = wallets[v] /\ ledger'[v] = ledger[v]
  BY <1>9
<1> SUFFICES ASSUME NEW v \in Wallets
             PROVE  WalletMatchesLedger!(v)'
  BY DEF WalletMatchesLedger
<1>10. CASE v = w
  BY <1>10, <1>1, <1>2, <1>3, <1>7, <1>8 DEF LastEntry
<1>11. CASE v # w
  BY <1>11, <1>9 DEF WalletMatchesLedger, LastEntry
<1> QED  BY <1>10, <1>11

(* The end of a transaction that wrote rows: the sessions that are left are *)
(* still attached, since no row changes its operation.                      *)
LEMMA AttachedAfterWrite ==
  ASSUME IInv, NEW s \in Sessions, Finish(s),
         txns' \in Seq(TxnRow), Len(txns') >= Len(txns),
         \A j \in 1..Len(txns) : txns'[j].op = txns[j].op
  PROVE  SessionsAttached' /\ sess' \in [Sessions -> Session]
<1>1. sess \in [Sessions -> Session] /\ sess' = [sess EXCEPT ![s] = Idle]
  BY DEF IInv, TypeOK, Finish
<1>2. Idle \in Session /\ Attached(Idle, txns')
  BY DEF Idle, Session, Attached, SubmitPcs, ResumePcs
<1>3. Len(txns) \in Nat /\ Len(txns') \in Nat  BY LenProperties DEF IInv, TypeOK
<1>4. \A t \in Sessions \ {s} : sess'[t] = sess[t] /\ Attached(sess[t], txns)
  BY <1>1 DEF IInv, SessionsAttached
<1>5. \A t \in Sessions \ {s} : Attached(sess[t], txns')
  BY <1>3, <1>4 DEF Attached
<1>6. sess'[s] = Idle /\ sess' \in [Sessions -> Session]  BY <1>1, <1>2
<1> QED  BY <1>2, <1>4, <1>5, <1>6 DEF SessionsAttached

(* A settlement: Settle with a new row, Resume with the one it claimed. *)
LEMMA CommitStep ==
  ASSUME IInv, NEW s \in Sessions, sess[s].pc \in {"settle", "resume"},
         NEW i \in 1..Len(txns) + 1, NEW row \in TxnRow,
         row.op.wallet = sess[s].wallet,
         i \in 1..Len(txns) => txns[i].op = row.op,
         commitOutcome(sess[s].wallet, i, row,
                       apply(row, sess[s].held, sess[s].view, sess[s].now),
                       sess[s].held, sess[s].now),
         Finish(s), clock' = clock,
         inbox' \in [Messages -> Operations \cup {Nil}],
         acks' \in [Operations -> SUBSET (Nat \ {0})]
  PROVE  IInv'
<1> DEFINE w == sess[s].wallet
           held == sess[s].held
           now == sess[s].now
           outcome == apply(row, held, sess[s].view, now)
           settled == Settled(row, outcome, held, now)
           entry == Entry(i, row, outcome, held)
<1>1. /\ w \in Wallets /\ held \in WalletRow /\ held = wallets[w]
      /\ \A t \in Sessions \ {s} : ~HoldsLock(t, w)
  BY HeldFacts DEF Locked
<1>2. sess[s].view \in View \cup {Nil} /\ now \in Nat \ {0}
  <2>1. sess[s] \in Session  BY DEF IInv, TypeOK
  <2>2. now # 0  BY DEF IInv, SessionsAttached, Attached, ResumePcs
  <2> QED  BY <2>1, <2>2 DEF Session
<1>3. Sound(outcome, held, row.op)
  BY <1>1, <1>2, ApplySound
<1>4. txns \in Seq(TxnRow) /\ Len(txns) \in Nat /\ i \in Nat \ {0}
  BY LenProperties DEF IInv, TypeOK
<1>5. settled \in TxnRow /\ settled.op = row.op
  BY <1>1, <1>2, <1>3, SettledFacts
<1>6. /\ txns' = Write(i, settled, now)
      /\ active' = maintainActiveReversal(i, settled)
      /\ wallets' = IF outcome.direction # Nil
                    THEN [wallets EXCEPT ![w] = Moved(held, entry, now)] ELSE wallets
      /\ ledger' = IF outcome.direction # Nil
                   THEN [ledger EXCEPT ![w] = Append(@, entry)] ELSE ledger
      /\ outbox' = [outbox EXCEPT ![w] = @ \o EventsOf(i, settled, outcome)]
  BY DEF commitOutcome
<1> HIDE DEF outcome, settled, entry
<1>7. /\ txns' \in Seq(TxnRow) /\ Len(txns') >= Len(txns)
      /\ \A j \in 1..Len(txns) : txns'[j].op = txns[j].op
      /\ \A j \in 1..Len(txns') : j \notin 1..Len(txns) => txns'[j].op = row.op
  <2>1. i \in 1..Len(txns) => txns[i].op = settled.op  BY <1>5
  <2> QED  BY <2>1, <1>2, <1>4, <1>5, <1>6, WriteFacts
<1>8. SessionsAttached' /\ sess' \in [Sessions -> Session]
  BY <1>7, AttachedAfterWrite
<1>9. active' \in SUBSET ActiveRow
  <2>1. settled.resolved \in Nat  BY <1>5 DEF TxnRow
  <2>2. active \in SUBSET ActiveRow  BY DEF IInv, TypeOK
  <2>3. IsSettledReversal(settled) => settled.op.kind \in {"REFUND", "ROLLBACK"}
    BY DEF IsSettledReversal, IsReversal
  <2>4. IsSettledReversal(settled) =>
          [reference |-> settled.resolved, reversal |-> i, kind |-> settled.op.kind] \in ActiveRow
    BY <2>1, <2>3, <1>4 DEF ActiveRow
  <2> QED  BY <2>2, <2>4, <1>6 DEF maintainActiveReversal
<1>10. outbox' \in [Wallets -> Seq(EventRow)]
  <2>1. outbox \in [Wallets -> Seq(EventRow)]  BY DEF IInv, TypeOK
  <2>2. EventsOf(i, settled, outcome) \in Seq(EventRow)  BY <1>4, EventFacts
  <2>3. outbox[w] \o EventsOf(i, settled, outcome) \in Seq(EventRow)
    BY <2>1, <2>2, <1>1, ConcatProperties
  <2> QED  BY <2>1, <2>3, <1>6
<1>11. /\ wallets' \in [Wallets -> WalletRow \cup {Nil}]
       /\ ledger' \in [Wallets -> Seq(LedgerRow)]
       /\ WalletMatchesLedger'
       /\ \A v \in Wallets : v # w => wallets'[v] = wallets[v]
       /\ wallets'[w] # Nil
  <2>1. wallets \in [Wallets -> WalletRow \cup {Nil}] /\ ledger \in [Wallets -> Seq(LedgerRow)]
    BY DEF IInv, TypeOK
  <2>2. CASE outcome.direction = Nil
    <3>1. wallets' = wallets /\ ledger' = ledger  BY <2>2, <1>6
    <3>2. wallets[w] # Nil  BY <1>1, NilAssumption
    <3>3. WalletMatchesLedger'  BY <3>1 DEF IInv, WalletMatchesLedger, LastEntry
    <3> QED  BY <3>1, <3>2, <3>3, <2>1
  <2>3. CASE outcome.direction # Nil
    <3>1. entry \in LedgerRow
      <4>1. outcome.direction \in {"CREDIT", "DEBIT"}  BY <2>3, <1>3 DEF Sound, Outcomes
      <4>2. row.op.amount \in Amounts  BY RowOperationFacts DEF TxnRow
      <4>3. applyDirection(outcome.direction, held.balance, row.op.amount) \in Amounts
        BY <2>3, <1>3 DEF Sound
      <4>4. held.balance \in Amounts /\ held.version + 1 \in Nat \ {0}
        BY <1>1 DEF WalletRow
      <4> QED  BY <4>1, <4>2, <4>3, <4>4, <1>4 DEF entry, Entry, LedgerRow
    <3>2. /\ entry.before = held.balance /\ entry.version = held.version + 1
          /\ entry.after = applyDirection(entry.direction, entry.before, entry.amount)
      BY DEF entry, Entry
    <3>3. /\ Moved(held, entry, now) \in WalletRow
          /\ Moved(held, entry, now).balance = entry.after
          /\ Moved(held, entry, now).version = entry.version
      BY <3>1, <1>1, <1>2 DEF Moved, WalletRow, LedgerRow
    <3>4. wallets[w] # Nil  BY <1>1, NilAssumption
    <3>5. /\ wallets' = [wallets EXCEPT ![w] = Moved(held, entry, now)]
          /\ ledger' = [ledger EXCEPT ![w] = Append(@, entry)]
      BY <2>3, <1>6
    <3> DEFINE moved == Moved(held, entry, now)
    <3> HIDE DEF moved
    <3>6. WalletMatchesLedger'
      <4>1. entry.before = IF wallets[w] = Nil THEN 0 ELSE wallets[w].balance
        BY <3>2, <3>4, <1>1
      <4>2. wallets[w] # Nil => entry.version = wallets[w].version + 1
        BY <3>2, <1>1
      <4>3. WalletMatchesLedger  BY DEF IInv
      <4> QED  BY <4>1, <4>2, <4>3, <3>1, <3>2, <3>3, <3>5, <2>1, <1>1, LedgerContinues
    <3>7. Append(ledger[w], entry) \in Seq(LedgerRow)
      BY <3>1, <2>1, <1>1, AppendProperties
    <3> QED  BY <3>3, <3>5, <3>6, <3>7, <2>1, <1>1, NilAssumption
  <2> QED  BY <2>2, <2>3
<1>12. RowsHaveWallets'
  <2> SUFFICES ASSUME NEW j \in 1..Len(txns')
               PROVE  wallets'[txns'[j].op.wallet] # Nil
    BY DEF RowsHaveWallets
  <2>1. CASE j \in 1..Len(txns)
    <3>1. txns[j] \in TxnRow  BY <2>1, <1>4, ElementOfSeq
    <3>2. txns[j].op.wallet \in Wallets  BY <3>1, RowOperationFacts DEF TxnRow
    <3>3. wallets[txns[j].op.wallet] # Nil  BY <2>1 DEF IInv, RowsHaveWallets
    <3> QED  BY <2>1, <3>2, <3>3, <1>7, <1>11
  <2>2. CASE j \notin 1..Len(txns)
    BY <2>2, <1>7, <1>11
  <2> QED  BY <2>1, <2>2
<1>13. HeldIsCurrent'
  <2>1. sess' = [sess EXCEPT ![s] = Idle] /\ sess \in [Sessions -> Session]
    BY DEF Finish, IInv, TypeOK
  <2>2. sess'[s].pc \notin Locked  BY <2>1 DEF Idle, Locked
  <2>3. \A t \in Sessions \ {s} : sess'[t] = sess[t]  BY <2>1
  <2>4. ASSUME NEW t \in Sessions \ {s}, sess[t].pc \in Locked
        PROVE  wallets'[sess[t].wallet] = wallets[sess[t].wallet]
    <3>1. sess[t].wallet # w  BY <2>4, <1>1 DEF HoldsLock
    <3>2. sess[t].wallet \in Wallets  BY <2>4, HeldFacts
    <3> QED  BY <3>1, <3>2, <1>11
  <2> QED  BY <2>2, <2>3, <2>4 DEF IInv, HeldIsCurrent, HoldsLock
<1>14. TypeOK'
  BY <1>7, <1>8, <1>9, <1>10, <1>11 DEF IInv, TypeOK
<1> QED  BY <1>8, <1>11, <1>12, <1>13, <1>14 DEF IInv

-----------------------------------------------------------------------------
(* Every step preserves the invariant. *)

(* What a delivery asks for is an operation of the model. *)
LEMMA DeliveryFacts ==
  ASSUME NEW d \in Deliveries
  PROVE  /\ d.op \in Operations /\ d.op \in RowOperations /\ d.op.wallet \in Wallets
         /\ d.msg \in Messages \cup {Nil}
BY ServiceAssumption DEF Operations, RowOperations

(* The tables of the callers: the inbox and the answers stay well typed. *)
LEMMA CommitInboxFacts ==
  ASSUME TypeOK, NEW d \in Deliveries, CommitInbox(d)
  PROVE  inbox' \in [Messages -> Operations \cup {Nil}]
<1>1. inbox \in [Messages -> Operations \cup {Nil}]  BY DEF TypeOK
<1>2. d.op \in Operations /\ d.msg \in Messages \cup {Nil}  BY DeliveryFacts
<1> QED  BY <1>1, <1>2 DEF CommitInbox

(* An answer adds a row to what the callers of an operation know. *)
LEMMA AnswerFacts ==
  ASSUME TypeOK, NEW op \in Operations, NEW i \in Nat \ {0}, Answer(op, i)
  PROVE  acks' \in [Operations -> SUBSET (Nat \ {0})]
<1>1. acks \in [Operations -> SUBSET (Nat \ {0})]  BY DEF TypeOK
<1>2. acks[op] \cup {i} \in SUBSET (Nat \ {0})  BY <1>1
<1> QED  BY <1>1, <1>2 DEF Answer

(* Wagering.Submit up to the wallet lock: nothing is written but the answer *)
(* of a replay, and the inbox row that commits with it.                      *)
LEMMA SubmitPreserves ==
  ASSUME IInv, NEW s \in Submitters, NEW d \in Deliveries, Submit(s, d)
  PROVE  IInv'
<1> DEFINE x == [Idle EXCEPT !.pc = IF d.msg = Nil THEN "byKey" ELSE "findInbox",
                             !.request = d, !.wallet = d.op.wallet]
<1>1. s \in Sessions  BY DEF Sessions
<1>2. x \in Session /\ Attached(x, txns) /\ x.pc \notin Locked
  <2>1. d.op.wallet \in Wallets  BY DeliveryFacts
  <2>2. Idle \in Session  BY DEF Idle, Session
  <2>3. /\ x \in Session /\ x.request = d /\ x.wallet = d.op.wallet
        /\ x.pc \in {"byKey", "findInbox"}
    BY <2>1, <2>2 DEF Session
  <2> HIDE DEF x
  <2> QED  BY <2>3 DEF Attached, SubmitPcs, ResumePcs, Locked
<1>3. sess' = [sess EXCEPT ![s] = x]  BY DEF Submit
<1>4. /\ UNCHANGED <<wallets, txns, ledger, active, outbox, clock>>
      /\ inbox' = inbox /\ acks' = acks
  BY DEF Submit, db
<1>5. /\ inbox' \in [Messages -> Operations \cup {Nil}]
      /\ acks' \in [Operations -> SUBSET (Nat \ {0})]
  BY <1>4 DEF IInv, TypeOK
<1> HIDE DEF x
<1> QED  BY <1>1, <1>2, <1>3, <1>4, <1>5, QuietStep

(* A step that only moves a session on, or ends it. *)
LEMMA MoveOn ==
  ASSUME IInv, NEW s \in Sessions,
         NEW next \in {"recordInbox", "byKey", "byExternal", "lock"},
         sess[s].pc \in SubmitPcs, Goto(s, next), UNCHANGED <<db, clock, acks>>
  PROVE  IInv'
<1> DEFINE x == [sess[s] EXCEPT !.pc = next]
<1>1. sess \in [Sessions -> Session] /\ sess[s] \in Session  BY DEF IInv, TypeOK
<1>2. x \in Session /\ x.pc \notin Locked  BY <1>1 DEF Session, Locked
<1>3. Attached(x, txns)
  <2>1. Attached(sess[s], txns)  BY DEF IInv, SessionsAttached
  <2>2. x.request = sess[s].request /\ x.wallet = sess[s].wallet /\ x.pc = next
    BY <1>1 DEF Session
  <2> HIDE DEF x
  <2> QED  BY <2>1, <2>2 DEF Attached, SubmitPcs, ResumePcs
<1>4. sess' = [sess EXCEPT ![s] = x]  BY <1>1 DEF Goto
<1>5. /\ inbox' \in [Messages -> Operations \cup {Nil}]
      /\ acks' \in [Operations -> SUBSET (Nat \ {0})]
      /\ UNCHANGED <<wallets, txns, ledger, active, outbox, clock>>
  BY DEF IInv, TypeOK, db
<1> HIDE DEF x
<1> QED  BY <1>2, <1>3, <1>4, <1>5, QuietStep

(* A transaction that ends without having written anything. *)
LEMMA EndQuietly ==
  ASSUME IInv, NEW s \in Sessions, Finish(s), UNCHANGED <<db, clock, acks>>
  PROVE  IInv'
<1>1. /\ inbox' \in [Messages -> Operations \cup {Nil}]
      /\ acks' \in [Operations -> SUBSET (Nat \ {0})]
      /\ UNCHANGED <<wallets, txns, ledger, active, outbox, clock>>
  BY DEF IInv, TypeOK, db
<1> QED  BY <1>1, FinishStep

(* FindInbox, RecordInbox, the two lookups and ResolveDuplicate. *)
LEMMA LookupsPreserve ==
  ASSUME IInv, NEW s \in Submitters,
         \/ FindInbox(s) \/ RecordInbox(s) \/ ReplayByKey(s) \/ ReplayByExternal(s)
         \/ ResolveDuplicate(s)
  PROVE  IInv'
<1>1. s \in Sessions  BY DEF Sessions
<1>2. txns \in Seq(TxnRow) /\ \A i \in DOMAIN txns : i \in Nat \ {0}
  BY LenProperties DEF IInv, TypeOK
<1>3. Attached(sess[s], txns)  BY <1>1 DEF IInv, SessionsAttached
<1>4. ASSUME NEW i \in DOMAIN txns, sess[s].pc \in SubmitPcs, replayOf(s, i)
      PROVE  IInv'
  <2>1. sess[s].request \in Deliveries  BY <1>3, <1>4 DEF Attached
  <2>2. /\ Finish(s) /\ UNCHANGED <<wallets, txns, ledger, active, outbox, clock>>
        /\ \/ CommitInbox(sess[s].request) /\ Answer(sess[s].request.op, i)
           \/ UNCHANGED <<inbox, acks>>
    BY <1>4 DEF replayOf
  <2>3. CASE CommitInbox(sess[s].request) /\ Answer(sess[s].request.op, i)
    <3>1. TypeOK /\ sess[s].request.op \in Operations  BY <2>1, DeliveryFacts DEF IInv
    <3>2. inbox' \in [Messages -> Operations \cup {Nil}]
      BY <2>1, <2>3, <3>1, CommitInboxFacts
    <3>3. acks' \in [Operations -> SUBSET (Nat \ {0})]
      BY <2>3, <3>1, <1>2, AnswerFacts
    <3> QED  BY <2>2, <3>2, <3>3, <1>1, FinishStep
  <2>4. CASE UNCHANGED <<inbox, acks>>
    BY <2>2, <2>4, <1>1, EndQuietly DEF db
  <2> QED  BY <2>2, <2>3, <2>4
<1>5. CASE FindInbox(s)
  <2>1. sess[s].pc \in SubmitPcs /\ UNCHANGED <<db, clock, acks>>
    BY <1>5 DEF FindInbox, SubmitPcs
  <2>2. Goto(s, "recordInbox") \/ Goto(s, "byKey") \/ Finish(s)
    BY <1>5 DEF FindInbox
  <2> QED  BY <2>1, <2>2, <1>1, MoveOn, EndQuietly
<1>6. CASE RecordInbox(s)
  <2>1. sess[s].pc \in SubmitPcs /\ UNCHANGED <<db, clock, acks>>
    BY <1>6 DEF RecordInbox, SubmitPcs
  <2>2. Goto(s, "byKey") \/ Finish(s)
    BY <1>6 DEF RecordInbox
  <2> QED  BY <2>1, <2>2, <1>1, MoveOn, EndQuietly
<1>7. CASE ReplayByKey(s)
  <2>1. sess[s].pc \in SubmitPcs  BY <1>7 DEF ReplayByKey, SubmitPcs
  <2>2. \/ \E i \in DOMAIN txns : replayOf(s, i)
        \/ Goto(s, "byExternal") /\ UNCHANGED <<db, clock, acks>>
    BY <1>7 DEF ReplayByKey, ByIdempotencyKey
  <2> QED  BY <2>1, <2>2, <1>1, <1>4, MoveOn
<1>8. CASE ReplayByExternal(s)
  <2>1. sess[s].pc \in SubmitPcs  BY <1>8 DEF ReplayByExternal, SubmitPcs
  <2>2. \/ \E i \in DOMAIN txns : replayOf(s, i)
        \/ Finish(s) /\ UNCHANGED <<db, clock, acks>>
        \/ Goto(s, "lock") /\ UNCHANGED <<db, clock, acks>>
    BY <1>8 DEF ReplayByExternal, ByExternal
  <2> QED  BY <2>1, <2>2, <1>1, <1>4, MoveOn, EndQuietly
<1>9. CASE ResolveDuplicate(s)
  <2>1. sess[s].request \in Deliveries  BY <1>3, <1>9 DEF Attached, ResolveDuplicate
  <2>2. Finish(s) /\ UNCHANGED <<db, clock>>  BY <1>9 DEF ResolveDuplicate
  <2>3. (\E i \in DOMAIN txns : Answer(sess[s].request.op, i)) \/ UNCHANGED acks
    <3>1. /\ ByIdempotencyKey(sess[s].request.op) \subseteq DOMAIN txns
          /\ ByExternal(sess[s].request.op) \subseteq DOMAIN txns
      BY DEF ByIdempotencyKey, ByExternal
    <3> QED  BY <1>9, <3>1 DEF ResolveDuplicate
  <2>4. sess[s].request.op \in Operations /\ TypeOK  BY <2>1, DeliveryFacts DEF IInv
  <2>5. acks' \in [Operations -> SUBSET (Nat \ {0})]
    <3>1. CASE UNCHANGED acks  BY <3>1, <2>4 DEF TypeOK
    <3>2. CASE \E i \in DOMAIN txns : Answer(sess[s].request.op, i)
      BY <3>2, <2>4, <1>2, AnswerFacts
    <3> QED  BY <2>3, <3>1, <3>2
  <2>6. /\ inbox' \in [Messages -> Operations \cup {Nil}]
        /\ UNCHANGED <<wallets, txns, ledger, active, outbox, clock>>
    BY <2>2, <2>4 DEF TypeOK, db
  <2> QED  BY <2>2, <2>5, <2>6, <1>1, FinishStep
<1> QED  BY <1>5, <1>6, <1>7, <1>8, <1>9

(* Taking the wallet's row lock reads the wallet and finds nobody at it. *)
LEMMA TakeLock ==
  ASSUME IInv, NEW s \in Sessions,
         \/ sess[s].pc = "lock" /\ sess' = [sess EXCEPT ![s].pc = "record",
                                                        ![s].held = wallets[sess[s].wallet]]
         \/ sess[s].pc = "claimLock" /\ sess' = [sess EXCEPT ![s].pc = "claim",
                                                        ![s].held = wallets[sess[s].wallet]],
         sess[s].wallet \in Wallets, wallets[sess[s].wallet] # Nil, LockFree(sess[s].wallet),
         UNCHANGED <<db, clock, acks>>
  PROVE  IInv'
<1> DEFINE next == IF sess[s].pc = "lock" THEN "record" ELSE "claim"
           x == [sess[s] EXCEPT !.pc = next, !.held = wallets[sess[s].wallet]]
<1>1. sess \in [Sessions -> Session] /\ sess[s] \in Session  BY DEF IInv, TypeOK
<1>2. sess' = [sess EXCEPT ![s] = x]  BY <1>1
<1>3. wallets[sess[s].wallet] \in WalletRow \cup {Nil}  BY DEF IInv, TypeOK
<1>4. /\ x \in Session /\ x.pc = next /\ x.held = wallets[sess[s].wallet]
      /\ x.request = sess[s].request /\ x.wallet = sess[s].wallet
      /\ x.cand = sess[s].cand /\ x.now = sess[s].now
  BY <1>1, <1>3 DEF Session
<1> HIDE DEF x
<1>5. Attached(x, txns)
  <2>1. Attached(sess[s], txns)  BY DEF IInv, SessionsAttached
  <2> QED  BY <2>1, <1>4 DEF Attached, SubmitPcs, ResumePcs
<1>6. \A t \in Sessions : ~HoldsLock(t, x.wallet)  BY <1>4 DEF LockFree
<1>7. /\ inbox' \in [Messages -> Operations \cup {Nil}]
      /\ acks' \in [Operations -> SUBSET (Nat \ {0})]
      /\ UNCHANGED <<wallets, txns, ledger, active, outbox, clock>>
  BY DEF IInv, TypeOK, db
<1> QED  BY <1>2, <1>4, <1>5, <1>6, <1>7, QuietStep

(* A submission's LockByID finds the wallet free, or the submission ends. *)
LEMMA LockByIDPreserves ==
  ASSUME IInv, NEW s \in Submitters, LockByID(s)
  PROVE  IInv'
<1>1. s \in Sessions  BY DEF Sessions
<1>2. sess[s].pc = "lock" /\ UNCHANGED <<db, clock, acks>>  BY DEF LockByID
<1>3. sess[s].request \in Deliveries /\ sess[s].wallet = sess[s].request.op.wallet
  BY <1>1, <1>2 DEF IInv, SessionsAttached, Attached, SubmitPcs
<1>4. sess[s].wallet \in Wallets  BY <1>3, DeliveryFacts
<1>5. \/ Finish(s)
      \/ /\ wallets[sess[s].wallet] # Nil /\ LockFree(sess[s].wallet)
         /\ sess' = [sess EXCEPT ![s].pc = "record", ![s].held = wallets[sess[s].wallet]]
  BY <1>3 DEF LockByID
<1> QED  BY <1>1, <1>2, <1>4, <1>5, TakeLock, EndQuietly

(* The wallet a parked row names exists, so the worker can lock it. *)
LEMMA ResumeLockPreserves ==
  ASSUME IInv, NEW s \in Workers, ResumeLock(s)
  PROVE  IInv'
<1>1. s \in Sessions  BY DEF Sessions
<1>2. /\ sess[s].pc = "claimLock" /\ LockFree(sess[s].wallet) /\ UNCHANGED <<db, clock, acks>>
      /\ sess' = [sess EXCEPT ![s].pc = "claim", ![s].held = wallets[sess[s].wallet]]
  BY DEF ResumeLock
<1>3. sess[s].cand \in 1..Len(txns) /\ sess[s].wallet = txns[sess[s].cand].op.wallet
  BY <1>1, <1>2 DEF IInv, SessionsAttached, Attached, ResumePcs
<1>4. txns[sess[s].cand] \in TxnRow  BY <1>3, ElementOfSeq DEF IInv, TypeOK
<1>5. sess[s].wallet \in Wallets  BY <1>3, <1>4, RowOperationFacts DEF TxnRow
<1>6. wallets[sess[s].wallet] # Nil  BY <1>3 DEF IInv, RowsHaveWallets
<1> QED  BY <1>1, <1>2, <1>5, <1>6, TakeLock

(* A clock reading is an instant. *)
LEMMA ReadClockFacts ==
  ASSUME TypeOK, NEW now \in ReadClock
  PROVE  now \in Nat \ {0}
BY DEF TypeOK, ReadClock

(* Under the lock the clock and the reference are read, and the lock is kept. *)
LEMMA ReadUnderLock ==
  ASSUME IInv, NEW s \in Sessions, NEW now \in Nat \ {0}, NEW view \in View \cup {Nil},
         NEW next \in {"settle", "resume"},
         \/ sess[s].pc = "record" /\ next = "settle"
         \/ sess[s].pc = "claim" /\ next = "resume",
         sess' = [sess EXCEPT ![s] = [sess[s] EXCEPT !.pc = next, !.now = now, !.view = view]],
         UNCHANGED <<db, clock, acks>>
  PROVE  IInv'
<1> DEFINE x == [sess[s] EXCEPT !.pc = next, !.now = now, !.view = view]
<1>1. sess \in [Sessions -> Session] /\ sess[s] \in Session  BY DEF IInv, TypeOK
<1>2. /\ x \in Session /\ x.pc = next /\ x.now = now /\ x.held = sess[s].held
      /\ x.request = sess[s].request /\ x.wallet = sess[s].wallet /\ x.cand = sess[s].cand
  BY <1>1 DEF Session
<1>3. sess' = [sess EXCEPT ![s] = x]  OBVIOUS
<1> HIDE DEF x
<1>4. Attached(x, txns)
  <2>1. Attached(sess[s], txns)  BY DEF IInv, SessionsAttached
  <2> QED  BY <2>1, <1>2 DEF Attached, SubmitPcs, ResumePcs
<1>5. /\ x.held # Nil /\ x.held = wallets[x.wallet]
      /\ \A t \in Sessions \ {s} : ~HoldsLock(t, x.wallet)
  BY <1>2 DEF IInv, HeldIsCurrent, Locked
<1>6. /\ inbox' \in [Messages -> Operations \cup {Nil}]
      /\ acks' \in [Operations -> SUBSET (Nat \ {0})]
      /\ UNCHANGED <<wallets, txns, ledger, active, outbox, clock>>
  BY DEF IInv, TypeOK, db
<1> QED  BY <1>2, <1>3, <1>4, <1>5, <1>6, QuietStep

(* The insert keeps the lock, or gives it up with the whole transaction. *)
LEMMA RecordPreserves ==
  ASSUME IInv, NEW s \in Submitters, Record(s)
  PROVE  IInv'
<1> DEFINE d == sess[s].request
           dup == [Idle EXCEPT !.pc = "duplicate", !.request = d]
<1>1. s \in Sessions  BY DEF Sessions
<1>2. sess \in [Sessions -> Session] /\ sess[s].pc = "record" /\ UNCHANGED <<db, clock, acks>>
  BY DEF Record, IInv, TypeOK
<1>3. \/ sess' = [sess EXCEPT ![s] = dup]
      \/ \E now \in ReadClock :
           sess' = [sess EXCEPT ![s].pc = "settle", ![s].now = now,
                                ![s].view = ReferenceFor(d.op)]
  BY DEF Record
<1>4. CASE sess' = [sess EXCEPT ![s] = dup]
  <2>1. d \in Deliveries  BY <1>1, <1>2 DEF IInv, SessionsAttached, Attached, SubmitPcs
  <2>2. Idle \in Session  BY DEF Idle, Session
  <2>3. dup \in Session /\ dup.pc = "duplicate" /\ dup.request = d
    BY <2>1, <2>2 DEF Session
  <2> HIDE DEF dup
  <2>4. Attached(dup, txns) /\ dup.pc \notin Locked
    BY <2>1, <2>3 DEF Attached, SubmitPcs, ResumePcs, Locked
  <2>5. /\ inbox' \in [Messages -> Operations \cup {Nil}]
        /\ acks' \in [Operations -> SUBSET (Nat \ {0})]
        /\ UNCHANGED <<wallets, txns, ledger, active, outbox, clock>>
    BY <1>2 DEF IInv, TypeOK, db
  <2> QED  BY <1>1, <1>4, <2>3, <2>4, <2>5, QuietStep
<1>5. CASE \E now \in ReadClock :
             sess' = [sess EXCEPT ![s].pc = "settle", ![s].now = now,
                                  ![s].view = ReferenceFor(d.op)]
  <2>1. PICK now \in ReadClock :
          sess' = [sess EXCEPT ![s].pc = "settle", ![s].now = now,
                               ![s].view = ReferenceFor(d.op)]
    BY <1>5
  <2>2. now \in Nat \ {0}  BY ReadClockFacts DEF IInv
  <2>3. ReferenceFor(d.op) \in View \cup {Nil}  BY ReferenceForFacts DEF IInv, TypeOK
  <2> DEFINE view == ReferenceFor(d.op)
  <2>4. sess' = [sess EXCEPT ![s] = [sess[s] EXCEPT !.pc = "settle", !.now = now,
                                                    !.view = view]]
    BY <2>1, <1>1, <1>2
  <2> HIDE DEF view
  <2> QED  BY <2>2, <2>3, <2>4, <1>1, <1>2, ReadUnderLock DEF view
<1> QED  BY <1>3, <1>4, <1>5

(* The claim reads the row again and keeps the lock, or the turn ends. *)
LEMMA ClaimPreserves ==
  ASSUME IInv, NEW s \in Workers, ClaimForUpdate(s)
  PROVE  IInv'
<1> DEFINE view == ReferenceFor(txns[sess[s].cand].op)
           now == sess[s].now
<1>1. s \in Sessions  BY DEF Sessions
<1>2. /\ sess \in [Sessions -> Session] /\ sess[s] \in Session
      /\ sess[s].pc = "claim" /\ UNCHANGED <<db, clock, acks>>
  BY <1>1 DEF ClaimForUpdate, IInv, TypeOK
<1>3. \/ sess' = [sess EXCEPT ![s].pc = "resume", ![s].view = view]
      \/ Finish(s)
  BY DEF ClaimForUpdate
<1>4. view \in View \cup {Nil}  BY ReferenceForFacts DEF IInv, TypeOK
<1>5. now \in Nat \ {0}
  BY <1>1, <1>2 DEF IInv, SessionsAttached, Attached, ResumePcs, Session
<1> HIDE DEF view
<1>6. CASE sess' = [sess EXCEPT ![s].pc = "resume", ![s].view = view]
  <2>1. [sess[s] EXCEPT !.pc = "resume", !.view = view] =
          [sess[s] EXCEPT !.pc = "resume", !.now = now, !.view = view]
    BY <1>2 DEF Session
  <2>2. sess' = [sess EXCEPT ![s] = [sess[s] EXCEPT !.pc = "resume", !.now = now,
                                                    !.view = view]]
    BY <2>1, <1>1, <1>2, <1>6
  <2> QED  BY <2>2, <1>1, <1>2, <1>4, <1>5, ReadUnderLock
<1> QED  BY <1>1, <1>2, <1>3, <1>6, EndQuietly

(* The candidate is a committed row. *)
LEMMA NextDuePreserves ==
  ASSUME IInv, NEW s \in Workers, NextDue(s)
  PROVE  IInv'
<1>1. s \in Sessions  BY DEF Sessions
<1>2. PICK now \in ReadClock, i \in DOMAIN txns :
        sess' = [sess EXCEPT ![s] = [Idle EXCEPT !.pc = "claimLock", !.cand = i, !.now = now,
                                                 !.wallet = txns[i].op.wallet]]
  BY DEF NextDue
<1> DEFINE w == txns[i].op.wallet
           x == [Idle EXCEPT !.pc = "claimLock", !.cand = i, !.now = now, !.wallet = w]
<1>3. now \in Nat \ {0}  BY ReadClockFacts DEF IInv
<1>4. i \in 1..Len(txns) /\ txns[i] \in TxnRow /\ Len(txns) \in Nat
  BY LenProperties, ElementOfSeq DEF IInv, TypeOK
<1>5. w \in Wallets  BY <1>4, RowOperationFacts DEF TxnRow
<1>6. Idle \in Session  BY DEF Idle, Session
<1> HIDE DEF w
<1>7. /\ x \in Session /\ x.pc = "claimLock" /\ x.cand = i /\ x.now = now /\ x.wallet = w
  <2>1. i \in Nat /\ now \in Nat  BY <1>3, <1>4
  <2> QED  BY <2>1, <1>5, <1>6 DEF Session
<1>8. sess' = [sess EXCEPT ![s] = x]  BY <1>2 DEF w
<1> HIDE DEF x
<1>9. Attached(x, txns) /\ x.pc \notin Locked
  BY <1>3, <1>4, <1>7 DEF Attached, SubmitPcs, ResumePcs, Locked, w
<1>10. /\ inbox' \in [Messages -> Operations \cup {Nil}]
       /\ acks' \in [Operations -> SUBSET (Nat \ {0})]
       /\ UNCHANGED <<wallets, txns, ledger, active, outbox, clock>>
  BY DEF NextDue, IInv, TypeOK, db
<1> QED  BY <1>1, <1>7, <1>8, <1>9, <1>10, QuietStep

(* A submission settles the row it inserted. *)
LEMMA SettlePreserves ==
  ASSUME IInv, NEW s \in Submitters, Settle(s)
  PROVE  IInv'
<1> DEFINE row == SubmittedRow(s)
           i == Len(txns) + 1
<1>1. s \in Sessions  BY DEF Sessions
<1>2. /\ sess[s].pc = "settle"
      /\ commitOutcome(sess[s].wallet, i, row,
                       apply(row, sess[s].held, sess[s].view, sess[s].now),
                       sess[s].held, sess[s].now)
      /\ CommitInbox(sess[s].request) /\ Answer(sess[s].request.op, i)
      /\ Finish(s) /\ clock' = clock
  BY DEF Settle, SubmitOutcome
<1>3. /\ sess[s].request \in Deliveries /\ sess[s].wallet = sess[s].request.op.wallet
      /\ sess[s].now # 0
  BY <1>1, <1>2 DEF IInv, SessionsAttached, Attached, SubmitPcs
<1>4. sess[s].now \in Nat \ {0}  BY <1>1, <1>3 DEF IInv, TypeOK, Session
<1>5. sess[s].request.op \in RowOperations /\ sess[s].request.op \in Operations
  BY <1>3, DeliveryFacts
<1>6. row \in TxnRow /\ row.op = sess[s].request.op
  BY <1>4, <1>5, SubmittedRowFacts DEF SubmittedRow
<1>7. Len(txns) \in Nat  BY LenProperties DEF IInv, TypeOK
<1>8. i \in 1..Len(txns) + 1 /\ i \notin 1..Len(txns) /\ i \in Nat \ {0}  BY <1>7
<1>9. TypeOK  BY DEF IInv
<1>10. inbox' \in [Messages -> Operations \cup {Nil}]
  BY <1>2, <1>3, <1>9, CommitInboxFacts
<1>11. acks' \in [Operations -> SUBSET (Nat \ {0})]
  BY <1>2, <1>5, <1>8, <1>9, AnswerFacts
<1> HIDE DEF row, i
<1> QED  BY <1>1, <1>2, <1>3, <1>6, <1>8, <1>10, <1>11, CommitStep

(* A resumption settles the row it claimed. *)
LEMMA ResumePreserves ==
  ASSUME IInv, NEW s \in Workers, Resume(s)
  PROVE  IInv'
<1> DEFINE row == ResumedRow(s)
           i == sess[s].cand
<1>1. s \in Sessions  BY DEF Sessions
<1>2. /\ sess[s].pc = "resume"
      /\ commitOutcome(sess[s].wallet, i, row,
                       apply(row, sess[s].held, sess[s].view, sess[s].now),
                       sess[s].held, sess[s].now)
      /\ Finish(s) /\ clock' = clock /\ inbox' = inbox /\ acks' = acks
  BY DEF Resume, ResumeOutcome
<1>3. i \in 1..Len(txns) /\ sess[s].wallet = txns[i].op.wallet
  BY <1>1, <1>2 DEF IInv, SessionsAttached, Attached, ResumePcs
<1>4. row = txns[i] /\ row \in TxnRow /\ Len(txns) \in Nat
  BY <1>3, ElementOfSeq, LenProperties DEF ResumedRow, IInv, TypeOK
<1>5. i \in 1..Len(txns) + 1  BY <1>3, <1>4
<1>6. /\ inbox' \in [Messages -> Operations \cup {Nil}]
      /\ acks' \in [Operations -> SUBSET (Nat \ {0})]
  BY <1>2 DEF IInv, TypeOK
<1> HIDE DEF row, i
<1> QED  BY <1>1, <1>2, <1>3, <1>4, <1>5, <1>6, CommitStep

(* Failing a row, or putting it off, changes neither its operation nor money. *)
LEMMA CannotCarryForwardPreserves ==
  ASSUME IInv, NEW s \in Workers, cannotCarryForward(s)
  PROVE  IInv'
<1> DEFINE i == sess[s].cand
           row == txns[i]
           now == sess[s].now
           failed == [row EXCEPT !.status = "FAILED", !.nextAttempt = 0, !.updatedAt = now]
           at == nextAttemptAt(row.attempts, now, row.deadline)
           new == IF row.deadline # 0 /\ now >= row.deadline
                  THEN failed ELSE [row EXCEPT !.nextAttempt = at]
<1>1. s \in Sessions  BY DEF Sessions
<1>2. /\ sess[s].pc = "resume" /\ txns' = [txns EXCEPT ![i] = new] /\ Finish(s)
      /\ UNCHANGED <<wallets, ledger, active, inbox, outbox, clock, acks>>
  BY DEF cannotCarryForward, ResumedRow
<1>3. i \in 1..Len(txns) /\ now # 0 /\ txns \in Seq(TxnRow)
  BY <1>1, <1>2 DEF IInv, TypeOK, SessionsAttached, Attached, ResumePcs
<1>4. row \in TxnRow  BY <1>3, ElementOfSeq
<1>5. now \in Nat \ {0}  BY <1>1, <1>3 DEF IInv, TypeOK, Session
<1>6. at \in Nat  BY <1>4, <1>5, NextAttemptFacts DEF TxnRow
<1> HIDE DEF at
<1>7. new \in TxnRow /\ new.op = row.op
  BY <1>4, <1>5, <1>6 DEF TxnRow, Statuses
<1> HIDE DEF new
<1>8. /\ txns' \in Seq(TxnRow) /\ Len(txns') = Len(txns)
      /\ \A j \in 1..Len(txns) : txns'[j] = IF j = i THEN new ELSE txns[j]
  BY <1>2, <1>3, <1>7, ExceptSeq
<1>9. Len(txns) \in Nat /\ \A j \in 1..Len(txns) : txns'[j].op = txns[j].op
  BY <1>3, <1>7, <1>8, LenProperties
<1>10. SessionsAttached' /\ sess' \in [Sessions -> Session]
  BY <1>1, <1>2, <1>8, <1>9, AttachedAfterWrite
<1>11. TypeOK'
  BY <1>2, <1>8, <1>10 DEF IInv, TypeOK
<1>12. RowsHaveWallets'
  BY <1>2, <1>8, <1>9 DEF IInv, RowsHaveWallets
<1>13. HeldIsCurrent'
  <2>1. sess' = [sess EXCEPT ![s] = Idle] /\ sess \in [Sessions -> Session]
    BY <1>2 DEF Finish, IInv, TypeOK
  <2>2. sess'[s].pc \notin Locked  BY <2>1, <1>1 DEF Idle, Locked
  <2>3. \A t \in Sessions \ {s} : sess'[t] = sess[t]  BY <2>1
  <2> QED  BY <1>2, <2>2, <2>3 DEF IInv, HeldIsCurrent, HoldsLock
<1>14. WalletMatchesLedger'
  BY <1>2 DEF IInv, WalletMatchesLedger, LastEntry
<1> QED  BY <1>10, <1>11, <1>12, <1>13, <1>14 DEF IInv

(* Opening a wallet: a wallet nobody holds comes to be, with its first entry. *)
LEMMA OpenPreserves ==
  ASSUME IInv, NEW o \in Openings, Open(o)
  PROVE  IInv'
<1> DEFINE w == o.wallet
           i == Len(txns) + 1
           opened == [player |-> o.player, currency |-> o.currency,
                      balance |-> o.amount, version |-> 1, updatedAt |-> clock]
           fresh == NewExternalTransaction(OpeningOperation(o), clock)
           row == [fresh EXCEPT !.status = "PROCESSED", !.result = o.amount]
           entry == [tx |-> i, direction |-> "CREDIT", amount |-> o.amount,
                     before |-> 0, after |-> o.amount, version |-> 1]
           events == <<[type |-> "Processed", tx |-> i], [type |-> "BalanceChanged", tx |-> i]>>
<1>1. /\ wallets[w] = Nil /\ wallets' = [wallets EXCEPT ![w] = opened]
      /\ UNCHANGED <<active, inbox, sess, clock, acks>>
      /\ o.amount = 0 => UNCHANGED <<txns, ledger, outbox>>
      /\ o.amount # 0 => /\ txns' = Append(txns, row)
                         /\ ledger' = [ledger EXCEPT ![w] = Append(@, entry)]
                         /\ outbox' = [outbox EXCEPT ![w] = @ \o events]
  BY DEF Open
<1>2. w \in Wallets /\ o.amount \in Amounts /\ o.amount \in Nat
  BY ServiceAssumption, PolicyAssumption DEF Amounts
<1>3. /\ wallets \in [Wallets -> WalletRow \cup {Nil}]
      /\ ledger \in [Wallets -> Seq(LedgerRow)] /\ outbox \in [Wallets -> Seq(EventRow)]
      /\ txns \in Seq(TxnRow) /\ clock \in Nat \ {0} /\ Len(txns) \in Nat
  BY LenProperties DEF IInv, TypeOK
<1>4. i \in Nat \ {0}  BY <1>3
<1>5. opened \in WalletRow /\ opened.balance = o.amount /\ opened.version = 1
  BY <1>2, <1>3 DEF WalletRow, Players, Currencies
<1>6. OpeningOperation(o) \in RowOperations /\ OpeningOperation(o).wallet = w
  BY DEF RowOperations, OpeningOperation
<1>7. row \in TxnRow /\ row.op = OpeningOperation(o)
  <2>1. fresh \in TxnRow /\ fresh.op = OpeningOperation(o)
    BY <1>3, <1>6, SubmittedRowFacts
  <2> HIDE DEF fresh
  <2> QED  BY <2>1, <1>2 DEF TxnRow, Statuses
<1>8. /\ entry \in LedgerRow /\ entry.before = 0 /\ entry.after = o.amount /\ entry.version = 1
      /\ entry.after = applyDirection(entry.direction, entry.before, entry.amount)
  <2>1. 0 \in Amounts  BY PolicyAssumption DEF Amounts
  <2>2. entry \in LedgerRow  BY <2>1, <1>2, <1>4 DEF LedgerRow
  <2>3. applyDirection("CREDIT", 0, o.amount) = o.amount  BY <1>2 DEF applyDirection
  <2> QED  BY <2>2, <2>3
<1>9. events \in Seq(EventRow)
  <2>1. [type |-> "Processed", tx |-> i] \in EventRow
    BY <1>4 DEF EventRow
  <2>2. [type |-> "BalanceChanged", tx |-> i] \in EventRow
    BY <1>4 DEF EventRow
  <2> QED  BY <2>1, <2>2
<1> HIDE DEF opened, row, entry, events, i
<1>10. wallets' \in [Wallets -> WalletRow \cup {Nil}] /\ wallets'[w] # Nil
       /\ \A v \in Wallets : v # w => wallets'[v] = wallets[v]
  BY <1>1, <1>2, <1>3, <1>5, NilAssumption
<1>11. /\ ledger' \in [Wallets -> Seq(LedgerRow)] /\ outbox' \in [Wallets -> Seq(EventRow)]
  <2>1. Append(ledger[w], entry) \in Seq(LedgerRow)
    BY <1>2, <1>3, <1>8, AppendProperties
  <2>2. outbox[w] \o events \in Seq(EventRow)
    BY <1>2, <1>3, <1>9, ConcatProperties
  <2> QED  BY <2>1, <2>2, <1>1, <1>3
<1>12. /\ txns' \in Seq(TxnRow) /\ Len(txns') >= Len(txns)
       /\ \A j \in 1..Len(txns) : txns'[j].op = txns[j].op
       /\ \A j \in 1..Len(txns') : j \notin 1..Len(txns) => txns'[j].op.wallet = w
  <2>1. CASE o.amount = 0
    BY <2>1, <1>1, <1>3
  <2>2. CASE o.amount # 0
    <3>1. txns' = Append(txns, row) /\ row.op.wallet = w  BY <2>2, <1>1, <1>6, <1>7
    <3>2. /\ Append(txns, row) \in Seq(TxnRow) /\ Len(Append(txns, row)) = Len(txns) + 1
          /\ \A j \in 1..Len(txns) : Append(txns, row)[j] = txns[j]
          /\ Append(txns, row)[Len(txns) + 1] = row
      BY <1>3, <1>7, AppendProperties
    <3> QED  BY <3>1, <3>2, <1>3
  <2> QED  BY <2>1, <2>2
<1>13. TypeOK'
  BY <1>1, <1>10, <1>11, <1>12 DEF IInv, TypeOK
<1>14. SessionsAttached'
  <2>1. Len(txns') \in Nat  BY <1>12, LenProperties
  <2> QED  BY <2>1, <1>1, <1>3, <1>12 DEF IInv, SessionsAttached, Attached
<1>15. RowsHaveWallets'
  <2> SUFFICES ASSUME NEW j \in 1..Len(txns')
               PROVE  wallets'[txns'[j].op.wallet] # Nil
    BY DEF RowsHaveWallets
  <2>1. CASE j \in 1..Len(txns)
    <3>1. txns[j] \in TxnRow  BY <2>1, <1>3, ElementOfSeq
    <3>2. txns[j].op.wallet \in Wallets  BY <3>1, RowOperationFacts DEF TxnRow
    <3>3. wallets[txns[j].op.wallet] # Nil  BY <2>1 DEF IInv, RowsHaveWallets
    <3> QED  BY <2>1, <3>2, <3>3, <1>10, <1>12
  <2>2. CASE j \notin 1..Len(txns)
    BY <2>2, <1>10, <1>12
  <2> QED  BY <2>1, <2>2
<1>16. HeldIsCurrent'
  <2>1. ASSUME NEW t \in Sessions, sess[t].pc \in Locked
        PROVE  wallets'[sess[t].wallet] = wallets[sess[t].wallet]
    <3>1. sess[t].wallet \in Wallets /\ wallets[sess[t].wallet] # Nil
      BY <2>1, HeldFacts, NilAssumption
    <3> QED  BY <3>1, <1>1, <1>10
  <2> QED  BY <2>1, <1>1 DEF IInv, HeldIsCurrent, HoldsLock
<1>17. WalletMatchesLedger'
  <2>1. WalletMatchesLedger  BY DEF IInv
  <2>2. CASE o.amount # 0
    <3>1. /\ entry.before = IF wallets[w] = Nil THEN 0 ELSE wallets[w].balance
          /\ wallets[w] # Nil => entry.version = wallets[w].version + 1
      BY <1>1, <1>8
    <3>2. opened.balance = entry.after /\ opened.version = entry.version
      BY <1>5, <1>8
    <3>3. ledger' = [ledger EXCEPT ![w] = Append(@, entry)]  BY <2>2, <1>1
    <3> QED  BY <2>1, <3>1, <3>2, <3>3, <1>1, <1>2, <1>3, <1>5, <1>8, LedgerContinues
  <2>3. CASE o.amount = 0
    <3>1. ledger' = ledger /\ ledger[w] = <<>>  BY <2>1, <2>3, <1>1, <1>2 DEF WalletMatchesLedger
    <3>2. wallets'[w] = opened  BY <1>1, <1>2, <1>3
    <3> SUFFICES ASSUME NEW v \in Wallets
                 PROVE  WalletMatchesLedger!(v)'
      BY DEF WalletMatchesLedger
    <3>3. CASE v = w
      BY <3>1, <3>2, <3>3, <2>3, <1>5, <1>10 DEF LastEntry
    <3>4. CASE v # w
      BY <3>1, <3>4, <2>1, <1>10 DEF WalletMatchesLedger, LastEntry
    <3> QED  BY <3>3, <3>4
  <2> QED  BY <2>2, <2>3
<1> QED  BY <1>13, <1>14, <1>15, <1>16, <1>17 DEF IInv

(* Every step preserves the inductive invariant. *)
LEMMA NextPreservesIInv == IInv /\ [Next]_vars => IInv'
<1> SUFFICES ASSUME IInv, [Next]_vars PROVE IInv'  OBVIOUS
<1>1. ASSUME NEW s \in Submitters, SubmitStep(s) PROVE IInv'
  BY <1>1, SubmitPreserves, LookupsPreserve, LockByIDPreserves, RecordPreserves, SettlePreserves
     DEF SubmitStep
<1>2. ASSUME NEW s \in Workers, ResumeStep(s) PROVE IInv'
  BY <1>2, NextDuePreserves, ResumeLockPreserves, ClaimPreserves, ResumePreserves,
     CannotCarryForwardPreserves DEF ResumeStep
<1>3. ASSUME NEW s \in Sessions, Refused(s) \/ Abort(s) PROVE IInv'
  <2>1. Finish(s) /\ UNCHANGED <<db, clock, acks>>  BY <1>3 DEF Refused, Abort
  <2> QED  BY <2>1, EndQuietly
<1>4. ASSUME NEW o \in Openings, Open(o) PROVE IInv'
  BY <1>4, OpenPreserves
<1>5. CASE Tick \/ UNCHANGED vars
  <2>1. /\ UNCHANGED <<wallets, txns, ledger, active, inbox, outbox, sess, acks>>
        /\ clock' = clock + 1 \/ clock' = clock
    BY <1>5 DEF Tick, vars, db
  <2>2. clock \in Nat \ {0}  BY DEF IInv, TypeOK
  <2>3. TypeOK'  BY <2>1, <2>2 DEF IInv, TypeOK
  <2>4. SessionsAttached' /\ RowsHaveWallets'
    BY <2>1 DEF IInv, SessionsAttached, Attached, RowsHaveWallets
  <2>5. HeldIsCurrent' /\ WalletMatchesLedger'
    BY <2>1 DEF IInv, HeldIsCurrent, HoldsLock, WalletMatchesLedger, LastEntry
  <2> QED  BY <2>3, <2>4, <2>5 DEF IInv
<1> QED  BY <1>1, <1>2, <1>3, <1>4, <1>5 DEF Next

(* The inductive invariant is an invariant. *)
LEMMA IInvHolds == Spec => []IInv
BY InitEstablishesIInv, NextPreservesIInv, PTL DEF Spec

-----------------------------------------------------------------------------
(* The theorems. *)

(* Every table holds rows of its type, whatever the deliveries, the wallets  *)
(* and the bounds: in particular no balance leaves 0..MaxBalance and no row  *)
(* is tried more than MaxAttempts times.                                     *)
THEOREM TypeCorrect == Spec => []TypeOK
BY IInvHolds, PTL DEF IInv

(* Whatever the sessions do, one that holds a wallet's row lock is alone at  *)
(* the wallet and decides on the balance and version the table holds.        *)
THEOREM LockProtectsWallet == Spec => []HeldIsCurrent
BY IInvHolds, PTL DEF IInv

(* The wallet and its ledger never part: no interleaving of submissions,     *)
(* resumptions, refusals and crashes loses, repeats or skips an update.      *)
THEOREM LedgerAlwaysMatches == Spec => []WalletMatchesLedger
BY IInvHolds, PTL DEF IInv

=============================================================================
