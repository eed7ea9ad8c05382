------------------------------ MODULE Wagering ------------------------------
(***************************************************************************)
(* The wagering service (internal/app) over its PostgreSQL store           *)
(* (internal/adapters/postgres and migrations): submissions that arrive    *)
(* over HTTP or from the inbound queue, the reference worker that resumes  *)
(* parked operations, and the wallets, transactions, ledger, active        *)
(* reversals, inbox and outbox they write.                                 *)
(*                                                                         *)
(* A session is one call running one database transaction.  The statements *)
(* another session can come between are steps of their own: the inbox      *)
(* lookup and insert, the two idempotency lookups, the wallet lock, the    *)
(* insert of the row together with the read of the reference, and the      *)
(* settlement up to COMMIT.  A write becomes visible when it commits, so   *)
(* what an open transaction has written is kept in its session: the row of *)
(* a session at "settle" and the inbox row of a session past "recordInbox" *)
(* exist for the unique indexes and for nobody else.                       *)
(***************************************************************************)
EXTENDS WageringDomain, FiniteSets

CONSTANTS
  Wallets,      \* wallet identifiers
  Submitters,   \* sessions that run Wagering.Submit
  Workers,      \* sessions that run Wagering.Resume
  Messages,     \* message identifiers of the inbound queue
  Deliveries,   \* what may be submitted: [msg, op], msg = Nil over HTTP
  Openings,     \* what may be opened: [wallet, player, currency, amount]
  Unbuildable,  \* external ids whose stored row Resume fails to carry forward
  Backoff,      \* BackoffPolicy.next: attempts |-> delay in ticks
  Skew,         \* how far behind a replica's clock may be, in ticks
  Horizon       \* bound: the clock passes it only while an operation waits

Operations == {d.op : d \in Deliveries}
Sessions == Submitters \cup Workers

ASSUME ServiceAssumption ==
  /\ \A d \in Deliveries : d.msg \in Messages \cup {Nil} /\ Validate(d.op)
  /\ \A op \in Operations : op.wallet \in Wallets /\ op.amount \in 0..MaxBalance
  /\ \A o \in Openings : o.wallet \in Wallets /\ o.amount \in 0..MaxBalance
  /\ Nil \notin Wallets \cup Messages \cup Deliveries \cup Operations
  /\ Submitters \cap Workers = {}
  /\ Backoff \in [1..MaxAttempts -> Nat \ {0}]
  /\ Skew \in Nat /\ Horizon \in Nat \ {0}

(* An operation is the record of the fields of its command. *)
ASSUME RecordAssumption ==
  \A op \in Operations :
    op = [kind |-> op.kind, wallet |-> op.wallet, player |-> op.player,
          currency |-> op.currency, amount |-> op.amount, provider |-> op.provider,
          ext |-> op.ext, key |-> op.key, round |-> op.round, ref |-> op.ref]

VARIABLES
  wallets,  \* wallet: id |-> [player, currency, balance, version, updatedAt]
  txns,     \* wager_transaction: the committed rows, in commit order
  ledger,   \* wallet_ledger_entry: wallet |-> its entries, in version order
  active,   \* active_reversal: [reference, reversal, kind]
  inbox,    \* inbox_message: message |-> the body it was handled with
  outbox,   \* outbox_event: wallet |-> its events, in sequence order
  sess,     \* the open transaction of every session
  clock,    \* real time, in ticks
  acks      \* history: operation |-> the rows its callers were answered with

db == <<wallets, txns, ledger, active, inbox, outbox>>
vars == <<wallets, txns, ledger, active, inbox, outbox, sess, clock, acks>>

-----------------------------------------------------------------------------
(* Rows. *)

NewExternalTransaction(op, now) ==
  [op |-> op, status |-> "PENDING", code |-> Nil, result |-> Nil,
   resolved |-> 0, attempts |-> 0, deadline |-> 0, nextAttempt |-> 0,
   updatedAt |-> now]

OpeningOperation(o) ==
  [kind |-> "OPENING", wallet |-> o.wallet, player |-> o.player,
   currency |-> o.currency, amount |-> o.amount, provider |-> Nil,
   ext |-> Nil, key |-> Nil, round |-> Nil, ref |-> Nil]

Parked(row) == row.status = "PENDING_REFERENCE"

ByIdempotencyKey(op) ==
  {i \in DOMAIN txns : txns[i].op.provider = op.provider /\ txns[i].op.key = op.key}

ByExternal(op) ==
  {i \in DOMAIN txns : txns[i].op.provider = op.provider /\ txns[i].op.ext = op.ext}

(* Every PROCESSED reversal that resolved row i, with whether it was undone. *)
ReversalsOf(i) ==
  {[kind |-> txns[j].op.kind, reversed |-> ~\E a \in active : a.reversal = j] :
     j \in {h \in DOMAIN txns : /\ txns[h].status = "PROCESSED"
                                /\ IsReversal(txns[h].op.kind)
                                /\ txns[h].resolved = i}}

(* The view of the operation an operation names, as one statement reads it. *)
ReferenceFor(op) ==
  LET named == {i \in DOMAIN txns : /\ op.ref # Nil
                                    /\ txns[i].op.provider = op.provider
                                    /\ txns[i].op.ext = op.ref}
      i     == CHOOSE i \in named : TRUE
  IN  IF named = {} THEN Nil
      ELSE [id |-> i, op |-> txns[i].op, status |-> txns[i].status,
            reversals |-> ReversalsOf(i)]

(* A wrong variant: the delay is not clamped to the deadline. *)
nextAttemptUnclamped(attempts, now, deadline) ==
  now + Backoff[IF attempts < 1 THEN 1 ELSE attempts]

(* BackoffPolicy.next: the delay of the attempt, clamped to the deadline. *)
nextAttemptAt(attempts, now, deadline) ==
  LET at == now + Backoff[IF attempts < 1 THEN 1 ELSE attempts]
  IN  IF deadline # 0 /\ at > deadline THEN deadline ELSE at

-----------------------------------------------------------------------------
(* Sessions. *)

Idle == [pc |-> "idle", request |-> Nil, cand |-> 0, wallet |-> Nil,
         now |-> 0, held |-> Nil, view |-> Nil]

PastInbox == {"byKey", "byExternal", "lock", "record", "settle"}
Locked == {"record", "settle", "claim", "resume"}

HoldsLock(s, w) == sess[s].pc \in Locked /\ sess[s].wallet = w

(* A wrong variant: the wallet is read without its row lock. *)
LockNotTaken(w) == TRUE

LockFree(w) == ~\E s \in Sessions : HoldsLock(s, w)

(* A message another open transaction has inserted and not committed. *)
InboxInFlight(s, m) ==
  \E t \in Submitters \ {s} : sess[t].pc \in PastInbox /\ sess[t].request.msg = m

(* A row another open transaction has inserted under one of op's two keys. *)
InsertInFlight(s, op) ==
  \E t \in Submitters \ {s} :
    /\ sess[t].pc = "settle"
    /\ sess[t].request.op.provider = op.provider
    /\ \/ sess[t].request.op.key = op.key
       \/ sess[t].request.op.ext = op.ext

Goto(s, next) == sess' = [sess EXCEPT ![s].pc = next]

(* Both COMMIT and ROLLBACK end the transaction and release its locks. *)
Finish(s) == sess' = [sess EXCEPT ![s] = Idle]

ReadClock == {t \in 1..clock : t >= clock - Skew}

(* The inbox row commits with the work it describes. *)
CommitInbox(d) ==
  inbox' = IF d.msg = Nil THEN inbox ELSE [inbox EXCEPT ![d.msg] = d.op]

(* What the call answers with.  An answer lost between COMMIT and the caller *)
(* changes nothing here but the caller's knowledge: it submits again.        *)
Answer(op, i) == acks' = [acks EXCEPT ![op] = @ \cup {i}]

-----------------------------------------------------------------------------
(* What a settlement writes: the settle door, MakeDue and the outbox. *)

LastEntry(w) == ledger[w][Len(ledger[w])]

(* A wrong variant: a reversal's entry takes the direction of what it undoes. *)
EntryOfReference(i, row, outcome, held) ==
  [tx |-> i, amount |-> row.op.amount,
   direction |-> IF IsReversal(row.op.kind) THEN Opposite(outcome.direction)
                                            ELSE outcome.direction,
   before |-> held.balance,
   after |-> applyDirection(outcome.direction, held.balance, row.op.amount),
   version |-> held.version + 1]

(* The movement an outcome makes of the wallet as it was read under the lock. *)
Entry(i, row, outcome, held) ==
  [tx |-> i, direction |-> outcome.direction, amount |-> row.op.amount,
   before |-> held.balance,
   after |-> applyDirection(outcome.direction, held.balance, row.op.amount),
   version |-> held.version + 1]

(* A wrong variant: the wallet keeps the version it was read at. *)
MovedInPlace(held, entry, now) ==
  [held EXCEPT !.balance = entry.after, !.updatedAt = now]

Moved(held, entry, now) ==
  [held EXCEPT !.balance = entry.after, !.version = entry.version,
               !.updatedAt = now]

Settled(row, outcome, held, now) ==
  [row EXCEPT
     !.status      = outcome.status,
     !.code        = outcome.code,
     !.resolved    = outcome.resolved,
     !.attempts    = outcome.attempts,
     !.deadline    = outcome.deadline,
     !.result      = IF outcome.status = "PROCESSED"
                     THEN applyDirection(outcome.direction, held.balance, row.op.amount)
                     ELSE Nil,
     !.nextAttempt = IF outcome.status = "PENDING_REFERENCE"
                     THEN nextAttemptAt(outcome.attempts, now, outcome.deadline)
                     ELSE 0,
     !.updatedAt   = now]

(* Operations on this wallet parked on op, made due at once. *)
MakeDue(rows, op, now) ==
  [j \in DOMAIN rows |->
     IF /\ Parked(rows[j])
        /\ rows[j].op.wallet = op.wallet
        /\ rows[j].op.provider = op.provider
        /\ rows[j].op.ref = op.ext
     THEN [rows[j] EXCEPT !.nextAttempt = now]
     ELSE rows[j]]

(* A wrong variant: the rows waiting on a settled operation are not woken. *)
WriteWithoutWaking(i, row, now) ==
  IF i = Len(txns) + 1 THEN Append(txns, row) ELSE [txns EXCEPT ![i] = row]

(* Row i written, and the rows waiting on it woken if it was PROCESSED. *)
Write(i, row, now) ==
  LET written == IF i = Len(txns) + 1 THEN Append(txns, row)
                                      ELSE [txns EXCEPT ![i] = row]
  IN  IF row.status = "PROCESSED" THEN MakeDue(written, row.op, now) ELSE written

IsSettledReversal(row) == row.status = "PROCESSED" /\ IsReversal(row.op.kind)

(* A wrong variant: undoing a reversal does not release what it held. *)
neverReleaseReversal(i, row) ==
  IF ~IsSettledReversal(row) THEN active
  ELSE active \cup {[reference |-> row.resolved, reversal |-> i, kind |-> row.op.kind]}

(* maintain_active_reversal: undoing a reversal releases what it held. *)
maintainActiveReversal(i, row) ==
  IF ~IsSettledReversal(row) THEN active
  ELSE {a \in active : a.reversal # row.resolved} \cup
       {[reference |-> row.resolved, reversal |-> i, kind |-> row.op.kind]}

(* A wrong variant: every PROCESSED operation announces a balance change. *)
EventsOfAnyProcessed(i, row, outcome) ==
  CASE row.status = "PROCESSED" ->
         <<[type |-> "Processed", tx |-> i], [type |-> "BalanceChanged", tx |-> i]>>
    [] row.status = "REJECTED" -> <<[type |-> "Rejected", tx |-> i]>>
    [] OTHER -> <<[type |-> "PendingReference", tx |-> i]>>

EventsOf(i, row, outcome) ==
  CASE row.status = "PROCESSED" /\ outcome.direction # Nil ->
         <<[type |-> "Processed", tx |-> i], [type |-> "BalanceChanged", tx |-> i]>>
    [] row.status = "PROCESSED" /\ outcome.direction = Nil ->
         <<[type |-> "Processed", tx |-> i]>>
    [] row.status = "REJECTED" -> <<[type |-> "Rejected", tx |-> i]>>
    [] OTHER -> <<[type |-> "PendingReference", tx |-> i]>>

(* One settlement: row i goes from row to what outcome says, the wallet and *)
(* the ledger move if money does, the events are appended last.             *)
commitOutcome(w, i, row, outcome, held, now) ==
  LET settled == Settled(row, outcome, held, now)
      entry   == Entry(i, row, outcome, held)
      moves   == outcome.direction # Nil
  IN  /\ txns' = Write(i, settled, now)
      /\ active' = maintainActiveReversal(i, settled)
      /\ wallets' = IF moves THEN [wallets EXCEPT ![w] = Moved(held, entry, now)]
                             ELSE wallets
      /\ ledger' = IF moves THEN [ledger EXCEPT ![w] = Append(@, entry)] ELSE ledger
      /\ outbox' = [outbox EXCEPT ![w] = @ \o EventsOf(i, settled, outcome)]

-----------------------------------------------------------------------------
(* What the schema refuses, whatever the application decided. *)

(* active_reversal_pkey, active_reversal_reference_is_reversible and the    *)
(* one-successful-reversal-per-kind index.                                  *)
ReversalRefused(row) ==
  LET released == {a \in active : a.reversal = row.resolved}
  IN  /\ IsSettledReversal(row)
      /\ \/ \E a \in active \ released : a.reference = row.resolved
         \/ \E a \in released : row.op.kind = "REFUND" \/ a.kind = "ROLLBACK"
         \/ \E j \in DOMAIN txns : /\ IsSettledReversal(txns[j])
                                   /\ txns[j].op.kind = row.op.kind
                                   /\ txns[j].resolved = row.resolved

(* ledger_chain: an entry follows the version and the balance of the last. *)
ChainRefused(w, row, entry) ==
  IF ledger[w] = <<>>
  THEN \/ entry.version # (IF row.op.kind = "OPENING" THEN 1 ELSE 2)
       \/ entry.before # 0
  ELSE \/ entry.version # LastEntry(w).version + 1
       \/ entry.before # LastEntry(w).after

(* moveWallet's condition on the version the wallet was read at. *)
LostUpdate(w, held) == wallets[w].version # held.version

(* The gates behind the wallet lock that a settlement should never meet. *)
Backstop(w, i, row, outcome, held, now) ==
  \/ ReversalRefused(Settled(row, outcome, held, now))
  \/ /\ outcome.direction # Nil
     /\ \/ LostUpdate(w, held)
        \/ ChainRefused(w, row, Entry(i, row, outcome, held))

(* wallet_guard: a balance change moves updated_at strictly forward, and    *)
(* wager_transaction_guard: a row's updated_at never runs backwards.  Two   *)
(* instants within one tick of the model may be in either order.            *)
ClockRefuses(w, row, outcome, now) ==
  \/ outcome.direction # Nil /\ now < wallets[w].updatedAt
  \/ now < row.updatedAt

ClockMayRefuse(w, row, outcome, now) ==
  \/ outcome.direction # Nil /\ now <= wallets[w].updatedAt
  \/ now < row.updatedAt

-----------------------------------------------------------------------------
(* Wagering.Submit. *)

Submit(s, d) ==
  /\ sess[s] = Idle
  /\ sess' = [sess EXCEPT ![s] =
                [Idle EXCEPT !.pc = IF d.msg = Nil THEN "byKey" ELSE "findInbox",
                             !.request = d, !.wallet = d.op.wallet]]
  /\ UNCHANGED <<db, clock, acks>>

(* A message handled before with the same body falls through to the replay; *)
(* one handled with another body is a defect and rolls back.                *)
FindInbox(s) ==
  /\ sess[s].pc = "findInbox"
  /\ LET d == sess[s].request
     IN  \/ inbox[d.msg] = Nil /\ Goto(s, "recordInbox")
         \/ inbox[d.msg] = d.op /\ Goto(s, "byKey")
         \/ inbox[d.msg] \notin {Nil, d.op} /\ Finish(s)
  /\ UNCHANGED <<db, clock, acks>>

(* The insert waits for another open insert of the message; if that one     *)
(* commits first the primary key refuses this one, which is retryable.      *)
RecordInbox(s) ==
  /\ sess[s].pc = "recordInbox"
  /\ LET m == sess[s].request.msg
     IN  \/ inbox[m] = Nil /\ ~InboxInFlight(s, m) /\ Goto(s, "byKey")
         \/ inbox[m] # Nil /\ Finish(s)
  /\ UNCHANGED <<db, clock, acks>>

(* A wrong variant: the inbox row commits although the payloads differ. *)
replayOfAnyPayload(s, i) ==
  LET d == sess[s].request
  IN  /\ Finish(s)
      /\ CommitInbox(d)
      /\ IF AssertSamePayload(txns[i].op, d.op) THEN Answer(d.op, i) ELSE UNCHANGED acks
      /\ UNCHANGED <<wallets, txns, ledger, active, outbox, clock>>

(* A settled or parked row answers for the payload it was recorded with; *)
(* the transaction commits, the inbox row with it.                       *)
replayOf(s, i) ==
  LET d == sess[s].request
  IN  /\ Finish(s)
      /\ IF AssertSamePayload(txns[i].op, d.op)
         THEN CommitInbox(d) /\ Answer(d.op, i)
         ELSE UNCHANGED <<inbox, acks>>
      /\ UNCHANGED <<wallets, txns, ledger, active, outbox, clock>>

ReplayByKey(s) ==
  /\ sess[s].pc = "byKey"
  /\ LET found == ByIdempotencyKey(sess[s].request.op)
     IN  \/ \E i \in found : replayOf(s, i)
         \/ found = {} /\ Goto(s, "byExternal") /\ UNCHANGED <<db, clock, acks>>

(* A row recorded between the two lookups is found by the second one. *)
ReplayByExternal(s) ==
  /\ sess[s].pc = "byExternal"
  /\ LET op == sess[s].request.op
         found == ByExternal(op)
     IN  \/ \E i \in found : txns[i].op.key = op.key /\ replayOf(s, i)
         \/ /\ \E i \in found : txns[i].op.key # op.key
            /\ Finish(s) /\ UNCHANGED <<db, clock, acks>>
         \/ found = {} /\ Goto(s, "lock") /\ UNCHANGED <<db, clock, acks>>

(* LockByID reads the row it waited for as it is once the lock is granted. *)
LockByID(s) ==
  /\ sess[s].pc = "lock"
  /\ LET op == sess[s].request.op
         w  == op.wallet
     IN  \/ /\ wallets[w] = Nil
            /\ Finish(s)
         \/ /\ wallets[w] # Nil /\ LockFree(w)
            /\ IF wallets[w].player # op.player THEN Finish(s)
               ELSE sess' = [sess EXCEPT ![s].pc = "record", ![s].held = wallets[w]]
  /\ UNCHANGED <<db, clock, acks>>

(* A wrong variant: the insert trusts the lookups made before the lock. *)
RecordUnconditionally(s) ==
  /\ sess[s].pc = "record"
  /\ \E now \in ReadClock :
       sess' = [sess EXCEPT ![s].pc = "settle", ![s].now = now,
                            ![s].view = ReferenceFor(sess[s].request.op)]
  /\ UNCHANGED <<db, clock, acks>>

(* The clock is read under the lock, the row inserted unless one of its two *)
(* keys is taken, and the reference read.  A taken key rolls back and the   *)
(* race is resolved by reading the operation that won.                      *)
Record(s) ==
  /\ sess[s].pc = "record"
  /\ LET d == sess[s].request
     IN  /\ ~InsertInFlight(s, d.op)
         /\ IF ByIdempotencyKey(d.op) \cup ByExternal(d.op) # {}
            THEN sess' = [sess EXCEPT ![s] = [Idle EXCEPT !.pc = "duplicate",
                                                          !.request = d]]
            ELSE \E now \in ReadClock :
                   sess' = [sess EXCEPT ![s].pc = "settle", ![s].now = now,
                                        ![s].view = ReferenceFor(d.op)]
  /\ UNCHANGED <<db, clock, acks>>

SubmittedRow(s) == NewExternalTransaction(sess[s].request.op, sess[s].now)

SubmitOutcome(s) == apply(SubmittedRow(s), sess[s].held, sess[s].view, sess[s].now)

SubmitBackstop(s) ==
  Backstop(sess[s].wallet, Len(txns) + 1, SubmittedRow(s), SubmitOutcome(s),
           sess[s].held, sess[s].now)

Settle(s) ==
  /\ sess[s].pc = "settle"
  /\ ~SubmitBackstop(s)
  /\ ~ClockRefuses(sess[s].wallet, SubmittedRow(s), SubmitOutcome(s), sess[s].now)
  /\ commitOutcome(sess[s].wallet, Len(txns) + 1, SubmittedRow(s),
                   SubmitOutcome(s), sess[s].held, sess[s].now)
  /\ CommitInbox(sess[s].request)
  /\ Answer(sess[s].request.op, Len(txns) + 1)
  /\ Finish(s)
  /\ UNCHANGED clock

(* resolveDuplicate: the replay again, in a snapshot of its own. *)
ResolveDuplicate(s) ==
  /\ sess[s].pc = "duplicate"
  /\ LET op == sess[s].request.op
         byKey == ByIdempotencyKey(op)
         found == IF byKey # {} THEN byKey ELSE ByExternal(op)
     IN  \/ \E i \in found : /\ txns[i].op.key = op.key
                             /\ AssertSamePayload(txns[i].op, op)
                             /\ Answer(op, i)
         \/ /\ ~\E i \in found : /\ txns[i].op.key = op.key
                                 /\ AssertSamePayload(txns[i].op, op)
            /\ UNCHANGED acks
  /\ Finish(s)
  /\ UNCHANGED <<db, clock>>

-----------------------------------------------------------------------------
(* Wagering.Resume. *)

Due(i, now) == Parked(txns[i]) /\ txns[i].nextAttempt <= now

(* The clock is read, then the earliest due row found by a plain SELECT. *)
NextDue(s) ==
  /\ sess[s] = Idle
  /\ \E now \in ReadClock, i \in DOMAIN txns :
       /\ Due(i, now)
       /\ \A j \in DOMAIN txns : Due(j, now) =>
            \/ txns[i].nextAttempt < txns[j].nextAttempt
            \/ txns[i].nextAttempt = txns[j].nextAttempt /\ i <= j
       /\ sess' = [sess EXCEPT ![s] =
                     [Idle EXCEPT !.pc = "claimLock", !.cand = i, !.now = now,
                                  !.wallet = txns[i].op.wallet]]
  /\ UNCHANGED <<db, clock, acks>>

ResumeLock(s) ==
  /\ sess[s].pc = "claimLock"
  /\ LockFree(sess[s].wallet)
  /\ sess' = [sess EXCEPT ![s].pc = "claim", ![s].held = wallets[sess[s].wallet]]
  /\ UNCHANGED <<db, clock, acks>>

(* A wrong variant: the row is taken as it was found before the lock. *)
ClaimUnchecked(s) ==
  /\ sess[s].pc = "claim"
  /\ sess' = [sess EXCEPT ![s].pc = "resume",
                          ![s].view = ReferenceFor(txns[sess[s].cand].op)]
  /\ UNCHANGED <<db, clock, acks>>

(* The row is read again under the lock; one that settled or is no longer *)
(* due at the instant read before the lock is left alone.                 *)
ClaimForUpdate(s) ==
  /\ sess[s].pc = "claim"
  /\ LET i == sess[s].cand
     IN  \/ /\ Due(i, sess[s].now)
            /\ sess' = [sess EXCEPT ![s].pc = "resume",
                                    ![s].view = ReferenceFor(txns[i].op)]
         \/ ~Due(i, sess[s].now) /\ Finish(s)
  /\ UNCHANGED <<db, clock, acks>>

ResumedRow(s) == txns[sess[s].cand]

ResumeOutcome(s) == apply(ResumedRow(s), sess[s].held, sess[s].view, sess[s].now)

ResumeBackstop(s) ==
  Backstop(sess[s].wallet, sess[s].cand, ResumedRow(s), ResumeOutcome(s),
           sess[s].held, sess[s].now)

Carriable(row) == row.op.ext \notin Unbuildable

Resume(s) ==
  /\ sess[s].pc = "resume"
  /\ Carriable(ResumedRow(s))
  /\ ~ResumeBackstop(s)
  /\ ~ClockRefuses(sess[s].wallet, ResumedRow(s), ResumeOutcome(s), sess[s].now)
  /\ commitOutcome(sess[s].wallet, sess[s].cand, ResumedRow(s),
                   ResumeOutcome(s), sess[s].held, sess[s].now)
  /\ Finish(s)
  /\ UNCHANGED <<inbox, clock, acks>>

(* A wrong variant: such a row is put off for ever. *)
putOff(s) ==
  /\ sess[s].pc = "resume"
  /\ ~Carriable(ResumedRow(s))
  /\ LET row == ResumedRow(s)
     IN  txns' = [txns EXCEPT ![sess[s].cand].nextAttempt =
                    nextAttemptAt(row.attempts, sess[s].now, row.deadline)]
  /\ Finish(s)
  /\ UNCHANGED <<wallets, ledger, active, inbox, outbox, clock, acks>>

(* A row that cannot be rebuilt or continued: FAILED past its deadline,     *)
(* looked at again later before it, the attempt not counted.                *)
cannotCarryForward(s) ==
  /\ sess[s].pc = "resume"
  /\ ~Carriable(ResumedRow(s))
  /\ LET row == ResumedRow(s)
         now == sess[s].now
         failed == [row EXCEPT !.status = "FAILED", !.nextAttempt = 0, !.updatedAt = now]
         at == nextAttemptAt(row.attempts, now, row.deadline)
     IN  txns' = [txns EXCEPT ![sess[s].cand] =
                    IF row.deadline # 0 /\ now >= row.deadline
                    THEN failed ELSE [row EXCEPT !.nextAttempt = at]]
  /\ Finish(s)
  /\ UNCHANGED <<wallets, ledger, active, inbox, outbox, clock, acks>>

-----------------------------------------------------------------------------
(* Failures, administration and time. *)

(* A settlement the schema refuses rolls back. *)
Refused(s) ==
  /\ \/ /\ sess[s].pc = "settle"
        /\ \/ SubmitBackstop(s)
           \/ ClockMayRefuse(sess[s].wallet, SubmittedRow(s), SubmitOutcome(s), sess[s].now)
     \/ /\ sess[s].pc = "resume" /\ Carriable(ResumedRow(s))
        /\ \/ ResumeBackstop(s)
           \/ ClockMayRefuse(sess[s].wallet, ResumedRow(s), ResumeOutcome(s), sess[s].now)
  /\ Finish(s)
  /\ UNCHANGED <<db, clock, acks>>

(* A crash, a lost connection, a lock or statement timeout: the transaction *)
(* rolls back and nothing it wrote is seen.                                 *)
Abort(s) ==
  /\ sess[s] # Idle
  /\ Finish(s)
  /\ UNCHANGED <<db, clock, acks>>

(* Wallets.Open.  The insert is the only write and the unique key on player *)
(* and currency decides a race, so the call is one step; a wallet that      *)
(* exists is a conflict and changes nothing.                                *)
Open(o) ==
  LET w == o.wallet
      i == Len(txns) + 1
      opened == [player |-> o.player, currency |-> o.currency,
                 balance |-> o.amount, version |-> 1, updatedAt |-> clock]
      row == [NewExternalTransaction(OpeningOperation(o), clock)
                EXCEPT !.status = "PROCESSED", !.result = o.amount]
      entry == [tx |-> i, direction |-> "CREDIT", amount |-> o.amount,
                before |-> 0, after |-> o.amount, version |-> 1]
  IN  /\ wallets[w] = Nil
      /\ ~\E v \in Wallets : /\ wallets[v] # Nil
                             /\ wallets[v].player = o.player
                             /\ wallets[v].currency = o.currency
      /\ wallets' = [wallets EXCEPT ![w] = opened]
      /\ IF o.amount = 0 THEN UNCHANGED <<txns, ledger, outbox>>
         ELSE /\ txns' = Append(txns, row)
              /\ ledger' = [ledger EXCEPT ![w] = Append(@, entry)]
              /\ outbox' = [outbox EXCEPT ![w] = @ \o
                   <<[type |-> "Processed", tx |-> i],
                     [type |-> "BalanceChanged", tx |-> i]>>]
      /\ UNCHANGED <<active, inbox, sess, clock, acks>>

Tick ==
  /\ \/ clock < Horizon
     \/ \E i \in DOMAIN txns : Parked(txns[i]) /\ txns[i].nextAttempt > clock
  /\ clock' = clock + 1
  /\ UNCHANGED <<db, sess, acks>>

-----------------------------------------------------------------------------
Init ==
  /\ wallets = [w \in Wallets |-> Nil]
  /\ txns = <<>>
  /\ ledger = [w \in Wallets |-> <<>>]
  /\ active = {}
  /\ inbox = [m \in Messages |-> Nil]
  /\ outbox = [w \in Wallets |-> <<>>]
  /\ sess = [s \in Sessions |-> Idle]
  /\ clock = 1
  /\ acks = [op \in Operations |-> {}]

SubmitStep(s) ==
  \/ \E d \in Deliveries : Submit(s, d)
  \/ FindInbox(s) \/ RecordInbox(s) \/ ReplayByKey(s) \/ ReplayByExternal(s)
  \/ LockByID(s) \/ Record(s) \/ Settle(s) \/ ResolveDuplicate(s)

ResumeStep(s) ==
  \/ NextDue(s) \/ ResumeLock(s) \/ ClaimForUpdate(s)
  \/ Resume(s) \/ cannotCarryForward(s)

Next ==
  \/ \E s \in Submitters : SubmitStep(s)
  \/ \E s \in Workers : ResumeStep(s)
  \/ \E s \in Sessions : Refused(s) \/ Abort(s)
  \/ \E o \in Openings : Open(o)
  \/ Tick

Spec == Init /\ [][Next]_vars

(* For liveness the worker's turns are not aborted for ever.  An aborted turn *)
(* leaves no trace, so a behaviour in which they stop is one in which the     *)
(* worker idled instead, and the aborts of workers are left out.              *)
SteadyNext ==
  \/ \E s \in Submitters : SubmitStep(s) \/ Abort(s)
  \/ \E s \in Workers : ResumeStep(s)
  \/ \E s \in Sessions : Refused(s)
  \/ \E o \in Openings : Open(o)
  \/ Tick

(* Time passes.  A submission that holds locks ends: the statement and lock   *)
(* timeouts see to it.  The reference worker keeps taking turns, its wait for *)
(* a wallet is served (row locks queue), and a settlement that is refused     *)
(* only for falling into the microsecond of another is not refused for ever.  *)
Fairness ==
  /\ WF_vars(Tick)
  /\ \A s \in Submitters : WF_vars(Record(s) \/ Settle(s) \/ Abort(s))
  /\ \A s \in Workers : /\ WF_vars(NextDue(s) \/ ClaimForUpdate(s) \/ Refused(s))
                        /\ SF_vars(ResumeLock(s))
                        /\ SF_vars(Resume(s) \/ cannotCarryForward(s))

FairSpec == Init /\ [][SteadyNext]_vars /\ Fairness

-----------------------------------------------------------------------------
(* Types. *)

Amounts == 0..MaxBalance
Codes == {"CURRENCY_MISMATCH", "REFERENCE_NOT_PROCESSED", "REFERENCE_MISMATCH",
          "REFERENCE_NOT_REVERSIBLE", "REVERSAL_AMOUNT_MISMATCH",
          "REFERENCE_ALREADY_REVERSED", "REFERENCE_NOT_FOUND",
          "BALANCE_OUT_OF_RANGE", "REVERSAL_INSUFFICIENT_FUNDS",
          "INSUFFICIENT_FUNDS"}
Players == {o.player : o \in Openings}
Currencies == {o.currency : o \in Openings}

WalletRow == [player : Players, currency : Currencies, balance : Amounts,
              version : Nat \ {0}, updatedAt : Nat \ {0}]
RowOperations == Operations \cup {OpeningOperation(o) : o \in Openings}
TxnRow == [op : RowOperations, status : Statuses, code : Codes \cup {Nil},
           result : Amounts \cup {Nil}, resolved : Nat, attempts : 0..MaxAttempts,
           deadline : Nat, nextAttempt : Nat, updatedAt : Nat \ {0}]
LedgerRow == [tx : Nat \ {0}, direction : {"CREDIT", "DEBIT"}, amount : Amounts,
              before : Amounts, after : Amounts, version : Nat \ {0}]
EventRow == [type : {"Processed", "BalanceChanged", "Rejected", "PendingReference"},
             tx : Nat \ {0}]
ActiveRow == [reference : Nat, reversal : Nat \ {0}, kind : {"REFUND", "ROLLBACK"}]
View == [id : Nat \ {0}, op : RowOperations, status : Statuses,
         reversals : SUBSET [kind : Kinds, reversed : BOOLEAN]]
Session == [pc : {"idle", "findInbox", "recordInbox", "byKey", "byExternal", "lock",
                  "record", "settle", "duplicate", "claimLock", "claim", "resume"},
            request : Deliveries \cup {Nil}, cand : Nat, wallet : Wallets \cup {Nil},
            now : Nat, held : WalletRow \cup {Nil}, view : View \cup {Nil}]

(* The absent wallet is not a wallet and the absent reference not a view. *)
ASSUME NilAssumption == Nil \notin WalletRow /\ Nil \notin View

(* Every table holds rows of its type and every session is at one of its *)
(* statements.                                                           *)
TypeOK ==
  /\ wallets \in [Wallets -> WalletRow \cup {Nil}]
  /\ txns \in Seq(TxnRow)
  /\ ledger \in [Wallets -> Seq(LedgerRow)]
  /\ active \in SUBSET ActiveRow
  /\ inbox \in [Messages -> Operations \cup {Nil}]
  /\ outbox \in [Wallets -> Seq(EventRow)]
  /\ sess \in [Sessions -> Session]
  /\ clock \in Nat \ {0}
  /\ acks \in [Operations -> SUBSET (Nat \ {0})]

-----------------------------------------------------------------------------
(* Money. *)

(* What an entry moves, when it is of a transaction in S. *)
Signed(entry, S) ==
  IF entry.tx \notin S THEN 0
  ELSE IF entry.direction = "CREDIT" THEN entry.amount ELSE -entry.amount

Net(entries, S) ==
  LET sum[k \in 0..Len(entries)] ==
        IF k = 0 THEN 0 ELSE sum[k - 1] + Signed(entries[k], S)
  IN  sum[Len(entries)]

(* What the entries of the transactions in S have moved on a wallet. *)
NetMoved(w, S) == Net(ledger[w], S)

(* The wallet and its ledger end in the same place, and the entries follow   *)
(* each other from zero, each moving the balance by its amount, without a gap *)
(* in balance or version: no interleaving loses or repeats an update.         *)
WalletMatchesLedger ==
  \A w \in Wallets :
    IF wallets[w] = Nil THEN ledger[w] = <<>>
    ELSE /\ wallets[w].version =
              IF ledger[w] = <<>> THEN 1 ELSE LastEntry(w).version
         /\ wallets[w].balance =
              IF ledger[w] = <<>> THEN 0 ELSE LastEntry(w).after
         /\ \A k \in 1..Len(ledger[w]) :
              LET e == ledger[w][k]
              IN  /\ e.after = applyDirection(e.direction, e.before, e.amount)
                  /\ k = 1 => e.before = 0
                  /\ k > 1 => /\ e.before = ledger[w][k - 1].after
                              /\ e.version = ledger[w][k - 1].version + 1

(* Between taking the wallet's row lock and COMMIT a transaction is the only *)
(* one at the wallet, and what it read under the lock is still what the      *)
(* table holds: nothing it decides is decided on a stale balance.            *)
HeldIsCurrent ==
  \A s \in Sessions :
    sess[s].pc \in Locked =>
      /\ sess[s].held # Nil /\ sess[s].held = wallets[sess[s].wallet]
      /\ \A t \in Sessions \ {s} : ~HoldsLock(t, sess[s].wallet)

(* Reconciliation finds no divergence: the balance is the ledger summed, *)
(* credits less debits, the opening included.                            *)
BalanceIsLedgerSum ==
  \A w \in Wallets :
    wallets[w] # Nil => wallets[w].balance = NetMoved(w, DOMAIN txns)

(* An operation is applied to its wallet exactly once if it is PROCESSED and *)
(* moves money, and never otherwise: not twice when its delivery, its        *)
(* resumption or its caller's retry raced or was repeated.                   *)
AppliedExactlyOnce ==
  \A i \in DOMAIN txns, w \in Wallets :
    LET op == txns[i].op
        entries == {k \in DOMAIN ledger[w] : ledger[w][k].tx = i}
    IN  IF txns[i].status = "PROCESSED" /\ MovesMoney(op.kind) /\ w = op.wallet
        THEN \E k \in entries : /\ entries = {k}
                                /\ ledger[w][k].amount = op.amount
                                /\ ledger[w][k].after = txns[i].result
        ELSE entries = {}

SettledReversalsOf(S) ==
  {j \in DOMAIN txns : IsSettledReversal(txns[j]) /\ txns[j].resolved \in S}

(* A bet or a win and every reversal of it, and of those reversals. *)
Family(i) ==
  LET once   == SettledReversalsOf({i})
      twice  == SettledReversalsOf(once)
      thrice == SettledReversalsOf(twice)
  IN  {i} \cup once \cup twice \cup thrice

(* Through any sequence of refunds and rollbacks, a bet or a win and all    *)
(* that reverses it come to the original movement or to nothing, and to     *)
(* nothing exactly while the active_reversal table says something holds it: *)
(* a stake is never returned twice and never taken twice.                   *)
ReversalsNetOut ==
  \A i \in DOMAIN txns :
    txns[i].status = "PROCESSED" /\ txns[i].op.kind \in {"BET", "WIN"} =>
      NetMoved(txns[i].op.wallet, Family(i)) =
        IF \E a \in active : a.reference = i THEN 0
        ELSE NetMoved(txns[i].op.wallet, {i})

(* The gates behind the wallet lock are never met: when a transaction comes *)
(* to write, the version it read is the wallet's, its entry continues the   *)
(* chain, and the reference it decided on is still free.                    *)
BackstopsUnreachable ==
  \A s \in Sessions : /\ sess[s].pc = "settle" => ~SubmitBackstop(s)
                      /\ sess[s].pc = "resume" => ~ResumeBackstop(s)

-----------------------------------------------------------------------------
(* Idempotency. *)

(* One row for an idempotency key and one for an external id, and callers    *)
(* are only ever answered with the row of their own key and their own        *)
(* payload, which is there for good.                                         *)
AnswersAgree ==
  /\ \A i, j \in DOMAIN txns :
       i # j /\ txns[i].op.provider # Nil /\ txns[i].op.provider = txns[j].op.provider =>
         txns[i].op.key # txns[j].op.key /\ txns[i].op.ext # txns[j].op.ext
  /\ \A op \in Operations : \A i \in acks[op] :
       i \in DOMAIN txns /\ txns[i].op = op

(* A message is in the inbox only with the operation it asked for recorded: *)
(* the two commit together, so no crash leaves a message handled and its    *)
(* operation unknown.                                                       *)
HandledMeansRecorded ==
  \A m \in Messages : inbox[m] # Nil => \E i \in DOMAIN txns : txns[i].op = inbox[m]

(* A row's operation never changes, a settled row never changes at all, the *)
(* deadline its first park set is kept, and PENDING is never committed.     *)
RowsOnlyMoveForward ==
  [][ \A i \in DOMAIN txns' :
        /\ txns'[i].status # "PENDING"
        /\ i \in DOMAIN txns =>
             /\ txns'[i].op = txns[i].op
             /\ IsTerminal(txns[i].status) => txns'[i] = txns[i]
             /\ txns'[i].attempts >= txns[i].attempts
             /\ txns[i].deadline # 0 => txns'[i].deadline = txns[i].deadline
      ]_txns

-----------------------------------------------------------------------------
(* Waiting. *)

(* An operation never sleeps through the arrival of what it waits for: once *)
(* its reference on the same wallet is PROCESSED it is due, although the    *)
(* two may have been submitted at the same time.                            *)
NoLostWakeup ==
  \A i, j \in DOMAIN txns :
    /\ Parked(txns[i]) /\ Carriable(txns[i])
    /\ txns[j].status = "PROCESSED"
    /\ txns[j].op.wallet = txns[i].op.wallet
    /\ txns[j].op.provider = txns[i].op.provider
    /\ txns[j].op.ext = txns[i].op.ref
    => txns[i].nextAttempt <= clock

(* A parked operation has a schedule, within its budget: looked at again no *)
(* later than its deadline unless something woke it after that, and the     *)
(* deadline is the one its first park set.                                  *)
WaitIsBounded ==
  \A i \in DOMAIN txns :
    Parked(txns[i]) =>
      /\ txns[i].attempts > 0 /\ txns[i].nextAttempt > 0
      /\ \/ txns[i].nextAttempt <= txns[i].deadline
         \/ txns[i].nextAttempt <= clock
      /\ txns[i].updatedAt < txns[i].deadline

(* The clock is read once per command, under the wallet lock, so a command    *)
(* that queued behind another never comes to write an instant older than the *)
(* one that went first, which the schema would refuse.                        *)
StampNeverStale ==
  \A s \in Sessions :
    /\ sess[s].pc = "settle" =>
         ~ClockRefuses(sess[s].wallet, SubmittedRow(s), SubmitOutcome(s), sess[s].now)
    /\ sess[s].pc = "resume" =>
         ~ClockRefuses(sess[s].wallet, ResumedRow(s), ResumeOutcome(s), sess[s].now)

(* An operation does not wait forever: whatever it waits for, it is carried *)
(* to PROCESSED, REJECTED or FAILED.                                        *)
ParkedEventuallySettles ==
  \A i \in 1..Cardinality(Operations) + Cardinality(Openings) :
    (i \in DOMAIN txns /\ Parked(txns[i])) ~>
      (i \in DOMAIN txns /\ IsTerminal(txns[i].status))

(* Every settlement is announced once, in the order the wallet moved: one    *)
(* Processed or Rejected event for a settled row, a PendingReference event   *)
(* per attempt, and a BalanceChanged event for each ledger entry and for     *)
(* nothing else, in the order of the entries.                                *)
OutboxTellsTheStory ==
  /\ \A i \in DOMAIN txns :
       LET events(type) == {k \in DOMAIN outbox[txns[i].op.wallet] :
                              outbox[txns[i].op.wallet][k] = [type |-> type, tx |-> i]}
       IN  /\ Cardinality(events("Processed")) =
                IF txns[i].status = "PROCESSED" THEN 1 ELSE 0
           /\ Cardinality(events("Rejected")) =
                IF txns[i].status = "REJECTED" THEN 1 ELSE 0
           /\ Cardinality(events("PendingReference")) = txns[i].attempts
  /\ \A w \in Wallets :
       LET moves == {k \in DOMAIN outbox[w] : outbox[w][k].type = "BalanceChanged"}
           Announces(k, n) == outbox[w][k].tx = ledger[w][n].tx
       IN  /\ \A k \in moves : \E n \in DOMAIN ledger[w] : Announces(k, n)
           /\ \A n \in DOMAIN ledger[w] : \E k \in moves : Announces(k, n)
           /\ \A k, l \in moves, n, m \in DOMAIN ledger[w] :
                Announces(k, n) /\ Announces(l, m) => (k < l <=> n < m)
=============================================================================
