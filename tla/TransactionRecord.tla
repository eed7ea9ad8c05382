-------------------------- MODULE TransactionRecord -------------------------
(***************************************************************************)
(* The record of one operation, in its three forms: the transaction the     *)
(* domain works on (internal/domain/wagering/transaction.go), the snapshot  *)
(* it is taken apart into and rebuilt from (transaction_snapshot.go), and   *)
(* the row it is stored as (internal/adapters/postgres/rows.go) under the   *)
(* constraints of migrations/000004 and 000010.  Every form spells absence  *)
(* in its own way: the domain with an empty string, the zero time or an     *)
(* uninitialised amount, the row with NULL.                                 *)
(*                                                                         *)
(* What the other modules take for granted is the subject here: that a row  *)
(* the service writes is one the schema admits and one it can read back,    *)
(* and which rows the schema admits that the type refuses to rebuild.       *)
(***************************************************************************)
EXTENDS Integers, FiniteSets

CONSTANTS
  Nil,          \* absence in the domain
  NULL,         \* absence in a row
  MaxBalance, MaxAttempts, TTL,
  Currencies, Home,   \* the currencies supported, and the one of the wallet
  MaxClock,     \* bound: instants of the clock
  MaxWrites     \* bound: rows written by something other than this service

D == INSTANCE WageringDomain

VARIABLES
  row,       \* the stored row, or NULL
  wallet,    \* the player and the currency of the wallet the row names
  tx,        \* the transaction in memory while a use case works on it, or Nil
  stored,    \* history: the transaction the row was last written from, or Nil
  refused,   \* the constraints a write of this service has just broken
  clock,     \* the application's clock
  writes     \* how often something else has written the row

recordVars == <<row, wallet, tx, stored, refused, clock, writes>>

-----------------------------------------------------------------------------
(* Values.  An identifier is good, malformed, or spaced: surrounded by a    *)
(* white space that Unicode knows and ASCII does not, U+00A0 for one.  Of   *)
(* the six a provider owns, `provider' stands for itself and `own' for the  *)
(* other names.  A currency code is supported, or has the form of one, or   *)
(* not even that.  The instant 0 is Go's zero time; "zero" is the nil UUID, *)
(* in the column id and, for what is made of it, in wallet_id.              *)
Names == {"own", "other", "malformed", "spaced"}
CurrencyCodes == Currencies \cup {"unsupported", "malformed"}
Ids == {"id", "zero"}
Resolved == {"reference", "stranger", "missing"}
Settling == {"definitive"}
FailureCodes == Settling \cup {"correctable", "audit"}
Sums == [units : -1 .. 1, currency : Currencies]

(* A transaction's provider side. *)
Externals == [provider : Names, own : Names, hash : {"hash"}, named : Names \cup {Nil},
              resolved : Resolved \cup {Nil}]

(* The columns of wager_transaction. *)
Rows ==
  [id : Ids, player : Names, kind : D!Kinds, currency : CurrencyCodes, amount : -1 .. 1,
   status : D!Statuses, provider : Names \cup {NULL}, own : Names \cup {NULL},
   hash : {"hash", NULL}, named : Names \cup {NULL}, resolved : Resolved \cup {NULL},
   result : (-1 .. 1) \cup {NULL}, code : FailureCodes \cup {NULL}, attempts : Int,
   deadline : Nat \cup {NULL}, next : (Nat \ {0}) \cup {NULL}, created : Int, updated : Int]

(* Two more rows of the table: the one of this provider that goes by the    *)
(* name `other', and one another provider calls so.                         *)
Others == {[id |-> "reference", provider |-> "own", own |-> "other"],
           [id |-> "stranger", provider |-> "other", own |-> "other"]}

(* An absence is told from every value, in memory and in a column, and the  *)
(* codes that are not supported from those that are.                        *)
ASSUME RecordAssumption ==
  /\ MaxAttempts \in Nat \ {0} /\ TTL \in Nat \ {0} /\ MaxClock \in Nat \ {0}
  /\ Home \in Currencies /\ "unsupported" \notin Currencies /\ "malformed" \notin Currencies
  /\ Nil \notin Names \cup Resolved \cup FailureCodes \cup {"hash", "id"} \cup Sums \cup Externals
  /\ NULL \notin Names \cup Resolved \cup FailureCodes \cup {"hash", "id"} \cup Int \cup Rows

(* parseOpaque trims what Unicode calls white space, the domain opaque_id   *)
(* what ASCII does; ParseCurrency has a list, currency_code a pattern.      *)
Good(name) == name \in {"own", "other"}
opaque_id(name) == name # "malformed"
isSupported(code) == code \in Currencies
currency_code(code) == code # "malformed"

-----------------------------------------------------------------------------
(* The domain's transaction. *)
validateProviderFields(player, ext) == Good(ext.provider) /\ Good(ext.own) /\ Good(player)

checkAmount(kind, amount) == IF kind = "LOSS" THEN amount.units = 0 ELSE amount.units > 0

checkReference(kind, own, named) ==
  /\ D!IsReversal(kind) => named # Nil
  /\ ~D!AllowsReference(kind) => named = Nil
  /\ named # Nil => Good(named) /\ named # own

checkReportedBalance(balance, currency) == balance.currency = currency /\ balance.units >= 0

checkSettlingCode(code) == code \in Settling

New(player, kind, amount, status, external, result) ==
  [id |-> "id", player |-> player, kind |-> kind, amount |-> amount, status |-> status,
   created |-> clock, updated |-> clock, external |-> external, result |-> result, code |-> Nil,
   attempts |-> 0, deadline |-> 0]

(* Command.Validate, and the record of the submission. *)
NewExternalTransactions ==
  {t \in {New(player, kind, amount, "PENDING",
              [provider |-> "own", own |-> own, hash |-> "hash", named |-> named, resolved |-> Nil],
              Nil) : player \in Names, kind \in D!Kinds \ {"OPENING"}, amount \in Sums,
                     own \in Names, named \in Names \cup {Nil}} :
     /\ validateProviderFields(t.player, t.external) /\ checkAmount(t.kind, t.amount)
     /\ checkReference(t.kind, t.external.own, t.external.named)}

newOpeningTransactions ==
  {New("own", "OPENING", amount, "PROCESSED", Nil, amount) :
     amount \in {a \in Sums : a.units > 0 /\ a.currency = Home}}

transition(t, next) == [t EXCEPT !.status = next, !.updated = clock]

MarkProcessed(t, balance) ==
  IF checkReportedBalance(balance, t.amount.currency) /\ D!CanTransitionTo(t.status, "PROCESSED")
  THEN {[transition(t, "PROCESSED") EXCEPT !.result = balance]} ELSE {}

BudgetExhausted(t) ==
  t.attempts >= MaxAttempts \/ (t.deadline # 0 /\ clock >= t.deadline)

MarkPendingReference(t) ==
  IF ~BudgetExhausted(t) /\ D!CanTransitionTo(t.status, "PENDING_REFERENCE")
  THEN {[transition(t, "PENDING_REFERENCE") EXCEPT
           !.deadline = IF @ = 0 THEN clock + TTL ELSE @, !.attempts = @ + 1]}
  ELSE {}

Reject(t, code) ==
  IF checkSettlingCode(code) /\ D!CanTransitionTo(t.status, "REJECTED")
  THEN {[transition(t, "REJECTED") EXCEPT !.code = code]} ELSE {}

Fail(t) == IF D!CanTransitionTo(t.status, "FAILED") THEN {transition(t, "FAILED")} ELSE {}

ResolveReference(t, id) ==
  IF /\ t.external # Nil /\ ~D!IsTerminal(t.status)
     /\ t.external.named # Nil /\ t.external.resolved \in {Nil, id}
  THEN {[t EXCEPT !.external.resolved = id]} ELSE {}

(* Every step the type lets a caller take. *)
Calls(t) ==
  UNION ( {MarkProcessed(t, b) : b \in Sums} \cup {Reject(t, c) : c \in FailureCodes}
          \cup {ResolveReference(t, r) : r \in Resolved}
          \cup {MarkPendingReference(t), Fail(t)} )

-----------------------------------------------------------------------------
(* The row. *)
idFrom(v) == IF v \in {NULL, "zero"} THEN Nil ELSE v
textOf(s) == IF s = Nil THEN NULL ELSE s
textFrom(v) == IF v = NULL THEN Nil ELSE v
timeOf(t) == IF t = 0 THEN NULL ELSE t
timeFrom(v) == IF v = NULL THEN 0 ELSE v

(* snapshotOf and transactionArgs: a transaction without a provider side    *)
(* writes NULL into all of the provider's columns, and a balance is written *)
(* in the transaction's currency, which has one column.                     *)
transactionArgs(t, next) ==
  LET ext(field) == IF t.external = Nil THEN NULL ELSE textOf(t.external[field])
  IN [id |-> t.id, player |-> t.player, kind |-> t.kind, currency |-> t.amount.currency,
      amount |-> t.amount.units, status |-> t.status,
      provider |-> ext("provider"), own |-> ext("own"), hash |-> ext("hash"), named |-> ext("named"), resolved |-> ext("resolved"),
      result |-> IF t.result = Nil THEN NULL ELSE t.result.units,
      code |-> textOf(t.code), attempts |-> t.attempts, deadline |-> timeOf(t.deadline),
      next |-> timeOf(next), created |-> t.created, updated |-> t.updated]

(* transactionRow.transaction, up to the checks. *)
Snapshot(r) ==
  [id |-> idFrom(r.id), player |-> r.player, kind |-> r.kind,
   amount |-> [units |-> r.amount, currency |-> r.currency], status |-> r.status,
   created |-> r.created, updated |-> r.updated,
   external |-> IF r.provider = NULL THEN Nil
                ELSE [provider |-> r.provider, own |-> textFrom(r.own), hash |-> textFrom(r.hash),
                      named |-> textFrom(r.named), resolved |-> idFrom(r.resolved)],
   result |-> IF r.result = NULL THEN Nil ELSE [units |-> r.result, currency |-> r.currency],
   code |-> textFrom(r.code), attempts |-> r.attempts, deadline |-> timeFrom(r.deadline)]

validateOrigin(s) ==
  IF s.kind = "OPENING" THEN s.external = Nil /\ s.status = "PROCESSED"
  ELSE s.external # Nil /\ validateProviderFields(s.player, s.external) /\ s.external.hash # Nil

validateSettlement(s) ==
  /\ s.code # Nil => s.code \in FailureCodes
  /\ (s.status = "PROCESSED") = (s.result # Nil)
  /\ (s.status = "REJECTED") = (s.code # Nil)
  /\ s.status = "REJECTED" => checkSettlingCode(s.code)
  /\ s.result # Nil => checkReportedBalance(s.result, s.amount.currency)

validateReference(s) ==
  s.external # Nil =>
    /\ checkReference(s.kind, s.external.own, s.external.named)
    /\ s.external.named = Nil => s.external.resolved = Nil

validateWaitBudget(s) ==
  /\ s.attempts >= 0
  /\ (s.attempts > 0) = (s.deadline # 0)
  /\ s.status = "PENDING_REFERENCE" => s.attempts > 0

RehydrateWagerTransaction(s) ==
  /\ s.id # Nil /\ s.kind \in D!Kinds /\ s.status \in D!Statuses
  /\ s.created # 0 /\ s.updated # 0 /\ s.updated >= s.created /\ Good(s.player)
  /\ validateOrigin(s) /\ checkAmount(s.kind, s.amount) /\ validateSettlement(s)
  /\ validateReference(s) /\ validateWaitBudget(s)

(* transactionRow.transaction, which parses the currency before it asks for *)
(* the rest; a row it refuses is reported as corrupt.                       *)
Loads(r) == isSupported(r.currency) /\ RehydrateWagerTransaction(Snapshot(r))

-----------------------------------------------------------------------------
(* The schema: its constraints by name, for a row and the wallet it is of,  *)
(* and those it breaks.  Of the keys over several rows it has one; the      *)
(* other keys tell the same operations apart, and are Wagering's.           *)
Count(r, columns) == Cardinality({c \in columns : r[c] # NULL})

Holds(r, w) ==
  [ kind_is_known |-> r.kind \in D!Kinds,
    status_is_known |-> r.status \in D!Statuses,
    opaque_id |-> \A c \in {"player", "provider", "own", "named"} : opaque_id(r[c]),
    currency_code |-> currency_code(r.currency),
    wallet_fkey |-> r.player = w.player,
    provider_external_key |-> \A x \in Others : x.provider # r.provider \/ x.own # r.own,
    origin_carries_its_fields |->
      Count(r, {"provider", "own", "hash"}) = IF r.kind = "OPENING" THEN 0 ELSE 3,
    opening_is_born_processed |-> r.kind # "OPENING" \/ r.status = "PROCESSED",
    amount_follows_kind |-> IF r.kind = "LOSS" THEN r.amount = 0 ELSE r.amount > 0,
    reference_follows_kind |->
      CASE D!IsReversal(r.kind) -> r.named # NULL
        [] r.kind = "WIN" -> TRUE
        [] OTHER -> r.named = NULL,
    does_not_reference_itself |-> r.named = NULL \/ r.named # r.own,
    resolves_only_what_it_names |-> r.resolved = NULL \/ r.named # NULL,
    resolved_reference_fkey |-> r.resolved = NULL \/ \E x \in Others : x.id = r.resolved,
    resolves_the_one_it_names |->
      \/ NULL \in {r.provider, r.named, r.resolved}
      \/ [id |-> r.resolved, provider |-> r.provider, own |-> r.named] \in Others,
    processed_reversal_is_resolved |->
      ~(r.status = "PROCESSED" /\ D!IsReversal(r.kind)) \/ r.resolved # NULL,
    processed_reports_a_balance |-> (r.status = "PROCESSED") = (r.result # NULL),
    result_is_never_negative |-> r.result = NULL \/ r.result >= 0,
    rejected_names_a_code |-> (r.status = "REJECTED") = (r.code # NULL),
    settling_code_fkey |-> r.code \in Settling \cup {NULL},
    attempts_are_never_negative |-> r.attempts >= 0,
    deadline_accompanies_attempts |-> (r.attempts > 0) = (r.deadline # NULL),
    waiting_has_waited |-> r.status = "PENDING_REFERENCE" => r.attempts > 0,
    only_waiting_is_scheduled |-> (r.status = "PENDING_REFERENCE") = (r.next # NULL),
    updated_at_follows_created_at |-> r.updated >= r.created,
    processed_in_wallet_currency |-> r.status = "PROCESSED" => r.currency = w.currency ]

Broken(r, w) == LET holds == Holds(r, w) IN {c \in DOMAIN holds : ~holds[c]}

(* A mutant schema without the rule that work that waits has waited. *)
BrokenButForWaiting(r, w) == Broken(r, w) \ {"waiting_has_waited"}
Refusals(r, w) == Broken(r, w)

(* wager_transaction_guard, on an update. *)
Guarded(old, new) ==
  (IF \E c \in {"id", "player", "kind", "currency", "amount", "created"} : new[c] # old[c]
     THEN {"operation_is_immutable"} ELSE {})
  \cup (IF \E c \in {"provider", "own", "hash", "named"} : new[c] # old[c]
          THEN {"provider_fields_are_immutable"} ELSE {})
  \cup (IF old.resolved # NULL /\ new.resolved # old.resolved
          THEN {"resolution_is_decided_once"} ELSE {})
  \cup (IF new.status # old.status /\ D!IsTerminal(old.status)
          THEN {"terminal_status_is_final"} ELSE {})
  \cup (IF new.status # old.status /\ new.status = "PENDING"
          THEN {"does_not_return_to_pending"} ELSE {})
  \cup (IF new.updated < old.updated THEN {"clock_moves_forward"} ELSE {})

(* What a reversal meets when it completes, depending on the reversals      *)
(* there are of the same reference: they are Wagering's, and here any rule  *)
(* may refuse it or none.                                                   *)
Contested(old, new) ==
  IF /\ old.status # "PROCESSED" /\ new.status = "PROCESSED"
     /\ D!IsReversal(new.kind) /\ new.resolved # NULL
  THEN {"active_reversal_pkey", "active_reversal_reference_is_reversible",
        "one_successful_reversal_per_kind"}
  ELSE {}

-----------------------------------------------------------------------------
RecordInit ==
  /\ row = NULL /\ wallet = [player |-> "own", currency |-> Home]
  /\ tx = Nil /\ stored = Nil /\ refused = {} /\ clock = 1 /\ writes = 0

(* A write of t as r: the row and what was written, or, when a constraint   *)
(* refuses it, the transaction rolled back and nothing kept in memory.      *)
Write(r, t, refusals) ==
  /\ IF refusals = {} THEN row' = r /\ stored' = t /\ tx' = t
     ELSE tx' = Nil /\ UNCHANGED <<row, stored>>
  /\ refused' = refusals
  /\ UNCHANGED <<wallet, clock, writes>>

(* transactions.Record for a submission, the open door for an opening.  A   *)
(* submission whose key is taken inserts nothing.                           *)
Record ==
  /\ row = NULL /\ refused = {}
  /\ \E t \in NewExternalTransactions \cup newOpeningTransactions :
       LET r == transactionArgs(t, 0)
       IN "provider_external_key" \notin Broken(r, wallet) /\ Write(r, t, Refusals(r, wallet))

(* Every reader, the claim of the reference worker among them. *)
Load ==
  /\ row # NULL /\ tx = Nil /\ refused = {} /\ Loads(row)
  /\ tx' = Snapshot(row)
  /\ UNCHANGED <<row, wallet, stored, refused, clock, writes>>

Call ==
  /\ tx # Nil
  /\ tx' \in Calls(tx)
  /\ UNCHANGED <<row, wallet, stored, refused, clock, writes>>

(* A mutant: the settle door leaves the resolved reference as it was. *)
SettleWithoutResolution(t) ==
  LET next == IF t.status = "PENDING_REFERENCE" THEN clock + 1 ELSE 0
      written == transactionArgs(t, next)
  IN [row EXCEPT !.status = written.status, !.result = written.result, !.code = written.code,
                 !.attempts = written.attempts, !.deadline = written.deadline,
                 !.next = written.next, !.updated = written.updated]

(* The settle door's UPDATE: what settling may change, and the schedule,    *)
(* which only a parked operation has.                                       *)
settleTransaction(t) ==
  LET next == IF t.status = "PENDING_REFERENCE" THEN clock + 1 ELSE 0
      written == transactionArgs(t, next)
  IN [row EXCEPT !.status = written.status, !.result = written.result, !.code = written.code,
                 !.resolved = written.resolved, !.attempts = written.attempts,
                 !.deadline = written.deadline, !.next = written.next,
                 !.updated = written.updated]

settle ==
  /\ tx # Nil /\ row # NULL /\ tx.status \in {"PENDING_REFERENCE", "PROCESSED", "REJECTED"}
  /\ LET r == settleTransaction(tx)
     IN \E met \in {{}} \cup {{c} : c \in Contested(row, r)} :
          Write(r, tx, Guarded(row, r) \cup Refusals(r, wallet) \cup met)

(* transactions.Fail, which writes the status, the time and the schedule    *)
(* of a transaction claimed, moved and not otherwise touched.               *)
failTransaction ==
  /\ tx # Nil /\ row # NULL /\ Loads(row)
  /\ tx \in Fail(Snapshot(row))
  /\ LET r == [row EXCEPT !.status = tx.status, !.updated = tx.updated, !.next = NULL]
     IN Write(r, tx, Guarded(row, r) \cup Refusals(r, wallet))

(* The use case ends, or its caller learns that it was refused: what it has *)
(* not written is forgotten.                                                *)
Return ==
  /\ tx # Nil \/ refused # {}
  /\ tx' = Nil /\ refused' = {}
  /\ UNCHANGED <<row, wallet, stored, clock, writes>>

(* The clock, which an adjustment may also set back. *)
Adjust ==
  /\ clock' \in (1 .. MaxClock) \ {clock} /\ clock' <= clock + 1
  /\ UNCHANGED <<row, wallet, tx, stored, refused, writes>>

(* Something other than this service writes the row, one group of columns   *)
(* that belong together at a time, or a row like it and the wallet it is    *)
(* of: past the guard of updates, and under every other constraint.         *)
TamperColumns ==
  \/ \E i \in Ids : row' = [row EXCEPT !.id = i]
  \/ \E k \in D!Kinds \cup {"unknown"} : row' = [row EXCEPT !.kind = k]
  \/ \E a \in -1 .. 1, c \in CurrencyCodes : row' = [row EXCEPT !.amount = a, !.currency = c]
  \/ \E s \in D!Statuses \cup {"unknown"}, b \in {NULL, -1, 0},
        c \in FailureCodes \cup {NULL, "unknown"}, n \in {NULL, 1} :
       row' = [row EXCEPT !.status = s, !.result = b, !.code = c, !.next = n]
  \/ \E p \in Names \cup {NULL}, o \in Names \cup {NULL}, h \in {"hash", NULL} :
       row' = [row EXCEPT !.provider = p, !.own = o, !.hash = h]
  \/ \E n \in Names \cup {NULL}, i \in Resolved \cup {NULL} :
       row' = [row EXCEPT !.named = n, !.resolved = i]
  \/ \E a \in -1 .. MaxAttempts, d \in {NULL, 0, 1} :
       row' = [row EXCEPT !.attempts = a, !.deadline = d]
  \/ \E c \in 0 .. MaxClock, u \in 0 .. MaxClock :
       row' = [row EXCEPT !.created = c, !.updated = u]

TamperWallet ==
  \E p \in Names, c \in CurrencyCodes :
    /\ wallet' = [player |-> p, currency |-> c]
    /\ row' = [row EXCEPT !.player = p, !.currency = c]

TamperRecord ==
  /\ row # NULL /\ tx = Nil /\ refused = {} /\ writes < MaxWrites
  /\ \/ TamperColumns /\ UNCHANGED wallet
     \/ TamperWallet
  /\ row' # row /\ Refusals(row', wallet') = {}
  /\ stored' = Nil /\ writes' = writes + 1
  /\ UNCHANGED <<tx, refused, clock>>

RecordNext ==
  Record \/ Load \/ Call \/ settle \/ failTransaction \/ Return \/ Adjust \/ TamperRecord

RecordSpec == RecordInit /\ [][RecordNext]_recordVars

-----------------------------------------------------------------------------
(* What is read back is what was written: every field of the transaction a  *)
(* row was written from survives the spellings of absence, the one currency *)
(* column and the statement that names only some of the columns.            *)
StoredReadsBack == stored # Nil => Snapshot(row) = stored

(* Of all a caller can do with a transaction, the schema refuses only what  *)
(* the type cannot see: what takes another row to know (the wallet of       *)
(* another player or currency, a reference that is not there, is not the    *)
(* one named or is already reversed), that the processor settled a reversal *)
(* it had not resolved, and that the clock went back between two writes.    *)
BeyondTheType ==
  {"wallet_fkey", "processed_in_wallet_currency", "provider_external_key",
   "resolved_reference_fkey", "resolves_the_one_it_names",
   "active_reversal_pkey", "active_reversal_reference_is_reversible",
   "one_successful_reversal_per_kind", "processed_reversal_is_resolved",
   "clock_moves_forward", "updated_at_follows_created_at"}

(* Where the schema is the coarser net: it takes an identifier that only    *)
(* Unicode finds white space around, a currency that has the form of one,   *)
(* the year one and the nil UUID.                                           *)
Coarser(r) ==
  \/ \E c \in {"player", "provider", "own", "named"} : r[c] = "spaced"
  \/ r.currency = "unsupported"
  \/ 0 \in {r.created, r.updated, r.deadline}
  \/ r.id = "zero"

(* Of the rows the schema admits, whoever wrote them, exactly those it is   *)
(* coarser about are called corrupt: every other rule is stated twice and   *)
(* alike.  None of them is written by this service, whatever its callers do *)
(* and however its clock moves; and what the schema refuses of its writes,  *)
(* the type had no way to see.                                              *)
CorruptOnlyWhereCoarser ==
  /\ row # NULL => (Loads(row) <=> ~Coarser(row))
  /\ stored # Nil => Loads(row)
  /\ refused \subseteq BeyondTheType
=============================================================================
