----------------------------- MODULE WalletReads ----------------------------
(***************************************************************************)
(* The service's reads of a wallet (internal/app/wallets.go): paging its    *)
(* ledger with a cursor and reconciling its balance with its ledger, while  *)
(* operations keep moving the wallet.  A read is a transaction of several   *)
(* statements under one snapshot (WithinSnapshot); the pages of a ledger    *)
(* are separate transactions, tied together by the cursor alone.            *)
(***************************************************************************)
EXTENDS Money, SequencesExt

CONSTANTS
  Wallets,             \* wallets, all in one currency
  Elsewhere,           \* a wallet other than those, whose cursors circulate too
  Amounts,             \* amounts operations move
  MaxEntries,          \* bound: entries of a ledger
  MaxTampers,          \* bound: rows altered by something other than this service
  Limits,              \* page sizes a caller asks for
  defaultLedgerPage, maxLedgerPage

ASSUME ReadsAssumption ==
  /\ Amounts \subseteq 1 .. MaxInt /\ MaxEntries \in Nat /\ MaxTampers \in Nat
  /\ maxLedgerPage \in Nat /\ defaultLedgerPage \in 1 .. maxLedgerPage /\ Limits \subseteq Int
  /\ None \notin Wallets /\ Supported # {}

VARIABLES
  wallets,   \* the wallet rows: balance and version
  ledger,    \* the entries of each wallet, in the order they were written
  altered,   \* history: wallets something else has written to
  tampers,   \* how often
  pager,     \* a caller following the cursors of one wallet
  audit      \* a reconciliation of one wallet

vars == <<wallets, ledger, altered, tampers, pager, audit>>

Currency == CHOOSE c \in Supported : TRUE
Cash(units) == Money(units, Currency)

NoCursor == [wallet |-> None, version |-> 0]
Cursors == [wallet : Wallets \cup {Elsewhere}, version : 1 .. MaxEntries]
NoPage == [wallet |-> None, at |-> "idle", cursor |-> NoCursor, limit |-> 0, snapshot |-> <<>>,
           seen |-> <<>>]
NoAudit == [wallet |-> None, at |-> "idle", row |-> None, snapshot |-> <<>>, intact |-> TRUE,
            report |-> None]

Entry(w, version, d, before, amount, after) ==
  [wallet |-> w, transaction |-> version, version |-> version, direction |-> d,
   amount |-> amount, before |-> before, after |-> after]

(* OpenWallet: a wallet is born at version 1, with the entry of its opening *)
(* when it opens with money in it and with none when it opens at zero.      *)
Init ==
  /\ \E opening \in [Wallets -> {0} \cup Amounts] :
       /\ wallets = [w \in Wallets |-> [balance |-> Cash(opening[w]), version |-> 1]]
       /\ ledger = [w \in Wallets |->
                      IF opening[w] = 0 THEN <<>>
                      ELSE <<Entry(w, 1, "CREDIT", Cash(0), Cash(opening[w]), Cash(opening[w]))>>]
  /\ altered = {} /\ tampers = 0
  /\ pager = NoPage /\ audit = NoAudit

applyDirection(d, balance, amount) ==
  IF d = "CREDIT" THEN Add(balance, amount) ELSE Sub(balance, amount)

(* NewWalletLedgerEntry and RehydrateWalletLedgerEntry, which ask the same: *)
(* an entry that misreports its movement is never built, nor loaded.        *)
NewWalletLedgerEntry(e) ==
  /\ e.version >= 1
  /\ e.amount.units > 0 /\ e.before.units >= 0 /\ e.after.units >= 0
  /\ LET expected == applyDirection(e.direction, e.before, e.amount)
     IN expected.ok /\ Equal(expected.value, e.after)

RehydrateWallet(row) == row.balance.units >= 0 /\ row.version >= 1

(* A movement, committed: the wallet and the entry that explains it. *)
Move(w) ==
  /\ Len(ledger[w]) < MaxEntries
  /\ \E d \in {"CREDIT", "DEBIT"}, amount \in Amounts :
       LET after == applyDirection(d, wallets[w].balance, Cash(amount))
           version == wallets[w].version + 1
       IN /\ RehydrateWallet(wallets[w])
          /\ after.ok /\ after.value.units >= 0
          /\ wallets' = [wallets EXCEPT ![w] = [balance |-> after.value, version |-> version]]
          /\ ledger' = [ledger EXCEPT ![w] =
                          Append(@, Entry(w, version, d, wallets[w].balance, Cash(amount),
                                          after.value))]
  /\ UNCHANGED <<altered, tampers, pager, audit>>

(* What reconciliation is there to find: a balance changed, an entry lost,  *)
(* an entry written twice, an entry that no longer adds up.                 *)
Tamper(w) ==
  /\ tampers < MaxTampers
  /\ \/ /\ wallets[w].balance.units < MaxInt
        /\ wallets' = [wallets EXCEPT ![w].balance.units = @ + 1]
        /\ UNCHANGED ledger
     \/ \E i \in 1 .. Len(ledger[w]) :
          /\ ledger' = [ledger EXCEPT ![w] = RemoveAt(@, i)]
          /\ UNCHANGED wallets
     \/ \E i \in 1 .. Len(ledger[w]) :
          /\ ledger' = [ledger EXCEPT ![w] = Append(@, [@[i] EXCEPT !.version = wallets[w].version + 1])]
          /\ wallets' = [wallets EXCEPT ![w].version = @ + 1]
     \/ \E i \in 1 .. Len(ledger[w]) :
          /\ ledger[w][i].amount.units < MaxInt
          /\ ledger' = [ledger EXCEPT ![w][i].amount.units = @ + 1]
          /\ UNCHANGED wallets
  /\ altered' = altered \cup {w} /\ tampers' = tampers + 1
  /\ UNCHANGED <<pager, audit>>

-----------------------------------------------------------------------------
(* Pages. *)

(* A mutant: a cursor is a position and nothing else. *)
AnyCursor(cursor, w) == TRUE
decodeCursor(cursor, w) == cursor = NoCursor \/ cursor.wallet = w
encodeCursor(w, version) == [wallet |-> w, version |-> version]

Limit(asked) == CASE asked <= 0 -> defaultLedgerPage
                  [] asked > maxLedgerPage -> maxLedgerPage
                  [] OTHER -> asked

(* The entries are in the order of their versions, so those behind a        *)
(* version come first.                                                      *)
Behind(entries, after) ==
  CHOOSE n \in 0 .. Len(entries) :
    \A i \in 1 .. Len(entries) : entries[i].version > after <=> i > n

(* ledger.Page: wallet_version > after, in order, at most limit. *)
PageFrom(entries, after, limit) ==
  LET n == Behind(entries, after)
  IN SubSeq(entries, n + 1, IF n + limit < Len(entries) THEN n + limit ELSE Len(entries))

(* A caller asks for a page: the one after the last, or with a cursor that  *)
(* was issued for another wallet, which is refused.  The snapshot is taken  *)
(* by the first statement, which reads the wallet.                          *)
AskPage(w) ==
  /\ pager.at \in {"idle", "paged"} /\ pager.wallet \in {None, w}
  /\ \E asked \in Limits, cursor \in {pager.cursor} \cup {c \in Cursors : c.wallet # w} :
       /\ decodeCursor(cursor, w)
       /\ pager' = [pager EXCEPT !.wallet = w, !.at = "reading", !.cursor = cursor,
                                 !.limit = Limit(asked), !.snapshot = ledger[w]]
  /\ UNCHANGED <<wallets, ledger, altered, tampers, audit>>

Another(entries, limit) == Len(entries) = limit

Ledger ==
  /\ pager.at = "reading"
  /\ LET page == PageFrom(pager.snapshot, pager.cursor.version, pager.limit)
         full == Another(page, pager.limit)
     IN IF \E i \in 1 .. Len(page) : ~NewWalletLedgerEntry(page[i])
        THEN pager' = [pager EXCEPT !.at = "refused"]
        ELSE pager' = [pager EXCEPT !.at = IF full THEN "paged" ELSE "finished",
                               !.seen = @ \o page,
                               !.cursor = IF full /\ page # <<>>
                                            THEN encodeCursor(pager.wallet, page[Len(page)].version)
                                            ELSE @]
  /\ UNCHANGED <<wallets, ledger, altered, tampers, audit>>

PagerStartsOver ==
  /\ pager.at \in {"finished", "refused"}
  /\ pager' = NoPage
  /\ UNCHANGED <<wallets, ledger, altered, tampers, audit>>

-----------------------------------------------------------------------------
(* Reconciliation. *)
Tally(total, e) ==
  IF total.ok THEN applyDirection(e.direction, total.value, e.amount) ELSE total

(* What the first n entries come to, for every n. *)
Totals(entries) ==
  LET total[n \in 0 .. Len(entries)] ==
        IF n = 0 THEN Ok(Cash(0)) ELSE Tally(total[n - 1], entries[n])
  IN total

LedgerBalance(entries) == Totals(entries)[Len(entries)]

Finding(row, w, entries) ==
  LET expected == LedgerBalance(entries)
  IN  IF ~RehydrateWallet(row) \/ \E i \in 1 .. Len(entries) : ~NewWalletLedgerEntry(entries[i])
        THEN "corrupt"
      ELSE IF \E i \in 1 .. Len(entries) : entries[i].wallet # w THEN "foreign entry"
      ELSE IF \E i, j \in 1 .. Len(entries) : i # j /\ entries[i].transaction = entries[j].transaction
        THEN "entry twice"
      ELSE IF ~expected.ok THEN "no sum"
      ELSE IF Equal(expected.value, row.balance) THEN "consistent" ELSE "mismatch"

(* The first statement reads the wallet and takes the snapshot ... *)
Reconcile(w) ==
  /\ audit.at \in {"idle", "reported"}
  /\ audit' = [NoAudit EXCEPT !.wallet = w, !.at = "reading", !.row = wallets[w],
                              !.snapshot = ledger[w], !.intact = w \notin altered]
  /\ UNCHANGED <<wallets, ledger, altered, tampers, pager>>

(* ... and the second reads every entry, as of the snapshot.  A mutant      *)
(* reads what is committed by then.                                         *)
Committed(w) == ledger[w]
WithinSnapshot(w) == audit.snapshot

Report ==
  /\ audit.at = "reading"
  /\ audit' = [audit EXCEPT !.at = "reported", !.snapshot = <<>>,
                            !.report = Finding(audit.row, audit.wallet, WithinSnapshot(audit.wallet))]
  /\ UNCHANGED <<wallets, ledger, altered, tampers, pager>>

Writes == \E w \in Wallets : Move(w) \/ Tamper(w)
Pages == (\E w \in Wallets : AskPage(w)) \/ Ledger \/ PagerStartsOver
Audits == (\E w \in Wallets : Reconcile(w)) \/ Report

Next == Writes \/ Pages \/ Audits

Spec == Init /\ [][Next]_vars

-----------------------------------------------------------------------------
(* The shape of the state. *)
TypeOK ==
  /\ \A w \in Wallets : /\ wallets[w].balance.units \in Ints
                        /\ wallets[w].version \in 1 .. 1 + MaxEntries + MaxTampers
                        /\ Len(ledger[w]) <= MaxEntries + MaxTampers
  /\ pager.limit \in 0 .. maxLedgerPage
  /\ pager.at \in {"idle", "reading", "paged", "finished", "refused"}

(* Following the cursors tells the ledger as it is: every entry once, in    *)
(* order, none skipped and none of another wallet's, however the wallet     *)
(* moves between the pages; and the caller that is told there is no more    *)
(* has seen everything that was there when it asked.                        *)
PagesTellTheLedger ==
  pager.wallet \in Wallets \ altered =>
    /\ IsPrefix(pager.seen, ledger[pager.wallet])
    /\ pager.at = "finished" => IsPrefix(pager.snapshot, pager.seen)

(* Reconciling a wallet while operations move it never reports a wallet     *)
(* that adds up, and always reports one that was written to from elsewhere. *)
AuditIsTrue == audit.at = "reported" => (audit.report = "consistent") = audit.intact

=============================================================================
