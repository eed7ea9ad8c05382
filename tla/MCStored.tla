------------------------------ MODULE MCStored ------------------------------
(***************************************************************************)
(* What is written down and read back: amounts (MoneyCalls), the pages and  *)
(* the reconciliation of a ledger (WalletReads), the record of an operation *)
(* (TransactionRecord).  These do not interact, and a behaviour is about    *)
(* one of them.                                                             *)
(***************************************************************************)
EXTENDS WalletReads, TransactionRecord, MoneyCalls

VARIABLE about  \* what the behaviour is about

-----------------------------------------------------------------------------
StoredInit ==
  /\ Init /\ RecordInit /\ MoneyInit
  /\ about \in {"amounts", "pages", "audit", "record"}
  /\ about \in {"amounts", "record"} => \A w \in Wallets : ledger[w] = <<>>

StoredNext ==
  /\ UNCHANGED about
  /\ \/ about = "amounts" /\ Calculate /\ UNCHANGED <<vars, recordVars>>
     \/ about = "pages" /\ (Writes \/ Pages) /\ UNCHANGED <<did, recordVars>>
     \/ about = "audit" /\ (Writes \/ Audits) /\ UNCHANGED <<did, recordVars>>
     \/ about = "record" /\ RecordNext /\ UNCHANGED <<vars, did>>

StoredSpec == StoredInit /\ [][StoredNext]_<<vars, about, did, recordVars>>
=============================================================================
