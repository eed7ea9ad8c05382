----------------------------- MODULE MCWagering -----------------------------
(***************************************************************************)
(* Instances of Wagering for TLC.  Each group of operations below is       *)
(* chosen so that one family of behaviours happens; a .cfg file picks one, *)
(* or MCScenarios takes several in turn.                                   *)
(***************************************************************************)
EXTENDS Wagering, TLC

CONSTANTS w1, w2, m1, s1, s2, s3, p1, p2

Op(kind, ext, key, amount, ref) ==
  [kind |-> kind, wallet |-> w1, player |-> "ana", currency |-> "EUR",
   amount |-> amount, provider |-> "acme", ext |-> ext, key |-> key,
   round |-> "r1", ref |-> ref]

Http(ops) == {[msg |-> Nil, op |-> op] : op \in ops}

Opened(w, player, currency, amount) ==
  [wallet |-> w, player |-> player, currency |-> currency, amount |-> amount]

OneWallet == {Opened(w1, "ana", "EUR", 2)}
TwoWallets == {Opened(w1, "ana", "EUR", 2), Opened(w2, "ana", "USD", 0)}

Doubling == [a \in 1..MaxAttempts |-> IF a = 1 THEN 1 ELSE 2]

-----------------------------------------------------------------------------
(* A bet, refunded and rolled back in every order. *)

Bet == Op("BET", "bet", "k1", 2, Nil)
Refund == Op("REFUND", "refund", "k2", 2, "bet")
RefundAgain == Op("REFUND", "refund2", "k3", 2, "bet")
RollbackRefund == Op("ROLLBACK", "undo", "k4", 2, "refund")
RollbackBet == Op("ROLLBACK", "rollback", "k5", 2, "bet")
RollbackRollback == Op("ROLLBACK", "rollback2", "k6", 2, "undo")

Win == Op("WIN", "win", "k7", 3, "bet")
RollbackWin == Op("ROLLBACK", "unwin", "k8", 3, "win")

ReversalDeliveries ==
  Http({Bet, Refund, RefundAgain, RollbackRefund, RollbackBet, RollbackRollback})

(* Two reversals of one bet and the bet itself, racing. *)
ContentionDeliveries == Http({Bet, Refund, RollbackBet})

-----------------------------------------------------------------------------
(* One key or one external id used for different operations, the same       *)
(* operation over HTTP and in a message, a message redelivered, a message   *)
(* whose identifier comes back with another body, and wallets that do not   *)
(* exist or are somebody else's.                                            *)

SameKey == [Bet EXCEPT !.ext = "bet2"]
SameExternal == [Bet EXCEPT !.key = "k2"]
OtherWallet == [Bet EXCEPT !.wallet = w2]
Foreign == [Bet EXCEPT !.player = "bob", !.ext = "bet3", !.key = "k3"]

IdempotencyDeliveries ==
  Http({Bet, SameKey, SameExternal, OtherWallet})
    \cup {[msg |-> m1, op |-> Bet], [msg |-> m1, op |-> Foreign]}

-----------------------------------------------------------------------------
(* A chain of operations each of which names the one before it, submitted *)
(* in any order.                                                          *)

WaitingDeliveries == Http({Bet, Win, RollbackWin})

(* A bet and the win that waits for it, and another bet on the same wallet. *)
SecondBet == Op("BET", "bet2", "k13", 1, Nil)
ClockDeliveries == Http({Bet, Win, SecondBet})
RicherWallet == {Opened(w1, "ana", "EUR", 3)}

(* Money at its limits: a win beyond what a balance can hold, a bet beyond   *)
(* the balance, a rollback of a win already spent, a refund of the wrong      *)
(* amount.                                                                    *)
BigWin == Op("WIN", "big", "k10", 4, Nil)
RollbackBig == Op("ROLLBACK", "unbig", "k11", 4, "big")
GreedyBet == Op("BET", "greedy", "k12", 3, Nil)
PartRefund == Op("REFUND", "part", "k14", 1, "bet")

EdgeDeliveries ==
  Http({Bet, BigWin, RollbackBig, GreedyBet, PartRefund})

(* A win that names something other than a bet, and a loss. *)
WinOnWin == Op("WIN", "winwin", "k15", 1, "big")
Loss == Op("LOSS", "loss", "k9", 0, Nil)
OddDeliveries == Http({BigWin, WinOnWin, Loss})

Interchangeable == Permutations(Submitters) \cup Permutations(Workers)
=============================================================================
