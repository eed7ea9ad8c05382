-------------------------- MODULE MCOutboxPublisher --------------------------
(***************************************************************************)
(* Instances of OutboxPublisher for TLC.                                   *)
(***************************************************************************)
EXTENDS OutboxPublisher

CONSTANTS w1, p1, p2

Doubling == [a \in 1..MaxAttempts |-> 2 ^ (a - 1)]
=============================================================================
