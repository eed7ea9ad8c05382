----------------------------- MODULE MCConsumer -----------------------------
(***************************************************************************)
(* Instances of Consumer for TLC.                                          *)
(***************************************************************************)
EXTENDS Consumer

CONSTANTS g1, g2, c1, c2, i1, i2, x, y

Requested(id, content) ==
  [decodes |-> TRUE, messageId |-> id, type |-> "requested", occurredAt |-> TRUE,
   walletId |-> TRUE, providerId |-> TRUE, content |-> content]

(* Two operations of one wallet or of two. *)
Sound == [m \in Messages |-> Requested(IF m = <<g1, 1>> THEN i1 ELSE i2, x)]

(* The first message cannot be read. *)
PoisonFirst == [Sound EXCEPT ![<<g1, 1>>].decodes = FALSE]

(* An id is used again, with another body. *)
Reused == [m \in Messages |-> Requested(i1, IF m = <<g1, 1>> THEN x ELSE y)]

AllBodies == {Sound, PoisonFirst, Reused}
Poisoned == {PoisonFirst}
=============================================================================
