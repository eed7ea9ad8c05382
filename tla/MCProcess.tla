----------------------------- MODULE MCProcess ------------------------------
(***************************************************************************)
(* Instances of KeySet, and of Lifecycle beside it: a behaviour is that of  *)
(* the keys a process holds while requests come, or that of the process as  *)
(* it starts and stops.                                                     *)
(***************************************************************************)
EXTENDS KeySet, Lifecycle

CONSTANTS k1, k2

VARIABLE about  \* what the behaviour is about

Signs(kid) == [kid |-> kid, type |-> "RSA", use |-> "sig"]
Other(kid, type, use) == [kid |-> kid, type |-> type, use |-> use]

(* Before, during and after a rotation, and a document with nothing usable. *)
Rotation ==
  {{Signs(k1), Other(k2, "RSA", "enc")},
   {Signs(k1), Signs(k2)},
   {Other(k2, "RSA", Nil), Other(k1, "oct", "sig")},
   {Other(Nil, "RSA", "sig"), Other(k1, "RSA", "enc")}}

-----------------------------------------------------------------------------
ProcessInit ==
  /\ Init /\ LifeInit
  /\ \/ about = "keys" /\ graph = {} /\ provisioned = {}
     \/ about = "life" /\ document = {Signs(k1), Signs(k2)}

ProcessNext ==
  /\ UNCHANGED about
  /\ \/ about = "keys" /\ Next /\ UNCHANGED process
     \/ about = "life" /\ LifeNext /\ UNCHANGED vars

ProcessSpec ==
  /\ ProcessInit /\ [][ProcessNext]_<<vars, process, about>>
  /\ \/ about = "keys" /\ Fairness
     \/ about = "life" /\ LifeFairness
=============================================================================
