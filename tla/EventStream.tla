----------------------------- MODULE EventStream -----------------------------
(***************************************************************************)
(* What the outbox and its publishers promise a reader of the outbound     *)
(* queue: every aggregate's events come to it without a gap and in the     *)
(* order they were appended.  Copies of an event already seen are not      *)
(* steps here; a reader drops them by the event's id.                      *)
(***************************************************************************)
EXTENDS Integers

CONSTANTS
  Aggregates,  \* the wallets
  MaxEvents    \* bound: events of one aggregate

VARIABLES
  appended,    \* aggregate |-> the sequence number of its last event
  delivered    \* the events the queue has taken at least once

Events == Aggregates \X (1..MaxEvents)

Init == appended = [w \in Aggregates |-> 0] /\ delivered = {}

Append(w) ==
  /\ appended[w] < MaxEvents
  /\ appended' = [appended EXCEPT ![w] = @ + 1]
  /\ UNCHANGED delivered

(* The next event of an aggregate: appended, and all before it delivered. *)
IsNext(e) ==
  /\ e \notin delivered
  /\ e[2] <= appended[e[1]]
  /\ \A n \in 1..MaxEvents : n < e[2] => <<e[1], n>> \in delivered

Deliver(S) ==
  /\ \A e \in S : IsNext(e)
  /\ delivered' = delivered \cup S
  /\ UNCHANGED appended

Next ==
  \/ \E w \in Aggregates : Append(w)
  \/ \E S \in SUBSET Events : Deliver(S)

Spec == Init /\ [][Next]_<<appended, delivered>>
=============================================================================
