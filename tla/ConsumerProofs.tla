--------------------------- MODULE ConsumerProofs ---------------------------
(***************************************************************************)
(* Theorems about Consumer, for any number of processes, receivers, groups  *)
(* and messages, any batch size and any bodies.                             *)
(*                                                                          *)
(* Two invariants.  AppliedInv is about what is recorded: an acknowledgement *)
(* is of a recorded message, and a batch still being applied is in order,    *)
(* because the queue delivered it so and its head is only passed when it is  *)
(* recorded.  HeldInv is about whose hands a delivery is in: the number of a *)
(* delivery tells the deliveries of a message apart, so no two receivers     *)
(* have the same one, and what one lets go of is not another's.              *)
(***************************************************************************)
EXTENDS Consumer, SequenceTheorems, TLAPS

Row == [at : {"queue", "deleted", "dead"}, receives : 0..MaxReceiveCount, hidden : BOOLEAN]
Process == [run : {"running", "draining", "cancelled", "stopped"},
            held : SUBSET Handles, sweep : SUBSET Handles]
Places == {"poll", "next", "submit", "ack", "hide", "returned"}
Receiver == [pc : Places, batch : Seq(Handles)]

(* TypeOK, with the receivers as a function, and which receivers have       *)
(* something in their hands.                                                *)
Types ==
  /\ queue \in [Messages -> Row]
  /\ inbox \in [Ids -> Contents \cup {Nil}]
  /\ con \in [Consumers -> Process]
  /\ rec \in [Receivers -> Receiver]
  /\ \A r \in Receivers : rec[r].pc \in {"submit", "ack", "hide"} => rec[r].batch # <<>>
  /\ \A r \in Receivers : rec[r].pc = "poll" => rec[r].batch = <<>>
  /\ announced \subseteq Messages
  /\ Body \in [Messages -> Envelope]

-----------------------------------------------------------------------------
(* What the steps do. *)

(* What one receiver does to itself. *)
Becomes(r, n) == rec' = [rec EXCEPT ![r] = n]

(* A queue that forgets nothing: a delivery is never taken back, a message  *)
(* that left does not return, and one is hidden only by a new delivery.     *)
QueueGoesOn ==
  /\ queue' \in [Messages -> Row]
  /\ \A m \in Messages :
       /\ queue[m].receives <= queue'[m].receives
       /\ queue[m].at # "queue" => queue'[m].at = queue[m].at
       /\ queue'[m].receives = queue[m].receives /\ queue'[m].hidden => queue[m].hidden

(* A row with another state, or visible again. *)
LEMMA RowFacts ==
  ASSUME NEW x \in Row, NEW at \in {"queue", "deleted", "dead"}
  PROVE  /\ [x EXCEPT !.at = at, !.hidden = FALSE] =
              [at |-> at, receives |-> x.receives, hidden |-> FALSE]
         /\ [x EXCEPT !.hidden = FALSE] = [at |-> x.at, receives |-> x.receives, hidden |-> FALSE]
         /\ [x EXCEPT !.at = at] = [at |-> at, receives |-> x.receives, hidden |-> x.hidden]
         /\ x.receives \in 0..MaxReceiveCount /\ x.at \in {"queue", "deleted", "dead"}
         /\ x.hidden \in BOOLEAN
<1>1. /\ x.receives \in 0..MaxReceiveCount /\ x.at \in {"queue", "deleted", "dead"}
      /\ x.hidden \in BOOLEAN
      /\ x = [at |-> x.at, receives |-> x.receives, hidden |-> x.hidden]
  BY DEF Row
<1>2. ASSUME NEW v
      PROVE  [x EXCEPT !.hidden = v] = [at |-> x.at, receives |-> x.receives, hidden |-> v]
  BY DEF Row
<1>3. [x EXCEPT !.at = at] = [at |-> at, receives |-> x.receives, hidden |-> x.hidden]
  BY DEF Row
<1>4. ASSUME NEW v
      PROVE  [x EXCEPT !.at = at, !.hidden = v] = [at |-> at, receives |-> x.receives, hidden |-> v]
  <2>1. [x EXCEPT !.at = at, !.hidden = v] = [[x EXCEPT !.at = at] EXCEPT !.hidden = v]
    BY DEF Row
  <2>2. [[at |-> at, receives |-> x.receives, hidden |-> x.hidden] EXCEPT !.hidden = v] =
          [at |-> at, receives |-> x.receives, hidden |-> v]
    OBVIOUS
  <2> QED  BY <1>3, <2>1, <2>2
<1>5. [x EXCEPT !.hidden = FALSE] = [at |-> x.at, receives |-> x.receives, hidden |-> FALSE]
  BY <1>2, Zenon
<1>6. [x EXCEPT !.at = at, !.hidden = FALSE] =
        [at |-> at, receives |-> x.receives, hidden |-> FALSE]
  BY <1>4, Zenon
<1> QED  BY <1>1, <1>3, <1>5, <1>6, Zenon

(* A message whose row changes without a delivery. *)
LEMMA RowStep ==
  ASSUME Types, NEW m \in Messages, NEW at \in {"queue", "deleted", "dead"}, NEW hidden \in BOOLEAN,
         queue' = [queue EXCEPT ![m] = [at |-> at, receives |-> queue[m].receives, hidden |-> hidden]],
         queue[m].at # "queue" => at = queue[m].at, hidden => queue[m].hidden
  PROVE  /\ QueueGoesOn
         /\ \A k \in Messages : k # m => queue'[k] = queue[k]
         /\ \A k \in Messages : queue'[k].receives = queue[k].receives
         /\ queue'[m].at = at /\ queue'[m].hidden = hidden
<1> DEFINE x == [at |-> at, receives |-> queue[m].receives, hidden |-> hidden]
<1>1. queue[m].receives \in 0..MaxReceiveCount  BY DEF Types, Row
<1>2. x \in Row  BY <1>1 DEF Row
<1>3. x.at = at /\ x.receives = queue[m].receives /\ x.hidden = hidden  OBVIOUS
<1>4. queue' = [queue EXCEPT ![m] = x]  OBVIOUS
<1> HIDE DEF x
<1>5. queue' \in [Messages -> Row] /\ queue'[m] = x /\ \A k \in Messages : k # m => queue'[k] = queue[k]
  BY <1>2, <1>4 DEF Types
<1>6. \A k \in Messages : queue'[k].receives = queue[k].receives  BY <1>3, <1>5
<1>7. \A k \in Messages : queue[k].receives <= queue'[k].receives  BY <1>6 DEF Types, Row
<1>8. \A k \in Messages : queue[k].at # "queue" => queue'[k].at = queue[k].at  BY <1>3, <1>5
<1>9. ASSUME NEW k \in Messages, queue'[k].hidden PROVE queue[k].hidden
  <2>1. CASE k = m  BY <2>1, <1>9, <1>3, <1>5
  <2>2. CASE k # m  BY <2>2, <1>9, <1>5
  <2> QED  BY <2>1, <2>2
<1> QED  BY <1>3, <1>5, <1>6, <1>7, <1>8, <1>9 DEF QueueGoesOn

(* The queue is left alone. *)
LEMMA QueueStays ==
  ASSUME Types, UNCHANGED queue
  PROVE  QueueGoesOn
BY DEF Types, QueueGoesOn, Row

(* What the deletion of a delivery changes. *)
LEMMA DeleteFacts ==
  ASSUME Types, NEW h \in Handles, NEW mayFail, Delete(h, mayFail)
  PROVE  /\ QueueGoesOn
         /\ \A m \in Messages : queue'[m].at = queue[m].at \/ (m = h.msg /\ queue'[m].at = "deleted")
         /\ \A m \in Messages : queue'[m].receives = queue[m].receives
<1>1. h.msg \in Messages  BY DEF Handles
<1>2. CASE UNCHANGED queue  BY <1>2, QueueStays
<1>3. CASE /\ Current(h)
           /\ queue' = [queue EXCEPT ![h.msg].at = "deleted", ![h.msg].hidden = FALSE]
  <2>1. queue' = [queue EXCEPT ![h.msg] = [queue[h.msg] EXCEPT !.at = "deleted", !.hidden = FALSE]]
    BY <1>3, <1>1 DEF Types, Row
  <2>2. queue[h.msg].at = "queue" /\ queue[h.msg] \in Row  BY <1>3, <1>1 DEF Current, Types
  <2>3. queue' = [queue EXCEPT ![h.msg] = [at |-> "deleted", receives |-> queue[h.msg].receives,
                                           hidden |-> FALSE]]
    BY <2>1, <2>2, RowFacts
  <2> QED  BY <1>1, <2>2, <2>3, RowStep
<1> QED  BY <1>2, <1>3 DEF Delete

(* What giving a delivery back changes. *)
LEMMA ReleaseFacts ==
  ASSUME Types, NEW h \in Handles, NEW mayFail, Release(h, mayFail)
  PROVE  /\ QueueGoesOn
         /\ \A m \in Messages : queue'[m].at = queue[m].at
         /\ \A m \in Messages : queue'[m].receives = queue[m].receives
         /\ mayFail \/ ~queue'[h.msg].hidden \/ ~Current(h)
<1>1. h.msg \in Messages  BY DEF Handles
<1>2. CASE (~InHand(h) \/ mayFail) /\ UNCHANGED queue
  BY <1>1, <1>2, QueueStays DEF InHand
<1>3. CASE InHand(h) /\ queue' = [queue EXCEPT ![h.msg].hidden = FALSE]
  <2>1. queue' = [queue EXCEPT ![h.msg] = [queue[h.msg] EXCEPT !.hidden = FALSE]]
    BY <1>3, <1>1 DEF Types, Row
  <2>2. queue[h.msg] \in Row  BY <1>1 DEF Types
  <2>3. /\ queue' = [queue EXCEPT ![h.msg] = [at |-> queue[h.msg].at,
                                              receives |-> queue[h.msg].receives, hidden |-> FALSE]]
        /\ queue[h.msg].at \in {"queue", "deleted", "dead"}
    BY <2>1, <2>2, RowFacts
  <2> QED  BY <1>1, <2>3, RowStep
<1> QED  BY <1>2, <1>3 DEF Release

(* A message becomes visible, or goes to the dead-letter queue. *)
LEMMA QueueStepFacts ==
  ASSUME Types, NEW m \in Messages, Expire(m) \/ Redrive(m)
  PROVE  /\ QueueGoesOn
         /\ \A k \in Messages : queue'[k].at = queue[k].at \/ queue'[k].at = "dead"
         /\ \A k \in Messages : queue'[k].receives = queue[k].receives
         /\ UNCHANGED <<inbox, con, rec, announced, Body>>
<1>1. queue[m] \in Row  BY DEF Types
<1>2. UNCHANGED <<inbox, con, rec, announced, Body>>  BY DEF Expire, Redrive
<1>3. CASE Expire(m)
  <2>1. queue' = [queue EXCEPT ![m] = [queue[m] EXCEPT !.hidden = FALSE]]
    BY <1>3 DEF Expire, Types, Row
  <2>2. /\ queue' = [queue EXCEPT ![m] = [at |-> queue[m].at, receives |-> queue[m].receives,
                                          hidden |-> FALSE]]
        /\ queue[m].at \in {"queue", "deleted", "dead"}
    BY <1>1, <2>1, RowFacts
  <2> QED  BY <1>2, <2>2, RowStep
<1>4. CASE Redrive(m)
  <2>1. /\ queue' = [queue EXCEPT ![m] = [queue[m] EXCEPT !.at = "dead"]]
        /\ queue[m].at = "queue"
    BY <1>4 DEF Redrive, Waiting, Types, Row
  <2>2. /\ queue' = [queue EXCEPT ![m] = [at |-> "dead", receives |-> queue[m].receives,
                                          hidden |-> queue[m].hidden]]
        /\ queue[m].hidden \in BOOLEAN
    BY <1>1, <2>1, RowFacts
  <2> QED  BY <1>2, <2>1, <2>2, RowStep
<1> QED  BY <1>3, <1>4

(* The head of a batch and what is behind it. *)
LEMMA BatchFacts ==
  ASSUME Types, NEW r \in Receivers, rec[r].batch # <<>>
  PROVE  /\ Len(rec[r].batch) \in Nat \ {0}
         /\ Head(rec[r].batch) = rec[r].batch[1] /\ Head(rec[r].batch) \in Handles
         /\ Head(rec[r].batch).msg \in Messages
         /\ Tail(rec[r].batch) \in Seq(Handles)
         /\ Len(Tail(rec[r].batch)) = Len(rec[r].batch) - 1
         /\ \A i \in 1..Len(Tail(rec[r].batch)) : Tail(rec[r].batch)[i] = rec[r].batch[i + 1]
<1>1. rec[r].batch \in Seq(Handles)  BY DEF Types, Receiver
<1>2. Head(rec[r].batch) \in Handles  BY <1>1, HeadTailProperties
<1> QED  BY <1>1, <1>2, HeadTailProperties, LenProperties DEF Handles

(* What a receiver takes in hand. *)
LEMMA ReceiveFacts ==
  ASSUME Types, ConsumerAssumption, NEW r \in Receivers, Receive(r)
  PROVE  \E s \in Deliveries :
           /\ s \in Seq(Messages) /\ Received(s) \in Seq(Handles) /\ Len(Received(s)) = Len(s)
           /\ \A i \in 1..Len(s) : /\ Received(s)[i].msg = s[i]
                                   /\ Received(s)[i].nth = queue'[s[i]].receives
                                   /\ Received(s)[i].nth = queue[s[i]].receives + 1
           /\ QueueGoesOn
           /\ \A m \in Messages : queue'[m].at = queue[m].at
           /\ UNCHANGED <<inbox, announced, Body>>
           /\ rec[r].pc = "poll" /\ con[r[1]].run \in {"running", "draining"}
           /\ \/ /\ Becomes(r, [pc |-> IF s = <<>> THEN "poll" ELSE "next", batch |-> Received(s)])
                 /\ con' = [con EXCEPT ![r[1]].held = @ \cup ToSet(Received(s))]
              \/ UNCHANGED <<rec, con>>
<1>1. PICK s \in Deliveries :
        /\ queue' = [m \in Messages |->
                       IF m \in ToSet(s)
                       THEN [queue[m] EXCEPT !.receives = @ + 1, !.hidden = TRUE]
                       ELSE queue[m]]
        /\ \/ /\ rec' = [rec EXCEPT ![r].batch = Received(s),
                                    ![r].pc = IF s = <<>> THEN "poll" ELSE "next"]
              /\ take(r[1], Received(s))
           \/ UNCHANGED <<rec, con>>
  BY DEF Receive
<1>2. PICK n \in 0..Batch : s \in [1..n -> Messages]  BY DEF Deliveries
<1>3. s \in Seq(Messages) /\ Len(s) = n /\ DOMAIN s = 1..n
  BY <1>2, IsASeq DEF ConsumerAssumption
<1>4. \A i \in 1..n : s[i] \in Messages /\ Waiting(s[i]) /\ ~Exhausted(s[i])
  BY <1>2, <1>3 DEF Deliveries
<1>5. \A i \in 1..n : queue[s[i]].receives \in Nat /\ queue[s[i]].receives + 1 \in 1..MaxReceiveCount
  BY <1>4 DEF Types, Row, Exhausted, ConsumerAssumption
<1>6. Received(s) = [i \in 1..n |-> [msg |-> s[i], nth |-> queue[s[i]].receives + 1]]
  BY <1>3 DEF Received
<1>7. Received(s) \in [1..n -> Handles]  BY <1>4, <1>5, <1>6 DEF Handles
<1>8. n \in Nat  BY DEF ConsumerAssumption
<1>9. Received(s) \in Seq(Handles) /\ Len(Received(s)) = n
  BY <1>7, <1>8, IsASeq
<1>10. ToSet(s) = {s[i] : i \in 1..n}  BY <1>3 DEF ToSet
<1>11. \A m \in ToSet(s) : /\ m \in Messages /\ queue[m].at = "queue"
                           /\ queue[m].receives + 1 \in 1..MaxReceiveCount
  BY <1>4, <1>5, <1>10 DEF Waiting
<1>12. ASSUME NEW m \in Messages
       PROVE  /\ queue'[m] \in Row /\ queue'[m].at = queue[m].at
              /\ queue[m].receives <= queue'[m].receives
              /\ m \in ToSet(s) => queue'[m].receives = queue[m].receives + 1
              /\ queue'[m].receives = queue[m].receives => queue'[m].hidden = queue[m].hidden
  <2>1. queue[m] \in Row  BY DEF Types
  <2>2. CASE m \in ToSet(s)
    <3>1. queue'[m] = [queue[m] EXCEPT !.receives = @ + 1, !.hidden = TRUE]  BY <1>1, <2>2
    <3>2. queue'[m] = [at |-> queue[m].at, receives |-> queue[m].receives + 1, hidden |-> TRUE]
      BY <2>1, <3>1 DEF Row
    <3>3. /\ queue[m].receives \in Nat /\ queue[m].receives + 1 \in 0..MaxReceiveCount
          /\ queue[m].at \in {"queue", "deleted", "dead"}
      BY <2>1, <2>2, <1>11 DEF Row, ConsumerAssumption
    <3>4. queue'[m] \in Row  BY <3>2, <3>3 DEF Row
    <3>5. queue'[m].at = queue[m].at /\ queue'[m].receives = queue[m].receives + 1  BY <3>2
    <3> QED  BY <3>3, <3>4, <3>5
  <2>3. CASE m \notin ToSet(s)
    <3>1. queue'[m] = queue[m]  BY <1>1, <2>3
    <3> QED  BY <2>1, <2>3, <3>1 DEF Row
  <2> QED  BY <2>2, <2>3
<1>13. queue' \in [Messages -> Row]
  <2>1. queue' = [m \in Messages |-> queue'[m]]  BY <1>1
  <2> QED  BY <1>12, <2>1
<1>14. QueueGoesOn  BY <1>12, <1>13 DEF QueueGoesOn
<1>15. \A i \in 1..n : /\ Received(s)[i].msg = s[i]
                       /\ Received(s)[i].nth = queue[s[i]].receives + 1
                       /\ Received(s)[i].nth = queue'[s[i]].receives
  BY <1>4, <1>6, <1>10, <1>12
<1>16. \/ /\ Becomes(r, [pc |-> IF s = <<>> THEN "poll" ELSE "next", batch |-> Received(s)])
          /\ con' = [con EXCEPT ![r[1]].held = @ \cup ToSet(Received(s))]
       \/ UNCHANGED <<rec, con>>
  <2>1. CASE UNCHANGED <<rec, con>>  BY <2>1
  <2>2. CASE /\ rec' = [rec EXCEPT ![r].batch = Received(s),
                                   ![r].pc = IF s = <<>> THEN "poll" ELSE "next"]
             /\ take(r[1], Received(s))
    <3> DEFINE pc == IF s = <<>> THEN "poll" ELSE "next"
               b == Received(s)
    <3>1. rec[r] \in Receiver /\ rec' = [rec EXCEPT ![r].batch = b, ![r].pc = pc]
      BY <2>2 DEF Types
    <3> HIDE DEF pc, b
    <3>2. rec' = [rec EXCEPT ![r] = [[rec[r] EXCEPT !.batch = b] EXCEPT !.pc = pc]]
      BY <3>1 DEF Types
    <3>3. [[rec[r] EXCEPT !.batch = b] EXCEPT !.pc = pc] = [pc |-> pc, batch |-> b]
      <4>1. [rec[r] EXCEPT !.batch = b] = [pc |-> rec[r].pc, batch |-> b]  BY <3>1 DEF Receiver
      <4>2. [[pc |-> rec[r].pc, batch |-> b] EXCEPT !.pc = pc] = [pc |-> pc, batch |-> b]  OBVIOUS
      <4> QED  BY <4>1, <4>2
    <3>4. rec' = [rec EXCEPT ![r] = [pc |-> pc, batch |-> b]]  BY <3>2, <3>3
    <3> QED  BY <2>2, <3>4 DEF Becomes, take, pc, b
  <2> QED  BY <1>1, <2>1, <2>2
<1>17. /\ UNCHANGED <<inbox, announced, Body>>
       /\ rec[r].pc = "poll" /\ con[r[1]].run \in {"running", "draining"}
  BY DEF Receive
<1> QED  BY <1>3, <1>9, <1>12, <1>14, <1>15, <1>16, <1>17

(* A receiver belongs to a process. *)
LEMMA OwnerFacts ==
  ASSUME NEW r \in Receivers
  PROVE  r[1] \in Consumers
BY DEF Receivers

(* What a process holds changes, and nothing else of it. *)
LEMMA HeldFacts ==
  ASSUME Types, NEW c \in Consumers, NEW S \in SUBSET Handles, con' = [con EXCEPT ![c].held = S]
  PROVE  /\ con' \in [Consumers -> Process]
         /\ con'[c].held = S /\ con'[c].run = con[c].run /\ con'[c].sweep = con[c].sweep
         /\ \A d \in Consumers : d # c => con'[d] = con[d]
BY DEF Types, Process

(* What taking and finishing with handles does to the process. *)
LEMMA DoneFacts ==
  ASSUME Types, NEW c \in Consumers, NEW hs, con' = [con EXCEPT ![c].held = @ \ hs]
  PROVE  /\ con' \in [Consumers -> Process]
         /\ con'[c].held = con[c].held \ hs /\ con'[c].run = con[c].run
         /\ con'[c].sweep = con[c].sweep
         /\ \A d \in Consumers : d # c => con'[d] = con[d]
<1> DEFINE S == con[c].held \ hs
<1>1. con' = [con EXCEPT ![c].held = S]  OBVIOUS
<1>2. S \in SUBSET Handles  BY DEF Types, Process
<1>3. S = con[c].held \ hs  OBVIOUS
<1> HIDE DEF S
<1>4. /\ con' \in [Consumers -> Process]
      /\ con'[c].held = S /\ con'[c].run = con[c].run /\ con'[c].sweep = con[c].sweep
      /\ \A d \in Consumers : d # c => con'[d] = con[d]
  BY <1>1, <1>2, HeldFacts
<1> QED  BY <1>3, <1>4, Zenon

(* What an answer to a receive adds to it. *)
LEMMA TakeFacts ==
  ASSUME Types, NEW c \in Consumers, NEW hs \in SUBSET Handles,
         con' = [con EXCEPT ![c].held = @ \cup hs]
  PROVE  /\ con' \in [Consumers -> Process]
         /\ con'[c].held = con[c].held \cup hs /\ con'[c].run = con[c].run
         /\ con'[c].sweep = con[c].sweep
         /\ \A d \in Consumers : d # c => con'[d] = con[d]
<1>1. con' = [con EXCEPT ![c].held = con[c].held \cup hs]  OBVIOUS
<1>2. con[c].held \cup hs \in SUBSET Handles  BY DEF Types, Process
<1> QED  BY <1>1, <1>2, HeldFacts

(* A receiver that stays with its batch. *)
LEMMA PlaceFacts ==
  ASSUME Types, NEW r \in Receivers, NEW pc \in Places, rec' = [rec EXCEPT ![r].pc = pc]
  PROVE  /\ Becomes(r, [pc |-> pc, batch |-> rec[r].batch])
         /\ [pc |-> pc, batch |-> rec[r].batch] \in Receiver
<1>1. rec[r] \in Receiver /\ rec[r].batch \in Seq(Handles)  BY DEF Types, Receiver
<1>2. [rec[r] EXCEPT !.pc = pc] = [pc |-> pc, batch |-> rec[r].batch]  BY <1>1 DEF Receiver
<1>3. rec' = [rec EXCEPT ![r] = [rec[r] EXCEPT !.pc = pc]]  BY DEF Types
<1> QED  BY <1>1, <1>2, <1>3 DEF Becomes, Receiver

(* How a message ends that is not settled: the receiver gives up with its   *)
(* batch, puts the batch off, or lets go of all of it.                      *)
Unsettled(r, n) ==
  /\ Becomes(r, n) /\ n \in Receiver
  /\ \/ n.pc \in {"returned", "hide"} /\ n.batch = rec[r].batch /\ con' = con
     \/ /\ n.pc = "poll" /\ n.batch = <<>>
        /\ con' = [con EXCEPT ![r[1]].held = @ \ ToSet(rec[r].batch)]

(* poison leaves the batch alone. *)
LEMMA PoisonFacts ==
  ASSUME Types, NEW r \in Receivers, rec[r].pc = "submit", poison(r)
  PROVE  (\E n : Unsettled(r, n)) /\ announced' \subseteq Messages
<1>1. Head(rec[r].batch).msg \in Messages  BY BatchFacts DEF Types
<1>2. announced' \subseteq Messages  BY <1>1 DEF poison, Announce, Types
<1> DEFINE n == [pc |-> "poll", batch |-> <<>>]
<1>3. n \in Receiver  BY EmptySeq DEF Receiver, Places
<1>4. Unsettled(r, n)  BY <1>3 DEF Unsettled, poison, Done, Becomes
<1> QED  BY <1>2, <1>4

(* What becomes of a message that Submit refused. *)
LEMMA RefusedFacts ==
  ASSUME Types, NEW r \in Receivers, rec[r].pc = "submit", NEW class, Refused(r, class)
  PROVE  (\E n : Unsettled(r, n)) /\ announced' \subseteq Messages
<1>1. abandon(r) \/ defer(r) \/ poison(r)  BY DEF Refused
<1>2. Head(rec[r].batch).msg \in Messages  BY BatchFacts DEF Types
<1>3. CASE abandon(r)
  <2> DEFINE n == [pc |-> "returned", batch |-> rec[r].batch]
  <2>1. Becomes(r, n) /\ n \in Receiver
    <3>1. "returned" \in Places /\ rec' = [rec EXCEPT ![r].pc = "returned"]
      BY <1>3 DEF Places, abandon
    <3> QED  BY <3>1, PlaceFacts
  <2>2. con' = con /\ announced' = announced  BY <1>3 DEF abandon
  <2>3. Unsettled(r, n)  BY <2>1, <2>2 DEF Unsettled
  <2> QED  BY <2>2, <2>3 DEF Types
<1>4. CASE defer(r)
  <2> DEFINE n == [pc |-> "hide", batch |-> rec[r].batch]
  <2>1. Becomes(r, n) /\ n \in Receiver
    <3>1. "hide" \in Places /\ rec' = [rec EXCEPT ![r].pc = "hide"]  BY <1>4 DEF Places, defer
    <3> QED  BY <3>1, PlaceFacts
  <2>2. con' = con /\ announced' \subseteq Messages  BY <1>2, <1>4 DEF defer, Announce, Types
  <2>3. Unsettled(r, n)  BY <2>1, <2>2 DEF Unsettled
  <2> QED  BY <2>2, <2>3
<1>5. CASE poison(r)  BY <1>5, PoisonFacts
<1> QED  BY <1>1, <1>3, <1>4, <1>5

(* The operation of m is committed now: its id was free. *)
Commits(m) ==
  /\ Handleable(m) /\ inbox[Body[m].messageId] = Nil
  /\ inbox' = [inbox EXCEPT ![Body[m].messageId] = Body[m].content]

(* One message: it is settled, and then its body is recorded, or it is not. *)
LEMMA HandleFacts ==
  ASSUME Types, NEW r \in Receivers, handle(r)
  PROVE  LET m == Head(rec[r].batch).msg
             settled == [pc |-> "ack", batch |-> rec[r].batch]
         IN  /\ rec[r].pc = "submit" /\ m \in Messages /\ UNCHANGED <<queue, Body>>
             /\ announced' \subseteq Messages
             /\ Commits(m) \/ UNCHANGED inbox
             /\ \/ /\ Becomes(r, settled) /\ settled \in Receiver /\ con' = con
                   /\ Handleable(m)
                   /\ Commits(m) \/ (UNCHANGED inbox /\ inbox[Body[m].messageId] = Body[m].content)
                \/ \E n : Unsettled(r, n)
<1> DEFINE m == Head(rec[r].batch).msg
           settled == [pc |-> "ack", batch |-> rec[r].batch]
           b == Body[m]
<1>1. rec[r].pc = "submit" /\ UNCHANGED <<queue, Body>>  BY DEF handle
<1>2. m \in Messages  BY <1>1, BatchFacts DEF Types
<1>3. ASSUME settle(r)
      PROVE  Becomes(r, settled) /\ settled \in Receiver /\ con' = con /\ announced' \subseteq Messages
  <2>1. "ack" \in Places /\ rec' = [rec EXCEPT ![r].pc = "ack"] /\ UNCHANGED <<con, announced>>
    BY <1>3 DEF Places, settle
  <2> QED  BY <2>1, PlaceFacts DEF Types
<1>4. CASE ~Handleable(m)
  <2>1. poison(r) /\ UNCHANGED inbox  BY <1>4 DEF handle
  <2> QED  BY <1>1, <1>2, <2>1, PoisonFacts
<1>5. CASE Handleable(m)
  <2>1. Submit(r, b)  BY <1>5 DEF handle
  <2>2. CASE /\ inbox[b.messageId] = Nil
             /\ inbox' = [inbox EXCEPT ![b.messageId] = b.content]
             /\ settle(r) \/ \E class \in {"Retryable", "Unretryable"} : Refused(r, class)
    <3>1. Commits(m)  BY <1>5, <2>2 DEF Commits
    <3>2. CASE settle(r)  BY <1>1, <1>2, <1>3, <1>5, <3>1, <3>2
    <3>3. CASE \E class \in {"Retryable", "Unretryable"} : Refused(r, class)
      BY <1>1, <1>2, <3>1, <3>3, RefusedFacts
    <3> QED  BY <2>2, <3>2, <3>3
  <2>3. CASE inbox[b.messageId] = b.content /\ settle(r) /\ UNCHANGED inbox
    BY <1>1, <1>2, <1>3, <1>5, <2>3
  <2>4. CASE \E class \in Classes : Refused(r, class) /\ UNCHANGED inbox
    BY <1>1, <1>2, <2>4, RefusedFacts
  <2> QED  BY <2>1, <2>2, <2>3, <2>4 DEF Submit
<1> QED  BY <1>4, <1>5

(* A receiver changes: the shape is kept when its new state has one. *)
LEMMA TypesStep ==
  ASSUME Types, NEW r \in Receivers, NEW n \in Receiver, Becomes(r, n),
         n.pc \in {"submit", "ack", "hide"} => n.batch # <<>>, n.pc = "poll" => n.batch = <<>>,
         queue' \in [Messages -> Row], inbox' \in [Ids -> Contents \cup {Nil}],
         con' \in [Consumers -> Process], announced' \subseteq Messages, UNCHANGED Body
  PROVE  Types' /\ rec'[r] = n /\ \A q \in Receivers : q # r => rec'[q] = rec[q]
<1>1. /\ rec' \in [Receivers -> Receiver] /\ rec'[r] = n
      /\ \A q \in Receivers : q # r => rec'[q] = rec[q]
  BY DEF Types, Becomes
<1> QED  BY <1>1 DEF Types

-----------------------------------------------------------------------------
(* What is recorded, and in which order. *)

(* Each message of a batch comes after those before it in its group: they   *)
(* were recorded, or went to the dead-letter queue, or are ahead in the     *)
(* same batch.                                                              *)
Ordered(b) ==
  \A i \in 1..Len(b) : \A f \in Before(b[i].msg) :
    Recorded(f) \/ queue[f].at = "dead" \/ \E j \in 1..(i - 1) : b[j].msg = f

(* What a receiver may rely on: an acknowledgement is of a recorded message, *)
(* and a batch that is still being applied is in order.  A batch that is put *)
(* off or given up is not applied any more.                                  *)
Reliable(r) ==
  /\ rec[r].pc = "ack" => Recorded(Head(rec[r].batch).msg)
  /\ rec[r].pc \in {"next", "submit", "ack"} => Ordered(rec[r].batch)

AppliedInv ==
  /\ Types
  /\ DeletedWasRecorded
  /\ \A r \in Receivers : Reliable(r)

(* A committed body is never another one. *)
LEMMA CommitKeeps ==
  ASSUME Types, ConsumerAssumption, NEW m \in Messages, Commits(m), UNCHANGED Body
  PROVE  /\ inbox' \in [Ids -> Contents \cup {Nil}]
         /\ Recorded(m)'
         /\ \A k \in Messages : Recorded(k) => Recorded(k)'
<1>1. \A k \in Messages : Body[k] \in Envelope  BY DEF Types
<1>2. \A k \in Messages : /\ Body[k].messageId \in Ids \cup {Nil} /\ Body[k].content \in Contents
  BY <1>1 DEF Envelope
<1>3. \A k \in Messages : Handleable(k) => Body[k].messageId \in Ids
  BY <1>2 DEF Handleable, parseEnvelope, validate
<1>4. Handleable(m) /\ Body[m].messageId \in Ids  BY <1>3 DEF Commits
<1>5. inbox' \in [Ids -> Contents \cup {Nil}]  BY <1>2, <1>4 DEF Commits, Types
<1>6. \A k \in Messages : Handleable(k) <=> Handleable(k)'  BY DEF Handleable
<1>7. inbox'[Body[m].messageId] = Body[m].content  BY <1>4 DEF Commits, Types
<1>8. ASSUME NEW k \in Messages, Recorded(k) PROVE Recorded(k)'
  <2>1. inbox[Body[k].messageId] # Nil /\ Body[k].messageId \in Ids
    BY <1>2, <1>3, <1>8 DEF Recorded, ConsumerAssumption
  <2>2. Body[k].messageId # Body[m].messageId  BY <2>1 DEF Commits
  <2>3. inbox'[Body[k].messageId] = inbox[Body[k].messageId]  BY <2>1, <2>2 DEF Commits, Types
  <2> QED  BY <1>6, <1>8, <2>3 DEF Recorded
<1> QED  BY <1>4, <1>5, <1>6, <1>7, <1>8 DEF Recorded

(* Order is not undone by what the others do. *)
LEMMA OrderedKept ==
  ASSUME NEW b \in Seq(Handles), Ordered(b), QueueGoesOn,
         \A m \in Messages : Recorded(m) => Recorded(m)'
  PROVE  Ordered(b)'
<1>1. \A f \in Messages : queue[f].at = "dead" => queue'[f].at = "dead"  BY DEF QueueGoesOn
<1>2. \A m : Before(m) \subseteq Messages  BY DEF Before
<1>3. \A i \in 1..Len(b) : Before(b[i].msg)' = Before(b[i].msg)  BY DEF Before
<1> QED  BY <1>1, <1>2, <1>3 DEF Ordered

(* A step keeps the invariant when it records no deletion that was not      *)
(* applied and leaves the receivers it changes reliable.                    *)
LEMMA AppliedStep ==
  ASSUME AppliedInv, Types', QueueGoesOn, UNCHANGED Body,
         \A m \in Messages : Recorded(m) => Recorded(m)',
         \A m \in Messages : queue'[m].at = "deleted" => queue[m].at = "deleted" \/ Recorded(m)',
         \A r \in Receivers : rec'[r] = rec[r] \/ Reliable(r)'
  PROVE  AppliedInv'
<1>1. DeletedWasRecorded'  BY DEF AppliedInv, DeletedWasRecorded
<1>2. ASSUME NEW r \in Receivers PROVE Reliable(r)'
  <2>1. CASE rec'[r] = rec[r]
    <3>1. rec[r].batch \in Seq(Handles)  BY DEF AppliedInv, Types, Receiver
    <3>2. Ordered(rec[r].batch) => Ordered(rec[r].batch)'
      <4>1. Ordered(rec[r].batch) => \A b : b = rec[r].batch => Ordered(b)'
        BY <3>1, OrderedKept
      <4> QED  BY <4>1, <2>1
    <3>3. rec[r].pc = "ack" => Head(rec[r].batch).msg \in Messages
      BY BatchFacts DEF AppliedInv, Types
    <3>4. Reliable(r)  BY DEF AppliedInv
    <3> QED  BY <2>1, <3>2, <3>3, <3>4 DEF Reliable
  <2> QED  BY <2>1
<1> QED  BY <1>1, <1>2 DEF AppliedInv

-----------------------------------------------------------------------------
(* What is behind the head of an ordered batch is ordered once the head is  *)
(* recorded.                                                                *)
LEMMA OrderedTail ==
  ASSUME NEW b \in Seq(Handles), b # <<>>, Ordered(b), Recorded(b[1].msg)
  PROVE  Ordered(Tail(b))
<1>1. /\ Tail(b) \in Seq(Handles) /\ Len(b) \in Nat /\ Len(Tail(b)) = Len(b) - 1
      /\ \A i \in 1..Len(Tail(b)) : Tail(b)[i] = b[i + 1]
  BY HeadTailProperties, LenProperties
<1>2. SUFFICES ASSUME NEW i \in 1..Len(Tail(b)), NEW f \in Before(Tail(b)[i].msg),
                      ~Recorded(f), queue[f].at # "dead"
               PROVE  \E j \in 1..(i - 1) : Tail(b)[j].msg = f
  BY DEF Ordered
<1>3. i + 1 \in 1..Len(b) /\ Tail(b)[i] = b[i + 1]  BY <1>1
<1>4. PICK j \in 1..i : b[j].msg = f
  <2>1. \E j \in 1..((i + 1) - 1) : b[j].msg = f  BY <1>2, <1>3 DEF Ordered
  <2>2. 1..((i + 1) - 1) = 1..i  BY <1>1
  <2> QED  BY <2>1, <2>2
<1>5. j # 1  BY <1>2, <1>4
<1>6. j - 1 \in 1..(i - 1) /\ j - 1 \in 1..Len(Tail(b)) /\ (j - 1) + 1 = j  BY <1>1, <1>4, <1>5
<1>7. Tail(b)[j - 1].msg = f  BY <1>1, <1>4, <1>6
<1> QED  BY <1>6, <1>7

(* A delivery is in order: what is before it in its group has been applied, *)
(* is dead, or is ahead in the same delivery.                               *)
LEMMA ReceivedOrdered ==
  ASSUME AppliedInv, NEW s \in Deliveries, s \in Seq(Messages), Received(s) \in Seq(Handles),
         Len(Received(s)) = Len(s), \A i \in 1..Len(s) : Received(s)[i].msg = s[i]
  PROVE  Ordered(Received(s))
<1>1. Len(s) \in Nat /\ DOMAIN s = 1..Len(s)  BY LenProperties
<1>2. SUFFICES ASSUME NEW i \in 1..Len(s), NEW f \in Before(s[i]), ~Recorded(f), queue[f].at # "dead"
               PROVE  \E j \in 1..(i - 1) : Received(s)[j].msg = f
  BY DEF Ordered
<1>3. f \in Messages  BY DEF Before
<1>4. queue[f].at = "queue"
  <2>1. queue[f].at \in {"queue", "deleted", "dead"}  BY <1>3 DEF AppliedInv, Types, Row
  <2> QED  BY <1>2, <1>3, <2>1 DEF AppliedInv, DeletedWasRecorded
<1>5. PICK j \in 1..(i - 1) : s[j] = f  BY <1>1, <1>4 DEF Deliveries
<1>6. j \in 1..Len(s)  BY <1>1
<1> QED  BY <1>5, <1>6

(* Receive. *)
LEMMA ReceiveKeeps ==
  ASSUME AppliedInv, ConsumerAssumption, NEW r \in Receivers, Receive(r)
  PROVE  AppliedInv'
<1>1. PICK s \in Deliveries :
        /\ s \in Seq(Messages) /\ Received(s) \in Seq(Handles) /\ Len(Received(s)) = Len(s)
        /\ \A i \in 1..Len(s) : /\ Received(s)[i].msg = s[i]
                                /\ Received(s)[i].nth = queue'[s[i]].receives
                                /\ Received(s)[i].nth = queue[s[i]].receives + 1
        /\ QueueGoesOn
        /\ \A m \in Messages : queue'[m].at = queue[m].at
        /\ UNCHANGED <<inbox, announced, Body>>
        /\ rec[r].pc = "poll" /\ con[r[1]].run \in {"running", "draining"}
        /\ \/ /\ Becomes(r, [pc |-> IF s = <<>> THEN "poll" ELSE "next", batch |-> Received(s)])
              /\ con' = [con EXCEPT ![r[1]].held = @ \cup ToSet(Received(s))]
           \/ UNCHANGED <<rec, con>>
  BY ReceiveFacts DEF AppliedInv
<1>2. \A m \in Messages : Recorded(m) <=> Recorded(m)'  BY <1>1 DEF Recorded, Handleable
<1>3. Types /\ queue' \in [Messages -> Row]  BY <1>1 DEF AppliedInv, QueueGoesOn
<1>0. PICK b : b = Received(s)  OBVIOUS
<1> DEFINE n == [pc |-> IF s = <<>> THEN "poll" ELSE "next", batch |-> b]
<1>4. CASE UNCHANGED <<rec, con>>
  <2>1. Types'  BY <1>1, <1>3, <1>4 DEF Types
  <2> QED  BY <1>1, <1>2, <1>4, <2>1, AppliedStep
<1>5. CASE Becomes(r, n) /\ con' = [con EXCEPT ![r[1]].held = @ \cup ToSet(b)]
  <2>1. Ordered(b)  BY <1>0, <1>1, ReceivedOrdered
  <2>2. b \in Seq(Handles) /\ (s = <<>> => b = <<>>)
    <3>1. s = <<>> => Len(b) = 0  BY <1>0, <1>1
    <3> QED  BY <1>0, <1>1, <3>1, EmptySeq
  <2>3. ToSet(b) \in SUBSET Handles
    <3>1. \A i \in DOMAIN b : b[i] \in Handles  BY <2>2, LenProperties, ElementOfSeq
    <3> QED  BY <3>1 DEF ToSet
  <2>4. con' \in [Consumers -> Process]  BY <1>3, <1>5, <2>3, OwnerFacts, TakeFacts
  <2>5. /\ n \in Receiver /\ (n.pc \in {"submit", "ack", "hide"} => n.batch # <<>>)
        /\ (n.pc = "poll" => n.batch = <<>>) /\ n.pc # "ack" /\ n.batch = b
    BY <2>2 DEF Receiver, Places
  <2> HIDE DEF n
  <2>6. Types' /\ rec'[r] = n /\ \A q \in Receivers : q # r => rec'[q] = rec[q]
    BY <1>1, <1>3, <1>5, <2>4, <2>5, TypesStep DEF Types
  <2>7. Ordered(b)'  BY <1>1, <1>2, <2>1, <2>2, OrderedKept
  <2>8. Reliable(r)'  BY <2>5, <2>6, <2>7 DEF Reliable
  <2> QED  BY <1>1, <1>2, <2>6, <2>8, AppliedStep
<1> QED  BY <1>0, <1>1, <1>4, <1>5

(* A step of one receiver that leaves the queue and the inbox alone. *)
LEMMA PlaceKeeps ==
  ASSUME AppliedInv, NEW r \in Receivers, NEW n \in Receiver, Becomes(r, n),
         n.pc \in {"submit", "ack", "hide"} => n.batch # <<>>, n.pc = "poll" => n.batch = <<>>,
         UNCHANGED <<queue, inbox, Body>>, con' \in [Consumers -> Process],
         announced' \subseteq Messages, n.pc # "ack",
         n.pc \in {"next", "submit"} => n.batch = rec[r].batch /\ rec[r].pc = "next"
  PROVE  AppliedInv'
<1>1. Types  BY DEF AppliedInv
<1>2. Types' /\ rec'[r] = n /\ \A q \in Receivers : q # r => rec'[q] = rec[q]
  BY <1>1, TypesStep DEF Types
<1>3. QueueGoesOn  BY <1>1, QueueStays
<1>4. \A m \in Messages : Recorded(m) <=> Recorded(m)'  BY DEF Recorded, Handleable
<1>5. Reliable(r)'
  <2>1. CASE n.pc \notin {"next", "submit"}  BY <1>2, <2>1 DEF Reliable
  <2>2. CASE n.pc \in {"next", "submit"}
    <3>1. Ordered(rec[r].batch)  BY <2>2 DEF AppliedInv, Reliable
    <3>2. n.batch \in Seq(Handles) /\ Ordered(n.batch)  BY <2>2, <3>1 DEF Receiver
    <3>3. Ordered(n.batch)'  BY <1>3, <1>4, <3>2, OrderedKept
    <3> QED  BY <1>2, <3>3 DEF Reliable
  <2> QED  BY <2>1, <2>2
<1> QED  BY <1>2, <1>3, <1>4, <1>5, AppliedStep

(* HandleNext, hide and Return. *)
LEMMA SmallStepsKeep ==
  ASSUME AppliedInv, NEW r \in Receivers, HandleNext(r) \/ hide(r) \/ Return(r)
  PROVE  AppliedInv'
<1>1. Types /\ con \in [Consumers -> Process] /\ announced \subseteq Messages
  BY DEF AppliedInv, Types
<1>2. CASE HandleNext(r)
  <2>1. PICK pc \in {"poll", "returned", "submit"} :
          /\ rec' = [rec EXCEPT ![r].pc = pc]
          /\ pc = "poll" => rec[r].batch = <<>>
          /\ pc = "submit" => rec[r].batch # <<>>
    <3>1. CASE rec[r].batch = <<>>
      <4>1. rec' = [rec EXCEPT ![r].pc = "poll"]  BY <1>2, <3>1 DEF HandleNext
      <4> QED  BY <3>1, <4>1
    <3>2. CASE rec[r].batch # <<>> /\ WorkCancelled(r[1])
      <4>1. rec' = [rec EXCEPT ![r].pc = "returned"]  BY <1>2, <3>2 DEF HandleNext
      <4> QED  BY <4>1
    <3>3. CASE rec[r].batch # <<>> /\ ~WorkCancelled(r[1])
      <4>1. rec' = [rec EXCEPT ![r].pc = "submit"]  BY <1>2, <3>3 DEF HandleNext
      <4> QED  BY <3>3, <4>1
    <3> QED  BY <3>1, <3>2, <3>3
  <2>2. rec[r].pc = "next" /\ UNCHANGED <<queue, inbox, con, announced, Body>>
    BY <1>2 DEF HandleNext
  <2>3. PICK n : n = [pc |-> pc, batch |-> rec[r].batch]  OBVIOUS
  <2>4. Becomes(r, n) /\ n \in Receiver  BY <1>1, <2>1, <2>3, PlaceFacts DEF Places
  <2>5. n.pc = pc /\ n.batch = rec[r].batch  BY <2>3
  <2> QED  BY <1>1, <2>1, <2>2, <2>4, <2>5, PlaceKeeps
<1>3. CASE hide(r)
  <2> DEFINE pc == IF Len(rec[r].batch) = 1 THEN "poll" ELSE "hide"
  <2>1. /\ rec[r].pc = "hide" /\ UNCHANGED <<queue, inbox, announced, Body>>
        /\ con' = [con EXCEPT ![r[1]].held = @ \ {Head(rec[r].batch)}]
        /\ rec' = [rec EXCEPT ![r] = [pc |-> pc, batch |-> Tail(rec[r].batch)]]
    BY <1>1, <1>3 DEF hide, Done, Types
  <2>2. con' \in [Consumers -> Process]  BY <1>1, <2>1, OwnerFacts, DoneFacts
  <2>3. rec[r].batch # <<>>  BY <1>1, <2>1 DEF Types
  <2>4. /\ Tail(rec[r].batch) \in Seq(Handles)
        /\ Len(Tail(rec[r].batch)) = Len(rec[r].batch) - 1 /\ Len(rec[r].batch) \in Nat \ {0}
    BY <1>1, <2>3, BatchFacts
  <2>5. PICK n : n = [pc |-> pc, batch |-> Tail(rec[r].batch)]  OBVIOUS
  <2>6. /\ n.pc = pc /\ n.batch = Tail(rec[r].batch) /\ Becomes(r, n) /\ n \in Receiver
    BY <2>1, <2>4, <2>5 DEF Becomes, Receiver, Places
  <2>7. pc = "poll" => Tail(rec[r].batch) = <<>>
    <3>1. pc = "poll" => Len(Tail(rec[r].batch)) = 0  BY <2>4
    <3> QED  BY <2>4, <3>1, EmptySeq
  <2>8. pc = "hide" => Tail(rec[r].batch) # <<>>
    <3>1. pc = "hide" => Len(Tail(rec[r].batch)) # 0  BY <2>4
    <3> QED  BY <3>1, EmptySeq
  <2>9. pc \in {"poll", "hide"}  OBVIOUS
  <2> HIDE DEF pc
  <2> QED  BY <1>1, <2>1, <2>2, <2>6, <2>7, <2>8, <2>9, PlaceKeeps
<1>4. CASE Return(r)
  <2>1. /\ rec[r].pc = "poll" /\ rec' = [rec EXCEPT ![r].pc = "returned"]
        /\ UNCHANGED <<queue, inbox, con, announced, Body>>
    BY <1>4 DEF Return
  <2>2. PICK n : n = [pc |-> "returned", batch |-> rec[r].batch]  OBVIOUS
  <2>3. Becomes(r, n) /\ n \in Receiver  BY <1>1, <2>1, <2>2, PlaceFacts DEF Places
  <2>4. n.pc = "returned"  BY <2>2
  <2> QED  BY <1>1, <2>1, <2>3, <2>4, PlaceKeeps
<1> QED  BY <1>2, <1>3, <1>4

(* handle: what is settled is recorded. *)
LEMMA HandleKeeps ==
  ASSUME AppliedInv, ConsumerAssumption, NEW r \in Receivers, handle(r)
  PROVE  AppliedInv'
<1>1. Types  BY DEF AppliedInv
<1>2. PICK m \in Messages : m = Head(rec[r].batch).msg  BY <1>1, HandleFacts
<1>3. /\ rec[r].pc = "submit" /\ UNCHANGED <<queue, Body>> /\ announced' \subseteq Messages
      /\ Commits(m) \/ UNCHANGED inbox
      /\ \/ /\ Becomes(r, [pc |-> "ack", batch |-> rec[r].batch])
            /\ [pc |-> "ack", batch |-> rec[r].batch] \in Receiver /\ con' = con
            /\ Handleable(m)
            /\ Commits(m) \/ (UNCHANGED inbox /\ inbox[Body[m].messageId] = Body[m].content)
         \/ \E n : Unsettled(r, n)
  BY <1>1, <1>2, HandleFacts
<1>4. /\ inbox' \in [Ids -> Contents \cup {Nil}]
      /\ \A k \in Messages : Recorded(k) => Recorded(k)'
  <2>1. CASE Commits(m)  BY <1>1, <1>3, <2>1, CommitKeeps
  <2>2. CASE UNCHANGED inbox  BY <1>1, <1>3, <2>2 DEF Types, Recorded, Handleable
  <2> QED  BY <1>3, <2>1, <2>2
<1>5. QueueGoesOn /\ queue' \in [Messages -> Row]  BY <1>1, <1>3, QueueStays DEF QueueGoesOn
<1>6. CASE /\ Becomes(r, [pc |-> "ack", batch |-> rec[r].batch])
           /\ [pc |-> "ack", batch |-> rec[r].batch] \in Receiver /\ con' = con
           /\ Handleable(m)
           /\ Commits(m) \/ (UNCHANGED inbox /\ inbox[Body[m].messageId] = Body[m].content)
  <2>1. PICK n \in Receiver : n = [pc |-> "ack", batch |-> rec[r].batch]  BY <1>6
  <2>2. n.pc = "ack" /\ n.batch = rec[r].batch /\ Becomes(r, n)  BY <1>6, <2>1
  <2>3. n.batch # <<>> /\ n.batch \in Seq(Handles)  BY <1>1, <1>3, <2>2 DEF Types, Receiver
  <2>4. con' \in [Consumers -> Process]  BY <1>1, <1>6 DEF Types
  <2>5. Types' /\ rec'[r] = n /\ \A q \in Receivers : q # r => rec'[q] = rec[q]
    BY <1>1, <1>3, <1>4, <1>5, <2>2, <2>3, <2>4, TypesStep
  <2>6. Recorded(m)'
    <3>1. CASE Commits(m)  BY <1>1, <1>3, <3>1, CommitKeeps
    <3>2. CASE UNCHANGED inbox /\ inbox[Body[m].messageId] = Body[m].content
      BY <1>3, <1>6, <3>2 DEF Recorded, Handleable
    <3> QED  BY <1>6, <3>1, <3>2
  <2>7. Ordered(n.batch)  BY <1>3, <2>2 DEF AppliedInv, Reliable
  <2>8. Ordered(n.batch)'  BY <1>4, <1>5, <2>3, <2>7, OrderedKept
  <2>9. Head(n.batch).msg = m  BY <1>2, <2>2
  <2>10. Reliable(r)'  BY <2>2, <2>5, <2>6, <2>8, <2>9 DEF Reliable
  <2> QED  BY <1>3, <1>4, <1>5, <2>5, <2>10, AppliedStep
<1>7. CASE \E n : Unsettled(r, n)
  <2>1. PICK n : Unsettled(r, n)  BY <1>7
  <2>2. n \in Receiver /\ Becomes(r, n) /\ n.pc \in {"returned", "hide", "poll"}
    BY <2>1 DEF Unsettled
  <2>3. con' \in [Consumers -> Process]
    <3>1. CASE con' = con  BY <1>1, <3>1 DEF Types
    <3>2. CASE con' = [con EXCEPT ![r[1]].held = @ \ ToSet(rec[r].batch)]
      BY <1>1, <3>2, OwnerFacts, DoneFacts
    <3> QED  BY <2>1, <3>1, <3>2 DEF Unsettled
  <2>4. /\ n.pc \in {"submit", "ack", "hide"} => n.batch # <<>>
        /\ n.pc = "poll" => n.batch = <<>>
    BY <1>1, <1>3, <2>1 DEF Unsettled, Types
  <2>5. Types' /\ rec'[r] = n /\ \A q \in Receivers : q # r => rec'[q] = rec[q]
    BY <1>1, <1>3, <1>4, <1>5, <2>2, <2>3, <2>4, TypesStep
  <2>6. Reliable(r)'  BY <2>2, <2>5 DEF Reliable
  <2> QED  BY <1>3, <1>4, <1>5, <2>5, <2>6, AppliedStep
<1> QED  BY <1>3, <1>6, <1>7

(* acknowledge: only what is recorded is deleted. *)
LEMMA AcknowledgeKeeps ==
  ASSUME AppliedInv, NEW r \in Receivers, acknowledge(r)
  PROVE  AppliedInv'
<1>1. Types  BY DEF AppliedInv
<1>2. /\ rec[r].pc = "ack" /\ UNCHANGED <<inbox, announced, Body>>
      /\ con' = [con EXCEPT ![r[1]].held = @ \ {Head(rec[r].batch)}]
      /\ rec' = [rec EXCEPT ![r] = [pc |-> "next", batch |-> Tail(rec[r].batch)]]
      /\ \E mayFail : Delete(Head(rec[r].batch), mayFail)
  BY <1>1 DEF acknowledge, Done, Types
<1>3. rec[r].batch # <<>> /\ rec[r].batch \in Seq(Handles)  BY <1>1, <1>2 DEF Types, Receiver
<1>4. /\ Head(rec[r].batch) = rec[r].batch[1] /\ Head(rec[r].batch) \in Handles
      /\ Tail(rec[r].batch) \in Seq(Handles)
  BY <1>1, <1>3, BatchFacts
<1>5. PICK m : m = Head(rec[r].batch).msg  OBVIOUS
<1>6. /\ QueueGoesOn /\ queue' \in [Messages -> Row]
      /\ \A k \in Messages : queue'[k].at = queue[k].at \/ (k = m /\ queue'[k].at = "deleted")
  BY <1>1, <1>2, <1>4, <1>5, DeleteFacts DEF QueueGoesOn
<1>7. Recorded(m) /\ Ordered(rec[r].batch)  BY <1>2, <1>5 DEF AppliedInv, Reliable
<1>8. \A k : Recorded(k) <=> Recorded(k)'  BY <1>2 DEF Recorded, Handleable
<1>9. PICK n : n = [pc |-> "next", batch |-> Tail(rec[r].batch)]  OBVIOUS
<1>10. n \in Receiver /\ Becomes(r, n) /\ n.pc = "next" /\ n.batch = Tail(rec[r].batch)
  BY <1>2, <1>4, <1>9 DEF Receiver, Places, Becomes
<1>11. con' \in [Consumers -> Process]  BY <1>1, <1>2, OwnerFacts, DoneFacts
<1>12. Types' /\ rec'[r] = n /\ \A q \in Receivers : q # r => rec'[q] = rec[q]
  BY <1>1, <1>2, <1>6, <1>10, <1>11, TypesStep DEF Types
<1>13. Ordered(n.batch)  BY <1>3, <1>4, <1>5, <1>7, <1>10, OrderedTail
<1>14. Ordered(n.batch)'  BY <1>4, <1>6, <1>8, <1>10, <1>13, OrderedKept
<1>15. Reliable(r)'  BY <1>10, <1>12, <1>14 DEF Reliable
<1>16. \A k \in Messages : queue'[k].at = "deleted" => queue[k].at = "deleted" \/ Recorded(k)'
  BY <1>6, <1>7, <1>8
<1> QED  BY <1>2, <1>6, <1>8, <1>12, <1>15, <1>16, AppliedStep

(* Stop, its two waits, what it gives back, and the end of a process. *)
LEMMA ProcessKeeps ==
  ASSUME AppliedInv, NEW c \in Consumers,
         \/ Stop(c) \/ stopWork(c) \/ drain(c) \/ Restart(c)
         \/ \E h \in con[c].sweep : releaseHeld(c, h)
  PROVE  AppliedInv'
<1>1. Types  BY DEF AppliedInv
<1>2. con[c] \in Process  BY <1>1 DEF Types
<1>3. UNCHANGED <<inbox, announced, Body>>
  BY DEF Stop, stopWork, drain, Restart, releaseHeld
<1>4. \A m \in Messages : Recorded(m) <=> Recorded(m)'  BY <1>3 DEF Recorded, Handleable
<1>5. con' \in [Consumers -> Process]
  <2>1. CASE Stop(c) \/ stopWork(c)  BY <1>1, <2>1 DEF Stop, stopWork, Types, Process
  <2>2. CASE drain(c)
    <3>1. [run |-> "stopped", held |-> {}, sweep |-> con[c].held] \in Process  BY <1>2 DEF Process
    <3> QED  BY <1>1, <2>2, <3>1 DEF drain, Types
  <2>3. CASE Restart(c)
    <3>1. Started \in Process  BY DEF Started, Process
    <3> QED  BY <1>1, <2>3, <3>1 DEF Restart, Types
  <2>4. CASE \E h \in con[c].sweep : releaseHeld(c, h)
    BY <1>1, <2>4 DEF releaseHeld, Types, Process
  <2> QED  BY <2>1, <2>2, <2>3, <2>4
<1>6. /\ QueueGoesOn /\ queue' \in [Messages -> Row]
      /\ \A m \in Messages : queue'[m].at = queue[m].at
  <2>1. CASE UNCHANGED queue  BY <1>1, <2>1, QueueStays DEF QueueGoesOn
  <2>2. CASE \E h \in con[c].sweep : releaseHeld(c, h)
    <3>1. PICK h \in con[c].sweep : releaseHeld(c, h)  BY <2>2
    <3>2. h \in Handles  BY <1>2 DEF Process
    <3>3. \E mayFail : Release(h, mayFail)  BY <3>1 DEF releaseHeld
    <3> QED  BY <1>1, <3>2, <3>3, ReleaseFacts DEF QueueGoesOn
  <2> QED  BY <2>1, <2>2 DEF Stop, stopWork, drain, Restart
<1>7. \A r \in Receivers : rec'[r] = rec[r] \/ rec'[r] = Fresh
  BY DEF Stop, stopWork, drain, Restart, releaseHeld
<1>8. Fresh \in Receiver /\ Fresh.pc = "poll" /\ Fresh.batch = <<>>
  BY EmptySeq DEF Fresh, Receiver, Places
<1>9. rec' \in [Receivers -> Receiver]
  BY <1>1, <1>8 DEF Stop, stopWork, drain, Restart, releaseHeld, Types
<1>10. Types'  BY <1>1, <1>3, <1>5, <1>6, <1>7, <1>8, <1>9 DEF Types
<1>11. \A r \in Receivers : rec'[r] = rec[r] \/ Reliable(r)'  BY <1>7, <1>8 DEF Reliable
<1> QED  BY <1>3, <1>4, <1>6, <1>10, <1>11, AppliedStep

(* Nothing has been received, applied or deleted. *)
LEMMA AppliedInit ==
  ASSUME ConsumerAssumption, Init
  PROVE  AppliedInv
<1>1. Fresh \in Receiver /\ Fresh.pc = "poll" /\ Fresh.batch = <<>>
  BY EmptySeq DEF Fresh, Receiver, Places
<1>2. Started \in Process  BY DEF Started, Process
<1>3. [at |-> "queue", receives |-> 0, hidden |-> FALSE] \in Row
  BY DEF Row, ConsumerAssumption
<1>4. Types  BY <1>1, <1>2, <1>3 DEF Types, Init, ConsumerAssumption
<1>5. DeletedWasRecorded  BY DEF Init, DeletedWasRecorded
<1>6. \A r \in Receivers : Reliable(r)  BY <1>1 DEF Init, Reliable
<1> QED  BY <1>4, <1>5, <1>6 DEF AppliedInv

(* Every step keeps it. *)
LEMMA AppliedNext ==
  ASSUME ConsumerAssumption, AppliedInv, [Next]_vars
  PROVE  AppliedInv'
<1>1. Types  BY DEF AppliedInv
<1>2. CASE \E r \in Receivers : Loop(r)
  <2>1. PICK r \in Receivers : Loop(r)  BY <1>2
  <2>2. CASE Receive(r)  BY <2>2, ReceiveKeeps
  <2>3. CASE HandleNext(r) \/ hide(r) \/ Return(r)  BY <2>3, SmallStepsKeep
  <2>4. CASE handle(r)  BY <2>4, HandleKeeps
  <2>5. CASE acknowledge(r)  BY <2>5, AcknowledgeKeeps
  <2> QED  BY <2>1, <2>2, <2>3, <2>4, <2>5 DEF Loop
<1>3. CASE \E m \in Messages : Expire(m) \/ Redrive(m)
  <2>1. /\ QueueGoesOn /\ UNCHANGED <<inbox, con, rec, announced, Body>>
        /\ \A k \in Messages : queue'[k].at = queue[k].at \/ queue'[k].at = "dead"
    BY <1>1, <1>3, QueueStepFacts
  <2>2. \A m \in Messages : Recorded(m) <=> Recorded(m)'  BY <2>1 DEF Recorded, Handleable
  <2>3. Types'  BY <1>1, <2>1 DEF Types, QueueGoesOn
  <2> QED  BY <2>1, <2>2, <2>3, AppliedStep
<1>4. CASE \E c \in Consumers \ Steady :
             \/ Stop(c) \/ stopWork(c) \/ drain(c) \/ Restart(c)
             \/ \E h \in con[c].sweep : releaseHeld(c, h)
  BY <1>4, ProcessKeeps
<1>5. CASE UNCHANGED vars
  <2>1. UNCHANGED <<queue, inbox, con, rec, announced, Body>>  BY <1>5 DEF vars
  <2>2. \A m \in Messages : Recorded(m) <=> Recorded(m)'  BY <2>1 DEF Recorded, Handleable
  <2>3. Types'  BY <1>1, <2>1 DEF Types
  <2> QED  BY <1>1, <2>1, <2>2, <2>3, QueueStays, AppliedStep
<1> QED  BY <1>2, <1>3, <1>4, <1>5 DEF Next

(* What is applied is in order, at every moment. *)
THEOREM AppliedHolds == Spec => []AppliedInv
<1>1. Init => AppliedInv  BY AppliedInit, ConsumerAssumption
<1>2. AppliedInv /\ [Next]_vars => AppliedInv'  BY AppliedNext, ConsumerAssumption
<1> QED  BY <1>1, <1>2, PTL DEF Spec

(* No operation is lost: a message leaves the queue by deletion only when   *)
(* this very body of it was applied, whatever was redelivered, answered     *)
(* late or cut short (handle and acknowledge of consumer.go).               *)
THEOREM NothingIsLost == Spec => []DeletedWasRecorded
<1>1. AppliedInv => DeletedWasRecorded  BY DEF AppliedInv
<1> QED  BY <1>1, AppliedHolds, PTL

(* A step commits, if anything, the head of one receiver's batch. *)
LEMMA OnlyHandleCommits ==
  ASSUME Types, ConsumerAssumption, [Next]_vars, inbox' # inbox
  PROVE  \E r \in Receivers : handle(r) /\ Commits(Head(rec[r].batch).msg)
<1>1. \E r \in Receivers : handle(r)
  BY DEF vars, Next, Loop, Receive, HandleNext, acknowledge, hide, Return, Expire, Redrive,
         Stop, stopWork, drain, Restart, releaseHeld
<1> QED  BY <1>1, HandleFacts

(* A wallet's operations do not overtake each other, although visibility may *)
(* have run out, a process stopped or a group been given to another.         *)
THEOREM NothingOvertakes == Spec => AppliedInOrder
<1>1. ASSUME ConsumerAssumption, AppliedInv, [Next]_vars, NEW id \in Ids, inbox'[id] # inbox[id]
      PROVE  \E m \in Messages :
               /\ Body[m].messageId = id /\ Body[m].content = inbox'[id]
               /\ \A f \in Before(m) : Recorded(f) \/ queue[f].at = "dead"
  <2>1. Types /\ inbox' # inbox  BY <1>1 DEF AppliedInv
  <2>2. PICK r \in Receivers : handle(r) /\ Commits(Head(rec[r].batch).msg)
    BY <1>1, <2>1, OnlyHandleCommits
  <2>3. PICK m : m = Head(rec[r].batch).msg  OBVIOUS
  <2>4. rec[r].pc = "submit"  BY <2>2 DEF handle
  <2>5. /\ m \in Messages /\ m = rec[r].batch[1].msg /\ Len(rec[r].batch) \in Nat \ {0}
    BY <2>1, <2>3, <2>4, BatchFacts DEF Types
  <2>6. Body[m].messageId = id /\ Body[m].content = inbox'[id]
    <3>1. inbox' = [inbox EXCEPT ![Body[m].messageId] = Body[m].content]  BY <2>2, <2>3 DEF Commits
    <3> QED  BY <1>1, <2>1, <3>1 DEF Types
  <2>7. ASSUME NEW f \in Before(m) PROVE Recorded(f) \/ queue[f].at = "dead"
    <3>1. Ordered(rec[r].batch)  BY <1>1, <2>4 DEF AppliedInv, Reliable
    <3>2. 1 \in 1..Len(rec[r].batch) /\ 1..(1 - 1) = {}  BY <2>5
    <3> QED  BY <2>5, <3>1, <3>2 DEF Ordered
  <2> QED  BY <2>5, <2>6, <2>7
<1>2. AppliedInv /\ [Next]_vars =>
             [\A id \in Ids : inbox'[id] # inbox[id] =>
                \E m \in Messages :
                  /\ Body[m].messageId = id /\ Body[m].content = inbox'[id]
                  /\ \A f \in Before(m) : Recorded(f) \/ queue[f].at = "dead"]_vars
  BY <1>1, ConsumerAssumption
<1> QED  BY <1>2, AppliedHolds, PTL DEF Spec, AppliedInOrder

-----------------------------------------------------------------------------
(* What a receiver has in its hands, and what its process knows of it. *)

Hands(r) == ToSet(rec[r].batch)

Distinct(b) == \A i, j \in 1..Len(b) : b[i] = b[j] => i = j

(* A delivery is in the hands of one receiver, once: its number is that of  *)
(* a delivery that was made.                                                *)
OneHand ==
  /\ \A r \in Receivers : Distinct(rec[r].batch)
  /\ \A r \in Receivers : \A h \in Hands(r) : h.nth <= queue[h.msg].receives
  /\ \A r, q \in Receivers : r # q => Hands(r) \cap Hands(q) = {}

(* The process holds what its receivers have in hand, until Stop takes what *)
(* is held; from then on it is still to be given back, or has gone.         *)
Accounted(r) ==
  \A h \in Hands(r) : IF con[r[1]].run # "stopped" THEN h \in con[r[1]].held
                      ELSE h \in con[r[1]].sweep \/ ~InHand(h)

HeldInv ==
  /\ Types
  /\ OneHand
  /\ \A r \in Receivers : Accounted(r)

(* Batches as sets. *)
LEMMA HandsFacts ==
  ASSUME NEW b \in Seq(Handles)
  PROVE  /\ ToSet(b) = {b[i] : i \in 1..Len(b)} /\ ToSet(b) \subseteq Handles
         /\ ToSet(<<>>) = {} /\ Distinct(<<>>)
         /\ b # <<>> /\ Distinct(b) =>
              /\ ToSet(Tail(b)) \subseteq ToSet(b) \ {Head(b)} /\ Head(b) \in ToSet(b)
              /\ Distinct(Tail(b))
<1>1. DOMAIN b = 1..Len(b) /\ Len(b) \in Nat /\ \A i \in 1..Len(b) : b[i] \in Handles
  BY LenProperties, ElementOfSeq
<1>2. ToSet(b) = {b[i] : i \in 1..Len(b)} /\ ToSet(b) \subseteq Handles  BY <1>1 DEF ToSet
<1>3. ToSet(<<>>) = {} /\ Distinct(<<>>)  BY DEF ToSet, Distinct
<1>4. ASSUME b # <<>>, Distinct(b)
      PROVE  /\ ToSet(Tail(b)) \subseteq ToSet(b) \ {Head(b)} /\ Head(b) \in ToSet(b)
             /\ Distinct(Tail(b))
  <2>1. /\ Tail(b) \in Seq(Handles) /\ Len(Tail(b)) = Len(b) - 1 /\ Head(b) = b[1]
        /\ \A i \in 1..Len(Tail(b)) : Tail(b)[i] = b[i + 1]
    BY <1>4, HeadTailProperties
  <2>2. Len(b) # 0  BY <1>4, EmptySeq
  <2>3. \A i \in 1..Len(Tail(b)) : i + 1 \in 1..Len(b) /\ i + 1 # 1  BY <1>1, <2>1
  <2>4. 1 \in 1..Len(b)  BY <1>1, <2>2
  <2>5. \A i \in 1..Len(Tail(b)) : Tail(b)[i] \in ToSet(b) /\ Tail(b)[i] # Head(b)
    BY <1>2, <1>4, <2>1, <2>3, <2>4 DEF Distinct
  <2>6. ToSet(Tail(b)) = {Tail(b)[i] : i \in 1..Len(Tail(b))}
    BY <2>1, LenProperties DEF ToSet
  <2>7. Distinct(Tail(b))
    <3>1. SUFFICES ASSUME NEW i \in 1..Len(Tail(b)), NEW j \in 1..Len(Tail(b)),
                          Tail(b)[i] = Tail(b)[j]
                   PROVE  i = j
      BY DEF Distinct
    <3>2. b[i + 1] = b[j + 1] /\ i + 1 \in 1..Len(b) /\ j + 1 \in 1..Len(b)
      BY <2>1, <2>3, <3>1
    <3>3. i + 1 = j + 1  BY <1>4, <3>2 DEF Distinct
    <3> QED  BY <3>3
  <2> QED  BY <1>2, <2>1, <2>4, <2>5, <2>6, <2>7
<1> QED  BY <1>2, <1>3, <1>4

(* A delivery that is out of its receiver's hand does not come back to it. *)
LEMMA GoneStaysGone ==
  ASSUME Types, QueueGoesOn, NEW h \in Handles, h.nth <= queue[h.msg].receives, ~InHand(h)
  PROVE  ~InHand(h)'
<1>1. h.msg \in Messages /\ h.nth \in Nat  BY DEF Handles
<1>2. queue[h.msg].receives \in Nat /\ queue'[h.msg].receives \in Nat
  BY <1>1 DEF Types, QueueGoesOn, Row
<1>3. SUFFICES ASSUME queue'[h.msg].at = "queue", queue'[h.msg].receives = h.nth,
                      queue'[h.msg].hidden
               PROVE  FALSE
  BY DEF InHand, Current
<1>4. queue[h.msg].at = "queue"  BY <1>1, <1>3 DEF QueueGoesOn
<1>5. queue[h.msg].receives = h.nth  BY <1>1, <1>2, <1>3 DEF QueueGoesOn
<1>6. queue[h.msg].hidden  BY <1>1, <1>3, <1>5 DEF QueueGoesOn
<1> QED  BY <1>4, <1>5, <1>6 DEF InHand, Current

(* A receiver lets go of some of what it has in hand, and its process of    *)
(* the same.                                                                *)
LEMMA LetGo ==
  ASSUME HeldInv, Types', QueueGoesOn, NEW r \in Receivers, NEW n \in Receiver, rec'[r] = n,
         \A q \in Receivers : q # r => rec'[q] = rec[q],
         NEW hs, hs \subseteq Hands(r), ToSet(n.batch) \subseteq Hands(r) \ hs, Distinct(n.batch),
         con'[r[1]].held = con[r[1]].held \ hs, con'[r[1]].run = con[r[1]].run,
         con'[r[1]].sweep = con[r[1]].sweep,
         \A d \in Consumers : d # r[1] => con'[d] = con[d]
  PROVE  HeldInv'
<1>1. Types  BY DEF HeldInv
<1>2. \A q \in Receivers : /\ Hands(q) \subseteq Handles
                           /\ \A h \in Hands(q) : h.msg \in Messages /\ h.nth \in Nat
  <2>1. \A q \in Receivers : rec[q].batch \in Seq(Handles)  BY <1>1 DEF Types, Receiver
  <2>2. \A q \in Receivers : Hands(q) \subseteq Handles  BY <2>1, HandsFacts DEF Hands
  <2> QED  BY <2>2 DEF Handles
<1>3. Hands(r)' \subseteq Hands(r) \ hs /\ \A q \in Receivers : q # r => Hands(q)' = Hands(q)
  BY DEF Hands
<1>4. OneHand'
  <2>1. \A q \in Receivers : Distinct(rec'[q].batch)
    <3> SUFFICES ASSUME NEW q \in Receivers PROVE Distinct(rec'[q].batch)  OBVIOUS
    <3>1. CASE q = r  BY <3>1
    <3>2. CASE q # r  BY <3>2 DEF HeldInv, OneHand
    <3> QED  BY <3>1, <3>2
  <2>2. ASSUME NEW q \in Receivers, NEW h \in Hands(q)' PROVE h.nth <= queue'[h.msg].receives
    <3>1. h \in Hands(q)  BY <1>3, <2>2
    <3>2. h.nth <= queue[h.msg].receives /\ h.msg \in Messages /\ h.nth \in Nat
      BY <1>2, <3>1 DEF HeldInv, OneHand
    <3>3. /\ queue[h.msg].receives \in Nat /\ queue'[h.msg].receives \in Nat
          /\ queue[h.msg].receives <= queue'[h.msg].receives
      BY <1>1, <3>2 DEF Types, QueueGoesOn, Row
    <3> QED  BY <3>2, <3>3
  <2>3. \A p, q \in Receivers : p # q => Hands(p)' \cap Hands(q)' = {}
    BY <1>3 DEF HeldInv, OneHand
  <2> QED  BY <2>1, <2>2, <2>3 DEF OneHand, Distinct
<1>5. ASSUME NEW q \in Receivers PROVE Accounted(q)'
  <2>1. SUFFICES ASSUME NEW h \in Hands(q)'
                 PROVE  IF con'[q[1]].run # "stopped" THEN h \in con'[q[1]].held
                        ELSE h \in con'[q[1]].sweep \/ ~InHand(h)'
    BY DEF Accounted
  <2>2. h \in Hands(q) /\ h \notin hs /\ h \in Handles /\ h.nth <= queue[h.msg].receives
    <3>1. h \in Hands(q)  BY <1>3, <2>1
    <3>2. h \notin hs
      <4>1. CASE q = r  BY <1>3, <2>1, <4>1
      <4>2. CASE q # r  BY <3>1, <4>2 DEF HeldInv, OneHand
      <4> QED  BY <4>1, <4>2
    <3> QED  BY <1>2, <3>1, <3>2 DEF HeldInv, OneHand
  <2>3. IF con[q[1]].run # "stopped" THEN h \in con[q[1]].held
        ELSE h \in con[q[1]].sweep \/ ~InHand(h)
    BY <2>2 DEF HeldInv, Accounted
  <2>4. /\ con'[q[1]].run = con[q[1]].run /\ con'[q[1]].sweep = con[q[1]].sweep
        /\ h \in con[q[1]].held => h \in con'[q[1]].held
    <3>1. q[1] \in Consumers  BY OwnerFacts
    <3>2. CASE q[1] = r[1]  BY <2>2, <3>2
    <3>3. CASE q[1] # r[1]  BY <3>1, <3>3
    <3> QED  BY <3>2, <3>3
  <2>5. ~InHand(h) => ~InHand(h)'  BY <1>1, <2>2, GoneStaysGone
  <2> QED  BY <2>3, <2>4, <2>5
<1> QED  BY <1>4, <1>5 DEF HeldInv

(* Nobody's hands change. *)
LEMMA HandsStay ==
  ASSUME HeldInv, Types', QueueGoesOn, UNCHANGED rec,
         NEW c \in Consumers, \A d \in Consumers : d # c => con'[d] = con[d],
         \A h \in Handles :
           /\ h.nth <= queue[h.msg].receives
           /\ IF con[c].run # "stopped" THEN h \in con[c].held
              ELSE h \in con[c].sweep \/ ~InHand(h)
           => IF con'[c].run # "stopped" THEN h \in con'[c].held
              ELSE h \in con'[c].sweep \/ ~InHand(h)'
  PROVE  HeldInv'
<1>1. Types  BY DEF HeldInv
<1>2. \A q \in Receivers : Hands(q)' = Hands(q)  BY DEF Hands
<1>3. ASSUME NEW q \in Receivers, NEW h \in Hands(q)
      PROVE  /\ h \in Handles /\ h.nth <= queue[h.msg].receives /\ h.nth <= queue'[h.msg].receives
  <2>1. rec[q].batch \in Seq(Handles)  BY <1>1 DEF Types, Receiver
  <2>2. h \in Handles  BY <1>3, <2>1, HandsFacts DEF Hands
  <2>3. h.msg \in Messages /\ h.nth \in Nat /\ h.nth <= queue[h.msg].receives
    BY <1>3, <2>2 DEF Handles, HeldInv, OneHand
  <2>4. /\ queue[h.msg].receives \in Nat /\ queue'[h.msg].receives \in Nat
        /\ queue[h.msg].receives <= queue'[h.msg].receives
    BY <1>1, <2>3 DEF Types, QueueGoesOn, Row
  <2> QED  BY <2>2, <2>3, <2>4
<1>4. OneHand'
  <2>1. \A q \in Receivers : Distinct(rec[q].batch)'  BY DEF HeldInv, OneHand, Distinct
  <2> QED  BY <1>2, <1>3, <2>1 DEF HeldInv, OneHand
<1>5. ASSUME NEW q \in Receivers PROVE Accounted(q)'
  <2>1. SUFFICES ASSUME NEW h \in Hands(q)
                 PROVE  IF con'[q[1]].run # "stopped" THEN h \in con'[q[1]].held
                        ELSE h \in con'[q[1]].sweep \/ ~InHand(h)'
    BY <1>2 DEF Accounted
  <2>2. IF con[q[1]].run # "stopped" THEN h \in con[q[1]].held
        ELSE h \in con[q[1]].sweep \/ ~InHand(h)
    BY DEF HeldInv, Accounted
  <2>3. CASE q[1] = c  BY <1>3, <2>2, <2>3
  <2>4. CASE q[1] # c
    <3>1. con'[q[1]] = con[q[1]]  BY <2>4, OwnerFacts
    <3>2. ~InHand(h) => ~InHand(h)'  BY <1>1, <1>3, GoneStaysGone
    <3> QED  BY <2>2, <3>1, <3>2
  <2> QED  BY <2>3, <2>4
<1> QED  BY <1>4, <1>5 DEF HeldInv

(* What is received is new, and held from then on. *)
LEMMA ReceiveAccounts ==
  ASSUME HeldInv, Types', ConsumerAssumption, NEW r \in Receivers, Receive(r)
  PROVE  HeldInv'
<1>1. Types /\ r[1] \in Consumers  BY OwnerFacts DEF HeldInv
<1>2. PICK s \in Deliveries :
        /\ s \in Seq(Messages) /\ Received(s) \in Seq(Handles) /\ Len(Received(s)) = Len(s)
        /\ \A i \in 1..Len(s) : /\ Received(s)[i].msg = s[i]
                                /\ Received(s)[i].nth = queue'[s[i]].receives
                                /\ Received(s)[i].nth = queue[s[i]].receives + 1
        /\ QueueGoesOn
        /\ \A m \in Messages : queue'[m].at = queue[m].at
        /\ UNCHANGED <<inbox, announced, Body>>
        /\ rec[r].pc = "poll" /\ con[r[1]].run \in {"running", "draining"}
        /\ \/ /\ Becomes(r, [pc |-> IF s = <<>> THEN "poll" ELSE "next", batch |-> Received(s)])
              /\ con' = [con EXCEPT ![r[1]].held = @ \cup ToSet(Received(s))]
           \/ UNCHANGED <<rec, con>>
  BY <1>1, ReceiveFacts
<1>3. PICK b \in Seq(Handles) : b = Received(s)  BY <1>2
<1>4. CASE UNCHANGED <<rec, con>>
  BY <1>1, <1>2, <1>4, GoneStaysGone, HandsStay
<1>5. CASE /\ Becomes(r, [pc |-> IF s = <<>> THEN "poll" ELSE "next", batch |-> b])
           /\ con' = [con EXCEPT ![r[1]].held = @ \cup ToSet(b)]
  <2>1. ToSet(b) = {b[i] : i \in 1..Len(b)} /\ ToSet(b) \in SUBSET Handles  BY HandsFacts
  <2>2. /\ con'[r[1]].held = con[r[1]].held \cup ToSet(b) /\ con'[r[1]].run = con[r[1]].run
        /\ con'[r[1]].sweep = con[r[1]].sweep
        /\ \A d \in Consumers : d # r[1] => con'[d] = con[d]
    BY <1>1, <1>5, <2>1, TakeFacts
  <2>3. rec'[r].batch = b /\ \A q \in Receivers : q # r => rec'[q] = rec[q]
    BY <1>1, <1>5 DEF Becomes, Types
  <2>4. Hands(r)' = ToSet(b) /\ \A q \in Receivers : q # r => Hands(q)' = Hands(q)
    BY <2>3 DEF Hands
  <2>5. ASSUME NEW h \in ToSet(b)
        PROVE  /\ h.msg \in Messages /\ queue[h.msg].receives \in Nat
               /\ h.nth = queue[h.msg].receives + 1 /\ h.nth = queue'[h.msg].receives
    <3>1. PICK i \in 1..Len(b) : h = b[i]  BY <2>1
    <3>2. h.msg = s[i] /\ h.nth = queue[h.msg].receives + 1 /\ h.nth = queue'[h.msg].receives
      BY <1>2, <1>3, <3>1
    <3>3. h.msg \in Messages  BY <2>1 DEF Handles
    <3> QED  BY <1>1, <3>2, <3>3 DEF Types, Row
  <2>6. ASSUME NEW q \in Receivers, NEW h \in Hands(q)
        PROVE  /\ h \in Handles /\ h.msg \in Messages /\ h.nth \in Nat
               /\ h.nth <= queue[h.msg].receives /\ h.nth <= queue'[h.msg].receives
    <3>1. rec[q].batch \in Seq(Handles)  BY <1>1 DEF Types, Receiver
    <3>2. h \in Handles  BY <2>6, <3>1, HandsFacts DEF Hands
    <3>3. h.msg \in Messages /\ h.nth \in Nat /\ h.nth <= queue[h.msg].receives
      BY <2>6, <3>2 DEF Handles, HeldInv, OneHand
    <3>4. /\ queue[h.msg].receives \in Nat /\ queue'[h.msg].receives \in Nat
          /\ queue[h.msg].receives <= queue'[h.msg].receives
      BY <1>1, <1>2, <3>3 DEF Types, QueueGoesOn, Row
    <3> QED  BY <3>2, <3>3, <3>4
  <2>7. ASSUME NEW q \in Receivers PROVE Hands(q) \cap ToSet(b) = {}
    <3>1. ASSUME NEW h \in Hands(q), h \in ToSet(b) PROVE FALSE
      <4>1. h.nth <= queue[h.msg].receives  BY <2>6, <3>1
      <4>2. h.nth = queue[h.msg].receives + 1 /\ queue[h.msg].receives \in Nat  BY <2>5, <3>1
      <4> QED  BY <4>1, <4>2
    <3> QED  BY <3>1
  <2>8. Distinct(b)
    <3>1. SUFFICES ASSUME NEW i \in 1..Len(b), NEW j \in 1..Len(b), b[i] = b[j] PROVE i = j
      BY DEF Distinct
    <3>2. s[i] = s[j]  BY <1>2, <1>3, <3>1
    <3>3. DOMAIN s = 1..Len(b)  BY <1>2, <1>3, LenProperties
    <3>4. IsInjective(s)  BY DEF Deliveries
    <3> QED  BY <3>1, <3>2, <3>3, <3>4 DEF IsInjective
  <2>9. OneHand'
    <3>1. \A q \in Receivers : Distinct(rec'[q].batch)
      <4> SUFFICES ASSUME NEW q \in Receivers PROVE Distinct(rec'[q].batch)  OBVIOUS
      <4>1. CASE q = r  BY <2>3, <2>8, <4>1
      <4>2. CASE q # r  BY <2>3, <4>2 DEF HeldInv, OneHand
      <4> QED  BY <4>1, <4>2
    <3>2. ASSUME NEW q \in Receivers, NEW h \in Hands(q)' PROVE h.nth <= queue'[h.msg].receives
      <4>1. CASE q = r
        <5>1. h.nth = queue'[h.msg].receives /\ h.nth \in Nat  BY <2>4, <2>5, <3>2, <4>1
        <5> QED  BY <5>1
      <4>2. CASE q # r  BY <2>4, <2>6, <3>2, <4>2
      <4> QED  BY <4>1, <4>2
    <3>3. ASSUME NEW p \in Receivers, NEW q \in Receivers, p # q
          PROVE  Hands(p)' \cap Hands(q)' = {}
      <4>1. CASE p = r  BY <2>4, <2>7, <3>3, <4>1
      <4>2. CASE q = r  BY <2>4, <2>7, <3>3, <4>2
      <4>3. CASE p # r /\ q # r  BY <2>4, <3>3, <4>3 DEF HeldInv, OneHand
      <4> QED  BY <4>1, <4>2, <4>3
    <3> QED  BY <3>1, <3>2, <3>3 DEF OneHand, Distinct
  <2>10. ASSUME NEW q \in Receivers PROVE Accounted(q)'
    <3>1. CASE q = r
      <4>1. con'[r[1]].run # "stopped"  BY <1>2, <2>2
      <4>2. \A h \in Hands(r)' : h \in con'[r[1]].held  BY <2>2, <2>4
      <4> QED  BY <3>1, <4>1, <4>2 DEF Accounted
    <3>2. CASE q # r
      <4>1. SUFFICES ASSUME NEW h \in Hands(q)
                     PROVE  IF con'[q[1]].run # "stopped" THEN h \in con'[q[1]].held
                            ELSE h \in con'[q[1]].sweep \/ ~InHand(h)'
        BY <2>4, <3>2 DEF Accounted
      <4>2. IF con[q[1]].run # "stopped" THEN h \in con[q[1]].held
            ELSE h \in con[q[1]].sweep \/ ~InHand(h)
        BY DEF HeldInv, Accounted
      <4>3. ~InHand(h) => ~InHand(h)'  BY <1>1, <1>2, <2>6, GoneStaysGone
      <4>4. /\ con'[q[1]].run = con[q[1]].run /\ con'[q[1]].sweep = con[q[1]].sweep
            /\ h \in con[q[1]].held => h \in con'[q[1]].held
        <5>1. q[1] \in Consumers  BY OwnerFacts
        <5>2. CASE q[1] = r[1]  BY <2>2, <5>2
        <5>3. CASE q[1] # r[1]  BY <2>2, <5>1, <5>3
        <5> QED  BY <5>2, <5>3
      <4> QED  BY <4>2, <4>3, <4>4
    <3> QED  BY <3>1, <3>2
  <2> QED  BY <2>9, <2>10 DEF HeldInv
<1> QED  BY <1>2, <1>3, <1>4, <1>5

(* The other steps of a receiver let go of what they have dealt with. *)
LEMMA LoopAccounts ==
  ASSUME HeldInv, Types', NEW r \in Receivers,
         HandleNext(r) \/ handle(r) \/ acknowledge(r) \/ hide(r) \/ Return(r)
  PROVE  HeldInv'
<1>1. /\ Types /\ r[1] \in Consumers /\ rec[r].batch \in Seq(Handles)
      /\ Distinct(rec[r].batch) /\ rec[r] \in Receiver
  BY OwnerFacts DEF HeldInv, OneHand, Types, Receiver
<1>2. ASSUME NEW n \in Receiver, Becomes(r, n)
      PROVE  rec'[r] = n /\ \A q \in Receivers : q # r => rec'[q] = rec[q]
  BY <1>1, <1>2 DEF Becomes, Types
<1>3. ASSUME NEW n \in Receiver, Becomes(r, n), n.batch = rec[r].batch, con' = con, QueueGoesOn
      PROVE  HeldInv'
  <2>1. con'[r[1]].held = con[r[1]].held \ {}  BY <1>3
  <2> QED  BY <1>1, <1>2, <1>3, <2>1, LetGo DEF Hands
<1>4. ASSUME NEW n \in Receiver, Becomes(r, n), n.batch = Tail(rec[r].batch), QueueGoesOn,
             rec[r].batch # <<>>, con' = [con EXCEPT ![r[1]].held = @ \ {Head(rec[r].batch)}]
      PROVE  HeldInv'
  <2>1. PICK hs : hs = {Head(rec[r].batch)}  OBVIOUS
  <2>2. /\ con'[r[1]].held = con[r[1]].held \ hs /\ con'[r[1]].run = con[r[1]].run
        /\ con'[r[1]].sweep = con[r[1]].sweep
        /\ \A d \in Consumers : d # r[1] => con'[d] = con[d]
    BY <1>1, <1>4, <2>1, DoneFacts
  <2>3. hs \subseteq Hands(r) /\ ToSet(n.batch) \subseteq Hands(r) \ hs /\ Distinct(n.batch)
    BY <1>1, <1>4, <2>1, HandsFacts DEF Hands
  <2> QED  BY <1>2, <1>4, <2>2, <2>3, LetGo
<1>5. CASE HandleNext(r)
  <2>1. PICK pc \in Places : rec' = [rec EXCEPT ![r].pc = pc]  BY <1>5 DEF HandleNext, Places
  <2>2. PICK n : n = [pc |-> pc, batch |-> rec[r].batch]  OBVIOUS
  <2>3. n \in Receiver /\ Becomes(r, n) /\ n.batch = rec[r].batch
    BY <1>1, <2>1, <2>2, PlaceFacts
  <2>4. con' = con /\ QueueGoesOn  BY <1>1, <1>5, QueueStays DEF HandleNext
  <2> QED  BY <1>3, <2>3, <2>4
<1>6. CASE Return(r)
  <2>1. "returned" \in Places /\ rec' = [rec EXCEPT ![r].pc = "returned"]
    BY <1>6 DEF Return, Places
  <2>2. PICK n : n = [pc |-> "returned", batch |-> rec[r].batch]  OBVIOUS
  <2>3. n \in Receiver /\ Becomes(r, n) /\ n.batch = rec[r].batch
    BY <1>1, <2>1, <2>2, PlaceFacts
  <2>4. con' = con /\ QueueGoesOn  BY <1>1, <1>6, QueueStays DEF Return
  <2> QED  BY <1>3, <2>3, <2>4
<1>7. CASE hide(r)
  <2>1. PICK n : n = [pc |-> IF Len(rec[r].batch) = 1 THEN "poll" ELSE "hide",
                      batch |-> Tail(rec[r].batch)]
    OBVIOUS
  <2>2. /\ rec[r].pc = "hide" /\ con' = [con EXCEPT ![r[1]].held = @ \ {Head(rec[r].batch)}]
        /\ Becomes(r, n) /\ UNCHANGED queue
    BY <1>1, <1>7, <2>1 DEF hide, Done, Becomes, Types
  <2>3. rec[r].batch # <<>>  BY <1>1, <2>2 DEF Types
  <2>4. Tail(rec[r].batch) \in Seq(Handles)  BY <1>1, <2>3, BatchFacts
  <2>5. n \in Receiver /\ n.batch = Tail(rec[r].batch)  BY <2>1, <2>4 DEF Receiver, Places
  <2> QED  BY <1>1, <1>4, <2>2, <2>3, <2>5, QueueStays
<1>8. CASE acknowledge(r)
  <2>1. PICK n : n = [pc |-> "next", batch |-> Tail(rec[r].batch)]  OBVIOUS
  <2>2. /\ rec[r].pc = "ack" /\ con' = [con EXCEPT ![r[1]].held = @ \ {Head(rec[r].batch)}]
        /\ Becomes(r, n) /\ \E mayFail : Delete(Head(rec[r].batch), mayFail)
    BY <1>1, <1>8, <2>1 DEF acknowledge, Done, Becomes, Types
  <2>3. rec[r].batch # <<>>  BY <1>1, <2>2 DEF Types
  <2>4. Tail(rec[r].batch) \in Seq(Handles) /\ Head(rec[r].batch) \in Handles
    BY <1>1, <2>3, BatchFacts
  <2>5. n \in Receiver /\ n.batch = Tail(rec[r].batch)  BY <2>1, <2>4 DEF Receiver, Places
  <2>6. QueueGoesOn  BY <1>1, <2>2, <2>4, DeleteFacts
  <2> QED  BY <1>4, <2>2, <2>3, <2>5, <2>6
<1>9. CASE handle(r)
  <2>1. QueueGoesOn  BY <1>1, <1>9, QueueStays DEF handle
  <2>2. \/ /\ Becomes(r, [pc |-> "ack", batch |-> rec[r].batch])
           /\ [pc |-> "ack", batch |-> rec[r].batch] \in Receiver /\ con' = con
        \/ \E n : Unsettled(r, n)
    BY <1>1, <1>9, HandleFacts
  <2>3. CASE /\ Becomes(r, [pc |-> "ack", batch |-> rec[r].batch])
             /\ [pc |-> "ack", batch |-> rec[r].batch] \in Receiver /\ con' = con
    BY <1>3, <2>1, <2>3
  <2>4. CASE \E n : Unsettled(r, n)
    <3>1. PICK n : Unsettled(r, n)  BY <2>4
    <3>2. CASE n.batch = rec[r].batch /\ con' = con  BY <1>3, <2>1, <3>1, <3>2 DEF Unsettled
    <3>3. CASE n.batch = <<>> /\ con' = [con EXCEPT ![r[1]].held = @ \ ToSet(rec[r].batch)]
      <4>1. PICK hs : hs = Hands(r)  OBVIOUS
      <4>2. /\ con'[r[1]].held = con[r[1]].held \ hs /\ con'[r[1]].run = con[r[1]].run
            /\ con'[r[1]].sweep = con[r[1]].sweep
            /\ \A d \in Consumers : d # r[1] => con'[d] = con[d]
        BY <1>1, <3>3, <4>1, DoneFacts DEF Hands
      <4>3. /\ hs \subseteq Hands(r) /\ ToSet(n.batch) \subseteq Hands(r) \ hs
            /\ Distinct(n.batch)
        BY <1>1, <3>3, <4>1, HandsFacts
      <4> QED  BY <1>2, <2>1, <3>1, <4>2, <4>3, LetGo DEF Unsettled
    <3> QED  BY <3>1, <3>2, <3>3 DEF Unsettled
  <2> QED  BY <2>2, <2>3, <2>4
<1> QED  BY <1>5, <1>6, <1>7, <1>8, <1>9

(* Stop takes what is held; a release that does not fail takes it out of    *)
(* the hand; a new process has nothing.                                     *)
LEMMA ProcessAccounts ==
  ASSUME "release" \notin Faults, HeldInv, Types', NEW c \in Consumers,
         \/ Stop(c) \/ stopWork(c) \/ drain(c) \/ Restart(c)
         \/ \E h \in con[c].sweep : releaseHeld(c, h)
  PROVE  HeldInv'
<1>1. Types /\ con[c] \in Process  BY DEF HeldInv, Types
<1>2. CASE Stop(c) \/ stopWork(c)
  <2>1. /\ con[c].run # "stopped" /\ con'[c].run # "stopped" /\ con'[c].held = con[c].held
        /\ \A d \in Consumers : d # c => con'[d] = con[d]
        /\ UNCHANGED <<queue, rec>>
    BY <1>1, <1>2 DEF Stop, stopWork, Types, Process
  <2> QED  BY <1>1, <2>1, QueueStays, HandsStay
<1>3. CASE drain(c)
  <2>1. /\ con[c].run # "stopped" /\ con'[c].run = "stopped" /\ con'[c].sweep = con[c].held
        /\ \A d \in Consumers : d # c => con'[d] = con[d]
        /\ UNCHANGED <<queue, rec>>
    BY <1>1, <1>3 DEF drain, Types, Process
  <2> QED  BY <1>1, <2>1, QueueStays, HandsStay
<1>4. CASE \E h \in con[c].sweep : releaseHeld(c, h)
  <2>1. PICK g \in con[c].sweep : releaseHeld(c, g)  BY <1>4
  <2>2. g \in Handles  BY <1>1 DEF Process
  <2>3. /\ con'[c].run = con[c].run /\ con'[c].held = con[c].held
        /\ con'[c].sweep = con[c].sweep \ {g}
        /\ \A d \in Consumers : d # c => con'[d] = con[d]
        /\ UNCHANGED rec
    BY <1>1, <2>1 DEF releaseHeld, Types, Process
  <2>4. Release(g, FALSE)  BY <2>1 DEF releaseHeld, Release
  <2>5. QueueGoesOn /\ ~InHand(g)'
    <3>1. /\ QueueGoesOn /\ \A m \in Messages : queue'[m].at = queue[m].at
          /\ \A m \in Messages : queue'[m].receives = queue[m].receives
          /\ ~queue'[g.msg].hidden \/ ~Current(g)
      BY <1>1, <2>2, <2>4, ReleaseFacts
    <3>2. g.msg \in Messages  BY <2>2 DEF Handles
    <3>3. CASE ~queue'[g.msg].hidden  BY <3>1, <3>3 DEF InHand
    <3>4. CASE ~Current(g)
      <4>1. ~Current(g)'  BY <3>1, <3>2, <3>4 DEF Current
      <4> QED  BY <3>1, <4>1 DEF InHand
    <3> QED  BY <3>1, <3>3, <3>4
  <2>6. \A h \in Handles : h.nth <= queue[h.msg].receives /\ ~InHand(h) => ~InHand(h)'
    BY <1>1, <2>5, GoneStaysGone
  <2>7. \A h \in Handles :
          /\ h.nth <= queue[h.msg].receives
          /\ IF con[c].run # "stopped" THEN h \in con[c].held
             ELSE h \in con[c].sweep \/ ~InHand(h)
          => IF con'[c].run # "stopped" THEN h \in con'[c].held
             ELSE h \in con'[c].sweep \/ ~InHand(h)'
    BY <2>3, <2>5, <2>6
  <2> QED  BY <2>3, <2>5, <2>7, HandsStay
<1>5. CASE Restart(c)
  <2>1. /\ UNCHANGED queue /\ \A d \in Consumers : d # c => con'[d] = con[d]
        /\ \A q \in Receivers : rec'[q] = IF q[1] = c THEN Fresh ELSE rec[q]
    BY <1>1, <1>5 DEF Restart, Types
  <2>2. Fresh.batch = <<>> /\ ToSet(<<>>) = {} /\ Distinct(<<>>)
    BY DEF Fresh, ToSet, Distinct
  <2>3. \A q \in Receivers : Hands(q)' = IF q[1] = c THEN {} ELSE Hands(q)
    BY <2>1, <2>2 DEF Hands
  <2>4. \A q \in Receivers : Distinct(rec'[q].batch)
    <3> SUFFICES ASSUME NEW q \in Receivers PROVE Distinct(rec'[q].batch)  OBVIOUS
    <3>1. CASE q[1] = c
      <4>1. rec'[q].batch = <<>>  BY <2>1, <2>2, <3>1
      <4> QED  BY <2>2, <4>1
    <3>2. CASE q[1] # c
      <4>1. rec'[q] = rec[q]  BY <2>1, <3>2
      <4> QED  BY <4>1 DEF HeldInv, OneHand
    <3> QED  BY <3>1, <3>2
  <2>5. \A q \in Receivers : \A h \in Hands(q)' : h.nth <= queue'[h.msg].receives
    BY <2>1, <2>3 DEF HeldInv, OneHand
  <2>6. \A p, q \in Receivers : p # q => Hands(p)' \cap Hands(q)' = {}
    BY <2>3 DEF HeldInv, OneHand
  <2>7. OneHand'  BY <2>4, <2>5, <2>6 DEF OneHand, Distinct
  <2>8. ASSUME NEW q \in Receivers PROVE Accounted(q)'
    <3>1. CASE q[1] = c  BY <2>3, <3>1 DEF Accounted
    <3>2. CASE q[1] # c
      <4>1. con'[q[1]] = con[q[1]] /\ Hands(q)' = Hands(q)  BY <2>1, <2>3, <3>2, OwnerFacts
      <4>2. Accounted(q)  BY DEF HeldInv
      <4> QED  BY <2>1, <4>1, <4>2 DEF Accounted, InHand, Current
    <3> QED  BY <3>1, <3>2
  <2> QED  BY <2>7, <2>8 DEF HeldInv
<1> QED  BY <1>2, <1>3, <1>4, <1>5

(* No receiver has anything in its hands. *)
LEMMA HeldInit ==
  ASSUME ConsumerAssumption, Init
  PROVE  HeldInv
<1>1. Types  BY AppliedInit DEF AppliedInv
<1>2. \A r \in Receivers : rec[r].batch = <<>>  BY DEF Init, Fresh
<1>3. ToSet(<<>>) = {} /\ Distinct(<<>>)  BY DEF ToSet, Distinct
<1>4. \A r \in Receivers : Hands(r) = {}  BY <1>2, <1>3 DEF Hands
<1>5. \A r \in Receivers : Distinct(rec[r].batch)  BY <1>2, <1>3
<1>6. OneHand  BY <1>4, <1>5 DEF OneHand
<1>7. \A r \in Receivers : Accounted(r)  BY <1>4 DEF Accounted
<1> QED  BY <1>1, <1>6, <1>7 DEF HeldInv

(* Every step keeps it, when no release fails. *)
LEMMA HeldNext ==
  ASSUME ConsumerAssumption, "release" \notin Faults, HeldInv, Types', [Next]_vars
  PROVE  HeldInv'
<1>1. Types  BY DEF HeldInv
<1>2. CASE \E r \in Receivers : Loop(r)
  BY <1>2, ReceiveAccounts, LoopAccounts DEF Loop
<1>3. CASE \/ \E m \in Messages : Expire(m) \/ Redrive(m)
           \/ UNCHANGED vars
  <2>1. QueueGoesOn /\ UNCHANGED <<con, rec>>
    BY <1>1, <1>3, QueueStepFacts, QueueStays DEF vars
  <2>2. \A h \in Handles : h.nth <= queue[h.msg].receives /\ ~InHand(h) => ~InHand(h)'
    BY <1>1, <2>1, GoneStaysGone
  <2>3. CASE Consumers = {}
    <3>1. Receivers = {}  BY <2>3 DEF Receivers
    <3> QED  BY <3>1 DEF HeldInv, OneHand
  <2>4. CASE Consumers # {}
    <3>1. PICK c \in Consumers : TRUE  BY <2>4
    <3> QED  BY <2>1, <2>2, HandsStay
  <2> QED  BY <2>3, <2>4
<1>4. CASE \E c \in Consumers \ Steady :
             \/ Stop(c) \/ stopWork(c) \/ drain(c) \/ Restart(c)
             \/ \E h \in con[c].sweep : releaseHeld(c, h)
  BY <1>4, ProcessAccounts
<1> QED  BY <1>2, <1>3, <1>4 DEF Next

(* When no release fails, a Stop that has swept leaves nothing of what its  *)
(* receivers gave up hidden: each such message can be received at once, and *)
(* does not wait out its visibility timeout.                                *)
THEOREM StopLeavesNothing ==
  ASSUME "release" \notin Faults
  PROVE  Spec => []StopGivesBack
<1>1. Init => HeldInv  BY HeldInit, ConsumerAssumption
<1>2. AppliedInv /\ AppliedInv' => Types'  BY DEF AppliedInv
<1>3. HeldInv /\ Types' /\ [Next]_vars => HeldInv'  BY HeldNext, ConsumerAssumption
<1>4. HeldInv => StopGivesBack
  <2> SUFFICES ASSUME HeldInv, NEW r \in Receivers, con[r[1]].run = "stopped",
                      con[r[1]].sweep = {}, NEW h \in ToSet(rec[r].batch)
               PROVE  ~InHand(h)
    BY DEF StopGivesBack
  <2> QED  BY DEF HeldInv, Accounted, Hands
<1> QED  BY <1>1, <1>2, <1>3, <1>4, AppliedHolds, PTL DEF Spec
=============================================================================
