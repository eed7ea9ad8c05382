------------------------------ MODULE Consumer ------------------------------
(***************************************************************************)
(* The queue consumer (internal/workers/consumer.go, envelope.go) over the  *)
(* inbound FIFO queue (internal/adapters/sqs/receive.go).                   *)
(*                                                                         *)
(* Every process runs independent receivers.  A receiver takes a batch,     *)
(* applies it in order and stops at the first message it does not settle.   *)
(* The queue does not deliver another message of a group while one of the   *)
(* group is hidden, but a message comes back when its visibility runs out,  *)
(* whoever still works on it.                                               *)
(*                                                                         *)
(* The application is one step: Submit commits or does not.  The module     *)
(* Wagering opens it up.  A receipt handle is the message and which of its  *)
(* deliveries it names; times are left out, so Expire may come at once or   *)
(* late and hiding a message again for a backoff changes nothing.           *)
(***************************************************************************)
EXTENDS Naturals, FiniteSets, Sequences, SequencesExt

CONSTANTS
  Nil,
  Groups,       \* MessageGroupId: the wallets
  MaxMessages,  \* bound: messages of one group
  Bodies,       \* what senders may have put in the messages, see Envelope
  Ids,          \* envelope.messageId
  Contents,     \* what bodyHash tells apart
  Consumers,    \* processes
  Steady,       \* processes that are never stopped and never die (liveness)
  Concurrency,  \* ConsumerConfig.Concurrency
  Batch,        \* MaxNumberOfMessages of a receive
  MaxReceiveCount,  \* the redrive policy, which the consumer is told
  Faults        \* what may go wrong: see the guards that name a member

Messages == Groups \X (1..MaxMessages)
Handles == [msg : Messages, nth : 1..MaxReceiveCount]
Receivers == Consumers \X (1..Concurrency)

(* A body as the strict decoder leaves it: what validate and submission look *)
(* at.  messageId Nil is one that is absent or that the inbox cannot store.  *)
Envelope ==
  [decodes : BOOLEAN, messageId : Ids \cup {Nil}, type : {"requested", "other"},
   occurredAt : BOOLEAN, walletId : BOOLEAN, providerId : BOOLEAN,
   content : Contents]

Classes == {"Invalid", "NotFound", "Conflict", "Retryable", "Unretryable"}

ASSUME ConsumerAssumption ==
  /\ Bodies \subseteq [Messages -> Envelope]
  /\ Nil \notin Ids \cup Contents
  /\ Steady \subseteq Consumers
  /\ MaxMessages \in Nat /\ Concurrency \in Nat
  /\ Batch \in Nat \ {0} /\ MaxReceiveCount \in Nat \ {0}
  /\ Faults \subseteq {"receive", "delete", "release", "slow", "crash"}

VARIABLES
  queue,  \* message |-> [at, receives, hidden]
  inbox,  \* inbox rows of this consumer: id |-> the content handled, or Nil
  con,    \* process |-> [run, held, sweep]
  rec,    \* receiver |-> [pc, batch]
  announced,  \* messages RecordDeadLetter was called for
  Body        \* message |-> its body

vars == <<queue, inbox, con, rec, announced, Body>>

-----------------------------------------------------------------------------
(* The queue. *)

Before(m) == {f \in Messages : f[1] = m[1] /\ f[2] < m[2]}

GroupFree(m) == \A f \in Messages : f[1] = m[1] => ~queue[f].hidden

(* Waiting, and in a group that nobody holds a message of. *)
Waiting(m) == queue[m].at = "queue" /\ GroupFree(m)

Exhausted(m) == queue[m].receives = MaxReceiveCount

(* What one receive may return: messages of several groups, each group's from *)
(* its head and in order.                                                     *)
Deliveries ==
  {s \in UNION {[1..n -> Messages] : n \in 0..Batch} :
     /\ IsInjective(s)
     /\ \A i \in DOMAIN s :
          /\ Waiting(s[i]) /\ ~Exhausted(s[i])
          /\ \A f \in Before(s[i]) :
               queue[f].at = "queue" => \E j \in 1..(i - 1) : s[j] = f}

Current(h) == queue[h.msg].at = "queue" /\ queue[h.msg].receives = h.nth

InHand(h) == Current(h) /\ queue[h.msg].hidden

(* The messages of a receive, with the handles of these deliveries. *)
Received(s) == [i \in DOMAIN s |-> [msg |-> s[i], nth |-> queue[s[i]].receives + 1]]

(* The queue deletes the message unless the handle is no longer the one of   *)
(* its last delivery; a call that fails, or that comes after the visibility  *)
(* ran out, may or may not delete it.                                        *)
Delete(h, mayFail) ==
  \/ Current(h) /\ queue' = [queue EXCEPT ![h.msg].at = "deleted", ![h.msg].hidden = FALSE]
  \/ (~InHand(h) \/ mayFail) /\ UNCHANGED queue

(* ChangeVisibility with zero: the message can be received again at once. *)
Release(h, mayFail) ==
  \/ InHand(h) /\ queue' = [queue EXCEPT ![h.msg].hidden = FALSE]
  \/ (~InHand(h) \/ mayFail) /\ UNCHANGED queue

(* The visibility timeout passes.  Unless receivers may be slow it does not   *)
(* pass while one still works through the delivery.                           *)
Expire(m) ==
  /\ queue[m].at = "queue" /\ queue[m].hidden
  /\ \/ "slow" \in Faults
     \/ ~\E r \in Receivers : /\ rec[r].pc # "returned"
                              /\ \E h \in ToSet(rec[r].batch) : h.msg = m /\ Current(h)
  /\ queue' = [queue EXCEPT ![m].hidden = FALSE]
  /\ UNCHANGED <<inbox, con, rec, announced, Body>>

(* The redrive policy: a message that would be delivered once too often is   *)
(* moved to the dead-letter queue instead.                                   *)
Redrive(m) ==
  /\ Waiting(m) /\ Exhausted(m)
  /\ queue' = [queue EXCEPT ![m].at = "dead"]
  /\ UNCHANGED <<inbox, con, rec, announced, Body>>

-----------------------------------------------------------------------------
(* A message. *)

Polling(c) == con[c].run = "running"
WorkCancelled(c) == con[c].run \in {"cancelled", "stopped"}

validate(b) == b.messageId # Nil /\ b.type = "requested" /\ b.occurredAt /\ b.walletId

parseEnvelope(b) == b.decodes /\ validate(b)

(* The provider the message names makes its principal. *)
submission(b) == b.providerId

Handleable(m) == parseEnvelope(Body[m]) /\ submission(Body[m])

transient(class) == class \in {"Retryable", "NotFound"}

lastDelivery(h) == h.nth >= MaxReceiveCount

Announce(h) == announced' = IF lastDelivery(h) THEN announced \cup {h.msg} ELSE announced

Done(c, hs) == con' = [con EXCEPT ![c].held = @ \ hs]

(* A wrong variant: only the message about to be handled is held. *)
TakeFirst(c, handles) ==
  con' = [con EXCEPT ![c].held = @ \cup {handles[i] : i \in DOMAIN handles \cap {1}}]

take(c, handles) == con' = [con EXCEPT ![c].held = @ \cup ToSet(handles)]

(* One Receive.  A poll that Stop has just cancelled may still be answered.  *)
(* An answer that is lost leaves the messages hidden and unknown.            *)
Receive(r) ==
  /\ rec[r].pc = "poll" /\ con[r[1]].run \in {"running", "draining"}
  /\ \E s \in Deliveries :
       /\ queue' = [m \in Messages |->
                      IF m \in ToSet(s)
                      THEN [queue[m] EXCEPT !.receives = @ + 1, !.hidden = TRUE]
                      ELSE queue[m]]
       /\ \/ /\ rec' = [rec EXCEPT ![r].batch = Received(s),
                                    ![r].pc = IF s = <<>> THEN "poll" ELSE "next"]
             /\ take(r[1], Received(s))
          \/ "receive" \in Faults /\ UNCHANGED <<rec, con>>
  /\ UNCHANGED <<inbox, announced, Body>>

(* handleBatch turns to the next message, unless the work was cancelled. *)
HandleNext(r) ==
  /\ rec[r].pc = "next"
  /\ rec' = [rec EXCEPT ![r].pc = IF rec[r].batch = <<>> THEN "poll"
                                  ELSE IF WorkCancelled(r[1]) THEN "returned" ELSE "submit"]
  /\ UNCHANGED <<queue, inbox, con, announced, Body>>

(* A wrong variant: a message that cannot be handled ends the receiver. *)
PoisonAndReturn(r) ==
  /\ Announce(Head(rec[r].batch))
  /\ Done(r[1], ToSet(rec[r].batch))
  /\ rec' = [rec EXCEPT ![r] = [pc |-> "returned", batch |-> <<>>]]

(* It will fail the same way again: left alone, with everything behind it, *)
(* for the visibility timeout and the redrive policy.                      *)
poison(r) ==
  /\ Announce(Head(rec[r].batch))
  /\ Done(r[1], ToSet(rec[r].batch))
  /\ rec' = [rec EXCEPT ![r] = [pc |-> "poll", batch |-> <<>>]]

abandon(r) ==
  /\ rec' = [rec EXCEPT ![r].pc = "returned"]
  /\ UNCHANGED <<con, announced>>

(* A wrong variant: only the message that failed is put off. *)
DeferAndGoOn(r) ==
  /\ Announce(Head(rec[r].batch))
  /\ Done(r[1], {Head(rec[r].batch)})
  /\ rec' = [rec EXCEPT ![r] = [pc |-> "next", batch |-> Tail(@.batch)]]

(* It failed for now: the batch is hidden, message by message. *)
defer(r) ==
  /\ Announce(Head(rec[r].batch))
  /\ rec' = [rec EXCEPT ![r].pc = "hide"]
  /\ UNCHANGED con

settle(r) ==
  /\ rec' = [rec EXCEPT ![r].pc = "ack"]
  /\ UNCHANGED <<con, announced>>

(* A wrong variant: a conflict says that the operation was recorded before. *)
ConflictIsSettled(r, class) ==
  IF WorkCancelled(r[1]) THEN abandon(r)
  ELSE IF transient(class) THEN defer(r)
  ELSE IF class = "Conflict" THEN settle(r) ELSE poison(r)

(* What becomes of a message that Submit refused with an error. *)
Refused(r, class) ==
  IF WorkCancelled(r[1]) THEN abandon(r)
  ELSE IF transient(class) THEN defer(r) ELSE poison(r)

(* Wagering.Submit under the inbox.  A commit whose answer is lost is an     *)
(* error of any class; an id that was handled with another body is refused.  *)
Submit(r, b) ==
  \/ /\ inbox[b.messageId] = Nil
     /\ inbox' = [inbox EXCEPT ![b.messageId] = b.content]
     /\ settle(r) \/ \E class \in {"Retryable", "Unretryable"} : Refused(r, class)
  \/ inbox[b.messageId] = b.content /\ settle(r) /\ UNCHANGED inbox
  \/ \E class \in Classes : Refused(r, class) /\ UNCHANGED inbox

handle(r) ==
  /\ rec[r].pc = "submit"
  /\ LET m == Head(rec[r].batch).msg
     IN  IF Handleable(m) THEN Submit(r, Body[m])
         ELSE poison(r) /\ UNCHANGED inbox
  /\ UNCHANGED <<queue, Body>>

(* The batch goes on whatever became of the delete. *)
acknowledge(r) ==
  /\ rec[r].pc = "ack"
  /\ LET h == Head(rec[r].batch)
     IN  Delete(h, WorkCancelled(r[1]) \/ "delete" \in Faults) /\ Done(r[1], {h})
  /\ rec' = [rec EXCEPT ![r] = [pc |-> "next", batch |-> Tail(@.batch)]]
  /\ UNCHANGED <<inbox, announced, Body>>

(* ChangeVisibility on the message that failed and on each one behind it. *)
hide(r) ==
  /\ rec[r].pc = "hide"
  /\ Done(r[1], {Head(rec[r].batch)})
  /\ rec' = [rec EXCEPT ![r] = [pc |-> IF Len(@.batch) = 1 THEN "poll" ELSE "hide",
                                batch |-> Tail(@.batch)]]
  /\ UNCHANGED <<queue, inbox, announced, Body>>

(* The loop ends when polling has been cancelled. *)
Return(r) ==
  /\ rec[r].pc = "poll" /\ ~Polling(r[1])
  /\ rec' = [rec EXCEPT ![r].pc = "returned"]
  /\ UNCHANGED <<queue, inbox, con, announced, Body>>

-----------------------------------------------------------------------------
(* The life of a process. *)

ReceiversOf(c) == {r \in Receivers : r[1] = c}
AllReturned(c) == \A r \in ReceiversOf(c) : rec[r].pc = "returned"

Started == [run |-> "running", held |-> {}, sweep |-> {}]
Fresh == [pc |-> "poll", batch |-> <<>>]

Stop(c) ==
  /\ con[c].run = "running"
  /\ con' = [con EXCEPT ![c].run = "draining"]
  /\ UNCHANGED <<queue, inbox, rec, announced, Body>>

(* The drain deadline: the work context is cancelled. *)
stopWork(c) ==
  /\ con[c].run = "draining" /\ ~AllReturned(c)
  /\ con' = [con EXCEPT ![c].run = "cancelled"]
  /\ UNCHANGED <<queue, inbox, rec, announced, Body>>

(* A wrong variant: Stop waits for its receivers, whatever they wait for. *)
DrainWhenReturned(c) ==
  /\ con[c].run \in {"draining", "cancelled"} /\ AllReturned(c)
  /\ con' = [con EXCEPT ![c] = [run |-> "stopped", held |-> {}, sweep |-> @.held]]
  /\ UNCHANGED <<queue, inbox, rec, announced, Body>>

(* The wait is over, because the receivers are back or because the deadline  *)
(* has passed a second time: Stop takes what is held and gives it back.      *)
drain(c) ==
  /\ \/ con[c].run = "draining" /\ AllReturned(c)
     \/ con[c].run = "cancelled"
  /\ con' = [con EXCEPT ![c] = [run |-> "stopped", held |-> {}, sweep |-> @.held]]
  /\ UNCHANGED <<queue, inbox, rec, announced, Body>>

releaseHeld(c, h) ==
  /\ h \in con[c].sweep
  /\ con' = [con EXCEPT ![c].sweep = @ \ {h}]
  /\ Release(h, "release" \in Faults)
  /\ UNCHANGED <<inbox, rec, announced, Body>>

(* The process exits after Stop, or is killed, and another takes its place. *)
Restart(c) ==
  /\ \/ con[c].run = "stopped" /\ con[c].sweep = {}
     \/ "crash" \in Faults
  /\ con' = [con EXCEPT ![c] = Started]
  /\ rec' = [r \in Receivers |-> IF r[1] = c THEN Fresh ELSE rec[r]]
  /\ UNCHANGED <<queue, inbox, announced, Body>>

-----------------------------------------------------------------------------
Init ==
  /\ queue = [m \in Messages |-> [at |-> "queue", receives |-> 0, hidden |-> FALSE]]
  /\ inbox = [id \in Ids |-> Nil]
  /\ con = [c \in Consumers |-> Started]
  /\ rec = [r \in Receivers |-> Fresh]
  /\ announced = {} /\ Body \in Bodies

Loop(r) ==
  Receive(r) \/ HandleNext(r) \/ handle(r) \/ acknowledge(r) \/ hide(r) \/ Return(r)

Next ==
  \/ \E r \in Receivers : Loop(r)
  \/ \E m \in Messages : Expire(m) \/ Redrive(m)
  \/ \E c \in Consumers \ Steady :
       \/ Stop(c) \/ stopWork(c) \/ drain(c) \/ Restart(c)
       \/ \E h \in con[c].sweep : releaseHeld(c, h)

Spec == Init /\ [][Next]_vars

(* Visibility timeouts pass and the redrive policy is applied.  A receiver of *)
(* a steady process goes on, and a receive that finds messages again and      *)
(* again is answered.  The two waits of a Stop end, by the budget if by       *)
(* nothing else; of the calls it waits for nothing is asked.                  *)
Fairness ==
  /\ \A m \in Messages : WF_vars(Expire(m)) /\ WF_vars(Redrive(m))
  /\ \A r \in Receivers : r[1] \in Steady =>
       /\ WF_vars(HandleNext(r)) /\ WF_vars(handle(r))
       /\ WF_vars(acknowledge(r)) /\ WF_vars(hide(r))
       /\ SF_vars(Receive(r) /\ rec'[r].pc = "next")
  /\ \A c \in Consumers \ Steady : WF_vars(stopWork(c)) /\ WF_vars(drain(c))

FairSpec == Spec /\ Fairness

-----------------------------------------------------------------------------
(* The shape of the state. *)
TypeOK ==
  /\ queue \in [Messages -> [at : {"queue", "deleted", "dead"},
                             receives : 0..MaxReceiveCount, hidden : BOOLEAN]]
  /\ inbox \in [Ids -> Contents \cup {Nil}]
  /\ con \in [Consumers -> [run : {"running", "draining", "cancelled", "stopped"},
                            held : SUBSET Handles, sweep : SUBSET Handles]]
  /\ \A r \in Receivers :
       /\ rec[r].pc \in {"poll", "next", "submit", "ack", "hide", "returned"}
       /\ rec[r].batch \in Seq(Handles)
       /\ rec[r].pc \in {"submit", "ack", "hide"} => rec[r].batch # <<>>
  /\ announced \subseteq Messages

Recorded(m) == Handleable(m) /\ inbox[Body[m].messageId] = Body[m].content

(* No operation is lost: what is deleted from the queue was applied, this    *)
(* very body of it, whatever was redelivered, answered late or cut short.    *)
DeletedWasRecorded == \A m \in Messages : queue[m].at = "deleted" => Recorded(m)

(* A wallet's operations do not overtake each other: a message is applied    *)
(* for the first time only when each one before it in its group has been     *)
(* applied or has gone to the dead-letter queue, although its visibility may *)
(* have run out, its process stopped or its group been given to another.     *)
AppliedInOrder ==
  [][ \A id \in Ids : inbox'[id] # inbox[id] =>
        \E m \in Messages :
          /\ Body[m].messageId = id /\ Body[m].content = inbox'[id]
          /\ \A f \in Before(m) : Recorded(f) \/ queue[f].at = "dead" ]_vars

(* Once Stop has swept, a receiver that gave up leaves nothing behind to wait *)
(* out its visibility timeout: each message of its batch that it had not      *)
(* decided about was given back, when no release failed.                      *)
StopGivesBack ==
  \A r \in Receivers :
    rec[r].pc = "returned" /\ con[r[1]].run = "stopped" /\ con[r[1]].sweep = {} =>
      \A h \in ToSet(rec[r].batch) : ~InHand(h)

(* Stop returns even against a call that ignores its cancelled context. *)
StopReturns ==
  \A c \in Consumers : con[c].run = "draining" ~> con[c].run \in {"stopped", "running"}

(* No message is stuck: each one is applied in the end or ends in the         *)
(* dead-letter queue, although messages ahead of it are poison, processes     *)
(* die holding it and acknowledgements get lost.                              *)
EventuallyDecided == \A m \in Messages : <>(Recorded(m) \/ queue[m].at = "dead")

(* What RecordDeadLetter counts: each message that goes to the dead-letter   *)
(* queue was announced on its last delivery.                                 *)
DeadLettersAnnounced == \A m \in Messages : queue[m].at = "dead" => m \in announced
=============================================================================
