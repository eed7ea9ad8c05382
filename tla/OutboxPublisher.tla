--------------------------- MODULE OutboxPublisher ---------------------------
(***************************************************************************)
(* The outbox publishers (internal/workers/publisher.go) over the outbox    *)
(* table (internal/adapters/postgres/publisher.go) and the outbound FIFO    *)
(* queue (internal/adapters/sqs/send.go).                                   *)
(*                                                                         *)
(* Several publishers claim events for a while, send them and record each  *)
(* one.  They do not coordinate: a claim expires by the wall clock, so one *)
(* that is slow, paused or dead loses its events to another and does not   *)
(* know.  Any time may pass between two statements of a turn.              *)
(*                                                                         *)
(* Instants are kept as what is left until them, which Tick takes down: a  *)
(* row is due when its wait is over.  A publisher's clock lags behind by   *)
(* at most Skew, so what is left goes down to -Skew and no further.        *)
(***************************************************************************)
EXTENDS Integers, FiniteSets

CONSTANTS
  Nil,
  Aggregates,   \* the wallets
  MaxEvents,    \* bound: events of one aggregate
  Publishers,   \* PublisherConfig.Name of every process
  Steady,       \* publishers that are never stopped and never die (liveness)
  Batch,        \* PublisherConfig.Batch
  Hold,         \* PublisherConfig.Hold, in ticks
  Window,       \* how long the queue remembers a deduplication id
  Delay,        \* attempts |-> the backoff before its cap
  DelayMax,     \* Backoff.Max
  MaxAttempts,  \* bound: attempts are counted up to here, where Delay is capped
  Skew          \* how far behind a publisher's clock may be

Events == Aggregates \X (1..MaxEvents)

ASSUME PublisherAssumption ==
  /\ MaxEvents \in Nat /\ Batch \in Nat \ {0} /\ MaxAttempts \in Nat \ {0}
  /\ Skew \in Nat /\ Window \in Nat \ {0}
  /\ Hold \in Nat /\ Skew < Hold /\ Hold < Window
  /\ DelayMax \in Nat \ {0} /\ DelayMax < Window
  /\ Delay \in [1..MaxAttempts -> Nat \ {0}]
  /\ Nil \notin Publishers /\ Steady \subseteq Publishers

VARIABLES
  appended,  \* outbox_aggregate_sequence: aggregate |-> last_sequence
  rows,      \* outbox: event |-> [attempts, wait, by, hold, published]
  pub,       \* publisher |-> [run, pc, batch, sent]
  wire,      \* the queue: event |-> how many copies it took, up to 2
  memory     \* the queue: event |-> how long its id is still remembered

vars == <<appended, rows, pub, wire, memory>>

-----------------------------------------------------------------------------
(* Rows. *)

(* A row as Append writes it, due at the instant its event occurred. *)
NewRow(lag) ==
  [attempts |-> 0, wait |-> -lag, by |-> Nil, hold |-> 0, published |-> FALSE]

Unclaimed(row) == [row EXCEPT !.by = Nil, !.hold = 0]

Exists(e) == e[2] <= appended[e[1]]

(* A wrong variant: an earlier event somebody holds does not block. *)
HeadOfLineUnlessHeld(e) ==
  \A f \in Events : f[1] = e[1] /\ f[2] < e[2] =>
    rows[f].published \/ rows[f].by # Nil

(* Nothing of the same aggregate is unpublished and earlier. *)
HeadOfLine(e) ==
  \A f \in Events : f[1] = e[1] /\ f[2] < e[2] => rows[f].published

(* A wrong variant: a claim is only ever given back by its holder. *)
ClaimOverNever(row, lag) == row.by = Nil

ClaimOver(row, lag) == row.by = Nil \/ row.hold <= -lag

Claimable(e, lag) ==
  /\ Exists(e) /\ ~rows[e].published
  /\ rows[e].wait <= -lag
  /\ ClaimOver(rows[e], lag)
  /\ HeadOfLine(e)

Claimed(row, p, lag) ==
  [row EXCEPT !.by = p, !.hold = Hold - lag,
              !.attempts = IF @ < MaxAttempts THEN @ + 1 ELSE @]

(* A wrong variant: the backoff is not capped. *)
afterUncapped(attempts) == Delay[attempts]

(* Backoff.after: the delay of the attempt, capped. *)
after(attempts) == IF Delay[attempts] >= DelayMax THEN DelayMax ELSE Delay[attempts]

-----------------------------------------------------------------------------
(* A turn. *)

Started == [run |-> "running", pc |-> "idle", batch |-> {}, sent |-> {}]

(* outbox.Append, within the transaction of a command; the trigger numbers *)
(* the event under the aggregate's counter.                                *)
Append(w) ==
  /\ appended[w] < MaxEvents
  /\ appended' = [appended EXCEPT ![w] = @ + 1]
  /\ \E lag \in 0..Skew :
       rows' = [rows EXCEPT ![<<w, appended[w] + 1>>] = NewRow(lag)]
  /\ UNCHANGED <<pub, wire, memory>>

(* One UPDATE.  SKIP LOCKED passes over any row another statement holds at   *)
(* the instant, so the batch is some of what is claimable.  The answer may   *)
(* be lost, and then the rows are held and nobody knows.                     *)
Claim(p) ==
  /\ pub[p].run = "running" /\ pub[p].pc = "idle"
  /\ \E lag \in 0..Skew : \E taken \in SUBSET {e \in Events : Claimable(e, lag)} :
       /\ taken # {} /\ Cardinality(taken) <= Batch
       /\ rows' = [e \in Events |->
                     IF e \in taken THEN Claimed(rows[e], p, lag) ELSE rows[e]]
       /\ \/ pub' = [pub EXCEPT ![p].pc = "claimed", ![p].batch = taken]
          \/ UNCHANGED pub
  /\ UNCHANGED <<appended, wire, memory>>

(* SendBatch.  The queue takes some of the batch and drops what it still    *)
(* remembers; what it took is reported unless the call, or the answer for   *)
(* the entry, was lost.                                                     *)
SendBatch(p, accepted, reported) ==
  /\ pub[p].pc = "claimed"
  /\ accepted \subseteq pub[p].batch /\ reported \subseteq accepted
  /\ wire' = [e \in Events |-> IF e \in accepted /\ memory[e] = 0 /\ wire[e] < 2
                               THEN wire[e] + 1 ELSE wire[e]]
  /\ memory' = [e \in Events |-> IF e \in accepted /\ memory[e] = 0
                                 THEN Window ELSE memory[e]]
  /\ pub' = [pub EXCEPT ![p].pc = "record", ![p].sent = reported]
  /\ UNCHANGED <<appended, rows>>

Send(p) ==
  \E accepted \in SUBSET pub[p].batch : \E reported \in SUBSET accepted :
    SendBatch(p, accepted, reported)

(* The loop over the results goes to the next, or the turn ends. *)
Recorded(p, e) ==
  pub' = [pub EXCEPT ![p].batch = @ \ {e}, ![p].sent = @ \ {e},
                     ![p].pc = IF pub[p].batch = {e} THEN "idle" ELSE "record"]

(* A wrong variant: the whole batch is marked when the call returned. *)
MarkWholeBatch(p, e) ==
  /\ pub[p].pc = "record" /\ e \in pub[p].batch
  /\ ~rows[e].published
  /\ rows' = [rows EXCEPT ![e] = [Unclaimed(rows[e]) EXCEPT !.published = TRUE]]
  /\ Recorded(p, e)
  /\ UNCHANGED <<appended, wire, memory>>

(* MarkPublished, whoever holds the claim now. *)
MarkPublished(p, e) ==
  /\ pub[p].pc = "record" /\ e \in pub[p].sent
  /\ ~rows[e].published
  /\ rows' = [rows EXCEPT ![e] = [Unclaimed(rows[e]) EXCEPT !.published = TRUE]]
  /\ Recorded(p, e)
  /\ UNCHANGED <<appended, wire, memory>>

(* A wrong variant: the claim is not looked at. *)
RescheduleAnyway(p, e) ==
  /\ pub[p].pc = "record" /\ e \in pub[p].batch \ pub[p].sent
  /\ ~rows[e].published
  /\ \E wait \in -Skew..after(rows[e].attempts) :
       rows' = [rows EXCEPT ![e] = [Unclaimed(rows[e]) EXCEPT !.wait = wait]]
  /\ Recorded(p, e)
  /\ UNCHANGED <<appended, wire, memory>>

(* Reschedule, if the row is still this publisher's or nobody's.  The       *)
(* instant was read before the loop, so less than the delay may be left.    *)
Reschedule(p, e) ==
  /\ pub[p].pc = "record" /\ e \in pub[p].batch \ pub[p].sent
  /\ ~rows[e].published /\ rows[e].by \in {p, Nil}
  /\ \E wait \in -Skew..after(rows[e].attempts) :
       rows' = [rows EXCEPT ![e] = [Unclaimed(rows[e]) EXCEPT !.wait = wait]]
  /\ Recorded(p, e)
  /\ UNCHANGED <<appended, wire, memory>>

(* The mark or the reschedule changed nothing: the row was published or     *)
(* taken meanwhile, the statement failed, or published_at would have come   *)
(* before occurred_at.                                                      *)
RecordNothing(p, e) ==
  /\ pub[p].pc = "record" /\ e \in pub[p].batch
  /\ Recorded(p, e)
  /\ UNCHANGED <<appended, rows, wire, memory>>

-----------------------------------------------------------------------------
(* The life of a publisher. *)

Stop(p) ==
  /\ pub[p].run = "running"
  /\ pub' = [pub EXCEPT ![p].run = "stopping"]
  /\ UNCHANGED <<appended, rows, wire, memory>>

(* Stop releases when the turn has come back or the drain timeout has       *)
(* passed; in the second case the turn goes on.  The release may fail.      *)
ReleaseClaims(p) ==
  /\ pub[p].run = "stopping"
  /\ pub' = [pub EXCEPT ![p].run = "stopped"]
  /\ \/ rows' = [e \in Events |-> IF rows[e].by = p /\ ~rows[e].published
                                  THEN Unclaimed(rows[e]) ELSE rows[e]]
     \/ UNCHANGED rows
  /\ UNCHANGED <<appended, wire, memory>>

(* The process ends, by itself or killed, and starts again under its name. *)
Restart(p) ==
  /\ pub[p] # Started
  /\ pub' = [pub EXCEPT ![p] = Started]
  /\ UNCHANGED <<appended, rows, wire, memory>>

Less(left, floor) == IF left > floor THEN left - 1 ELSE left

Tick ==
  /\ rows' = [e \in Events |->
                [rows[e] EXCEPT !.wait = Less(@, -Skew),
                                !.hold = IF rows[e].by = Nil THEN @
                                         ELSE Less(@, -Skew)]]
  /\ memory' = [e \in Events |-> Less(memory[e], 0)]
  /\ UNCHANGED <<appended, pub, wire>>

-----------------------------------------------------------------------------
Init ==
  /\ appended = [w \in Aggregates |-> 0]
  /\ rows = [e \in Events |-> NewRow(Skew)]
  /\ pub = [p \in Publishers |-> Started]
  /\ wire = [e \in Events |-> 0]
  /\ memory = [e \in Events |-> 0]

Turn(p) ==
  \/ Claim(p) \/ Send(p)
  \/ \E e \in Events : MarkPublished(p, e) \/ Reschedule(p, e) \/ RecordNothing(p, e)

Next ==
  \/ \E w \in Aggregates : Append(w)
  \/ \E p \in Publishers : Turn(p)
  \/ \E p \in Publishers \ Steady : Stop(p) \/ ReleaseClaims(p) \/ Restart(p)
  \/ Tick

Spec == Init /\ [][Next]_vars

(* Time passes.  A steady publisher goes on: what it could claim again and  *)
(* again it claims once and learns of it, whoever competes; a queue that is *)
(* asked again and again takes an event and says so; and a mark that is     *)
(* tried again and again succeeds.  Nothing is asked of the others.         *)
Fairness ==
  /\ WF_vars(Tick)
  /\ \A p \in Steady :
       /\ SF_vars(Claim(p) /\ pub'[p].pc = "claimed")
       /\ WF_vars(Send(p))
       /\ SF_vars(SendBatch(p, pub[p].batch, pub[p].batch))
       /\ \A e \in Events :
            /\ WF_vars(MarkPublished(p, e) \/ Reschedule(p, e) \/ RecordNothing(p, e))
            /\ SF_vars(MarkPublished(p, e))

FairSpec == Spec /\ Fairness

-----------------------------------------------------------------------------
Left(most) == -Skew..most

Row == [attempts : 0..MaxAttempts, wait : Left(DelayMax), by : Publishers \cup {Nil},
        hold : Left(Hold), published : BOOLEAN]

Publisher == [run : {"running", "stopping", "stopped"}, pc : {"idle", "claimed", "record"},
              batch : SUBSET Events, sent : SUBSET Events]

(* Every wait stays within the backoff's cap and every claim within its hold. *)
TypeOK ==
  /\ appended \in [Aggregates -> 0..MaxEvents]
  /\ rows \in [Events -> Row]
  /\ pub \in [Publishers -> Publisher]
  /\ wire \in [Events -> 0..2]
  /\ memory \in [Events -> 0..Window]

(* No event is lost: one marked published is on the queue, although the mark *)
(* is not scoped to the claim and the batch may have been taken in part, or   *)
(* by another publisher.                                                      *)
PublishedWasAccepted == \A e \in Events : rows[e].published => wire[e] > 0

(* A claim that has not expired is nobody's but its holder's: until it ends  *)
(* or the event is published, no slow, stopped or restarted publisher clears *)
(* it or puts the event off.                                                 *)
ClaimsRespected ==
  [][ \A e \in Events, q \in Publishers :
        rows[e].by = q /\ rows[e].hold > 0 =>
          \/ rows'[e].by = q /\ rows'[e].wait <= rows[e].wait
          \/ rows'[e].published
          \/ pub'[q] # pub[q] ]_vars

Delivered == {e \in Events : wire[e] > 0}

Stream == INSTANCE EventStream WITH delivered <- Delivered

(* However many publishers share the work and whatever becomes of them, a    *)
(* reader of the queue that drops copies sees each aggregate's events once,  *)
(* in order and without a gap.                                               *)
ImplementsEventStream == Stream!Spec

(* Every event is published, although a publisher that dies, stops or is      *)
(* paused may hold it again and again.                                        *)
EventuallyPublished ==
  \A e \in Events : Exists(e) ~> rows[e].published

(* However it is scheduled, a publisher cannot put an event on the queue     *)
(* behind a later one of the same wallet, not even as a second copy.         *)
NeverOutOfOrder ==
  [][ \A e, f \in Events :
        e[1] = f[1] /\ e[2] < f[2] /\ wire[f] > 0 => wire'[e] = wire[e] ]_vars
=============================================================================
