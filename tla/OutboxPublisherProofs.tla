------------------------ MODULE OutboxPublisherProofs ------------------------
(***************************************************************************)
(* Proofs about OutboxPublisher for every set of aggregates and publishers *)
(* and every setting the configuration loader accepts.                     *)
(*                                                                         *)
(* That no event is lost or delivered out of order is not inductive as it  *)
(* stands: a publisher acts on a batch it claimed long ago.  What carries  *)
(* the argument is that the two facts it relies on cannot become false     *)
(* while it sleeps: the events before one it took stay published, and an   *)
(* event it was told is on the queue stays there.                          *)
(***************************************************************************)
EXTENDS OutboxPublisher, TLAPS

(* What a publisher took was claimed, had nothing unpublished before it, and *)
(* has nothing now.                                                          *)
BatchesAtHead ==
  \A p \in Publishers : \A e \in pub[p].batch :
    Exists(e) /\ rows[e].attempts > 0 /\ HeadOfLine(e)

(* What a publisher was told the queue took, the queue has. *)
SentWasAccepted ==
  \A p \in Publishers : \A e \in pub[p].sent : wire[e] > 0

(* What the queue remembers, it has. *)
RememberedWasAccepted ==
  \A e \in Events : memory[e] > 0 => wire[e] > 0

IInv ==
  /\ TypeOK
  /\ BatchesAtHead
  /\ SentWasAccepted
  /\ RememberedWasAccepted
  /\ PublishedWasAccepted

-----------------------------------------------------------------------------
(* Rows keep their type. *)

(* The backoff's cap holds: what Backoff.after returns is between one tick *)
(* and the cap.                                                            *)
LEMMA AfterIsCapped ==
  ASSUME NEW a \in 1..MaxAttempts
  PROVE  after(a) \in 1..DelayMax
BY PublisherAssumption DEF after

(* What outbox.Append writes is a row. *)
LEMMA NewRowType ==
  ASSUME NEW lag \in 0..Skew
  PROVE  NewRow(lag) \in Row
<1>1. -lag \in Left(DelayMax) /\ 0 \in Left(Hold) /\ 0 \in 0..MaxAttempts
  BY PublisherAssumption DEF Left
<1>2. QED
  BY <1>1 DEF NewRow, Row

(* A row given back, a row claimed and a row a tick older are rows. *)
LEMMA RowFacts ==
  ASSUME NEW row \in Row, NEW p \in Publishers, NEW lag \in 0..Skew,
         NEW wait \in Left(DelayMax)
  PROVE  /\ Unclaimed(row) \in Row
         /\ [Unclaimed(row) EXCEPT !.wait = wait] \in Row
         /\ [Unclaimed(row) EXCEPT !.published = TRUE] \in Row
         /\ Claimed(row, p, lag) \in Row
         /\ Claimed(row, p, lag).published = row.published
         /\ Claimed(row, p, lag).attempts > 0
         /\ Claimed(row, p, lag).attempts >= row.attempts
<1>1. 0 \in Left(Hold) /\ Hold - lag \in Left(Hold)
  BY PublisherAssumption DEF Left
<1>2. (IF row.attempts < MaxAttempts THEN row.attempts + 1 ELSE row.attempts) \in 0..MaxAttempts
  BY PublisherAssumption DEF Row
<1>3. /\ Unclaimed(row) \in Row
      /\ [Unclaimed(row) EXCEPT !.wait = wait] \in Row
      /\ [Unclaimed(row) EXCEPT !.published = TRUE] \in Row
  BY <1>1 DEF Unclaimed, Row
<1>4. Claimed(row, p, lag) \in Row /\ Claimed(row, p, lag).published = row.published
  BY <1>1, <1>2 DEF Claimed, Row
<1>5. Claimed(row, p, lag).attempts > 0 /\ Claimed(row, p, lag).attempts >= row.attempts
  BY PublisherAssumption DEF Claimed, Row
<1>6. QED
  BY <1>3, <1>4, <1>5

(* Less stays within a bound and never goes up. *)
LEMMA LessFacts ==
  ASSUME NEW floor \in Int, NEW most \in Int, NEW left \in floor..most
  PROVE  Less(left, floor) \in floor..most /\ Less(left, floor) <= left
BY DEF Less

-----------------------------------------------------------------------------
(* Frames: what a step has to show, given what it leaves alone. *)

(* No row is taken back: counters, attempts and publications only grow. *)
RowsGrow ==
  /\ \A w \in Aggregates : appended[w] <= appended'[w]
  /\ \A e \in Events : Exists(e) => /\ rows[e].published => rows'[e].published
                                    /\ rows[e].attempts <= rows'[e].attempts

(* Published rows stay published and counters only grow, so a batch stays at *)
(* the head of its aggregates.                                               *)
LEMMA HeadIsStable ==
  ASSUME TypeOK, TypeOK',
         RowsGrow,
         NEW e \in Events, Exists(e), rows[e].attempts > 0, HeadOfLine(e)
  PROVE  (Exists(e) /\ rows[e].attempts > 0 /\ HeadOfLine(e))'
<1>1. e[1] \in Aggregates /\ e[2] \in 1..MaxEvents
  BY DEF Events
<1>2. appended[e[1]] \in Int /\ appended'[e[1]] \in Int
  BY <1>1, PublisherAssumption DEF TypeOK
<1>3. Exists(e)' /\ (rows[e].attempts > 0)'
  <2>1. rows[e].attempts \in Int /\ rows'[e].attempts \in Int
    BY PublisherAssumption DEF TypeOK, Row
  <2>2. QED
    BY <1>1, <1>2, <2>1 DEF Exists, RowsGrow
<1>4. ASSUME NEW f \in Events, f[1] = e[1], f[2] < e[2]
      PROVE  rows'[f].published
  <2>1. f[2] \in 1..MaxEvents
    BY DEF Events
  <2>2. Exists(f)
    BY <1>1, <1>2, <1>4, <2>1 DEF Exists
  <2>3. rows[f].published
    BY <1>4 DEF HeadOfLine
  <2>4. QED
    BY <2>2, <2>3 DEF RowsGrow
<1>5. QED
  BY <1>3, <1>4 DEF HeadOfLine

(* A step that takes no batch and is told of no copy keeps both. *)
LEMMA BatchesStay ==
  ASSUME IInv, TypeOK',
         RowsGrow,
         \A e \in Events : wire[e] > 0 => wire'[e] > 0,
         \A p \in Publishers : /\ pub'[p].batch \subseteq pub[p].batch
                               /\ pub'[p].sent \subseteq pub[p].sent
  PROVE  BatchesAtHead' /\ SentWasAccepted'
<1>1. ASSUME NEW p \in Publishers, NEW e \in pub'[p].batch
      PROVE  (Exists(e) /\ rows[e].attempts > 0 /\ HeadOfLine(e))'
  <2>1. e \in pub[p].batch /\ e \in Events
    BY DEF IInv, TypeOK, Publisher
  <2>2. Exists(e) /\ rows[e].attempts > 0 /\ HeadOfLine(e)
    BY <2>1 DEF IInv, BatchesAtHead
  <2>3. QED
    BY <2>1, <2>2, HeadIsStable DEF IInv
<1>2. ASSUME NEW p \in Publishers, NEW e \in pub'[p].sent
      PROVE  wire'[e] > 0
  <2>1. e \in pub[p].sent /\ e \in Events
    BY DEF IInv, TypeOK, Publisher
  <2>2. QED
    BY <2>1 DEF IInv, SentWasAccepted
<1>3. QED
  BY <1>1, <1>2 DEF BatchesAtHead, SentWasAccepted

-----------------------------------------------------------------------------
(* The initial states. *)

(* An empty outbox and idle publishers satisfy the invariant. *)
LEMMA InitEstablishesIInv == Init => IInv
<1>1. SUFFICES ASSUME Init PROVE IInv
  OBVIOUS
<1>2. NewRow(Skew) \in Row /\ ~NewRow(Skew).published
  BY NewRowType, PublisherAssumption DEF NewRow
<1>3. Started \in Publisher /\ Started.batch = {} /\ Started.sent = {}
  BY DEF Started, Publisher
<1>4. TypeOK
  BY <1>1, <1>2, <1>3, PublisherAssumption DEF Init, TypeOK
<1>5. BatchesAtHead /\ SentWasAccepted /\ RememberedWasAccepted
  BY <1>1, <1>3 DEF Init, BatchesAtHead, SentWasAccepted, RememberedWasAccepted
<1>6. PublishedWasAccepted
  BY <1>1, <1>2 DEF Init, PublishedWasAccepted
<1>7. QED
  BY <1>4, <1>5, <1>6 DEF IInv

-----------------------------------------------------------------------------
(* One lemma per action. *)

(* Appending an event disturbs no batch: it is behind all of them. *)
LEMMA AppendStep ==
  ASSUME IInv, NEW w \in Aggregates, Append(w)
  PROVE  IInv'
<1>1. PICK lag \in 0..Skew : rows' = [rows EXCEPT ![<<w, appended[w] + 1>>] = NewRow(lag)]
  BY DEF Append
<1>2. appended[w] \in 0..MaxEvents /\ appended[w] < MaxEvents
  BY DEF IInv, TypeOK, Append
<1>3. appended[w] + 1 \in 0..MaxEvents /\ appended[w] + 1 \in 1..MaxEvents
  BY <1>2, PublisherAssumption
<1>4. <<w, appended[w] + 1>> \in Events /\ ~Exists(<<w, appended[w] + 1>>)
  BY <1>2, <1>3 DEF Events, Exists
<1>5. TypeOK'
  <2>1. appended' \in [Aggregates -> 0..MaxEvents]
    BY <1>3 DEF IInv, TypeOK, Append
  <2>2. rows' \in [Events -> Row]
    BY <1>1, <1>4, NewRowType DEF IInv, TypeOK
  <2>3. QED
    BY <2>1, <2>2 DEF IInv, TypeOK, Append
<1>6. \A v \in Aggregates : appended[v] <= appended'[v]
  <2>1. TAKE v \in Aggregates
  <2>2. appended[v] \in Int
    BY PublisherAssumption DEF IInv, TypeOK
  <2>3. QED
    BY <2>2 DEF IInv, TypeOK, Append
<1>7. RowsGrow
  <2>1. \A e \in Events : Exists(e) => rows'[e] = rows[e]
    BY <1>1, <1>4 DEF IInv, TypeOK
  <2>2. \A e \in Events : rows[e].attempts \in Int
    BY PublisherAssumption DEF IInv, TypeOK, Row
  <2>3. QED
    BY <1>6, <2>1, <2>2 DEF RowsGrow
<1>8. wire' = wire /\ memory' = memory /\ pub' = pub
  BY DEF Append
<1>9. BatchesAtHead' /\ SentWasAccepted'
  BY <1>5, <1>7, <1>8, BatchesStay
<1>10. PublishedWasAccepted'
  <2>1. ~NewRow(lag).published
    BY DEF NewRow
  <2>2. \A e \in Events : rows'[e].published => rows[e].published
    BY <1>1, <1>4, <2>1 DEF IInv, TypeOK
  <2>3. QED
    BY <1>8, <2>2 DEF IInv, PublishedWasAccepted
<1>11. QED
  BY <1>5, <1>8, <1>9, <1>10 DEF IInv, RememberedWasAccepted

(* A claim takes only events at the head of their aggregates. *)
LEMMA ClaimStep ==
  ASSUME IInv, NEW p \in Publishers, Claim(p)
  PROVE  IInv'
<1>0. PICK lag \in 0..Skew : \E taken \in SUBSET {e \in Events : Claimable(e, lag)} :
        /\ rows' = [e \in Events |->
                      IF e \in taken THEN Claimed(rows[e], p, lag) ELSE rows[e]]
        /\ \/ pub' = [pub EXCEPT ![p].pc = "claimed", ![p].batch = taken]
           \/ UNCHANGED pub
  BY DEF Claim
<1>1. PICK taken \in SUBSET {e \in Events : Claimable(e, lag)} :
        /\ rows' = [e \in Events |->
                      IF e \in taken THEN Claimed(rows[e], p, lag) ELSE rows[e]]
        /\ \/ pub' = [pub EXCEPT ![p].pc = "claimed", ![p].batch = taken]
           \/ UNCHANGED pub
  BY <1>0
<1>2. appended' = appended /\ wire' = wire /\ memory' = memory
  BY DEF Claim
<1>3. DelayMax \in Left(DelayMax)
  BY PublisherAssumption DEF Left
<1>4. \A e \in Events : rows'[e] \in Row /\ rows'[e].published = rows[e].published
  BY <1>1, <1>3, RowFacts DEF IInv, TypeOK
<1>a. \A e \in Events : rows[e].attempts <= rows'[e].attempts
  <2>1. TAKE e \in Events
  <2>2. rows[e] \in Row /\ rows[e].attempts \in Int
    BY PublisherAssumption DEF IInv, TypeOK, Row
  <2>3. rows'[e] = IF e \in taken THEN Claimed(rows[e], p, lag) ELSE rows[e]
    BY <1>1
  <2>4. /\ Claimed(rows[e], p, lag).attempts >= rows[e].attempts
        /\ Claimed(rows[e], p, lag) \in Row
    BY <1>3, <2>2, RowFacts
  <2>5. Claimed(rows[e], p, lag).attempts \in Int
    BY <2>4, PublisherAssumption DEF Row
  <2>6. CASE e \in taken
    BY <2>2, <2>3, <2>4, <2>5, <2>6
  <2>7. CASE e \notin taken
    BY <2>2, <2>3, <2>7
  <2>8. QED
    BY <2>6, <2>7
<1>b. \A e \in Events : e \in taken => rows'[e].attempts > 0
  BY <1>1, <1>3, RowFacts DEF IInv, TypeOK
<1>5. TypeOK'
  <2>1. rows' \in [Events -> Row]
    BY <1>1, <1>4
  <2>2. pub' \in [Publishers -> Publisher]
    BY <1>1 DEF IInv, TypeOK, Publisher
  <2>3. QED
    BY <1>2, <2>1, <2>2 DEF IInv, TypeOK
<1>6. RowsGrow
  <2>1. \A w \in Aggregates : appended[w] <= appended'[w]
    BY <1>2, PublisherAssumption DEF IInv, TypeOK
  <2>2. \A e \in Events : rows[e].published => rows'[e].published
    BY <1>4
  <2>3. QED
    BY <1>a, <2>1, <2>2 DEF RowsGrow
<1>7. ASSUME NEW q \in Publishers, NEW e \in pub'[q].batch
      PROVE  (Exists(e) /\ rows[e].attempts > 0 /\ HeadOfLine(e))'
  <2>1. e \in Events
    BY <1>5 DEF TypeOK, Publisher
  <2>2. e \in taken \/ e \in pub[q].batch
    BY <1>1 DEF IInv, TypeOK, Publisher
  <2>3. Exists(e) /\ HeadOfLine(e)
    BY <1>1, <2>2 DEF IInv, BatchesAtHead, Claimable
  <2>4. CASE e \in pub[q].batch
    BY <1>5, <1>6, <2>1, <2>4, HeadIsStable DEF IInv, BatchesAtHead
  <2>5. CASE e \in taken
    <3>1. HeadOfLine(e)'
      BY <1>4, <2>3 DEF HeadOfLine
    <3>2. Exists(e)'
      BY <1>2, <2>3 DEF Exists
    <3>3. QED
      BY <1>b, <2>1, <2>5, <3>1, <3>2
  <2>6. QED
    BY <2>2, <2>4, <2>5
<1>8. \A q \in Publishers : pub'[q].sent = pub[q].sent
  BY <1>1 DEF IInv, TypeOK, Publisher
<1>9. SentWasAccepted'
  BY <1>2, <1>8 DEF IInv, SentWasAccepted
<1>10. PublishedWasAccepted'
  BY <1>2, <1>4 DEF IInv, PublishedWasAccepted
<1>11. QED
  BY <1>2, <1>5, <1>7, <1>9, <1>10 DEF IInv, BatchesAtHead, RememberedWasAccepted

(* A send only adds to the queue, and reports only what the queue has. *)
LEMMA SendStep ==
  ASSUME IInv, NEW p \in Publishers, Send(p)
  PROVE  IInv'
<1>0. PICK accepted \in SUBSET pub[p].batch : \E reported \in SUBSET accepted :
        SendBatch(p, accepted, reported)
  BY DEF Send
<1>1. PICK reported \in SUBSET accepted : SendBatch(p, accepted, reported)
  BY <1>0
<1>2. accepted \subseteq Events /\ reported \subseteq Events
  BY DEF IInv, TypeOK, Publisher
<1>3. appended' = appended /\ rows' = rows
  BY <1>1 DEF SendBatch
<1>4. \A e \in Events :
        /\ wire'[e] \in 0..2 /\ memory'[e] \in 0..Window
        /\ wire[e] > 0 => wire'[e] > 0
        /\ e \in accepted => wire'[e] > 0
        /\ memory'[e] > 0 => wire'[e] > 0
  <2>1. TAKE e \in Events
  <2>2. /\ wire[e] \in 0..2 /\ memory[e] \in 0..Window
        /\ memory[e] > 0 => wire[e] > 0
    BY DEF IInv, TypeOK, RememberedWasAccepted
  <2>3. /\ wire'[e] = IF e \in accepted /\ memory[e] = 0 /\ wire[e] < 2
                      THEN wire[e] + 1 ELSE wire[e]
        /\ memory'[e] = IF e \in accepted /\ memory[e] = 0 THEN Window ELSE memory[e]
    BY <1>1 DEF SendBatch
  <2>4. QED
    BY <2>2, <2>3, PublisherAssumption
<1>5. TypeOK'
  <2>1. wire' \in [Events -> 0..2] /\ memory' \in [Events -> 0..Window]
    BY <1>1, <1>4 DEF SendBatch
  <2>2. pub' \in [Publishers -> Publisher]
    <3>1. reported \in SUBSET Events
      BY <1>2
    <3>2. pub' = [pub EXCEPT ![p].pc = "record", ![p].sent = reported]
      BY <1>1 DEF SendBatch
    <3>3. [pub[p] EXCEPT !.pc = "record", !.sent = reported] \in Publisher
      BY <3>1 DEF IInv, TypeOK, Publisher
    <3>4. pub' = [pub EXCEPT ![p] = [pub[p] EXCEPT !.pc = "record", !.sent = reported]]
      BY <3>2
    <3>5. QED
      BY <3>3, <3>4 DEF IInv, TypeOK
  <2>3. QED
    BY <1>3, <2>1, <2>2 DEF IInv, TypeOK
<1>6. \A q \in Publishers : pub'[q].batch = pub[q].batch
  BY <1>1 DEF SendBatch, IInv, TypeOK, Publisher
<1>7. BatchesAtHead'
  BY <1>3, <1>6 DEF IInv, BatchesAtHead, Exists, HeadOfLine
<1>8. ASSUME NEW q \in Publishers, NEW e \in pub'[q].sent
      PROVE  wire'[e] > 0
  <2>1. e \in Events
    BY <1>5 DEF TypeOK, Publisher
  <2>2. e \in reported \/ e \in pub[q].sent
    BY <1>1 DEF SendBatch, IInv, TypeOK, Publisher
  <2>3. QED
    BY <1>4, <2>1, <2>2 DEF IInv, SentWasAccepted
<1>9. RememberedWasAccepted' /\ PublishedWasAccepted'
  BY <1>3, <1>4 DEF IInv, RememberedWasAccepted, PublishedWasAccepted
<1>10. QED
  BY <1>5, <1>7, <1>8, <1>9 DEF IInv, SentWasAccepted

(* Recorded only takes an event off a batch. *)
LEMMA RecordedFacts ==
  ASSUME TypeOK, NEW p \in Publishers, NEW e \in Events, Recorded(p, e)
  PROVE  /\ pub' \in [Publishers -> Publisher]
         /\ \A q \in Publishers : /\ pub'[q].batch \subseteq pub[q].batch
                                  /\ pub'[q].sent \subseteq pub[q].sent
<1>1. pub[p] \in Publisher /\ pub[p].batch \ {e} \in SUBSET Events
                        /\ pub[p].sent \ {e} \in SUBSET Events
  BY DEF TypeOK, Publisher
<1>2. /\ pub'[p].run = pub[p].run
      /\ pub'[p].batch = pub[p].batch \ {e} /\ pub'[p].sent = pub[p].sent \ {e}
  BY <1>1 DEF Recorded, TypeOK, Publisher
<1>3. \A q \in Publishers : q # p => pub'[q] = pub[q]
  BY DEF Recorded, TypeOK
<1>4. pub' \in [Publishers -> Publisher]
  BY <1>1 DEF Recorded, TypeOK, Publisher
<1>5. QED
  BY <1>2, <1>3, <1>4

(* A step that only touches rows and takes events off batches keeps the      *)
(* invariant if it publishes only what the queue has and unpublishes nothing.*)
LEMMA RowStep ==
  ASSUME IInv, appended' = appended, wire' = wire, memory' = memory,
         rows' \in [Events -> Row],
         pub' \in [Publishers -> Publisher],
         \A q \in Publishers : /\ pub'[q].batch \subseteq pub[q].batch
                               /\ pub'[q].sent \subseteq pub[q].sent,
         \A e \in Events : /\ rows[e].published => rows'[e].published
                           /\ rows'[e].published => rows[e].published \/ wire[e] > 0
                           /\ rows'[e].attempts = rows[e].attempts
  PROVE  IInv'
<1>1. TypeOK'
  BY DEF IInv, TypeOK
<1>2. RowsGrow
  <2>1. \A e \in Events : rows[e].attempts \in Int
    BY PublisherAssumption DEF IInv, TypeOK, Row
  <2>2. QED
    BY <2>1, PublisherAssumption DEF IInv, TypeOK, RowsGrow
<1>3. BatchesAtHead' /\ SentWasAccepted'
  BY <1>1, <1>2, BatchesStay
<1>4. RememberedWasAccepted' /\ PublishedWasAccepted'
  BY DEF IInv, RememberedWasAccepted, PublishedWasAccepted
<1>5. QED
  BY <1>1, <1>3, <1>4 DEF IInv

(* A mark is made only for an event the queue was seen to take. *)
LEMMA MarkStep ==
  ASSUME IInv, NEW p \in Publishers, NEW e \in Events, MarkPublished(p, e)
  PROVE  IInv'
<1>1. rows[e] \in Row /\ 0 \in 0..Skew /\ DelayMax \in Left(DelayMax)
  BY PublisherAssumption DEF IInv, TypeOK, Left
<1>2. [Unclaimed(rows[e]) EXCEPT !.published = TRUE] \in Row
  BY <1>1, RowFacts
<1>3. rows' \in [Events -> Row]
  BY <1>2 DEF MarkPublished, IInv, TypeOK
<1>4. wire[e] > 0
  BY DEF MarkPublished, IInv, SentWasAccepted
<1>5. rows'[e].published /\ rows'[e].attempts = rows[e].attempts
  BY <1>1 DEF MarkPublished, IInv, TypeOK, Unclaimed, Row
<1>6. \A f \in Events : f # e => rows'[f] = rows[f]
  BY DEF MarkPublished, IInv, TypeOK
<1>7. QED
  BY <1>3, <1>4, <1>5, <1>6, RecordedFacts, RowStep DEF MarkPublished, IInv

(* A reschedule changes a row's wait and claim and nothing else. *)
LEMMA RescheduleStep ==
  ASSUME IInv, NEW p \in Publishers, NEW e \in Events, Reschedule(p, e)
  PROVE  IInv'
<1>1. rows[e] \in Row /\ 0 \in 0..Skew
  BY PublisherAssumption DEF IInv, TypeOK
<1>2. PICK wait \in -Skew..after(rows[e].attempts) :
        rows' = [rows EXCEPT ![e] = [Unclaimed(rows[e]) EXCEPT !.wait = wait]]
  BY DEF Reschedule
<1>3. rows[e].attempts \in 1..MaxAttempts
  BY <1>1 DEF Reschedule, IInv, BatchesAtHead, Row
<1>4. wait \in Left(DelayMax)
  BY <1>2, <1>3, AfterIsCapped, PublisherAssumption DEF Left
<1>5. [Unclaimed(rows[e]) EXCEPT !.wait = wait] \in Row
  BY <1>1, <1>4, RowFacts
<1>6. /\ [Unclaimed(rows[e]) EXCEPT !.wait = wait].published = rows[e].published
      /\ [Unclaimed(rows[e]) EXCEPT !.wait = wait].attempts = rows[e].attempts
  BY <1>1 DEF Unclaimed, Row
<1>7. rows' \in [Events -> Row]
  BY <1>2, <1>5 DEF IInv, TypeOK
<1>8. \A f \in Events : /\ rows'[f].published = rows[f].published
                        /\ rows'[f].attempts = rows[f].attempts
  BY <1>2, <1>6 DEF IInv, TypeOK
<1>9. QED
  BY <1>7, <1>8, RecordedFacts, RowStep DEF Reschedule, IInv

(* Writing nothing takes the event off the batch. *)
LEMMA RecordNothingStep ==
  ASSUME IInv, NEW p \in Publishers, NEW e \in Events, RecordNothing(p, e)
  PROVE  IInv'
BY RecordedFacts, RowStep DEF RecordNothing, IInv, TypeOK

(* A restarted publisher has no batch. *)
LEMMA StartedFacts == Started \in Publisher /\ Started.batch = {} /\ Started.sent = {}
BY DEF Started, Publisher

(* Stopping, releasing and restarting touch no event but its claim. *)
LEMMA LifeStep ==
  ASSUME IInv, NEW p \in Publishers, Stop(p) \/ ReleaseClaims(p) \/ Restart(p)
  PROVE  IInv'
<1>1. CASE Stop(p)
  <2>1. /\ pub' \in [Publishers -> Publisher]
        /\ \A q \in Publishers : /\ pub'[q].batch = pub[q].batch
                                 /\ pub'[q].sent = pub[q].sent
    BY <1>1 DEF Stop, IInv, TypeOK, Publisher
  <2>2. QED
    BY <1>1, <2>1, RowStep DEF Stop, IInv, TypeOK
<1>2. CASE ReleaseClaims(p)
  <2>1. /\ pub' \in [Publishers -> Publisher]
        /\ \A q \in Publishers : /\ pub'[q].batch = pub[q].batch
                                 /\ pub'[q].sent = pub[q].sent
    BY <1>2 DEF ReleaseClaims, IInv, TypeOK, Publisher
  <2>2. \A row \in Row : /\ Unclaimed(row) \in Row
                         /\ Unclaimed(row).published = row.published
                         /\ Unclaimed(row).attempts = row.attempts
    <3>1. 0 \in Left(Hold)
      BY PublisherAssumption DEF Left
    <3>2. QED
      BY <3>1 DEF Unclaimed, Row
  <2>3. rows' \in [Events -> Row]
    BY <1>2, <2>2 DEF ReleaseClaims, IInv, TypeOK
  <2>4. \A e \in Events : rows'[e] \in {rows[e], Unclaimed(rows[e])}
    BY <1>2 DEF ReleaseClaims
  <2>5. \A e \in Events : /\ rows'[e].published = rows[e].published
                          /\ rows'[e].attempts = rows[e].attempts
    BY <2>2, <2>4 DEF IInv, TypeOK
  <2>6. QED
    BY <1>2, <2>1, <2>3, <2>5, RowStep DEF ReleaseClaims
<1>3. CASE Restart(p)
  <2>1. /\ pub' \in [Publishers -> Publisher]
        /\ \A q \in Publishers : /\ pub'[q].batch \subseteq pub[q].batch
                                 /\ pub'[q].sent \subseteq pub[q].sent
    BY <1>3, StartedFacts DEF Restart, IInv, TypeOK
  <2>2. QED
    BY <1>3, <2>1, RowStep DEF Restart, IInv, TypeOK
<1>4. QED
  BY <1>1, <1>2, <1>3

(* Time takes waits, holds and memories down and nothing else. *)
LEMMA TickStep ==
  ASSUME IInv, Tick
  PROVE  IInv'
<1>1. \A e \in Events : /\ rows'[e] \in Row
                        /\ rows'[e].published = rows[e].published
                        /\ rows'[e].attempts = rows[e].attempts
  <2>1. TAKE e \in Events
  <2>2. rows[e] \in Row
    BY DEF IInv, TypeOK
  <2>a. -Skew \in Int /\ DelayMax \in Int /\ Hold \in Int
    BY PublisherAssumption
  <2>b. rows[e].wait \in -Skew..DelayMax /\ rows[e].hold \in -Skew..Hold
    BY <2>2 DEF Left, Row
  <2>3. Less(rows[e].wait, -Skew) \in Left(DelayMax)
    BY <2>a, <2>b, LessFacts DEF Left
  <2>4. (IF rows[e].by = Nil THEN rows[e].hold ELSE Less(rows[e].hold, -Skew)) \in Left(Hold)
    BY <2>a, <2>b, LessFacts DEF Left
  <2>5. rows'[e] = [rows[e] EXCEPT !.wait = Less(rows[e].wait, -Skew),
                                   !.hold = IF rows[e].by = Nil THEN rows[e].hold
                                            ELSE Less(rows[e].hold, -Skew)]
    BY <2>2 DEF Tick, Row
  <2>6. QED
    BY <2>2, <2>3, <2>4, <2>5 DEF Row
<1>2. \A e \in Events : memory'[e] \in 0..Window /\ memory'[e] <= memory[e]
  <2>1. TAKE e \in Events
  <2>2. memory[e] \in 0..Window /\ Window \in Int
    BY PublisherAssumption DEF IInv, TypeOK
  <2>3. memory'[e] = Less(memory[e], 0)
    BY DEF Tick
  <2>4. QED
    BY <2>2, <2>3, LessFacts
<1>3. appended' = appended /\ pub' = pub /\ wire' = wire
  BY DEF Tick
<1>4. TypeOK'
  <2>1. rows' \in [Events -> Row] /\ memory' \in [Events -> 0..Window]
    BY <1>1, <1>2 DEF Tick
  <2>2. QED
    BY <1>3, <2>1 DEF IInv, TypeOK
<1>5. RowsGrow
  <2>1. \A w \in Aggregates : appended[w] <= appended'[w]
    BY <1>3, PublisherAssumption DEF IInv, TypeOK
  <2>2. \A e \in Events : rows[e].attempts \in Int
    BY PublisherAssumption DEF IInv, TypeOK, Row
  <2>3. QED
    BY <1>1, <2>1, <2>2 DEF RowsGrow
<1>6. BatchesAtHead' /\ SentWasAccepted'
  BY <1>3, <1>4, <1>5, BatchesStay
<1>7. RememberedWasAccepted'
  <2>1. \A e \in Events : memory[e] \in Int
    BY PublisherAssumption DEF IInv, TypeOK
  <2>2. QED
    BY <1>2, <1>3, <2>1 DEF IInv, RememberedWasAccepted
<1>8. PublishedWasAccepted'
  BY <1>1, <1>3 DEF IInv, PublishedWasAccepted
<1>9. QED
  BY <1>4, <1>6, <1>7, <1>8 DEF IInv

-----------------------------------------------------------------------------
(* The theorems. *)

(* Every step keeps the invariant. *)
LEMMA NextPreservesIInv == IInv /\ [Next]_vars => IInv'
<1>1. SUFFICES ASSUME IInv, [Next]_vars PROVE IInv'
  OBVIOUS
<1>2. CASE UNCHANGED vars
  BY <1>1, <1>2 DEF vars, IInv, TypeOK, BatchesAtHead, SentWasAccepted,
     RememberedWasAccepted, PublishedWasAccepted, Exists, HeadOfLine
<1>3. CASE \E w \in Aggregates : Append(w)
  BY <1>1, <1>3, AppendStep
<1>4. ASSUME NEW p \in Publishers, Turn(p) PROVE IInv'
  BY <1>1, <1>4, ClaimStep, SendStep, MarkStep, RescheduleStep, RecordNothingStep
     DEF Turn
<1>5. ASSUME NEW p \in Publishers \ Steady, Stop(p) \/ ReleaseClaims(p) \/ Restart(p)
      PROVE  IInv'
  BY <1>1, <1>5, LifeStep
<1>6. CASE Tick
  BY <1>1, <1>6, TickStep
<1>7. QED
  BY <1>1, <1>2, <1>3, <1>4, <1>5, <1>6 DEF Next

(* The invariant holds in every reachable state. *)
LEMMA IInvHolds == Spec => []IInv
BY InitEstablishesIInv, NextPreservesIInv, PTL DEF Spec

(* Waits stay within the backoff's cap, holds within the claim's, and every *)
(* publisher's batch is a set of events, whatever it did before.            *)
THEOREM PublisherTypes == Spec => []TypeOK
<1>1. IInv => TypeOK
  BY DEF IInv
<1>2. QED
  BY <1>1, IInvHolds, PTL

(* Publisher.mark: an event marked published is on the queue, for any number *)
(* of publishers, any lost answers, stops, deaths and pauses.                *)
THEOREM NoEventLost == Spec => []PublishedWasAccepted
<1>1. IInv => PublishedWasAccepted
  BY DEF IInv
<1>2. QED
  BY <1>1, IInvHolds, PTL

-----------------------------------------------------------------------------
(* The outbox and its publishers implement the event stream. *)

(* A step that changes neither the counters nor what the queue has is none  *)
(* of the stream's.                                                         *)
LEMMA StreamUnmoved ==
  ASSUME appended' = appended, wire' = wire
  PROVE  UNCHANGED <<appended, Delivered>>
BY DEF Delivered

(* What a send newly delivers is next in its aggregate: the events before it *)
(* are published, and so were delivered.                                     *)
LEMMA SendDelivers ==
  ASSUME IInv, NEW p \in Publishers, Send(p)
  PROVE  \E S \in SUBSET Events : Stream!Deliver(S)
<1>0. PICK accepted \in SUBSET pub[p].batch : \E reported \in SUBSET accepted :
        SendBatch(p, accepted, reported)
  BY DEF Send
<1>1. /\ wire' = [e \in Events |-> IF e \in accepted /\ memory[e] = 0 /\ wire[e] < 2
                                   THEN wire[e] + 1 ELSE wire[e]]
      /\ appended' = appended
  BY <1>0 DEF SendBatch
<1>2. \A e \in Events : wire[e] \in 0..2 /\ (memory[e] > 0 => wire[e] > 0)
                                         /\ memory[e] \in 0..Window
  BY DEF IInv, TypeOK, RememberedWasAccepted
<1>3. accepted \subseteq Events
  BY DEF IInv, TypeOK, Publisher
<1>4. DEFINE S == {e \in accepted : wire[e] = 0}
<1>5. \A e \in Events : wire'[e] > 0 <=> wire[e] > 0 \/ e \in S
  <2>1. TAKE e \in Events
  <2>2. wire'[e] = IF e \in accepted /\ memory[e] = 0 /\ wire[e] < 2
                   THEN wire[e] + 1 ELSE wire[e]
    BY <1>1
  <2>3. QED
    BY <1>2, <2>2, PublisherAssumption
<1>6. Delivered' = Delivered \cup S
  BY <1>3, <1>5 DEF Delivered
<1>7. ASSUME NEW e \in S PROVE Stream!IsNext(e)
  <2>1. e \in Events /\ e \in pub[p].batch /\ wire[e] = 0
    BY <1>3, <1>7
  <2>2. Exists(e) /\ HeadOfLine(e)
    BY <2>1 DEF IInv, BatchesAtHead
  <2>3. e[1] \in Aggregates /\ e[2] \in 1..MaxEvents
    BY <2>1 DEF Events
  <2>4. ASSUME NEW n \in 1..MaxEvents, n < e[2]
        PROVE  <<e[1], n>> \in Delivered
    <3>1. <<e[1], n>> \in Events
      BY <2>3 DEF Events
    <3>2. rows[<<e[1], n>>].published
      BY <2>2, <2>4, <3>1 DEF HeadOfLine
    <3>3. QED
      BY <3>1, <3>2 DEF IInv, PublishedWasAccepted, Delivered
  <2>5. e \notin Delivered
    BY <2>1 DEF Delivered
  <2>6. QED
    BY <2>2, <2>4, <2>5 DEF Stream!IsNext, Exists
<1>8. S \in SUBSET Events /\ Stream!Deliver(S)
  BY <1>1, <1>3, <1>6, <1>7 DEF Stream!Deliver
<1>9. QED
  BY <1>8

(* Every step of the publishers is a step of the stream or none. *)
LEMMA StepImplementsStream ==
  IInv /\ [Next]_vars => [Stream!Next]_<<appended, Delivered>>
<1>1. SUFFICES ASSUME IInv, [Next]_vars
               PROVE  [Stream!Next]_<<appended, Delivered>>
  OBVIOUS
<1>2. Stream!Events = Events
  BY DEF Stream!Events, Events
<1>3. CASE UNCHANGED vars
  BY <1>3, StreamUnmoved DEF vars
<1>4. ASSUME NEW w \in Aggregates, Append(w)
      PROVE  [Stream!Next]_<<appended, Delivered>>
  <2>1. Delivered' = Delivered
    BY <1>4 DEF Append, Delivered
  <2>2. Stream!Append(w)
    BY <1>4, <2>1 DEF Append, Stream!Append
  <2>3. QED
    BY <2>2 DEF Stream!Next
<1>5. ASSUME NEW p \in Publishers, Turn(p)
      PROVE  [Stream!Next]_<<appended, Delivered>>
  <2>1. CASE Send(p)
    BY <1>1, <1>2, <2>1, SendDelivers DEF Stream!Next
  <2>2. CASE ~Send(p)
    <3>1. appended' = appended /\ wire' = wire
      BY <1>5, <2>2 DEF Turn, Claim, MarkPublished, Reschedule, RecordNothing
    <3>2. QED
      BY <3>1, StreamUnmoved
  <2>3. QED
    BY <2>1, <2>2
<1>6. ASSUME NEW p \in Publishers \ Steady, Stop(p) \/ ReleaseClaims(p) \/ Restart(p)
      PROVE  [Stream!Next]_<<appended, Delivered>>
  BY <1>6, StreamUnmoved DEF Stop, ReleaseClaims, Restart
<1>7. CASE Tick
  BY <1>7, StreamUnmoved DEF Tick
<1>8. QED
  BY <1>1, <1>3, <1>4, <1>5, <1>6, <1>7 DEF Next

(* Publisher.turn and claimOutbox: a reader of the queue that drops copies   *)
(* sees every aggregate's events once, in order and without a gap, however   *)
(* many publishers there are and whatever becomes of them.                   *)
THEOREM PublishersImplementStream == Spec => ImplementsEventStream
<1>1. Init => Stream!Init
  BY DEF Init, Stream!Init, Delivered
<1>2. QED
  BY <1>1, IInvHolds, StepImplementsStream, PTL DEF Spec, ImplementsEventStream, Stream!Spec

-----------------------------------------------------------------------------
(* Claims are respected. *)

(* A row that Append has not written yet is nobody's. *)
UnwrittenUnclaimed == \A e \in Events : ~Exists(e) => rows[e].by = Nil

(* A row given back is nobody's, and a row claimed is its claimer's. *)
LEMMA Holders ==
  ASSUME NEW row \in Row, NEW p, NEW lag, NEW wait
  PROVE  /\ Unclaimed(row).by = Nil
         /\ [Unclaimed(row) EXCEPT !.wait = wait].by = Nil
         /\ [Unclaimed(row) EXCEPT !.published = TRUE].by = Nil
         /\ [Unclaimed(row) EXCEPT !.published = TRUE].published
         /\ Claimed(row, p, lag).by = p
BY DEF Unclaimed, Claimed, Row

(* Only what exists is claimed. *)
LEMMA UnclaimedPreserved == IInv /\ UnwrittenUnclaimed /\ [Next]_vars => UnwrittenUnclaimed'
<1> SUFFICES ASSUME IInv, UnwrittenUnclaimed, [Next]_vars, NEW e \in Events, ~Exists(e)'
             PROVE  rows'[e].by = Nil
  BY DEF UnwrittenUnclaimed
<1>1. /\ rows \in [Events -> Row] /\ rows[e] \in Row
      /\ e[1] \in Aggregates /\ e[2] \in 1..MaxEvents
      /\ appended \in [Aggregates -> 0..MaxEvents] /\ appended[e[1]] \in 0..MaxEvents
  BY DEF IInv, TypeOK, Events
<1>2. ASSUME appended' = appended PROVE rows[e].by = Nil
  BY <1>2 DEF UnwrittenUnclaimed, Exists
<1>3. CASE UNCHANGED vars
  BY <1>2, <1>3 DEF vars
<1>4. ASSUME NEW w \in Aggregates, Append(w) PROVE rows'[e].by = Nil
  <2>1. PICK lag \in 0..Skew : rows' = [rows EXCEPT ![<<w, appended[w] + 1>>] = NewRow(lag)]
    BY <1>4 DEF Append
  <2>2. appended' = [appended EXCEPT ![w] = @ + 1]  BY <1>4 DEF Append
  <2>3. ~Exists(e)
    <3>1. ~(e[2] <= appended'[e[1]])  BY DEF Exists
    <3>2. appended'[e[1]] = IF e[1] = w THEN appended[e[1]] + 1 ELSE appended[e[1]]
      BY <1>1, <2>2
    <3> QED  BY <3>1, <3>2, <1>1, PublisherAssumption DEF Exists
  <2>4. CASE e = <<w, appended[w] + 1>>  BY <2>1, <2>4, <1>1 DEF NewRow
  <2>5. CASE e # <<w, appended[w] + 1>>
    BY <2>1, <2>3, <2>5, <1>1 DEF UnwrittenUnclaimed
  <2> QED  BY <2>4, <2>5
<1>5. ASSUME NEW p \in Publishers, Turn(p) PROVE rows'[e].by = Nil
  <2>1. CASE Claim(p)
    <3>1. appended' = appended  BY <2>1 DEF Claim
    <3>2. PICK lag \in 0..Skew : \E taken \in SUBSET {f \in Events : Claimable(f, lag)} :
            rows' = [f \in Events |->
                       IF f \in taken THEN Claimed(rows[f], p, lag) ELSE rows[f]]
      BY <2>1 DEF Claim
    <3>3. ~Exists(e)  BY <3>1 DEF Exists
    <3>4. rows'[e] = rows[e]  BY <3>2, <3>3 DEF Claimable
    <3> QED  BY <3>1, <3>4, <1>2
  <2>2. CASE Send(p)
    <3>1. appended' = appended /\ rows' = rows  BY <2>2 DEF Send, SendBatch
    <3> QED  BY <3>1, <1>2
  <2>3. ASSUME NEW f \in Events, MarkPublished(p, f) \/ Reschedule(p, f) \/ RecordNothing(p, f)
        PROVE  rows'[e].by = Nil
    <3>1. appended' = appended  BY <2>3 DEF MarkPublished, Reschedule, RecordNothing
    <3>2. rows'[e] = rows[e] \/ rows'[e].by = Nil
      <4>1. CASE MarkPublished(p, f)  BY <4>1, <1>1, Holders DEF MarkPublished
      <4>2. CASE Reschedule(p, f)
        <5>1. PICK wait : rows' = [rows EXCEPT ![f] = [Unclaimed(rows[f]) EXCEPT !.wait = wait]]
          BY <4>2 DEF Reschedule
        <5> QED  BY <5>1, <1>1, Holders
      <4>3. CASE RecordNothing(p, f)  BY <4>3 DEF RecordNothing
      <4> QED  BY <2>3, <4>1, <4>2, <4>3
    <3> QED  BY <3>1, <3>2, <1>2
  <2> QED  BY <1>5, <2>1, <2>2, <2>3 DEF Turn
<1>6. ASSUME NEW p \in Publishers \ Steady, Stop(p) \/ ReleaseClaims(p) \/ Restart(p)
      PROVE  rows'[e].by = Nil
  <2>1. appended' = appended  BY <1>6 DEF Stop, ReleaseClaims, Restart
  <2>2. rows'[e] = rows[e] \/ rows'[e].by = Nil
    BY <1>6, <1>1, Holders DEF Stop, ReleaseClaims, Restart
  <2> QED  BY <2>1, <2>2, <1>2
<1>7. CASE Tick
  <2>1. appended' = appended /\ rows'[e].by = rows[e].by  BY <1>7, <1>1 DEF Tick, Row
  <2> QED  BY <2>1, <1>2
<1> QED  BY <1>3, <1>4, <1>5, <1>6, <1>7 DEF Next

(* A row that is held and whose hold has time left stays as it is, but for a *)
(* publication or a step of its holder's.                                    *)
LEMMA StepRespectsClaims ==
  ASSUME IInv, UnwrittenUnclaimed, [Next]_vars, NEW e \in Events, NEW q \in Publishers,
         rows[e].by = q, rows[e].hold > 0
  PROVE  \/ rows'[e].by = q /\ rows'[e].wait <= rows[e].wait
         \/ rows'[e].published
         \/ pub'[q] # pub[q]
<1>1. /\ rows \in [Events -> Row] /\ rows[e] \in Row /\ rows[e].wait \in Left(DelayMax)
      /\ rows[e].hold \in Int /\ rows[e].wait \in Int
  BY PublisherAssumption DEF IInv, TypeOK, Row, Left
<1>2. q # Nil /\ Exists(e)  BY PublisherAssumption DEF UnwrittenUnclaimed
<1>3. ASSUME rows'[e] = rows[e]
      PROVE  rows'[e].by = q /\ rows'[e].wait <= rows[e].wait
  BY <1>1, <1>3
<1>4. CASE UNCHANGED vars  BY <1>3, <1>4 DEF vars
<1>5. ASSUME NEW w \in Aggregates, Append(w) PROVE rows'[e] = rows[e]
  <2>1. e # <<w, appended[w] + 1>>
    <3>1. appended[w] \in Nat  BY PublisherAssumption DEF IInv, TypeOK
    <3> QED  BY <3>1, <1>2 DEF Exists
  <2> QED  BY <2>1, <1>1, <1>5 DEF Append
<1>6. ASSUME NEW p \in Publishers, Turn(p)
      PROVE  rows'[e] = rows[e] \/ rows'[e].published \/ pub'[q] # pub[q]
  <2>1. CASE Claim(p)
    <3>1. PICK lag \in 0..Skew : \E taken \in SUBSET {f \in Events : Claimable(f, lag)} :
            rows' = [f \in Events |->
                       IF f \in taken THEN Claimed(rows[f], p, lag) ELSE rows[f]]
      BY <2>1 DEF Claim
    <3>2. ~Claimable(e, lag)
      <4>1. ~(rows[e].hold <= -lag)  BY <1>1, PublisherAssumption
      <4> QED  BY <4>1, <1>2 DEF Claimable, ClaimOver
    <3> QED  BY <3>1, <3>2
  <2>2. CASE Send(p)  BY <2>2 DEF Send, SendBatch
  <2>3. ASSUME NEW f \in Events, MarkPublished(p, f)
        PROVE  rows'[e] = rows[e] \/ rows'[e].published
    BY <2>3, <1>1, Holders DEF MarkPublished
  <2>4. ASSUME NEW f \in Events, Reschedule(p, f)
        PROVE  rows'[e] = rows[e] \/ pub'[q] # pub[q]
    <3>1. CASE f = e
      <4>1. p = q /\ e \in pub[q].batch  BY <2>4, <3>1, <1>2 DEF Reschedule
      <4>2. pub'[q].batch = pub[q].batch \ {e}
        BY <2>4, <3>1, <4>1 DEF Reschedule, Recorded, IInv, TypeOK, Publisher
      <4> QED  BY <4>1, <4>2
    <3>2. CASE f # e  BY <2>4, <3>2, <1>1 DEF Reschedule
    <3> QED  BY <3>1, <3>2
  <2>5. ASSUME NEW f \in Events, RecordNothing(p, f) PROVE rows'[e] = rows[e]
    BY <2>5 DEF RecordNothing
  <2> QED  BY <1>6, <2>1, <2>2, <2>3, <2>4, <2>5 DEF Turn
<1>7. ASSUME NEW p \in Publishers \ Steady, Stop(p) \/ ReleaseClaims(p) \/ Restart(p)
      PROVE  rows'[e] = rows[e] \/ pub'[q] # pub[q]
  <2>1. CASE Stop(p) \/ Restart(p)  BY <2>1 DEF Stop, Restart
  <2>2. CASE ReleaseClaims(p)
    <3>1. CASE p = q
      <4>1. pub[q].run = "stopping" /\ pub'[q].run = "stopped"
        BY <2>2, <3>1 DEF ReleaseClaims, IInv, TypeOK, Publisher
      <4> QED  BY <4>1
    <3>2. CASE p # q  BY <2>2, <3>2, <1>1 DEF ReleaseClaims
    <3> QED  BY <3>1, <3>2
  <2> QED  BY <1>7, <2>1, <2>2
<1>8. CASE Tick
  <2>1. rows'[e].by = rows[e].by /\ rows'[e].wait = Less(rows[e].wait, -Skew)
    BY <1>8, <1>1 DEF Tick, Row
  <2>2. rows'[e].wait <= rows[e].wait  BY <2>1, <1>1 DEF Less
  <2> QED  BY <2>1, <2>2
<1> QED  BY <1>3, <1>4, <1>5, <1>6, <1>7, <1>8 DEF Next

(* claimOutbox, Reschedule and ReleaseClaims are scoped to who holds the row: *)
(* while a claim lasts nobody but its holder ends it or puts the event off,   *)
(* except that the event is published.                                        *)
THEOREM ClaimsAreRespected == Spec => ClaimsRespected
<1>1. Init => UnwrittenUnclaimed
  BY DEF Init, UnwrittenUnclaimed, NewRow
<1>2. Spec => []UnwrittenUnclaimed
  BY <1>1, IInvHolds, UnclaimedPreserved, PTL DEF Spec
<1>3. IInv /\ UnwrittenUnclaimed /\ [Next]_vars =>
        [ \A e \in Events, q \in Publishers :
            rows[e].by = q /\ rows[e].hold > 0 =>
              \/ rows'[e].by = q /\ rows'[e].wait <= rows[e].wait
              \/ rows'[e].published
              \/ pub'[q] # pub[q] ]_vars
  BY StepRespectsClaims
<1> QED  BY <1>2, <1>3, IInvHolds, PTL DEF Spec, ClaimsRespected
=============================================================================
