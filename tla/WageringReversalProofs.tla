----------------------- MODULE WageringReversalProofs -----------------------
(***************************************************************************)
(* Theorems about the references of Wagering, for every value of its       *)
(* constants.  A transaction decides on a view of the operation it names,  *)
(* read under the lock of its own wallet.  While it holds that lock the    *)
(* view stays true of everything on the wallet, so the gates behind the    *)
(* lock are never met, no operation sleeps through the arrival of what it  *)
(* waits for, and what is reversed is reversed once.                       *)
(***************************************************************************)
EXTENDS WageringHistoryProofs, WellFoundedInduction

-----------------------------------------------------------------------------
(* Reversals. *)

Reverses(rows, j, i) ==
  j \in 1..Len(rows) /\ IsSettledReversal(rows[j]) /\ rows[j].resolved = i

IsActive(acts, j) == \E a \in acts : a.reversal = j

(* ReversalsOf, over rows that are named. *)
ReversalsIn(rows, acts, i) ==
  {[kind |-> rows[j].op.kind, reversed |-> ~IsActive(acts, j)] :
     j \in {h \in 1..Len(rows) : Reverses(rows, h, i)}}

(* A settled reversal undid a PROCESSED row of its wallet and its amount. *)
ReversalsSound ==
  \A j \in 1..Len(txns), i \in Nat : Reverses(txns, j, i) =>
    /\ i \in 1..Len(txns) /\ txns[i].status = "PROCESSED"
    /\ CanReverse(txns[j].op.kind, txns[i].op.kind)
    /\ txns[j].op.amount = txns[i].op.amount /\ txns[j].op.wallet = txns[i].op.wallet

(* The index on one successful reversal of a kind. *)
ReversalsUnique ==
  \A j, h \in 1..Len(txns), i \in Nat :
    Reverses(txns, j, i) /\ Reverses(txns, h, i) /\ j # h => txns[j].op.kind # txns[h].op.kind

(* active_reversal has the settled reversals that nothing undid, one for a *)
(* reference.                                                              *)
ActiveSound ==
  /\ \A a \in active : /\ Reverses(txns, a.reversal, a.reference)
                       /\ a.kind = txns[a.reversal].op.kind
  /\ \A a, b \in active : a.reference = b.reference => a = b
  /\ \A j \in 1..Len(txns) : IsSettledReversal(txns[j]) =>
       IsActive(active, j) \/ \E h \in 1..Len(txns) : Reverses(txns, h, j)

Names(rows, op, i) ==
  /\ i \in 1..Len(rows) /\ op.ref # Nil
  /\ rows[i].op.provider = op.provider /\ rows[i].op.ext = op.ref

(* A view is true of what is on the wallet of the operation it was read for. *)
ViewCurrent(rows, acts, op, view) ==
  IF view = Nil
  THEN \A i \in 1..Len(rows) : rows[i].op.wallet = op.wallet => ~Names(rows, op, i)
  ELSE /\ Names(rows, op, view.id) /\ view.op = rows[view.id].op
       /\ view.op.wallet = op.wallet => /\ view.status = rows[view.id].status
                                        /\ view.reversals = ReversalsIn(rows, acts, view.id)

(* The operation a session at its settlement decides. *)
Deciding(x, rows) == IF x.pc = "settle" THEN x.request.op ELSE rows[x.cand].op

ViewsCurrent ==
  \A s \in Sessions : sess[s].pc \in {"settle", "resume"} =>
    ViewCurrent(txns, active, Deciding(sess[s], txns), sess[s].view)

TablesInv == ReversalsSound /\ ReversalsUnique /\ ActiveSound
ReversalInv == TablesInv /\ ViewsCurrent

-----------------------------------------------------------------------------
(* Views. *)

(* What the reversals in a view say. *)
LEMMA ViewReversals ==
  ASSUME NEW rows, NEW acts, NEW i, NEW view, view.reversals = ReversalsIn(rows, acts, i)
  PROVE  /\ \A k : HasSuccessfulReversalOfKind(view, k) <=>
              \E j \in 1..Len(rows) : Reverses(rows, j, i) /\ rows[j].op.kind = k
         /\ ActiveReversal(view) <=>
              \E j \in 1..Len(rows) : Reverses(rows, j, i) /\ IsActive(acts, j)
<1> DEFINE Of(j) == [kind |-> rows[j].op.kind, reversed |-> ~IsActive(acts, j)]
<1>1. \A j : Of(j).kind = rows[j].op.kind /\ (~Of(j).reversed <=> IsActive(acts, j))
  BY Zenon
<1>2. view.reversals = {Of(j) : j \in {h \in 1..Len(rows) : Reverses(rows, h, i)}}
  BY DEF ReversalsIn
<1> HIDE DEF Of
<1>3. \A j \in 1..Len(rows) : Reverses(rows, j, i) => Of(j) \in view.reversals
  BY <1>2, Zenon
<1>4. \A r \in view.reversals : \E j \in 1..Len(rows) : Reverses(rows, j, i) /\ r = Of(j)
  BY <1>2, Zenon
<1>5. \A k : HasSuccessfulReversalOfKind(view, k) <=>
        \E j \in 1..Len(rows) : Reverses(rows, j, i) /\ rows[j].op.kind = k
  BY <1>1, <1>3, <1>4, Zenon DEF HasSuccessfulReversalOfKind
<1>6. ActiveReversal(view) <=>
        \E j \in 1..Len(rows) : Reverses(rows, j, i) /\ IsActive(acts, j)
  BY <1>1, <1>3, <1>4, Zenon DEF ActiveReversal
<1> QED  BY <1>5, <1>6

(* The reversals of a row are the same if the same rows are, as active. *)
LEMMA ReversalsKept ==
  ASSUME NEW rows, NEW acts, NEW rows2, NEW acts2, NEW i,
         \A j : Reverses(rows, j, i) <=> Reverses(rows2, j, i),
         \A j : Reverses(rows, j, i) => /\ rows2[j].op.kind = rows[j].op.kind
                                        /\ IsActive(acts, j) <=> IsActive(acts2, j)
  PROVE  ReversalsIn(rows2, acts2, i) = ReversalsIn(rows, acts, i)
<1> DEFINE Of(j) == [kind |-> rows[j].op.kind, reversed |-> ~IsActive(acts, j)]
           Of2(j) == [kind |-> rows2[j].op.kind, reversed |-> ~IsActive(acts2, j)]
           Js == {h \in 1..Len(rows) : Reverses(rows, h, i)}
           Js2 == {h \in 1..Len(rows2) : Reverses(rows2, h, i)}
<1>1. Js = Js2
  <2>1. \A j : j \in Js <=> Reverses(rows, j, i)  BY DEF Reverses
  <2>2. \A j : j \in Js2 <=> Reverses(rows2, j, i)  BY DEF Reverses
  <2> QED  BY <2>1, <2>2
<1>2. \A j \in Js : Of(j) = Of2(j)
  <2> SUFFICES ASSUME NEW j \in Js PROVE Of(j) = Of2(j)  OBVIOUS
  <2>1. rows2[j].op.kind = rows[j].op.kind  OBVIOUS
  <2>2. (~IsActive(acts, j)) = (~IsActive(acts2, j))  BY Zenon
  <2> QED  BY <2>1, <2>2, Zenon
<1>3. /\ ReversalsIn(rows, acts, i) = {Of(j) : j \in Js}
      /\ ReversalsIn(rows2, acts2, i) = {Of2(j) : j \in Js2}
  BY DEF ReversalsIn
<1> HIDE DEF Of, Of2, Js, Js2
<1>4. {Of(j) : j \in Js} = {Of2(j) : j \in Js}  BY <1>2, Zenon
<1> QED  BY <1>1, <1>3, <1>4

(* What one statement reads of the reference is true of the tables. *)
LEMMA ReferenceIsCurrent ==
  ASSUME IInv, NEW op
  PROVE  ViewCurrent(txns, active, op, ReferenceFor(op))
<1> DEFINE named == {i \in DOMAIN txns : /\ op.ref # Nil
                                         /\ txns[i].op.provider = op.provider
                                         /\ txns[i].op.ext = op.ref}
           id == CHOOSE i \in named : TRUE
           view == [id |-> id, op |-> txns[id].op, status |-> txns[id].status,
                    reversals |-> ReversalsOf(id)]
<1>1. txns \in Seq(TxnRow) /\ DOMAIN txns = 1..Len(txns)  BY LenProperties DEF IInv, TypeOK
<1>2. ReferenceFor(op) = IF named = {} THEN Nil ELSE view  BY DEF ReferenceFor
<1>3. \A i : i \in named <=> Names(txns, op, i)  BY <1>1 DEF Names
<1>4. CASE named = {}
  BY <1>2, <1>3, <1>4 DEF ViewCurrent
<1>5. CASE named # {}
  <2>1. id \in named  BY <1>5
  <2>2. Names(txns, op, id)  BY <2>1, <1>3
  <2>3. ReversalsOf(id) = ReversalsIn(txns, active, id)
    <3>1. {h \in DOMAIN txns : /\ txns[h].status = "PROCESSED"
                               /\ IsReversal(txns[h].op.kind)
                               /\ txns[h].resolved = id} =
          {h \in 1..Len(txns) : Reverses(txns, h, id)}
      BY <1>1 DEF Reverses, IsSettledReversal
    <3> HIDE DEF id
    <3> QED  BY <3>1, Zenon DEF ReversalsOf, ReversalsIn, IsActive
  <2>4. /\ view.id = id /\ view.op = txns[id].op /\ view.status = txns[id].status
        /\ view.reversals = ReversalsOf(id)
    OBVIOUS
  <2>5. ReferenceFor(op) = view /\ view # Nil
    <3>1. ReferenceFor(op) \in View  BY <1>1, <1>5, ReferenceForFacts
    <3> QED  BY <3>1, <1>2, <1>5, NilAssumption
  <2> HIDE DEF view, id, named
  <2>6. ViewCurrent(txns, active, op, view)
    BY <2>2, <2>3, <2>4, <2>5 DEF ViewCurrent
  <2> QED  BY <2>5, <2>6
<1> QED  BY <1>4, <1>5

-----------------------------------------------------------------------------
(* What a settlement reverses. *)

(* A row that row i may reverse: a reversal of this kind has not been made  *)
(* of it, and none holds it.                                                *)
Reversible(rows, acts, new, i, r) ==
  /\ r \in 1..Len(rows) /\ r # i /\ rows[r].status = "PROCESSED"
  /\ CanReverse(new.op.kind, rows[r].op.kind)
  /\ new.op.amount = rows[r].op.amount /\ new.op.wallet = rows[r].op.wallet
  /\ \A j : Reverses(rows, j, r) => rows[j].op.kind # new.op.kind /\ ~IsActive(acts, j)
  /\ \A a \in acts : a.reference # r

(* The session that settles a row sees its reference as it is. *)
LEMMA SettlingView ==
  ASSUME IInv, ReversalInv, NEW s \in Sessions, NEW i, NEW row, Settling(s, i, row)
  PROVE  ViewCurrent(txns, active, row.op, sess[s].view)
<1>1. CASE sess[s].pc = "settle"
  <2>1. row.op = sess[s].request.op  BY <1>1 DEF Settling
  <2> QED  BY <1>1, <2>1 DEF ReversalInv, ViewsCurrent, Deciding
<1>2. CASE sess[s].pc = "resume"
  <2>1. row.op = txns[sess[s].cand].op  BY <1>2 DEF Settling
  <2> QED  BY <1>2, <2>1 DEF ReversalInv, ViewsCurrent, Deciding
<1> QED  BY <1>1, <1>2 DEF Settling

(* A reversal that is applied has a reversible row to apply to. *)
LEMMA SettlingReverses ==
  ASSUME IInv, HistoryInv, ReversalInv, NEW s \in Sessions, NEW i, NEW row,
         Settling(s, i, row), IsSettledReversal(SettledOf(s, row))
  PROVE  Reversible(txns, active, SettledOf(s, row), i, SettledOf(s, row).resolved)
<1> DEFINE new == SettledOf(s, row)
           out == OutcomeOf(s, row)
           view == sess[s].view
           r == view.id
<1>1. /\ row.status \in Undecided /\ Decision(row, view, sess[s].now, out)
  BY SettlementDecides DEF HistoryInv
<1>2. new.op = row.op /\ new.status = out.status /\ new.resolved = out.resolved
  <2>1. row \in TxnRow  BY DEF Settling
  <2> QED  BY <2>1, SettledFields
<1>3. out.status = "PROCESSED" /\ IsReversal(row.op.kind)
  BY <1>2 DEF IsSettledReversal
<1>4. /\ view # Nil /\ view.status = "PROCESSED"
      /\ referenceAgrees(row.op, view.op) /\ CanReverse(row.op.kind, view.op.kind)
      /\ row.op.amount = view.op.amount
      /\ ~HasSuccessfulReversalOfKind(view, row.op.kind) /\ ~ActiveReversal(view)
      /\ out.resolved = r
  BY <1>1, <1>3 DEF Decision
<1>5. view.op.wallet = row.op.wallet  BY <1>4 DEF referenceAgrees
<1>6. /\ r \in 1..Len(txns) /\ view.op = txns[r].op /\ view.status = txns[r].status
      /\ view.reversals = ReversalsIn(txns, active, r)
  BY <1>4, <1>5, SettlingView DEF ViewCurrent, Names
<1>7. r # i
  <2>1. row.status # "PROCESSED"  BY <1>1 DEF Undecided
  <2>2. txns[r].status = "PROCESSED"  BY <1>4, <1>6
  <2>3. CASE i \in 1..Len(txns) /\ row = txns[i]  BY <2>1, <2>2, <2>3
  <2>4. CASE i = Len(txns) + 1
    <3>1. Len(txns) \in Nat  BY LenProperties DEF IInv, TypeOK
    <3> QED  BY <2>4, <3>1, <1>6
  <2> QED  BY <2>3, <2>4 DEF Settling
<1>8. \A j : Reverses(txns, j, r) => txns[j].op.kind # row.op.kind /\ ~IsActive(active, j)
  <2>1. \A j : Reverses(txns, j, r) => j \in 1..Len(txns)  BY DEF Reverses
  <2> HIDE DEF view, r
  <2> QED  BY <2>1, <1>4, <1>6, ViewReversals
<1>9. \A a \in active : a.reference # r
  <2> SUFFICES ASSUME NEW a \in active, a.reference = r PROVE FALSE  OBVIOUS
  <2>1. Reverses(txns, a.reversal, r)  BY DEF ReversalInv, TablesInv, ActiveSound
  <2> QED  BY <2>1, <1>8 DEF IsActive
<1> HIDE DEF new, out, view, r
<1>10. Reversible(txns, active, new, i, r)
  BY <1>2, <1>4, <1>5, <1>6, <1>7, <1>8, <1>9 DEF Reversible
<1>11. new.resolved = r  BY <1>2, <1>4
<1> QED  BY <1>10, <1>11 DEF new

(* The rows a step may write: row i anew, in a wallet, the others as they were. *)
RowWritten(i) ==
  /\ Len(txns) \in Nat /\ Len(txns') \in Nat /\ i \in 1..Len(txns')
  /\ i \in 1..Len(txns) => /\ txns[i].status # "PROCESSED"
                           /\ txns'[i].op = txns[i].op
  /\ \A j \in 1..Len(txns) : j \in 1..Len(txns')
  /\ \A j \in 1..Len(txns') : j # i => j \in 1..Len(txns)
  /\ \A j \in 1..Len(txns) : j # i => /\ txns'[j].op = txns[j].op
                                      /\ txns'[j].status = txns[j].status
                                      /\ txns'[j].resolved = txns[j].resolved
  /\ IF IsSettledReversal(txns'[i])
     THEN /\ Reversible(txns, active, txns'[i], i, txns'[i].resolved)
          /\ active' = {a \in active : a.reversal # txns'[i].resolved} \cup
                         {[reference |-> txns'[i].resolved, reversal |-> i,
                           kind |-> txns'[i].op.kind]}
     ELSE active' = active

(* Which rows reverse which after row i is written. *)
LEMMA ReversesAfter ==
  ASSUME NEW i, RowWritten(i), NEW r
  PROVE  /\ \A j : j # i => (Reverses(txns', j, r) <=> Reverses(txns, j, r))
         /\ ~Reverses(txns, i, r)
         /\ Reverses(txns', i, r) <=> IsSettledReversal(txns'[i]) /\ r = txns'[i].resolved
<1>1. \A j : j # i => (Reverses(txns', j, r) <=> Reverses(txns, j, r))
  BY DEF RowWritten, Reverses, IsSettledReversal
<1>2. ~Reverses(txns, i, r)  BY DEF RowWritten, Reverses, IsSettledReversal
<1>3. Reverses(txns', i, r) <=> IsSettledReversal(txns'[i]) /\ r = txns'[i].resolved
  BY DEF RowWritten, Reverses
<1> QED  BY <1>1, <1>2, <1>3

(* The tables after row i is written. *)
LEMMA TablesAfter ==
  ASSUME TablesInv, NEW i, RowWritten(i)
  PROVE  TablesInv'
<1> DEFINE r == txns'[i].resolved
           undoes == IsSettledReversal(txns'[i])
           held == [reference |-> r, reversal |-> i, kind |-> txns'[i].op.kind]
<1>1. \A q : /\ \A j : j # i => (Reverses(txns', j, q) <=> Reverses(txns, j, q))
             /\ ~Reverses(txns, i, q)
             /\ Reverses(txns', i, q) <=> undoes /\ q = r
  BY ReversesAfter
<1>2. \A j \in 1..Len(txns) : j # i => /\ j \in 1..Len(txns') /\ txns'[j].op = txns[j].op
                                       /\ txns'[j].status = txns[j].status
                                       /\ txns'[j].resolved = txns[j].resolved
  BY DEF RowWritten
<1>3. undoes => Reversible(txns, active, txns'[i], i, r)
  BY DEF RowWritten
<1>4. ReversalsSound'
  <2> SUFFICES ASSUME NEW j \in 1..Len(txns'), NEW q \in Nat, Reverses(txns', j, q)
               PROVE  /\ q \in 1..Len(txns') /\ txns'[q].status = "PROCESSED"
                      /\ CanReverse(txns'[j].op.kind, txns'[q].op.kind)
                      /\ txns'[j].op.amount = txns'[q].op.amount
                      /\ txns'[j].op.wallet = txns'[q].op.wallet
    BY DEF ReversalsSound
  <2>1. CASE j = i
    <3>1. undoes /\ q = r  BY <2>1, <1>1
    <3> QED  BY <2>1, <3>1, <1>2, <1>3 DEF Reversible
  <2>2. CASE j # i
    <3>1. Reverses(txns, j, q) /\ j \in 1..Len(txns)  BY <2>2, <1>1 DEF Reverses
    <3>2. /\ q \in 1..Len(txns) /\ txns[q].status = "PROCESSED"
          /\ CanReverse(txns[j].op.kind, txns[q].op.kind)
          /\ txns[j].op.amount = txns[q].op.amount /\ txns[j].op.wallet = txns[q].op.wallet
      BY <3>1 DEF TablesInv, ReversalsSound
    <3>3. q # i  BY <3>2 DEF RowWritten
    <3> QED  BY <2>2, <3>1, <3>2, <3>3, <1>2
  <2> QED  BY <2>1, <2>2
<1>5. ReversalsUnique'
  <2> SUFFICES ASSUME NEW j \in 1..Len(txns'), NEW h \in 1..Len(txns'), NEW q \in Nat,
                      Reverses(txns', j, q), Reverses(txns', h, q), j # h
               PROVE  txns'[j].op.kind # txns'[h].op.kind
    BY DEF ReversalsUnique
  <2>1. ASSUME NEW k, k # i, Reverses(txns', k, q)
        PROVE  Reverses(txns, k, q) /\ k \in 1..Len(txns) /\ txns'[k].op = txns[k].op
    BY <2>1, <1>1, <1>2 DEF Reverses
  <2>2. ASSUME NEW k, k # i, Reverses(txns', k, q), Reverses(txns', i, q)
        PROVE  txns'[k].op.kind # txns'[i].op.kind
    <3>1. undoes /\ q = r  BY <2>2, <1>1
    <3> QED  BY <2>1, <2>2, <3>1, <1>3 DEF Reversible
  <2>3. CASE j # i /\ h # i
    BY <2>1, <2>3 DEF TablesInv, ReversalsUnique
  <2> QED  BY <2>2, <2>3
<1>6. ASSUME NEW a \in active PROVE a.reversal # i /\ (undoes => a.reference # r)
  <2>1. Reverses(txns, a.reversal, a.reference)  BY DEF TablesInv, ActiveSound
  <2> QED  BY <2>1, <1>1, <1>3 DEF Reversible
<1>7. \A a \in active' : a \in active \/ (undoes /\ a = held)
  BY DEF RowWritten
<1>8. held.reference = r /\ held.reversal = i /\ held.kind = txns'[i].op.kind  OBVIOUS
<1>9. undoes => held \in active'  BY DEF RowWritten
<1>10. \A a \in active : a \in active' \/ (undoes /\ a.reversal = r)
  BY DEF RowWritten
<1> HIDE DEF held, undoes, r
<1>11. ActiveSound'
  <2>1. ASSUME NEW a \in active'
        PROVE  Reverses(txns', a.reversal, a.reference) /\ a.kind = txns'[a.reversal].op.kind
    <3>1. CASE a \in active
      <4>1. Reverses(txns, a.reversal, a.reference) /\ a.kind = txns[a.reversal].op.kind
        BY <3>1 DEF TablesInv, ActiveSound
      <4>2. a.reversal # i  BY <3>1, <1>6
      <4> QED  BY <4>1, <4>2, <1>1, <1>2 DEF Reverses
    <3>2. CASE undoes /\ a = held
      BY <3>2, <1>1, <1>8
    <3> QED  BY <3>1, <3>2, <1>7
  <2>2. ASSUME NEW a \in active', NEW b \in active', a.reference = b.reference PROVE a = b
    BY <2>2, <1>6, <1>7, <1>8 DEF TablesInv, ActiveSound
  <2>3. ASSUME NEW j \in 1..Len(txns'), IsSettledReversal(txns'[j])
        PROVE  IsActive(active', j) \/ \E h \in 1..Len(txns') : Reverses(txns', h, j)
    <3>1. CASE j = i
      <4>1. undoes  BY <2>3, <3>1 DEF undoes
      <4> QED  BY <4>1, <3>1, <1>8, <1>9 DEF IsActive
    <3>2. CASE j # i
      <4>1. j \in 1..Len(txns) /\ IsSettledReversal(txns[j])
        BY <2>3, <3>2, <1>2 DEF RowWritten, IsSettledReversal
      <4>2. CASE \E h \in 1..Len(txns) : Reverses(txns, h, j)
        <5>1. PICK h \in 1..Len(txns) : Reverses(txns, h, j)  BY <4>2
        <5>2. h # i  BY <5>1, <1>1
        <5> QED  BY <5>1, <5>2, <1>1, <1>2
      <4>3. CASE IsActive(active, j)
        <5>1. PICK a \in active : a.reversal = j  BY <4>3 DEF IsActive
        <5>2. CASE a \in active'  BY <5>1, <5>2 DEF IsActive
        <5>3. CASE undoes /\ j = r
          <6>1. Reverses(txns', i, j) /\ i \in 1..Len(txns')  BY <5>3, <1>1 DEF Reverses
          <6> QED  BY <6>1
        <5> QED  BY <5>1, <5>2, <5>3, <1>10
      <4> QED  BY <4>1, <4>2, <4>3 DEF TablesInv, ActiveSound
    <3> QED  BY <3>1, <3>2
  <2> QED  BY <2>1, <2>2, <2>3 DEF ActiveSound
<1> QED  BY <1>4, <1>5, <1>11 DEF TablesInv

(* A view stays true while what is written is on another wallet. *)
LEMMA ViewAfter ==
  ASSUME TablesInv, TablesInv', NEW i, RowWritten(i), NEW op, op.wallet # txns'[i].op.wallet,
         NEW view, ViewCurrent(txns, active, op, view)
  PROVE  ViewCurrent(txns', active', op, view)
<1>1. \A j \in 1..Len(txns) : j \in 1..Len(txns') /\ txns'[j].op = txns[j].op
  BY DEF RowWritten
<1>2. \A j \in 1..Len(txns') : j # i => j \in 1..Len(txns) /\ txns'[j].status = txns[j].status
  BY DEF RowWritten
<1>3. CASE view = Nil
  <2> SUFFICES ASSUME NEW j \in 1..Len(txns'), txns'[j].op.wallet = op.wallet
               PROVE  ~Names(txns', op, j)
    BY <1>3 DEF ViewCurrent
  <2>1. j # i  OBVIOUS
  <2>2. j \in 1..Len(txns) /\ txns'[j].op = txns[j].op  BY <2>1, <1>1, <1>2
  <2>3. ~Names(txns, op, j)  BY <2>2, <1>3 DEF ViewCurrent
  <2> QED  BY <2>2, <2>3 DEF Names
<1>4. CASE view # Nil
  <2> DEFINE id == view.id
  <2>1. Names(txns, op, id) /\ view.op = txns[id].op /\ id \in 1..Len(txns)
    BY <1>4 DEF ViewCurrent, Names
  <2>2. id \in 1..Len(txns') /\ txns'[id].op = txns[id].op  BY <2>1, <1>1
  <2>3. Names(txns', op, id)  BY <2>1, <2>2 DEF Names
  <2>4. ASSUME view.op.wallet = op.wallet
        PROVE  /\ view.status = txns'[id].status
               /\ view.reversals = ReversalsIn(txns', active', id)
    <3>1. id # i  BY <2>1, <2>2, <2>4
    <3>2. view.status = txns'[id].status
      BY <2>2, <2>4, <3>1, <1>2, <1>4 DEF ViewCurrent
    <3>3. \A j : Reverses(txns', j, id) => txns'[j].op.wallet = op.wallet
      <4>1. \A j : Reverses(txns', j, id) => j \in 1..Len(txns')  BY DEF Reverses
      <4>2. id \in Nat  BY <2>1
      <4> QED  BY <4>1, <4>2, <2>1, <2>2, <2>4 DEF TablesInv, ReversalsSound
    <3>4. \A j : j # i => (Reverses(txns', j, id) <=> Reverses(txns, j, id))
      BY ReversesAfter
    <3>5. ~Reverses(txns, i, id) /\ ~Reverses(txns', i, id)
      BY <3>3, ReversesAfter
    <3>6. ASSUME NEW j, Reverses(txns, j, id)
          PROVE  /\ txns'[j].op.kind = txns[j].op.kind
                 /\ IsActive(active, j) <=> IsActive(active', j)
      <4>1. j # i /\ Reverses(txns', j, id)  BY <3>4, <3>5, <3>6
      <4>2. txns'[j].op = txns[j].op /\ txns'[j].op.wallet = op.wallet
        BY <4>1, <3>3, <3>6, <1>1 DEF Reverses
      <4>3. CASE IsSettledReversal(txns'[i])
        <5> DEFINE r == txns'[i].resolved
        <5>1. /\ Reversible(txns, active, txns'[i], i, r)
              /\ active' = {a \in active : a.reversal # r} \cup
                             {[reference |-> r, reversal |-> i, kind |-> txns'[i].op.kind]}
          BY <4>3 DEF RowWritten
        <5>2. r \in 1..Len(txns) /\ txns[r].op.wallet = txns'[i].op.wallet
          BY <5>1 DEF Reversible
        <5>3. j # r  BY <4>2, <5>2
        <5> HIDE DEF r
        <5>4. \A a : a.reversal = j => (a \in active <=> a \in active')
          BY <5>1, <5>3, <4>1
        <5> QED  BY <4>2, <5>4 DEF IsActive
      <4>4. CASE ~IsSettledReversal(txns'[i])
        <5>1. active' = active  BY <4>4 DEF RowWritten
        <5> QED  BY <4>2, <5>1 DEF IsActive
      <4> QED  BY <4>3, <4>4
    <3> HIDE DEF id
    <3>7. ReversalsIn(txns', active', id) = ReversalsIn(txns, active, id)
      <4>1. \A j : Reverses(txns, j, id) <=> Reverses(txns', j, id)  BY <3>4, <3>5
      <4> QED  BY <4>1, <3>6, ReversalsKept
    <3>8. view.reversals = ReversalsIn(txns, active, id)
      BY <2>4, <1>4 DEF ViewCurrent, id
    <3> QED  BY <3>2, <3>7, <3>8
  <2> QED  BY <1>4, <2>1, <2>2, <2>3, <2>4 DEF ViewCurrent
<1> QED  BY <1>3, <1>4

(* The views of sessions at other wallets stay true. *)
LEMMA ViewsAfter ==
  ASSUME IInv, ReversalInv, TablesInv', NEW i, RowWritten(i),
         \A t \in Sessions : sess'[t].pc \in {"settle", "resume"} =>
           sess'[t] = sess[t] /\ sess[t].wallet # txns'[i].op.wallet
  PROVE  ReversalInv'
<1> SUFFICES ASSUME NEW t \in Sessions, sess'[t].pc \in {"settle", "resume"}
             PROVE  ViewCurrent(txns', active', Deciding(sess'[t], txns'), sess'[t].view)
  BY DEF ReversalInv, ViewsCurrent
<1>1. sess'[t] = sess[t] /\ sess[t].wallet # txns'[i].op.wallet  OBVIOUS
<1>2. /\ Deciding(sess[t], txns).wallet = sess[t].wallet
      /\ Deciding(sess[t], txns') = Deciding(sess[t], txns)
  <2>1. CASE sess[t].pc = "settle"
    <3>1. sess[t].wallet = sess[t].request.op.wallet
      BY <2>1 DEF IInv, SessionsAttached, Attached, SubmitPcs
    <3> QED  BY <2>1, <3>1 DEF Deciding
  <2>2. CASE sess[t].pc = "resume"
    <3>1. sess[t].cand \in 1..Len(txns) /\ sess[t].wallet = txns[sess[t].cand].op.wallet
      BY <2>2 DEF IInv, SessionsAttached, Attached, ResumePcs
    <3>2. txns'[sess[t].cand].op = txns[sess[t].cand].op  BY <3>1 DEF RowWritten
    <3> QED  BY <2>2, <3>1, <3>2 DEF Deciding
  <2> QED  BY <1>1, <2>1, <2>2
<1>3. ViewCurrent(txns, active, Deciding(sess[t], txns), sess[t].view)
  BY <1>1 DEF ReversalInv, ViewsCurrent
<1> DEFINE op == Deciding(sess[t], txns)
           view == sess[t].view
<1>4. ViewCurrent(txns, active, op, view) /\ op.wallet # txns'[i].op.wallet
  BY <1>1, <1>2, <1>3
<1> HIDE DEF op, view
<1>5. ViewCurrent(txns', active', op, view)
  BY <1>4, ViewAfter DEF ReversalInv
<1> QED  BY <1>1, <1>2, <1>5 DEF op, view

(* A settlement writes a row and maintains active_reversal. *)
LEMMA SettlementWrites ==
  ASSUME IInv, IInv', HistoryInv, ReversalInv, NEW s \in Sessions, NEW i \in Nat,
         NEW row \in TxnRow, Settlement(s, i, row)
  PROVE  RowWritten(i) /\ txns'[i] = SettledOf(s, row) /\ txns'[i].op = row.op
<1> DEFINE new == SettledOf(s, row)
<1>1. /\ Len(txns) \in Nat /\ i \in 1..Len(txns) + 1 /\ txns'[i] = new /\ new.op = row.op
      /\ DOMAIN txns' = IF i = Len(txns) + 1 THEN 1..Len(txns) + 1 ELSE 1..Len(txns)
      /\ \A j \in 1..Len(txns) : j # i =>
           txns'[j] = IF new.status = "PROCESSED" /\ Awaits(txns[j], row.op)
                      THEN Woken(txns[j], sess[s].now) ELSE txns[j]
  BY SettlementRows
<1>2. Len(txns') \in Nat /\ DOMAIN txns' = 1..Len(txns')  BY LenProperties DEF IInv, TypeOK
<1>3. Settling(s, i, row)  BY DEF Settlement
<1>4. row.status \in Undecided  BY <1>3, SettlementDecides DEF HistoryInv
<1>5. i \in 1..Len(txns) => txns[i].status # "PROCESSED" /\ txns[i].op = row.op
  <2>1. i \in 1..Len(txns) => row = txns[i]  BY <1>1, <1>3 DEF Settling
  <2> QED  BY <2>1, <1>4 DEF Undecided
<1>6. active' = maintainActiveReversal(i, new)
  BY DEF Settlement, commitOutcome, SettledOf
<1>7. IsSettledReversal(new) => Reversible(txns, active, new, i, new.resolved)
  BY <1>3, SettlingReverses
<1> HIDE DEF new
<1>8. \A j \in 1..Len(txns) : j # i => /\ txns'[j].op = txns[j].op
                                       /\ txns'[j].status = txns[j].status
                                       /\ txns'[j].resolved = txns[j].resolved
  <2>1. \A j \in 1..Len(txns) : txns[j] \in TxnRow  BY ElementOfSeq DEF IInv, TypeOK
  <2> QED  BY <2>1, <1>1, WokenFields
<1>9. i \in 1..Len(txns') /\ \A j \in 1..Len(txns) : j \in 1..Len(txns')
      /\ \A k \in 1..Len(txns') : k # i => k \in 1..Len(txns)
  BY <1>1, <1>2
<1>10. IF IsSettledReversal(txns'[i])
       THEN /\ Reversible(txns, active, txns'[i], i, txns'[i].resolved)
            /\ active' = {a \in active : a.reversal # txns'[i].resolved} \cup
                           {[reference |-> txns'[i].resolved, reversal |-> i,
                             kind |-> txns'[i].op.kind]}
       ELSE active' = active
  BY <1>1, <1>6, <1>7 DEF maintainActiveReversal
<1> QED  BY <1>1, <1>2, <1>5, <1>8, <1>9, <1>10 DEF RowWritten, new

(* Putting a row aside writes it and reverses nothing. *)
LEMMA PutAsideWrites ==
  ASSUME IInv, IInv', HistoryInv, NEW s \in Workers, cannotCarryForward(s)
  PROVE  RowWritten(sess[s].cand)
<1> DEFINE i == sess[s].cand
<1>1. /\ Len(txns) \in Nat /\ i \in 1..Len(txns) /\ s \in Sessions /\ sess[s].pc = "resume"
      /\ txns[i] \in TxnRow /\ sess[s].now \in Nat \ {0}
      /\ DOMAIN txns' = 1..Len(txns) /\ txns'[i] = PutAside(txns[i], sess[s].now)
      /\ \A j \in 1..Len(txns) : j # i => txns'[j] = txns[j]
      /\ active' = active
  BY PutAsideRows
<1>2. Len(txns') \in Nat /\ DOMAIN txns' = 1..Len(txns')  BY LenProperties DEF IInv, TypeOK
<1>3. txns[i].status = "PENDING_REFERENCE"  BY <1>1 DEF HistoryInv, ClaimedIsParked, Parked
<1>4. txns'[i].op = txns[i].op /\ txns'[i].status \in {"FAILED", "PENDING_REFERENCE"}
  BY <1>1, <1>3, PutAsideFields
<1> HIDE DEF i
<1> QED  BY <1>1, <1>2, <1>3, <1>4 DEF RowWritten, IsSettledReversal, i

(* Opening a wallet with money writes a row that reverses nothing. *)
LEMMA OpenWrites ==
  ASSUME IInv, IInv', NEW o \in Openings, Open(o), o.amount # 0
  PROVE  /\ RowWritten(Len(txns) + 1) /\ txns'[Len(txns) + 1].op = OpeningOperation(o)
         /\ txns'[Len(txns) + 1].op.wallet = o.wallet
<1> DEFINE i == Len(txns) + 1
<1>1. /\ Len(txns) \in Nat /\ DOMAIN txns' = 1..Len(txns) + 1
      /\ \A j \in 1..Len(txns) : txns'[j] = txns[j]
      /\ txns'[i] = OpeningRow(o) /\ OpeningRow(o).op = OpeningOperation(o)
      /\ active' = active
  BY OpenRows
<1>2. Len(txns') \in Nat /\ DOMAIN txns' = 1..Len(txns')  BY LenProperties DEF IInv, TypeOK
<1>3. OpeningOperation(o).wallet = o.wallet /\ OpeningOperation(o).kind = "OPENING"
  BY DEF OpeningOperation
<1>4. i \in 1..Len(txns') /\ i \notin 1..Len(txns)
      /\ (\A j \in 1..Len(txns) : j \in 1..Len(txns'))
      /\ \A k \in 1..Len(txns') : k # i => k \in 1..Len(txns)
  BY <1>1, <1>2
<1>5. ~IsSettledReversal(txns'[i])  BY <1>1, <1>3 DEF IsSettledReversal, IsReversal
<1> HIDE DEF i
<1>6. RowWritten(i)  BY <1>1, <1>2, <1>4, <1>5 DEF RowWritten
<1> QED  BY <1>1, <1>3, <1>6 DEF i

(* A session that comes to its settlement has just read its view. *)
LEMMA ReversalQuiet ==
  ASSUME IInv, ReversalInv, Quiet
  PROVE  ReversalInv'
<1>1. txns' = txns /\ active' = active  BY DEF Quiet
<1>2. TablesInv'
  BY <1>1 DEF ReversalInv, TablesInv, ReversalsSound, ReversalsUnique, ActiveSound
<1>3. ASSUME NEW s \in Sessions, sess'[s].pc \in {"settle", "resume"}
      PROVE  ViewCurrent(txns, active, Deciding(sess'[s], txns), sess'[s].view)
  <2>1. sess[s] \in Session  BY DEF IInv, TypeOK
  <2>2. CASE sess'[s] = sess[s]
    BY <2>2, <1>3 DEF ReversalInv, ViewsCurrent
  <2>3. CASE Inserting(s)
    <3>1. /\ sess'[s].pc = "settle" /\ sess'[s].request = sess[s].request
          /\ sess'[s].view = ReferenceFor(sess[s].request.op)
      BY <2>1, <2>3 DEF Inserting, Session
    <3>2. Deciding(sess'[s], txns) = sess[s].request.op  BY <3>1 DEF Deciding
    <3> QED  BY <3>1, <3>2, ReferenceIsCurrent
  <2>4. CASE Claiming(s)
    <3>1. /\ sess'[s].pc = "resume" /\ sess'[s].cand = sess[s].cand
          /\ sess'[s].view = ReferenceFor(txns[sess[s].cand].op)
      BY <2>1, <2>4 DEF Claiming, Session
    <3>2. Deciding(sess'[s], txns) = txns[sess[s].cand].op  BY <3>1 DEF Deciding
    <3> QED  BY <3>1, <3>2, ReferenceIsCurrent
  <2>5. CASE Looking(s)
    BY <2>5, <1>3 DEF Looking, ResumePcs
  <2> QED  BY <2>2, <2>3, <2>4, <2>5 DEF Quiet
<1>4. ViewsCurrent'  BY <1>1, <1>3 DEF ViewsCurrent
<1> QED  BY <1>2, <1>4 DEF ReversalInv

(* Sessions at their settlement when another ends are at other wallets. *)
LEMMA OthersElsewhere ==
  ASSUME IInv, NEW s \in Sessions, sess[s].pc \in {"settle", "resume"},
         sess' = [sess EXCEPT ![s] = Idle], NEW t \in Sessions,
         sess'[t].pc \in {"settle", "resume"}
  PROVE  sess'[t] = sess[t] /\ sess[t].wallet # sess[s].wallet
<1>1. sess \in [Sessions -> Session]  BY DEF IInv, TypeOK
<1>2. t # s  BY <1>1 DEF Idle
<1>3. sess'[t] = sess[t]  BY <1>1, <1>2
<1> QED  BY <1>2, <1>3, ClaimsExclusive DEF Locked

(* Every step keeps the tables and the views. *)
LEMMA ReversalPreserved ==
  IInv /\ IInv' /\ HistoryInv /\ ReversalInv /\ [Next]_vars => ReversalInv'
<1> SUFFICES ASSUME IInv, IInv', HistoryInv, ReversalInv, [Next]_vars
             PROVE  ReversalInv'
  OBVIOUS
<1>1. ASSUME NEW s \in Sessions, NEW i \in Nat, NEW row \in TxnRow, Settlement(s, i, row)
      PROVE  ReversalInv'
  <2>1. RowWritten(i) /\ txns'[i].op = row.op  BY <1>1, SettlementWrites
  <2>2. TablesInv'  BY <2>1, TablesAfter DEF ReversalInv
  <2>3. /\ sess[s].pc \in {"settle", "resume"} /\ row.op.wallet = sess[s].wallet
        /\ sess' = [sess EXCEPT ![s] = Idle]
    BY <1>1 DEF Settlement, Settling
  <2>4. ASSUME NEW t \in Sessions, sess'[t].pc \in {"settle", "resume"}
        PROVE  sess'[t] = sess[t] /\ sess[t].wallet # txns'[i].op.wallet
    <3>1. sess'[t] = sess[t] /\ sess[t].wallet # sess[s].wallet
      BY <2>3, <2>4, OthersElsewhere
    <3> QED  BY <2>1, <2>3, <3>1
  <2> QED  BY <2>1, <2>2, <2>4, ViewsAfter
<1>2. ASSUME NEW s \in Workers, cannotCarryForward(s)
      PROVE  ReversalInv'
  <2> DEFINE i == sess[s].cand
  <2>1. RowWritten(i)  BY <1>2, PutAsideWrites
  <2>2. /\ s \in Sessions /\ sess[s].pc = "resume" /\ i \in 1..Len(txns)
        /\ txns[i].op.wallet = sess[s].wallet /\ sess' = [sess EXCEPT ![s] = Idle]
    BY <1>2, PutAsideRows
  <2>3. txns'[i].op.wallet = sess[s].wallet  BY <2>1, <2>2 DEF RowWritten
  <2> HIDE DEF i
  <2>4. TablesInv'  BY <2>1, TablesAfter DEF ReversalInv
  <2>5. ASSUME NEW t \in Sessions, sess'[t].pc \in {"settle", "resume"}
        PROVE  sess'[t] = sess[t] /\ sess[t].wallet # txns'[i].op.wallet
    <3>1. sess'[t] = sess[t] /\ sess[t].wallet # sess[s].wallet
      BY <2>2, <2>5, OthersElsewhere
    <3> QED  BY <2>3, <3>1
  <2> QED  BY <2>1, <2>4, <2>5, ViewsAfter
<1>3. ASSUME NEW o \in Openings, Open(o)
      PROVE  ReversalInv'
  <2>1. UNCHANGED <<active, sess>> /\ wallets[o.wallet] = Nil  BY <1>3, OpenRows
  <2>2. CASE o.amount = 0
    <3>1. txns' = txns  BY <1>3, <2>2, OpenRows
    <3> QED  BY <2>1, <3>1 DEF ReversalInv, TablesInv, ReversalsSound, ReversalsUnique,
                ActiveSound, ViewsCurrent
  <2>3. CASE o.amount # 0
    <3> DEFINE i == Len(txns) + 1
    <3>1. RowWritten(i) /\ txns'[i].op.wallet = o.wallet
      BY <1>3, <2>3, OpenWrites
    <3> HIDE DEF i
    <3>2. TablesInv'  BY <3>1, TablesAfter DEF ReversalInv
    <3>3. ASSUME NEW t \in Sessions, sess'[t].pc \in {"settle", "resume"}
          PROVE  sess'[t] = sess[t] /\ sess[t].wallet # txns'[i].op.wallet
      <4>1. sess'[t] = sess[t] /\ sess[t].pc \in Locked  BY <2>1, <3>3 DEF Locked
      <4>2. sess[t].held # Nil /\ sess[t].held = wallets[sess[t].wallet]
        BY <4>1 DEF IInv, HeldIsCurrent
      <4> QED  BY <2>1, <3>1, <4>1, <4>2
    <3> QED  BY <3>1, <3>2, <3>3, ViewsAfter
  <2> QED  BY <2>2, <2>3
<1> QED  BY <1>1, <1>2, <1>3, ReversalQuiet, StepCases

(* Initially nothing is reversed and nothing was read. *)
LEMMA InitReversal == Init => ReversalInv
<1> SUFFICES ASSUME Init PROVE ReversalInv  OBVIOUS
<1>1. Len(txns) = 0 /\ active = {} /\ \A s \in Sessions : sess[s].pc = "idle"
  BY DEF Init, Idle
<1> QED  BY <1>1 DEF ReversalInv, TablesInv, ReversalsSound, ReversalsUnique, ActiveSound,
            ViewsCurrent

(* Reversals and views are sound in every reachable state. *)
LEMMA ReversalHolds == Spec => []ReversalInv
BY IInvHolds, HistoryHolds, InitReversal, ReversalPreserved, PTL DEF Spec

-----------------------------------------------------------------------------
(* The gates behind the lock. *)

(* A settlement meets no gate. *)
LEMMA NoBackstop ==
  ASSUME IInv, HistoryInv, ReversalInv, NEW s \in Sessions, NEW i, NEW row,
         Settling(s, i, row)
  PROVE  ~Backstop(sess[s].wallet, i, row, OutcomeOf(s, row), sess[s].held, sess[s].now)
<1> DEFINE w == sess[s].wallet
           new == SettledOf(s, row)
           out == OutcomeOf(s, row)
           held == sess[s].held
           entry == Entry(i, row, out, held)
<1>1. ~ReversalRefused(new)
  <2> SUFFICES ASSUME IsSettledReversal(new), ReversalRefused(new) PROVE FALSE
    BY DEF ReversalRefused
  <2> DEFINE r == new.resolved
  <2>1. Reversible(txns, active, new, i, r)  BY SettlingReverses
  <2>2. DOMAIN txns = 1..Len(txns)  BY LenProperties DEF IInv, TypeOK
  <2>3. \A a \in active : a.reference # r  BY <2>1 DEF Reversible
  <2>4. ASSUME NEW a \in active, a.reversal = r
        PROVE  new.op.kind # "REFUND" /\ a.kind # "ROLLBACK"
    <3>1. a.kind = txns[r].op.kind /\ IsSettledReversal(txns[r])
      BY <2>4 DEF ReversalInv, TablesInv, ActiveSound, Reverses
    <3>2. CanReverse(new.op.kind, txns[r].op.kind)  BY <2>1 DEF Reversible
    <3> QED  BY <3>1, <3>2 DEF CanReverse, IsSettledReversal, IsReversal
  <2>5. \A j \in 1..Len(txns) : Reverses(txns, j, r) => txns[j].op.kind # new.op.kind
    BY <2>1 DEF Reversible
  <2> HIDE DEF new, r
  <2> QED  BY <2>2, <2>3, <2>4, <2>5 DEF ReversalRefused, Reverses, r
<1>2. /\ w \in Wallets /\ held \in WalletRow /\ held = wallets[w] /\ row.op.kind # "OPENING"
  <2>1. w \in Wallets /\ held \in WalletRow /\ held = wallets[w]  BY DEF Settling
  <2>2. CASE sess[s].pc = "settle"
    <3>1. row.op \in Operations  BY <2>2, DeliveryFacts DEF Settling
    <3>2. PICK d \in Deliveries : row.op = d.op  BY <3>1 DEF Operations
    <3> QED  BY <2>1, <3>2, ServiceAssumption DEF Validate
  <2>3. CASE sess[s].pc = "resume"
    <3>1. i \in 1..Len(txns) /\ row = txns[i] /\ Parked(row)
      BY <2>3, SettlementDecides DEF Settling, HistoryInv
    <3> QED  BY <2>1, <3>1 DEF HistoryInv, RowsSound, RowSound, Parked
  <2> QED  BY <2>2, <2>3 DEF Settling
<1>3. ~LostUpdate(w, held)  BY <1>2 DEF LostUpdate
<1>4. ~ChainRefused(w, row, entry)
  <2>1. entry.version = held.version + 1 /\ entry.before = held.balance  BY DEF Entry
  <2>2. wallets[w] # Nil  BY <1>2, NilAssumption
  <2>3. /\ held.version = IF ledger[w] = <<>> THEN 1 ELSE LastEntry(w).version
        /\ held.balance = IF ledger[w] = <<>> THEN 0 ELSE LastEntry(w).after
    BY <1>2, <2>2 DEF IInv, WalletMatchesLedger
  <2> HIDE DEF entry
  <2> QED  BY <1>2, <2>1, <2>3 DEF ChainRefused
<1> QED  BY <1>1, <1>3, <1>4 DEF Backstop, SettledOf

(* No interleaving brings a transaction to its settlement with a version, a *)
(* ledger or a reference that changed since it took the wallet's lock: the  *)
(* checks the schema makes there never refuse it.                           *)
THEOREM GatesNeverMet == Spec => []BackstopsUnreachable
<1>1. IInv /\ HistoryInv /\ ReversalInv => BackstopsUnreachable
  <2> SUFFICES ASSUME IInv, HistoryInv, ReversalInv, NEW s \in Sessions
               PROVE  /\ sess[s].pc = "settle" => ~SubmitBackstop(s)
                      /\ sess[s].pc = "resume" => ~ResumeBackstop(s)
    BY DEF BackstopsUnreachable
  <2>1. ASSUME sess[s].pc = "settle" PROVE ~SubmitBackstop(s)
    <3>1. s \in Submitters  BY <2>1 DEF HistoryInv, RolesKept
    <3>2. Settling(s, Len(txns) + 1, SubmittedRow(s))  BY <2>1, <3>1, SettleIsSettlement
    <3> QED  BY <3>2, NoBackstop DEF SubmitBackstop, SubmitOutcome, OutcomeOf
  <2>2. ASSUME sess[s].pc = "resume" PROVE ~ResumeBackstop(s)
    <3>1. s \in Workers  BY <2>2 DEF HistoryInv, RolesKept
    <3>2. Settling(s, sess[s].cand, ResumedRow(s))  BY <2>2, <3>1, ResumeIsSettlement
    <3> QED  BY <3>2, NoBackstop DEF ResumeBackstop, ResumeOutcome, OutcomeOf
  <2> QED  BY <2>1, <2>2
<1> QED  BY <1>1, IInvHolds, HistoryHolds, ReversalHolds, PTL

-----------------------------------------------------------------------------
(* Waking. *)

(* What waits was submitted by a provider. *)
LEMMA ParkedHasProvider ==
  ASSUME NEW row \in TxnRow, NEW at, RowSound(row, at), Parked(row)
  PROVE  row.op.provider # Nil
<1>1. row.op \in RowOperations  BY DEF TxnRow
<1>2. row.op.kind # "OPENING"  BY DEF RowSound, Parked
<1>3. CASE row.op \in Operations
  <2>1. PICK d \in Deliveries : row.op = d.op  BY <1>3 DEF Operations
  <2> QED  BY <2>1, ProviderFields
<1>4. CASE row.op \in {OpeningOperation(o) : o \in Openings}
  BY <1>2, <1>4 DEF OpeningOperation
<1> QED  BY <1>1, <1>3, <1>4 DEF RowOperations

(* Row i need not wait for row j. *)
Ready(rows, i, j) ==
  /\ Parked(rows[i]) /\ Carriable(rows[i])
  /\ rows[j].status = "PROCESSED" /\ rows[j].op.wallet = rows[i].op.wallet
  /\ rows[j].op.provider = rows[i].op.provider /\ rows[j].op.ext = rows[i].op.ref

(* A row is not parked on what is there. *)
LEMMA ParksOnNothing ==
  ASSUME IInv, HistoryInv, KeysInv, ReversalInv, NEW s \in Sessions, NEW i, NEW row,
         Settling(s, i, row), OutcomeOf(s, row).status = "PENDING_REFERENCE",
         row.op.provider # Nil, NEW j \in 1..Len(txns), txns[j].status = "PROCESSED",
         txns[j].op.wallet = row.op.wallet, txns[j].op.provider = row.op.provider,
         txns[j].op.ext = row.op.ref
  PROVE  FALSE
<1> DEFINE view == sess[s].view
<1>1. /\ namesReference(row.op)
      /\ view = Nil \/ view.status \in Undecided
  BY SettlementDecides DEF HistoryInv, Decision
<1>2. Names(txns, row.op, j)  BY <1>1 DEF Names, namesReference
<1>3. ViewCurrent(txns, active, row.op, view)  BY SettlingView
<1>4. CASE view = Nil
  BY <1>2, <1>3, <1>4 DEF ViewCurrent
<1>5. CASE view # Nil
  <2>1. Names(txns, row.op, view.id) /\ view.op = txns[view.id].op
    BY <1>3, <1>5 DEF ViewCurrent
  <2>2. view.id = j
    BY <1>2, <2>1 DEF Names, KeysInv, KeysUnique, SameKeys
  <2>3. view.status = "PROCESSED"  BY <2>1, <2>2, <1>3, <1>5 DEF ViewCurrent
  <2> QED  BY <2>3, <1>1, <1>5 DEF Undecided
<1> QED  BY <1>4, <1>5

(* Every step wakes what it makes ready. *)
LEMMA WakeupPreserved ==
  ASSUME IInv, IInv', HistoryInv, HistoryInv', KeysInv, ReversalInv, NoLostWakeup, [Next]_vars
  PROVE  NoLostWakeup'
<1>1. /\ Len(txns) \in Nat /\ DOMAIN txns = 1..Len(txns)
      /\ Len(txns') \in Nat /\ DOMAIN txns' = 1..Len(txns')
      /\ \A j \in 1..Len(txns) : j \in 1..Len(txns') /\ txns'[j].op = txns[j].op
  BY OperationsKept
<1>2. \A j \in 1..Len(txns) : txns[j] \in TxnRow  BY ElementOfSeq DEF IInv, TypeOK
<1>3. \A j \in 1..Len(txns') : txns'[j] \in TxnRow  BY ElementOfSeq DEF IInv, TypeOK
<1>4. \A i, j \in 1..Len(txns) : Ready(txns, i, j) => txns[i].nextAttempt <= clock
  BY <1>1 DEF NoLostWakeup, Ready
<1>5. clock \in Nat /\ clock' \in Nat  BY DEF IInv, TypeOK
<1> SUFFICES ASSUME NEW i \in 1..Len(txns'), NEW j \in 1..Len(txns'), Ready(txns', i, j)
             PROVE  txns'[i].nextAttempt <= clock'
  BY <1>1 DEF NoLostWakeup, Ready
<1>6. txns'[i].op.provider # Nil /\ Parked(txns'[i]) /\ i # j
  <2>1. Parked(txns'[i]) /\ i # j  BY DEF Ready, Parked
  <2>2. RowSound(txns'[i], clock')  BY DEF HistoryInv, RowsSound
  <2> QED  BY <2>1, <2>2, <1>3, ParkedHasProvider
<1>7. ASSUME NEW s \in Sessions, NEW k \in Nat, NEW row \in TxnRow, Settlement(s, k, row)
      PROVE  txns'[i].nextAttempt <= clock'
  <2> DEFINE new == SettledOf(s, row)
             now == sess[s].now
  <2>1. /\ txns'[k] = new /\ new.op = row.op /\ new.status = OutcomeOf(s, row).status
        /\ \A q \in 1..Len(txns) : q # k =>
             txns'[q] = IF new.status = "PROCESSED" /\ Awaits(txns[q], row.op)
                        THEN Woken(txns[q], now) ELSE txns[q]
    BY <1>7, SettlementRows
  <2>2. RowWritten(k)  BY <1>7, SettlementWrites
  <2>3. Settling(s, k, row) /\ clock' = clock  BY <1>7 DEF Settlement
  <2>4. now \in Nat /\ now <= clock
    BY <2>3 DEF Settling, HistoryInv, InstantsPast, ResumePcs
  <2> HIDE DEF new, now
  <2>5. ASSUME NEW q \in 1..Len(txns'), q # k
        PROVE  /\ q \in 1..Len(txns) /\ txns'[q].op = txns[q].op
               /\ txns'[q].status = txns[q].status
               /\ txns'[q].nextAttempt \in {txns[q].nextAttempt, now}
               /\ new.status = "PROCESSED" /\ Awaits(txns[q], row.op) =>
                    txns'[q].nextAttempt = now
    <3>1. q \in 1..Len(txns)  BY <2>2, <2>5 DEF RowWritten
    <3> QED  BY <3>1, <2>1, <2>5, <1>2, WokenFields
  <2>6. CASE i = k
    <3>1. j \in 1..Len(txns) /\ txns'[j].op = txns[j].op /\ txns'[j].status = txns[j].status
      BY <2>5, <2>6, <1>6
    <3>2. OutcomeOf(s, row).status = "PENDING_REFERENCE"
      BY <2>1, <2>6, <1>6 DEF Parked
    <3> QED  BY <2>1, <2>3, <2>6, <3>1, <3>2, <1>6, ParksOnNothing DEF Ready
  <2>7. CASE i # k /\ j = k
    <3>1. new.status = "PROCESSED" /\ Awaits(txns[i], row.op)
      BY <2>1, <2>5, <2>7 DEF Ready, Awaits, Parked
    <3> QED  BY <2>3, <2>4, <2>5, <2>7, <3>1
  <2>8. CASE i # k /\ j # k
    <3>1. i \in 1..Len(txns) /\ j \in 1..Len(txns) /\ Ready(txns, i, j)
      BY <2>5, <2>8 DEF Ready, Parked, Carriable
    <3>2. txns[i].nextAttempt <= clock  BY <3>1, <1>4
    <3> QED  BY <2>3, <2>4, <2>5, <2>8, <3>2
  <2> QED  BY <2>6, <2>7, <2>8
<1>8. ASSUME NEW s \in Workers, cannotCarryForward(s)
      PROVE  txns'[i].nextAttempt <= clock'
  <2> DEFINE k == sess[s].cand
  <2>1. /\ k \in 1..Len(txns) /\ ~Carriable(txns[k]) /\ DOMAIN txns' = 1..Len(txns)
        /\ \A q \in 1..Len(txns) : q # k => txns'[q] = txns[q]
        /\ clock' = clock
    BY <1>8, PutAsideRows
  <2>2. RowWritten(k)  BY <1>8, PutAsideWrites
  <2>3. i # k  BY <2>1, <2>2 DEF RowWritten, Ready, Carriable
  <2>4. i \in 1..Len(txns) /\ txns'[i] = txns[i] /\ j \in 1..Len(txns)
    BY <2>1, <2>3, <1>1
  <2>5. j # k
    <3>1. s \in Sessions /\ sess[s].pc = "resume" /\ txns'[k] = PutAside(txns[k], sess[s].now)
          /\ sess[s].now \in Nat \ {0}
      BY <1>8, PutAsideRows
    <3>2. Parked(txns[k])  BY <3>1 DEF HistoryInv, ClaimedIsParked
    <3>3. PutAside(txns[k], sess[s].now).status \in {"FAILED", txns[k].status}
      BY <2>1, <3>1, <1>2, PutAsideFields
    <3> QED  BY <3>1, <3>2, <3>3 DEF Ready, Parked
  <2>6. Ready(txns, i, j)  BY <2>1, <2>4, <2>5 DEF Ready, Carriable, Parked
  <2> QED  BY <2>1, <2>4, <2>6, <1>4
<1>9. ASSUME NEW o \in Openings, Open(o)
      PROVE  txns'[i].nextAttempt <= clock'
  <2>1. clock' = clock /\ (o.amount = 0 => txns' = txns)  BY <1>9, OpenRows
  <2>2. CASE o.amount = 0
    <3>1. txns' = txns  BY <2>1, <2>2
    <3> QED  BY <2>1, <3>1, <1>4
  <2>3. CASE o.amount # 0
    <3> DEFINE k == Len(txns) + 1
    <3>1. /\ RowWritten(k) /\ txns'[k].op = OpeningOperation(o)
          /\ txns'[k] = OpeningRow(o) /\ OpeningRow(o).status = "PROCESSED"
          /\ \A q \in 1..Len(txns) : txns'[q] = txns[q]
      BY <1>9, <2>3, OpenWrites, OpenRows
    <3> HIDE DEF k
    <3>2. i # k  BY <3>1, <1>6 DEF Parked
    <3>3. j # k
      <4>1. OpeningOperation(o).provider = Nil  BY ProviderFields
      <4> QED  BY <3>1, <4>1, <1>6 DEF Ready
    <3>4. /\ i \in 1..Len(txns) /\ j \in 1..Len(txns)
          /\ txns'[i] = txns[i] /\ txns'[j] = txns[j]
      BY <3>1, <3>2, <3>3 DEF RowWritten
    <3>5. Ready(txns, i, j)  BY <3>4 DEF Ready, Carriable, Parked
    <3> QED  BY <2>1, <3>4, <3>5, <1>4
  <2> QED  BY <2>2, <2>3
<1>10. ASSUME Quiet PROVE txns'[i].nextAttempt <= clock'
  <2>1. txns' = txns /\ clock' \in {clock, clock + 1}  BY <1>10 DEF Quiet
  <2>2. txns[i].nextAttempt <= clock  BY <2>1, <1>4
  <2>3. txns[i].nextAttempt \in Nat  BY <2>1, <1>2 DEF TxnRow
  <2> QED  BY <2>1, <2>2, <2>3, <1>5
<1> QED  BY <1>7, <1>8, <1>9, <1>10, StepCases

(* However a submission and the operation it waits for interleave, the one   *)
(* that waits is due once the other is PROCESSED on its wallet: it is parked *)
(* before the other settles and woken by it, or sees it and is not parked.   *)
THEOREM WakeupsAreKept == Spec => []NoLostWakeup
<1>1. Init => NoLostWakeup
  <2> SUFFICES ASSUME Init PROVE NoLostWakeup  OBVIOUS
  <2>1. DOMAIN txns = {}  BY DEF Init
  <2> QED  BY <2>1 DEF NoLostWakeup
<1>2. IInv /\ IInv' /\ HistoryInv /\ HistoryInv' /\ KeysInv /\ ReversalInv /\ NoLostWakeup
        /\ [Next]_vars => NoLostWakeup'
  BY WakeupPreserved
<1> QED  BY <1>1, <1>2, IInvHolds, HistoryHolds, KeysHold, ReversalHolds, PTL DEF Spec

-----------------------------------------------------------------------------
(* Sums.  The library's induction theorems take an operator, which the       *)
(* provers cannot instantiate; a least counterexample takes a set.           *)

(* A set of natural numbers that is not empty has a least element. *)
LEMMA LeastNumber ==
  ASSUME NEW T, T \subseteq Nat, T # {}
  PROVE  \E n \in T : \A m \in T : n <= m
<1> DEFINE R == OpToRel(<, Nat)
<1>1. IsWellFoundedOn(R, Nat)  BY NatLessThanWellFounded
<1>2. R = {p \in Nat \X Nat : p[1] < p[2]}  BY DEF OpToRel
<1> HIDE DEF R
<1>3. \E n \in T : \A m \in T : ~(<<m, n>> \in R)  BY <1>1, WFMin
<1>4. PICK n \in T : \A m \in T : ~(<<m, n>> \in R)  BY <1>3
<1>5. ASSUME NEW m \in T PROVE n <= m
  <2>1. m \in Nat /\ n \in Nat  OBVIOUS
  <2>2. <<m, n>> \notin R  BY <1>4
  <2>3. ~(m < n)  BY <2>1, <2>2, <1>2
  <2> QED  BY <2>1, <2>3
<1> QED  BY <1>4, <1>5

(* f has the running sums of the first n of g. *)
IsSum(f, g, n) == f = [k \in 0..n |-> IF k = 0 THEN 0 ELSE f[k - 1] + g[k]]

(* The running sums can be continued. *)
LEMMA SumContinues ==
  ASSUME NEW f, NEW g, NEW n \in Nat, IsSum(f, g, n), NEW h,
         h = [k \in 0..n + 1 |-> IF k = n + 1 THEN f[n] + g[n + 1] ELSE f[k]]
  PROVE  IsSum(h, g, n + 1)
<1>1. \A k \in 0..n : h[k] = f[k] /\ k \in 0..n + 1  OBVIOUS
<1>2. h[n + 1] = h[n] + g[n + 1]  BY <1>1
<1>3. ASSUME NEW k \in 0..n + 1
      PROVE  h[k] = IF k = 0 THEN 0 ELSE h[k - 1] + g[k]
  <2>1. CASE k = n + 1  BY <1>2, <2>1
  <2>2. CASE k # n + 1
    <3>1. k \in 0..n  BY <2>2
    <3>2. f[k] = IF k = 0 THEN 0 ELSE f[k - 1] + g[k]  BY <3>1 DEF IsSum
    <3>3. k # 0 => k - 1 \in 0..n  BY <3>1
    <3>4. k # 0 => h[k - 1] = f[k - 1]  BY <3>3, <1>1
    <3> QED  BY <3>1, <3>2, <3>4, <1>1
  <2> QED  BY <2>1, <2>2
<1> QED  BY <1>3 DEF IsSum

(* There are running sums of any length. *)
LEMMA SumExists ==
  ASSUME NEW g, NEW n \in Nat
  PROVE  \E f : IsSum(f, g, n)
<1> DEFINE T == {m \in Nat : ~\E f : IsSum(f, g, m)}
<1> SUFFICES ASSUME T # {} PROVE FALSE  OBVIOUS
<1>1. T \subseteq Nat  OBVIOUS
<1>2. PICK m \in T : \A q \in T : m <= q  BY <1>1, LeastNumber
<1>3. m # 0
  <2>1. IsSum([k \in 0..0 |-> 0], g, 0)  BY DEF IsSum
  <2> QED  BY <2>1
<1>4. m - 1 \in Nat /\ m - 1 \notin T  BY <1>2, <1>3
<1>5. PICK f : IsSum(f, g, m - 1)  BY <1>4
<1> DEFINE h == [k \in 0..(m - 1) + 1 |->
                   IF k = (m - 1) + 1 THEN f[m - 1] + g[(m - 1) + 1] ELSE f[k]]
<1>6. IsSum(h, g, (m - 1) + 1)
  <2> HIDE DEF T
  <2> QED  BY <1>4, <1>5, SumContinues
<1>7. (m - 1) + 1 = m  OBVIOUS
<1> HIDE DEF h
<1> QED  BY <1>6, <1>7

(* Running sums are what the numbers make them. *)
LEMMA SumsAgree ==
  ASSUME NEW f, NEW g, NEW n \in Nat, IsSum(f, g, n),
         NEW f2, NEW g2, NEW n2 \in Nat, IsSum(f2, g2, n2), n <= n2,
         \A k \in 1..n : g[k] = g2[k]
  PROVE  \A k \in 0..n : f[k] = f2[k]
<1> DEFINE T == {k \in 0..n : f[k] # f2[k]}
<1> SUFFICES ASSUME T # {} PROVE FALSE  OBVIOUS
<1>1. T \subseteq Nat  OBVIOUS
<1>2. PICK m \in T : \A q \in T : m <= q  BY <1>1, LeastNumber
<1>3. m \in 0..n /\ m \in 0..n2  BY <1>2
<1>4. f[m] = IF m = 0 THEN 0 ELSE f[m - 1] + g[m]  BY <1>3 DEF IsSum
<1>5. f2[m] = IF m = 0 THEN 0 ELSE f2[m - 1] + g2[m]  BY <1>3 DEF IsSum
<1>6. m # 0  BY <1>4, <1>5
<1>7. m - 1 \in 0..n /\ m - 1 \notin T /\ m \in 1..n  BY <1>2, <1>3, <1>6
<1> QED  BY <1>4, <1>5, <1>6, <1>7

Moves(entries, S) == [k \in 1..Len(entries) |-> Signed(entries[k], S)]

(* What an entry moves is an integer. *)
LEMMA SignedInteger ==
  ASSUME NEW e \in LedgerRow, NEW S
  PROVE  Signed(e, S) \in Int
<1>1. e.amount \in Int  BY PolicyAssumption DEF LedgerRow, Amounts
<1> QED  BY <1>1 DEF Signed

(* Net is the last of the running sums of the moves. *)
LEMMA NetIsSum ==
  ASSUME NEW entries \in Seq(LedgerRow), NEW S
  PROVE  \E f : /\ IsSum(f, Moves(entries, S), Len(entries))
                /\ Net(entries, S) = f[Len(entries)]
<1> DEFINE n == Len(entries)
           Rec(f) == f = [k \in 0..n |-> IF k = 0 THEN 0 ELSE f[k - 1] + Signed(entries[k], S)]
           sum == CHOOSE f : Rec(f)
<1>1. n \in Nat  BY LenProperties
<1>2. Net(entries, S) = sum[n]  BY DEF Net
<1>3. \A f : Rec(f) <=> IsSum(f, Moves(entries, S), n)
  <2> SUFFICES ASSUME NEW f PROVE Rec(f) <=> IsSum(f, Moves(entries, S), n)  OBVIOUS
  <2>1. [k \in 0..n |-> IF k = 0 THEN 0 ELSE f[k - 1] + Signed(entries[k], S)] =
        [k \in 0..n |-> IF k = 0 THEN 0 ELSE f[k - 1] + Moves(entries, S)[k]]
    <3>1. \A k \in 0..n : k # 0 => Moves(entries, S)[k] = Signed(entries[k], S)
      BY <1>1 DEF Moves
    <3> QED  BY <3>1
  <2> QED  BY <2>1 DEF IsSum
<1> HIDE DEF Rec
<1>4. \E f : Rec(f)  BY <1>1, <1>3, SumExists
<1>5. Rec(sum)  BY <1>4
<1> QED  BY <1>2, <1>3, <1>5

(* The sum with an entry more. *)
LEMMA NetAppends ==
  ASSUME NEW a \in Seq(LedgerRow), NEW b \in Seq(LedgerRow), NEW S,
         Len(b) = Len(a) + 1, \A k \in 1..Len(a) : b[k] = a[k]
  PROVE  Net(b, S) = Net(a, S) + Signed(b[Len(b)], S)
<1>1. Len(a) \in Nat /\ Len(b) \in Nat  BY LenProperties
<1>2. PICK f : IsSum(f, Moves(a, S), Len(a)) /\ Net(a, S) = f[Len(a)]  BY NetIsSum
<1>3. PICK h : IsSum(h, Moves(b, S), Len(b)) /\ Net(b, S) = h[Len(b)]  BY NetIsSum
<1>4. \A k \in 1..Len(a) : Moves(a, S)[k] = Moves(b, S)[k]
  <2>1. \A k \in 1..Len(a) : k \in 1..Len(b)  BY <1>1
  <2> QED  BY <2>1 DEF Moves
<1>5. \A k \in 0..Len(a) : f[k] = h[k]
  <2>1. Len(a) <= Len(b)  BY <1>1
  <2> QED  BY <2>1, <1>1, <1>2, <1>3, <1>4, SumsAgree
<1>6. h[Len(b)] = h[Len(b) - 1] + Moves(b, S)[Len(b)]
  <2>1. Len(b) \in 0..Len(b) /\ Len(b) # 0  BY <1>1
  <2> QED  BY <2>1, <1>3 DEF IsSum
<1>7. Moves(b, S)[Len(b)] = Signed(b[Len(b)], S)
  <2>1. Len(b) \in 1..Len(b)  BY <1>1
  <2> QED  BY <2>1 DEF Moves
<1>8. Len(b) - 1 = Len(a) /\ Len(a) \in 0..Len(a)  BY <1>1
<1> QED  BY <1>2, <1>3, <1>5, <1>6, <1>7, <1>8

(* Transactions without an entry do not matter. *)
LEMMA NetSame ==
  ASSUME NEW a \in Seq(LedgerRow), NEW S, NEW S2,
         \A k \in 1..Len(a) : a[k].tx \in S <=> a[k].tx \in S2
  PROVE  Net(a, S) = Net(a, S2)
<1>1. Len(a) \in Nat  BY LenProperties
<1>2. PICK f : IsSum(f, Moves(a, S), Len(a)) /\ Net(a, S) = f[Len(a)]  BY NetIsSum
<1>3. PICK h : IsSum(h, Moves(a, S2), Len(a)) /\ Net(a, S2) = h[Len(a)]  BY NetIsSum
<1>4. \A k \in 1..Len(a) : Moves(a, S)[k] = Moves(a, S2)[k]
  BY DEF Moves, Signed
<1>5. \A k \in 0..Len(a) : f[k] = h[k]
  BY <1>1, <1>2, <1>3, <1>4, SumsAgree
<1> QED  BY <1>1, <1>2, <1>3, <1>5

(* Transactions without any entry move nothing. *)
LEMMA NetNothing ==
  ASSUME NEW a \in Seq(LedgerRow), NEW S, \A k \in 1..Len(a) : a[k].tx \notin S
  PROVE  Net(a, S) = 0
<1>1. Len(a) \in Nat  BY LenProperties
<1>2. PICK f : IsSum(f, Moves(a, S), Len(a)) /\ Net(a, S) = f[Len(a)]  BY NetIsSum
<1>3. \A k \in 1..Len(a) : Moves(a, S)[k] = 0  BY DEF Moves, Signed
<1> DEFINE T == {k \in 0..Len(a) : f[k] # 0}
<1> SUFFICES ASSUME T # {} PROVE FALSE  BY <1>1, <1>2
<1>4. T \subseteq Nat  BY <1>1
<1>5. PICK m \in T : \A q \in T : m <= q  BY <1>4, LeastNumber
<1>6. f[m] = IF m = 0 THEN 0 ELSE f[m - 1] + Moves(a, S)[m]  BY <1>2, <1>5 DEF IsSum
<1>7. m # 0  BY <1>5, <1>6
<1>8. m - 1 \in 0..Len(a) /\ m - 1 \notin T /\ m \in 1..Len(a)  BY <1>1, <1>5, <1>7
<1> QED  BY <1>3, <1>5, <1>6, <1>7, <1>8

(* The running sums of a wallet's entries are the balances they left. *)
LEMMA SumIsBalance ==
  ASSUME IInv, EntriesInv, NEW w \in Wallets, wallets[w] # Nil
  PROVE  wallets[w].balance = NetMoved(w, DOMAIN txns)
<1> DEFINE a == ledger[w]
           S == DOMAIN txns
<1>1. a \in Seq(LedgerRow) /\ Len(a) \in Nat /\ S = 1..Len(txns)
  BY LenProperties DEF IInv, TypeOK
<1>2. /\ wallets[w].balance = IF a = <<>> THEN 0 ELSE a[Len(a)].after
      /\ \A k \in 1..Len(a) :
           /\ a[k].after = applyDirection(a[k].direction, a[k].before, a[k].amount)
           /\ k = 1 => a[k].before = 0
           /\ k > 1 => a[k].before = a[k - 1].after
  BY DEF IInv, WalletMatchesLedger, LastEntry
<1>3. \A k \in 1..Len(a) : a[k].tx \in S  BY <1>1 DEF EntriesInv, EntriesSound
<1>4. \A k \in 1..Len(a) : a[k] \in LedgerRow  BY <1>1, ElementOfSeq
<1>5. NetMoved(w, S) = Net(a, S)  BY DEF NetMoved
<1> HIDE DEF a, S
<1>6. PICK f : IsSum(f, Moves(a, S), Len(a)) /\ Net(a, S) = f[Len(a)]  BY <1>1, NetIsSum
<1>7. \A k \in 1..Len(a) : Moves(a, S)[k] = IF a[k].direction = "CREDIT" THEN a[k].amount
                                                                       ELSE -a[k].amount
  BY <1>3 DEF Moves, Signed
<1>8. f[0] = 0 /\ \A k \in 1..Len(a) : f[k] = f[k - 1] + Moves(a, S)[k]
  BY <1>1, <1>6 DEF IsSum
<1> DEFINE T == {k \in 1..Len(a) : f[k] # a[k].after}
<1>9. T = {}
  <2> SUFFICES ASSUME T # {} PROVE FALSE  OBVIOUS
  <2>1. T \subseteq Nat  BY <1>1
  <2>2. PICK m \in T : \A q \in T : m <= q  BY <2>1, LeastNumber
  <2>3. m \in 1..Len(a) /\ f[m] # a[m].after  OBVIOUS
  <2>4. f[m - 1] = a[m].before
    <3>1. CASE m = 1  BY <3>1, <1>1, <1>2, <1>8, <2>3
    <3>2. CASE m # 1
      <4>1. m - 1 \in 1..Len(a) /\ m - 1 \notin T  BY <1>1, <2>2, <3>2
      <4>2. m > 1  BY <1>1, <2>3, <3>2
      <4> QED  BY <4>1, <4>2, <1>2, <2>3
    <3> QED  BY <3>1, <3>2
  <2>5. /\ a[m].direction \in {"CREDIT", "DEBIT"} /\ a[m].amount \in Int
        /\ a[m].before \in Int
    BY <2>3, <1>4, PolicyAssumption DEF LedgerRow, Amounts
  <2> HIDE DEF T
  <2> QED  BY <2>3, <2>4, <2>5, <1>2, <1>7, <1>8 DEF applyDirection
<1>10. CASE Len(a) = 0
  <2>1. a = <<>>  BY <1>1, <1>10, EmptySeq
  <2> QED  BY <2>1, <1>2, <1>5, <1>6, <1>8, <1>10 DEF S
<1>11. CASE Len(a) # 0
  <2>1. Len(a) \in 1..Len(a) /\ a # <<>>  BY <1>1, <1>11
  <2> QED  BY <2>1, <1>2, <1>5, <1>6, <1>9 DEF S
<1> QED  BY <1>10, <1>11

(* The balance of a wallet is its ledger summed, so that a reconciliation   *)
(* that adds up credits and debits never finds a difference.                *)
THEOREM BalanceAlwaysReconciles == Spec => []BalanceIsLedgerSum
<1>1. IInv /\ EntriesInv => BalanceIsLedgerSum  BY SumIsBalance DEF BalanceIsLedgerSum
<1> QED  BY <1>1, IInvHolds, EntriesHold, PTL

(* What entries move is an integer. *)
LEMMA NetInteger ==
  ASSUME NEW a \in Seq(LedgerRow), NEW S
  PROVE  Net(a, S) \in Int
<1>1. Len(a) \in Nat  BY LenProperties
<1>2. PICK f : IsSum(f, Moves(a, S), Len(a)) /\ Net(a, S) = f[Len(a)]  BY NetIsSum
<1>3. \A k \in 1..Len(a) : Moves(a, S)[k] \in Int
  <2>1. \A k \in 1..Len(a) : a[k] \in LedgerRow  BY ElementOfSeq
  <2> QED  BY <2>1, SignedInteger DEF Moves
<1> DEFINE T == {k \in 0..Len(a) : f[k] \notin Int}
<1> SUFFICES ASSUME T # {} PROVE FALSE  BY <1>1, <1>2
<1>4. T \subseteq Nat  BY <1>1
<1>5. PICK m \in T : \A q \in T : m <= q  BY <1>4, LeastNumber
<1>6. f[m] = IF m = 0 THEN 0 ELSE f[m - 1] + Moves(a, S)[m]  BY <1>2, <1>5 DEF IsSum
<1>7. m # 0  BY <1>5, <1>6
<1>8. m - 1 \in 0..Len(a) /\ m - 1 \notin T /\ m \in 1..Len(a)  BY <1>1, <1>5, <1>7
<1>9. f[m - 1] \in Int /\ Moves(a, S)[m] \in Int  BY <1>3, <1>8
<1> QED  BY <1>5, <1>6, <1>7, <1>9
-----------------------------------------------------------------------------
(* Reversals net out. *)

(* What a bet or a win moves. *)
Own(op) == IF op.kind = "WIN" THEN op.amount ELSE -op.amount

(* A row, what reverses it, and what reverses that. *)
Related(rows, i, j) ==
  \/ j = i
  \/ Reverses(rows, j, i)
  \/ \E h : Reverses(rows, h, i) /\ Reverses(rows, j, h)

FamilyIn(rows, i) == {j \in 1..Len(rows) : Related(rows, i, j)}

(* A bet or a win has moved its amount, and it and its reversals have come  *)
(* to that or, while a reversal holds it, to nothing.                       *)
NetOut(rows, acts, entries, i) ==
  /\ Net(entries, {i}) = Own(rows[i].op)
  /\ Net(entries, FamilyIn(rows, i)) =
       IF \E a \in acts : a.reference = i THEN 0 ELSE Own(rows[i].op)

NetInv ==
  \A i \in 1..Len(txns) :
    txns[i].status = "PROCESSED" /\ txns[i].op.kind \in {"BET", "WIN"} =>
      NetOut(txns, active, ledger[txns[i].op.wallet], i)

(* Nothing reverses a rollback, so a family has no more than three generations. *)
LEMMA FamilyIs ==
  ASSUME IInv, TablesInv, NEW i \in 1..Len(txns)
  PROVE  Family(i) = FamilyIn(txns, i)
<1>1. Len(txns) \in Nat /\ DOMAIN txns = 1..Len(txns)  BY LenProperties DEF IInv, TypeOK
<1>2. \A j \in 1..Len(txns) : txns[j].resolved \in Nat
  <2>1. \A j \in 1..Len(txns) : txns[j] \in TxnRow  BY ElementOfSeq DEF IInv, TypeOK
  <2> QED  BY <2>1 DEF TxnRow
<1> DEFINE once == SettledReversalsOf({i})
           twice == SettledReversalsOf(once)
           thrice == SettledReversalsOf(twice)
<1>3. \A j : j \in once <=> Reverses(txns, j, i)
  BY <1>1 DEF SettledReversalsOf, Reverses
<1>4. \A j : j \in twice <=> \E h : Reverses(txns, h, i) /\ Reverses(txns, j, h)
  <2>1. \A j : j \in twice <=> \E h \in once : Reverses(txns, j, h)
    BY <1>1 DEF SettledReversalsOf, Reverses
  <2> HIDE DEF once, twice
  <2> QED  BY <2>1, <1>3
<1>5. thrice = {}
  <2> SUFFICES ASSUME NEW j, j \in thrice PROVE FALSE  OBVIOUS
  <2>1. PICK g : g \in twice /\ Reverses(txns, j, g)
    BY <1>1 DEF SettledReversalsOf, Reverses
  <2> HIDE DEF once, twice, thrice
  <2>2. PICK h : Reverses(txns, h, i) /\ Reverses(txns, g, h)  BY <2>1, <1>4
  <2>3. h \in Nat /\ g \in Nat /\ g \in 1..Len(txns) /\ j \in 1..Len(txns)
    BY <1>1, <2>1, <2>2 DEF Reverses
  <2>4. CanReverse(txns[g].op.kind, txns[h].op.kind)
    BY <2>2, <2>3 DEF TablesInv, ReversalsSound
  <2>5. CanReverse(txns[j].op.kind, txns[g].op.kind)
    BY <2>1, <2>3 DEF TablesInv, ReversalsSound
  <2>6. IsReversal(txns[h].op.kind)  BY <2>2 DEF Reverses, IsSettledReversal
  <2> QED  BY <2>4, <2>5, <2>6 DEF CanReverse, IsReversal
<1>6. Family(i) = {i} \cup once \cup twice \cup thrice  BY DEF Family
<1>7. \A j : Reverses(txns, j, i) => j \in 1..Len(txns)  BY DEF Reverses
<1>8. \A j, h : Reverses(txns, j, h) => j \in 1..Len(txns)  BY DEF Reverses
<1> HIDE DEF once, twice, thrice
<1> QED  BY <1>3, <1>4, <1>5, <1>6, <1>7, <1>8 DEF FamilyIn, Related

(* The entry of row k: a reversal moves against what it reverses. *)
EntryWritten(k) ==
  IF txns'[k].status = "PROCESSED" /\ MovesMoney(txns'[k].op.kind)
  THEN \E entry \in LedgerRow :
         /\ entry.tx = k /\ entry.amount = txns'[k].op.amount
         /\ entry.direction =
              IF IsReversal(txns'[k].op.kind)
              THEN Opposite(Direction(txns[txns'[k].resolved].op.kind))
              ELSE Direction(txns'[k].op.kind)
         /\ LedgerAppends(txns'[k].op.wallet, entry)
  ELSE ledger' = ledger

(* What row k adds to the sums of a wallet. *)
AddedBy(k, w, S) ==
  IF /\ txns'[k].status = "PROCESSED" /\ MovesMoney(txns'[k].op.kind)
     /\ txns'[k].op.wallet = w /\ k \in S
  THEN IF IF IsReversal(txns'[k].op.kind)
          THEN Direction(txns[txns'[k].resolved].op.kind) = "DEBIT"
          ELSE Direction(txns'[k].op.kind) = "CREDIT"
       THEN txns'[k].op.amount ELSE -txns'[k].op.amount
  ELSE 0

(* The sums of a wallet after row k is written. *)
LEMMA NetAfter ==
  ASSUME IInv, IInv', NEW k, RowWritten(k), EntryWritten(k), NEW w \in Wallets, NEW S
  PROVE  Net(ledger'[w], S) = Net(ledger[w], S) + AddedBy(k, w, S)
<1> DEFINE applied == txns'[k].status = "PROCESSED" /\ MovesMoney(txns'[k].op.kind)
<1>1. ledger[w] \in Seq(LedgerRow) /\ ledger'[w] \in Seq(LedgerRow)  BY DEF IInv, TypeOK
<1>2. Net(ledger[w], S) \in Int  BY <1>1, NetInteger
<1>3. CASE applied /\ txns'[k].op.wallet = w
  <2>1. PICK entry \in LedgerRow :
          /\ entry.tx = k /\ entry.amount = txns'[k].op.amount
          /\ entry.direction =
               IF IsReversal(txns'[k].op.kind)
               THEN Opposite(Direction(txns[txns'[k].resolved].op.kind))
               ELSE Direction(txns'[k].op.kind)
          /\ LedgerAppends(w, entry)
    BY <1>3 DEF EntryWritten
  <2>2. /\ Len(ledger'[w]) = Len(ledger[w]) + 1
        /\ ledger'[w][Len(ledger'[w])] = entry
        /\ \A n \in 1..Len(ledger[w]) : ledger'[w][n] = ledger[w][n]
    BY <2>1 DEF LedgerAppends
  <2>3. Net(ledger'[w], S) = Net(ledger[w], S) + Signed(entry, S)
    BY <2>2, <1>1, NetAppends
  <2>4. Signed(entry, S) = AddedBy(k, w, S)
    <3>1. entry.direction \in {"CREDIT", "DEBIT"}  BY <2>1 DEF LedgerRow
    <3>2. \A d : Opposite(d) \in {"CREDIT", "DEBIT"} => (Opposite(d) = "CREDIT" <=> d = "DEBIT")
      BY PolicyAssumption DEF Opposite
    <3>3. entry.direction = "CREDIT" <=>
            IF IsReversal(txns'[k].op.kind)
            THEN Direction(txns[txns'[k].resolved].op.kind) = "DEBIT"
            ELSE Direction(txns'[k].op.kind) = "CREDIT"
      BY <2>1, <3>1, <3>2
    <3> QED  BY <2>1, <3>3, <1>3 DEF Signed, AddedBy
  <2> QED  BY <2>3, <2>4
<1>4. CASE ~(applied /\ txns'[k].op.wallet = w)
  <2>1. ledger'[w] = ledger[w]
    <3>1. CASE applied
      <4>1. PICK entry \in LedgerRow : LedgerAppends(txns'[k].op.wallet, entry)
        BY <3>1 DEF EntryWritten
      <4> QED  BY <4>1, <3>1, <1>4 DEF LedgerAppends
    <3>2. CASE ~applied  BY <3>2 DEF EntryWritten
    <3> QED  BY <3>1, <3>2
  <2>2. AddedBy(k, w, S) = 0  BY <1>4 DEF AddedBy
  <2> QED  BY <2>1, <2>2, <1>2
<1> QED  BY <1>3, <1>4

(* A family after row k is written. *)
LEMMA FamilyAfter ==
  ASSUME TablesInv, NEW k, RowWritten(k), NEW i \in 1..Len(txns), i # k
  PROVE  /\ k \notin FamilyIn(txns, i)
         /\ FamilyIn(txns', i) \in {FamilyIn(txns, i), FamilyIn(txns, i) \cup {k}}
         /\ k \in FamilyIn(txns', i) <=>
              /\ IsSettledReversal(txns'[k])
              /\ txns'[k].resolved = i \/ Reverses(txns, txns'[k].resolved, i)
<1> DEFINE r == txns'[k].resolved
           undoes == IsSettledReversal(txns'[k])
<1>1. \A q : /\ \A j : j # k => (Reverses(txns', j, q) <=> Reverses(txns, j, q))
             /\ ~Reverses(txns, k, q)
             /\ Reverses(txns', k, q) <=> undoes /\ q = r
  BY ReversesAfter
<1>2. /\ k \in 1..Len(txns') /\ \A j : j # k => (j \in 1..Len(txns') <=> j \in 1..Len(txns))
  BY DEF RowWritten
<1>3. \A j : ~Reverses(txns, j, k)
  <2> SUFFICES ASSUME NEW j, Reverses(txns, j, k) PROVE FALSE  OBVIOUS
  <2>1. k \in Nat /\ j \in 1..Len(txns)  BY DEF RowWritten, Reverses
  <2>2. k \in 1..Len(txns) /\ txns[k].status = "PROCESSED"
    BY <2>1 DEF TablesInv, ReversalsSound
  <2> QED  BY <2>2 DEF RowWritten
<1>4. undoes => r # k  BY DEF RowWritten, Reversible
<1> HIDE DEF r, undoes
<1>5. ~Related(txns, i, k)  BY <1>1 DEF Related
<1>6. ASSUME NEW j, j # k PROVE Related(txns', i, j) <=> Related(txns, i, j)
  <2>1. \A h : Reverses(txns', j, h) <=> Reverses(txns, j, h)  BY <1>1, <1>6
  <2>2. ASSUME NEW h, Reverses(txns', h, i), Reverses(txns', j, h)
        PROVE  Reverses(txns, h, i) /\ Reverses(txns, j, h)
    BY <2>1, <2>2, <1>1, <1>3
  <2>3. ASSUME NEW h, Reverses(txns, h, i) PROVE Reverses(txns', h, i)
    BY <2>3, <1>1
  <2> QED  BY <2>1, <2>2, <2>3 DEF Related
<1>7. Related(txns', i, k) <=> undoes /\ (r = i \/ Reverses(txns, r, i))
  BY <1>1, <1>4 DEF Related
<1>8. k \in FamilyIn(txns', i) <=> Related(txns', i, k)  BY <1>2 DEF FamilyIn
<1>9. k \notin FamilyIn(txns, i)  BY <1>5 DEF FamilyIn
<1>10. \A j : j # k => (j \in FamilyIn(txns', i) <=> j \in FamilyIn(txns, i))
  BY <1>2, <1>6 DEF FamilyIn
<1>11. FamilyIn(txns', i) = IF k \in FamilyIn(txns', i) THEN FamilyIn(txns, i) \cup {k}
                                                       ELSE FamilyIn(txns, i)
  <2> DEFINE F == FamilyIn(txns, i)
             G == FamilyIn(txns', i)
  <2>1. \A j : j # k => (j \in G <=> j \in F)  BY <1>10
  <2> HIDE DEF F, G
  <2>2. G = IF k \in G THEN F \cup {k} ELSE F
    <3>1. CASE k \in G
      <4>1. G \subseteq F \cup {k} /\ F \cup {k} \subseteq G  BY <2>1, <3>1
      <4> QED  BY <4>1, <3>1
    <3>2. CASE k \notin G
      <4>1. G \subseteq F /\ F \subseteq G  BY <2>1, <3>2, <1>9 DEF F
      <4> QED  BY <4>1, <3>2
    <3> QED  BY <3>1, <3>2
  <2> QED  BY <2>2 DEF F, G
<1>12. FamilyIn(txns', i) \in {FamilyIn(txns, i), FamilyIn(txns, i) \cup {k}}  BY <1>11
<1>13. k \in FamilyIn(txns', i) <=> undoes /\ (r = i \/ Reverses(txns, r, i))  BY <1>7, <1>8
<1> QED  BY <1>9, <1>12, <1>13, Zenon DEF r, undoes

(* Whether a reversal holds row i after row k is written. *)
LEMMA HoldAfter ==
  ASSUME TablesInv, NEW k, RowWritten(k), NEW i \in 1..Len(txns), i # k
  PROVE  LET r == txns'[k].resolved
             Held(acts) == \E a \in acts : a.reference = i
         IN  CASE ~IsSettledReversal(txns'[k]) -> Held(active') <=> Held(active)
               [] IsSettledReversal(txns'[k]) /\ r = i -> ~Held(active) /\ Held(active')
               [] IsSettledReversal(txns'[k]) /\ r # i /\ Reverses(txns, r, i) ->
                    /\ Held(active) /\ ~Held(active')
                    /\ txns[i].op.kind = "BET" /\ txns[r].op.kind = "REFUND"
               [] OTHER -> Held(active') <=> Held(active)
<1> DEFINE r == txns'[k].resolved
           undoes == IsSettledReversal(txns'[k])
           Held(acts) == \E a \in acts : a.reference = i
           new == [reference |-> r, reversal |-> k, kind |-> txns'[k].op.kind]
<1>1. undoes => /\ active' = {a \in active : a.reversal # r} \cup {new}
                /\ Reversible(txns, active, txns'[k], k, r)
  BY DEF RowWritten
<1>2. ~undoes => active' = active  BY DEF RowWritten
<1>3. new.reference = r /\ new.reversal = k  OBVIOUS
<1>4. \A a \in active : Reverses(txns, a.reversal, a.reference)
  BY DEF TablesInv, ActiveSound
<1>5. CASE ~undoes  BY <1>2, <1>5
<1> HIDE DEF r, new, undoes
<1>6. CASE undoes /\ r = i
  <2>1. ~Held(active)  BY <1>1, <1>6 DEF Reversible
  <2>2. Held(active')  BY <1>1, <1>3, <1>6
  <2> QED  BY <2>1, <2>2, <1>6 DEF r, undoes
<1>7. CASE undoes /\ r # i /\ Reverses(txns, r, i)
  <2>1. r \in 1..Len(txns) /\ i \in Nat /\ IsSettledReversal(txns[r]) /\ txns[r].resolved = i
    BY <1>7 DEF Reverses
  <2>2. /\ CanReverse(txns[r].op.kind, txns[i].op.kind)
        /\ CanReverse(txns'[k].op.kind, txns[r].op.kind)
        /\ \A j : Reverses(txns, j, r) => txns[j].op.kind # txns'[k].op.kind
    BY <1>1, <1>7, <2>1 DEF TablesInv, ReversalsSound, Reversible
  <2>3. txns[i].op.kind = "BET" /\ txns[r].op.kind = "REFUND" /\ txns'[k].op.kind = "ROLLBACK"
    BY <2>1, <2>2 DEF CanReverse, IsReversal, IsSettledReversal
  <2>4. \A h : ~Reverses(txns, h, r)
    <3> SUFFICES ASSUME NEW h, Reverses(txns, h, r) PROVE FALSE  OBVIOUS
    <3>1. h \in 1..Len(txns) /\ r \in Nat  BY <2>1 DEF Reverses
    <3>2. CanReverse(txns[h].op.kind, txns[r].op.kind)
      BY <3>1 DEF TablesInv, ReversalsSound
    <3> QED  BY <3>2, <2>2, <2>3 DEF CanReverse
  <2>5. IsActive(active, r)  BY <2>1, <2>4 DEF TablesInv, ActiveSound
  <2>6. PICK b \in active : b.reversal = r  BY <2>5 DEF IsActive
  <2>7. b.reference = i  BY <2>1, <2>6, <1>4 DEF Reverses
  <2>8. \A a \in active : a.reference = i => a = b
    BY <2>7 DEF TablesInv, ActiveSound
  <2>9. ~Held(active')  BY <1>1, <1>3, <1>7, <2>6, <2>8
  <2>10. Held(active)  BY <2>6, <2>7
  <2> QED  BY <2>3, <2>9, <2>10, <1>7 DEF r, undoes
<1>8. CASE undoes /\ r # i /\ ~Reverses(txns, r, i)
  <2>1. \A a \in active : a.reference = i => a.reversal # r  BY <1>4, <1>8
  <2>2. Held(active') <=> Held(active)  BY <2>1, <1>1, <1>3, <1>8
  <2> QED  BY <2>2, <1>8 DEF r, undoes
<1> QED  BY <1>5, <1>6, <1>7, <1>8 DEF undoes

(* The sums of a bet or a win that row k is not. *)
LEMMA NetOutOthers ==
  ASSUME IInv, IInv', EntriesInv, TablesInv, NEW k, RowWritten(k), EntryWritten(k),
         NEW i \in 1..Len(txns), i # k, txns[i].op.kind \in {"BET", "WIN"},
         NetOut(txns, active, ledger[txns[i].op.wallet], i)
  PROVE  NetOut(txns', active', ledger'[txns[i].op.wallet], i)
<1> DEFINE w == txns[i].op.wallet
           a == ledger[w]
           b == ledger'[w]
           F == FamilyIn(txns, i)
           G == FamilyIn(txns', i)
           r == txns'[k].resolved
           undoes == IsSettledReversal(txns'[k])
           own == Own(txns[i].op)
           Held(acts) == \E x \in acts : x.reference = i
<1>1. txns[i] \in TxnRow  BY ElementOfSeq DEF IInv, TypeOK
<1>2. w \in Wallets /\ txns[i].op.amount \in Int
  BY <1>1, RowOperationFacts, PolicyAssumption DEF TxnRow, Amounts
<1>3. a \in Seq(LedgerRow)  BY <1>2 DEF IInv, TypeOK
<1>4. txns'[i].op = txns[i].op  BY DEF RowWritten
<1>5. \A n \in 1..Len(a) : a[n].tx # k
  BY <1>2 DEF EntriesInv, EntriesSound, RowWritten
<1>6. Net(a, {i}) = own /\ Net(a, F) = IF Held(active) THEN 0 ELSE own
  BY DEF NetOut
<1>7. own \in Int  BY <1>2 DEF Own
<1>8. Net(b, {i}) = own
  <2>1. AddedBy(k, w, {i}) = 0  BY DEF AddedBy
  <2>2. Net(b, {i}) = Net(a, {i}) + AddedBy(k, w, {i})  BY <1>2, NetAfter
  <2> HIDE DEF a, b, own
  <2> QED  BY <2>1, <2>2, <1>6, <1>7
<1>9. Net(b, G) = Net(a, F) + AddedBy(k, w, G)
  <2>1. Net(b, G) = Net(a, G) + AddedBy(k, w, G)  BY <1>2, NetAfter
  <2>2. \A n \in 1..Len(a) : a[n].tx \in F <=> a[n].tx \in G
    BY <1>5, FamilyAfter
  <2>3. Net(a, F) = Net(a, G)
    <3> HIDE DEF a, F, G
    <3> QED  BY <2>2, <1>3, NetSame
  <2> QED  BY <2>1, <2>3
<1>10. k \in G <=> undoes /\ (r = i \/ Reverses(txns, r, i))  BY FamilyAfter
<1>11. Net(a, F) \in Int  BY <1>6, <1>7
<1>12. Net(b, G) = IF Held(active') THEN 0 ELSE own
  <2>1. CASE k \notin G
    <3>1. AddedBy(k, w, G) = 0  BY <2>1 DEF AddedBy
    <3>2. Held(active') <=> Held(active)
      <4>1. ~undoes \/ (r # i /\ ~Reverses(txns, r, i))  BY <2>1, <1>10
      <4> QED  BY <4>1, HoldAfter
    <3> HIDE DEF a, b, F, G, own
    <3> QED  BY <3>1, <3>2, <1>6, <1>9, <1>11
  <2>2. CASE k \in G /\ r = i
    <3>1. undoes /\ Reversible(txns, active, txns'[k], k, i)
      BY <2>2, <1>10 DEF RowWritten
    <3>2. ~Held(active) /\ Held(active')  BY <2>2, <3>1, HoldAfter
    <3>3. /\ txns'[k].op.wallet = w /\ txns'[k].op.amount = txns[i].op.amount
          /\ txns'[k].status = "PROCESSED" /\ IsReversal(txns'[k].op.kind)
          /\ MovesMoney(txns'[k].op.kind)
      BY <3>1 DEF Reversible, IsSettledReversal, IsReversal, MovesMoney
    <3>4. Direction(txns[i].op.kind) = "DEBIT" <=> txns[i].op.kind = "BET"
      BY DEF Direction
    <3>5. AddedBy(k, w, G) = -own
      <4>1. AddedBy(k, w, G) = IF txns[i].op.kind = "BET" THEN txns[i].op.amount
                                                        ELSE -txns[i].op.amount
        <5> HIDE DEF G
        <5> QED  BY <2>2, <3>3, <3>4 DEF AddedBy
      <4> QED  BY <4>1, <1>2 DEF Own
    <3> HIDE DEF a, b, F, G, own
    <3> QED  BY <3>2, <3>5, <1>6, <1>7, <1>9
  <2>3. CASE k \in G /\ r # i
    <3>1. undoes /\ Reverses(txns, r, i) /\ Reversible(txns, active, txns'[k], k, r)
      BY <2>3, <1>10 DEF RowWritten
    <3>2. /\ Held(active) /\ ~Held(active')
          /\ txns[i].op.kind = "BET" /\ txns[r].op.kind = "REFUND"
      BY <2>3, <3>1, HoldAfter
    <3>3. txns[r].op.wallet = w /\ txns[r].op.amount = txns[i].op.amount
      <4>1. r \in 1..Len(txns) /\ i \in Nat  BY <3>1 DEF Reverses
      <4> QED  BY <3>1, <4>1 DEF TablesInv, ReversalsSound
    <3>4. /\ txns'[k].op.wallet = w /\ txns'[k].op.amount = txns[i].op.amount
          /\ txns'[k].status = "PROCESSED" /\ IsReversal(txns'[k].op.kind)
          /\ MovesMoney(txns'[k].op.kind)
      BY <3>1, <3>3 DEF Reversible, IsSettledReversal, IsReversal, MovesMoney
    <3>5. Direction(txns[r].op.kind) = "CREDIT"  BY <3>2 DEF Direction
    <3>6. AddedBy(k, w, G) = own
      <4>1. AddedBy(k, w, G) = -txns[i].op.amount
        <5> HIDE DEF G
        <5> QED  BY <2>3, <3>4, <3>5 DEF AddedBy
      <4> QED  BY <4>1, <3>2 DEF Own
    <3> HIDE DEF a, b, F, G, own
    <3> QED  BY <3>2, <3>6, <1>6, <1>7, <1>9
  <2> QED  BY <2>1, <2>2, <2>3
<1> QED  BY <1>4, <1>8, <1>12 DEF NetOut

(* A bet or a win that is written moves its amount, and nothing reverses it yet. *)
LEMMA NetOutNew ==
  ASSUME IInv, IInv', EntriesInv, TablesInv, NEW k, RowWritten(k), EntryWritten(k),
         txns'[k].status = "PROCESSED", txns'[k].op.kind \in {"BET", "WIN"}
  PROVE  NetOut(txns', active', ledger'[txns'[k].op.wallet], k)
<1> DEFINE w == txns'[k].op.wallet
           own == Own(txns'[k].op)
<1>1. k \in Nat /\ k \in 1..Len(txns')  BY DEF RowWritten
<1>2. txns'[k] \in TxnRow  BY <1>1, ElementOfSeq DEF IInv, TypeOK
<1>3. w \in Wallets /\ txns'[k].op.amount \in Int
  BY <1>2, RowOperationFacts, PolicyAssumption DEF TxnRow, Amounts
<1>4. ledger[w] \in Seq(LedgerRow)  BY <1>3 DEF IInv, TypeOK
<1>5. ~IsSettledReversal(txns'[k]) /\ active' = active
  BY DEF RowWritten, IsSettledReversal, IsReversal
<1>6. \A j : ~Reverses(txns, j, k)
  <2> SUFFICES ASSUME NEW j, Reverses(txns, j, k) PROVE FALSE  OBVIOUS
  <2>1. j \in 1..Len(txns)  BY DEF Reverses
  <2>2. k \in 1..Len(txns) /\ txns[k].status = "PROCESSED"
    BY <1>1, <2>1 DEF TablesInv, ReversalsSound
  <2> QED  BY <2>2 DEF RowWritten
<1>7. \A j : ~Reverses(txns', j, k)
  <2>1. /\ \A j : j # k => (Reverses(txns', j, k) <=> Reverses(txns, j, k))
        /\ Reverses(txns', k, k) <=> IsSettledReversal(txns'[k]) /\ k = txns'[k].resolved
    BY ReversesAfter
  <2> QED  BY <2>1, <1>5, <1>6
<1>8. FamilyIn(txns', k) = {k}  BY <1>1, <1>7 DEF FamilyIn, Related
<1>9. ~\E x \in active' : x.reference = k
  BY <1>5, <1>6 DEF TablesInv, ActiveSound
<1>10. Net(ledger[w], {k}) = 0
  <2>1. \A n \in 1..Len(ledger[w]) : ledger[w][n].tx \notin {k}
    BY <1>3 DEF EntriesInv, EntriesSound, RowWritten
  <2> QED  BY <2>1, <1>4, NetNothing
<1>11. AddedBy(k, w, {k}) = own
  <2>1. MovesMoney(txns'[k].op.kind) /\ ~IsReversal(txns'[k].op.kind)
    BY DEF MovesMoney, IsReversal
  <2>2. Direction(txns'[k].op.kind) = "CREDIT" <=> txns'[k].op.kind = "WIN"
    BY DEF Direction
  <2> QED  BY <2>1, <2>2 DEF AddedBy, Own
<1>12. Net(ledger'[w], {k}) = own
  <2>1. Net(ledger'[w], {k}) = Net(ledger[w], {k}) + AddedBy(k, w, {k})  BY <1>3, NetAfter
  <2>2. own \in Int  BY <1>3 DEF Own
  <2> HIDE DEF own
  <2> QED  BY <2>1, <2>2, <1>10, <1>11
<1> QED  BY <1>8, <1>9, <1>12 DEF NetOut

(* The sums after row k is written. *)
LEMMA NetInvAfter ==
  ASSUME IInv, IInv', EntriesInv, TablesInv, NetInv, NEW k, RowWritten(k), EntryWritten(k)
  PROVE  NetInv'
<1> SUFFICES ASSUME NEW i \in 1..Len(txns'), txns'[i].status = "PROCESSED",
                    txns'[i].op.kind \in {"BET", "WIN"}
             PROVE  NetOut(txns', active', ledger'[txns'[i].op.wallet], i)
  BY DEF NetInv
<1>1. CASE i = k  BY <1>1, NetOutNew
<1>2. CASE i # k
  <2>1. i \in 1..Len(txns) /\ txns'[i].op = txns[i].op /\ txns'[i].status = txns[i].status
    BY <1>2 DEF RowWritten
  <2>2. NetOut(txns, active, ledger[txns[i].op.wallet], i)  BY <2>1 DEF NetInv
  <2>3. NetOut(txns', active', ledger'[txns[i].op.wallet], i)
    BY <2>1, <2>2, <1>2, NetOutOthers
  <2> QED  BY <2>1, <2>3
<1> QED  BY <1>1, <1>2

(* The entry of a settlement moves as its row says. *)
LEMMA SettlementEntry ==
  ASSUME IInv, IInv', HistoryInv, ReversalInv, NEW s \in Sessions, NEW i \in Nat,
         NEW row \in TxnRow, Settlement(s, i, row)
  PROVE  EntryWritten(i)
<1> DEFINE out == OutcomeOf(s, row)
           view == sess[s].view
           applied == txns'[i].status = "PROCESSED" /\ MovesMoney(txns'[i].op.kind)
<1>1. txns'[i] = SettledOf(s, row) /\ txns'[i].op = row.op  BY SettlementWrites
<1>2. Settling(s, i, row)  BY DEF Settlement
<1>3. Decision(row, view, sess[s].now, out)  BY <1>2, SettlementDecides DEF HistoryInv
<1>4. txns'[i].status = out.status /\ txns'[i].resolved = out.resolved
  BY <1>1, SettledFields
<1>5. IF applied
      THEN \E entry \in LedgerRow :
             /\ entry.tx = i /\ entry.amount = row.op.amount
             /\ entry.direction = out.direction
             /\ LedgerAppends(row.op.wallet, entry)
      ELSE ledger' = ledger
  BY <1>1, SettlementLedger
<1>6. ASSUME applied
      PROVE  out.direction = IF IsReversal(txns'[i].op.kind)
                             THEN Opposite(Direction(txns[txns'[i].resolved].op.kind))
                             ELSE Direction(txns'[i].op.kind)
  <2>1. CASE IsReversal(row.op.kind)
    <3>1. /\ view # Nil /\ out.resolved = view.id
          /\ out.direction = Opposite(Direction(view.op.kind))
      BY <1>1, <1>3, <1>4, <1>6, <2>1 DEF Decision
    <3>2. view.op = txns[view.id].op
      BY <1>2, <3>1, SettlingView DEF ViewCurrent
    <3> HIDE DEF out, view
    <3> QED  BY <2>1, <3>1, <3>2, <1>1, <1>4
  <2>2. CASE ~IsReversal(row.op.kind)
    <3>1. out.direction = Direction(row.op.kind)
      BY <1>1, <1>3, <1>4, <1>6, <2>2 DEF Decision
    <3> QED  BY <3>1, <2>2, <1>1
  <2> QED  BY <2>1, <2>2
<1>7. CASE applied
  <2>1. PICK entry \in LedgerRow :
             /\ entry.tx = i /\ entry.amount = row.op.amount
             /\ entry.direction = out.direction
             /\ LedgerAppends(row.op.wallet, entry)
    BY <1>5, <1>7
  <2> HIDE DEF out
  <2> QED  BY <2>1, <1>1, <1>6, <1>7 DEF EntryWritten
<1>8. CASE ~applied  BY <1>5, <1>8 DEF EntryWritten
<1> QED  BY <1>7, <1>8

(* Every step keeps the sums. *)
LEMMA NetPreserved ==
  IInv /\ IInv' /\ HistoryInv /\ EntriesInv /\ ReversalInv /\ NetInv /\ [Next]_vars => NetInv'
<1> SUFFICES ASSUME IInv, IInv', HistoryInv, EntriesInv, ReversalInv, NetInv, [Next]_vars
             PROVE  NetInv'
  OBVIOUS
<1>1. TablesInv  BY DEF ReversalInv
<1>2. ASSUME NEW s \in Sessions, NEW i \in Nat, NEW row \in TxnRow, Settlement(s, i, row)
      PROVE  NetInv'
  BY <1>1, <1>2, SettlementWrites, SettlementEntry, NetInvAfter
<1>3. ASSUME NEW s \in Workers, cannotCarryForward(s)
      PROVE  NetInv'
  <2> DEFINE i == sess[s].cand
  <2>1. RowWritten(i)  BY <1>3, PutAsideWrites
  <2>2. /\ i \in 1..Len(txns) /\ txns[i] \in TxnRow /\ sess[s].now \in Nat \ {0}
        /\ s \in Sessions /\ sess[s].pc = "resume"
        /\ txns'[i] = PutAside(txns[i], sess[s].now) /\ ledger' = ledger
    BY <1>3, PutAsideRows
  <2>3. PutAside(txns[i], sess[s].now).status \in {"FAILED", txns[i].status}
    BY <2>2, PutAsideFields
  <2>4. txns[i].status # "PROCESSED"  BY <2>2 DEF HistoryInv, ClaimedIsParked, Parked
  <2>5. EntryWritten(i)  BY <2>2, <2>3, <2>4 DEF EntryWritten
  <2> QED  BY <2>1, <2>5, <1>1, NetInvAfter
<1>4. ASSUME NEW o \in Openings, Open(o)
      PROVE  NetInv'
  <2> DEFINE i == Len(txns) + 1
             entry == [tx |-> i, direction |-> "CREDIT", amount |-> o.amount,
                       before |-> 0, after |-> o.amount, version |-> 1]
  <2>1. CASE o.amount = 0
    <3>1. txns' = txns /\ ledger' = ledger /\ active' = active  BY <2>1, <1>4, OpenRows
    <3> QED  BY <3>1 DEF NetInv
  <2>2. CASE o.amount # 0
    <3>1. RowWritten(i) /\ txns'[i].op = OpeningOperation(o)
      BY <2>2, <1>4, OpenWrites
    <3>2. OpeningOperation(o).amount = o.amount /\ OpeningOperation(o).wallet = o.wallet
          /\ OpeningOperation(o).kind = "OPENING"
      BY DEF OpeningOperation
    <3>3. ledger' = [ledger EXCEPT ![o.wallet] = Append(@, entry)] /\ o.wallet \in Wallets
      BY <2>2, <1>4, OpenRows DEF Open
    <3>4. entry.tx = i /\ entry.amount = o.amount /\ entry.direction = "CREDIT"  OBVIOUS
    <3>5. entry \in LedgerRow
      <4>1. i \in Nat \ {0} /\ 0 \in Amounts /\ o.amount \in Amounts
        BY <3>1, ServiceAssumption, PolicyAssumption DEF Amounts, RowWritten
      <4> QED  BY <4>1 DEF LedgerRow
    <3> HIDE DEF entry
    <3>6. LedgerAppends(o.wallet, entry)  BY <3>3, LedgerUpdate
    <3>7. txns'[i].status = "PROCESSED"  BY <2>2, <1>4, OpenRows
    <3>8. Direction("OPENING") = "CREDIT" /\ ~IsReversal("OPENING") /\ MovesMoney("OPENING")
      BY DEF Direction, IsReversal, MovesMoney
    <3> HIDE DEF i
    <3>9. EntryWritten(i)
      BY <3>1, <3>2, <3>4, <3>5, <3>6, <3>7, <3>8 DEF EntryWritten
    <3> QED  BY <3>1, <3>9, <1>1, NetInvAfter
  <2> QED  BY <2>1, <2>2
<1>5. Quiet => NetInv'  BY DEF Quiet, NetInv
<1> QED  BY <1>2, <1>3, <1>4, <1>5, StepCases

(* Initially there is nothing to sum. *)
LEMMA InitNet == Init => NetInv
<1> SUFFICES ASSUME Init PROVE NetInv  OBVIOUS
<1>1. Len(txns) = 0  BY DEF Init
<1> QED  BY <1>1 DEF NetInv

(* The sums are right in every reachable state. *)
LEMMA NetHolds == Spec => []NetInv
BY IInvHolds, HistoryHolds, EntriesHold, ReversalHolds, InitNet, NetPreserved, PTL DEF Spec

(* However refunds and rollbacks of a bet or a win follow each other, raced  *)
(* or were resumed, what it and they moved comes to its amount, or to        *)
(* nothing while active_reversal says a reversal holds it: a stake is never  *)
(* returned twice and never taken twice.                                     *)
THEOREM ReversalsAlwaysNetOut == Spec => []ReversalsNetOut
<1>1. IInv /\ ReversalInv /\ NetInv => ReversalsNetOut
  <2> SUFFICES ASSUME IInv, ReversalInv, NetInv, NEW i \in DOMAIN txns,
                      txns[i].status = "PROCESSED", txns[i].op.kind \in {"BET", "WIN"}
               PROVE  NetMoved(txns[i].op.wallet, Family(i)) =
                        IF \E a \in active : a.reference = i THEN 0
                        ELSE NetMoved(txns[i].op.wallet, {i})
    BY DEF ReversalsNetOut
  <2>1. i \in 1..Len(txns)  BY LenProperties DEF IInv, TypeOK
  <2>2. Family(i) = FamilyIn(txns, i)  BY <2>1, FamilyIs DEF ReversalInv
  <2>3. NetOut(txns, active, ledger[txns[i].op.wallet], i)  BY <2>1 DEF NetInv
  <2> QED  BY <2>2, <2>3 DEF NetOut, NetMoved
<1> QED  BY <1>1, IInvHolds, ReversalHolds, NetHolds, PTL
=============================================================================
