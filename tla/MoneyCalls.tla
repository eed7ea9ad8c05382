----------------------------- MODULE MoneyCalls -----------------------------
(***************************************************************************)
(* Money, called: one operation on any amounts, or Parse on any string, and *)
(* what it should have come to.                                             *)
(***************************************************************************)
EXTENDS Money

CONSTANTS
  MaxLength,  \* bound: characters of a string
  Other       \* a character that is neither a digit nor the point

ASSUME CallsAssumption ==
  /\ MaxLength \in Nat /\ Other \notin (0 .. Base - 1) \cup {Point}
  /\ "other" \notin Supported \cup {None}

VARIABLE did  \* the operation performed, its operands and its result

-----------------------------------------------------------------------------
(* Every operation of Money on every value, and Parse on every string, of a *)
(* small width: one operation, its result, and what it should have been.    *)
Codes == Supported \cup {"other"}
Values == {Money(u, c) : u \in Ints, c \in Supported} \cup {Uninitialized}
Strings == UNION {[1 .. n -> Digit \cup {Point, Other}] : n \in 0 .. MaxLength}

Idle == [op |-> "none"]
Reading == \E s \in Strings, c \in Codes :
             did' = [op |-> "parse", s |-> s, c |-> c, r |-> Parse(s, c)]
Adding == \E m, n \in Values : did' = [op |-> "add", m |-> m, n |-> n, r |-> Add(m, n)]
Subtracting == \E m, n \in Values : did' = [op |-> "sub", m |-> m, n |-> n, r |-> Sub(m, n)]
Negating == \E m \in Values : did' = [op |-> "neg", m |-> m, r |-> Neg(m)]
Comparing == \E m, n \in Values :
               did' = [op |-> "cmp", m |-> m, n |-> n, r |-> Cmp(m, n), eq |-> Equal(m, n)]
Writing == \E m \in Values : did' = [op |-> "write", m |-> m, r |-> MarshalJSON(m)]

Calculate ==
  \/ did = Idle /\ (Reading \/ Adding \/ Subtracting \/ Negating \/ Comparing \/ Writing)
  \/ did # Idle /\ did' = Idle

MoneyInit == did = Idle
MoneySpec == MoneyInit /\ [][Calculate]_did

-----------------------------------------------------------------------------
Exact(m, n, r, true) ==
  /\ r.ok = (~IsUninitialized(m) /\ m.currency = n.currency /\ true \in Ints)
  /\ r.ok => r.value = Money(true, m.currency)

(* Amounts are exact or refused.  Parse accepts exactly one spelling of     *)
(* every non-negative amount there is, and nothing else, which is what lets *)
(* the idempotency hash be taken over it; a sum, a difference or an         *)
(* opposite is the mathematical one where that fits the width and the       *)
(* operands may be combined; and what is written is read back as the same   *)
(* money.                                                                   *)
AmountsAreExact ==
  /\ did.op = "parse" =>
       LET spelt == {m \in Values : m.currency = did.c /\ m.units >= 0 /\ Amount(m) = did.s}
       IN IF spelt = {} THEN ~did.r.ok ELSE did.r.ok /\ spelt = {did.r.value}
  /\ did.op = "add" => Exact(did.m, did.n, did.r, did.m.units + did.n.units)
  /\ did.op = "sub" => Exact(did.m, did.n, did.r, did.m.units - did.n.units)
  /\ did.op = "neg" => Exact(did.m, did.m, did.r, -did.m.units)
  /\ did.op = "cmp" => (did.r.ok /\ did.r.value = 0) = did.eq
  /\ did.op = "write" =>
       /\ did.r.ok = (~IsUninitialized(did.m) /\ did.m.units >= 0)
       /\ did.r.ok => UnmarshalJSON(did.r.value) = Ok(did.m)
=============================================================================
