---------------------------- MODULE StoredProofs ----------------------------
(***************************************************************************)
(* Proofs about what is calculated, written down and read back: amounts     *)
(* (MoneyCalls), the record of an operation (TransactionRecord) and the     *)
(* pages and the reconciliation of a ledger (WalletReads), for every base,  *)
(* scale and width of an amount, page size, number of entries and wallets,  *)
(* and attempts.                                                            *)
(***************************************************************************)
EXTENDS WalletReads, TransactionRecord, MoneyCalls, FiniteSetTheorems, SequenceTheorems,
        WellFoundedInduction, NaturalsInduction, TLAPS

(* A nonempty set of naturals has a least element. *)
LEMMA LeastNatural ==
  ASSUME NEW T, T \subseteq Nat, T # {}
  PROVE  \E x \in T : \A y \in T : x <= y
<1> DEFINE R == OpToRel(<, Nat)
<1>1. IsWellFoundedOn(R, Nat)  BY Zenon, NatLessThanWellFounded
<1>2. R = {ss \in Nat \X Nat : ss[1] < ss[2]}  BY Zenon DEF OpToRel
<1> HIDE DEF R
<1>3. PICK x \in T : \A y \in T : ~(<<y, x>> \in R)  BY <1>1, WFMin
<1>4. ASSUME NEW y \in T PROVE x <= y
  <2>1. ~(<<y, x>> \in R) /\ x \in Nat /\ y \in Nat  BY <1>3
  <2>2. ~(y < x)
    <3>1. <<y, x>> \in Nat \X Nat  BY <2>1
    <3>2. <<y, x>>[1] = y /\ <<y, x>>[2] = x  OBVIOUS
    <3> QED  BY <1>2, <2>1, <3>1, <3>2
  <2> QED  BY <2>1, <2>2
<1> QED  BY <1>3, <1>4

(* Counting from 0 reaches every natural. *)
LEMMA Counted ==
  ASSUME NEW T, 0 \in T, \A n \in Nat : n \in T => n + 1 \in T
  PROVE  Nat \subseteq T
<1> SUFFICES ASSUME Nat \ T # {} PROVE FALSE  OBVIOUS
<1>1. PICK x \in Nat \ T : \A y \in Nat \ T : x <= y  BY LeastNatural
<1>2. x - 1 \in Nat /\ x - 1 \in T  BY <1>1
<1> QED  BY <1>1, <1>2

(* Division by a base, and what undoes it. *)
LEMMA Divided ==
  ASSUME NEW b \in Nat \ {0}, NEW n \in Nat
  PROVE  /\ n \div b \in Nat /\ n % b \in 0 .. b - 1
         /\ n = (n \div b) * b + (n % b)
         /\ n < b => n \div b = 0 /\ n % b = n
         /\ n >= b => n \div b > 0
         /\ b # 1 /\ n > 0 => n \div b < n
  OBVIOUS

(* And what undoes it. *)
LEMMA Undivided ==
  ASSUME NEW b \in Nat \ {0}, NEW q \in Nat, NEW d \in 0 .. b - 1
  PROVE  (q * b + d) \div b = q /\ (q * b + d) % b = d /\ q * b + d \in Nat
  OBVIOUS

(* What the widths are assumed to be. *)
LEMMA Widths ==
  /\ Base \in Nat \ {0, 1} /\ Scale \in Nat \ {0} /\ MaxInt \in Nat
  /\ Digit = 0 .. Base - 1 /\ Digit \subseteq Nat /\ 0 \in Digit
  /\ Point \notin Digit
  /\ Ints \subseteq Int /\ MaxInt \in Ints /\ \A u \in Ints : u >= 0 => u \in 0 .. MaxInt
  BY MoneyAssumption DEF Digit, Ints, MinInt

(* The steps of the three recursions, for the provers to leave alone. *)
Up(x) == x * Base
Shift(x, d) == x * Base + d
IsPower(f, n) == f = [i \in 0 .. n |-> IF i = 0 THEN 1 ELSE Up(f[i - 1])]

(* Powers of the base. *)
LEMMA PowersExist == \A n \in Nat : \E f : IsPower(f, n)
<1> DEFINE T == {n \in Nat : \E f : IsPower(f, n)}
<1>1. 0 \in T
  <2> DEFINE f == [i \in 0 .. 0 |-> 1]
  <2>1. IsPower(f, 0)  BY DEF IsPower
  <2> QED  BY <2>1
<1>2. ASSUME NEW n \in Nat, n \in T PROVE n + 1 \in T
  <2>1. PICK f : IsPower(f, n)  BY <1>2
  <2> DEFINE g == [i \in 0 .. n + 1 |-> IF i = n + 1 THEN Up(f[n]) ELSE f[i]]
  <2>2. DOMAIN g = 0 .. n + 1 /\ g[n + 1] = Up(f[n]) /\ \A i \in 0 .. n : g[i] = f[i]
    OBVIOUS
  <2>3. f[0] = 1 /\ \A i \in 1 .. n : f[i] = Up(f[i - 1])  BY <2>1 DEF IsPower
  <2>4. ASSUME NEW i \in 0 .. n + 1
        PROVE  g[i] = IF i = 0 THEN 1 ELSE Up(g[i - 1])
    <3>1. CASE i = 0  BY <2>2, <2>3, <3>1
    <3>2. CASE i \in 1 .. n
      <4>1. i \in 0 .. n /\ i - 1 \in 0 .. n  BY <3>2
      <4>2. g[i] = f[i] /\ g[i - 1] = f[i - 1]  BY <2>2, <4>1
      <4> QED  BY <2>3, <3>2, <4>2
    <3>3. CASE i = n + 1
      <4>1. g[i - 1] = f[n]  BY <2>2, <3>3
      <4> QED  BY <2>2, <3>3, <4>1
    <3> QED  BY <3>1, <3>2, <3>3
  <2>5. IsPower(g, n + 1)
    <3> HIDE DEF g
    <3>1. g = [i \in 0 .. n + 1 |-> g[i]]  BY <2>2 DEF g
    <3> QED  BY <2>4, <3>1 DEF IsPower
  <2> QED  BY <2>5
<1> QED  BY <1>1, <1>2, Counted

(* So what Power chooses is that. *)
LEMMA PowerIs ==
  /\ Power[0] = 1
  /\ \A n \in 1 .. Scale : Power[n] = Up(Power[n - 1])
  /\ \A n \in 0 .. Scale : Power[n] \in Nat \ {0}
<1>1. PICK g : g = [i \in 0 .. Scale |-> IF i = 0 THEN 1 ELSE Up(g[i - 1])]
  BY Widths, PowersExist DEF IsPower
<1>2. Power = [i \in 0 .. Scale |-> IF i = 0 THEN 1 ELSE Up(Power[i - 1])]
  BY <1>1, Zenon DEF Power, Up
<1>3. Power[0] = 1 /\ \A n \in 1 .. Scale : Power[n] = Up(Power[n - 1])
  BY <1>2, Widths
<1> DEFINE U == {n \in Nat : n <= Scale => Power[n] \in Nat \ {0}}
<1>4. 0 \in U  BY <1>3
<1>5. ASSUME NEW n \in Nat, n \in U PROVE n + 1 \in U
  <2> SUFFICES ASSUME n + 1 <= Scale PROVE Power[n + 1] \in Nat \ {0}  OBVIOUS
  <2>1. Power[n] \in Nat \ {0}  BY <1>5, Widths
  <2>2. Power[n + 1] = Power[n] * Base  BY <1>3, Widths DEF Up
  <2> QED  BY <2>1, <2>2, Widths
<1>6. Nat \subseteq U
  <2> HIDE DEF U
  <2> QED  BY <1>4, <1>5, Counted
<1> QED  BY <1>3, <1>6, Widths

(* Reading digits. *)
IsReading(f, s, n) == f = [i \in 0 .. n |-> IF i = 0 THEN 0 ELSE Shift(f[i - 1], s[i])]

(* Reading a number digit by digit ends. *)
LEMMA ReadingsExist ==
  ASSUME NEW s
  PROVE  \A n \in Nat : \E f : IsReading(f, s, n)
<1> DEFINE T == {n \in Nat : \E f : IsReading(f, s, n)}
<1>1. 0 \in T
  <2> DEFINE f == [i \in 0 .. 0 |-> 0]
  <2>1. IsReading(f, s, 0)  BY DEF IsReading
  <2> QED  BY <2>1
<1>2. ASSUME NEW n \in Nat, n \in T PROVE n + 1 \in T
  <2>1. PICK f : IsReading(f, s, n)  BY <1>2
  <2> DEFINE g == [i \in 0 .. n + 1 |-> IF i = n + 1 THEN Shift(f[n], s[n + 1]) ELSE f[i]]
  <2>2. DOMAIN g = 0 .. n + 1 /\ g[n + 1] = Shift(f[n], s[n + 1]) /\ \A i \in 0 .. n : g[i] = f[i]
    OBVIOUS
  <2>3. f[0] = 0 /\ \A i \in 1 .. n : f[i] = Shift(f[i - 1], s[i])
    BY <2>1 DEF IsReading
  <2>4. ASSUME NEW i \in 0 .. n + 1
        PROVE  g[i] = IF i = 0 THEN 0 ELSE Shift(g[i - 1], s[i])
    <3>1. CASE i = 0  BY <2>2, <2>3, <3>1
    <3>2. CASE i \in 1 .. n
      <4>1. i \in 0 .. n /\ i - 1 \in 0 .. n  BY <3>2
      <4>2. g[i] = f[i] /\ g[i - 1] = f[i - 1]  BY <2>2, <4>1
      <4> QED  BY <2>3, <3>2, <4>2
    <3>3. CASE i = n + 1
      <4>1. g[i - 1] = f[n]  BY <2>2, <3>3
      <4> QED  BY <2>2, <3>3, <4>1
    <3> QED  BY <3>1, <3>2, <3>3
  <2>5. IsReading(g, s, n + 1)
    <3> HIDE DEF g
    <3>1. g = [i \in 0 .. n + 1 |-> g[i]]  BY <2>2 DEF g
    <3> QED  BY <2>4, <3>1 DEF IsReading
  <2> QED  BY <2>5
<1> QED  BY <1>1, <1>2, Counted

(* So what Readings chooses is that reading. *)
LEMMA ReadingsAre ==
  ASSUME NEW s, Len(s) \in Nat
  PROVE  /\ Readings(s)[0] = 0
         /\ \A n \in 1 .. Len(s) : Readings(s)[n] = Shift(Readings(s)[n - 1], s[n])
<1>1. PICK g : g = [i \in 0 .. Len(s) |-> IF i = 0 THEN 0 ELSE Shift(g[i - 1], s[i])]
  BY ReadingsExist DEF IsReading
<1> DEFINE f == Readings(s)
<1>2. f = [i \in 0 .. Len(s) |-> IF i = 0 THEN 0 ELSE Shift(f[i - 1], s[i])]
  BY <1>1, Zenon DEF Readings, Shift
<1> HIDE DEF f
<1>3. f[0] = 0 /\ \A n \in 1 .. Len(s) : f[n] = Shift(f[n - 1], s[n])
  BY <1>2
<1> QED  BY <1>3 DEF f

(* One digit more never makes a number smaller. *)
LEMMA Shifted ==
  ASSUME NEW x \in Nat, NEW d \in Digit
  PROVE  Shift(x, d) \in Nat /\ Shift(x, d) >= x
<1>1. d \in Nat /\ Base \in Nat \ {0, 1}  BY Widths
<1>2. x * Base \in Nat /\ x * Base >= x  BY <1>1
<1> QED  BY <1>1, <1>2 DEF Shift

(* Digits read as a natural number. *)
LEMMA ReadingsTyped ==
  ASSUME NEW s \in Seq(Digit)
  PROVE  \A n \in 0 .. Len(s) : Readings(s)[n] \in Nat
<1> DEFINE T == {n \in Nat : n <= Len(s) => Readings(s)[n] \in Nat}
<1>1. /\ Len(s) \in Nat /\ Readings(s)[0] = 0
      /\ \A n \in 1 .. Len(s) : Readings(s)[n] = Shift(Readings(s)[n - 1], s[n])
  BY ReadingsAre
<1>2. 0 \in T  BY <1>1
<1>3. ASSUME NEW n \in Nat, n \in T PROVE n + 1 \in T
  <2> SUFFICES ASSUME n + 1 <= Len(s) PROVE Readings(s)[n + 1] \in Nat  OBVIOUS
  <2>1. n + 1 \in 1 .. Len(s) /\ n <= Len(s)  BY <1>1
  <2>2. s[n + 1] \in Digit  BY <2>1
  <2>3. Readings(s)[n] \in Nat  BY <1>3, <2>1
  <2>4. Readings(s)[n + 1] = Shift(Readings(s)[n], s[n + 1])  BY <1>1, <2>1
  <2> QED  BY <2>2, <2>3, <2>4, Shifted
<1>4. Nat \subseteq T
  <2> HIDE DEF T
  <2> QED  BY <1>2, <1>3, Counted
<1> QED  BY <1>1, <1>4

(* Numbers that begin alike read alike as far as they do. *)
LEMMA SameReadings ==
  ASSUME NEW s, NEW t, Len(s) \in Nat, Len(t) \in Nat, NEW k \in Nat, k <= Len(s), k <= Len(t),
         \A i \in 1 .. k : s[i] = t[i]
  PROVE  \A n \in 0 .. k : Readings(s)[n] = Readings(t)[n]
<1> DEFINE T == {n \in Nat : n <= k => Readings(s)[n] = Readings(t)[n]}
<1>1. /\ Readings(s)[0] = 0 /\ Readings(t)[0] = 0
      /\ \A n \in 1 .. Len(s) : Readings(s)[n] = Shift(Readings(s)[n - 1], s[n])
      /\ \A n \in 1 .. Len(t) : Readings(t)[n] = Shift(Readings(t)[n - 1], t[n])
  BY ReadingsAre
<1>2. 0 \in T  BY <1>1
<1>3. ASSUME NEW n \in Nat, n \in T PROVE n + 1 \in T
  <2> SUFFICES ASSUME n + 1 <= k PROVE Readings(s)[n + 1] = Readings(t)[n + 1]  OBVIOUS
  <2>1. n + 1 \in 1 .. k /\ n + 1 \in 1 .. Len(s) /\ n + 1 \in 1 .. Len(t)  OBVIOUS
  <2>2. Readings(s)[n] = Readings(t)[n]  BY <1>3
  <2>3. /\ Readings(s)[n + 1] = Shift(Readings(s)[n], s[n + 1])
        /\ Readings(t)[n + 1] = Shift(Readings(t)[n], t[n + 1])
    BY <1>1, <2>1
  <2> QED  BY <2>1, <2>2, <2>3
<1>4. Nat \subseteq T
  <2> HIDE DEF T
  <2> QED  BY <1>2, <1>3, Counted
<1> QED  BY <1>4

(* A number, and the number with a digit more. *)
LEMMA ValueIs ==
  /\ ValueOf(<<>>) = 0
  /\ \A s \in Seq(Digit) : ValueOf(s) \in Nat
  /\ \A s \in Seq(Digit), d \in Digit : ValueOf(Append(s, d)) = Shift(ValueOf(s), d)
<1>1. ValueOf(<<>>) = 0
  <2>1. PICK s : s = <<>>  OBVIOUS
  <2>2. Len(s) = 0  BY <2>1
  <2>3. ValueOf(s) = 0  BY <2>2, ReadingsAre DEF ValueOf
  <2> QED  BY <2>1, <2>3
<1>2. ASSUME NEW s \in Seq(Digit) PROVE ValueOf(s) \in Nat
  <2>1. Len(s) \in 0 .. Len(s)  OBVIOUS
  <2> QED  BY <2>1, ReadingsTyped DEF ValueOf
<1>3. ASSUME NEW s \in Seq(Digit), NEW d \in Digit
      PROVE  ValueOf(Append(s, d)) = Shift(ValueOf(s), d)
  <2>1. PICK t : t = Append(s, d)  OBVIOUS
  <2>2. PICK k \in Nat : k = Len(s)  OBVIOUS
  <2>3. Len(t) = k + 1 /\ t[k + 1] = d /\ (\A i \in 1 .. k : s[i] = t[i]) /\ Len(t) \in Nat
    BY <2>1, <2>2
  <2>4. Readings(s)[k] = Readings(t)[k]  BY <2>2, <2>3, SameReadings
  <2>5. Readings(t)[k + 1] = Shift(Readings(t)[k], t[k + 1])
    <3>1. \A n \in 1 .. Len(t) : Readings(t)[n] = Shift(Readings(t)[n - 1], t[n])
      BY <2>3, ReadingsAre
    <3>2. k + 1 \in 1 .. Len(t) /\ k + 1 - 1 = k  BY <2>3
    <3> QED  BY <3>1, <3>2
  <2> QED  BY <2>1, <2>2, <2>3, <2>4, <2>5 DEF ValueOf
<1> QED  BY <1>1, <1>2, <1>3

(* A sequence that is not empty is one with an element more. *)
LEMMA Split ==
  ASSUME NEW S, NEW s \in Seq(S), Len(s) > 0
  PROVE  \E f \in Seq(S) : \E x \in S :
           /\ s = Append(f, x) /\ Len(s) = Len(f) + 1 /\ x = s[Len(s)]
           /\ \A i \in 1 .. Len(f) : f[i] = s[i]
<1>1. PICK n \in Nat : Len(s) = n + 1
  <2>1. Len(s) - 1 \in Nat /\ Len(s) = Len(s) - 1 + 1  OBVIOUS
  <2> QED  BY <2>1
<1>2. PICK f : f = [i \in 1 .. n |-> s[i]]  OBVIOUS
<1>3. f \in Seq(S) /\ Len(f) = n /\ \A i \in 1 .. n : f[i] = s[i]  BY <1>1, <1>2
<1>4. PICK x \in S : x = s[n + 1]  BY <1>1
<1>5. PICK t : t = Append(f, x)  OBVIOUS
<1>6. /\ t \in Seq(S) /\ Len(t) = n + 1 /\ t[n + 1] = x /\ \A i \in 1 .. n : t[i] = f[i]
  BY <1>3, <1>5
<1>7. \A i \in 1 .. n + 1 : t[i] = s[i]  BY <1>3, <1>4, <1>6
<1>8. t = s  BY <1>1, <1>6, <1>7, SeqEqual
<1> QED  BY <1>1, <1>3, <1>4, <1>5, <1>8

(* Laying down digits. *)
Above(n) == n \div Base
Below(n) == n % Base
IsSpelling(f, n) ==
  f = [i \in 0 .. n |-> IF i < Base THEN <<i>> ELSE Append(f[Above(i)], Below(i))]

(* A number is what is above its last digit, and that digit. *)
LEMMA AboveBelow ==
  ASSUME NEW n \in Nat
  PROVE  /\ Above(n) \in Nat /\ Below(n) \in Digit /\ n = Shift(Above(n), Below(n))
         /\ n < Base => n \in Digit
         /\ n >= Base => Above(n) > 0 /\ Above(n) < n
<1>1. Base \in Nat \ {0, 1} /\ Digit = 0 .. Base - 1  BY Widths
<1>2. /\ n \div Base \in Nat /\ n % Base \in 0 .. Base - 1
      /\ n = (n \div Base) * Base + (n % Base)
      /\ n >= Base => n \div Base > 0
      /\ n > 0 => n \div Base < n
  BY <1>1, Divided
<1>3. n >= Base => n > 0  BY <1>1
<1> QED  BY <1>1, <1>2, <1>3 DEF Above, Below, Shift

(* Both are read off again. *)
LEMMA ShiftedBack ==
  ASSUME NEW q \in Nat, NEW d \in Digit
  PROVE  /\ Above(Shift(q, d)) = q /\ Below(Shift(q, d)) = d
         /\ q > 0 => Shift(q, d) >= Base
         /\ q = 0 => Shift(q, d) = d
<1>1. Base \in Nat \ {0} /\ d \in 0 .. Base - 1  BY Widths
<1>2. (q * Base + d) \div Base = q /\ (q * Base + d) % Base = d  BY <1>1, Undivided
<1>3. q > 0 => q * Base >= Base  BY <1>1
<1>4. q * Base \in Nat  BY <1>1
<1> QED  BY <1>1, <1>2, <1>3, <1>4 DEF Above, Below, Shift

(* Laying down digits ends: there is always less above. *)
LEMMA SpellingsExist == \A n \in Nat : \E f : IsSpelling(f, n)
<1> DEFINE T == {n \in Nat : \E f : IsSpelling(f, n)}
<1>1. Base \in Nat \ {0, 1}  BY Widths
<1>2. 0 \in T
  <2> DEFINE f == [i \in 0 .. 0 |-> <<i>>]
  <2>1. IsSpelling(f, 0)  BY <1>1 DEF IsSpelling
  <2> QED  BY <2>1
<1>3. ASSUME NEW n \in Nat, n \in T PROVE n + 1 \in T
  <2>1. PICK f : IsSpelling(f, n)  BY <1>3
  <2>2. PICK last : last = IF n + 1 < Base THEN <<n + 1>> ELSE Append(f[Above(n + 1)], Below(n + 1))
    OBVIOUS
  <2> DEFINE g == [i \in 0 .. n + 1 |-> IF i = n + 1 THEN last ELSE f[i]]
  <2>3. DOMAIN g = 0 .. n + 1 /\ g[n + 1] = last /\ \A i \in 0 .. n : g[i] = f[i]
    OBVIOUS
  <2>4. \A i \in 0 .. n : f[i] = IF i < Base THEN <<i>> ELSE Append(f[Above(i)], Below(i))
    BY <2>1 DEF IsSpelling
  <2>5. ASSUME NEW i \in 0 .. n + 1
        PROVE  g[i] = IF i < Base THEN <<i>> ELSE Append(g[Above(i)], Below(i))
    <3> HIDE DEF g
    <3>1. i >= Base => Above(i) \in 0 .. n /\ g[Above(i)] = f[Above(i)]
      <4>1. i \in Nat /\ (i >= Base => Above(i) \in Nat /\ Above(i) < i)  BY AboveBelow
      <4> QED  BY <2>3, <4>1
    <3>2. CASE i \in 0 .. n  BY <1>1, <2>3, <2>4, <3>1, <3>2
    <3>3. CASE i = n + 1
      <4>1. CASE i < Base  BY <2>3, <2>2, <3>3, <4>1
      <4>2. CASE ~(i < Base)
        <5>1. g[Above(i)] = f[Above(i)]  BY <1>1, <3>1, <4>2
        <5> QED  BY <2>3, <2>2, <3>3, <4>2, <5>1
      <4> QED  BY <4>1, <4>2
    <3> QED  BY <3>2, <3>3
  <2>6. IsSpelling(g, n + 1)
    <3> HIDE DEF g
    <3>1. g = [i \in 0 .. n + 1 |-> g[i]]  BY <2>3 DEF g
    <3> QED  BY <2>5, <3>1 DEF IsSpelling
  <2> QED  BY <2>6
<1> QED  BY <1>2, <1>3, Counted

(* So what DigitsOf chooses is that spelling. *)
LEMMA DigitsAre ==
  ASSUME NEW n \in 0 .. MaxInt + 1
  PROVE  DigitsOf[n] = IF n < Base THEN <<n>> ELSE Append(DigitsOf[Above(n)], Below(n))
<1>1. MaxInt + 1 \in Nat  BY Widths
<1>2. PICK g : g = [i \in 0 .. MaxInt + 1 |->
                      IF i < Base THEN <<i>> ELSE Append(g[Above(i)], Below(i))]
  BY <1>1, SpellingsExist DEF IsSpelling
<1>3. DigitsOf = [i \in 0 .. MaxInt + 1 |->
                      IF i < Base THEN <<i>> ELSE Append(DigitsOf[Above(i)], Below(i))]
  BY <1>2, Zenon DEF DigitsOf, Above, Below
<1> QED  BY <1>3, Zenon

(* A count of major units is spelled one way: without a leading zero. *)
Canonical(s) == s \in Seq(Digit) /\ Len(s) > 0 /\ (Len(s) > 1 => s[1] # 0)

(* The digits laid down are the number, and the first of them is not a     *)
(* zero.                                                                   *)
LEMMA DigitsSay ==
  ASSUME NEW n \in 0 .. MaxInt + 1
  PROVE  /\ Canonical(DigitsOf[n]) /\ ValueOf(DigitsOf[n]) = n
         /\ n > 0 => DigitsOf[n][1] # 0
<1> DEFINE Says(m) == /\ Canonical(DigitsOf[m]) /\ ValueOf(DigitsOf[m]) = m
                      /\ m > 0 => DigitsOf[m][1] # 0
<1> DEFINE T == {m \in Nat : \A i \in 0 .. m : i <= MaxInt + 1 => Says(i)}
<1>1. MaxInt + 1 \in Nat /\ Base \in Nat \ {0, 1} /\ Digit = 0 .. Base - 1 /\ Digit \subseteq Nat
  BY Widths
<1>2. ASSUME NEW m \in Nat, m <= MaxInt + 1, \A i \in 0 .. m : i < m => Says(i)
      PROVE  Says(m)
  <2>1. m \in 0 .. MaxInt + 1  BY <1>1, <1>2
  <2>2. DigitsOf[m] = IF m < Base THEN <<m>> ELSE Append(DigitsOf[Above(m)], Below(m))
    BY <2>1, DigitsAre
  <2>3. /\ Above(m) \in Nat /\ Below(m) \in Digit /\ m = Shift(Above(m), Below(m))
        /\ m < Base => m \in Digit
        /\ m >= Base => Above(m) > 0 /\ Above(m) < m
    BY AboveBelow
  <2>4. CASE m < Base
    <3>1. PICK e : e = <<>>  OBVIOUS
    <3>2. e \in Seq(Digit) /\ Len(e) = 0 /\ ValueOf(e) = 0  BY <3>1, ValueIs
    <3>3. PICK d \in Digit : d = m  BY <2>3, <2>4
    <3>4. PICK s : s = Append(e, d)  OBVIOUS
    <3>5. s \in Seq(Digit) /\ Len(s) = 1 /\ s[1] = d  BY <3>2, <3>4
    <3>6. ValueOf(s) = d  BY <3>2, <3>4, ValueIs, ShiftedBack
    <3>7. DigitsOf[m] = s  BY <2>2, <2>4, <3>1, <3>3, <3>4
    <3>8. Canonical(s) /\ ValueOf(s) = m  BY <3>3, <3>5, <3>6 DEF Canonical
    <3>9. m > 0 => s[1] # 0  BY <3>3, <3>5
    <3> QED  BY <3>7, <3>8, <3>9
  <2>5. CASE ~(m < Base)
    <3>1. Says(Above(m)) /\ Above(m) > 0  BY <1>1, <1>2, <2>3, <2>5
    <3>2. PICK f : f = DigitsOf[Above(m)]  OBVIOUS
    <3>3. /\ f \in Seq(Digit) /\ Len(f) > 0 /\ ValueOf(f) = Above(m) /\ f[1] # 0
      BY <3>1, <3>2 DEF Canonical
    <3>4. PICK d \in Digit : d = Below(m)  BY <2>3
    <3>5. PICK s : s = Append(f, d)  OBVIOUS
    <3>6. s \in Seq(Digit) /\ Len(s) = Len(f) + 1 /\ s[1] = f[1]  BY <3>3, <3>5
    <3>7. ValueOf(s) = m  BY <2>3, <3>3, <3>4, <3>5, ValueIs
    <3>8. DigitsOf[m] = s  BY <2>2, <2>5, <3>2, <3>4, <3>5
    <3> QED  BY <3>3, <3>6, <3>7, <3>8 DEF Canonical
  <2> QED  BY <2>4, <2>5
<1> HIDE DEF Says
<1>3. 0 \in T  BY <1>1, <1>2
<1>4. ASSUME NEW m \in Nat, m \in T PROVE m + 1 \in T
  <2> SUFFICES ASSUME NEW i \in 0 .. m + 1, i <= MaxInt + 1 PROVE Says(i)  OBVIOUS
  <2>1. CASE i \in 0 .. m  BY <1>4, <2>1
  <2>2. CASE i = m + 1
    <3>1. \A j \in 0 .. m + 1 : j < m + 1 => j \in 0 .. m /\ j <= MaxInt + 1  BY <1>1, <2>2
    <3>2. \A j \in 0 .. m + 1 : j < m + 1 => Says(j)  BY <1>4, <3>1
    <3> QED  BY <1>2, <2>2, <3>2
  <2> QED  BY <2>1, <2>2
<1>5. Nat \subseteq T
  <2> HIDE DEF T
  <2> QED  BY <1>3, <1>4, Counted
<1>6. Says(n)  BY <1>1, <1>5
<1> QED  BY <1>6 DEF Says

(* A number that begins with another digit than zero is not zero. *)
LEMMA Positive ==
  ASSUME NEW s \in Seq(Digit), Len(s) > 0, s[1] # 0
  PROVE  ValueOf(s) > 0
<1> DEFINE T == {n \in Nat : n + 1 <= Len(s) => Readings(s)[n + 1] > 0}
<1>1. /\ Len(s) \in Nat /\ Readings(s)[0] = 0
      /\ \A n \in 1 .. Len(s) : Readings(s)[n] = Shift(Readings(s)[n - 1], s[n])
      /\ \A n \in 0 .. Len(s) : Readings(s)[n] \in Nat
      /\ \A n \in 1 .. Len(s) : s[n] \in Digit
  BY ReadingsAre, ReadingsTyped
<1>2. 0 \in T
  <2>1. Readings(s)[1] = Shift(Readings(s)[1 - 1], s[1]) /\ s[1] \in Digit  BY <1>1
  <2>2. Readings(s)[1] = Shift(0, s[1])  BY <1>1, <2>1
  <2>3. Shift(0, s[1]) = s[1]  BY <2>1, ShiftedBack
  <2>4. s[1] \in Nat  BY <2>1, Widths
  <2> QED  BY <2>2, <2>3, <2>4
<1>3. ASSUME NEW n \in Nat, n \in T PROVE n + 1 \in T
  <2> SUFFICES ASSUME n + 1 + 1 <= Len(s) PROVE Readings(s)[n + 1 + 1] > 0  OBVIOUS
  <2>1. PICK m \in 1 .. Len(s) : m = n + 1 + 1  OBVIOUS
  <2>2. m - 1 = n + 1 /\ m - 1 \in 0 .. Len(s)  BY <1>1, <2>1
  <2>3. Readings(s)[m - 1] > 0 /\ Readings(s)[m - 1] \in Nat  BY <1>1, <1>3, <2>2
  <2>4. Readings(s)[m] = Shift(Readings(s)[m - 1], s[m]) /\ s[m] \in Digit  BY <1>1
  <2>5. PICK x \in Nat : x = Readings(s)[m - 1]  BY <2>3
  <2>6. Shift(x, s[m]) >= x /\ Shift(x, s[m]) \in Nat  BY <2>4, Shifted
  <2> QED  BY <2>1, <2>3, <2>4, <2>5, <2>6
<1>4. Nat \subseteq T
  <2> HIDE DEF T
  <2> QED  BY <1>2, <1>3, Counted
<1>5. PICK n \in Nat : n + 1 = Len(s)
  <2>1. Len(s) - 1 \in Nat /\ Len(s) - 1 + 1 = Len(s)  BY <1>1
  <2> QED  BY <2>1
<1>6. Readings(s)[n + 1] > 0  BY <1>4, <1>5
<1> QED  BY <1>5, <1>6 DEF ValueOf

(* What was read is spelled the way it was. *)
LEMMA Respelt ==
  ASSUME NEW s, Canonical(s), ValueOf(s) <= MaxInt + 1
  PROVE  DigitsOf[ValueOf(s)] = s
<1> DEFINE Says(t) == Canonical(t) /\ ValueOf(t) <= MaxInt + 1 => DigitsOf[ValueOf(t)] = t
<1> DEFINE T == {n \in Nat : \A t \in Seq(Digit) : Len(t) = n => Says(t)}
<1>1. 0 \in T  BY DEF Canonical
<1>2. ASSUME NEW n \in Nat, n \in T PROVE n + 1 \in T
  <2> SUFFICES ASSUME NEW t \in Seq(Digit), Len(t) = n + 1, Canonical(t), ValueOf(t) <= MaxInt + 1
               PROVE  DigitsOf[ValueOf(t)] = t
    OBVIOUS
  <2>1. PICK f \in Seq(Digit) : \E x \in Digit :
          /\ t = Append(f, x) /\ Len(t) = Len(f) + 1 /\ x = t[Len(t)]
          /\ \A i \in 1 .. Len(f) : f[i] = t[i]
    BY Split
  <2>2. PICK x \in Digit :
          /\ t = Append(f, x) /\ Len(t) = Len(f) + 1 /\ x = t[Len(t)]
          /\ \A i \in 1 .. Len(f) : f[i] = t[i]
    BY <2>1
  <2>3. PICK v \in Nat : v = ValueOf(f)  BY ValueIs
  <2>4. ValueOf(t) = Shift(v, x) /\ Shift(v, x) \in Nat /\ Shift(v, x) >= v
    BY <2>2, <2>3, ValueIs, Shifted
  <2>5. Shift(v, x) \in 0 .. MaxInt + 1 /\ v \in 0 .. MaxInt + 1
    <3>1. MaxInt + 1 \in Nat  BY Widths
    <3> QED  BY <2>4, <3>1
  <2>6. DigitsOf[Shift(v, x)] = IF Shift(v, x) < Base THEN <<Shift(v, x)>>
                                ELSE Append(DigitsOf[Above(Shift(v, x))], Below(Shift(v, x)))
    BY <2>5, DigitsAre
  <2>7. CASE n = 0
    <3>1. PICK e : e = <<>>  OBVIOUS
    <3>2. f = e  BY <2>2, <2>7, <3>1
    <3>3. v = 0  BY <2>3, <3>1, <3>2, ValueIs
    <3>4. Shift(v, x) = x /\ x < Base  BY <3>3, ShiftedBack, Widths
    <3>5. t = <<x>>  BY <2>2, <3>1, <3>2
    <3> QED  BY <2>4, <2>6, <3>4, <3>5
  <2>8. CASE n > 0
    <3>1. Canonical(f) /\ Len(f) = n /\ f[1] # 0
      <4>1. Len(f) = n /\ Len(t) > 1  BY <2>2, <2>8
      <4>2. t[1] # 0  BY <4>1 DEF Canonical
      <4>3. f[1] = t[1]  BY <2>2, <2>8, <4>1
      <4> QED  BY <2>8, <4>1, <4>2, <4>3 DEF Canonical
    <3>2. v > 0  BY <2>3, <2>8, <3>1, Positive
    <3>3. Above(Shift(v, x)) = v /\ Below(Shift(v, x)) = x /\ Shift(v, x) >= Base
      BY <3>2, ShiftedBack
    <3>4. DigitsOf[v] = f  BY <1>2, <2>3, <2>5, <3>1
    <3>5. ~(Shift(v, x) < Base)  BY <2>4, <3>3, Widths
    <3> QED  BY <2>2, <2>4, <2>6, <3>3, <3>4, <3>5
  <2> QED  BY <2>7, <2>8
<1>3. Nat \subseteq T
  <2> HIDE DEF T
  <2> QED  BY <1>1, <1>2, Counted
<1>4. s \in Seq(Digit) /\ Len(s) \in Nat  BY DEF Canonical
<1> QED  BY <1>3, <1>4

(* So many digits say no more than that power of the base. *)
LEMMA Bounded ==
  ASSUME NEW s \in Seq(Digit), Len(s) <= Scale
  PROVE  ValueOf(s) < Power[Len(s)]
<1> DEFINE Says(t) == ValueOf(t) < Power[Len(t)]
<1> DEFINE T == {n \in Nat : n <= Scale => \A t \in Seq(Digit) : Len(t) = n => Says(t)}
<1>1. 0 \in T
  <2>1. ASSUME NEW t \in Seq(Digit), Len(t) = 0 PROVE Says(t)
    <3>1. PICK e : e = <<>>  OBVIOUS
    <3>2. t = e  BY <2>1, <3>1
    <3>3. ValueOf(t) = 0  BY <3>1, <3>2, ValueIs
    <3>4. Power[0] = 1  BY PowerIs
    <3> QED  BY <2>1, <3>3, <3>4
  <2> QED  BY <2>1
<1>2. ASSUME NEW n \in Nat, n \in T PROVE n + 1 \in T
  <2> SUFFICES ASSUME n + 1 <= Scale, NEW t \in Seq(Digit), Len(t) = n + 1
               PROVE  ValueOf(t) < Power[n + 1]
    OBVIOUS
  <2>1. Len(t) > 0  OBVIOUS
  <2>2. PICK f \in Seq(Digit) : \E x \in Digit :
          /\ t = Append(f, x) /\ Len(t) = Len(f) + 1 /\ x = t[Len(t)]
          /\ \A i \in 1 .. Len(f) : f[i] = t[i]
    BY <2>1, Split
  <2>3. PICK x \in Digit : t = Append(f, x) /\ Len(t) = Len(f) + 1  BY <2>2
  <2>4. PICK v \in Nat : v = ValueOf(f)  BY ValueIs
  <2>5. ValueOf(t) = Shift(v, x)  BY <2>3, <2>4, ValueIs
  <2>6. n <= Scale /\ n + 1 \in 1 .. Scale /\ n \in 0 .. Scale  BY Widths
  <2>7. PICK p \in Nat \ {0} : p = Power[n]  BY <2>6, PowerIs
  <2>8. v < p  BY <1>2, <2>3, <2>4, <2>6, <2>7
  <2>9. Power[n + 1] = Up(p)
    <3>1. Power[n + 1] = Up(Power[n + 1 - 1])  BY <2>6, PowerIs
    <3> QED  BY <2>7, <3>1
  <2>10. Shift(v, x) < Up(p)
    <3>1. Base \in Nat \ {0, 1} /\ x \in 0 .. Base - 1  BY Widths
    <3>2. v * Base <= (p - 1) * Base  BY <2>8, <3>1
    <3>3. (p - 1) * Base = p * Base - Base  BY <3>1
    <3>4. v * Base \in Nat /\ p * Base \in Nat  BY <3>1
    <3> QED  BY <3>1, <3>2, <3>3, <3>4 DEF Shift, Up
  <2> QED  BY <2>5, <2>9, <2>10
<1>3. Nat \subseteq T
  <2> HIDE DEF T
  <2> QED  BY <1>1, <1>2, Counted
<1> QED  BY <1>3

(* And no more digits are laid down than it takes. *)
LEMMA Short ==
  ASSUME NEW k \in 1 .. Scale, NEW n \in 0 .. MaxInt + 1, n < Power[k]
  PROVE  Len(DigitsOf[n]) <= k
<1> DEFINE Says(j) == \A m \in 0 .. MaxInt + 1 : m < Power[j] => Len(DigitsOf[m]) <= j
<1> DEFINE T == {j \in Nat : j + 1 <= Scale => Says(j + 1)}
<1>1. /\ Scale \in Nat /\ MaxInt + 1 \in Nat /\ Base \in Nat \ {0, 1}
  BY Widths
<1>2. 0 \in T
  <2>1. Power[1] = Base
    <3>1. 1 \in 1 .. Scale /\ 1 - 1 = 0  BY Widths
    <3>2. Power[1] = Up(Power[0]) /\ Power[0] = 1  BY <3>1, PowerIs
    <3> QED  BY <1>1, <3>2 DEF Up
  <2>2. ASSUME NEW m \in 0 .. MaxInt + 1, m < Power[1] PROVE Len(DigitsOf[m]) <= 1
    <3>1. DigitsOf[m] = <<m>>  BY <2>1, <2>2, DigitsAre
    <3> QED  BY <3>1
  <2> QED  BY <2>2
<1>3. ASSUME NEW j \in Nat, j \in T PROVE j + 1 \in T
  <2> SUFFICES ASSUME j + 1 + 1 <= Scale, NEW m \in 0 .. MaxInt + 1, m < Power[j + 1 + 1]
               PROVE  Len(DigitsOf[m]) <= j + 1 + 1
    OBVIOUS
  <2>1. Says(j + 1)  BY <1>1, <1>3
  <2>2. CASE m < Base
    <3>1. DigitsOf[m] = <<m>>  BY <2>2, DigitsAre
    <3> QED  BY <3>1
  <2>3. CASE ~(m < Base)
    <3>1. /\ Above(m) \in Nat /\ Below(m) \in Digit /\ m = Shift(Above(m), Below(m))
          /\ Above(m) < m
      BY <1>1, <2>3, AboveBelow
    <3>2. PICK q \in 0 .. MaxInt + 1 : q = Above(m)  BY <1>1, <3>1
    <3>3. DigitsOf[m] = Append(DigitsOf[q], Below(m))  BY <2>3, <3>2, DigitsAre
    <3>4. PICK p \in Nat : p = Power[j + 1]  BY <1>1, PowerIs
    <3>5. m < Up(p)
      <4>1. j + 1 + 1 \in 1 .. Scale /\ j + 1 + 1 - 1 = j + 1  BY <1>1
      <4>2. Power[j + 1 + 1] = Up(Power[j + 1])  BY <4>1, PowerIs
      <4> QED  BY <3>4, <4>2
    <3>6. q < p
      <4>1. q * Base <= m
        <5>1. Below(m) \in Nat /\ q * Base \in Nat  BY <1>1, <3>1, Widths
        <5> QED  BY <3>1, <3>2, <5>1 DEF Shift
      <4>2. q >= p => q * Base >= p * Base  BY <1>1
      <4>3. q * Base \in Nat /\ p * Base \in Nat  BY <1>1
      <4> QED  BY <3>5, <4>1, <4>2, <4>3 DEF Up
    <3>7. Len(DigitsOf[q]) <= j + 1  BY <2>1, <3>4, <3>6
    <3>8. PICK f \in Seq(Digit) : f = DigitsOf[q]  BY DigitsSay DEF Canonical
    <3>9. Len(DigitsOf[m]) = Len(f) + 1  BY <3>1, <3>3, <3>8
    <3> QED  BY <3>7, <3>8, <3>9
  <2> QED  BY <2>2, <2>3
<1>4. Nat \subseteq T
  <2> HIDE DEF T
  <2> QED  BY <1>2, <1>3, Counted
<1>5. k - 1 \in Nat /\ k - 1 + 1 = k /\ k <= Scale  BY <1>1
<1>6. Says(k)  BY <1>4, <1>5
<1> QED  BY <1>6

(* Two numbers of as many digits that are equal are spelled alike. *)
LEMMA SameSpelling ==
  ASSUME NEW s \in Seq(Digit), NEW t \in Seq(Digit), Len(s) = Len(t), ValueOf(s) = ValueOf(t)
  PROVE  s = t
<1> DEFINE Says(f, g) == ValueOf(f) = ValueOf(g) => f = g
<1> DEFINE T == {n \in Nat : \A f, g \in Seq(Digit) : Len(f) = n /\ Len(g) = n => Says(f, g)}
<1>1. 0 \in T
  <2>1. ASSUME NEW f \in Seq(Digit), NEW g \in Seq(Digit), Len(f) = 0, Len(g) = 0
        PROVE  f = g
    BY <2>1, SeqEqual
  <2> QED  BY <2>1
<1>2. ASSUME NEW n \in Nat, n \in T PROVE n + 1 \in T
  <2> SUFFICES ASSUME NEW f \in Seq(Digit), NEW g \in Seq(Digit), Len(f) = n + 1, Len(g) = n + 1,
                      ValueOf(f) = ValueOf(g)
               PROVE  f = g
    OBVIOUS
  <2>1. Len(f) > 0 /\ Len(g) > 0  OBVIOUS
  <2>2. PICK a \in Seq(Digit) : \E x \in Digit :
          /\ f = Append(a, x) /\ Len(f) = Len(a) + 1 /\ x = f[Len(f)]
          /\ \A i \in 1 .. Len(a) : a[i] = f[i]
    BY <2>1, Split
  <2>3. PICK x \in Digit : f = Append(a, x) /\ Len(f) = Len(a) + 1  BY <2>2
  <2>4. PICK b \in Seq(Digit) : \E y \in Digit :
          /\ g = Append(b, y) /\ Len(g) = Len(b) + 1 /\ y = g[Len(g)]
          /\ \A i \in 1 .. Len(b) : b[i] = g[i]
    BY <2>1, Split
  <2>5. PICK y \in Digit : g = Append(b, y) /\ Len(g) = Len(b) + 1  BY <2>4
  <2>6. PICK v \in Nat : v = ValueOf(a)  BY ValueIs
  <2>7. PICK w \in Nat : w = ValueOf(b)  BY ValueIs
  <2>8. Shift(v, x) = Shift(w, y)  BY <2>3, <2>5, <2>6, <2>7, ValueIs
  <2>9. v = w /\ x = y
    <3>1. Above(Shift(v, x)) = v /\ Below(Shift(v, x)) = x  BY ShiftedBack
    <3>2. Above(Shift(w, y)) = w /\ Below(Shift(w, y)) = y  BY ShiftedBack
    <3> QED  BY <2>8, <3>1, <3>2
  <2>10. Len(a) = n /\ Len(b) = n  BY <2>3, <2>5
  <2>11. a = b  BY <1>2, <2>6, <2>7, <2>9, <2>10
  <2> QED  BY <2>3, <2>5, <2>9, <2>11
<1>3. Nat \subseteq T
  <2> HIDE DEF T
  <2> QED  BY <1>1, <1>2, Counted
<1>4. Len(s) \in Nat  OBVIOUS
<1> QED  BY <1>3, <1>4

(* Zeros in front change nothing. *)
LEMMA Padded ==
  ASSUME NEW k \in Nat, NEW s \in Seq(Digit)
  PROVE  /\ Zeros(k) \o s \in Seq(Digit) /\ Len(Zeros(k) \o s) = k + Len(s)
         /\ ValueOf(Zeros(k) \o s) = ValueOf(s)
<1>1. PICK z : z = Zeros(k)  OBVIOUS
<1>2. z \in Seq(Digit) /\ Len(z) = k /\ \A i \in 1 .. k : z[i] = 0
  <2>1. 0 \in Digit  BY Widths
  <2> QED  BY <1>1, <2>1 DEF Zeros
<1>3. PICK t : t = z \o s  OBVIOUS
<1>4. PICK l \in Nat : l = Len(s)  OBVIOUS
<1>5. /\ t \in Seq(Digit) /\ Len(t) = k + l
      /\ \A i \in 1 .. k : t[i] = 0
      /\ \A i \in 1 .. l : t[k + i] = s[i]
  <2>1. t \in Seq(Digit) /\ Len(t) = k + l  BY <1>2, <1>3, <1>4, ConcatProperties
  <2>2. \A i \in 1 .. k + l : t[i] = IF i <= k THEN z[i] ELSE s[i - k]
    BY <1>2, <1>3, <1>4, ConcatProperties
  <2>3. \A i \in 1 .. k : t[i] = 0  BY <1>2, <2>2
  <2>4. ASSUME NEW i \in 1 .. l PROVE t[k + i] = s[i]
    <3>1. k + i \in 1 .. k + l /\ ~(k + i <= k) /\ k + i - k = i  OBVIOUS
    <3> QED  BY <2>2, <3>1
  <2> QED  BY <2>1, <2>3, <2>4
<1>6. /\ Readings(t)[0] = 0 /\ Readings(s)[0] = 0
      /\ \A n \in 1 .. k + l : Readings(t)[n] = Shift(Readings(t)[n - 1], t[n])
      /\ \A n \in 1 .. l : Readings(s)[n] = Shift(Readings(s)[n - 1], s[n])
  <2>1. Len(t) \in Nat /\ Len(s) \in Nat  BY <1>4, <1>5
  <2> QED  BY <1>4, <1>5, <2>1, ReadingsAre
<1> DEFINE U == {n \in Nat : n <= k => Readings(t)[n] = 0}
<1>7. Nat \subseteq U
  <2>1. 0 \in U  BY <1>6
  <2>2. ASSUME NEW n \in Nat, n \in U PROVE n + 1 \in U
    <3> SUFFICES ASSUME n + 1 <= k PROVE Readings(t)[n + 1] = 0  OBVIOUS
    <3>1. n + 1 \in 1 .. k + l /\ n + 1 \in 1 .. k /\ n + 1 - 1 = n  OBVIOUS
    <3>2. Readings(t)[n + 1] = Shift(Readings(t)[n + 1 - 1], t[n + 1])  BY <1>6, <3>1
    <3>3. Readings(t)[n] = 0  BY <2>2
    <3>4. Shift(0, 0) = 0  BY Widths, ShiftedBack
    <3> QED  BY <1>5, <3>1, <3>2, <3>3, <3>4
  <2> HIDE DEF U
  <2> QED  BY <2>1, <2>2, Counted
<1> DEFINE T == {n \in Nat : n <= l => Readings(t)[k + n] = Readings(s)[n]}
<1>8. Nat \subseteq T
  <2>1. 0 \in T  BY <1>6, <1>7
  <2>2. ASSUME NEW n \in Nat, n \in T PROVE n + 1 \in T
    <3> SUFFICES ASSUME n + 1 <= l PROVE Readings(t)[k + (n + 1)] = Readings(s)[n + 1]  OBVIOUS
    <3>1. k + (n + 1) \in 1 .. k + l /\ n + 1 \in 1 .. l /\ n + 1 - 1 = n
          /\ k + (n + 1) - 1 = k + n
      OBVIOUS
    <3>2. Readings(t)[k + (n + 1)] = Shift(Readings(t)[k + (n + 1) - 1], t[k + (n + 1)])
      BY <1>6, <3>1
    <3>3. Readings(s)[n + 1] = Shift(Readings(s)[n + 1 - 1], s[n + 1])  BY <1>6, <3>1
    <3>4. Readings(t)[k + n] = Readings(s)[n]  BY <2>2
    <3> QED  BY <1>5, <3>1, <3>2, <3>3, <3>4
  <2> HIDE DEF T
  <2> QED  BY <2>1, <2>2, Counted
<1>9. ValueOf(t) = ValueOf(s)
  <2>1. Readings(t)[k + l] = Readings(s)[l]  BY <1>8
  <2> QED  BY <1>4, <1>5, <2>1 DEF ValueOf
<1> QED  BY <1>1, <1>3, <1>4, <1>5, <1>9

(* The minor units of a major one. *)
LEMMA Majors ==
  /\ minorPerMajor \in Nat \ {0} /\ minorPerMajor = Power[Scale] /\ minorPerMajor - 1 <= MaxInt
  BY Widths, PowerIs, WidthAssumption DEF minorPerMajor

(* The minor units take all their places. *)
LEMMA FractionIs ==
  ASSUME NEW n \in 0 .. minorPerMajor - 1
  PROVE  Fraction(n) \in Seq(Digit) /\ Len(Fraction(n)) = Scale /\ ValueOf(Fraction(n)) = n
<1>1. n \in 0 .. MaxInt + 1 /\ n < Power[Scale]  BY Widths, Majors
<1>2. Scale \in Nat /\ Scale \in 1 .. Scale  BY Widths
<1>3. PICK d \in Seq(Digit) : d = DigitsOf[n]  BY <1>1, DigitsSay DEF Canonical
<1>4. ValueOf(d) = n  BY <1>1, <1>3, DigitsSay
<1>5. Len(d) <= Scale  BY <1>1, <1>2, <1>3, Short
<1>6. PICK k \in Nat : k = Scale - Len(d)  BY <1>2, <1>5
<1>7. /\ Zeros(k) \o d \in Seq(Digit) /\ Len(Zeros(k) \o d) = k + Len(d)
      /\ ValueOf(Zeros(k) \o d) = ValueOf(d)
  BY Padded
<1>8. k + Len(d) = Scale  BY <1>2, <1>6
<1> QED  BY <1>3, <1>4, <1>6, <1>7, <1>8 DEF Fraction

(* And only one spelling takes all of them to say a count. *)
LEMMA FractionOf ==
  ASSUME NEW f \in Seq(Digit), Len(f) = Scale
  PROVE  ValueOf(f) \in 0 .. minorPerMajor - 1 /\ Fraction(ValueOf(f)) = f
<1>1. Len(f) <= Scale /\ ValueOf(f) \in Nat  BY Widths, ValueIs
<1>2. ValueOf(f) < Power[Len(f)]  BY <1>1, Bounded
<1>3. PICK n \in 0 .. minorPerMajor - 1 : n = ValueOf(f)  BY <1>1, <1>2, Majors
<1>4. PICK g \in Seq(Digit) : g = Fraction(n)  BY FractionIs
<1>5. Len(g) = Scale /\ ValueOf(g) = n  BY <1>4, FractionIs
<1>6. g = f  BY <1>3, <1>5, SameSpelling
<1> QED  BY <1>3, <1>4, <1>6

(* A spelling: a count of major units, the point, a count of minor units. *)
Joined(w, f) == w \o <<Point>> \o f

(* The characters of a string. *)
Char == Digit \cup {Point, Other}

(* It, index by index. *)
LEMMA JoinedIs ==
  ASSUME NEW w \in Seq(Digit), NEW f \in Seq(Digit)
  PROVE  /\ Joined(w, f) \in Seq(Digit \cup {Point})
         /\ Len(Joined(w, f)) = Len(w) + 1 + Len(f)
         /\ \A i \in 1 .. Len(w) : Joined(w, f)[i] = w[i]
         /\ Joined(w, f)[Len(w) + 1] = Point
         /\ \A i \in 1 .. Len(f) : Joined(w, f)[Len(w) + 1 + i] = f[i]
<1>1. PICK C : C = Digit \cup {Point}  OBVIOUS
<1>2. PICK p : p = <<Point>>  OBVIOUS
<1>3. p \in Seq(C) /\ Len(p) = 1 /\ p[1] = Point  BY <1>1, <1>2
<1>4. w \in Seq(C) /\ f \in Seq(C)  BY <1>1
<1>5. PICK a : a = w \o p  OBVIOUS
<1>6. /\ a \in Seq(C) /\ Len(a) = Len(w) + 1
      /\ \A i \in 1 .. Len(w) + 1 : a[i] = IF i <= Len(w) THEN w[i] ELSE p[i - Len(w)]
  <2>1. /\ a \in Seq(C) /\ Len(a) = Len(w) + Len(p)
        /\ \A i \in 1 .. Len(w) + Len(p) : a[i] = IF i <= Len(w) THEN w[i] ELSE p[i - Len(w)]
    BY <1>3, <1>4, <1>5, ConcatProperties, Zenon
  <2> QED  BY <1>3, <2>1
<1>7. PICK m \in Nat, n \in Nat : m = Len(w) /\ n = Len(f)  OBVIOUS
<1>8. PICK t : t = a \o f  OBVIOUS
<1>9. /\ t \in Seq(C) /\ Len(t) = m + 1 + n
      /\ \A i \in 1 .. m + 1 + n : t[i] = IF i <= m + 1 THEN a[i] ELSE f[i - (m + 1)]
  <2>1. /\ t \in Seq(C) /\ Len(t) = Len(a) + Len(f)
        /\ \A i \in 1 .. Len(a) + Len(f) : t[i] = IF i <= Len(a) THEN a[i] ELSE f[i - Len(a)]
    BY <1>4, <1>6, <1>8, ConcatProperties, Zenon
  <2> QED  BY <1>6, <1>7, <2>1
<1>10. \A i \in 1 .. m : t[i] = w[i]  BY <1>6, <1>7, <1>9
<1>11. t[m + 1] = Point
  <2>1. m + 1 \in 1 .. m + 1 + n /\ m + 1 \in 1 .. m + 1 /\ ~(m + 1 <= m) /\ m + 1 - m = 1  OBVIOUS
  <2>2. t[m + 1] = a[m + 1]  BY <1>9, <2>1
  <2>3. a[m + 1] = p[m + 1 - m]  BY <1>6, <1>7, <2>1
  <2> QED  BY <1>3, <2>1, <2>2, <2>3
<1>12. ASSUME NEW i \in 1 .. n PROVE t[m + 1 + i] = f[i]
  <2>1. m + 1 + i \in 1 .. m + 1 + n /\ ~(m + 1 + i <= m + 1) /\ m + 1 + i - (m + 1) = i  OBVIOUS
  <2> QED  BY <1>9, <2>1
<1>13. t = Joined(w, f)  BY <1>2, <1>5, <1>8, Zenon DEF Joined
<1> QED  BY <1>1, <1>7, <1>9, <1>10, <1>11, <1>12, <1>13

(* What parseAmount makes of one. *)
Taken(w, f) ==
  IF w = <<>> \/ f = <<>> \/ HasLeadingZero(w) THEN Refused("INVALID_AMOUNT_FORMAT")
  ELSE IF Len(f) # Scale THEN Refused("INVALID_AMOUNT_SCALE")
  ELSE IF ValueOf(w) > MaxInt \/ ~InRange(ValueOf(w), ValueOf(f)) THEN Refused("AMOUNT_OUT_OF_RANGE")
  ELSE Ok(ValueOf(w) * minorPerMajor + ValueOf(f))

(* It does make that of it. *)
LEMMA ParseJoined ==
  ASSUME NEW w \in Seq(Digit), NEW f \in Seq(Digit)
  PROVE  parseAmount(Joined(w, f)) = Taken(w, f)
<1>1. PICK m \in Nat, n \in Nat : m = Len(w) /\ n = Len(f)  OBVIOUS
<1>2. PICK s : s = Joined(w, f)  OBVIOUS
<1>3. /\ s \in Seq(Digit \cup {Point}) /\ Len(s) = m + 1 + n
      /\ \A i \in 1 .. m : s[i] = w[i]
      /\ s[m + 1] = Point
      /\ \A i \in 1 .. n : s[m + 1 + i] = f[i]
  BY <1>1, <1>2, JoinedIs
<1>4. {i \in 1 .. Len(s) : s[i] = Point} = {m + 1}
  <2>1. ASSUME NEW i \in 1 .. m PROVE s[i] # Point  BY <1>1, <1>3, Widths
  <2>2. ASSUME NEW i \in 1 .. Len(s), i > m + 1 PROVE s[i] # Point
    <3>1. PICK j \in 1 .. n : i = m + 1 + j
      <4>1. i - (m + 1) \in 1 .. n /\ i = m + 1 + (i - (m + 1))  BY <1>3, <2>2
      <4> QED  BY <4>1
    <3>2. s[i] = f[j] /\ f[j] \in Digit  BY <1>1, <1>3, <3>1
    <3> QED  BY <3>2, Widths
  <2>3. \A i \in 1 .. Len(s) : i \in 1 .. m \/ i = m + 1 \/ i > m + 1  OBVIOUS
  <2>4. m + 1 \in 1 .. Len(s)  BY <1>3
  <2> QED  BY <1>3, <2>1, <2>2, <2>3, <2>4
<1>5. (CHOOSE i \in {m + 1} : TRUE) = m + 1  OBVIOUS
<1>6. SubSeq(s, 1, m + 1 - 1) = w
  <2>1. PICK a : a = SubSeq(s, 1, m)  OBVIOUS
  <2>2. Len(a) = m /\ (\A i \in 1 .. m : a[i] = s[i]) /\ a \in Seq(Digit \cup {Point})
    BY <1>3, <2>1
  <2>3. w \in Seq(Digit \cup {Point}) /\ Len(w) = m /\ \A i \in 1 .. m : a[i] = w[i]
    BY <1>1, <1>3, <2>2
  <2>4. a = w  BY <2>2, <2>3, SeqEqual
  <2>5. m + 1 - 1 = m  OBVIOUS
  <2> QED  BY <2>1, <2>4, <2>5
<1>7. SubSeq(s, m + 1 + 1, Len(s)) = f
  <2>1. PICK a : a = SubSeq(s, m + 1 + 1, m + 1 + n)  OBVIOUS
  <2>2. Len(a) = n /\ (\A i \in 1 .. n : a[i] = s[m + 1 + 1 + i - 1]) /\ a \in Seq(Digit \cup {Point})
    BY <1>3, <2>1
  <2>3. f \in Seq(Digit \cup {Point}) /\ Len(f) = n  BY <1>1
  <2>4. ASSUME NEW i \in 1 .. n PROVE a[i] = f[i]
    <3>1. m + 1 + 1 + i - 1 = m + 1 + i  OBVIOUS
    <3> QED  BY <1>3, <2>2, <3>1
  <2>5. a = f  BY <2>2, <2>3, <2>4, SeqEqual
  <2> QED  BY <1>3, <2>1, <2>5
<1>8. \A i \in 1 .. Len(s) : s[i] \in Digit \cup {Point}  BY <1>3
<1>9. s # <<>>  BY <1>3
<1>10. m + 1 \in Nat /\ {m + 1} # {} /\ \A i, j \in {m + 1} : ~(i # j)  OBVIOUS
<1>11. PICK k : k = m + 1  OBVIOUS
<1>12. parseAmount(s) = Taken(w, f)
  <2> HIDE DEF Refused, Ok
  <2>1. /\ {i \in 1 .. Len(s) : s[i] = Point} = {k} /\ (CHOOSE i \in {k} : TRUE) = k
        /\ SubSeq(s, 1, k - 1) = w /\ SubSeq(s, k + 1, Len(s)) = f
        /\ {k} # {} /\ \A i, j \in {k} : ~(i # j)
    BY <1>4, <1>5, <1>6, <1>7, <1>10, <1>11
  <2> QED  BY <1>8, <1>9, <2>1 DEF parseAmount, Taken
<1> QED  BY <1>2, <1>12

(* What parseAmount takes is one. *)
LEMMA TakenIsJoined ==
  ASSUME NEW s \in Seq(Char), parseAmount(s).ok
  PROVE  \E w, f \in Seq(Digit) : s = Joined(w, f)
<1>1. PICK dots : dots = {i \in 1 .. Len(s) : s[i] = Point}  OBVIOUS
<1>2. s # <<>> /\ (\A i \in 1 .. Len(s) : s[i] \in Digit \cup {Point}) /\ \A i, j \in dots : i = j
  BY <1>1 DEF parseAmount, Refused
<1>3. dots # {}
  <2> SUFFICES ASSUME dots = {} PROVE FALSE  OBVIOUS
  <2>1. Len(<<>>) # Scale  BY Widths
  <2> QED  BY <1>1, <2>1 DEF parseAmount, Refused
<1>4. PICK l \in Nat : l = Len(s)  OBVIOUS
<1>5. PICK k \in 1 .. l : k \in dots  BY <1>1, <1>3, <1>4
<1>6. s[k] = Point /\ \A i \in 1 .. l : i # k => s[i] \in Digit
  BY <1>1, <1>2, <1>4, <1>5
<1>7. PICK w : w = [i \in 1 .. k - 1 |-> s[i]]  OBVIOUS
<1>8. PICK f : f = [i \in 1 .. l - k |-> s[k + i]]  OBVIOUS
<1>9. w \in Seq(Digit) /\ Len(w) = k - 1 /\ \A i \in 1 .. k - 1 : w[i] = s[i]
  BY <1>4, <1>5, <1>6, <1>7
<1>10. f \in Seq(Digit) /\ Len(f) = l - k /\ \A i \in 1 .. l - k : f[i] = s[k + i]
  <2>1. \A i \in 1 .. l - k : f[i] \in Digit /\ f[i] = s[k + i]
    BY <1>4, <1>5, <1>6, <1>8
  <2>2. l - k \in Nat /\ DOMAIN f = 1 .. l - k  BY <1>5, <1>8
  <2>3. f = [i \in 1 .. l - k |-> f[i]]  BY <1>8, <2>2
  <2>4. f \in [1 .. l - k -> Digit]  BY <2>1, <2>3
  <2>5. f \in Seq(Digit)  BY <2>2, <2>4
  <2>6. Len(f) = l - k  BY <2>2, <2>5
  <2> QED  BY <2>1, <2>5, <2>6
<1>11. PICK t : t = Joined(w, f)  OBVIOUS
<1>12. /\ t \in Seq(Digit \cup {Point})
       /\ Len(t) = Len(w) + 1 + Len(f)
       /\ \A i \in 1 .. Len(w) : t[i] = w[i]
       /\ t[Len(w) + 1] = Point
       /\ \A i \in 1 .. Len(f) : t[Len(w) + 1 + i] = f[i]
  BY <1>9, <1>10, <1>11, JoinedIs
<1>13. Len(t) = l /\ Len(w) + 1 = k  BY <1>4, <1>5, <1>9, <1>10, <1>12
<1>14. ASSUME NEW i \in 1 .. l PROVE t[i] = s[i]
  <2>1. CASE i < k  BY <1>5, <1>9, <1>12, <2>1
  <2>2. CASE i = k  BY <1>6, <1>12, <1>13, <2>2
  <2>3. CASE i > k
    <3>1. PICK j \in 1 .. l - k : i = k + j
      <4>1. i - k \in 1 .. l - k /\ i = k + (i - k)  BY <1>5, <2>3
      <4> QED  BY <4>1
    <3> QED  BY <1>10, <1>12, <1>13, <3>1
  <2> QED  BY <1>5, <2>1, <2>2, <2>3
<1>15. t \in Seq(Char)  BY <1>12 DEF Char
<1>16. s = t  BY <1>4, <1>13, <1>14, <1>15, SeqEqual
<1> QED  BY <1>9, <1>10, <1>11, <1>16

(* The test made without leaving the range is the one meant. *)
LEMMA RangeIs ==
  ASSUME NEW M \in Nat, NEW m \in 0 .. minorPerMajor - 1
  PROVE  InRange(M, m) <=> M * minorPerMajor + m <= MaxInt
<1>1. PICK P \in Nat \ {0} : P = minorPerMajor /\ P - 1 <= MaxInt /\ MaxInt \in Nat  BY Majors, Widths
<1>2. PICK a \in Nat : a = MaxInt - m
  <2>1. MaxInt - m \in Nat  BY <1>1
  <2> QED  BY <2>1
<1>3. PICK q \in Nat, r \in 0 .. P - 1 : q = a \div P /\ a = q * P + r  BY Divided
<1>4. M <= q <=> M * P <= a
  <2>1. M <= q => M * P <= q * P  OBVIOUS
  <2>2. M >= q + 1 => M * P >= (q + 1) * P  OBVIOUS
  <2>3. (q + 1) * P = q * P + P  OBVIOUS
  <2>4. M * P \in Nat /\ q * P \in Nat  OBVIOUS
  <2> QED  BY <1>3, <2>1, <2>2, <2>3, <2>4
<1>5. M * P \in Nat  OBVIOUS
<1> QED  BY <1>1, <1>2, <1>3, <1>4, <1>5 DEF InRange

(* Where the units fit so do the major ones, so the code's first test      *)
(* refuses nothing the second would not.                                   *)
LEMMA MajorsFit ==
  ASSUME NEW M \in Nat, NEW m \in 0 .. minorPerMajor - 1, M * minorPerMajor + m <= MaxInt
  PROVE  M <= MaxInt
<1>1. PICK P \in Nat \ {0} : P = minorPerMajor  BY Majors
<1>2. M * P >= M /\ M * P \in Nat  OBVIOUS
<1> QED  BY <1>1, <1>2, Widths

(* An amount as it is spelled: its major and its minor units. *)
LEMMA AmountIs ==
  ASSUME NEW u \in 0 .. MaxInt, NEW c
  PROVE  /\ u \div minorPerMajor \in 0 .. MaxInt /\ u % minorPerMajor \in 0 .. minorPerMajor - 1
         /\ u = (u \div minorPerMajor) * minorPerMajor + (u % minorPerMajor)
         /\ Amount(Money(u, c)) = Joined(DigitsOf[u \div minorPerMajor], Fraction(u % minorPerMajor))
<1>1. PICK P \in Nat \ {0} : P = minorPerMajor  BY Majors
<1>2. u \in Nat /\ ~(u < 0)  BY Widths
<1>3. PICK q \in Nat, r \in 0 .. P - 1 : q = u \div P /\ r = u % P /\ u = q * P + r
  <2>1. u \div P \in Nat /\ u % P \in 0 .. P - 1 /\ u = (u \div P) * P + (u % P)
    BY <1>2, Divided
  <2> QED  BY <2>1
<1>4. q * P >= q /\ q * P \in Nat  OBVIOUS
<1>5. q \in 0 .. MaxInt  BY <1>2, <1>3, <1>4, Widths
<1>6. PICK w \in Seq(Digit) : w = DigitsOf[q]
  <2>1. q \in 0 .. MaxInt + 1  BY <1>5, Widths
  <2> QED  BY <2>1, DigitsSay DEF Canonical
<1>7. Money(u, c).units = u  BY DEF Money
<1>8. Amount(Money(u, c)) = <<>> \o w \o <<Point>> \o Fraction(r)
  BY <1>1, <1>2, <1>3, <1>6, <1>7 DEF Amount
<1>9. <<>> \o w = w  BY ConcatEmptySeq
<1>10. Amount(Money(u, c)) = Joined(w, Fraction(r))  BY <1>8, <1>9 DEF Joined
<1> QED  BY <1>1, <1>3, <1>5, <1>6, <1>10

(* What is spelled is parsed as what it was. *)
LEMMA ParseOfAmount ==
  ASSUME NEW u \in 0 .. MaxInt, NEW c
  PROVE  parseAmount(Amount(Money(u, c))) = Ok(u)
<1>1. PICK P \in Nat \ {0} : P = minorPerMajor  BY Majors
<1>2. PICK q \in 0 .. MaxInt, r \in 0 .. P - 1 :
        /\ u = q * P + r
        /\ Amount(Money(u, c)) = Joined(DigitsOf[q], Fraction(r))
  BY <1>1, AmountIs
<1>3. PICK w \in Seq(Digit), f \in Seq(Digit) : w = DigitsOf[q] /\ f = Fraction(r)
  <2>1. q \in 0 .. MaxInt + 1  BY Widths
  <2> QED  BY <1>1, <2>1, DigitsSay, FractionIs DEF Canonical
<1>4. Canonical(w) /\ ValueOf(w) = q
  <2>1. q \in 0 .. MaxInt + 1  BY Widths
  <2> QED  BY <1>3, <2>1, DigitsSay
<1>5. Len(f) = Scale /\ ValueOf(f) = r  BY <1>1, <1>3, FractionIs
<1>6. InRange(q, r)  BY <1>1, <1>2, RangeIs, Widths
<1>7. w # <<>> /\ f # <<>> /\ ~HasLeadingZero(w)
  <2>1. Len(w) > 0 /\ Len(f) > 0  BY <1>4, <1>5, Widths DEF Canonical
  <2> QED  BY <1>4, <2>1 DEF Canonical, HasLeadingZero
<1>8. ~(q > MaxInt)  BY Widths
<1>9. Taken(w, f) = Ok(u)  BY <1>1, <1>2, <1>4, <1>5, <1>6, <1>7, <1>8 DEF Taken
<1> QED  BY <1>2, <1>3, <1>9, ParseJoined

(* What is parsed is the spelling of what it is parsed as. *)
LEMMA AmountOfParse ==
  ASSUME NEW s \in Seq(Char), parseAmount(s).ok, NEW c
  PROVE  parseAmount(s).value \in 0 .. MaxInt /\ Amount(Money(parseAmount(s).value, c)) = s
<1>1. PICK w \in Seq(Digit), f \in Seq(Digit) : s = Joined(w, f)  BY TakenIsJoined
<1>2. PICK P \in Nat \ {0} : P = minorPerMajor  BY Majors
<1>3. PICK q \in Nat, r \in Nat : q = ValueOf(w) /\ r = ValueOf(f)  BY ValueIs
<1>4. parseAmount(s) = Taken(w, f)  BY <1>1, ParseJoined
<1>5. /\ w # <<>> /\ ~HasLeadingZero(w) /\ Len(f) = Scale /\ InRange(q, r)
      /\ parseAmount(s).value = q * P + r
  BY <1>2, <1>3, <1>4 DEF Taken, Refused, Ok
<1>6. r \in 0 .. P - 1 /\ Fraction(r) = f  BY <1>2, <1>3, <1>5, FractionOf
<1>7. q * P + r <= MaxInt  BY <1>2, <1>5, <1>6, RangeIs
<1>8. q <= MaxInt  BY <1>2, <1>6, <1>7, MajorsFit
<1>9. PICK u \in 0 .. MaxInt : u = q * P + r
  <2>1. q * P \in Nat  OBVIOUS
  <2>2. q * P + r \in 0 .. MaxInt  BY <1>7, <2>1, Widths
  <2> QED  BY <2>2
<1>10. Canonical(w)
  <2>1. Len(w) > 0  BY <1>5, EmptySeq
  <2> QED  BY <1>5, <2>1 DEF Canonical, HasLeadingZero
<1>11. DigitsOf[q] = w
  <2>1. ValueOf(w) <= MaxInt + 1  BY <1>3, <1>8, Widths
  <2> QED  BY <1>3, <1>10, <2>1, Respelt
<1>12. u \div P = q /\ u % P = r  BY <1>6, <1>9, Undivided
<1>13. Amount(Money(u, c)) = Joined(DigitsOf[u \div minorPerMajor], Fraction(u % minorPerMajor))
  BY AmountIs
<1>14. Amount(Money(u, c)) = s  BY <1>1, <1>2, <1>6, <1>11, <1>12, <1>13
<1> QED  BY <1>5, <1>9, <1>14

(* An amount with a currency, or none. *)
LEMMA ValuesAre ==
  ASSUME NEW m \in Values
  PROVE  /\ m.units \in Int /\ m.units \in Ints
         /\ m = Money(m.units, m.currency)
         /\ IsUninitialized(m) => m = Uninitialized
         /\ ~IsUninitialized(m) => m.currency \in Supported
<1>1. 0 \in Ints  BY Widths DEF Ints, MinInt
<1>2. CASE m = Uninitialized  BY <1>1, <1>2, Widths DEF Uninitialized, Money, IsUninitialized
<1>3. ASSUME NEW u \in Ints, NEW c \in Supported, m = Money(u, c)
      PROVE  /\ m.units \in Int /\ m.units \in Ints
             /\ m = Money(m.units, m.currency)
             /\ ~IsUninitialized(m) /\ m.currency \in Supported
  BY <1>3, Widths, MoneyAssumption DEF Money, IsUninitialized
<1>4. m = Uninitialized \/ \E u \in Ints, c \in Supported : m = Money(u, c)  BY DEF Values
<1> QED  BY <1>2, <1>3, <1>4

(* What is parsed is a string of characters. *)
LEMMA StringsAre == \A s \in Strings : s \in Seq(Char)
<1>1. ASSUME NEW n \in 0 .. MaxLength, NEW s \in [1 .. n -> Digit \cup {Point, Other}]
      PROVE  s \in Seq(Char)
  <2>1. n \in Nat  BY CallsAssumption
  <2> QED  BY <2>1 DEF Char
<1> QED  BY <1>1 DEF Strings

(* The codes a result may carry are none of them the absence of one. *)
LEMMA CompatibleIs ==
  ASSUME NEW m \in Values, NEW n \in Values
  PROVE  compatible(m, n) = None <=> ~IsUninitialized(m) /\ m.currency = n.currency
  BY MoneyAssumption DEF compatible, IsUninitialized

(* Parse: every amount has one spelling, and nothing else is one. *)
LEMMA ParseExact ==
  ASSUME NEW s \in Strings, NEW c \in Codes,
         did' = [op |-> "parse", s |-> s, c |-> c, r |-> Parse(s, c)]
  PROVE  AmountsAreExact'
<1>1. s \in Seq(Char)  BY StringsAre
<1> DEFINE spelt == {m \in Values : m.currency = c /\ m.units >= 0 /\ Amount(m) = s}
<1>2. ASSUME NEW m \in spelt
      PROVE  /\ c \in Supported /\ m = Money(m.units, c)
             /\ parseAmount(s) = Ok(m.units)
  <2>1. m \in Values /\ m.currency = c /\ m.units >= 0 /\ Amount(m) = s  OBVIOUS
  <2>2. c # None  BY CallsAssumption, MoneyAssumption DEF Codes
  <2>3. m = Money(m.units, c) /\ c \in Supported /\ m.units \in Ints
    BY <2>1, <2>2, ValuesAre DEF IsUninitialized
  <2>4. PICK u \in 0 .. MaxInt : u = m.units  BY <2>1, <2>3, Widths
  <2>5. parseAmount(Amount(Money(u, c))) = Ok(u)  BY ParseOfAmount
  <2> QED  BY <2>1, <2>3, <2>4, <2>5
<1>3. CASE c \in Supported /\ parseAmount(s).ok
  <2>1. PICK v \in 0 .. MaxInt : v = parseAmount(s).value /\ Amount(Money(v, c)) = s
    BY <1>1, <1>3, AmountOfParse
  <2>2. Money(v, c) \in Values
    <3>1. v \in Ints  BY Widths DEF Ints, MinInt
    <3> QED  BY <1>3, <3>1 DEF Values
  <2>3. Money(v, c).currency = c /\ Money(v, c).units = v  BY DEF Money
  <2>4. v >= 0  BY Widths
  <2>5. Money(v, c) \in spelt  BY <2>1, <2>2, <2>3, <2>4
  <2>6. ASSUME NEW m \in spelt PROVE m = Money(v, c)
    <3>1. m = Money(m.units, c) /\ parseAmount(s) = Ok(m.units)  BY <1>2
    <3>2. m.units = v  BY <2>1, <3>1 DEF Ok
    <3> QED  BY <3>1, <3>2
  <2>7. spelt = {Money(v, c)}  BY <2>5, <2>6
  <2>8. did'.r = Ok(Money(v, c))  BY <1>3, <2>1 DEF Parse, ParseCurrency
  <2> HIDE DEF spelt
  <2>9. spelt # {} /\ did'.r.ok /\ spelt = {did'.r.value}  BY <2>7, <2>8 DEF Ok
  <2> QED  BY <2>9 DEF AmountsAreExact, spelt
<1>4. CASE ~(c \in Supported /\ parseAmount(s).ok)
  <2>1. ~did'.r.ok  BY <1>4 DEF Parse, ParseCurrency, Refused
  <2>2. spelt = {}  BY <1>2, <1>4 DEF Ok
  <2> QED  BY <2>1, <2>2 DEF AmountsAreExact
<1> QED  BY <1>3, <1>4

(* Add: the test for leaving the range does not leave it. *)
LEMMA AddExact ==
  ASSUME NEW m \in Values, NEW n \in Values,
         did' = [op |-> "add", m |-> m, n |-> n, r |-> Add(m, n)]
  PROVE  AmountsAreExact'
<1>1. PICK u \in Ints, v \in Ints : u = m.units /\ v = n.units  BY ValuesAre
<1>2. PICK sum \in Int : sum = u + v  BY Widths
<1>3. \/ v > 0 /\ u > MaxInt - v
      \/ v < 0 /\ u < MinInt - v
      <=> sum \notin Ints
  BY <1>2, Widths DEF Ints, MinInt
<1>4. Exact(m, n, Add(m, n), sum)
  BY <1>1, <1>2, <1>3, CompatibleIs DEF Exact, Add, Refused, Ok
<1> QED  BY <1>1, <1>2, <1>4 DEF AmountsAreExact

(* Sub. *)
LEMMA SubExact ==
  ASSUME NEW m \in Values, NEW n \in Values,
         did' = [op |-> "sub", m |-> m, n |-> n, r |-> Sub(m, n)]
  PROVE  AmountsAreExact'
<1>1. PICK u \in Ints, v \in Ints : u = m.units /\ v = n.units  BY ValuesAre
<1>2. PICK difference \in Int : difference = u - v  BY Widths
<1>3. \/ v < 0 /\ u > MaxInt + v
      \/ v > 0 /\ u < MinInt + v
      <=> difference \notin Ints
  BY <1>2, Widths DEF Ints, MinInt
<1>4. Exact(m, n, Sub(m, n), difference)
  BY <1>1, <1>2, <1>3, CompatibleIs DEF Exact, Sub, Refused, Ok
<1> QED  BY <1>1, <1>2, <1>4 DEF AmountsAreExact

(* Neg: only the smallest amount has no opposite. *)
LEMMA NegExact ==
  ASSUME NEW m \in Values, did' = [op |-> "neg", m |-> m, r |-> Neg(m)]
  PROVE  AmountsAreExact'
<1>1. PICK u \in Ints : u = m.units  BY ValuesAre
<1>2. u = MinInt <=> -u \notin Ints  BY Widths DEF Ints, MinInt
<1>3. Exact(m, m, Neg(m), -u)  BY <1>1, <1>2 DEF Exact, Neg, Refused, Ok
<1> QED  BY <1>1, <1>3 DEF AmountsAreExact

(* Cmp is 0 on what Equal holds of. *)
LEMMA CmpExact ==
  ASSUME NEW m \in Values, NEW n \in Values,
         did' = [op |-> "cmp", m |-> m, n |-> n, r |-> Cmp(m, n), eq |-> Equal(m, n)]
  PROVE  AmountsAreExact'
<1>1. PICK u \in Int, v \in Int : u = m.units /\ v = n.units  BY ValuesAre
<1>2. m = Money(u, m.currency) /\ n = Money(v, n.currency)  BY <1>1, ValuesAre
<1>3. Equal(m, n) <=> compatible(m, n) = None /\ u = v
  <2>1. m = n <=> u = v /\ m.currency = n.currency  BY <1>1, <1>2
  <2> QED  BY <2>1, CompatibleIs DEF Equal, IsUninitialized
<1>4. (Cmp(m, n).ok /\ Cmp(m, n).value = 0) <=> compatible(m, n) = None /\ u = v
  BY <1>1 DEF Cmp, Refused, Ok
<1>5. (Cmp(m, n).ok /\ Cmp(m, n).value = 0) \in BOOLEAN /\ Equal(m, n) \in BOOLEAN
  BY DEF Equal
<1> QED  BY <1>3, <1>4, <1>5 DEF AmountsAreExact

(* What MarshalJSON writes UnmarshalJSON reads as the same money. *)
LEMMA WriteExact ==
  ASSUME NEW m \in Values, did' = [op |-> "write", m |-> m, r |-> MarshalJSON(m)]
  PROVE  AmountsAreExact'
<1>1. PICK u \in Ints : u = m.units  BY ValuesAre
<1>2. PICK c : c = m.currency  OBVIOUS
<1>3. m = Money(u, c)  BY <1>1, <1>2, ValuesAre
<1>4. MarshalJSON(m).ok = (~IsUninitialized(m) /\ m.units >= 0)
  <2>1. u < 0 <=> ~(u >= 0)  BY Widths
  <2>2. CASE IsUninitialized(m)  BY <2>2 DEF MarshalJSON, Refused
  <2>3. CASE ~IsUninitialized(m) /\ u < 0  BY <1>1, <2>1, <2>3 DEF MarshalJSON, Refused
  <2>4. CASE ~IsUninitialized(m) /\ ~(u < 0)  BY <1>1, <2>1, <2>4 DEF MarshalJSON, Ok
  <2> QED  BY <2>2, <2>3, <2>4
<1>5. ASSUME MarshalJSON(m).ok PROVE UnmarshalJSON(MarshalJSON(m).value) = Ok(m)
  <2>1. ~IsUninitialized(m) /\ u >= 0  BY <1>1, <1>4, <1>5
  <2>2. c \in Supported  BY <1>2, <2>1, ValuesAre
  <2>3. u \in 0 .. MaxInt  BY <2>1, Widths
  <2>4. parseAmount(Amount(m)) = Ok(u)  BY <1>3, <2>3, ParseOfAmount
  <2>5. MarshalJSON(m).value = [amount |-> Amount(m), currency |-> c]
    BY <1>1, <1>2, <2>1, Widths DEF MarshalJSON, Ok
  <2>6. Parse(Amount(m), c) = Ok(m)  BY <1>3, <2>2, <2>4 DEF Parse, ParseCurrency, Ok
  <2> QED  BY <2>5, <2>6 DEF UnmarshalJSON
<1> QED  BY <1>4, <1>5 DEF AmountsAreExact

(* Amounts are exact or refused. *)
THEOREM AmountsExact == MoneySpec => []AmountsAreExact
<1>1. MoneyInit => AmountsAreExact  BY DEF MoneyInit, Idle, AmountsAreExact
<1>2. AmountsAreExact /\ [Calculate]_did => AmountsAreExact'
  <2> SUFFICES ASSUME AmountsAreExact, [Calculate]_did PROVE AmountsAreExact'  OBVIOUS
  <2>1. CASE did' = Idle  BY <2>1 DEF Idle, AmountsAreExact
  <2>2. CASE Reading  BY <2>2, ParseExact DEF Reading
  <2>3. CASE Adding  BY <2>3, AddExact DEF Adding
  <2>4. CASE Subtracting  BY <2>4, SubExact DEF Subtracting
  <2>5. CASE Negating  BY <2>5, NegExact DEF Negating
  <2>6. CASE Comparing  BY <2>6, CmpExact DEF Comparing
  <2>7. CASE Writing  BY <2>7, WriteExact DEF Writing
  <2>8. CASE UNCHANGED did  BY <2>8 DEF AmountsAreExact
  <2> QED  BY <2>1, <2>2, <2>3, <2>4, <2>5, <2>6, <2>7, <2>8 DEF Calculate
<1> QED  BY <1>1, <1>2, PTL DEF MoneySpec

-----------------------------------------------------------------------------
(* The record of an operation. *)

(* What the schema asks of a row that the type can see. *)
Visible(r) ==
  /\ r.kind \in D!Kinds /\ r.status \in D!Statuses
  /\ r.player # "malformed" /\ r.provider # "malformed" /\ r.own # "malformed"
  /\ r.named # "malformed" /\ r.currency # "malformed"
  /\ IF r.kind = "OPENING" THEN r.provider = NULL /\ r.own = NULL /\ r.hash = NULL
     ELSE r.provider # NULL /\ r.own # NULL /\ r.hash # NULL
  /\ r.kind # "OPENING" \/ r.status = "PROCESSED"
  /\ IF r.kind = "LOSS" THEN r.amount = 0 ELSE r.amount > 0
  /\ IF r.kind \in {"REFUND", "ROLLBACK"} THEN r.named # NULL ELSE r.kind = "WIN" \/ r.named = NULL
  /\ r.named = NULL \/ r.named # r.own
  /\ r.resolved = NULL \/ r.named # NULL
  /\ (r.status = "PROCESSED") = (r.result # NULL)
  /\ r.result = NULL \/ r.result >= 0
  /\ (r.status = "REJECTED") = (r.code # NULL)
  /\ r.code \in Settling \cup {NULL}
  /\ r.attempts >= 0
  /\ (r.attempts > 0) = (r.deadline # NULL)
  /\ r.status = "PENDING_REFERENCE" => r.attempts > 0
  /\ (r.status = "PENDING_REFERENCE") = (r.next # NULL)

(* The three columns of an operation's origin: none is set, or all are. *)
LEMMA Columns ==
  ASSUME NEW r
  PROVE  /\ Count(r, {"provider", "own", "hash"}) = 0
              <=> r.provider = NULL /\ r.own = NULL /\ r.hash = NULL
         /\ Count(r, {"provider", "own", "hash"}) = 3
              <=> r.provider # NULL /\ r.own # NULL /\ r.hash # NULL
<1> DEFINE C == {"provider", "own", "hash"}
<1> DEFINE S == {c \in C : r[c] # NULL}
<1>1. IsFiniteSet(C) /\ Cardinality(C) = 3
  <2>1. IsFiniteSet({}) /\ Cardinality({}) = 0  BY FS_EmptySet
  <2>2. IsFiniteSet({"provider"}) /\ Cardinality({"provider"}) = 1
    <3>1. {"provider"} = {} \cup {"provider"}  OBVIOUS
    <3> QED  BY <2>1, <3>1, FS_AddElement
  <2>3. IsFiniteSet({"provider", "own"}) /\ Cardinality({"provider", "own"}) = 2
    <3>1. PICK one : one = {"provider"}  OBVIOUS
    <3>2. {"provider", "own"} = one \cup {"own"} /\ "own" \notin one  BY <3>1
    <3>3. IsFiniteSet(one) /\ Cardinality(one) = 1  BY <2>2, <3>1
    <3>4. IsFiniteSet(one \cup {"own"}) /\ Cardinality(one \cup {"own"}) = 1 + 1
      BY <3>2, <3>3, FS_AddElement
    <3> QED  BY <3>2, <3>4
  <2>4. C = {"provider", "own"} \cup {"hash"} /\ "hash" \notin {"provider", "own"}  OBVIOUS
  <2> QED  BY <2>3, <2>4, FS_AddElement
<1>2. S \in SUBSET C /\ IsFiniteSet(S)  BY <1>1, FS_Subset
<1>3. Cardinality(S) = 0 <=> S = {}  BY <1>2, FS_EmptySet
<1>4. Cardinality(S) = 3 <=> S = C  BY <1>1, <1>2, FS_Subset
<1>5. Count(r, C) = Cardinality(S)  BY DEF Count
<1>6. S = {} <=> r.provider = NULL /\ r.own = NULL /\ r.hash = NULL  OBVIOUS
<1>7. S = C <=> r.provider # NULL /\ r.own # NULL /\ r.hash # NULL  OBVIOUS
<1> HIDE DEF S
<1> QED  BY <1>3, <1>4, <1>5, <1>6, <1>7

(* The constraints the type can see say together what Visible says, and    *)
(* one of the others orders the two instants.                              *)
LEMMA SchemaSays ==
  ASSUME NEW r, NEW w
  PROVE  /\ Broken(r, w) \subseteq BeyondTheType <=> Visible(r)
         /\ Broken(r, w) = {} => r.updated >= r.created
<1> DEFINE h == Holds(r, w)
<1> DEFINE V ==
          {"kind_is_known", "status_is_known", "opaque_id", "currency_code", "origin_carries_its_fields",
           "opening_is_born_processed", "amount_follows_kind", "reference_follows_kind",
           "does_not_reference_itself", "resolves_only_what_it_names",
           "processed_reports_a_balance", "result_is_never_negative", "rejected_names_a_code",
           "settling_code_fkey", "attempts_are_never_negative", "deadline_accompanies_attempts",
           "waiting_has_waited", "only_waiting_is_scheduled"}
<1>1. DOMAIN h \ BeyondTheType = V /\ "updated_at_follows_created_at" \in DOMAIN h
  <2>1. DOMAIN h = V \cup {"processed_reversal_is_resolved", "updated_at_follows_created_at",
                            "processed_in_wallet_currency", "wallet_fkey", "provider_external_key",
                            "resolved_reference_fkey", "resolves_the_one_it_names"}
    BY DEF Holds
  <2> QED  BY <2>1 DEF BeyondTheType
<1>2. /\ h["kind_is_known"] = (r.kind \in D!Kinds)
      /\ h["status_is_known"] = (r.status \in D!Statuses)
      /\ h["opaque_id"] = \A c \in {"player", "provider", "own", "named"} : r[c] # "malformed"
      /\ h["currency_code"] = (r.currency # "malformed")
      /\ h["origin_carries_its_fields"] =
           (Count(r, {"provider", "own", "hash"}) = IF r.kind = "OPENING" THEN 0 ELSE 3)
      /\ h["opening_is_born_processed"] = (r.kind # "OPENING" \/ r.status = "PROCESSED")
  BY DEF Holds, opaque_id, currency_code
<1>3. /\ h["amount_follows_kind"] = (IF r.kind = "LOSS" THEN r.amount = 0 ELSE r.amount > 0)
      /\ h["reference_follows_kind"] =
           (IF r.kind \in {"REFUND", "ROLLBACK"} THEN r.named # NULL ELSE r.kind = "WIN" \/ r.named = NULL)
      /\ h["does_not_reference_itself"] = (r.named = NULL \/ r.named # r.own)
      /\ h["resolves_only_what_it_names"] = (r.resolved = NULL \/ r.named # NULL)
  BY DEF Holds, D!IsReversal
<1>4. /\ h["processed_reports_a_balance"] = ((r.status = "PROCESSED") = (r.result # NULL))
      /\ h["result_is_never_negative"] = (r.result = NULL \/ r.result >= 0)
      /\ h["rejected_names_a_code"] = ((r.status = "REJECTED") = (r.code # NULL))
      /\ h["settling_code_fkey"] = (r.code \in Settling \cup {NULL})
  BY DEF Holds
<1>5. /\ h["attempts_are_never_negative"] = (r.attempts >= 0)
      /\ h["deadline_accompanies_attempts"] = ((r.attempts > 0) = (r.deadline # NULL))
      /\ h["waiting_has_waited"] = (r.status = "PENDING_REFERENCE" => r.attempts > 0)
      /\ h["only_waiting_is_scheduled"] = ((r.status = "PENDING_REFERENCE") = (r.next # NULL))
      /\ h["updated_at_follows_created_at"] = (r.updated >= r.created)
  BY DEF Holds
<1>6. Broken(r, w) = {c \in DOMAIN h : ~h[c]}  BY DEF Broken
<1> HIDE DEF h
<1>7. Broken(r, w) \subseteq BeyondTheType <=> \A c \in DOMAIN h \ BeyondTheType : h[c]
  BY <1>6
<1>8. (\A c \in DOMAIN h \ BeyondTheType : h[c]) <=> Visible(r)
  <2>1. (\A c \in {"player", "provider", "own", "named"} : r[c] # "malformed")
          <=> /\ r.player # "malformed" /\ r.provider # "malformed"
              /\ r.own # "malformed" /\ r.named # "malformed"
    OBVIOUS
  <2>2. (Count(r, {"provider", "own", "hash"}) = IF r.kind = "OPENING" THEN 0 ELSE 3)
          <=> IF r.kind = "OPENING" THEN r.provider = NULL /\ r.own = NULL /\ r.hash = NULL
              ELSE r.provider # NULL /\ r.own # NULL /\ r.hash # NULL
    BY Columns
  <2>3. (\A c \in V : h[c]) <=>
         /\ h["kind_is_known"] /\ h["status_is_known"]
         /\ h["opaque_id"] /\ h["currency_code"] /\ h["origin_carries_its_fields"]
         /\ h["opening_is_born_processed"] /\ h["amount_follows_kind"]
         /\ h["reference_follows_kind"] /\ h["does_not_reference_itself"]
         /\ h["resolves_only_what_it_names"] /\ h["processed_reports_a_balance"]
         /\ h["result_is_never_negative"] /\ h["rejected_names_a_code"]
         /\ h["settling_code_fkey"] /\ h["attempts_are_never_negative"]
         /\ h["deadline_accompanies_attempts"] /\ h["waiting_has_waited"]
         /\ h["only_waiting_is_scheduled"]
    OBVIOUS
  <2> HIDE DEF V
  <2> QED  BY <1>2, <1>3, <1>4, <1>5, <2>1, <2>2, <2>3, <1>1 DEF Visible
<1>9. Broken(r, w) = {} => h["updated_at_follows_created_at"]  BY <1>1, <1>6
<1> QED  BY <1>5, <1>7, <1>8, <1>9

(* What a transaction is made of. *)
Transactions ==
  [id : {"id"}, player : Names, kind : D!Kinds, amount : Sums, status : D!Statuses,
   created : Int, updated : Int,
   external : Externals \cup {Nil}, result : Sums \cup {Nil}, code : FailureCodes \cup {Nil},
   attempts : Int, deadline : Nat]

(* A transaction its type lets stand: what RehydrateWagerTransaction asks,  *)
(* the order of the two instants apart.                                     *)
Sound(t) ==
  /\ t \in Transactions /\ Good(t.player) /\ t.created # 0 /\ t.updated # 0
  /\ validateOrigin(t) /\ checkAmount(t.kind, t.amount) /\ validateSettlement(t)
  /\ validateReference(t) /\ validateWaitBudget(t)

(* t goes on from s: what a transaction is born with does not change, a    *)
(* resolved reference stays and so does a final status.                    *)
Follows(t, s) ==
  /\ t.id = s.id /\ t.player = s.player
  /\ t.kind = s.kind /\ t.amount = s.amount /\ t.created = s.created
  /\ IF s.external = Nil THEN t.external = Nil
     ELSE /\ t.external # Nil
          /\ t.external = [s.external EXCEPT !.resolved = t.external.resolved]
          /\ s.external.resolved \in {Nil, t.external.resolved}
  /\ D!IsTerminal(s.status) => t.status = s.status

(* The strengthening: what the row holds the schema let in; what is in      *)
(* memory is sound and goes on from the row; the row is what was last       *)
(* written; and neither is met with a row the schema is coarser about.      *)
RecordInv ==
  /\ clock \in Nat \ {0}
  /\ row # NULL => row \in Rows /\ Broken(row, wallet) = {}
  /\ tx # Nil => Sound(tx) /\ row # NULL /\ ~Coarser(row) /\ Follows(tx, Snapshot(row))
  /\ stored # Nil => row # NULL /\ ~Coarser(row) /\ Snapshot(row) = stored
  /\ refused \subseteq BeyondTheType

(* A row that keeps the constraints is rebuilt where they are not coarser:  *)
(* RehydrateWagerTransaction finds nothing to refuse in its snapshot.       *)
LEMMA ReadBack ==
  ASSUME NEW r \in Rows, Visible(r), ~Coarser(r)
  PROVE  Sound(Snapshot(r))
<1> DEFINE s == Snapshot(r)
<1>1. /\ r.provider # NULL => s.external \in Externals /\ s.external # Nil
      /\ r.provider = NULL => s.external = Nil
  <2>1. r.provider # NULL =>
          s.external = [provider |-> r.provider, own |-> textFrom(r.own), hash |-> textFrom(r.hash),
                        named |-> textFrom(r.named), resolved |-> idFrom(r.resolved)]
    BY DEF Snapshot
  <2>2. r.provider # NULL => /\ r.provider \in Names /\ textFrom(r.own) \in Names
                             /\ textFrom(r.hash) \in {"hash"}
                             /\ textFrom(r.named) \in Names \cup {Nil}
                             /\ idFrom(r.resolved) \in Resolved \cup {Nil}
    BY DEF Rows, Visible, textFrom, idFrom
  <2>3. r.provider # NULL => s.external \in Externals  BY <2>1, <2>2 DEF Externals
  <2>4. r.provider = NULL => s.external = Nil  BY DEF Snapshot
  <2> QED  BY <2>3, <2>4, RecordAssumption
<1>2. s.amount \in Sums /\ s.amount.units = r.amount /\ s.amount.currency = r.currency
  <2>1. r.currency \in Currencies  BY DEF Rows, CurrencyCodes, Visible, Coarser
  <2> QED  BY <2>1 DEF Snapshot, Sums, Rows
<1>3. /\ s.result \in Sums \cup {Nil} /\ (s.result = Nil <=> r.result = NULL)
      /\ s.result # Nil => s.result.units = r.result /\ s.result.currency = r.currency
  <2>1. CASE r.result = NULL  BY <2>1 DEF Snapshot
  <2>2. CASE r.result # NULL
    <3>1. s.result = [units |-> r.result, currency |-> r.currency]  BY <2>2 DEF Snapshot
    <3>2. s.result \in Sums
      <4>1. r.currency \in Currencies  BY <1>2 DEF Sums
      <4> QED  BY <2>2, <3>1, <4>1 DEF Sums, Rows
    <3> QED  BY <2>2, <3>1, <3>2, RecordAssumption
  <2> QED  BY <2>1, <2>2
<1>4. /\ s.code \in FailureCodes \cup {Nil} /\ (s.code = Nil <=> r.code = NULL)
      /\ s.code # Nil => s.code = r.code
  BY RecordAssumption DEF Snapshot, Rows, textFrom
<1>5. s.deadline \in Nat /\ (s.deadline = 0 <=> r.deadline = NULL)
  <2>1. r.deadline # 0  BY DEF Coarser
  <2>2. r.deadline \in Nat \cup {NULL}  BY DEF Rows
  <2>3. s.deadline = IF r.deadline = NULL THEN 0 ELSE r.deadline  BY DEF Snapshot, timeFrom
  <2> HIDE DEF s
  <2> QED  BY <2>1, <2>2, <2>3
<1>6. /\ s.id = "id" /\ s.player = r.player /\ Good(s.player)
      /\ s.created # 0 /\ s.updated # 0
  <2>1. r.id = "id" /\ r.player \in {"own", "other"} /\ r.created # 0 /\ r.updated # 0
    BY DEF Rows, Ids, Names, Visible, Coarser
  <2>2. s.id = idFrom(r.id) /\ s.player = r.player /\ s.created = r.created /\ s.updated = r.updated
    BY DEF Snapshot
  <2> HIDE DEF s
  <2> QED  BY <2>1, <2>2, RecordAssumption DEF idFrom, Good
<1>13. /\ s.kind = r.kind /\ s.status = r.status /\ s.created = r.created /\ s.updated = r.updated
      /\ s.attempts = r.attempts
  BY DEF Snapshot
<1>7. s \in Transactions
  <2>1. s = [id |-> s.id, player |-> s.player, kind |-> s.kind, amount |-> s.amount,
             status |-> s.status, created |-> s.created, updated |-> s.updated,
             external |-> s.external, result |-> s.result, code |-> s.code,
             attempts |-> s.attempts, deadline |-> s.deadline]
    BY DEF Snapshot
  <2> HIDE DEF s
  <2>2. /\ r.player \in Names /\ r.kind \in D!Kinds /\ r.status \in D!Statuses
        /\ r.created \in Int /\ r.updated \in Int /\ r.attempts \in Int
    BY DEF Rows
  <2> QED  BY <1>1, <1>2, <1>3, <1>4, <1>5, <1>6, <1>13, <2>1, <2>2 DEF Transactions
<1>8. validateOrigin(s)
  <2>1. r.provider # NULL => s.external.provider = r.provider /\ s.external.own = textFrom(r.own)
                             /\ s.external.hash = textFrom(r.hash)
    BY DEF Snapshot
  <2>2. r.provider # NULL => /\ r.provider \in {"own", "other"}
                             /\ textFrom(r.own) \in {"own", "other"} /\ textFrom(r.hash) # Nil
    BY RecordAssumption DEF Rows, Names, Visible, Coarser, textFrom
  <2> HIDE DEF s
  <2> QED  BY <1>1, <1>6, <1>13, <2>1, <2>2 DEF validateOrigin, validateProviderFields, Good, Visible
<1>9. checkAmount(s.kind, s.amount)  BY <1>2, <1>13 DEF checkAmount, Visible
<1>10. validateSettlement(s)
  <2> HIDE DEF s
  <2>1. r.code # NULL => r.code \in Settling  BY DEF Visible
  <2> QED  BY <1>2, <1>3, <1>4, <1>13, <2>1
     DEF validateSettlement, Visible, checkSettlingCode, checkReportedBalance, Settling, FailureCodes
<1>11. validateReference(s)
  <2>1. r.provider # NULL => s.external.own = textFrom(r.own) /\ s.external.named = textFrom(r.named)
                             /\ s.external.resolved = idFrom(r.resolved)
    BY DEF Snapshot
  <2>2. r.own # NULL => textFrom(r.own) = r.own  BY DEF textFrom
  <2>3. textFrom(r.named) = Nil <=> r.named = NULL  BY RecordAssumption DEF Rows, textFrom
  <2>4. r.named # NULL => textFrom(r.named) = r.named /\ r.named \in {"own", "other"}
    BY DEF Rows, Names, Visible, Coarser, textFrom
  <2>5. r.resolved = NULL => idFrom(r.resolved) = Nil  BY DEF idFrom
  <2> HIDE DEF s
  <2> QED  BY <1>1, <1>13, <2>1, <2>2, <2>3, <2>4, <2>5
     DEF validateReference, checkReference, Good, Visible, D!IsReversal, D!AllowsReference
<1>12. validateWaitBudget(s)
  <2>1. r.attempts \in Int  BY DEF Rows
  <2> HIDE DEF s
  <2> QED  BY <1>5, <1>13, <2>1 DEF validateWaitBudget, Visible
<1> QED  BY <1>6, <1>7, <1>8, <1>9, <1>10, <1>11, <1>12, <1>13 DEF Sound

(* And is not where they are: each of what the schema is coarser about is a  *)
(* check the type makes.                                                    *)
LEMMA RefusedWhereCoarser ==
  ASSUME NEW r \in Rows, Visible(r), Coarser(r)
  PROVE  ~Loads(r)
<1> DEFINE s == Snapshot(r)
<1> SUFFICES ASSUME RehydrateWagerTransaction(s), r.currency \in Currencies PROVE FALSE
  BY DEF Loads, isSupported
<1>1. /\ s.id = idFrom(r.id) /\ s.player = r.player /\ s.kind = r.kind
      /\ s.created = r.created /\ s.updated = r.updated
      /\ s.attempts = r.attempts /\ s.deadline = timeFrom(r.deadline)
  BY DEF Snapshot
<1>2. r.provider # NULL =>
        /\ s.external.provider = r.provider /\ s.external.own = textFrom(r.own)
        /\ s.external.named = textFrom(r.named) /\ s.external # Nil
  <2>1. r.provider # NULL =>
          s.external = [provider |-> r.provider, own |-> textFrom(r.own), hash |-> textFrom(r.hash),
                        named |-> textFrom(r.named), resolved |-> idFrom(r.resolved)]
    BY DEF Snapshot
  <2>2. r.provider # NULL => /\ r.provider \in Names /\ textFrom(r.own) \in Names
                             /\ textFrom(r.hash) \in {"hash"}
                             /\ textFrom(r.named) \in Names \cup {Nil}
                             /\ idFrom(r.resolved) \in Resolved \cup {Nil}
    BY DEF Rows, Visible, textFrom, idFrom
  <2>3. r.provider # NULL => s.external \in Externals  BY <2>1, <2>2 DEF Externals
  <2> HIDE DEF s
  <2> QED  BY <2>1, <2>3, RecordAssumption
<1>3. /\ s.id # Nil /\ s.created # 0 /\ s.updated # 0 /\ Good(s.player)
      /\ validateOrigin(s) /\ validateReference(s) /\ validateWaitBudget(s)
  BY DEF RehydrateWagerTransaction
<1> HIDE DEF s
<1>4. r.player # "spaced" /\ r.id # "zero" /\ r.created # 0 /\ r.updated # 0
  BY <1>1, <1>3 DEF Good, idFrom
<1>5. r.own # NULL \/ r.named # NULL => r.provider # NULL
  BY DEF Visible
<1>6. r.provider # NULL => Good(r.provider) /\ Good(textFrom(r.own))
  BY <1>2, <1>3 DEF validateOrigin, validateProviderFields
<1>7. r.named # NULL => Good(r.named)
  <2>1. r.named # NULL => textFrom(r.named) = r.named /\ r.named # Nil
    BY RecordAssumption DEF Rows, textFrom
  <2> QED  BY <1>2, <1>3, <1>5, <2>1 DEF validateReference, checkReference
<1>8. r.deadline # 0
  <2>1. ASSUME r.deadline = 0 PROVE FALSE
    <3>1. r.deadline # NULL  BY <2>1, RecordAssumption
    <3>2. s.deadline = 0  BY <1>1, <2>1, <3>1 DEF timeFrom
    <3> QED  BY <1>1, <1>3, <3>1, <3>2 DEF validateWaitBudget, Visible
  <2> QED  BY <2>1
<1>9. r.provider # "spaced" /\ r.own # "spaced" /\ r.named # "spaced"
  <2>1. NULL # "spaced"  BY RecordAssumption DEF Names
  <2> QED  BY <1>5, <1>6, <1>7, <2>1 DEF Good, textFrom
<1>10. r.currency # "unsupported"  BY RecordAssumption
<1> QED  BY <1>4, <1>8, <1>9, <1>10 DEF Coarser

(* And the other way: a sound transaction is written to a row that keeps   *)
(* the constraints, and the row says the same transaction again. Each      *)
(* absence has to survive the change of its spelling.                      *)
LEMMA WrittenFits ==
  ASSUME NEW t, Sound(t), NEW next \in Nat, (t.status = "PENDING_REFERENCE") = (next # 0)
  PROVE  LET w == transactionArgs(t, next)
         IN w \in Rows /\ Visible(w) /\ ~Coarser(w) /\ Snapshot(w) = t
<1> DEFINE w == transactionArgs(t, next)
<1>1. t \in Transactions  BY DEF Sound
<1>2. /\ w.id = t.id /\ w.player = t.player
      /\ w.kind = t.kind /\ w.currency = t.amount.currency /\ w.amount = t.amount.units
      /\ w.status = t.status /\ w.attempts = t.attempts /\ w.created = t.created
      /\ w.updated = t.updated /\ w.code = textOf(t.code) /\ w.deadline = timeOf(t.deadline)
      /\ w.next = timeOf(next) /\ w.result = IF t.result = Nil THEN NULL ELSE t.result.units
  BY DEF transactionArgs
<1>3. t.external = Nil =>
        w.provider = NULL /\ w.own = NULL /\ w.hash = NULL /\ w.named = NULL /\ w.resolved = NULL
  BY DEF transactionArgs
<1>4. t.external # Nil =>
        /\ w.provider = textOf(t.external.provider) /\ w.own = textOf(t.external.own)
        /\ w.hash = textOf(t.external.hash) /\ w.named = textOf(t.external.named)
        /\ w.resolved = textOf(t.external.resolved)
  BY DEF transactionArgs
<1>5. w = [id |-> w.id, player |-> w.player, kind |-> w.kind, currency |-> w.currency,
           amount |-> w.amount, status |-> w.status,
           provider |-> w.provider, own |-> w.own, hash |-> w.hash, named |-> w.named,
           resolved |-> w.resolved, result |-> w.result, code |-> w.code, attempts |-> w.attempts,
           deadline |-> w.deadline, next |-> w.next, created |-> w.created, updated |-> w.updated]
  BY DEF transactionArgs
<1> HIDE DEF w
<1>6. ASSUME t.external # Nil
      PROVE  /\ t.external \in Externals /\ w.provider = t.external.provider
             /\ w.own = t.external.own /\ w.hash = "hash" /\ t.external.hash = "hash"
             /\ w.provider \in Names /\ w.own \in Names
             /\ w.named = (IF t.external.named = Nil THEN NULL ELSE t.external.named)
             /\ w.resolved = (IF t.external.resolved = Nil THEN NULL ELSE t.external.resolved)
             /\ t.external.named \in Names \cup {Nil} /\ t.external.resolved \in Resolved \cup {Nil}
  <2>1. t.external \in Externals  BY <1>1, <1>6 DEF Transactions
  <2>2. /\ t.external.provider \in Names /\ t.external.own \in Names /\ t.external.hash = "hash"
        /\ t.external.named \in Names \cup {Nil} /\ t.external.resolved \in Resolved \cup {Nil}
    BY <2>1 DEF Externals
  <2>3. \A x \in Names \cup {"hash"} : textOf(x) = x  BY RecordAssumption DEF textOf
  <2>4. /\ textOf(t.external.named) = (IF t.external.named = Nil THEN NULL ELSE t.external.named)
        /\ textOf(t.external.resolved) = (IF t.external.resolved = Nil THEN NULL ELSE t.external.resolved)
    BY DEF textOf
  <2> QED  BY <1>4, <1>6, <2>1, <2>2, <2>3, <2>4
<1>7. /\ t.id = "id" /\ t.player \in Names /\ Good(t.player) /\ t.created # 0 /\ t.updated # 0
      /\ t.kind \in D!Kinds /\ t.amount \in Sums /\ t.status \in D!Statuses /\ t.created \in Int
      /\ t.updated \in Int /\ t.external \in Externals \cup {Nil} /\ t.result \in Sums \cup {Nil}
      /\ t.code \in FailureCodes \cup {Nil} /\ t.attempts \in Int /\ t.deadline \in Nat
  BY <1>1 DEF Transactions, Sound
<1>8. /\ w.result \in (-1 .. 1) \cup {NULL} /\ (w.result = NULL <=> t.result = Nil)
      /\ w.result # NULL => w.result = t.result.units /\ w.result \in Int
      /\ t.result # Nil => t.result = [units |-> w.result, currency |-> w.currency]
  <2>1. CASE t.result = Nil  BY <1>2, <2>1
  <2>2. CASE t.result # Nil
    <3>1. w.result = t.result.units /\ t.result.units \in -1 .. 1
          /\ t.result = [units |-> t.result.units, currency |-> t.result.currency]
      BY <1>2, <1>7, <2>2 DEF Sums
    <3>2. t.result.currency = t.amount.currency
      BY <2>2 DEF Sound, validateSettlement, checkReportedBalance
    <3>3. w.result # NULL  BY <3>1, RecordAssumption
    <3> QED  BY <1>2, <2>2, <3>1, <3>2, <3>3
  <2> QED  BY <2>1, <2>2
<1>9. /\ w.code \in FailureCodes \cup {NULL} /\ (w.code = NULL <=> t.code = Nil)
      /\ t.code # Nil => w.code = t.code
  BY <1>2, <1>7, RecordAssumption DEF textOf
<1>10. /\ w.deadline \in (Nat \ {0}) \cup {NULL} /\ (w.deadline = NULL <=> t.deadline = 0)
       /\ t.deadline # 0 => w.deadline = t.deadline
       /\ w.next \in (Nat \ {0}) \cup {NULL} /\ (w.next = NULL <=> next = 0)
  BY <1>2, <1>7, RecordAssumption DEF timeOf
<1>11. w.amount \in -1 .. 1 /\ w.currency \in Currencies
       /\ t.amount = [units |-> w.amount, currency |-> w.currency]
  BY <1>2, <1>7 DEF Sums
<1>12. w \in Rows
  <2>1. /\ w.provider \in Names \cup {NULL} /\ w.own \in Names \cup {NULL} /\ w.hash \in {"hash", NULL}
        /\ w.named \in Names \cup {NULL} /\ w.resolved \in Resolved \cup {NULL}
    BY <1>3, <1>6
  <2>2. w.id \in Ids /\ w.player \in Names /\ w.currency \in CurrencyCodes /\ w.deadline \in Nat \cup {NULL}
    BY <1>2, <1>7, <1>10, <1>11 DEF Ids, CurrencyCodes
  <2> QED  BY <1>2, <1>5, <1>7, <1>8, <1>9, <1>10, <1>11, <2>1, <2>2 DEF Rows
<1>13. Visible(w)
  <2>1. /\ w.provider # "malformed" /\ w.own # "malformed" /\ w.named # "malformed"
        /\ (IF w.kind = "OPENING" THEN w.provider = NULL /\ w.own = NULL /\ w.hash = NULL
            ELSE w.provider # NULL /\ w.own # NULL /\ w.hash # NULL)
        /\ (w.kind # "OPENING" \/ w.status = "PROCESSED")
        /\ (IF w.kind \in {"REFUND", "ROLLBACK"} THEN w.named # NULL ELSE w.kind = "WIN" \/ w.named = NULL)
        /\ (w.named = NULL \/ w.named # w.own)
        /\ (w.resolved = NULL \/ w.named # NULL)
    <3>1. CASE t.external = Nil
      <4>1. t.kind = "OPENING" /\ t.status = "PROCESSED"  BY <3>1 DEF Sound, validateOrigin
      <4> QED  BY <1>2, <1>3, <3>1, <4>1, RecordAssumption DEF Names
    <3>2. CASE t.external # Nil
      <4>1. t.kind # "OPENING" /\ Good(w.provider) /\ Good(w.own)
        BY <1>6, <3>2 DEF Sound, validateOrigin, validateProviderFields
      <4>2. /\ D!IsReversal(t.kind) => t.external.named # Nil
            /\ ~D!AllowsReference(t.kind) => t.external.named = Nil
            /\ t.external.named # Nil => Good(t.external.named) /\ t.external.named # t.external.own
            /\ t.external.named = Nil => t.external.resolved = Nil
        BY <3>2 DEF Sound, validateReference, checkReference
      <4>3. NULL \notin Names /\ "malformed" \in Names  BY RecordAssumption DEF Names
      <4> QED  BY <1>2, <1>6, <3>2, <4>1, <4>2, <4>3, RecordAssumption
         DEF Good, D!IsReversal, D!AllowsReference
    <3> QED  BY <3>1, <3>2
  <2>2. /\ IF w.kind = "LOSS" THEN w.amount = 0 ELSE w.amount > 0
        /\ w.kind \in D!Kinds /\ w.status \in D!Statuses
    BY <1>2, <1>7 DEF Sound, checkAmount
  <2>3. /\ (w.status = "PROCESSED") = (w.result # NULL)
        /\ w.result = NULL \/ w.result >= 0
        /\ (w.status = "REJECTED") = (w.code # NULL)
        /\ w.code \in Settling \cup {NULL}
    <3>1. validateSettlement(t)  BY DEF Sound
    <3> QED  BY <1>2, <1>8, <1>9, <3>1
       DEF validateSettlement, checkReportedBalance, checkSettlingCode
  <2>4. /\ w.attempts >= 0 /\ (w.attempts > 0) = (w.deadline # NULL)
        /\ w.status = "PENDING_REFERENCE" => w.attempts > 0
        /\ (w.status = "PENDING_REFERENCE") = (w.next # NULL)
    BY <1>2, <1>10 DEF Sound, validateWaitBudget
  <2>5. w.player # "malformed" /\ w.currency # "malformed"
    BY <1>2, <1>7, <1>11, RecordAssumption DEF Good
  <2> QED  BY <2>1, <2>2, <2>3, <2>4, <2>5 DEF Visible
<1>14. Snapshot(w) = t
  <2>1. (IF w.provider = NULL THEN Nil
         ELSE [provider |-> w.provider, own |-> textFrom(w.own), hash |-> textFrom(w.hash),
               named |-> textFrom(w.named), resolved |-> idFrom(w.resolved)]) = t.external
    <3>1. CASE t.external = Nil  BY <1>3, <3>1
    <3>2. CASE t.external # Nil
      <4>1. t.external = [provider |-> t.external.provider, own |-> t.external.own,
                          hash |-> t.external.hash, named |-> t.external.named,
                          resolved |-> t.external.resolved]
        BY <1>6, <3>2 DEF Externals
      <4>2. /\ w.provider # NULL /\ textFrom(w.own) = t.external.own
            /\ textFrom(w.hash) = t.external.hash /\ textFrom(w.named) = t.external.named
            /\ idFrom(w.resolved) = t.external.resolved
        BY <1>6, <3>2, RecordAssumption DEF textFrom, idFrom, Resolved
      <4> QED  BY <1>6, <3>2, <4>1, <4>2
    <3> QED  BY <3>1, <3>2
  <2>2. (IF w.result = NULL THEN Nil ELSE [units |-> w.result, currency |-> w.currency]) = t.result
    BY <1>8
  <2>3. textFrom(w.code) = t.code /\ timeFrom(w.deadline) = t.deadline /\ idFrom(w.id) = t.id
    BY <1>2, <1>7, <1>9, <1>10, RecordAssumption DEF textFrom, timeFrom, idFrom
  <2>4. t = [id |-> t.id, player |-> t.player, kind |-> t.kind, amount |-> t.amount, status |-> t.status,
             created |-> t.created, updated |-> t.updated, external |-> t.external,
             result |-> t.result, code |-> t.code, attempts |-> t.attempts,
             deadline |-> t.deadline]
    BY <1>1 DEF Transactions
  <2> QED  BY <1>2, <1>11, <2>1, <2>2, <2>3, <2>4 DEF Snapshot
<1>15. ~Coarser(w)
  <2>1. w.player # "spaced" /\ w.id # "zero" /\ w.created # 0 /\ w.updated # 0
    BY <1>2, <1>7 DEF Good
  <2>2. w.deadline # 0
    <3>1. NULL # 0  BY RecordAssumption
    <3> QED  BY <1>10, <3>1
  <2>3. w.currency # "unsupported"  BY <1>11, RecordAssumption
  <2>4. w.provider # "spaced" /\ w.own # "spaced" /\ w.named # "spaced"
    <3>1. NULL # "spaced"  BY RecordAssumption DEF Names
    <3>2. CASE t.external = Nil  BY <1>3, <3>1, <3>2
    <3>3. CASE t.external # Nil
      <4>1. Good(t.external.provider) /\ Good(t.external.own)
        BY <3>3 DEF Sound, validateOrigin, validateProviderFields
      <4>2. t.external.named # Nil => Good(t.external.named)
        BY <3>3 DEF Sound, validateReference, checkReference
      <4> QED  BY <1>6, <3>1, <3>3, <4>1, <4>2 DEF Good
    <3> QED  BY <3>2, <3>3
  <2> QED  BY <2>1, <2>2, <2>3, <2>4 DEF Coarser
<1> QED  BY <1>12, <1>13, <1>14, <1>15 DEF w

(* A transaction goes on from itself. *)
LEMMA FollowsItself ==
  ASSUME NEW s, s \in Transactions
  PROVE  Follows(s, s)
<1>1. s.external # Nil => s.external = [s.external EXCEPT !.resolved = s.external.resolved]
  BY DEF Transactions, Externals
<1> QED  BY <1>1 DEF Follows

(* No method of the transaction leaves it in a state its type would        *)
(* refuse to load, or changes what it was born with.                       *)
LEMMA CallsKeepSound ==
  ASSUME NEW t, Sound(t), clock \in Nat \ {0}, NEW u \in Calls(t), NEW s, Follows(t, s)
  PROVE  Sound(u) /\ Follows(u, s)
<1>1. t \in Transactions  BY DEF Sound
<1>2. {"PROCESSED", "REJECTED", "PENDING_REFERENCE", "FAILED"} \subseteq D!Statuses
      /\ clock \in Int /\ clock # 0
  BY DEF D!Statuses
<1>3. \/ \E b \in Sums : u \in MarkProcessed(t, b)
      \/ \E c \in FailureCodes : u \in Reject(t, c)
      \/ \E r \in Resolved : u \in ResolveReference(t, r)
      \/ u \in MarkPendingReference(t)
      \/ u \in Fail(t)
  BY DEF Calls
<1>4. D!CanTransitionTo(t.status, "FAILED") \/ D!CanTransitionTo(t.status, "REJECTED")
      \/ D!CanTransitionTo(t.status, "PROCESSED") \/ D!CanTransitionTo(t.status, "PENDING_REFERENCE") =>
        /\ ~D!IsTerminal(t.status) /\ ~D!IsTerminal(s.status)
        /\ t.kind # "OPENING" /\ t.external # Nil /\ t.result = Nil /\ t.code = Nil
  BY DEF D!CanTransitionTo, D!IsTerminal, Sound, validateOrigin, validateSettlement, Follows
<1>5. ASSUME NEW b \in Sums, u \in MarkProcessed(t, b) PROVE Sound(u) /\ Follows(u, s)
  <2>1. /\ checkReportedBalance(b, t.amount.currency) /\ D!CanTransitionTo(t.status, "PROCESSED")
        /\ u = [t EXCEPT !.status = "PROCESSED", !.updated = clock, !.result = b]
    BY <1>5 DEF MarkProcessed, transition
  <2>2. u \in Transactions  BY <1>1, <1>5, <2>1, <1>2 DEF Transactions
  <2>3. /\ u.id = t.id /\ u.player = t.player /\ u.updated = clock
        /\ u.kind = t.kind /\ u.amount = t.amount /\ u.created = t.created /\ u.external = t.external
        /\ u.attempts = t.attempts /\ u.deadline = t.deadline /\ u.code = t.code
        /\ u.status = "PROCESSED" /\ u.result = b
    BY <1>1, <2>1 DEF Transactions
  <2>4. b # Nil  BY <1>5, RecordAssumption
  <2> QED  BY <1>2, <1>4, <2>1, <2>2, <2>3, <2>4
     DEF Sound, Follows, validateOrigin, validateSettlement, validateReference, validateWaitBudget
<1>6. ASSUME NEW c \in FailureCodes, u \in Reject(t, c) PROVE Sound(u) /\ Follows(u, s)
  <2>1. /\ c \in Settling /\ D!CanTransitionTo(t.status, "REJECTED")
        /\ u = [t EXCEPT !.status = "REJECTED", !.updated = clock, !.code = c]
    BY <1>6 DEF Reject, transition, checkSettlingCode
  <2>2. u \in Transactions  BY <1>1, <1>6, <2>1, <1>2 DEF Transactions
  <2>3. /\ u.id = t.id /\ u.player = t.player /\ u.updated = clock
        /\ u.kind = t.kind /\ u.amount = t.amount /\ u.created = t.created /\ u.external = t.external
        /\ u.attempts = t.attempts /\ u.deadline = t.deadline /\ u.result = t.result
        /\ u.status = "REJECTED" /\ u.code = c
    BY <1>1, <2>1 DEF Transactions
  <2>4. c # Nil  BY <1>6, RecordAssumption
  <2> QED  BY <1>2, <1>4, <2>1, <2>2, <2>3, <2>4
     DEF Sound, Follows, validateOrigin, validateSettlement, validateReference, validateWaitBudget,
         checkSettlingCode
<1>7. ASSUME NEW r \in Resolved, u \in ResolveReference(t, r) PROVE Sound(u) /\ Follows(u, s)
  <2>1. /\ t.external # Nil /\ ~D!IsTerminal(t.status) /\ t.external.named # Nil
        /\ t.external.resolved \in {Nil, r} /\ u = [t EXCEPT !.external.resolved = r]
    BY <1>7 DEF ResolveReference
  <2>2. t.external \in Externals  BY <1>1, <2>1 DEF Transactions
  <2>3. /\ [t.external EXCEPT !.resolved = r] \in Externals
        /\ u = [t EXCEPT !.external = [t.external EXCEPT !.resolved = r]]
    BY <1>7, <2>1, <2>2 DEF Externals
  <2>4. u \in Transactions /\ u.external = [t.external EXCEPT !.resolved = r]
        /\ u.id = t.id /\ u.player = t.player /\ u.updated = t.updated
        /\ u.kind = t.kind /\ u.amount = t.amount /\ u.created = t.created /\ u.status = t.status
        /\ u.attempts = t.attempts /\ u.deadline = t.deadline /\ u.result = t.result /\ u.code = t.code
    BY <1>1, <2>3 DEF Transactions
  <2>5. /\ u.external.provider = t.external.provider /\ u.external.own = t.external.own
        /\ u.external.hash = t.external.hash /\ u.external.named = t.external.named
        /\ u.external.resolved = r /\ u.external # Nil
    BY <2>2, <2>3, <2>4, RecordAssumption DEF Externals
  <2>6. Sound(u)
    BY <2>1, <2>4, <2>5
    DEF Sound, validateOrigin, validateSettlement, validateReference, validateWaitBudget,
        validateProviderFields
  <2>7. s.external # Nil /\ t.external = [s.external EXCEPT !.resolved = t.external.resolved]
        /\ s.external.resolved \in {Nil, t.external.resolved}
    BY <2>1 DEF Follows
  <2>8. u.external = [s.external EXCEPT !.resolved = u.external.resolved]
    BY <2>4, <2>5, <2>7
  <2> QED  BY <2>1, <2>4, <2>5, <2>6, <2>7, <2>8 DEF Follows
<1>8. ASSUME u \in MarkPendingReference(t) PROVE Sound(u) /\ Follows(u, s)
  <2>1. PICK d : d = IF t.deadline = 0 THEN clock + TTL ELSE t.deadline  OBVIOUS
  <2>2. PICK n : n = t.attempts + 1  OBVIOUS
  <2>3. /\ D!CanTransitionTo(t.status, "PENDING_REFERENCE")
        /\ u = [t EXCEPT !.status = "PENDING_REFERENCE", !.updated = clock,
                         !.deadline = d, !.attempts = n]
    BY <1>1, <1>8, <2>1, <2>2 DEF MarkPendingReference, transition, Transactions
  <2>4. d \in Nat /\ d # 0 /\ n \in Int /\ n > 0
    BY <1>1, <2>1, <2>2, RecordAssumption DEF Transactions, Sound, validateWaitBudget
  <2>5. u \in Transactions  BY <1>1, <1>2, <2>3, <2>4 DEF Transactions
  <2>6. /\ u.id = t.id /\ u.player = t.player /\ u.updated = clock
        /\ u.kind = t.kind /\ u.amount = t.amount /\ u.created = t.created /\ u.external = t.external
        /\ u.attempts = n /\ u.deadline = d /\ u.result = t.result
        /\ u.status = "PENDING_REFERENCE" /\ u.code = t.code
    BY <1>1, <2>3 DEF Transactions
  <2> QED  BY <1>2, <1>4, <2>3, <2>4, <2>5, <2>6
     DEF Sound, Follows, validateOrigin, validateSettlement, validateReference, validateWaitBudget
<1>9. ASSUME u \in Fail(t) PROVE Sound(u) /\ Follows(u, s)
  <2>1. /\ D!CanTransitionTo(t.status, "FAILED")
        /\ u = [t EXCEPT !.status = "FAILED", !.updated = clock]
    BY <1>9 DEF Fail, transition
  <2>2. u \in Transactions  BY <1>1, <2>1, <1>2 DEF Transactions
  <2>3. /\ u.id = t.id /\ u.player = t.player /\ u.updated = clock
        /\ u.kind = t.kind /\ u.amount = t.amount /\ u.created = t.created /\ u.external = t.external
        /\ u.attempts = t.attempts /\ u.deadline = t.deadline /\ u.result = t.result
        /\ u.status = "FAILED" /\ u.code = t.code
    BY <1>1, <2>1 DEF Transactions
  <2> QED  BY <1>2, <1>4, <2>1, <2>2, <2>3
     DEF Sound, Follows, validateOrigin, validateSettlement, validateReference, validateWaitBudget
<1> QED  BY <1>3, <1>5, <1>6, <1>7, <1>8, <1>9

(* What the constructors build is sound. *)
LEMMA BornSound ==
  ASSUME NEW t \in NewExternalTransactions \cup newOpeningTransactions, clock \in Nat \ {0}
  PROVE  Sound(t) /\ t.status # "PENDING_REFERENCE"
<1>1. clock \in Int /\ clock # 0 /\ 0 \in Nat /\ 0 \in Int
  OBVIOUS
<1>2. CASE t \in NewExternalTransactions
  <2>1. PICK player \in Names, kind \in D!Kinds \ {"OPENING"}, amount \in Sums,
             own \in Names, named \in Names \cup {Nil} :
          t = New(player, kind, amount, "PENDING",
                  [provider |-> "own", own |-> own, hash |-> "hash", named |-> named,
                   resolved |-> Nil], Nil)
    BY <1>2 DEF NewExternalTransactions
  <2>2. /\ validateProviderFields(t.player, t.external) /\ checkAmount(t.kind, t.amount)
        /\ checkReference(t.kind, t.external.own, t.external.named)
    BY <1>2 DEF NewExternalTransactions
  <2>3. PICK e : e = [provider |-> "own", own |-> own, hash |-> "hash", named |-> named,
                      resolved |-> Nil]
    OBVIOUS
  <2>4. e \in Externals /\ e.hash = "hash" /\ e.resolved = Nil
    BY <2>3 DEF Externals, Names
  <2>5. PICK status : status = "PENDING"  OBVIOUS
  <2>6. t = [id |-> "id", player |-> player, kind |-> kind, amount |-> amount, status |-> status,
             created |-> clock,
             updated |-> clock, external |-> e, result |-> Nil, code |-> Nil, attempts |-> 0,
             deadline |-> 0]
    BY <2>1, <2>3, <2>5 DEF New
  <2>7. /\ t.player = player /\ t.created = clock /\ t.updated = clock
        /\ t.kind = kind /\ t.status = status /\ t.external = e /\ t.result = Nil /\ t.code = Nil
        /\ t.attempts = 0 /\ t.deadline = 0
    BY <2>6
  <2>8. status \in D!Statuses /\ kind \in D!Kinds  BY <2>5 DEF D!Statuses
  <2>9. t \in Transactions  BY <1>1, <2>4, <2>6, <2>8 DEF Transactions
  <2>10. e # Nil /\ "hash" # Nil  BY <2>4, RecordAssumption
  <2> QED  BY <1>1, <2>2, <2>4, <2>5, <2>7, <2>9, <2>10
     DEF Sound, validateProviderFields, validateOrigin, validateSettlement, validateReference,
         validateWaitBudget
<1>3. CASE t \in newOpeningTransactions
  <2>1. PICK amount \in Sums : amount.units > 0 /\ t = New("own", "OPENING", amount, "PROCESSED", Nil, amount)
    BY <1>3 DEF newOpeningTransactions
  <2>2. PICK status, kind : status = "PROCESSED" /\ kind = "OPENING"  OBVIOUS
  <2>3. t = [id |-> "id", player |-> "own", kind |-> kind, amount |-> amount, status |-> status,
             created |-> clock,
             updated |-> clock, external |-> Nil, result |-> amount, code |-> Nil, attempts |-> 0,
             deadline |-> 0]
    BY <2>1, <2>2 DEF New
  <2>4. /\ t.player = "own" /\ t.created = clock /\ t.updated = clock
        /\ t.kind = kind /\ t.status = status /\ t.external = Nil /\ t.result = amount /\ t.code = Nil
        /\ t.amount = amount /\ t.attempts = 0 /\ t.deadline = 0
    BY <2>3
  <2>5. status \in D!Statuses /\ kind \in D!Kinds  BY <2>2 DEF D!Statuses, D!Kinds
  <2>6. t \in Transactions  BY <1>1, <2>3, <2>5 DEF Transactions, Names
  <2>7. amount # Nil /\ amount.units >= 0  BY <2>1, RecordAssumption DEF Sums
  <2> QED  BY <1>1, <2>1, <2>2, <2>4, <2>6, <2>7
     DEF Sound, Good, validateOrigin, validateSettlement, validateReference, validateWaitBudget,
         checkAmount, checkReportedBalance
<1> QED  BY <1>2, <1>3

(* settleTransaction names the columns that may change; the ones it        *)
(* leaves are those the transaction was born with, so the row is the       *)
(* whole transaction.                                                      *)
LEMMA SettledWhole ==
  ASSUME NEW t, Sound(t), row \in Rows, Visible(row), ~Coarser(row), Follows(t, Snapshot(row)),
         NEW next, NEW r,
         r = [row EXCEPT !.status = t.status,
                         !.result = IF t.result = Nil THEN NULL ELSE t.result.units,
                         !.code = textOf(t.code),
                         !.resolved = IF t.external = Nil THEN NULL ELSE textOf(t.external.resolved),
                         !.attempts = t.attempts, !.deadline = timeOf(t.deadline),
                         !.next = timeOf(next), !.updated = t.updated]
  PROVE  r = transactionArgs(t, next)
<1> DEFINE s == Snapshot(row)
<1>1. /\ row.id = t.id /\ row.player = t.player
      /\ row.kind = t.kind /\ row.currency = t.amount.currency /\ row.amount = t.amount.units
      /\ row.created = t.created
  <2>1. row.id = "id"  BY DEF Rows, Ids, Coarser
  <2>2. s.id = row.id  BY <2>1, RecordAssumption DEF Snapshot, idFrom
  <2> QED  BY <2>2 DEF Follows, Snapshot, Rows
<1>2. /\ t.external = Nil => row.provider = NULL /\ row.own = NULL /\ row.hash = NULL /\ row.named = NULL
      /\ t.external # Nil => /\ row.provider = textOf(t.external.provider)
                             /\ row.own = textOf(t.external.own)
                             /\ row.hash = textOf(t.external.hash)
                             /\ row.named = textOf(t.external.named)
  <2>1. Sound(s)  BY ReadBack
  <2>2. CASE s.external = Nil
    <3>1. t.external = Nil  BY <2>2 DEF Follows
    <3>2. row.kind = "OPENING"  BY <2>1, <2>2 DEF Sound, validateOrigin, Snapshot
    <3> QED  BY <3>1, <3>2 DEF Visible
  <2>3. CASE s.external # Nil
    <3>1. row.provider # NULL /\ s.external = [provider |-> row.provider, own |-> textFrom(row.own),
             hash |-> textFrom(row.hash), named |-> textFrom(row.named),
             resolved |-> idFrom(row.resolved)]
      BY <2>3 DEF Snapshot
    <3>2. t.external # Nil /\ t.external = [s.external EXCEPT !.resolved = t.external.resolved]
      BY <2>3 DEF Follows
    <3>3. /\ t.external.provider = row.provider /\ t.external.own = textFrom(row.own)
          /\ t.external.hash = textFrom(row.hash) /\ t.external.named = textFrom(row.named)
      BY <3>1, <3>2
    <3>4. \A v \in Names \cup {"hash", NULL} : textOf(textFrom(v)) = v
      BY RecordAssumption DEF textOf, textFrom
    <3>5. textOf(row.provider) = row.provider  BY <3>1, RecordAssumption DEF Rows, textOf
    <3>6. row.own \in Names \cup {NULL} /\ row.hash \in {"hash", NULL} /\ row.named \in Names \cup {NULL}
      BY DEF Rows
    <3> QED  BY <3>2, <3>3, <3>4, <3>5, <3>6
  <2> QED  BY <2>2, <2>3
<1>3. row = [id |-> row.id, player |-> row.player, kind |-> row.kind, currency |-> row.currency,
             amount |-> row.amount, status |-> row.status, provider |-> row.provider, own |-> row.own,
             hash |-> row.hash, named |-> row.named, resolved |-> row.resolved,
             result |-> row.result, code |-> row.code, attempts |-> row.attempts,
             deadline |-> row.deadline, next |-> row.next, created |-> row.created,
             updated |-> row.updated]
  BY DEF Rows
<1> QED  BY <1>1, <1>2, <1>3 DEF transactionArgs

(* wager_transaction_guard refuses no write of this service but one whose   *)
(* clock has gone back.                                                     *)
LEMMA GuardStandsAside ==
  ASSUME row \in Rows, Visible(row), ~Coarser(row), NEW t, Sound(t), Follows(t, Snapshot(row)),
         t.status # "PENDING", NEW r,
         \A c \in {"id", "player", "kind", "currency", "amount", "provider", "own", "hash",
                   "named", "created"} :
           r[c] = row[c],
         r.status = t.status,
         r.resolved = IF t.external = Nil THEN NULL ELSE textOf(t.external.resolved)
  PROVE  Guarded(row, r) \subseteq BeyondTheType
<1>1. row.resolved # NULL => r.resolved = row.resolved
  <2>1. Sound(Snapshot(row))  BY ReadBack
  <2>2. ASSUME row.resolved # NULL PROVE r.resolved = row.resolved
    <3>1. row.named # NULL /\ row.resolved \in Resolved  BY <2>2 DEF Visible, Rows
    <3>2. row.provider # NULL
      <4>1. row.kind # "OPENING"  BY <3>1 DEF Visible
      <4> QED  BY <4>1 DEF Visible
    <3>3. Snapshot(row).external = [provider |-> row.provider, own |-> textFrom(row.own),
             hash |-> textFrom(row.hash), named |-> textFrom(row.named),
             resolved |-> idFrom(row.resolved)]
      BY <3>2 DEF Snapshot
    <3>4. Snapshot(row).external # Nil
      <4>1. Snapshot(row).kind # "OPENING"  BY <3>1 DEF Visible, Snapshot
      <4> QED  BY <2>1, <4>1 DEF Sound, validateOrigin
    <3>5. Snapshot(row).external.resolved = row.resolved /\ row.resolved # Nil
      BY <2>2, <3>1, <3>3, RecordAssumption DEF idFrom, Resolved
    <3>6. t.external # Nil /\ t.external.resolved = row.resolved  BY <3>4, <3>5 DEF Follows
    <3> QED  BY <3>5, <3>6 DEF textOf
  <2> QED  BY <2>2
<1>2. r.status # row.status => ~D!IsTerminal(row.status)
  <2>1. Snapshot(row).status = row.status  BY DEF Snapshot
  <2> QED  BY <2>1 DEF Follows
<1> QED  BY <1>1, <1>2 DEF Guarded, BeyondTheType

(* What was read is what the columns hold. *)
LEMMA ColumnsOfSnapshot ==
  ASSUME row \in Rows, Visible(row), ~Coarser(row), NEW s, s = Snapshot(row)
  PROVE  /\ row.result = (IF s.result = Nil THEN NULL ELSE s.result.units)
         /\ row.code = textOf(s.code) /\ row.attempts = s.attempts
         /\ row.deadline = timeOf(s.deadline)
         /\ row.resolved = (IF s.external = Nil THEN NULL ELSE textOf(s.external.resolved))
<1>1. Sound(s)  BY ReadBack
<1>2. row.result = (IF s.result = Nil THEN NULL ELSE s.result.units)
  <2>1. CASE row.result = NULL  BY <2>1 DEF Snapshot
  <2>2. CASE row.result # NULL
    <3>1. s.result = [units |-> row.result, currency |-> row.currency]  BY <2>2 DEF Snapshot
    <3>2. s.result # Nil
      <4>1. row.status = "PROCESSED" /\ s.status = row.status  BY <2>2 DEF Visible, Snapshot
      <4> QED  BY <1>1, <4>1 DEF Sound, validateSettlement
    <3> QED  BY <3>1, <3>2
  <2> QED  BY <2>1, <2>2
<1>3. row.code = textOf(s.code) /\ row.attempts = s.attempts /\ row.deadline = timeOf(s.deadline)
  BY RecordAssumption DEF Snapshot, Rows, Coarser, textOf, textFrom, timeOf, timeFrom
<1>4. row.resolved = (IF s.external = Nil THEN NULL ELSE textOf(s.external.resolved))
  <2>1. CASE row.provider = NULL
    <3>1. s.external = Nil /\ row.kind = "OPENING"  BY <2>1 DEF Snapshot, Visible
    <3>2. row.resolved = NULL  BY <3>1 DEF Visible
    <3> QED  BY <3>1, <3>2
  <2>2. CASE row.provider # NULL
    <3>1. s.external = [provider |-> row.provider, own |-> textFrom(row.own),
             hash |-> textFrom(row.hash), named |-> textFrom(row.named),
             resolved |-> idFrom(row.resolved)]
      BY <2>2 DEF Snapshot
    <3>2. s.external # Nil
      <4>1. s.kind # "OPENING"  BY <2>2 DEF Visible, Snapshot
      <4> QED  BY <1>1, <4>1 DEF Sound, validateOrigin
    <3>3. s.external.resolved = idFrom(row.resolved)  BY <3>1
    <3> QED  BY <3>2, <3>3, RecordAssumption DEF Rows, Resolved, textOf, idFrom
  <2> QED  BY <2>1, <2>2
<1> QED  BY <1>2, <1>3, <1>4

(* The record is of sound transactions: what the row holds the schema let   *)
(* in, what is in memory is a transaction its type lets stand and goes on   *)
(* from the row, and the row is what was last written.                      *)
THEOREM RecordInvariant == RecordSpec => []RecordInv
<1>1. RecordInit => RecordInv  BY DEF RecordInit, RecordInv
<1>2. RecordInv /\ [RecordNext]_recordVars => RecordInv'
  <2> SUFFICES ASSUME RecordInv, [RecordNext]_recordVars PROVE RecordInv'
    OBVIOUS
  <2>1. /\ clock \in Nat \ {0}
        /\ row # NULL => row \in Rows /\ Broken(row, wallet) = {} /\ Visible(row)
        /\ row # NULL /\ ~Coarser(row) => Sound(Snapshot(row)) /\ Snapshot(row) \in Transactions
        /\ row # NULL /\ Loads(row) => ~Coarser(row)
        /\ tx # Nil => Sound(tx) /\ row # NULL /\ ~Coarser(row) /\ Follows(tx, Snapshot(row))
        /\ stored # Nil => row # NULL /\ ~Coarser(row) /\ Snapshot(row) = stored
        /\ refused \subseteq BeyondTheType
    <3>1. Broken(row, wallet) = {} => Visible(row)  BY SchemaSays
    <3> QED  BY <3>1, ReadBack, RefusedWhereCoarser DEF RecordInv, Sound
  <2>2. ASSUME NEW t, Sound(t), NEW next \in Nat, (t.status = "PENDING_REFERENCE") = (next # 0),
               NEW refusals, Broken(transactionArgs(t, next), wallet) \subseteq refusals,
               refusals \subseteq Broken(transactionArgs(t, next), wallet) \cup BeyondTheType,
               Write(transactionArgs(t, next), t, refusals)
        PROVE  RecordInv'
    <3> DEFINE w == transactionArgs(t, next)
    <3>1. w \in Rows /\ Visible(w) /\ ~Coarser(w) /\ Snapshot(w) = t  BY <2>2, WrittenFits
    <3>2. Broken(w, wallet) \subseteq BeyondTheType  BY <3>1, SchemaSays
    <3>3. Follows(t, t)  BY <2>2, FollowsItself DEF Sound
    <3>4. refused' = refusals /\ clock' = clock /\ wallet' = wallet  BY <2>2 DEF Write
    <3>5. CASE refusals = {}
      <4>1. row' = w /\ stored' = t /\ tx' = t  BY <2>2, <3>5 DEF Write
      <4>2. Broken(w, wallet) = {}  BY <2>2, <3>5
      <4>3. (row # NULL => row \in Rows /\ Broken(row, wallet) = {})'  BY <3>1, <3>4, <4>1, <4>2
      <4>4. w # NULL  BY <3>1, RecordAssumption
      <4> QED  BY <2>1, <2>2, <3>1, <3>2, <3>3, <3>4, <4>1, <4>3, <4>4 DEF RecordInv
    <3>6. CASE refusals # {}
      <4>1. row' = row /\ stored' = stored /\ tx' = Nil  BY <2>2, <3>6 DEF Write
      <4> QED  BY <2>1, <2>2, <3>2, <3>4, <4>1 DEF RecordInv
    <3> QED  BY <3>5, <3>6
  <2>3. CASE Record
    <3>1. PICK t \in NewExternalTransactions \cup newOpeningTransactions :
            Write(transactionArgs(t, 0), t, Broken(transactionArgs(t, 0), wallet))
      BY <2>3 DEF Record, Refusals
    <3>2. Sound(t) /\ t.status # "PENDING_REFERENCE"  BY <2>1, BornSound
    <3>3. 0 \in Nat /\ (t.status = "PENDING_REFERENCE") = (0 # 0)  BY <3>2
    <3> QED  BY <2>2, <3>1, <3>2, <3>3
  <2>4. CASE Load
    <3>1. row # NULL /\ Loads(row) /\ tx' = Snapshot(row)
          /\ UNCHANGED <<row, wallet, stored, refused, clock>>
      BY <2>4 DEF Load
    <3>2. Follows(Snapshot(row), Snapshot(row))  BY <2>1, <3>1, FollowsItself
    <3> QED  BY <2>1, <3>1, <3>2 DEF RecordInv
  <2>5. CASE Call
    <3>1. tx # Nil /\ tx' \in Calls(tx) /\ UNCHANGED <<row, wallet, stored, refused, clock>>
      BY <2>5 DEF Call
    <3>2. Sound(tx') /\ Follows(tx', Snapshot(row))  BY <2>1, <3>1, CallsKeepSound
    <3> QED  BY <2>1, <3>1, <3>2 DEF RecordInv
  <2>6. CASE settle
    <3>1. PICK next : next = IF tx.status = "PENDING_REFERENCE" THEN clock + 1 ELSE 0
      OBVIOUS
    <3>2. PICK r : r = settleTransaction(tx)  OBVIOUS
    <3>3. /\ tx # Nil /\ row # NULL /\ tx.status \in {"PENDING_REFERENCE", "PROCESSED", "REJECTED"}
          /\ \E met \in {{}} \cup {{c} : c \in Contested(row, r)} :
               Write(r, tx, Guarded(row, r) \cup Broken(r, wallet) \cup met)
      BY <2>6, <3>2 DEF settle, Refusals
    <3>4. next \in Nat /\ (tx.status = "PENDING_REFERENCE") = (next # 0)  BY <2>1, <3>1
    <3>5. PICK a : a = transactionArgs(tx, next)  OBVIOUS
    <3>6. r = [row EXCEPT !.status = a.status, !.result = a.result, !.code = a.code,
                          !.resolved = a.resolved, !.attempts = a.attempts,
                          !.deadline = a.deadline, !.next = a.next, !.updated = a.updated]
      BY <3>1, <3>2, <3>5 DEF settleTransaction
    <3>7. /\ a.status = tx.status /\ a.result = (IF tx.result = Nil THEN NULL ELSE tx.result.units)
          /\ a.code = textOf(tx.code) /\ a.attempts = tx.attempts /\ a.deadline = timeOf(tx.deadline)
          /\ a.resolved = (IF tx.external = Nil THEN NULL ELSE textOf(tx.external.resolved))
          /\ a.next = timeOf(next) /\ a.updated = tx.updated
      BY <3>5 DEF transactionArgs
    <3>8. r = transactionArgs(tx, next)  BY <2>1, <3>3, <3>6, <3>7, SettledWhole
    <3>9. /\ \A c \in {"id", "player", "kind", "currency", "amount", "provider", "own", "hash",
                   "named", "created"} :
               r[c] = row[c]
          /\ r.status = tx.status /\ r.resolved = a.resolved
      BY <2>1, <3>3, <3>6, <3>7 DEF Rows
    <3>10. Guarded(row, r) \subseteq BeyondTheType
      BY <2>1, <3>3, <3>7, <3>9, GuardStandsAside
    <3>11. PICK met : met \subseteq BeyondTheType
                      /\ Write(r, tx, Guarded(row, r) \cup Broken(r, wallet) \cup met)
      BY <3>3 DEF Contested, BeyondTheType
    <3> QED  BY <2>1, <2>2, <3>3, <3>4, <3>8, <3>10, <3>11
  <2>7. CASE failTransaction
    <3>1. PICK r : r = [row EXCEPT !.status = tx.status, !.updated = tx.updated, !.next = NULL]
      OBVIOUS
    <3>2. /\ tx # Nil /\ row # NULL /\ tx \in Fail(Snapshot(row))
          /\ Write(r, tx, Guarded(row, r) \cup Broken(r, wallet))
      BY <2>7, <3>1 DEF failTransaction, Refusals
    <3>3. PICK s : s = Snapshot(row)  OBVIOUS
    <3>4. tx = [s EXCEPT !.status = "FAILED", !.updated = clock]
      BY <3>2, <3>3 DEF Fail, transition
    <3>5. s \in Transactions  BY <2>1, <3>2, <3>3
    <3>6. /\ tx.status = "FAILED" /\ tx.result = s.result /\ tx.code = s.code
          /\ tx.external = s.external /\ tx.attempts = s.attempts /\ tx.deadline = s.deadline
      BY <3>4, <3>5 DEF Transactions
    <3>7. /\ row.result = (IF s.result = Nil THEN NULL ELSE s.result.units)
          /\ row.code = textOf(s.code) /\ row.attempts = s.attempts
          /\ row.deadline = timeOf(s.deadline)
          /\ row.resolved = (IF s.external = Nil THEN NULL ELSE textOf(s.external.resolved))
      BY <2>1, <3>2, <3>3, ColumnsOfSnapshot
    <3>8. timeOf(0) = NULL /\ 0 \in Nat /\ (tx.status = "PENDING_REFERENCE") = (0 # 0)
      BY <3>6 DEF timeOf
    <3>9. r = [row EXCEPT !.status = tx.status,
                    !.result = IF tx.result = Nil THEN NULL ELSE tx.result.units,
                    !.code = textOf(tx.code),
                    !.resolved = IF tx.external = Nil THEN NULL ELSE textOf(tx.external.resolved),
                    !.attempts = tx.attempts, !.deadline = timeOf(tx.deadline),
                    !.next = timeOf(0), !.updated = tx.updated]
      BY <2>1, <3>1, <3>2, <3>6, <3>7, <3>8 DEF Rows
    <3>10. r = transactionArgs(tx, 0)  BY <2>1, <3>2, <3>9, SettledWhole
    <3>11. /\ \A c \in {"id", "player", "kind", "currency", "amount", "provider", "own", "hash",
                   "named", "created"} :
               r[c] = row[c]
           /\ r.status = tx.status /\ r.resolved = row.resolved
      BY <2>1, <3>1, <3>2 DEF Rows
    <3>12. Guarded(row, r) \subseteq BeyondTheType
      BY <2>1, <3>2, <3>6, <3>7, <3>11, GuardStandsAside
    <3> QED  BY <2>1, <2>2, <3>2, <3>8, <3>10, <3>12
  <2>8. CASE Return
    <3>1. tx' = Nil /\ refused' = {} /\ UNCHANGED <<row, wallet, stored, clock>>
      BY <2>8 DEF Return
    <3> QED  BY <2>1, <3>1 DEF RecordInv
  <2>9. CASE Adjust
    <3>1. clock' \in Nat \ {0} /\ UNCHANGED <<row, wallet, tx, stored, refused>>
      BY <2>9 DEF Adjust
    <3> QED  BY <2>1, <3>1 DEF RecordInv
  <2>10. CASE TamperRecord
    <3>1. row # NULL /\ tx = Nil /\ stored' = Nil /\ UNCHANGED <<tx, refused, clock>>
          /\ Broken(row', wallet') = {}
      BY <2>10 DEF TamperRecord, Refusals
    <3>2. row \in Rows  BY <2>1, <3>1
    <3>3. row'.kind \in D!Kinds /\ row'.status \in D!Statuses /\ row'.code \in Settling \cup {NULL}
      BY <3>1, SchemaSays DEF Visible
    <3>4. ASSUME NEW k, row' = [row EXCEPT !.kind = k] PROVE row' \in Rows
      <4>1. k = row'.kind  BY <3>2, <3>4 DEF Rows
      <4> QED  BY <3>2, <3>3, <3>4, <4>1 DEF Rows
    <3>5. ASSUME NEW a \in -1 .. 1, NEW c \in CurrencyCodes,
                 row' = [row EXCEPT !.amount = a, !.currency = c]
          PROVE  row' \in Rows
      BY <3>2, <3>5 DEF Rows
    <3>6. ASSUME NEW s, NEW b \in {NULL, -1, 0}, NEW c, NEW n \in {NULL, 1},
                 row' = [row EXCEPT !.status = s, !.result = b, !.code = c, !.next = n]
          PROVE  row' \in Rows
      <4>1. s = row'.status /\ c = row'.code  BY <3>2, <3>6 DEF Rows
      <4>2. c \in FailureCodes \cup {NULL}  BY <3>3, <4>1 DEF FailureCodes
      <4>3. b \in (-1 .. 1) \cup {NULL} /\ n \in (Nat \ {0}) \cup {NULL}  OBVIOUS
      <4> QED  BY <3>2, <3>3, <3>6, <4>1, <4>2, <4>3 DEF Rows
    <3>7. ASSUME NEW p \in Names \cup {NULL}, NEW o \in Names \cup {NULL}, NEW h \in {"hash", NULL},
                 row' = [row EXCEPT !.provider = p, !.own = o, !.hash = h]
          PROVE  row' \in Rows
      BY <3>2, <3>7 DEF Rows
    <3>8. ASSUME NEW n \in Names \cup {NULL}, NEW i \in Resolved \cup {NULL},
                 row' = [row EXCEPT !.named = n, !.resolved = i]
          PROVE  row' \in Rows
      BY <3>2, <3>8 DEF Rows
    <3>9. ASSUME NEW a \in -1 .. MaxAttempts, NEW d \in {NULL, 0, 1},
                 row' = [row EXCEPT !.attempts = a, !.deadline = d]
          PROVE  row' \in Rows
      <4>1. a \in Int /\ d \in Nat \cup {NULL}  BY RecordAssumption
      <4> QED  BY <3>2, <3>9, <4>1 DEF Rows
    <3>10. ASSUME NEW c \in 0 .. MaxClock, NEW u \in 0 .. MaxClock,
                  row' = [row EXCEPT !.created = c, !.updated = u]
           PROVE  row' \in Rows
      <4>1. c \in Int /\ u \in Int  BY RecordAssumption
      <4> QED  BY <3>2, <3>10, <4>1 DEF Rows
    <3>11. ASSUME NEW i \in Ids, row' = [row EXCEPT !.id = i] PROVE row' \in Rows
      BY <3>2, <3>11 DEF Rows
    <3>12. ASSUME TamperWallet PROVE row' \in Rows
      BY <3>2, <3>12 DEF TamperWallet, Rows
    <3>13. ASSUME TamperColumns PROVE row' \in Rows
      BY <3>4, <3>5, <3>6, <3>7, <3>8, <3>9, <3>10, <3>11, <3>13 DEF TamperColumns
    <3>14. row' \in Rows
      BY <2>10, <3>12, <3>13 DEF TamperRecord
    <3> QED  BY <2>1, <3>1, <3>14 DEF RecordInv
  <2>11. CASE UNCHANGED recordVars
    BY <2>1, <2>11 DEF recordVars, RecordInv
  <2> QED  BY <2>3, <2>4, <2>5, <2>6, <2>7, <2>8, <2>9, <2>10, <2>11 DEF RecordNext
<1> QED  BY <1>1, <1>2, PTL DEF RecordSpec

(* Every row this service writes is one it reads back as the transaction   *)
(* it wrote, whatever has written to the row in between.                   *)
THEOREM RecordReadsBack == RecordSpec => []StoredReadsBack
<1>1. RecordInv => StoredReadsBack  BY DEF RecordInv, StoredReadsBack
<1> QED  BY <1>1, RecordInvariant, PTL

(* Of the rows the schema admits the type refuses exactly those of four     *)
(* sorts: an identifier between white space only Unicode knows, a currency  *)
(* nobody supports, the year one and the nil UUID.  This service writes     *)
(* none of them, and what the schema refuses of its writes the type had no  *)
(* way to see.                                                              *)
THEOREM CorruptKnown == RecordSpec => []CorruptOnlyWhereCoarser
<1>1. RecordInv => CorruptOnlyWhereCoarser
  <2> SUFFICES ASSUME RecordInv PROVE CorruptOnlyWhereCoarser
    OBVIOUS
  <2>1. ASSUME row # NULL, ~Coarser(row) PROVE Loads(row)
    <3>1. row \in Rows /\ Visible(row) /\ row.updated >= row.created
      BY <2>1, SchemaSays DEF RecordInv
    <3>2. Sound(Snapshot(row))  BY <2>1, <3>1, ReadBack
    <3>3. /\ Snapshot(row).kind = row.kind /\ Snapshot(row).status = row.status
          /\ Snapshot(row).updated = row.updated /\ Snapshot(row).created = row.created
      BY DEF Snapshot
    <3>4. Snapshot(row).id # Nil
      <4>1. Snapshot(row).id = "id"  BY <3>2 DEF Sound, Transactions
      <4> QED  BY <4>1, RecordAssumption
    <3>5. row.currency \in Currencies
      BY <2>1, <3>1 DEF Rows, CurrencyCodes, Visible, Coarser
    <3> QED  BY <3>1, <3>2, <3>3, <3>4, <3>5
       DEF Sound, Loads, isSupported, RehydrateWagerTransaction, Visible
  <2>2. ASSUME row # NULL, Coarser(row) PROVE ~Loads(row)
    BY <2>2, SchemaSays, RefusedWhereCoarser DEF RecordInv
  <2>3. stored # Nil => row # NULL /\ ~Coarser(row)  BY DEF RecordInv
  <2>4. refused \subseteq BeyondTheType  BY DEF RecordInv
  <2> QED  BY <2>1, <2>2, <2>3, <2>4 DEF CorruptOnlyWhereCoarser
<1> QED  BY <1>1, RecordInvariant, PTL

-----------------------------------------------------------------------------
(* The pages of a ledger. *)
Moneys == [units : Ints, currency : {Currency}]

(* The entries a ledger is made of. *)
Entries == [wallet : Wallets, transaction : Nat \ {0}, version : Nat \ {0}, direction : {"CREDIT", "DEBIT"},
            amount : Moneys, before : Moneys, after : Moneys]

(* What wallets and ledgers are made of. *)
ReadsType ==
  /\ wallets \in [Wallets -> [balance : Moneys, version : Nat \ {0}]]
  /\ ledger \in [Wallets -> Seq(Entries)]
  /\ altered \subseteq Wallets
InOrder(s) == \A i, j \in 1 .. Len(s) : i < j => s[i].version < s[j].version

(* The entries of a ledger nothing else has written to are in the order    *)
(* of their versions, and none is ahead of its wallet.                     *)
WalletOrder ==
  \A w \in Wallets \ altered :
    /\ InOrder(ledger[w])
    /\ \A i \in 1 .. Len(ledger[w]) : ledger[w][i].version <= wallets[w].version

(* The caller's fields. *)
PagerShape ==
  pager = [wallet |-> pager.wallet, at |-> pager.at, cursor |-> pager.cursor, limit |-> pager.limit,
           snapshot |-> pager.snapshot, seen |-> pager.seen]
(* The cursor stands where what was seen ends. *)
CursorMarks(s) ==
  pager.cursor = IF s = <<>> THEN NoCursor ELSE encodeCursor(pager.wallet, s[Len(s)].version)

(* What a caller has seen is a prefix of the ledger; while it may go on,   *)
(* its cursor stands at the end of that; and the snapshot of a page is a   *)
(* later prefix.                                                           *)
PagerInv ==
  /\ pager.wallet \in Wallets \cup {None}
  /\ pager.wallet = None => pager = NoPage
  /\ pager.wallet \in Wallets \ altered =>
       /\ pager.at \in {"reading", "paged", "finished", "refused"}
       /\ pager.seen \in Seq(Entries) /\ IsPrefix(pager.seen, ledger[pager.wallet])
       /\ pager.at # "finished" => CursorMarks(pager.seen)
       /\ pager.at = "reading" =>
            /\ pager.limit \in Nat \ {0}
            /\ pager.snapshot \in Seq(Entries)
            /\ IsPrefix(pager.snapshot, ledger[pager.wallet])
            /\ IsPrefix(pager.seen, pager.snapshot)
       /\ pager.at = "finished" => pager.snapshot = pager.seen

(* The strengthening of PagesTellTheLedger. *)
PagesInv == ReadsType /\ WalletOrder /\ PagerShape /\ PagerInv

(* A prefix, index by index. *)
LEMMA PrefixIs ==
  ASSUME NEW S, NEW s \in Seq(S), NEW t \in Seq(S)
  PROVE  IsPrefix(s, t) <=> Len(s) <= Len(t) /\ \A i \in 1 .. Len(s) : s[i] = t[i]
<1>1. ASSUME Len(s) <= Len(t)
      PROVE  SubSeq(s, 1, Len(s)) = SubSeq(t, 1, Len(s)) <=> \A i \in 1 .. Len(s) : s[i] = t[i]
  <2>1. SubSeq(s, 1, Len(s)) = s  OBVIOUS
  <2>2. SubSeq(t, 1, Len(s)) \in Seq(S) /\ Len(SubSeq(t, 1, Len(s))) = Len(s)
        /\ \A i \in 1 .. Len(s) : SubSeq(t, 1, Len(s))[i] = t[i]
    BY <1>1
  <2> QED  BY <2>1, <2>2
<1> QED  BY <1>1 DEF IsPrefix

(* The version a cursor after s names. *)
LastVersion(s) == IF s = <<>> THEN 0 ELSE s[Len(s)].version

(* A page goes on from what was seen. *)
Advances(seen, page, s, limit) ==
  /\ page \in Seq(Entries) /\ seen \o page \in Seq(Entries)
  /\ IsPrefix(seen \o page, s)
  /\ Len(page) = limit => page # <<>>
  /\ Len(page) # limit => seen \o page = s
  /\ page # <<>> => /\ seen \o page # <<>>
                    /\ (seen \o page)[Len(seen \o page)] = page[Len(page)]

(* The page behind the last entry seen goes on from it: nothing is         *)
(* skipped, nothing comes twice, and a page that is not full is the last.  *)
LEMMA PageIs ==
  ASSUME NEW s \in Seq(Entries), InOrder(s), NEW seen \in Seq(Entries), IsPrefix(seen, s),
         NEW limit \in Nat \ {0},
         NEW after, after = LastVersion(seen),
         NEW page, page = PageFrom(s, after, limit)
  PROVE  Advances(seen, page, s, limit)
<1>1. /\ Len(seen) \in 0 .. Len(s) /\ Len(s) \in Nat /\ Len(seen) \in Nat
      /\ \A i \in 1 .. Len(seen) : seen[i] = s[i]
      /\ \A i \in 1 .. Len(s) : s[i] \in Entries /\ s[i].version \in Nat \ {0}
  <2>1. \A i \in 1 .. Len(s) : s[i] \in Entries  OBVIOUS
  <2>2. \A e \in Entries : e.version \in Nat \ {0}  BY DEF Entries
  <2>3. Len(seen) <= Len(s) /\ \A i \in 1 .. Len(seen) : seen[i] = s[i]  BY PrefixIs
  <2> QED  BY <2>1, <2>2, <2>3
<1>2. \A i \in 1 .. Len(s) : s[i].version > after <=> i > Len(seen)
  <2>1. CASE seen = <<>>  BY <1>1, <2>1 DEF LastVersion
  <2>2. CASE seen # <<>>
    <3>1. Len(seen) \in 1 .. Len(s) /\ after = s[Len(seen)].version  BY <1>1, <2>2 DEF LastVersion
    <3> QED  BY <1>1, <3>1 DEF InOrder
  <2> QED  BY <2>1, <2>2
<1>3. Behind(s, after) = Len(seen)
  <2>1. \A n \in 0 .. Len(s) :
          (\A i \in 1 .. Len(s) : s[i].version > after <=> i > n) => n = Len(seen)
    <3> SUFFICES ASSUME NEW n \in 0 .. Len(s),
                        \A i \in 1 .. Len(s) : s[i].version > after <=> i > n
                 PROVE  n = Len(seen)
      OBVIOUS
    <3>1. \A i \in 1 .. Len(s) : i > n <=> i > Len(seen)  BY <1>2
    <3>2. ~(n < Len(seen))
      <4>1. n < Len(seen) => Len(seen) \in 1 .. Len(s) /\ Len(seen) > n  BY <1>1
      <4> QED  BY <1>1, <3>1, <4>1
    <3>3. ~(Len(seen) < n)
      <4>1. Len(seen) < n => n \in 1 .. Len(s)  BY <1>1
      <4> QED  BY <1>1, <3>1, <4>1
    <3> QED  BY <1>1, <3>2, <3>3
  <2> QED  BY <1>1, <1>2, <2>1 DEF Behind
<1> DEFINE m == IF Len(seen) + limit < Len(s) THEN Len(seen) + limit ELSE Len(s)
<1>4. m \in Len(seen) .. Len(s) /\ (m = Len(seen) + limit \/ m = Len(s))
      /\ (m - Len(seen) # limit => m = Len(s)) /\ m - Len(seen) <= limit
  BY <1>1
<1>5. PICK p : p = SubSeq(s, Len(seen) + 1, m)  OBVIOUS
<1>6. page = p  BY <1>3, <1>5 DEF PageFrom
<1> HIDE DEF m
<1>7. p \in Seq(Entries) /\ Len(p) = m - Len(seen)
      /\ \A i \in 1 .. Len(p) : p[i] = s[Len(seen) + i]
  <2>1. Len(seen) + 1 \in Int /\ m \in Int /\ \A i \in Len(seen) + 1 .. m : s[i] \in Entries
    BY <1>1, <1>4
  <2>2. /\ p \in Seq(Entries)
        /\ Len(p) = IF Len(seen) + 1 <= m THEN m - (Len(seen) + 1) + 1 ELSE 0
        /\ \A i \in 1 .. m - (Len(seen) + 1) + 1 : p[i] = s[Len(seen) + 1 + i - 1]
    BY <1>5, <2>1, SubSeqProperties
  <2>3. Len(p) = m - Len(seen)  BY <1>1, <1>4, <2>2
  <2> QED  BY <1>1, <1>4, <2>2, <2>3
<1>8. seen \o p \in Seq(Entries) /\ Len(seen \o p) = m
      /\ \A i \in 1 .. m : (seen \o p)[i] = s[i]
  <2>1. PICK both : both = seen \o p  OBVIOUS
  <2>2. /\ both \in Seq(Entries) /\ Len(both) = m
        /\ \A i \in 1 .. m : both[i] = IF i <= Len(seen) THEN seen[i] ELSE p[i - Len(seen)]
    <3>1. /\ both \in Seq(Entries) /\ Len(both) = Len(seen) + Len(p)
          /\ \A i \in 1 .. Len(seen) + Len(p) :
               both[i] = IF i <= Len(seen) THEN seen[i] ELSE p[i - Len(seen)]
      BY <1>7, <2>1, ConcatProperties
    <3> QED  BY <1>1, <1>4, <1>7, <3>1
  <2>3. ASSUME NEW i \in 1 .. m PROVE both[i] = s[i]
    <3>1. CASE i <= Len(seen)  BY <1>1, <2>2, <3>1
    <3>2. CASE ~(i <= Len(seen))
      <4>1. i - Len(seen) \in 1 .. Len(p) /\ Len(seen) + (i - Len(seen)) = i
        BY <1>1, <1>4, <1>7, <3>2
      <4> QED  BY <1>7, <2>2, <3>2, <4>1
    <3> QED  BY <3>1, <3>2
  <2> QED  BY <2>1, <2>2, <2>3
<1>9. IsPrefix(seen \o p, s)
  <2>1. Len(seen \o p) <= Len(s) /\ \A i \in 1 .. Len(seen \o p) : (seen \o p)[i] = s[i]
    BY <1>1, <1>4, <1>8
  <2>2. PICK both : both = seen \o p  OBVIOUS
  <2> QED  BY <1>8, <2>1, <2>2, PrefixIs
<1>10. Len(p) = limit => p # <<>>  BY <1>7
<1>11. Len(p) # limit => seen \o p = s
  <2>1. Len(p) # limit => m = Len(s)  BY <1>4, <1>7
  <2> QED  BY <1>8, <2>1, SeqEqual
<1>12. p # <<>> => seen \o p # <<>> /\ (seen \o p)[Len(seen \o p)] = p[Len(p)]
  <2>1. p # <<>> => Len(p) \in 1 .. Len(p) /\ m = Len(seen) + Len(p) /\ m \in 1 .. m
    BY <1>1, <1>4, <1>7
  <2> QED  BY <1>7, <1>8, <2>1
<1>13. p \in Seq(Entries) /\ seen \o p \in Seq(Entries)  BY <1>7, <1>8
<1>14. Advances(seen, p, s, limit)  BY <1>9, <1>10, <1>11, <1>12, <1>13, Zenon DEF Advances
<1> QED  BY <1>6, <1>14

(* Prefixes of a sequence: itself, and the empty one. *)
LEMMA PrefixSelf ==
  ASSUME NEW S, NEW s \in Seq(S)
  PROVE  IsPrefix(s, s) /\ <<>> \in Seq(S) /\ IsPrefix(<<>>, s)
<1>1. <<>> \in Seq(S) /\ Len(<<>>) = 0  OBVIOUS
<1>2. PICK e : e = <<>>  OBVIOUS
<1>3. e \in Seq(S) /\ Len(e) = 0  BY <1>1, <1>2
<1>4. Len(e) <= Len(s) /\ \A i \in 1 .. Len(e) : e[i] = s[i]  BY <1>3
<1>5. IsPrefix(e, s)  BY <1>3, <1>4, PrefixIs
<1>6. IsPrefix(s, s)  BY PrefixIs
<1> QED  BY <1>1, <1>2, <1>5, <1>6

(* A prefix of a prefix. *)
LEMMA PrefixOfPrefix ==
  ASSUME NEW S, NEW s \in Seq(S), NEW t \in Seq(S), NEW u \in Seq(S), IsPrefix(s, t), IsPrefix(t, u)
  PROVE  IsPrefix(s, u)
<1>1. Len(s) <= Len(t) /\ \A i \in 1 .. Len(s) : s[i] = t[i]  BY PrefixIs
<1>2. Len(t) <= Len(u) /\ \A i \in 1 .. Len(t) : t[i] = u[i]  BY PrefixIs
<1>3. Len(s) <= Len(u) /\ \A i \in 1 .. Len(s) : s[i] = u[i]  BY <1>1, <1>2
<1> QED  BY <1>3, PrefixIs

(* A prefix of an ordered ledger is ordered. *)
LEMMA PrefixInOrder ==
  ASSUME NEW s \in Seq(Entries), NEW t \in Seq(Entries), IsPrefix(s, t), InOrder(t)
  PROVE  InOrder(s)
<1>1. Len(s) <= Len(t) /\ \A i \in 1 .. Len(s) : s[i] = t[i]  BY PrefixIs
<1> QED  BY <1>1 DEF InOrder

(* A sequence and one element more. *)
LEMMA Appended ==
  ASSUME NEW S, NEW s \in Seq(S), NEW e \in S
  PROVE  /\ Append(s, e) \in Seq(S) /\ Len(Append(s, e)) = Len(s) + 1
         /\ \A i \in 1 .. Len(s) : Append(s, e)[i] = s[i]
         /\ Append(s, e)[Len(s) + 1] = e /\ IsPrefix(s, Append(s, e))
<1>1. PICK t : t = Append(s, e)  OBVIOUS
<1>2. /\ t \in Seq(S) /\ Len(t) = Len(s) + 1
      /\ \A i \in 1 .. Len(s) : t[i] = s[i]
      /\ t[Len(s) + 1] = e
  BY <1>1
<1>3. IsPrefix(s, t)  BY <1>2, PrefixIs
<1> QED  BY <1>1, <1>2, <1>3

(* The wallets hold one currency, and it is a currency. *)
LEMMA OneCurrency ==
  /\ Currency \in Supported /\ Currency # None
  /\ Ints \subseteq Int /\ 0 \in Ints
  /\ \A u \in Ints : Cash(u) \in Moneys /\ Cash(u).units = u /\ Cash(u).currency = Currency
<1>1. Currency \in Supported  BY ReadsAssumption DEF Currency
<1>2. Currency # None  BY <1>1, MoneyAssumption
<1>3. Ints \subseteq Int /\ 0 \in Ints  BY MoneyAssumption DEF Ints, MinInt
<1> QED  BY <1>1, <1>2, <1>3 DEF Cash, Money, Moneys

(* applyDirection is the sum or the difference, where the width holds it,  *)
(* and a refusal where not.                                                *)
LEMMA Applied ==
  ASSUME NEW m \in Moneys, NEW n \in Moneys, NEW d \in {"CREDIT", "DEBIT"}
  PROVE  LET sum == IF d = "CREDIT" THEN m.units + n.units ELSE m.units - n.units
             r == applyDirection(d, m, n)
         IN /\ r.ok \in BOOLEAN /\ (r.ok <=> sum \in Ints)
            /\ r.ok => r = Ok(Cash(sum)) /\ r.value = Cash(sum) /\ r.value \in Moneys
<1> DEFINE sum == IF d = "CREDIT" THEN m.units + n.units ELSE m.units - n.units
<1> DEFINE r == applyDirection(d, m, n)
<1>1. /\ m.units \in Int /\ n.units \in Int /\ m.currency = Currency /\ n.currency = Currency
      /\ m.units \in Ints /\ n.units \in Ints
      /\ Currency # None /\ MaxInt \in Nat
  BY OneCurrency, MoneyAssumption DEF Moneys
<1>2. compatible(m, n) = None  BY <1>1 DEF compatible, IsUninitialized
<1>3. CASE sum \in Ints
  <2>1. r = Ok(Money(sum, Currency))
    <3>1. CASE d = "CREDIT"
      <4>1. ~(\/ n.units > 0 /\ m.units > MaxInt - n.units
              \/ n.units < 0 /\ m.units < MinInt - n.units)
        BY <1>1, <1>3, <3>1 DEF Ints, MinInt
      <4> QED  BY <1>1, <1>2, <3>1, <4>1 DEF applyDirection, Add
    <3>2. CASE d # "CREDIT"
      <4>1. ~(\/ n.units < 0 /\ m.units > MaxInt + n.units
              \/ n.units > 0 /\ m.units < MinInt + n.units)
        BY <1>1, <1>3, <3>2 DEF Ints, MinInt
      <4> QED  BY <1>1, <1>2, <3>2, <4>1 DEF applyDirection, Sub
    <3> QED  BY <3>1, <3>2
  <2>2. sum \in Int  BY <1>1
  <2>3. Ok(Money(sum, Currency)).ok = TRUE /\ Ok(Money(sum, Currency)).value = Money(sum, Currency)
    BY DEF Ok
  <2> QED  BY <1>3, <2>1, <2>2, <2>3, OneCurrency DEF Cash
<1>4. CASE sum \notin Ints
  <2>1. r = Refused("AMOUNT_OUT_OF_RANGE")
    <3>1. CASE d = "CREDIT"
      <4>1. \/ n.units > 0 /\ m.units > MaxInt - n.units
            \/ n.units < 0 /\ m.units < MinInt - n.units
        BY <1>1, <1>4, <3>1 DEF Ints, MinInt
      <4> QED  BY <1>1, <1>2, <3>1, <4>1 DEF applyDirection, Add
    <3>2. CASE d # "CREDIT"
      <4>1. \/ n.units < 0 /\ m.units > MaxInt + n.units
            \/ n.units > 0 /\ m.units < MinInt + n.units
        BY <1>1, <1>4, <3>2 DEF Ints, MinInt
      <4> QED  BY <1>1, <1>2, <3>2, <4>1 DEF applyDirection, Sub
    <3> QED  BY <3>1, <3>2
  <2>2. Refused("AMOUNT_OUT_OF_RANGE").ok = FALSE  BY DEF Refused
  <2> QED  BY <1>4, <2>1, <2>2
<1> QED  BY <1>3, <1>4

(* A movement writes one entry, at the version it gives the wallet. *)
LEMMA MoveIs ==
  ASSUME ReadsType, NEW w \in Wallets, Move(w)
  PROVE  \E e \in Entries :
           /\ e.wallet = w /\ e.transaction = e.version /\ e.version = wallets[w].version + 1
           /\ e.before = wallets[w].balance /\ e.before.units >= 0
           /\ e.amount.units > 0 /\ e.after.units >= 0
           /\ applyDirection(e.direction, e.before, e.amount) = Ok(e.after)
           /\ ledger' = [ledger EXCEPT ![w] = Append(ledger[w], e)]
           /\ wallets' = [wallets EXCEPT ![w] = [balance |-> e.after, version |-> e.version]]
<1>1. PICK d \in {"CREDIT", "DEBIT"} : \E amount \in Amounts :
        LET after == applyDirection(d, wallets[w].balance, Cash(amount))
            version == wallets[w].version + 1
        IN /\ RehydrateWallet(wallets[w])
           /\ after.ok /\ after.value.units >= 0
           /\ wallets' = [wallets EXCEPT ![w] = [balance |-> after.value, version |-> version]]
           /\ ledger' = [ledger EXCEPT ![w] =
                          Append(@, Entry(w, version, d, wallets[w].balance, Cash(amount),
                                          after.value))]
  BY DEF Move
<1>2. PICK amount \in Amounts :
        LET after == applyDirection(d, wallets[w].balance, Cash(amount))
            version == wallets[w].version + 1
        IN /\ RehydrateWallet(wallets[w])
           /\ after.ok /\ after.value.units >= 0
           /\ wallets' = [wallets EXCEPT ![w] = [balance |-> after.value, version |-> version]]
           /\ ledger' = [ledger EXCEPT ![w] =
                          Append(@, Entry(w, version, d, wallets[w].balance, Cash(amount),
                                          after.value))]
  BY <1>1
<1> DEFINE r == applyDirection(d, wallets[w].balance, Cash(amount))
<1>3. wallets[w].balance \in Moneys /\ wallets[w].version \in Nat \ {0} /\ amount \in Ints
      /\ amount > 0
  BY ReadsAssumption, OneCurrency, MoneyAssumption DEF ReadsType, Ints, MinInt
<1>4. Cash(amount) \in Moneys /\ Cash(amount).units = amount  BY <1>3, OneCurrency
<1>5. r.value \in Moneys /\ r = Ok(r.value)  BY <1>2, <1>3, <1>4, Applied
<1> DEFINE e == Entry(w, wallets[w].version + 1, d, wallets[w].balance, Cash(amount), r.value)
<1>6. /\ e.wallet = w /\ e.transaction = e.version /\ e.version = wallets[w].version + 1
      /\ e.before = wallets[w].balance /\ e.amount = Cash(amount) /\ e.after = r.value
      /\ e.direction = d
  BY DEF Entry
<1>7. e \in Entries  BY <1>3, <1>4, <1>5 DEF Entry, Entries
<1>8. wallets[w].balance.units >= 0  BY <1>2 DEF RehydrateWallet
<1>9. /\ ledger' = [ledger EXCEPT ![w] = Append(ledger[w], e)]
      /\ wallets' = [wallets EXCEPT ![w] = [balance |-> r.value, version |-> e.version]]
      /\ r.value.units >= 0
  BY <1>2, <1>6
<1>10. /\ e.before.units >= 0 /\ e.amount.units > 0 /\ e.after.units >= 0
       /\ applyDirection(e.direction, e.before, e.amount) = Ok(e.after)
  BY <1>3, <1>4, <1>5, <1>6, <1>8, <1>9
<1> HIDE DEF r, e
<1>11. wallets' = [wallets EXCEPT ![w] = [balance |-> e.after, version |-> e.version]]
  BY <1>6, <1>9
<1> QED  BY <1>6, <1>7, <1>9, <1>10, <1>11

(* A sequence without one of its elements. *)
LEMMA RemovedType ==
  ASSUME NEW S, NEW s \in Seq(S), NEW i \in 1 .. Len(s)
  PROVE  /\ RemoveAt(s, i) \in Seq(S) /\ Len(RemoveAt(s, i)) = Len(s) - 1
         /\ \A j \in 1 .. Len(s) - 1 : RemoveAt(s, i)[j] = IF j < i THEN s[j] ELSE s[j + 1]
<1>1. PICK t : t = SubSeq(s, 1, i - 1)  OBVIOUS
<1>2. PICK u : u = SubSeq(s, i + 1, Len(s))  OBVIOUS
<1>3. \A j \in 1 .. Len(s) : s[j] \in S  OBVIOUS
<1>4. t \in Seq(S) /\ Len(t) = i - 1 /\ \A j \in 1 .. i - 1 : t[j] = s[j]
  <2>1. 1 \in Int /\ i - 1 \in Int /\ \A j \in 1 .. i - 1 : s[j] \in S  BY <1>3
  <2>2. /\ t \in Seq(S) /\ Len(t) = IF 1 <= i - 1 THEN i - 1 - 1 + 1 ELSE 0
        /\ \A j \in 1 .. i - 1 - 1 + 1 : t[j] = s[1 + j - 1]
    BY <1>1, <2>1, SubSeqProperties
  <2> QED  BY <2>2
<1>5. u \in Seq(S) /\ Len(u) = Len(s) - i /\ \A j \in 1 .. Len(s) - i : u[j] = s[i + j]
  <2>1. i + 1 \in Int /\ Len(s) \in Int /\ \A j \in i + 1 .. Len(s) : s[j] \in S  BY <1>3
  <2>2. /\ u \in Seq(S) /\ Len(u) = IF i + 1 <= Len(s) THEN Len(s) - (i + 1) + 1 ELSE 0
        /\ \A j \in 1 .. Len(s) - (i + 1) + 1 : u[j] = s[i + 1 + j - 1]
    BY <1>2, <2>1, SubSeqProperties
  <2>3. Len(u) = Len(s) - i  BY <2>2
  <2>4. ASSUME NEW j \in 1 .. Len(s) - i PROVE u[j] = s[i + j]
    <3>1. j \in 1 .. Len(s) - (i + 1) + 1 /\ i + 1 + j - 1 = i + j  OBVIOUS
    <3> QED  BY <2>2, <3>1
  <2> QED  BY <2>2, <2>3, <2>4
<1>6. PICK v : v = t \o u  OBVIOUS
<1>7. /\ v \in Seq(S) /\ Len(v) = Len(t) + Len(u)
      /\ \A j \in 1 .. Len(t) + Len(u) : v[j] = IF j <= Len(t) THEN t[j] ELSE u[j - Len(t)]
  BY <1>4, <1>5, <1>6, ConcatProperties
<1>8. ASSUME NEW j \in 1 .. Len(s) - 1 PROVE v[j] = IF j < i THEN s[j] ELSE s[j + 1]
  <2> /\ Len(t) = i - 1 /\ Len(t) + Len(u) = Len(s) - 1 /\ Len(s) \in Nat
      /\ j \in 1 .. Len(t) + Len(u)
    BY <1>4, <1>5
  <2>1. v[j] = IF j <= Len(t) THEN t[j] ELSE u[j - Len(t)]  BY <1>7
  <2>2. CASE j < i
    <3>1. j \in 1 .. i - 1 /\ j <= Len(t)  BY <2>2
    <3> QED  BY <1>4, <2>1, <2>2, <3>1
  <2>3. CASE ~(j < i)
    <3>1. j - Len(t) \in 1 .. Len(s) - i /\ i + (j - Len(t)) = j + 1 /\ ~(j <= Len(t))
      BY <2>3
    <3>2. u[j - Len(t)] = s[i + (j - Len(t))]  BY <1>5, <3>1
    <3> QED  BY <2>1, <2>3, <3>1, <3>2
  <2> QED  BY <2>2, <2>3
<1>9. RemoveAt(s, i) = v  BY <1>1, <1>2, <1>6 DEF RemoveAt
<1>10. Len(v) = Len(s) - 1  BY <1>4, <1>5, <1>7
<1> QED  BY <1>7, <1>8, <1>9, <1>10

(* What something else makes of a row and its ledger. *)
Alters(r, s, q, t) ==
  \/ t = s /\ q.balance.units = r.balance.units + 1
  \/ \E i \in 1 .. Len(s) : t = RemoveAt(s, i) /\ q = r
  \/ \E i \in 1 .. Len(s) : \E e \in Entries :
       t = Append(s, e) /\ e.transaction = s[i].transaction
  \/ \E i \in 1 .. Len(s) : \E e \in Entries :
       /\ t = [s EXCEPT ![i] = e]
       /\ e.direction = s[i].direction /\ e.before = s[i].before /\ e.after = s[i].after
       /\ e.amount.units = s[i].amount.units + 1

(* Something else writes to one wallet and its ledger, and leaves them     *)
(* what they are made of.                                                  *)
LEMMA TamperIs ==
  ASSUME ReadsType, NEW w \in Wallets, Tamper(w)
  PROVE  /\ wallets' \in [Wallets -> [balance : Moneys, version : Nat \ {0}]]
         /\ ledger' \in [Wallets -> Seq(Entries)]
         /\ \A v \in Wallets \ {w} : wallets'[v] = wallets[v] /\ ledger'[v] = ledger[v]
         /\ Alters(wallets[w], ledger[w], wallets'[w], ledger'[w])
<1> DEFINE Raised == /\ wallets[w].balance.units < MaxInt
                     /\ wallets' = [wallets EXCEPT ![w].balance.units = @ + 1]
                     /\ UNCHANGED ledger
<1> DEFINE Lost == \E i \in 1 .. Len(ledger[w]) :
                     /\ ledger' = [ledger EXCEPT ![w] = RemoveAt(@, i)]
                     /\ UNCHANGED wallets
<1> DEFINE Twice == \E i \in 1 .. Len(ledger[w]) :
                      /\ ledger' = [ledger EXCEPT ![w] = Append(@, [@[i] EXCEPT !.version = wallets[w].version + 1])]
                      /\ wallets' = [wallets EXCEPT ![w].version = @ + 1]
<1> DEFINE Bent == \E i \in 1 .. Len(ledger[w]) :
                     /\ ledger[w][i].amount.units < MaxInt
                     /\ ledger' = [ledger EXCEPT ![w][i].amount.units = @ + 1]
                     /\ UNCHANGED wallets
<1>1. /\ wallets \in [Wallets -> [balance : Moneys, version : Nat \ {0}]]
      /\ ledger \in [Wallets -> Seq(Entries)] /\ ledger[w] \in Seq(Entries)
      /\ wallets[w] \in [balance : Moneys, version : Nat \ {0}]
  BY DEF ReadsType
<1>2. \A i \in 1 .. Len(ledger[w]) : ledger[w][i] \in Entries  BY <1>1, ElementOfSeq
<1>3. CASE Raised
  <2>1. PICK u : u = wallets[w].balance.units + 1  OBVIOUS
  <2>2. u \in Ints  BY <1>1, <1>3, <2>1, MoneyAssumption DEF Moneys, Ints, MinInt
  <2>3. PICK b : b = [wallets[w].balance EXCEPT !.units = u]  OBVIOUS
  <2>4. b \in Moneys  BY <1>1, <2>2, <2>3 DEF Moneys
  <2>5. wallets' = [wallets EXCEPT ![w] = [wallets[w] EXCEPT !.balance = b]]
    BY <1>3, <2>1, <2>3
  <2>6. /\ wallets' \in [Wallets -> [balance : Moneys, version : Nat \ {0}]]
        /\ ledger' \in [Wallets -> Seq(Entries)]
        /\ \A v \in Wallets \ {w} : wallets'[v] = wallets[v] /\ ledger'[v] = ledger[v]
    BY <1>1, <1>3, <2>4, <2>5
  <2>7. wallets'[w].balance = b /\ ledger' = ledger  BY <1>1, <1>3, <2>5
  <2>8. b.units = wallets[w].balance.units + 1  BY <1>1, <2>1, <2>3 DEF Moneys
  <2> QED  BY <2>6, <2>7, <2>8 DEF Alters
<1>4. CASE Lost
  <2>1. PICK i \in 1 .. Len(ledger[w]) :
          ledger' = [ledger EXCEPT ![w] = RemoveAt(ledger[w], i)]
    BY <1>4
  <2>2. RemoveAt(ledger[w], i) \in Seq(Entries)  BY <1>1, RemovedType
  <2>3. PICK s \in Seq(Entries) : s = RemoveAt(ledger[w], i)  BY <2>2
  <2>4. /\ wallets' \in [Wallets -> [balance : Moneys, version : Nat \ {0}]]
        /\ ledger' \in [Wallets -> Seq(Entries)]
        /\ \A v \in Wallets \ {w} : wallets'[v] = wallets[v] /\ ledger'[v] = ledger[v]
        /\ ledger'[w] = s /\ wallets'[w] = wallets[w]
    BY <1>1, <1>4, <2>1, <2>3
  <2> QED  BY <2>3, <2>4 DEF Alters
<1>5. CASE Twice
  <2>1. PICK k : k = wallets[w].version + 1  OBVIOUS
  <2>2. k \in Nat \ {0}  BY <1>1, <2>1
  <2>3. PICK i \in 1 .. Len(ledger[w]) :
          /\ ledger' = [ledger EXCEPT ![w] = Append(ledger[w], [ledger[w][i] EXCEPT !.version = k])]
          /\ wallets' = [wallets EXCEPT ![w] = [wallets[w] EXCEPT !.version = k]]
    BY <1>5, <2>1
  <2>4. PICK e : e = [ledger[w][i] EXCEPT !.version = k]  OBVIOUS
  <2>5. e \in Entries  BY <1>2, <2>2, <2>3, <2>4 DEF Entries
  <2>6. Append(ledger[w], e) \in Seq(Entries)  BY <1>1, <2>5, Appended
  <2>7. [wallets[w] EXCEPT !.version = k] \in [balance : Moneys, version : Nat \ {0}]
    BY <1>1, <2>2
  <2>8. PICK s \in Seq(Entries) : s = Append(ledger[w], e)  BY <2>6
  <2>9. /\ wallets' \in [Wallets -> [balance : Moneys, version : Nat \ {0}]]
        /\ ledger' \in [Wallets -> Seq(Entries)]
        /\ \A v \in Wallets \ {w} : wallets'[v] = wallets[v] /\ ledger'[v] = ledger[v]
        /\ ledger'[w] = s
    BY <1>1, <2>3, <2>4, <2>7, <2>8
  <2>10. e.transaction = ledger[w][i].transaction  BY <1>2, <2>3, <2>4 DEF Entries
  <2> QED  BY <2>3, <2>5, <2>8, <2>9, <2>10 DEF Alters
<1>6. CASE Bent
  <2>1. PICK i \in 1 .. Len(ledger[w]) :
          /\ ledger[w][i].amount.units < MaxInt
          /\ ledger' = [ledger EXCEPT ![w][i].amount.units = ledger[w][i].amount.units + 1]
    BY <1>6
  <2>2. PICK u : u = ledger[w][i].amount.units + 1  OBVIOUS
  <2>3. ledger[w][i] \in Entries /\ ledger[w][i].amount \in Moneys  BY <1>2, <2>1 DEF Entries
  <2>4. u \in Ints  BY <2>1, <2>2, <2>3, MoneyAssumption DEF Moneys, Ints, MinInt
  <2>5. PICK e : e = [ledger[w][i] EXCEPT !.amount = [ledger[w][i].amount EXCEPT !.units = u]]
    OBVIOUS
  <2>6. e \in Entries  BY <2>3, <2>4, <2>5 DEF Entries, Moneys
  <2>7. ledger' = [ledger EXCEPT ![w] = [ledger[w] EXCEPT ![i] = e]]
    BY <2>1, <2>2, <2>5
  <2>8. [ledger[w] EXCEPT ![i] = e] \in Seq(Entries)  BY <1>1, <2>1, <2>6
  <2>9. PICK s \in Seq(Entries) : s = [ledger[w] EXCEPT ![i] = e]  BY <2>8
  <2>10. /\ wallets' \in [Wallets -> [balance : Moneys, version : Nat \ {0}]]
         /\ ledger' \in [Wallets -> Seq(Entries)]
         /\ \A v \in Wallets \ {w} : wallets'[v] = wallets[v] /\ ledger'[v] = ledger[v]
         /\ ledger'[w] = s /\ wallets'[w] = wallets[w]
    BY <1>1, <1>6, <2>7, <2>9
  <2>11. /\ e.direction = ledger[w][i].direction /\ e.before = ledger[w][i].before
         /\ e.after = ledger[w][i].after /\ e.amount.units = ledger[w][i].amount.units + 1
    <3>1. PICK a : a = [ledger[w][i].amount EXCEPT !.units = u]  OBVIOUS
    <3>2. e = [ledger[w][i] EXCEPT !.amount = a]  BY <2>5, <3>1
    <3>3. a.units = u  BY <2>3, <3>1 DEF Moneys
    <3>4. /\ e.direction = ledger[w][i].direction /\ e.before = ledger[w][i].before
          /\ e.after = ledger[w][i].after /\ e.amount = a
      BY <2>3, <3>2 DEF Entries
    <3> QED  BY <2>2, <3>3, <3>4
  <2>12. Alters(wallets[w], ledger[w], wallets[w], s)
    <3>1. PICK old : old = ledger[w]  OBVIOUS
    <3>2. i \in 1 .. Len(old) /\ s = [old EXCEPT ![i] = e]  BY <2>9, <3>1
    <3>3. /\ e.direction = old[i].direction /\ e.before = old[i].before
          /\ e.after = old[i].after /\ e.amount.units = old[i].amount.units + 1
      BY <2>11, <3>1
    <3>4. Alters(wallets[w], old, wallets[w], s)  BY <2>6, <3>2, <3>3, Zenon DEF Alters
    <3> QED  BY <3>1, <3>4
  <2> QED  BY <2>10, <2>12
<1>7. Raised \/ Lost \/ Twice \/ Bent  BY Zenon DEF Tamper
<1> HIDE DEF Raised, Lost, Twice, Bent
<1> QED  BY <1>3, <1>4, <1>5, <1>6, <1>7

(* A movement lengthens a ledger and keeps it in the order of its          *)
(* versions.                                                               *)
LEMMA MovedType ==
  ASSUME ReadsType, NEW w \in Wallets, Move(w)
  PROVE  /\ wallets' \in [Wallets -> [balance : Moneys, version : Nat \ {0}]]
         /\ ledger' \in [Wallets -> Seq(Entries)]
         /\ \A v \in Wallets : IsPrefix(ledger[v], ledger'[v])
         /\ WalletOrder => WalletOrder'
<1>1. /\ wallets \in [Wallets -> [balance : Moneys, version : Nat \ {0}]]
      /\ ledger \in [Wallets -> Seq(Entries)] /\ ledger[w] \in Seq(Entries)
      /\ wallets[w].version \in Nat
      /\ \A v \in Wallets : ledger[v] \in Seq(Entries)
  BY DEF ReadsType
<1>2. PICK e \in Entries :
        /\ e.version = wallets[w].version + 1
        /\ ledger' = [ledger EXCEPT ![w] = Append(ledger[w], e)]
        /\ wallets' = [wallets EXCEPT ![w] = [balance |-> e.after, version |-> e.version]]
  BY MoveIs
<1>3. PICK b \in Moneys :
        /\ e.version = wallets[w].version + 1
        /\ ledger' = [ledger EXCEPT ![w] = Append(ledger[w], e)]
        /\ wallets' = [wallets EXCEPT ![w] = [balance |-> b, version |-> e.version]]
  BY <1>2 DEF Entries
<1>4. PICK s : s = Append(ledger[w], e)  OBVIOUS
<1>5. /\ s \in Seq(Entries) /\ Len(s) = Len(ledger[w]) + 1
      /\ \A i \in 1 .. Len(ledger[w]) : s[i] = ledger[w][i]
      /\ s[Len(ledger[w]) + 1] = e /\ IsPrefix(ledger[w], s)
  BY <1>1, <1>4, Appended
<1>6. e.version \in Nat \ {0}  BY DEF Entries
<1>7. ledger' = [ledger EXCEPT ![w] = s]  BY <1>3, <1>4
<1>8. \A v \in Wallets : IsPrefix(ledger[v], ledger'[v])
  <2> SUFFICES ASSUME NEW v \in Wallets PROVE IsPrefix(ledger[v], ledger'[v])
    OBVIOUS
  <2>1. CASE v = w  BY <1>1, <1>5, <1>7, <2>1
  <2>2. CASE v # w
    <3>1. ledger'[v] = ledger[v]  BY <1>1, <1>7, <2>2
    <3> QED  BY <1>1, <3>1, PrefixSelf
  <2> QED  BY <2>1, <2>2
<1>9. ASSUME WalletOrder, NEW v \in Wallets \ altered
      PROVE  /\ InOrder(ledger'[v])
             /\ \A i \in 1 .. Len(ledger'[v]) : ledger'[v][i].version <= wallets'[v].version
  <2>1. /\ InOrder(ledger[v])
        /\ \A i \in 1 .. Len(ledger[v]) : ledger[v][i].version <= wallets[v].version
    BY <1>9 DEF WalletOrder
  <2>2. CASE v # w
    <3>1. ledger'[v] = ledger[v] /\ wallets'[v] = wallets[v]  BY <1>1, <1>3, <2>2
    <3> QED  BY <2>1, <3>1
  <2>3. CASE v = w
    <3>1. ledger'[v] = s /\ wallets'[v].version = wallets[w].version + 1
      BY <1>1, <1>3, <1>7, <2>3
    <3>2. PICK n : n = Len(ledger[w])  OBVIOUS
    <3>3. n \in Nat /\ Len(s) = n + 1  BY <1>1, <1>5, <3>2
    <3>4. \A i \in 1 .. n : /\ s[i].version = ledger[w][i].version /\ s[i].version \in Nat
                            /\ s[i].version <= wallets[w].version
      <4>1. \A i \in 1 .. n : ledger[w][i] \in Entries  BY <1>1, <3>2, ElementOfSeq
      <4>2. \A x \in Entries : x.version \in Nat  BY DEF Entries
      <4> QED  BY <1>5, <2>1, <2>3, <3>2, <4>1, <4>2
    <3>5. s[n + 1].version = wallets[w].version + 1  BY <1>3, <1>5, <3>2
    <3>6. \A i, j \in 1 .. n + 1 : i < j => s[i].version < s[j].version
      <4> SUFFICES ASSUME NEW i \in 1 .. n + 1, NEW j \in 1 .. n + 1, i < j
                   PROVE  s[i].version < s[j].version
        OBVIOUS
      <4>1. i \in 1 .. n  BY <3>3
      <4>2. CASE j \in 1 .. n
        <5>1. ledger[w][i].version < ledger[w][j].version
          BY <2>1, <2>3, <3>2, <4>1, <4>2 DEF InOrder
        <5> QED  BY <3>4, <4>1, <4>2, <5>1
      <4>3. CASE j = n + 1  BY <1>1, <3>4, <3>5, <4>1, <4>3
      <4> QED  BY <3>3, <4>2, <4>3
    <3>7. \A i \in 1 .. n + 1 : s[i].version <= wallets[w].version + 1
      <4> SUFFICES ASSUME NEW i \in 1 .. n + 1 PROVE s[i].version <= wallets[w].version + 1
        OBVIOUS
      <4>1. i \in 1 .. n \/ i = n + 1  BY <3>3
      <4> QED  BY <1>1, <3>4, <3>5, <4>1
    <3> QED  BY <3>1, <3>3, <3>6, <3>7 DEF InOrder
  <2> QED  BY <2>2, <2>3
<1>10. altered' = altered  BY DEF Move
<1>11. WalletOrder => WalletOrder'  BY <1>9, <1>10 DEF WalletOrder
<1>12. /\ ledger' \in [Wallets -> Seq(Entries)]
       /\ wallets' \in [Wallets -> [balance : Moneys, version : Nat \ {0}]]
  BY <1>1, <1>3, <1>5, <1>6, <1>7
<1> QED  BY <1>8, <1>11, <1>12

(* What holds of the pager goes on holding while ledgers grow. *)
LEMMA PagerUndisturbed ==
  ASSUME ReadsType, PagerShape, PagerInv, UNCHANGED pager, altered \subseteq altered',
         ledger' \in [Wallets -> Seq(Entries)],
         \A v \in Wallets \ altered' : IsPrefix(ledger[v], ledger'[v])
  PROVE  PagerShape' /\ PagerInv'
<1>1. PagerShape'  BY DEF PagerShape
<1>2. ASSUME pager.wallet \in Wallets \ altered'
      PROVE  /\ IsPrefix(pager.seen, ledger'[pager.wallet])
             /\ pager.at = "reading" => IsPrefix(pager.snapshot, ledger'[pager.wallet])
  <2>1. /\ ledger[pager.wallet] \in Seq(Entries) /\ ledger'[pager.wallet] \in Seq(Entries)
        /\ IsPrefix(ledger[pager.wallet], ledger'[pager.wallet])
    BY <1>2 DEF ReadsType
  <2>2. /\ pager.seen \in Seq(Entries) /\ IsPrefix(pager.seen, ledger[pager.wallet])
        /\ pager.at = "reading" => /\ pager.snapshot \in Seq(Entries)
                                   /\ IsPrefix(pager.snapshot, ledger[pager.wallet])
    BY <1>2 DEF PagerInv
  <2>3. IsPrefix(pager.seen, ledger'[pager.wallet])  BY <2>1, <2>2, PrefixOfPrefix
  <2>4. pager.at = "reading" => IsPrefix(pager.snapshot, ledger'[pager.wallet])
    BY <2>1, <2>2, PrefixOfPrefix
  <2> QED  BY <2>3, <2>4
<1>3. \A s : CursorMarks(s)' <=> CursorMarks(s)  BY DEF CursorMarks
<1> QED  BY <1>1, <1>2 DEF PagerInv, CursorMarks

(* Wallets as OpenWallet leaves them. *)
LEMMA ReadsInitially == Init => PagesInv
<1> SUFFICES ASSUME Init PROVE PagesInv
  OBVIOUS
<1>1. PICK opening \in [Wallets -> {0} \cup Amounts] :
        /\ wallets = [w \in Wallets |-> [balance |-> Cash(opening[w]), version |-> 1]]
        /\ ledger = [w \in Wallets |->
                      IF opening[w] = 0 THEN <<>>
                      ELSE <<Entry(w, 1, "CREDIT", Cash(0), Cash(opening[w]), Cash(opening[w]))>>]
  BY DEF Init
<1>2. ASSUME NEW w \in Wallets
      PROVE  /\ wallets[w] \in [balance : Moneys, version : Nat \ {0}] /\ wallets[w].version = 1
             /\ ledger[w] \in Seq(Entries) /\ InOrder(ledger[w])
             /\ \A i \in 1 .. Len(ledger[w]) : ledger[w][i].version = 1
  <2>1. opening[w] \in Ints
    <3>1. opening[w] \in {0} \cup Amounts /\ \A a \in Amounts : a \in 1 .. MaxInt
      BY <1>1, ReadsAssumption
    <3> QED  BY <3>1, MoneyAssumption DEF Ints, MinInt
  <2>2. Cash(opening[w]) \in Moneys /\ Cash(0) \in Moneys  BY <2>1, OneCurrency
  <2>3. PICK e : e = Entry(w, 1, "CREDIT", Cash(0), Cash(opening[w]), Cash(opening[w]))
    OBVIOUS
  <2>4. e \in Entries /\ e.version = 1  BY <2>2, <2>3 DEF Entry, Entries
  <2>5. ledger[w] = <<>> \/ ledger[w] = <<e>>  BY <1>1, <2>3
  <2>6. ledger[w] \in Seq(Entries) /\ Len(ledger[w]) \in 0 .. 1
        /\ \A i \in 1 .. Len(ledger[w]) : ledger[w][i] = e
    <3>1. CASE ledger[w] = <<>>  BY <3>1
    <3>2. CASE ledger[w] = <<e>>  BY <2>4, <3>2
    <3> QED  BY <2>5, <3>1, <3>2
  <2>7. wallets[w] = [balance |-> Cash(opening[w]), version |-> 1]  BY <1>1
  <2>8. InOrder(ledger[w])  BY <2>6 DEF InOrder
  <2> QED  BY <2>2, <2>4, <2>6, <2>7, <2>8
<1>3. pager = NoPage /\ altered = {}  BY DEF Init
<1>4. ReadsType
  <2>1. wallets \in [Wallets -> [balance : Moneys, version : Nat \ {0}]]  BY <1>1, <1>2
  <2>2. ledger \in [Wallets -> Seq(Entries)]  BY <1>1, <1>2
  <2> QED  BY <1>3, <2>1, <2>2 DEF ReadsType
<1>5. WalletOrder  BY <1>2 DEF WalletOrder
<1>6. PagerShape /\ PagerInv  BY <1>3, ReadsAssumption DEF PagerShape, PagerInv, NoPage
<1> QED  BY <1>4, <1>5, <1>6 DEF PagesInv

(* Asking for a page: a cursor that is accepted is the one the caller was  *)
(* handed.                                                                 *)
LEMMA AskedPage ==
  ASSUME PagesInv, NEW w \in Wallets, AskPage(w)
  PROVE  PagerShape' /\ PagerInv'
<1>1. PICK asked \in Limits : \E cursor \in {pager.cursor} \cup {c \in Cursors : c.wallet # w} :
        /\ decodeCursor(cursor, w)
        /\ pager' = [pager EXCEPT !.wallet = w, !.at = "reading", !.cursor = cursor,
                                  !.limit = Limit(asked), !.snapshot = ledger[w]]
  BY DEF AskPage
<1>2. PICK cursor \in {pager.cursor} \cup {c \in Cursors : c.wallet # w} :
        /\ decodeCursor(cursor, w)
        /\ pager' = [pager EXCEPT !.wallet = w, !.at = "reading", !.cursor = cursor,
                                  !.limit = Limit(asked), !.snapshot = ledger[w]]
  BY <1>1
<1>3. cursor = pager.cursor
  <2>1. ASSUME cursor \in Cursors, cursor.wallet # w PROVE FALSE
    <3>1. cursor.version # 0  BY <2>1 DEF Cursors
    <3>2. cursor # NoCursor  BY <3>1 DEF NoCursor
    <3> QED  BY <1>2, <2>1, <3>2 DEF decodeCursor
  <2> QED  BY <1>2, <2>1
<1>4. Limit(asked) \in Nat \ {0}  BY ReadsAssumption DEF Limit
<1>5. /\ pager.at \in {"idle", "paged"} /\ pager.wallet \in {None, w}
      /\ UNCHANGED <<ledger, altered>>
  BY DEF AskPage
<1>6. PICK at : at = "reading"  OBVIOUS
<1>7. pager' = [wallet |-> w, at |-> at, cursor |-> pager.cursor, limit |-> Limit(asked),
                snapshot |-> ledger[w], seen |-> pager.seen]
  BY <1>2, <1>3, <1>6 DEF PagesInv, PagerShape
<1>8. ledger[w] \in Seq(Entries)  BY DEF PagesInv, ReadsType
<1>9. w \notin altered =>
        /\ pager.seen \in Seq(Entries) /\ IsPrefix(pager.seen, ledger[w])
        /\ pager.cursor = IF pager.seen = <<>> THEN NoCursor
                          ELSE encodeCursor(w, pager.seen[Len(pager.seen)].version)
  <2>1. CASE pager.wallet = w
    <3>1. w \notin altered => CursorMarks(pager.seen) /\ pager.seen \in Seq(Entries)
                              /\ IsPrefix(pager.seen, ledger[w])
      BY <1>5, <2>1 DEF PagesInv, PagerInv
    <3> QED  BY <2>1, <3>1 DEF CursorMarks
  <2>2. CASE pager.wallet = None
    <3>1. pager.seen = <<>> /\ pager.cursor = NoCursor  BY <2>2 DEF PagesInv, PagerInv, NoPage
    <3> QED  BY <1>8, <3>1, PrefixSelf
  <2> QED  BY <1>5, <2>1, <2>2
<1>10. IsPrefix(ledger[w], ledger[w])  BY <1>8, PrefixSelf
<1>11. /\ pager'.wallet = w /\ pager'.at = "reading" /\ pager'.cursor = pager.cursor
       /\ pager'.limit = Limit(asked) /\ pager'.snapshot = ledger[w] /\ pager'.seen = pager.seen
  BY <1>6, <1>7
<1>12. PagerShape'
  <2>1. pager' = [wallet |-> pager'.wallet, at |-> pager'.at, cursor |-> pager'.cursor,
                  limit |-> pager'.limit, snapshot |-> pager'.snapshot, seen |-> pager'.seen]
    BY <1>7
  <2> QED  BY <2>1 DEF PagerShape
<1>13. PagerInv'
  <2>1. w # None  BY ReadsAssumption
  <2> QED  BY <1>4, <1>5, <1>8, <1>9, <1>10, <1>11, <2>1 DEF PagerInv, CursorMarks
<1> QED  BY <1>12, <1>13

(* Reading it. *)
LEMMA ReadPage ==
  ASSUME PagesInv, Ledger
  PROVE  PagerShape' /\ PagerInv'
<1> DEFINE page == PageFrom(pager.snapshot, pager.cursor.version, pager.limit)
<1> DEFINE full == Another(page, pager.limit)
<1>1. /\ pager.at = "reading" /\ UNCHANGED <<ledger, altered>>
      /\ pager = [wallet |-> pager.wallet, at |-> pager.at, cursor |-> pager.cursor,
                  limit |-> pager.limit, snapshot |-> pager.snapshot, seen |-> pager.seen]
  BY DEF Ledger, PagesInv, PagerShape
<1>2. CASE pager' = [pager EXCEPT !.at = "refused"]
  <2>1. PICK at : at = "refused"  OBVIOUS
  <2>2. pager' = [wallet |-> pager.wallet, at |-> at, cursor |-> pager.cursor,
                  limit |-> pager.limit, snapshot |-> pager.snapshot, seen |-> pager.seen]
    BY <1>1, <1>2, <2>1
  <2>3. /\ pager'.wallet = pager.wallet /\ pager'.at = "refused" /\ pager'.cursor = pager.cursor
        /\ pager'.seen = pager.seen /\ pager'.limit = pager.limit /\ pager'.snapshot = pager.snapshot
    BY <2>1, <2>2
  <2>4. PagerShape'
    <3>1. pager' = [wallet |-> pager'.wallet, at |-> pager'.at, cursor |-> pager'.cursor,
                    limit |-> pager'.limit, snapshot |-> pager'.snapshot, seen |-> pager'.seen]
      BY <2>2
    <3> QED  BY <3>1 DEF PagerShape
  <2>5. pager.wallet # None  BY <1>1 DEF PagesInv, PagerInv, NoPage
  <2>6. PagerInv'  BY <1>1, <2>3, <2>5 DEF PagesInv, PagerInv, CursorMarks
  <2> QED  BY <2>4, <2>6
<1>3. CASE pager' = [pager EXCEPT !.at = IF full THEN "paged" ELSE "finished",
                                  !.seen = @ \o page,
                                  !.cursor = IF full /\ page # <<>>
                                               THEN encodeCursor(pager.wallet, page[Len(page)].version)
                                               ELSE @]
  <2>1. PICK at : at = IF full THEN "paged" ELSE "finished"  OBVIOUS
  <2>2. PICK cursor : cursor = IF full /\ page # <<>>
                                 THEN encodeCursor(pager.wallet, page[Len(page)].version)
                                 ELSE pager.cursor
    OBVIOUS
  <2>3. pager' = [wallet |-> pager.wallet, at |-> at, cursor |-> cursor, limit |-> pager.limit,
                  snapshot |-> pager.snapshot, seen |-> pager.seen \o page]
    BY <1>1, <1>3, <2>1, <2>2
  <2> HIDE DEF page, full
  <2>4. /\ pager'.wallet = pager.wallet /\ pager'.at = at /\ pager'.cursor = cursor
        /\ pager'.limit = pager.limit /\ pager'.snapshot = pager.snapshot
        /\ pager'.seen = pager.seen \o page
    BY <2>3
  <2>5. PagerShape'
    <3>1. pager' = [wallet |-> pager'.wallet, at |-> pager'.at, cursor |-> pager'.cursor,
                    limit |-> pager'.limit, snapshot |-> pager'.snapshot, seen |-> pager'.seen]
      BY <2>3
    <3> QED  BY <3>1 DEF PagerShape
  <2>6. pager.wallet \in Wallets  BY <1>1 DEF PagesInv, PagerInv, NoPage
  <2>7. ASSUME pager.wallet \notin altered
        PROVE  /\ pager.seen \o page \in Seq(Entries)
               /\ IsPrefix(pager.seen \o page, ledger[pager.wallet])
               /\ full => cursor = encodeCursor(pager.wallet,
                                     (pager.seen \o page)[Len(pager.seen \o page)].version)
                          /\ pager.seen \o page # <<>>
               /\ ~full => pager.snapshot = pager.seen \o page
    <3>1. /\ ledger[pager.wallet] \in Seq(Entries) /\ InOrder(ledger[pager.wallet])
      BY <2>6, <2>7 DEF PagesInv, ReadsType, WalletOrder
    <3>2. /\ pager.seen \in Seq(Entries) /\ CursorMarks(pager.seen)
          /\ pager.limit \in Nat \ {0} /\ pager.snapshot \in Seq(Entries)
          /\ IsPrefix(pager.snapshot, ledger[pager.wallet])
          /\ IsPrefix(pager.seen, pager.snapshot)
      BY <1>1, <2>6, <2>7 DEF PagesInv, PagerInv
    <3>3. InOrder(pager.snapshot)  BY <3>1, <3>2, PrefixInOrder
    <3>4. pager.cursor.version = IF pager.seen = <<>> THEN 0 ELSE pager.seen[Len(pager.seen)].version
      BY <3>2 DEF CursorMarks, NoCursor, encodeCursor
    <3>5. /\ page \in Seq(Entries) /\ pager.seen \o page \in Seq(Entries)
          /\ IsPrefix(pager.seen \o page, pager.snapshot)
          /\ Len(page) = pager.limit => page # <<>>
          /\ Len(page) # pager.limit => pager.seen \o page = pager.snapshot
          /\ page # <<>> => /\ pager.seen \o page # <<>>
                            /\ (pager.seen \o page)[Len(pager.seen \o page)] = page[Len(page)]
      <4>1. PICK after : after = pager.cursor.version  OBVIOUS
      <4>2. PICK s \in Seq(Entries) : s = pager.snapshot  BY <3>2
      <4>3. PICK seen \in Seq(Entries) : seen = pager.seen  BY <3>2
      <4>4. PICK limit \in Nat \ {0} : limit = pager.limit  BY <3>2
      <4>5. after = LastVersion(seen)  BY <3>4, <4>1, <4>3 DEF LastVersion
      <4>6. InOrder(s) /\ IsPrefix(seen, s)  BY <3>2, <3>3, <4>2, <4>3
      <4>7. PICK p : p = page  OBVIOUS
      <4>8. p = PageFrom(s, after, limit)  BY <4>1, <4>2, <4>4, <4>7 DEF page
      <4>9. Advances(seen, p, s, limit)  BY <4>5, <4>6, <4>8, PageIs
      <4> QED  BY <4>2, <4>3, <4>4, <4>7, <4>9 DEF Advances
    <3>6. IsPrefix(pager.seen \o page, ledger[pager.wallet])
      BY <3>1, <3>2, <3>5, PrefixOfPrefix
    <3>7. full <=> Len(page) = pager.limit  BY DEF full, Another
    <3> QED  BY <2>2, <3>5, <3>6, <3>7
  <2>8. (full => at = "paged") /\ (~full => at = "finished")
    <3>1. CASE full  BY <2>1, <3>1
    <3>2. CASE ~full  BY <2>1, <3>2
    <3> QED  BY <3>1, <3>2
  <2>9. pager.wallet # None  BY <2>6, ReadsAssumption
  <2>10. PagerInv'  BY <1>1, <2>4, <2>6, <2>7, <2>8, <2>9 DEF PagerInv, CursorMarks
  <2> QED  BY <2>5, <2>10
<1> QED  BY <1>2, <1>3 DEF Ledger

(* What the caller has seen is a prefix of the ledger and its cursor       *)
(* stands where that ends, for every page size and every order of moves    *)
(* and pages.                                                              *)
THEOREM PagesInvariant == Spec => []PagesInv
<1>1. Init => PagesInv  BY ReadsInitially
<1>2. PagesInv /\ [Next]_vars => PagesInv'
  <2> SUFFICES ASSUME PagesInv, [Next]_vars PROVE PagesInv'
    OBVIOUS
  <2>1. ReadsType /\ WalletOrder /\ PagerShape /\ PagerInv  BY DEF PagesInv
  <2>2. \A v \in Wallets : IsPrefix(ledger[v], ledger[v])  BY <2>1, PrefixSelf DEF ReadsType
  <2>3. UNCHANGED <<wallets, ledger, altered>> => ReadsType' /\ WalletOrder'
    BY <2>1 DEF ReadsType, WalletOrder
  <2>4. CASE \E w \in Wallets : Move(w)
    <3>1. PICK w \in Wallets : Move(w)  BY <2>4
    <3>2. UNCHANGED <<altered, pager>>  BY <3>1 DEF Move
    <3>3. /\ wallets' \in [Wallets -> [balance : Moneys, version : Nat \ {0}]]
          /\ ledger' \in [Wallets -> Seq(Entries)]
          /\ \A v \in Wallets : IsPrefix(ledger[v], ledger'[v])
          /\ WalletOrder'
      BY <2>1, <3>1, MovedType
    <3>4. ReadsType'  BY <2>1, <3>2, <3>3 DEF ReadsType
    <3>5. PagerShape' /\ PagerInv'  BY <2>1, <3>2, <3>3, PagerUndisturbed
    <3> QED  BY <3>3, <3>4, <3>5 DEF PagesInv
  <2>5. CASE \E w \in Wallets : Tamper(w)
    <3>1. PICK w \in Wallets : Tamper(w)  BY <2>5
    <3>2. altered' = altered \cup {w} /\ UNCHANGED pager  BY <3>1 DEF Tamper
    <3>3. /\ wallets' \in [Wallets -> [balance : Moneys, version : Nat \ {0}]]
          /\ ledger' \in [Wallets -> Seq(Entries)]
          /\ \A v \in Wallets \ {w} : wallets'[v] = wallets[v] /\ ledger'[v] = ledger[v]
      BY <2>1, <3>1, TamperIs
    <3>4. ReadsType'  BY <2>1, <3>1, <3>2, <3>3 DEF ReadsType
    <3>5. WalletOrder'  BY <2>1, <3>2, <3>3 DEF WalletOrder
    <3>6. \A v \in Wallets \ altered' : IsPrefix(ledger[v], ledger'[v])  BY <2>2, <3>2, <3>3
    <3>7. PagerShape' /\ PagerInv'  BY <2>1, <3>2, <3>3, <3>6, PagerUndisturbed
    <3> QED  BY <3>4, <3>5, <3>7 DEF PagesInv
  <2>6. CASE \E w \in Wallets : AskPage(w)
    <3>1. UNCHANGED <<wallets, ledger, altered>>  BY <2>6 DEF AskPage
    <3>2. PagerShape' /\ PagerInv'  BY <2>6, AskedPage
    <3> QED  BY <2>3, <3>1, <3>2 DEF PagesInv
  <2>7. CASE Ledger
    <3>1. UNCHANGED <<wallets, ledger, altered>>  BY <2>7 DEF Ledger
    <3>2. PagerShape' /\ PagerInv'  BY <2>7, ReadPage
    <3> QED  BY <2>3, <3>1, <3>2 DEF PagesInv
  <2>8. CASE PagerStartsOver
    <3>1. UNCHANGED <<wallets, ledger, altered>> /\ pager' = NoPage  BY <2>8 DEF PagerStartsOver
    <3>2. PagerShape' /\ PagerInv'
      BY <3>1, ReadsAssumption DEF PagerShape, PagerInv, NoPage
    <3> QED  BY <2>3, <3>1, <3>2 DEF PagesInv
  <2>9. CASE Audits \/ UNCHANGED vars
    <3>1. UNCHANGED <<wallets, ledger, altered, pager>>  BY <2>9 DEF Audits, Reconcile, Report, vars
    <3>2. ledger' \in [Wallets -> Seq(Entries)] /\ \A v \in Wallets \ altered' : IsPrefix(ledger[v], ledger'[v])
      BY <2>1, <2>2, <3>1 DEF ReadsType
    <3>3. PagerShape' /\ PagerInv'  BY <2>1, <3>1, <3>2, PagerUndisturbed
    <3> QED  BY <2>3, <3>1, <3>3 DEF PagesInv
  <2> QED  BY <2>4, <2>5, <2>6, <2>7, <2>8, <2>9 DEF Next, Writes, Pages
<1> QED  BY <1>1, <1>2, PTL DEF Spec

(* The pages tell the ledger as it is, and the last of them ends no        *)
(* earlier than the ledger did when it was asked for.                      *)
THEOREM PagesAreTheLedger == Spec => []PagesTellTheLedger
<1>1. PagesInv => PagesTellTheLedger
  <2> SUFFICES ASSUME PagesInv, pager.wallet \in Wallets \ altered
               PROVE  /\ IsPrefix(pager.seen, ledger[pager.wallet])
                      /\ pager.at = "finished" => IsPrefix(pager.snapshot, pager.seen)
    BY DEF PagesTellTheLedger
  <2>1. /\ pager.seen \in Seq(Entries) /\ IsPrefix(pager.seen, ledger[pager.wallet])
        /\ pager.at = "finished" => pager.snapshot = pager.seen
    BY DEF PagesInv, PagerInv
  <2> QED  BY <2>1, PrefixSelf
<1> QED  BY <1>1, PagesInvariant, PTL

-----------------------------------------------------------------------------
(* The reconciliation of a wallet. *)
(* A sum of the first n entries. *)
IsTally(f, s, n) ==
  f = [i \in 0 .. n |-> IF i = 0 THEN Ok(Cash(0)) ELSE Tally(f[i - 1], s[i])]

(* A sum over a ledger exists, step by step. *)
LEMMA TalliesExist ==
  ASSUME NEW s
  PROVE  \A n \in Nat : \E f : IsTally(f, s, n)
<1> DEFINE T == {n \in Nat : \E f : IsTally(f, s, n)}
<1>1. 0 \in T
  <2> DEFINE f == [i \in 0 .. 0 |-> Ok(Cash(0))]
  <2>1. IsTally(f, s, 0)  BY DEF IsTally
  <2> QED  BY <2>1
<1>2. ASSUME NEW n \in Nat, n \in T PROVE n + 1 \in T
  <2>1. PICK f : IsTally(f, s, n)  BY <1>2
  <2> DEFINE g == [i \in 0 .. n + 1 |-> IF i = n + 1 THEN Tally(f[n], s[n + 1]) ELSE f[i]]
  <2>2. DOMAIN g = 0 .. n + 1 /\ g[n + 1] = Tally(f[n], s[n + 1]) /\ \A i \in 0 .. n : g[i] = f[i]
    OBVIOUS
  <2>3. f[0] = Ok(Cash(0)) /\ \A i \in 1 .. n : f[i] = Tally(f[i - 1], s[i])
    BY <2>1 DEF IsTally
  <2>4. ASSUME NEW i \in 0 .. n + 1
        PROVE  g[i] = IF i = 0 THEN Ok(Cash(0)) ELSE Tally(g[i - 1], s[i])
    <3>1. CASE i = 0  BY <2>2, <2>3, <3>1
    <3>2. CASE i \in 1 .. n
      <4>1. i \in 0 .. n /\ i - 1 \in 0 .. n  BY <3>2
      <4>2. g[i] = f[i] /\ g[i - 1] = f[i - 1]  BY <2>2, <4>1
      <4> QED  BY <2>3, <3>2, <4>2
    <3>3. CASE i = n + 1
      <4>1. g[i - 1] = f[n]  BY <2>2, <3>3
      <4> QED  BY <2>2, <3>3, <4>1
    <3> QED  BY <3>1, <3>2, <3>3
  <2>5. IsTally(g, s, n + 1)
    <3> HIDE DEF g
    <3>1. g = [i \in 0 .. n + 1 |-> g[i]]  BY <2>2 DEF g
    <3> QED  BY <2>4, <3>1 DEF IsTally
  <2> QED  BY <2>5
<1> QED  BY <1>1, <1>2, Counted

(* So what Totals chooses is that sum. *)
LEMMA TotalsAre ==
  ASSUME NEW s, Len(s) \in Nat
  PROVE  /\ Totals(s)[0] = Ok(Cash(0))
         /\ \A n \in 1 .. Len(s) : Totals(s)[n] = Tally(Totals(s)[n - 1], s[n])
<1>1. PICK g : g = [i \in 0 .. Len(s) |-> IF i = 0 THEN Ok(Cash(0)) ELSE Tally(g[i - 1], s[i])]
  BY TalliesExist DEF IsTally
<1> DEFINE f == Totals(s)
<1>2. f = [i \in 0 .. Len(s) |-> IF i = 0 THEN Ok(Cash(0)) ELSE Tally(f[i - 1], s[i])]
  BY <1>1, Zenon DEF Totals
<1> HIDE DEF f
<1>3. f[0] = Ok(Cash(0)) /\ \A n \in 1 .. Len(s) : f[n] = Tally(f[n - 1], s[n])
  BY <1>2
<1> QED  BY <1>3 DEF f

(* What a sum in progress is. *)
Tallied(r) == r.ok \in BOOLEAN /\ (r.ok => r = Ok(r.value) /\ r.value \in Moneys)

(* What an entry adds to a balance. *)
Signed(e) == IF e.direction = "CREDIT" THEN e.amount.units ELSE -e.amount.units

(* One more entry, where the width holds it, adds what it says. *)
LEMMA TallyIs ==
  ASSUME NEW r, Tallied(r), NEW e \in Entries
  PROVE  /\ Tallied(Tally(r, e))
         /\ Tally(r, e).ok => r.ok /\ Tally(r, e).value.units = r.value.units + Signed(e)
<1>1. CASE ~r.ok  BY <1>1 DEF Tally, Tallied
<1>2. CASE r.ok
  <2>1. PICK m \in Moneys : m = r.value  BY <1>2 DEF Tallied
  <2>2. e.amount \in Moneys /\ e.direction \in {"CREDIT", "DEBIT"}  BY DEF Entries
  <2>3. PICK n \in Moneys : n = e.amount  BY <2>2
  <2>4. PICK d \in {"CREDIT", "DEBIT"} : d = e.direction  BY <2>2
  <2>5. PICK q : q = applyDirection(d, m, n)  OBVIOUS
  <2>6. Tally(r, e) = q  BY <1>2, <2>1, <2>3, <2>4, <2>5 DEF Tally
  <2>7. PICK sum : sum = IF d = "CREDIT" THEN m.units + n.units ELSE m.units - n.units  OBVIOUS
  <2>8. /\ q.ok \in BOOLEAN
        /\ q.ok => q = Ok(Cash(sum)) /\ q.value = Cash(sum) /\ q.value \in Moneys /\ sum \in Ints
    BY <2>5, <2>7, Applied
  <2>9. q.ok => q.value.units = sum  BY <2>8, OneCurrency
  <2>10. m.units \in Int /\ n.units \in Int  BY OneCurrency DEF Moneys
  <2>11. sum = m.units + Signed(e)  BY <2>3, <2>4, <2>7, <2>10 DEF Signed
  <2> QED  BY <1>2, <2>1, <2>6, <2>8, <2>9, <2>11 DEF Tallied
<1> QED  BY <1>1, <1>2 DEF Tallied

(* A sum in progress is a balance, or a refusal. *)
LEMMA TotalsTyped ==
  ASSUME NEW s \in Seq(Entries)
  PROVE  \A n \in 0 .. Len(s) : Tallied(Totals(s)[n])
<1> DEFINE T == {n \in Nat : n <= Len(s) => Tallied(Totals(s)[n])}
<1>1. /\ Len(s) \in Nat /\ Totals(s)[0] = Ok(Cash(0))
      /\ \A n \in 1 .. Len(s) : Totals(s)[n] = Tally(Totals(s)[n - 1], s[n])
  BY TotalsAre
<1>2. Tallied(Ok(Cash(0)))  BY OneCurrency DEF Tallied, Ok
<1>3. 0 \in T  BY <1>1, <1>2
<1>4. ASSUME NEW n \in Nat, n \in T PROVE n + 1 \in T
  <2> SUFFICES ASSUME n + 1 <= Len(s) PROVE Tallied(Totals(s)[n + 1])  OBVIOUS
  <2>1. n + 1 \in 1 .. Len(s) /\ n <= Len(s)  BY <1>1
  <2>2. s[n + 1] \in Entries  BY <2>1
  <2>3. Tallied(Totals(s)[n])  BY <1>4, <2>1
  <2>4. Totals(s)[n + 1] = Tally(Totals(s)[n], s[n + 1])  BY <1>1, <2>1
  <2> QED  BY <2>2, <2>3, <2>4, TallyIs
<1>5. Nat \subseteq T
  <2> HIDE DEF T
  <2> QED  BY <1>3, <1>4, Counted
<1> QED  BY <1>1, <1>5

(* Ledgers that begin alike come to the same as far as they do. *)
LEMMA SameTotals ==
  ASSUME NEW s, NEW t, Len(s) \in Nat, Len(t) \in Nat, NEW k \in Nat, k <= Len(s), k <= Len(t),
         \A i \in 1 .. k : s[i] = t[i]
  PROVE  \A n \in 0 .. k : Totals(s)[n] = Totals(t)[n]
<1> DEFINE T == {n \in Nat : n <= k => Totals(s)[n] = Totals(t)[n]}
<1>1. /\ Totals(s)[0] = Ok(Cash(0)) /\ Totals(t)[0] = Ok(Cash(0))
      /\ \A n \in 1 .. Len(s) : Totals(s)[n] = Tally(Totals(s)[n - 1], s[n])
      /\ \A n \in 1 .. Len(t) : Totals(t)[n] = Tally(Totals(t)[n - 1], t[n])
  BY TotalsAre
<1>2. 0 \in T  BY <1>1
<1>3. ASSUME NEW n \in Nat, n \in T PROVE n + 1 \in T
  <2> SUFFICES ASSUME n + 1 <= k PROVE Totals(s)[n + 1] = Totals(t)[n + 1]  OBVIOUS
  <2>1. n + 1 \in 1 .. k /\ n + 1 \in 1 .. Len(s) /\ n + 1 \in 1 .. Len(t)  OBVIOUS
  <2>2. Totals(s)[n] = Totals(t)[n]  BY <1>3
  <2>3. /\ Totals(s)[n + 1] = Tally(Totals(s)[n], s[n + 1])
        /\ Totals(t)[n + 1] = Tally(Totals(t)[n], t[n + 1])
    BY <1>1, <2>1
  <2> QED  BY <2>1, <2>2, <2>3
<1>4. Nat \subseteq T
  <2> HIDE DEF T
  <2> QED  BY <1>2, <1>3, Counted
<1> QED  BY <1>4

(* A ledger with one entry more comes to one entry more. *)
LEMMA BalanceAppended ==
  ASSUME NEW s \in Seq(Entries), NEW e \in Entries
  PROVE  LedgerBalance(Append(s, e)) = Tally(LedgerBalance(s), e)
<1>1. PICK t : t = Append(s, e)  OBVIOUS
<1>2. PICK k \in Nat : k = Len(s)  OBVIOUS
<1>3. Len(t) = k + 1 /\ t[k + 1] = e /\ \A i \in 1 .. k : s[i] = t[i]
  BY <1>1, <1>2, Appended
<1>4. Totals(s)[k] = Totals(t)[k]  BY <1>2, <1>3, SameTotals
<1>5. Totals(t)[k + 1] = Tally(Totals(t)[k], t[k + 1])
  <2>1. Len(t) \in Nat  BY <1>3
  <2>2. \A n \in 1 .. Len(t) : Totals(t)[n] = Tally(Totals(t)[n - 1], t[n])  BY <2>1, TotalsAre
  <2>3. k + 1 \in 1 .. Len(t) /\ k + 1 - 1 = k  BY <1>3
  <2> QED  BY <2>2, <2>3
<1> QED  BY <1>1, <1>2, <1>3, <1>4, <1>5 DEF LedgerBalance

(* A sum that came out has not failed on the way. *)
LEMMA NeverRefused ==
  ASSUME NEW s \in Seq(Entries), LedgerBalance(s).ok
  PROVE  \A n \in 0 .. Len(s) : Totals(s)[n].ok
<1> DEFINE T == {n \in Nat : n <= Len(s) => Totals(s)[Len(s) - n].ok}
<1>1. Len(s) \in Nat /\ \A n \in 1 .. Len(s) : Totals(s)[n] = Tally(Totals(s)[n - 1], s[n])
  BY TotalsAre
<1>2. 0 \in T  BY <1>1 DEF LedgerBalance
<1>3. ASSUME NEW n \in Nat, n \in T PROVE n + 1 \in T
  <2> SUFFICES ASSUME n + 1 <= Len(s) PROVE Totals(s)[Len(s) - (n + 1)].ok  OBVIOUS
  <2> HIDE DEF T
  <2>1. PICK l \in Nat : l = Len(s)  BY <1>1
  <2>2. l - n \in 1 .. l  BY <2>1
  <2>3. PICK m \in 1 .. Len(s) : m = Len(s) - n  BY <2>1, <2>2
  <2>4. Totals(s)[m].ok  BY <1>1, <1>3, <2>3 DEF T
  <2>5. Totals(s)[m] = Tally(Totals(s)[m - 1], s[m])  BY <1>1
  <2>6. s[m] \in Entries /\ m - 1 \in 0 .. Len(s)  BY <1>1
  <2>7. Tallied(Totals(s)[m - 1])  BY <2>6, TotalsTyped
  <2>8. Totals(s)[m - 1].ok  BY <2>4, <2>5, <2>6, <2>7, TallyIs
  <2>9. m - 1 = Len(s) - (n + 1)  BY <1>1, <2>3
  <2> QED  BY <2>8, <2>9
<1>4. Nat \subseteq T
  <2> HIDE DEF T
  <2> QED  BY <1>2, <1>3, Counted
<1>5. ASSUME NEW n \in 0 .. Len(s) PROVE Totals(s)[n].ok
  <2>1. Len(s) - n \in Nat /\ Len(s) - n <= Len(s) /\ Len(s) - (Len(s) - n) = n  BY <1>1
  <2> QED  BY <1>4, <2>1
<1> QED  BY <1>5

(* Without one of its entries a ledger comes to that much less. *)
LEMMA BalanceWithout ==
  ASSUME NEW s \in Seq(Entries), NEW i \in 1 .. Len(s), LedgerBalance(s).ok,
         LedgerBalance(RemoveAt(s, i)).ok
  PROVE  LedgerBalance(RemoveAt(s, i)).value.units = LedgerBalance(s).value.units - Signed(s[i])
<1>1. PICK t : t = RemoveAt(s, i)  OBVIOUS
<1>2. /\ t \in Seq(Entries) /\ Len(t) = Len(s) - 1 /\ Len(s) \in Nat /\ Len(t) \in Nat
      /\ \A j \in 1 .. Len(s) - 1 : t[j] = IF j < i THEN s[j] ELSE s[j + 1]
  BY <1>1, RemovedType
<1>3. /\ \A n \in 1 .. Len(s) : Totals(s)[n] = Tally(Totals(s)[n - 1], s[n])
      /\ \A n \in 1 .. Len(t) : Totals(t)[n] = Tally(Totals(t)[n - 1], t[n])
  BY <1>2, TotalsAre
<1>4. \A n \in 0 .. Len(s) : Totals(s)[n].ok /\ Tallied(Totals(s)[n])  BY NeverRefused, TotalsTyped
<1>5. \A n \in 0 .. Len(t) : Totals(t)[n].ok /\ Tallied(Totals(t)[n])
  BY <1>1, <1>2, NeverRefused, TotalsTyped
<1>6. \A e \in Entries : Signed(e) \in Int
  <2> SUFFICES ASSUME NEW e \in Entries PROVE Signed(e) \in Int  OBVIOUS
  <2>1. e.amount \in Moneys  BY DEF Entries
  <2>2. e.amount.units \in Int  BY <2>1, OneCurrency DEF Moneys
  <2> QED  BY <2>2 DEF Signed
<1>7. \A n \in 0 .. Len(s) : Totals(s)[n].value.units \in Int
  BY <1>4, OneCurrency DEF Tallied, Moneys
<1>8. \A n \in 1 .. Len(s) : Totals(s)[n].value.units = Totals(s)[n - 1].value.units + Signed(s[n])
  <2> SUFFICES ASSUME NEW n \in 1 .. Len(s)
               PROVE  Totals(s)[n].value.units = Totals(s)[n - 1].value.units + Signed(s[n])
    OBVIOUS
  <2>1. s[n] \in Entries /\ n \in 0 .. Len(s) /\ n - 1 \in 0 .. Len(s)  BY <1>2
  <2>2. PICK q : q = Totals(s)[n - 1]  OBVIOUS
  <2>3. PICK e \in Entries : e = s[n]  BY <2>1
  <2>4. Totals(s)[n] = Tally(q, e) /\ Tally(q, e).ok  BY <1>3, <1>4, <2>1, <2>2, <2>3
  <2>5. Tallied(q)  BY <1>4, <2>1, <2>2
  <2>6. Tally(q, e).value.units = q.value.units + Signed(e)  BY <2>4, <2>5, TallyIs
  <2> QED  BY <2>2, <2>3, <2>4, <2>6
<1>9. \A n \in 1 .. Len(t) : Totals(t)[n].value.units = Totals(t)[n - 1].value.units + Signed(t[n])
  <2> SUFFICES ASSUME NEW n \in 1 .. Len(t)
               PROVE  Totals(t)[n].value.units = Totals(t)[n - 1].value.units + Signed(t[n])
    OBVIOUS
  <2>1. t[n] \in Entries /\ n \in 0 .. Len(t) /\ n - 1 \in 0 .. Len(t)  BY <1>2
  <2>2. PICK q : q = Totals(t)[n - 1]  OBVIOUS
  <2>3. PICK e \in Entries : e = t[n]  BY <2>1
  <2>4. Totals(t)[n] = Tally(q, e) /\ Tally(q, e).ok  BY <1>3, <1>5, <2>1, <2>2, <2>3
  <2>5. Tallied(q)  BY <1>5, <2>1, <2>2
  <2>6. Tally(q, e).value.units = q.value.units + Signed(e)  BY <2>4, <2>5, TallyIs
  <2> QED  BY <2>2, <2>3, <2>4, <2>6
<1> DEFINE T == {n \in Nat : n <= Len(t) /\ n >= i - 1 =>
                    Totals(t)[n].value.units = Totals(s)[n + 1].value.units - Signed(s[i])}
<1>10. Totals(t)[i - 1].value.units = Totals(s)[i].value.units - Signed(s[i])
  <2>1. i - 1 \in Nat /\ i - 1 <= Len(s) /\ i - 1 <= Len(t) /\ i - 1 \in 0 .. Len(s)  BY <1>2
  <2>2. \A j \in 1 .. i - 1 : t[j] = s[j]  BY <1>2
  <2>3. Totals(t)[i - 1] = Totals(s)[i - 1]
    <3>1. PICK k \in Nat : k = i - 1  BY <2>1
    <3>2. k <= Len(t) /\ k <= Len(s) /\ k \in 0 .. k /\ \A j \in 1 .. k : t[j] = s[j]
      BY <2>1, <2>2, <3>1
    <3>3. Totals(t)[k] = Totals(s)[k]  BY <1>2, <3>2, SameTotals
    <3> QED  BY <3>1, <3>3
  <2>4. s[i] \in Entries  OBVIOUS
  <2> QED  BY <1>6, <1>7, <1>8, <2>1, <2>3, <2>4
<1>11. 0 \in T
  <2>1. 0 >= i - 1 => i = 1  BY <1>2
  <2> QED  BY <1>10, <2>1
<1>12. ASSUME NEW n \in Nat, n \in T PROVE n + 1 \in T
  <2> SUFFICES ASSUME n + 1 <= Len(t), n + 1 >= i - 1
               PROVE  Totals(t)[n + 1].value.units = Totals(s)[n + 1 + 1].value.units - Signed(s[i])
    OBVIOUS
  <2>1. CASE n + 1 = i - 1  BY <1>10, <2>1, <1>2
  <2>2. CASE n >= i - 1
    <3>1. n + 1 \in 1 .. Len(t) /\ n + 2 \in 1 .. Len(s) /\ ~(n + 1 < i)  BY <1>2, <2>2
    <3>2. t[n + 1] = s[n + 2]  BY <1>2, <3>1
    <3>3. Totals(t)[n].value.units = Totals(s)[n + 1].value.units - Signed(s[i])
      BY <1>12, <2>2
    <3>4. Totals(t)[n + 1].value.units = Totals(t)[n].value.units + Signed(s[n + 2])
      BY <1>9, <3>1, <3>2
    <3>5. Totals(s)[n + 2].value.units = Totals(s)[n + 1].value.units + Signed(s[n + 2])
      <4>1. n + 2 - 1 = n + 1  OBVIOUS
      <4> QED  BY <1>8, <3>1, <4>1
    <3>6. s[n + 2] \in Entries /\ s[i] \in Entries /\ n + 1 \in 0 .. Len(s) /\ n + 1 + 1 = n + 2
      BY <3>1
    <3> QED  BY <1>6, <1>7, <3>3, <3>4, <3>5, <3>6
  <2>3. n + 1 = i - 1 \/ n >= i - 1  OBVIOUS
  <2> QED  BY <2>1, <2>2, <2>3
<1>13. Nat \subseteq T
  <2> HIDE DEF T
  <2> QED  BY <1>11, <1>12, Counted
<1>14. Len(t) \in Nat /\ Len(t) >= i - 1 /\ Len(t) + 1 = Len(s)  BY <1>2
<1>15. Totals(t)[Len(t)].value.units = Totals(s)[Len(s)].value.units - Signed(s[i])
  <2>1. PICK l \in Nat : l = Len(t) /\ l >= i - 1 /\ l + 1 = Len(s)  BY <1>14
  <2>2. Totals(t)[l].value.units = Totals(s)[l + 1].value.units - Signed(s[i])  BY <1>13, <2>1
  <2> QED  BY <2>1, <2>2
<1> QED  BY <1>1, <1>15 DEF LedgerBalance

(* A wallet's row. *)
WalletRows == [balance : Moneys, version : Nat \ {0}]

(* Books that add up ... *)
Whole(w, r, s) ==
  /\ RehydrateWallet(r) /\ InOrder(s) /\ LedgerBalance(s) = Ok(r.balance)
  /\ \A i \in 1 .. Len(s) : /\ s[i].wallet = w /\ s[i].transaction = s[i].version
                            /\ s[i].version <= r.version /\ NewWalletLedgerEntry(s[i])

(* ... and books that were written to: an entry misreports its movement, a  *)
(* transaction has two, or the sum is not the balance.                      *)
Spoilt(r, s) ==
  \/ \E i \in 1 .. Len(s) : ~NewWalletLedgerEntry(s[i])
  \/ \E i, j \in 1 .. Len(s) : i # j /\ s[i].transaction = s[j].transaction
  \/ LedgerBalance(s).ok => LedgerBalance(s).value # r.balance

(* Two writes from elsewhere may undo each other; one is always seen. *)
Books(w, whole, r, s) == IF whole THEN Whole(w, r, s) ELSE MaxTampers <= 1 => Spoilt(r, s)

(* Books that nothing else has written to are found consistent. *)
LEMMA FoundWhole ==
  ASSUME NEW w, NEW r \in WalletRows, NEW s \in Seq(Entries), Whole(w, r, s)
  PROVE  Finding(r, w, s) = "consistent"
<1>1. RehydrateWallet(r) /\ \A i \in 1 .. Len(s) : s[i].wallet = w /\ NewWalletLedgerEntry(s[i])
  BY DEF Whole
<1>2. \A i, j \in 1 .. Len(s) : i # j => s[i].transaction # s[j].transaction
  <2> SUFFICES ASSUME NEW i \in 1 .. Len(s), NEW j \in 1 .. Len(s), i # j,
                      s[i].transaction = s[j].transaction
               PROVE  FALSE
    OBVIOUS
  <2>1. i \in Nat /\ j \in Nat  OBVIOUS
  <2>2. s[i].version = s[j].version  BY DEF Whole
  <2>3. s[i].version \in Nat
    <3>1. s[i] \in Entries  OBVIOUS
    <3> QED  BY <3>1 DEF Entries
  <2>4. i < j \/ j < i  BY <2>1
  <2> QED  BY <2>2, <2>3, <2>4 DEF Whole, InOrder
<1>3. PICK b \in Moneys : b = r.balance  BY DEF WalletRows
<1>4. LedgerBalance(s) = Ok(b)  BY <1>3 DEF Whole
<1>5. LedgerBalance(s).ok /\ LedgerBalance(s).value = b  BY <1>4 DEF Ok
<1>6. Equal(b, b)  BY OneCurrency DEF Equal, IsUninitialized, Moneys
<1>7. Finding(r, w, s) = IF Equal(LedgerBalance(s).value, r.balance) THEN "consistent" ELSE "mismatch"
  BY <1>1, <1>2, <1>5 DEF Finding
<1> QED  BY <1>3, <1>5, <1>6, <1>7

(* Books that are spoilt are not. *)
LEMMA FoundSpoilt ==
  ASSUME NEW w, NEW r, NEW s, Spoilt(r, s)
  PROVE  Finding(r, w, s) # "consistent"
<1>1. CASE \E i \in 1 .. Len(s) : ~NewWalletLedgerEntry(s[i])  BY <1>1 DEF Finding
<1>2. CASE \E i, j \in 1 .. Len(s) : i # j /\ s[i].transaction = s[j].transaction
  BY <1>2 DEF Finding
<1>3. CASE LedgerBalance(s).ok => LedgerBalance(s).value # r.balance
  <2>1. ~LedgerBalance(s).ok \/ ~Equal(LedgerBalance(s).value, r.balance)  BY <1>3 DEF Equal
  <2> QED  BY <2>1 DEF Finding
<1> QED  BY <1>1, <1>2, <1>3 DEF Spoilt

(* One entry more, written with the balance it leads to. *)
LEMMA WholeMoved ==
  ASSUME NEW w, NEW r \in WalletRows, NEW s \in Seq(Entries), Whole(w, r, s),
         NEW e \in Entries, e.wallet = w, e.transaction = e.version, e.version = r.version + 1,
         e.before = r.balance, e.before.units >= 0, e.amount.units > 0, e.after.units >= 0,
         applyDirection(e.direction, e.before, e.amount) = Ok(e.after)
  PROVE  Whole(w, [balance |-> e.after, version |-> e.version], Append(s, e))
<1>1. PICK t : t = Append(s, e)  OBVIOUS
<1>2. PICK n \in Nat : n = Len(s)  OBVIOUS
<1>3. Len(t) = n + 1 /\ t[n + 1] = e /\ \A i \in 1 .. n : t[i] = s[i]
  BY <1>1, <1>2, Appended
<1>4. e.version \in Nat \ {0} /\ e.after \in Moneys  BY DEF Entries
<1>5. \A i \in 1 .. n : s[i].version \in Nat
  <2> SUFFICES ASSUME NEW i \in 1 .. n PROVE s[i].version \in Nat  OBVIOUS
  <2>1. s[i] \in Entries  BY <1>2
  <2> QED  BY <2>1 DEF Entries
<1>6. r.version \in Nat  BY DEF WalletRows
<1>7. NewWalletLedgerEntry(e)
  <2>1. Equal(e.after, e.after)  BY <1>4, OneCurrency DEF Equal, IsUninitialized, Moneys
  <2>2. PICK x : x = applyDirection(e.direction, e.before, e.amount)  OBVIOUS
  <2>3. x.ok /\ x.value = e.after  BY <2>2 DEF Ok
  <2> QED  BY <1>4, <2>1, <2>2, <2>3 DEF NewWalletLedgerEntry
<1>8. \A i \in 1 .. n : /\ s[i].wallet = w /\ s[i].transaction = s[i].version
                        /\ s[i].version <= r.version /\ NewWalletLedgerEntry(s[i])
  BY <1>2 DEF Whole
<1>9. ASSUME NEW i \in 1 .. n + 1
      PROVE  /\ t[i].wallet = w /\ t[i].transaction = t[i].version
             /\ t[i].version <= e.version /\ NewWalletLedgerEntry(t[i])
  <2>1. CASE i = n + 1  BY <1>3, <1>4, <1>7, <2>1
  <2>2. CASE i \in 1 .. n  BY <1>3, <1>5, <1>6, <1>8, <2>2
  <2> QED  BY <2>1, <2>2
<1>10. InOrder(t)
  <2> SUFFICES ASSUME NEW i \in 1 .. n + 1, NEW j \in 1 .. n + 1, i < j
               PROVE  t[i].version < t[j].version
    BY <1>3 DEF InOrder
  <2>1. i \in 1 .. n  OBVIOUS
  <2>2. CASE j \in 1 .. n
    <3>1. s[i].version < s[j].version  BY <1>2, <2>1, <2>2 DEF Whole, InOrder
    <3> QED  BY <1>3, <2>1, <2>2, <3>1
  <2>3. CASE j = n + 1  BY <1>3, <1>5, <1>6, <1>8, <2>1, <2>3
  <2> QED  BY <2>2, <2>3
<1>11. LedgerBalance(t) = Ok(e.after)
  <2>1. LedgerBalance(t) = Tally(LedgerBalance(s), e)  BY <1>1, BalanceAppended
  <2>2. LedgerBalance(s).ok /\ LedgerBalance(s).value = e.before
    <3>1. LedgerBalance(s) = Ok(r.balance)  BY DEF Whole
    <3> QED  BY <3>1 DEF Ok
  <2> QED  BY <2>1, <2>2 DEF Tally
<1> DEFINE q == [balance |-> e.after, version |-> e.version]
<1>12. RehydrateWallet(q) /\ q.balance = e.after /\ q.version = e.version
  BY <1>4 DEF RehydrateWallet
<1> HIDE DEF q
<1>13. Whole(w, q, t)  BY <1>3, <1>9, <1>10, <1>11, <1>12 DEF Whole
<1> QED  BY <1>1, <1>13 DEF q

(* And it cannot mend what is spoilt: whichever of the five checks fails   *)
(* goes on failing.                                                        *)
LEMMA SpoiltMoved ==
  ASSUME NEW r \in WalletRows, NEW s \in Seq(Entries), Spoilt(r, s),
         NEW e \in Entries, e.before = r.balance,
         applyDirection(e.direction, e.before, e.amount) = Ok(e.after)
  PROVE  Spoilt([balance |-> e.after, version |-> e.version], Append(s, e))
<1>1. PICK t : t = Append(s, e)  OBVIOUS
<1>2. PICK n \in Nat : n = Len(s)  OBVIOUS
<1>3. Len(t) = n + 1 /\ \A i \in 1 .. n : t[i] = s[i] /\ i \in 1 .. n + 1
  BY <1>1, <1>2, Appended
<1> DEFINE q == [balance |-> e.after, version |-> e.version]
<1>4. CASE \E i \in 1 .. Len(s) : ~NewWalletLedgerEntry(s[i])
  <2>1. \E i \in 1 .. Len(t) : ~NewWalletLedgerEntry(t[i])  BY <1>2, <1>3, <1>4
  <2> QED  BY <1>1, <2>1 DEF Spoilt
<1>5. CASE \E i, j \in 1 .. Len(s) : i # j /\ s[i].transaction = s[j].transaction
  <2>1. \E i, j \in 1 .. Len(t) : i # j /\ t[i].transaction = t[j].transaction
    BY <1>2, <1>3, <1>5
  <2> QED  BY <1>1, <2>1 DEF Spoilt
<1>6. CASE LedgerBalance(s).ok => LedgerBalance(s).value # r.balance
  <2> SUFFICES ASSUME LedgerBalance(t).ok, LedgerBalance(t).value = e.after PROVE FALSE
    BY <1>1 DEF Spoilt
  <2>1. PICK total : total = LedgerBalance(s)  OBVIOUS
  <2>2. Tallied(total)
    <3>1. Len(s) \in 0 .. Len(s)  BY <1>2
    <3> QED  BY <2>1, <3>1, TotalsTyped DEF LedgerBalance
  <2>3. LedgerBalance(t) = Tally(total, e)  BY <1>1, <2>1, BalanceAppended
  <2>4. total.ok /\ e.after.units = total.value.units + Signed(e)
    BY <2>2, <2>3, TallyIs
  <2>5. Tallied(Ok(r.balance)) /\ Ok(r.balance).ok /\ Ok(r.balance).value = r.balance
    BY DEF Tallied, Ok, WalletRows
  <2>6. Tally(Ok(r.balance), e) = Ok(e.after)  BY <2>5 DEF Tally
  <2>7. Ok(e.after).ok /\ Ok(e.after).value = e.after  BY DEF Ok
  <2>8. e.after.units = r.balance.units + Signed(e)  BY <2>5, <2>6, <2>7, TallyIs
  <2>9. total.value \in Moneys /\ r.balance \in Moneys /\ e.amount \in Moneys
    BY <2>2, <2>4 DEF Tallied, WalletRows, Entries
  <2>10. total.value.units \in Int /\ r.balance.units \in Int /\ Signed(e) \in Int
    <3>1. e.amount.units \in Int  BY <2>9, OneCurrency DEF Moneys
    <3>2. Signed(e) \in Int  BY <3>1 DEF Signed
    <3>3. total.value.units \in Int  BY <2>9, OneCurrency DEF Moneys
    <3>4. r.balance.units \in Int  BY <2>9, OneCurrency DEF Moneys
    <3> QED  BY <3>2, <3>3, <3>4
  <2>11. total.value.units = r.balance.units  BY <2>4, <2>8, <2>10
  <2>12. total.value = r.balance  BY <2>9, <2>11 DEF Moneys
  <2> QED  BY <1>6, <2>1, <2>4, <2>12
<1> QED  BY <1>4, <1>5, <1>6 DEF Spoilt

(* What an entry reports of its movement. *)
LEMMA Reports ==
  ASSUME NEW e \in Entries, applyDirection(e.direction, e.before, e.amount).ok
  PROVE  applyDirection(e.direction, e.before, e.amount).value.units = e.before.units + Signed(e)
<1>1. e.before \in Moneys  BY DEF Entries
<1>2. PICK r : r = Ok(e.before)  OBVIOUS
<1>3. r.ok /\ r.value = e.before  BY <1>2 DEF Ok
<1>4. Tallied(r)  BY <1>1, <1>2, <1>3 DEF Tallied
<1>5. Tally(r, e) = applyDirection(e.direction, e.before, e.amount)  BY <1>3 DEF Tally
<1> QED  BY <1>3, <1>4, <1>5, TallyIs

(* Books that added up, after one write from elsewhere. *)
LEMMA WholeAltered ==
  ASSUME NEW w, NEW r \in WalletRows, NEW s \in Seq(Entries), Whole(w, r, s),
         NEW q \in WalletRows, NEW t \in Seq(Entries), Alters(r, s, q, t)
  PROVE  Spoilt(q, t)
<1>1. /\ LedgerBalance(s).ok /\ LedgerBalance(s).value = r.balance
      /\ \A i \in 1 .. Len(s) : NewWalletLedgerEntry(s[i]) /\ s[i] \in Entries
  <2>1. LedgerBalance(s) = Ok(r.balance)  BY DEF Whole
  <2>2. \A i \in 1 .. Len(s) : s[i] \in Entries  OBVIOUS
  <2> QED  BY <2>1, <2>2 DEF Whole, Ok
<1>2. r.balance.units \in Int
  <2>1. r.balance \in Moneys  BY DEF WalletRows
  <2> QED  BY <2>1, OneCurrency DEF Moneys
<1>3. CASE t = s /\ q.balance.units = r.balance.units + 1
  <2>1. LedgerBalance(t).value # q.balance  BY <1>1, <1>2, <1>3
  <2> QED  BY <2>1 DEF Spoilt
<1>4. CASE \E i \in 1 .. Len(s) : t = RemoveAt(s, i) /\ q = r
  <2>1. PICK i \in 1 .. Len(s) : t = RemoveAt(s, i) /\ q = r  BY <1>4
  <2>2. SUFFICES ASSUME LedgerBalance(t).ok, LedgerBalance(t).value = q.balance PROVE FALSE
    BY DEF Spoilt
  <2>3. LedgerBalance(t).value.units = LedgerBalance(s).value.units - Signed(s[i])
    BY <1>1, <2>1, <2>2, BalanceWithout
  <2>4. PICK e \in Entries : e = s[i]  BY <1>1
  <2>5. e.amount.units > 0 /\ e.amount \in Moneys
    BY <1>1, <2>4 DEF NewWalletLedgerEntry, Entries
  <2>6. e.amount.units \in Int  BY <2>5, OneCurrency DEF Moneys
  <2>7. Signed(e) \in Int /\ Signed(e) # 0  BY <2>5, <2>6 DEF Signed
  <2>8. r.balance.units = r.balance.units - Signed(e)  BY <1>1, <2>1, <2>2, <2>3, <2>4
  <2> QED  BY <1>2, <2>7, <2>8
<1>5. CASE \E i \in 1 .. Len(s) : \E e \in Entries :
             t = Append(s, e) /\ e.transaction = s[i].transaction
  <2>1. PICK i \in 1 .. Len(s) : \E e \in Entries :
          t = Append(s, e) /\ e.transaction = s[i].transaction
    BY <1>5
  <2>2. PICK e \in Entries : t = Append(s, e) /\ e.transaction = s[i].transaction
    BY <2>1
  <2>3. PICK n \in Nat : n = Len(s)  OBVIOUS
  <2>4. Len(t) = n + 1 /\ t[n + 1] = e /\ t[i] = s[i]  BY <2>2, <2>3, Appended
  <2>5. i \in 1 .. Len(t) /\ n + 1 \in 1 .. Len(t) /\ i # n + 1  BY <2>3, <2>4
  <2>6. t[i].transaction = t[n + 1].transaction  BY <2>2, <2>4
  <2> QED  BY <2>5, <2>6 DEF Spoilt
<1>6. CASE \E i \in 1 .. Len(s) : \E e \in Entries :
             /\ t = [s EXCEPT ![i] = e]
             /\ e.direction = s[i].direction /\ e.before = s[i].before /\ e.after = s[i].after
             /\ e.amount.units = s[i].amount.units + 1
  <2>1. PICK i \in 1 .. Len(s) : \E e \in Entries :
             /\ t = [s EXCEPT ![i] = e]
             /\ e.direction = s[i].direction /\ e.before = s[i].before /\ e.after = s[i].after
             /\ e.amount.units = s[i].amount.units + 1
    BY <1>6
  <2>2. PICK e \in Entries :
             /\ t = [s EXCEPT ![i] = e]
             /\ e.direction = s[i].direction /\ e.before = s[i].before /\ e.after = s[i].after
             /\ e.amount.units = s[i].amount.units + 1
    BY <2>1
  <2>3. Len(t) = Len(s) /\ t[i] = e  BY <2>2
  <2>4. PICK f \in Entries : f = s[i]  BY <1>1
  <2>5. applyDirection(f.direction, f.before, f.amount).ok
        /\ applyDirection(f.direction, f.before, f.amount).value = f.after
    BY <1>1, <2>4 DEF NewWalletLedgerEntry, Equal
  <2>6. f.after.units = f.before.units + Signed(f)  BY <2>5, Reports
  <2>7. applyDirection(e.direction, e.before, e.amount).ok
         => applyDirection(e.direction, e.before, e.amount).value.units = e.before.units + Signed(e)
    BY Reports
  <2>8. /\ f.before.units \in Int /\ f.amount.units \in Int
        /\ e.amount.units = f.amount.units + 1 /\ e.before = f.before /\ e.after = f.after
        /\ e.direction = f.direction
    <3>1. f.before \in Moneys /\ f.amount \in Moneys  BY DEF Entries
    <3> QED  BY <2>2, <2>4, <3>1, OneCurrency DEF Moneys
  <2>9. e.before.units + Signed(e) # e.after.units
    <3>1. CASE f.direction = "CREDIT"
      <4>1. Signed(f) = f.amount.units /\ Signed(e) = f.amount.units + 1  BY <2>8, <3>1 DEF Signed
      <4> QED  BY <2>6, <2>8, <4>1
    <3>2. CASE f.direction # "CREDIT"
      <4>1. Signed(f) = -f.amount.units /\ Signed(e) = -(f.amount.units + 1)
        BY <2>8, <3>2 DEF Signed
      <4> QED  BY <2>6, <2>8, <4>1
    <3> QED  BY <3>1, <3>2
  <2>10. ~NewWalletLedgerEntry(e)  BY <2>7, <2>9 DEF NewWalletLedgerEntry, Equal
  <2> QED  BY <2>3, <2>10 DEF Spoilt
<1> QED  BY <1>3, <1>4, <1>5, <1>6 DEF Alters

(* The strengthening: the books of every wallet are whole as long as       *)
(* nothing else has written to them.                                       *)
BooksInv ==
  /\ tampers \in Nat /\ (tampers = 0 => altered = {})
  /\ \A w \in Wallets : Books(w, w \notin altered, wallets[w], ledger[w])

(* And the reconciliation in progress has read books of that kind. *)
AuditInv ==
  /\ audit = [wallet |-> audit.wallet, at |-> audit.at, row |-> audit.row,
              snapshot |-> audit.snapshot, intact |-> audit.intact, report |-> audit.report]
  /\ audit.intact \in BOOLEAN
  /\ audit.at = "reading" =>
       /\ audit.row \in WalletRows /\ audit.snapshot \in Seq(Entries)
       /\ Books(audit.wallet, audit.intact, audit.row, audit.snapshot)
  /\ audit.at = "reported" =>
       /\ audit.intact => audit.report = "consistent"
       /\ MaxTampers <= 1 /\ ~audit.intact => audit.report # "consistent"

(* The opening entry is the whole of a wallet that opened with money. *)
LEMMA BooksInitially == Init => BooksInv /\ AuditInv
<1> SUFFICES ASSUME Init PROVE BooksInv /\ AuditInv
  OBVIOUS
<1>1. PICK opening \in [Wallets -> {0} \cup Amounts] :
        /\ wallets = [w \in Wallets |-> [balance |-> Cash(opening[w]), version |-> 1]]
        /\ ledger = [w \in Wallets |->
                      IF opening[w] = 0 THEN <<>>
                      ELSE <<Entry(w, 1, "CREDIT", Cash(0), Cash(opening[w]), Cash(opening[w]))>>]
  BY DEF Init
<1>2. ASSUME NEW w \in Wallets PROVE Whole(w, wallets[w], ledger[w])
  <2>1. PICK u : u = opening[w]  OBVIOUS
  <2>2. u \in Ints /\ u \in Nat
    <3>1. u \in {0} \cup Amounts /\ \A a \in Amounts : a \in 1 .. MaxInt
      BY <1>1, <2>1, ReadsAssumption
    <3> QED  BY <3>1, MoneyAssumption DEF Ints, MinInt
  <2>3. /\ Cash(u) \in Moneys /\ Cash(0) \in Moneys
        /\ Cash(u).units = u /\ Cash(0).units = 0
    BY <2>2, OneCurrency
  <2>4. PICK e : e = Entry(w, 1, "CREDIT", Cash(0), Cash(u), Cash(u))  OBVIOUS
  <2>5. /\ e.wallet = w /\ e.transaction = 1 /\ e.version = 1 /\ e.direction = "CREDIT"
        /\ e.amount = Cash(u) /\ e.before = Cash(0) /\ e.after = Cash(u)
    BY <2>4 DEF Entry
  <2>6. e \in Entries  BY <2>3, <2>4 DEF Entry, Entries
  <2>7. PICK r \in WalletRows : r = wallets[w] /\ r.balance = Cash(u) /\ r.version = 1
    <3>1. wallets[w] = [balance |-> Cash(u), version |-> 1]  BY <1>1, <2>1
    <3> QED  BY <2>3, <3>1 DEF WalletRows
  <2>8. RehydrateWallet(r)  BY <2>2, <2>3, <2>7 DEF RehydrateWallet
  <2>9. applyDirection("CREDIT", Cash(0), Cash(u)) = Ok(Cash(u))
    <3>1. 0 + u = u  BY <2>2
    <3>2. PICK z \in Moneys : z = Cash(0)  BY <2>3
    <3>3. PICK c \in Moneys : c = Cash(u)  BY <2>3
    <3>4. PICK x : x = applyDirection("CREDIT", z, c)  OBVIOUS
    <3>5. z.units + c.units = u  BY <2>2, <2>3, <3>2, <3>3
    <3>6. (x.ok <=> u \in Ints) /\ (x.ok => x = Ok(Cash(u)))  BY <3>4, <3>5, Applied
    <3> QED  BY <2>2, <3>2, <3>3, <3>4, <3>6
  <2>10. CASE u = 0
    <3>1. ledger[w] = <<>>  BY <1>1, <2>1, <2>10
    <3>2. PICK s : s = <<>>  OBVIOUS
    <3>3. s \in Seq(Entries)  BY <3>2
    <3>4. s \in Seq(Entries) /\ s = ledger[w] /\ s = <<>>  BY <3>1, <3>2, <3>3
    <3>5. Len(s) = 0  BY <3>4
    <3>6. LedgerBalance(s) = Ok(Cash(0))  BY <3>5, TotalsAre DEF LedgerBalance
    <3>7. Whole(w, r, s)  BY <2>7, <2>8, <2>10, <3>5, <3>6 DEF Whole, InOrder
    <3> QED  BY <2>7, <3>4, <3>7
  <2>11. CASE u # 0
    <3>1. ledger[w] = <<e>>  BY <1>1, <2>1, <2>4, <2>11
    <3>2. PICK s : s = <<e>>  OBVIOUS
    <3>3. s \in Seq(Entries)  BY <2>6, <3>2
    <3>4. s \in Seq(Entries) /\ s = ledger[w] /\ s = <<e>>  BY <3>1, <3>2, <3>3
    <3>5. Len(s) = 1 /\ s[1] = e  BY <3>4
    <3>6. NewWalletLedgerEntry(e)
      <4>1. Equal(Cash(u), Cash(u))  BY <2>3, OneCurrency DEF Equal, IsUninitialized, Moneys
      <4> QED  BY <2>2, <2>3, <2>5, <2>9, <2>11, <4>1 DEF NewWalletLedgerEntry, Ok
    <3>7. LedgerBalance(s) = Ok(Cash(u))
      <4>1. Totals(s)[1] = Tally(Totals(s)[1 - 1], s[1]) /\ Totals(s)[0] = Ok(Cash(0))
        BY <3>5, TotalsAre
      <4>2. Totals(s)[1] = Tally(Ok(Cash(0)), e)  BY <3>5, <4>1
      <4> QED  BY <2>5, <2>9, <3>5, <4>2 DEF LedgerBalance, Tally, Ok
    <3>8. Whole(w, r, s)  BY <2>5, <2>7, <2>8, <3>5, <3>6, <3>7 DEF Whole, InOrder
    <3> QED  BY <2>7, <3>4, <3>8
  <2> QED  BY <2>10, <2>11
<1>3. altered = {} /\ tampers = 0 /\ audit = NoAudit  BY DEF Init
<1>4. BooksInv  BY <1>2, <1>3 DEF BooksInv, Books
<1>5. AuditInv  BY <1>3 DEF AuditInv, NoAudit
<1> QED  BY <1>4, <1>5

(* Movements keep what books say. *)
LEMMA BooksMoved ==
  ASSUME ReadsType, BooksInv, NEW w \in Wallets, Move(w)
  PROVE  BooksInv'
<1>1. PICK e \in Entries :
        /\ e.wallet = w /\ e.transaction = e.version /\ e.version = wallets[w].version + 1
        /\ e.before = wallets[w].balance /\ e.before.units >= 0
        /\ e.amount.units > 0 /\ e.after.units >= 0
        /\ applyDirection(e.direction, e.before, e.amount) = Ok(e.after)
        /\ ledger' = [ledger EXCEPT ![w] = Append(ledger[w], e)]
        /\ wallets' = [wallets EXCEPT ![w] = [balance |-> e.after, version |-> e.version]]
  BY MoveIs
<1>2. UNCHANGED <<altered, tampers>>  BY DEF Move
<1>3. PICK r \in WalletRows : r = wallets[w]  BY DEF ReadsType, WalletRows
<1>4. PICK s \in Seq(Entries) : s = ledger[w]  BY DEF ReadsType
<1>5. PICK t : t = Append(s, e)  OBVIOUS
<1>6. PICK q : q = [balance |-> e.after, version |-> e.version]  OBVIOUS
<1>7. wallets'[w] = q /\ ledger'[w] = t
      /\ \A v \in Wallets \ {w} : wallets'[v] = wallets[v] /\ ledger'[v] = ledger[v]
  BY <1>1, <1>4, <1>5, <1>6 DEF ReadsType
<1>8. Whole(w, r, s) => Whole(w, q, t)  BY <1>1, <1>3, <1>5, <1>6, WholeMoved
<1>9. Spoilt(r, s) => Spoilt(q, t)  BY <1>1, <1>3, <1>5, <1>6, SpoiltMoved
<1>10. ASSUME NEW v \in Wallets PROVE Books(v, v \notin altered, wallets'[v], ledger'[v])
  <2>1. Books(v, v \notin altered, wallets[v], ledger[v])  BY DEF BooksInv
  <2>2. CASE v = w  BY <1>3, <1>4, <1>7, <1>8, <1>9, <2>1, <2>2 DEF Books
  <2>3. CASE v # w  BY <1>7, <2>1, <2>3
  <2> QED  BY <2>2, <2>3
<1> QED  BY <1>2, <1>10 DEF BooksInv

(* A foreign write spoils the books it is made to, and no others. *)
LEMMA BooksAltered ==
  ASSUME ReadsType, BooksInv, NEW w \in Wallets, Tamper(w)
  PROVE  BooksInv'
<1>1. /\ wallets' \in [Wallets -> WalletRows] /\ ledger' \in [Wallets -> Seq(Entries)]
      /\ \A v \in Wallets \ {w} : wallets'[v] = wallets[v] /\ ledger'[v] = ledger[v]
      /\ Alters(wallets[w], ledger[w], wallets'[w], ledger'[w])
  BY TamperIs DEF WalletRows
<1>2. altered' = altered \cup {w} /\ tampers' = tampers + 1 /\ tampers < MaxTampers
  BY DEF Tamper
<1>3. PICK r \in WalletRows : r = wallets[w]  BY DEF ReadsType, WalletRows
<1>4. PICK s \in Seq(Entries) : s = ledger[w]  BY DEF ReadsType
<1>5. MaxTampers <= 1 => Spoilt(wallets'[w], ledger'[w])
  <2> SUFFICES ASSUME MaxTampers <= 1 PROVE Spoilt(wallets'[w], ledger'[w])
    OBVIOUS
  <2>1. tampers = 0  BY <1>2, ReadsAssumption DEF BooksInv
  <2>2. altered = {}  BY <2>1 DEF BooksInv
  <2>3. Whole(w, r, s)  BY <1>3, <1>4, <2>2 DEF BooksInv, Books
  <2>4. wallets'[w] \in WalletRows /\ ledger'[w] \in Seq(Entries)  BY <1>1
  <2>5. Alters(r, s, wallets'[w], ledger'[w])  BY <1>1, <1>3, <1>4
  <2> QED  BY <2>3, <2>4, <2>5, WholeAltered
<1>6. ASSUME NEW v \in Wallets PROVE Books(v, v \notin altered', wallets'[v], ledger'[v])
  <2>1. CASE v = w  BY <1>2, <1>5, <2>1 DEF Books
  <2>2. CASE v # w
    <3>1. Books(v, v \notin altered, wallets[v], ledger[v])  BY DEF BooksInv
    <3>2. (v \notin altered') = (v \notin altered) /\ wallets'[v] = wallets[v] /\ ledger'[v] = ledger[v]
      BY <1>1, <1>2, <2>2
    <3> QED  BY <3>1, <3>2
  <2> QED  BY <2>1, <2>2
<1>7. tampers' \in Nat /\ tampers' # 0  BY <1>2 DEF BooksInv
<1> QED  BY <1>6, <1>7 DEF BooksInv

(* A report is made of a snapshot, and says of it what it is. *)
LEMMA AuditStep ==
  ASSUME ReadsType, BooksInv, AuditInv, Audits
  PROVE  AuditInv'
<1>1. CASE \E w \in Wallets : Reconcile(w)
  <2>1. PICK w \in Wallets : Reconcile(w)  BY <1>1
  <2>2. PICK r \in WalletRows : r = wallets[w]  BY DEF ReadsType, WalletRows
  <2>3. PICK s \in Seq(Entries) : s = ledger[w]  BY DEF ReadsType
  <2>4. PICK whole \in BOOLEAN : whole = (w \notin altered)  OBVIOUS
  <2>5. audit' = [wallet |-> w, at |-> "reading", row |-> r, snapshot |-> s, intact |-> whole,
                  report |-> None]
    BY <2>1, <2>2, <2>3, <2>4 DEF Reconcile, NoAudit
  <2>6. Books(w, whole, r, s)  BY <2>2, <2>3, <2>4 DEF BooksInv
  <2>7. /\ audit'.wallet = w /\ audit'.at = "reading" /\ audit'.row = r /\ audit'.snapshot = s
        /\ audit'.intact = whole /\ audit'.report = None
    BY <2>5
  <2> QED  BY <2>5, <2>6, <2>7 DEF AuditInv
<1>2. CASE Report
  <2>1. PICK found : found = Finding(audit.row, audit.wallet, audit.snapshot)  OBVIOUS
  <2>2. audit.at = "reading" /\ audit' = [audit EXCEPT !.at = "reported", !.snapshot = <<>>,
                                                       !.report = found]
    BY <1>2, <2>1 DEF Report, WithinSnapshot
  <2>3. audit' = [wallet |-> audit.wallet, at |-> "reported", row |-> audit.row,
                  snapshot |-> <<>>, intact |-> audit.intact, report |-> found]
    BY <2>2 DEF AuditInv
  <2>4. /\ audit.row \in WalletRows /\ audit.snapshot \in Seq(Entries)
        /\ Books(audit.wallet, audit.intact, audit.row, audit.snapshot)
    BY <2>2 DEF AuditInv
  <2>5. audit.intact => found = "consistent"  BY <2>1, <2>4, FoundWhole DEF Books
  <2>6. MaxTampers <= 1 /\ ~audit.intact => found # "consistent"
    BY <2>1, <2>4, FoundSpoilt DEF Books
  <2>7. /\ audit'.wallet = audit.wallet /\ audit'.at = "reported" /\ audit'.row = audit.row
        /\ audit'.snapshot = <<>> /\ audit'.intact = audit.intact /\ audit'.report = found
    BY <2>3
  <2>8. audit.intact \in BOOLEAN  BY DEF AuditInv
  <2> QED  BY <2>3, <2>5, <2>6, <2>7, <2>8 DEF AuditInv
<1> QED  BY <1>1, <1>2 DEF Audits

(* Wallet and ledger agree wherever nothing else has written, and no       *)
(* movement hides that something has.                                      *)
THEOREM AuditInvariant == Spec => [](BooksInv /\ AuditInv)
<1>1. Init => BooksInv /\ AuditInv  BY BooksInitially
<1>2. PagesInv /\ BooksInv /\ AuditInv /\ [Next]_vars => BooksInv' /\ AuditInv'
  <2> SUFFICES ASSUME PagesInv, BooksInv, AuditInv, [Next]_vars PROVE BooksInv' /\ AuditInv'
    OBVIOUS
  <2>1. ReadsType  BY DEF PagesInv
  <2>2. UNCHANGED audit => AuditInv'  BY DEF AuditInv
  <2>3. UNCHANGED <<wallets, ledger, altered, tampers>> => BooksInv'  BY DEF BooksInv
  <2>4. CASE \E w \in Wallets : Move(w)
    <3>1. PICK w \in Wallets : Move(w)  BY <2>4
    <3>2. UNCHANGED audit  BY <3>1 DEF Move
    <3> QED  BY <2>1, <2>2, <3>1, <3>2, BooksMoved
  <2>5. CASE \E w \in Wallets : Tamper(w)
    <3>1. PICK w \in Wallets : Tamper(w)  BY <2>5
    <3>2. UNCHANGED audit  BY <3>1 DEF Tamper
    <3> QED  BY <2>1, <2>2, <3>1, <3>2, BooksAltered
  <2>6. CASE Audits
    <3>1. UNCHANGED <<wallets, ledger, altered, tampers>>  BY <2>6 DEF Audits, Reconcile, Report
    <3> QED  BY <2>1, <2>3, <2>6, <3>1, AuditStep
  <2>7. CASE Pages \/ UNCHANGED vars
    <3>1. UNCHANGED <<wallets, ledger, altered, tampers, audit>>
      BY <2>7 DEF Pages, AskPage, Ledger, PagerStartsOver, vars
    <3> QED  BY <2>2, <2>3, <3>1
  <2> QED  BY <2>4, <2>5, <2>6, <2>7 DEF Next, Writes
<1> QED  BY <1>1, <1>2, PagesInvariant, PTL DEF Spec

(* A reconciliation that calls a wallet consistent is right, and one of a  *)
(* wallet nothing else wrote to always does.  Of one foreign write: a      *)
(* second may undo the first, and then there is nothing to find.           *)
THEOREM AuditTells ==
  ASSUME MaxTampers <= 1
  PROVE  Spec => []AuditIsTrue
<1>1. AuditInv => AuditIsTrue
  <2> SUFFICES ASSUME AuditInv, audit.at = "reported"
               PROVE  (audit.report = "consistent") = audit.intact
    BY DEF AuditIsTrue
  <2>1. audit.intact \in BOOLEAN  BY DEF AuditInv
  <2>2. CASE audit.intact  BY <2>1, <2>2 DEF AuditInv
  <2>3. CASE ~audit.intact  BY <2>1, <2>3 DEF AuditInv
  <2> QED  BY <2>2, <2>3
<1> QED  BY <1>1, AuditInvariant, PTL

(* However often something else writes, a wallet it has not written to is  *)
(* never reported.                                                         *)
THEOREM AuditAcquits == Spec => [](audit.at = "reported" /\ audit.intact => audit.report = "consistent")
<1>1. AuditInv => (audit.at = "reported" /\ audit.intact => audit.report = "consistent")
  BY DEF AuditInv
<1> QED  BY <1>1, AuditInvariant, PTL
=============================================================================
