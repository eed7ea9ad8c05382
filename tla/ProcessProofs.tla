--------------------------- MODULE ProcessProofs ---------------------------
(***************************************************************************)
(* Theorems about one process: Lifecycle, for every process that can be    *)
(* configured and any number of outages; and KeySet, for any callers, keys *)
(* and documents, any interval and clock corrections of any size.          *)
(*                                                                         *)
(* The three properties of the life are of the order of the hooks.  What   *)
(* the order gives is stated once, of the sequences (Shape): every check   *)
(* is before every part, and the pool before both.  The invariant then     *)
(* says where in that order a process is: while it starts, the hooks       *)
(* behind it have passed and their parts run; while it stops, a part that  *)
(* is not told to stop has its hook still ahead, and one whose Stop        *)
(* returned and reported nothing is finished.                              *)
(*                                                                         *)
(* The two of the keys are about the one clock the code reads.  What the   *)
(* code takes for the age of its last fetch is never more than the time    *)
(* that has really passed since, and never less than the time it has been  *)
(* declining: a clock set back makes it smaller than the first, which      *)
(* startRefresh's restart at zero keeps from being for ever.               *)
(***************************************************************************)
EXTENDS KeySet, Lifecycle, SequenceTheorems, TLAPS

-----------------------------------------------------------------------------
(* The order of the hooks. *)

Names == Parts \cup Queues \cup {"logger", "telemetry", "pool", "database", "guard", "keys", "lag"}

Elems(s) == {s[n] : n \in 1..Len(s)}

(* What a concatenation has, and where. *)
LEMMA Joined ==
  ASSUME NEW s \in Seq(Names), NEW t \in Seq(Names)
  PROVE  /\ s \o t \in Seq(Names) /\ Len(s) \in Nat /\ Len(t) \in Nat
         /\ Len(s \o t) = Len(s) + Len(t)
         /\ \A n \in 1..Len(s) : (s \o t)[n] = s[n]
         /\ \A n \in 1..Len(s \o t) : n \notin 1..Len(s) => (s \o t)[n] \in Elems(t)
         /\ Elems(s \o t) = Elems(s) \cup Elems(t)
<1>1. Len(s) \in Nat /\ Len(t) \in Nat  BY LenProperties
<1>2. /\ s \o t \in Seq(Names) /\ Len(s \o t) = Len(s) + Len(t)
      /\ \A n \in 1..Len(s) + Len(t) :
           (s \o t)[n] = IF n <= Len(s) THEN s[n] ELSE t[n - Len(s)]
  BY ConcatProperties
<1>3. \A n \in 1..Len(s) : (s \o t)[n] = s[n] /\ n \in 1..Len(s) + Len(t)
  BY <1>1, <1>2
<1>4. \A n \in 1..Len(s) + Len(t) : n \notin 1..Len(s) =>
        n - Len(s) \in 1..Len(t) /\ (s \o t)[n] = t[n - Len(s)]
  BY <1>1, <1>2
<1>5. \A n \in 1..Len(t) : /\ Len(s) + n \in 1..Len(s) + Len(t)
                           /\ (s \o t)[Len(s) + n] = t[n]
  BY <1>1, <1>2
<1>6. Elems(s \o t) = Elems(s) \cup Elems(t)
  <2>1. \A x \in Elems(s \o t) : x \in Elems(s) \cup Elems(t)
    <3> SUFFICES ASSUME NEW n \in 1..Len(s) + Len(t)
                 PROVE  (s \o t)[n] \in Elems(s) \cup Elems(t)
      BY <1>2 DEF Elems
    <3>1. CASE n \in 1..Len(s)  BY <3>1, <1>3 DEF Elems
    <3>2. CASE n \notin 1..Len(s)  BY <3>2, <1>4 DEF Elems
    <3> QED  BY <3>1, <3>2
  <2>2. \A x \in Elems(s) : x \in Elems(s \o t)  BY <1>2, <1>3 DEF Elems
  <2>3. \A x \in Elems(t) : x \in Elems(s \o t)  BY <1>2, <1>5 DEF Elems
  <2> QED  BY <2>1, <2>2, <2>3
<1>7. \A n \in 1..Len(s \o t) : n \notin 1..Len(s) => (s \o t)[n] \in Elems(t)
  BY <1>2, <1>4 DEF Elems
<1> QED  BY <1>1, <1>2, <1>3, <1>6, <1>7

(* Tuples of one and of two. *)
LEMMA TupleFacts ==
  ASSUME NEW S, NEW x \in S, NEW y \in S
  PROVE  /\ <<x>> \in Seq(S) /\ Len(<<x>>) = 1 /\ <<x>>[1] = x
         /\ <<x, y>> \in Seq(S) /\ Len(<<x, y>>) = 2
         /\ <<x, y>>[1] = x /\ <<x, y>>[2] = y
OBVIOUS

(* Hooks that are only there with their part. *)
LEMMA OnlyFacts ==
  ASSUME NEW p, NEW g, NEW x \in Names, NEW y \in Names
  PROVE  /\ Only(p, g, <<x>>) \in Seq(Names) /\ Len(Only(p, g, <<x>>)) <= 1
         /\ Elems(Only(p, g, <<x>>)) = IF p \in g THEN {x} ELSE {}
         /\ Only(p, g, <<x, y>>) \in Seq(Names) /\ Len(Only(p, g, <<x, y>>)) <= 2
         /\ Elems(Only(p, g, <<x, y>>)) = IF p \in g THEN {x, y} ELSE {}
<1>1. <<x>> \in Seq(Names) /\ Len(<<x>>) = 1 /\ Elems(<<x>>) = {x}
  <2>1. <<x>> \in Seq(Names) /\ Len(<<x>>) = 1 /\ <<x>>[1] = x  BY TupleFacts
  <2> QED  BY <2>1 DEF Elems
<1>2. <<x, y>> \in Seq(Names) /\ Len(<<x, y>>) = 2 /\ Elems(<<x, y>>) = {x, y}
  <2>1. /\ <<x, y>> \in Seq(Names) /\ Len(<<x, y>>) = 2
        /\ <<x, y>>[1] = x /\ <<x, y>>[2] = y
    BY TupleFacts
  <2>2. 1..2 = {1, 2}  OBVIOUS
  <2> QED  BY <2>1, <2>2 DEF Elems
<1>3. <<>> \in Seq(Names) /\ Len(<<>>) = 0 /\ Elems(<<>>) = {}  BY DEF Elems
<1>4. CASE p \in g  BY <1>1, <1>2, <1>4 DEF Only
<1>5. CASE p \notin g  BY <1>3, <1>5 DEF Only
<1> QED  BY <1>4, <1>5

(* What a worker forces first, and then its loops. *)
LEMMA WorkerShape ==
  ASSUME NEW g
  PROVE  /\ checks(g) \in Seq(Names) /\ Worker(g) \in Seq(Names)
         /\ Len(checks(g)) <= 2 /\ Len(Worker(g)) <= 6
         /\ Elems(checks(g)) = {q \in Queues :
              (IF q = "inbound" THEN "consumer" ELSE "publisher") \in g}
         /\ \A n \in 1..Len(checks(g)) : /\ n \in 1..Len(Worker(g))
                                         /\ Worker(g)[n] = checks(g)[n]
         /\ \A n \in 1..Len(Worker(g)) : n \notin 1..Len(checks(g)) =>
              Worker(g)[n] \in (Loops \cap g) \cup {"lag"}
         /\ Loops \cap g \subseteq Elems(Worker(g))
<1> DEFINE i == Only("consumer", g, <<"inbound">>)
           o == Only("publisher", g, <<"outbound">>)
           c == Only("consumer", g, <<"consumer">>)
           p == Only("publisher", g, <<"publisher", "lag">>)
           r == Only("reference", g, <<"reference">>)
           a == checks(g)
           b == a \o c
           d == b \o p
<1>0. {"inbound", "outbound", "consumer", "publisher", "lag", "reference"} \subseteq Names
  BY DEF Names, Parts, Loops, Queues
<1>1. /\ i \in Seq(Names) /\ Len(i) <= 1
      /\ Elems(i) = IF "consumer" \in g THEN {"inbound"} ELSE {}
  BY <1>0, OnlyFacts
<1>2. /\ o \in Seq(Names) /\ Len(o) <= 1
      /\ Elems(o) = IF "publisher" \in g THEN {"outbound"} ELSE {}
  BY <1>0, OnlyFacts
<1>3. /\ c \in Seq(Names) /\ Len(c) <= 1
      /\ Elems(c) = IF "consumer" \in g THEN {"consumer"} ELSE {}
  BY <1>0, OnlyFacts
<1>4. /\ p \in Seq(Names) /\ Len(p) <= 2
      /\ Elems(p) = IF "publisher" \in g THEN {"publisher", "lag"} ELSE {}
  <2>1. "publisher" \in Names /\ "lag" \in Names  BY <1>0
  <2> QED  BY <2>1, OnlyFacts, Zenon
<1>5. /\ r \in Seq(Names) /\ Len(r) <= 1
      /\ Elems(r) = IF "reference" \in g THEN {"reference"} ELSE {}
  BY <1>0, OnlyFacts
<1>6. a = i \o o /\ Worker(g) = d \o r  BY DEF checks, Worker
<1> HIDE DEF i, o, c, p, r, a
<1>7. /\ a \in Seq(Names) /\ Len(a) \in Nat /\ Len(a) <= 2
      /\ Elems(a) = Elems(i) \cup Elems(o)
  <2>1. /\ i \o o \in Seq(Names) /\ Len(i) \in Nat /\ Len(o) \in Nat
        /\ Len(i \o o) = Len(i) + Len(o)
        /\ Elems(i \o o) = Elems(i) \cup Elems(o)
    BY <1>1, <1>2, Joined
  <2> QED  BY <2>1, <1>1, <1>2, <1>6
<1>8. /\ b \in Seq(Names) /\ Len(b) \in Nat /\ Len(b) <= 3 /\ Len(b) = Len(a) + Len(c)
      /\ Len(c) \in Nat
      /\ \A n \in 1..Len(a) : b[n] = a[n]
      /\ \A n \in 1..Len(b) : n \notin 1..Len(a) => b[n] \in Elems(c)
      /\ Elems(b) = Elems(a) \cup Elems(c)
  BY <1>3, <1>7, Joined
<1> HIDE DEF b
<1>9. /\ d \in Seq(Names) /\ Len(d) \in Nat /\ Len(d) <= 5 /\ Len(d) = Len(b) + Len(p)
      /\ Len(p) \in Nat
      /\ \A n \in 1..Len(b) : d[n] = b[n]
      /\ \A n \in 1..Len(d) : n \notin 1..Len(b) => d[n] \in Elems(p)
      /\ Elems(d) = Elems(b) \cup Elems(p)
  BY <1>4, <1>8, Joined
<1> HIDE DEF d
<1>10. /\ Worker(g) \in Seq(Names) /\ Len(Worker(g)) <= 6
       /\ Len(Worker(g)) = Len(d) + Len(r) /\ Len(r) \in Nat
       /\ \A n \in 1..Len(d) : Worker(g)[n] = d[n]
       /\ \A n \in 1..Len(Worker(g)) : n \notin 1..Len(d) => Worker(g)[n] \in Elems(r)
       /\ Elems(Worker(g)) = Elems(d) \cup Elems(r)
  BY <1>5, <1>6, <1>9, Joined
<1>11. Elems(a) = {q \in Queues : (IF q = "inbound" THEN "consumer" ELSE "publisher") \in g}
  BY <1>1, <1>2, <1>7 DEF Queues
<1>12. \A n \in 1..Len(a) : n \in 1..Len(Worker(g)) /\ Worker(g)[n] = a[n]
  BY <1>7, <1>8, <1>9, <1>10
<1>13. ASSUME NEW n \in 1..Len(Worker(g)), n \notin 1..Len(a)
       PROVE  Worker(g)[n] \in (Loops \cap g) \cup {"lag"}
  <2>1. Worker(g)[n] \in Elems(c) \cup Elems(p) \cup Elems(r)
    <3>1. CASE n \notin 1..Len(d)  BY <3>1, <1>10
    <3>2. CASE n \in 1..Len(d) /\ n \notin 1..Len(b)  BY <3>2, <1>9, <1>10
    <3>3. CASE n \in 1..Len(b)  BY <3>3, <1>8, <1>9, <1>10, <1>13
    <3> QED  BY <3>1, <3>2, <3>3
  <2> QED  BY <2>1, <1>3, <1>4, <1>5 DEF Loops
<1>14. Loops \cap g \subseteq Elems(Worker(g))
  BY <1>3, <1>4, <1>5, <1>8, <1>9, <1>10 DEF Loops
<1> QED  BY <1>7, <1>10, <1>11, <1>12, <1>13, <1>14 DEF a

Prefix == <<"logger", "telemetry", "pool", "database", "guard">>

(* Needed, of any graph. *)
NeededBy(g) ==
  {"database", "guard"} \cup
    (IF g = Api THEN {"keys"}
     ELSE {q \in Queues : (IF q = "inbound" THEN "consumer" ELSE "publisher") \in g})

(* What all five share. *)
LEMMA PrefixShape ==
  /\ Prefix \in Seq(Names) /\ Len(Prefix) = 5
  /\ \A n \in 1..5 : Prefix[n] \notin Parts /\ (Prefix[n] = "pool" <=> n = 3)
  /\ Prefix[4] = "database" /\ Prefix[5] = "guard"
<1>1. {"logger", "telemetry", "pool", "database", "guard"} \subseteq Names  BY DEF Names
<1>2. ASSUME NEW S, NEW a \in S, NEW b \in S, NEW c \in S, NEW d \in S, NEW e \in S
      PROVE  /\ <<a, b, c, d, e>> \in Seq(S) /\ Len(<<a, b, c, d, e>>) = 5
             /\ <<a, b, c, d, e>>[1] = a /\ <<a, b, c, d, e>>[2] = b
             /\ <<a, b, c, d, e>>[3] = c /\ <<a, b, c, d, e>>[4] = d
             /\ <<a, b, c, d, e>>[5] = e
  OBVIOUS
<1>3. Prefix \in Seq(Names)
  <2>1. /\ "logger" \in Names /\ "telemetry" \in Names /\ "pool" \in Names
        /\ "database" \in Names /\ "guard" \in Names
    BY <1>1
  <2> QED  BY <2>1, <1>2, Zenon DEF Prefix
<1>4. /\ Len(Prefix) = 5 /\ Prefix[1] = "logger" /\ Prefix[2] = "telemetry"
      /\ Prefix[3] = "pool" /\ Prefix[4] = "database" /\ Prefix[5] = "guard"
  BY DEF Prefix
<1>5. \A n \in 1..5 : n = 1 \/ n = 2 \/ n = 3 \/ n = 4 \/ n = 5  OBVIOUS
<1>6. \A n \in 1..5 : Prefix[n] \notin Parts /\ (Prefix[n] = "pool" <=> n = 3)
  BY <1>4, <1>5 DEF Parts, Loops
<1> QED  BY <1>3, <1>4, <1>6

(* After the five, the checks that are needed and then the parts. *)
LEMMA RestShape ==
  ASSUME NEW g \in Graphs
  PROVE  LET rest == IF g = Api THEN API ELSE Worker(g)
         IN  /\ rest \in Seq(Names) /\ Len(rest) \in Nat /\ Len(rest) <= 6
             /\ \A n \in 1..Len(rest) : rest[n] # "pool" /\ (rest[n] \in Parts => rest[n] \in g)
             /\ \A n \in 1..Len(rest) : rest[n] \in Parts =>
                  \A x \in NeededBy(g) \ {"database", "guard"} :
                    \E m \in 1..Len(rest) : m < n /\ rest[m] = x
             /\ g \subseteq Elems(rest)
<1> DEFINE rest == IF g = Api THEN API ELSE Worker(g)
<1>1. CASE g = Api
  <2>1. rest = API  BY <1>1
  <2>2. /\ Len(API) = 3 /\ API[1] = "keys" /\ API[2] = "outbound" /\ API[3] = "server"
    BY DEF API
  <2>3. API \in Seq(Names)
    <3>1. "keys" \in Names /\ "outbound" \in Names /\ "server" \in Names
      BY DEF Names, Queues, Parts
    <3>2. ASSUME NEW S, NEW a \in S, NEW b \in S, NEW c \in S
          PROVE  <<a, b, c>> \in Seq(S)
      OBVIOUS
    <3> QED  BY <3>1, <3>2, Zenon DEF API
  <2>4. 1..3 = {1, 2, 3}  OBVIOUS
  <2>5. NeededBy(g) \ {"database", "guard"} = {"keys"}  BY <1>1 DEF NeededBy
  <2>6. g = {"server"}  BY <1>1 DEF Api
  <2>7. \A n \in 1..Len(API) : API[n] # "pool" /\ (API[n] \in Parts => API[n] \in g)
    BY <2>2, <2>4, <2>6 DEF Parts, Loops
  <2>8. \A n \in 1..Len(API) : API[n] \in Parts => \E m \in 1..Len(API) : m < n /\ API[m] = "keys"
    BY <2>2, <2>4 DEF Parts, Loops
  <2>9. g \subseteq Elems(API)  BY <2>2, <2>6 DEF Elems
  <2>10. Len(API) \in Nat /\ Len(API) <= 6  BY <2>2
  <2>11. \A n \in 1..Len(API) : API[n] \in Parts =>
           \A x \in NeededBy(g) \ {"database", "guard"} :
             \E m \in 1..Len(API) : m < n /\ API[m] = x
    BY <2>5, <2>8
  <2> QED  BY <1>1, <2>3, <2>7, <2>9, <2>10, <2>11, Zenon
<1>2. CASE g # Api
  <2>1. rest = Worker(g) /\ g \subseteq Loops  BY <1>2 DEF Graphs
  <2> DEFINE w == Worker(g)
             c == checks(g)
  <2>2. /\ c \in Seq(Names) /\ w \in Seq(Names) /\ Len(w) <= 6
        /\ Elems(c) = {q \in Queues : (IF q = "inbound" THEN "consumer" ELSE "publisher") \in g}
        /\ \A n \in 1..Len(c) : n \in 1..Len(w) /\ w[n] = c[n]
        /\ \A n \in 1..Len(w) : n \notin 1..Len(c) => w[n] \in (Loops \cap g) \cup {"lag"}
        /\ Loops \cap g \subseteq Elems(w)
    BY WorkerShape
  <2> HIDE DEF w, c
  <2>3. Len(c) \in Nat /\ Len(w) \in Nat  BY <2>2, LenProperties
  <2>4. \A n \in 1..Len(c) : w[n] \in Queues  BY <2>2 DEF Elems
  <2>5. \A n \in 1..Len(w) : w[n] # "pool" /\ (w[n] \in Parts => w[n] \in g /\ n \notin 1..Len(c))
    BY <2>2, <2>4 DEF Parts, Loops, Queues
  <2>6. NeededBy(g) \ {"database", "guard"} \subseteq Elems(c)
    BY <1>2, <2>2 DEF NeededBy
  <2>7. ASSUME NEW n \in 1..Len(w), w[n] \in Parts, NEW x \in NeededBy(g) \ {"database", "guard"}
        PROVE  \E m \in 1..Len(w) : m < n /\ w[m] = x
    <3>1. PICK m \in 1..Len(c) : c[m] = x  BY <2>6 DEF Elems
    <3>2. m \in 1..Len(w) /\ w[m] = x  BY <3>1, <2>2
    <3>3. m < n  BY <2>3, <2>5, <2>7
    <3> QED  BY <3>2, <3>3
  <2>8. g \subseteq Elems(w)  BY <2>1, <2>2
  <2>9. w = rest  BY <2>1 DEF w
  <2> HIDE DEF rest
  <2>10. /\ rest \in Seq(Names) /\ Len(rest) \in Nat /\ Len(rest) <= 6
         /\ \A n \in 1..Len(rest) : rest[n] # "pool" /\ (rest[n] \in Parts => rest[n] \in g)
         /\ \A n \in 1..Len(rest) : rest[n] \in Parts =>
              \A x \in NeededBy(g) \ {"database", "guard"} :
                \E m \in 1..Len(rest) : m < n /\ rest[m] = x
         /\ g \subseteq Elems(rest)
    BY <2>2, <2>3, <2>5, <2>7, <2>8, <2>9
  <2> QED  BY <2>10 DEF rest
<1> QED  BY <1>1, <1>2

(* The order: the pool first, then every check that is needed, then the parts. *)
LEMMA Shape ==
  ASSUME NEW g \in Graphs
  PROVE  LET H == Hooks(g)
         IN  /\ Len(H) \in 5..11
             /\ \A n \in 1..Len(H) : H[n] = "pool" <=> n = 3
             /\ \A n \in 1..Len(H) : H[n] \in Parts => n > 5 /\ H[n] \in g
             /\ \A n \in 1..Len(H) : H[n] \in Parts =>
                  \A x \in NeededBy(g) : \E m \in 1..Len(H) : m < n /\ H[m] = x
             /\ \A p \in g : \E n \in 1..Len(H) : H[n] = p
<1> DEFINE rest == IF g = Api THEN API ELSE Worker(g)
           H == Hooks(g)
<1>1. H = Prefix \o rest  BY DEF Hooks, Prefix
<1>2. /\ rest \in Seq(Names) /\ Len(rest) \in Nat /\ Len(rest) <= 6
      /\ \A n \in 1..Len(rest) : rest[n] # "pool" /\ (rest[n] \in Parts => rest[n] \in g)
      /\ \A n \in 1..Len(rest) : rest[n] \in Parts =>
           \A x \in NeededBy(g) \ {"database", "guard"} :
             \E m \in 1..Len(rest) : m < n /\ rest[m] = x
      /\ g \subseteq Elems(rest)
  BY RestShape
<1> HIDE DEF rest, H
<1>3. /\ Len(H) = 5 + Len(rest)
      /\ \A n \in 1..Len(H) : H[n] = IF n <= 5 THEN Prefix[n] ELSE rest[n - 5]
  <2>1. Len(Prefix) = 5 /\ Prefix \in Seq(Names)  BY PrefixShape
  <2>2. /\ Len(Prefix \o rest) = Len(Prefix) + Len(rest)
        /\ \A n \in 1..Len(Prefix) + Len(rest) : (Prefix \o rest)[n] =
             IF n <= Len(Prefix) THEN Prefix[n] ELSE rest[n - Len(Prefix)]
    BY <2>1, <1>2, ConcatProperties
  <2> QED  BY <2>1, <2>2, <1>1
<1>4. \A n \in 1..Len(H) : n <= 5 => n \in 1..5 /\ H[n] = Prefix[n]  BY <1>2, <1>3
<1>5. \A n \in 1..Len(H) : ~(n <= 5) => n - 5 \in 1..Len(rest) /\ H[n] = rest[n - 5]
  BY <1>2, <1>3
<1>6. \A m \in 1..Len(rest) : m + 5 \in 1..Len(H) /\ H[m + 5] = rest[m]  BY <1>2, <1>3
<1>7. \A n \in 1..Len(H) : H[n] = "pool" <=> n = 3
  <2>1. 3 \in 1..Len(H)  BY <1>2, <1>3
  <2> QED  BY <1>2, <1>4, <1>5, PrefixShape
<1>8. \A n \in 1..Len(H) : H[n] \in Parts => n > 5 /\ H[n] \in g
  <2> SUFFICES ASSUME NEW n \in 1..Len(H), H[n] \in Parts PROVE n > 5 /\ H[n] \in g  OBVIOUS
  <2>1. ~(n <= 5)  BY <1>4, PrefixShape
  <2> QED  BY <2>1, <1>2, <1>3, <1>5
<1>9. ASSUME NEW n \in 1..Len(H), H[n] \in Parts, NEW x \in NeededBy(g)
      PROVE  \E m \in 1..Len(H) : m < n /\ H[m] = x
  <2>1. n > 5 /\ n - 5 \in 1..Len(rest) /\ rest[n - 5] \in Parts  BY <1>2, <1>3, <1>5, <1>8, <1>9
  <2>2. CASE x \in {"database", "guard"}
    <3>1. 4 \in 1..Len(H) /\ 5 \in 1..Len(H)  BY <1>2, <1>3
    <3>2. H[4] = "database" /\ H[5] = "guard"  BY <3>1, <1>4, PrefixShape
    <3>3. 4 < n /\ 5 < n  BY <2>1
    <3> QED  BY <2>2, <3>1, <3>2, <3>3
  <2>3. CASE x \notin {"database", "guard"}
    <3>1. PICK m \in 1..Len(rest) : m < n - 5 /\ rest[m] = x  BY <2>1, <2>3, <1>2
    <3>2. m + 5 \in 1..Len(H) /\ H[m + 5] = x  BY <3>1, <1>6
    <3>3. m + 5 < n  BY <3>1, <1>2, <1>3
    <3> QED  BY <3>2, <3>3
  <2> QED  BY <2>2, <2>3
<1>10. ASSUME NEW p \in g PROVE \E n \in 1..Len(H) : H[n] = p
  <2>1. PICK m \in 1..Len(rest) : rest[m] = p  BY <1>2 DEF Elems
  <2> QED  BY <2>1, <1>6
<1>11. Len(H) \in 5..11  BY <1>2, <1>3
<1> QED  BY <1>7, <1>8, <1>9, <1>10, <1>11 DEF H

-----------------------------------------------------------------------------
(* Where in the order a process is. *)

(* The part of LifeTypeOK that the order depends on. *)
Types ==
  /\ phase \in {"loading", "starting", "rollingback", "serving", "stopping", "exited"}
  /\ graph \in Graphs /\ ran \in Nat
  /\ part \in [Parts -> {"off", "idle", "indatabase", "calling", "returned"}]
  /\ cancelled \subseteq graph /\ late \subseteq cancelled
  /\ waiting \in cancelled \cup {"none", "pool"}
  /\ claims \in BOOLEAN /\ pool \in {"open", "closing", "closed"}
  /\ (exit # "none") <=> (phase = "exited")

Running == {"loading", "starting", "serving"}

(* The hooks behind a process that starts have passed, and their parts run. *)
StartsInOrder ==
  /\ ran <= Len(Hooks(graph))
  /\ phase = "loading" => ran = 0
  /\ phase = "serving" => ran = Len(Hooks(graph))
  /\ phase \in {"loading", "starting"} =>
       \A n \in 1..ran : /\ Hooks(graph)[n] \in NeededBy(graph) => Hooks(graph)[n] \in passed
                         /\ Hooks(graph)[n] \in Parts => part[Hooks(graph)[n]] # "off"
  /\ phase \in {"serving", "stopping"} => \A p \in graph : part[p] # "off"
  /\ phase \in Running => cancelled = {} /\ waiting = "none" /\ pool = "open"

(* A part that was started and not told to stop has its hook still to run, *)
(* and the one that Stop waits for is the last that has not come back.     *)
StopsInOrder ==
  /\ \A p \in Parts : part[p] # "off" =>
       p \in graph /\ (p \in cancelled \/ \E n \in 1..ran : Hooks(graph)[n] = p)
  /\ waiting \in Parts => ran > 0 /\ Hooks(graph)[ran] = waiting

(* Where the pool's hook is. *)
PoolInOrder ==
  /\ pool = "closing" <=> waiting = "pool"
  /\ pool = "closing" => ran = 3
  /\ pool = "closed" => ran < 3
  /\ phase = "stopping" => pool = "closed" \/ 3 <= ran
  /\ pool = "closed" => \A p \in Parts : part[p] # "indatabase"

(* A part whose Stop returned and reported nothing is finished, and the       *)
(* publisher has given back what it claimed.                                  *)
StoppedIsFinished ==
  /\ \A p \in cancelled \ late : waiting # p =>
       Finished(p) /\ (p = "publisher" => ~claims)
  /\ claims => "publisher" \in graph

IInv ==
  /\ Types
  /\ StartsInOrder
  /\ StopsInOrder
  /\ PoolInOrder
  /\ StoppedIsFinished
  /\ NothingStartsHalfUp
  /\ ExitTellsTheTruth

kept == <<graph, cancelled, waiting, late, pool, exit>>

(* What the order says of the state. *)
LEMMA OrderFacts ==
  ASSUME IInv
  PROVE  LET H == Hooks(graph)
         IN  /\ Len(H) \in 5..11 /\ ran \in Nat /\ ran <= Len(H)
             /\ \A n \in 1..Len(H) : H[n] = "pool" <=> n = 3
             /\ \A n \in 1..Len(H) : H[n] \in Parts => n > 5 /\ H[n] \in graph
             /\ \A n \in 1..Len(H) : H[n] \in Parts =>
                  \A x \in Needed : \E m \in 1..Len(H) : m < n /\ H[m] = x
             /\ \A p \in graph : \E n \in 1..Len(H) : H[n] = p
             /\ graph \subseteq Parts /\ "none" \notin Parts /\ "pool" \notin Parts
             /\ Needed = NeededBy(graph)
<1>1. graph \in Graphs  BY DEF IInv, Types
<1>2. Needed = NeededBy(graph)  BY DEF Needed, NeededBy
<1>3. graph \subseteq Parts /\ "none" \notin Parts /\ "pool" \notin Parts
  BY <1>1 DEF Graphs, Api, Parts, Loops
<1>4. ran \in Nat /\ ran <= Len(Hooks(graph))  BY DEF IInv, Types, StartsInOrder
<1> QED  BY <1>1, <1>2, <1>3, <1>4, Shape

(* Steps beside the order: a probe, an outage, a signal, a timer. *)
LEMMA Aside ==
  ASSUME IInv, UNCHANGED <<kept, phase, ran, part, claims>>, passed \subseteq passed'
  PROVE  IInv'
<1>1. Types' /\ StopsInOrder' /\ PoolInOrder' /\ StoppedIsFinished' /\ ExitTellsTheTruth'
  BY DEF kept, IInv, Types, StopsInOrder, PoolInOrder, StoppedIsFinished, ExitTellsTheTruth, Finished
<1>2. StartsInOrder'  BY DEF kept, IInv, StartsInOrder
<1>3. NothingStartsHalfUp'  BY DEF kept, IInv, NothingStartsHalfUp, Needed
<1> QED  BY <1>1, <1>2, <1>3 DEF IInv

(* The end of a process. *)
LEMMA ExitStep ==
  ASSUME IInv, NEW code, code # "none", Exits(code),
         code = "ok" => (\A p \in graph : Finished(p)) /\ ~claims /\ pool = "closed"
  PROVE  IInv'
<1>1. /\ UNCHANGED <<graph, cancelled, waiting, late, pool, ran, part, claims, passed>>
      /\ phase' = "exited" /\ exit' = code
  BY DEF Exits, work
<1>2. Types' /\ StopsInOrder' /\ PoolInOrder' /\ StoppedIsFinished'
  BY <1>1 DEF IInv, Types, StopsInOrder, PoolInOrder, StoppedIsFinished, Finished
<1>3. StartsInOrder'  BY <1>1 DEF IInv, StartsInOrder, Running
<1>4. NothingStartsHalfUp'  BY <1>1 DEF IInv, NothingStartsHalfUp, Needed
<1>5. ExitTellsTheTruth'  BY <1>1 DEF ExitTellsTheTruth, Finished
<1> QED  BY <1>2, <1>3, <1>4, <1>5 DEF IInv

(* A process is built, is up, begins to stop, or fails to start: only the   *)
(* phase changes.                                                           *)
LEMMA PhaseStep ==
  ASSUME IInv, UNCHANGED <<kept, ran, part, claims, passed>>,
         \/ phase = "loading" /\ phase' = "starting"
         \/ phase = "starting" /\ phase' = "serving" /\ ran = Len(Hooks(graph))
         \/ phase = "serving" /\ phase' = "stopping"
         \/ phase = "starting" /\ phase' = "rollingback"
  PROVE  IInv'
<1>1. Types' /\ StopsInOrder' /\ StoppedIsFinished' /\ ExitTellsTheTruth' /\ NothingStartsHalfUp'
  BY DEF kept, IInv, Types, StopsInOrder, StoppedIsFinished, ExitTellsTheTruth, Finished,
         NothingStartsHalfUp, Needed
<1>2. PoolInOrder'
  <2>1. phase = "serving" => 3 <= ran  BY OrderFacts DEF IInv, StartsInOrder
  <2> QED  BY <2>1 DEF kept, IInv, PoolInOrder
<1>3. StartsInOrder'
  <2>1. phase = "starting" /\ ran = Len(Hooks(graph)) => \A p \in graph : part[p] # "off"
    <3> SUFFICES ASSUME phase = "starting", ran = Len(Hooks(graph)), NEW p \in graph
                 PROVE  part[p] # "off"
      OBVIOUS
    <3>1. PICK n \in 1..ran : Hooks(graph)[n] = p  BY OrderFacts
    <3> QED  BY <3>1, OrderFacts DEF IInv, StartsInOrder
  <2> QED  BY <2>1 DEF kept, IInv, StartsInOrder, Running
<1> QED  BY <1>1, <1>2, <1>3 DEF IInv

-----------------------------------------------------------------------------
(* Start. *)

(* A hook that starts no part has run: what it checked has passed, unless  *)
(* this process can do without.                                            *)
LEMMA HookStep ==
  ASSUME IInv, phase = "starting", ran < Len(Hooks(graph)), ran' = ran + 1,
         UNCHANGED <<kept, phase, part, claims>>, Next1 \notin Parts, passed \subseteq passed',
         Next1 \in NeededBy(graph) => Next1 \in passed'
  PROVE  IInv'
<1>1. ran \in Nat /\ ran <= Len(Hooks(graph)) /\ Len(Hooks(graph)) \in 5..11  BY OrderFacts
<1>2. Types' /\ StoppedIsFinished' /\ ExitTellsTheTruth' /\ NothingStartsHalfUp'
  BY <1>1 DEF kept, IInv, Types, StoppedIsFinished, ExitTellsTheTruth, Finished,
              NothingStartsHalfUp, Needed
<1>3. cancelled = {} /\ waiting = "none" /\ pool = "open"  BY DEF IInv, StartsInOrder, Running
<1>4. PoolInOrder'  BY <1>3 DEF kept, PoolInOrder
<1>5. StopsInOrder'
  BY <1>1, <1>3, OrderFacts DEF kept, IInv, StopsInOrder
<1>6. StartsInOrder'
  <2>1. \A n \in 1..ran' : n \in 1..ran \/ (n = ran + 1 /\ Hooks(graph)[n] = Next1)
    BY <1>1 DEF Next1
  <2>2. ASSUME NEW n \in 1..ran'
        PROVE  /\ Hooks(graph)[n] \in NeededBy(graph) => Hooks(graph)[n] \in passed'
               /\ Hooks(graph)[n] \in Parts => part[Hooks(graph)[n]] # "off"
    BY <2>1, <2>2 DEF IInv, StartsInOrder
  <2> QED  BY <1>1, <1>3, <2>2 DEF kept, StartsInOrder
<1> QED  BY <1>2, <1>4, <1>5, <1>6 DEF IInv

(* The hook of a part has run: every check is behind it. *)
LEMMA PartStep ==
  ASSUME IInv, phase = "starting", ran < Len(Hooks(graph)), ran' = ran + 1,
         UNCHANGED <<kept, phase, passed, claims>>, Next1 \in Parts,
         part' = [part EXCEPT ![Next1] = "idle"]
  PROVE  IInv'
<1>1. ran \in Nat /\ ran <= Len(Hooks(graph)) /\ Len(Hooks(graph)) \in 5..11  BY OrderFacts
<1>2. ran + 1 \in 1..Len(Hooks(graph)) /\ Next1 = Hooks(graph)[ran + 1]  BY <1>1 DEF Next1
<1>3. Next1 \in graph /\ ran + 1 > 5  BY <1>2, OrderFacts
<1>4. cancelled = {} /\ waiting = "none" /\ pool = "open" /\ exit = "none"
  BY DEF IInv, StartsInOrder, Running, Types
<1>5. /\ part' \in [Parts -> {"off", "idle", "indatabase", "calling", "returned"}]
      /\ part'[Next1] = "idle" /\ \A p \in Parts : p # Next1 => part'[p] = part[p]
  BY DEF IInv, Types
<1>6. Types'  BY <1>1, <1>5 DEF kept, IInv, Types
<1>7. PoolInOrder' /\ StoppedIsFinished' /\ ExitTellsTheTruth'
  BY <1>4 DEF kept, IInv, PoolInOrder, StoppedIsFinished, ExitTellsTheTruth
<1>8. StopsInOrder'
  <2>1. ASSUME NEW p \in Parts, part'[p] # "off"
        PROVE  p \in graph /\ \E n \in 1..ran' : Hooks(graph)[n] = p
    <3>1. CASE p = Next1  BY <3>1, <1>1, <1>2, <1>3
    <3>2. CASE p # Next1
      <4>1. p \in graph /\ \E n \in 1..ran : Hooks(graph)[n] = p
        BY <3>2, <2>1, <1>4, <1>5 DEF IInv, StopsInOrder
      <4> QED  BY <4>1, <1>1
    <3> QED  BY <3>1, <3>2
  <2> QED  BY <2>1, <1>4, OrderFacts DEF kept, StopsInOrder
<1>9. StartsInOrder'
  <2>1. \A n \in 1..ran' : n \in 1..ran \/ n = ran + 1  BY <1>1
  <2>2. ASSUME NEW n \in 1..ran'
        PROVE  /\ Hooks(graph)[n] \in NeededBy(graph) => Hooks(graph)[n] \in passed
               /\ Hooks(graph)[n] \in Parts => part'[Hooks(graph)[n]] # "off"
    <3>1. CASE n \in 1..ran  BY <3>1, <1>5 DEF IInv, StartsInOrder
    <3>2. CASE n = ran + 1
      <4>1. Next1 \notin NeededBy(graph)
        BY DEF Parts, Loops, NeededBy, Queues
      <4> QED  BY <3>2, <4>1, <1>2, <1>5
    <3> QED  BY <2>1, <3>1, <3>2
  <2> QED  BY <1>1, <1>4, <2>2 DEF kept, StartsInOrder
<1>10. NothingStartsHalfUp'
  <2>1. ASSUME NEW x \in Needed PROVE x \in passed
    <3>1. PICK m \in 1..Len(Hooks(graph)) : m < ran + 1 /\ Hooks(graph)[m] = x
      BY <1>2, OrderFacts
    <3>2. m \in 1..ran  BY <3>1, <1>1
    <3>3. x \in NeededBy(graph)  BY OrderFacts
    <3> QED  BY <3>1, <3>2, <3>3 DEF IInv, StartsInOrder
  <2> QED  BY <2>1 DEF kept, NothingStartsHalfUp, Needed
<1> QED  BY <1>6, <1>7, <1>8, <1>9, <1>10 DEF IInv

(* Every step of the start. *)
LEMMA StartKeeps ==
  ASSUME IInv, StartSteps
  PROVE  IInv'
<1>1. CASE Build  BY <1>1, PhaseStep DEF Build, kept, work
<1>2. CASE Up  BY <1>2, PhaseStep DEF Up, kept, work
<1>3. ASSUME NEW S, Starting(S)
      PROVE  /\ phase = "starting" /\ ran < Len(Hooks(graph)) /\ Next1 \in S
             /\ UNCHANGED <<kept, claims>>
  BY <1>3 DEF Starting, kept
<1>4. CASE NoOnStart
  <2>1. Next1 \in {"logger", "telemetry", "pool", "lag"}  BY <1>3, <1>4 DEF NoOnStart
  <2>2. Next1 \notin Parts /\ Next1 \notin NeededBy(graph)
    BY <2>1 DEF Parts, Loops, NeededBy, Queues
  <2> QED  BY <1>3, <1>4, <2>2, HookStep DEF NoOnStart, HookRan
<1>5. CASE Check
  <2>1. Next1 \in {"database", "guard", "keys"} /\ UNCHANGED part  BY <1>3, <1>5 DEF Check
  <2>2. Next1 \notin Parts  BY <2>1 DEF Parts, Loops
  <2>3. CASE HookRan /\ passed' = passed \cup {Next1}
    BY <1>3, <1>5, <2>1, <2>2, <2>3, HookStep DEF Check, HookRan
  <2>4. CASE HookFailed
    BY <1>3, <1>5, <2>1, <2>4, PhaseStep DEF Check, HookFailed
  <2> QED  BY <1>5, <2>3, <2>4 DEF Check
<1>6. CASE resolveQueue
  <2>1. /\ phase = "starting" /\ ran < Len(Hooks(graph)) /\ Next1 \in Queues
        /\ UNCHANGED <<kept, claims, part>>
    BY <1>3, <1>6 DEF resolveQueue
  <2>2. Next1 \notin Parts  BY <2>1 DEF Parts, Loops, Queues
  <2>3. CASE HookRan /\ passed' = passed \cup {Next1}
    BY <2>1, <2>2, <2>3, HookStep DEF HookRan
  <2>4. CASE tolerateOutage /\ HookRan /\ UNCHANGED passed
    <3>1. Next1 \notin NeededBy(graph)  BY <2>1, <2>4 DEF tolerateOutage, NeededBy, Queues
    <3> QED  BY <2>1, <2>2, <2>4, <3>1, HookStep DEF HookRan
  <2>5. CASE HookFailed  BY <2>1, <2>5, PhaseStep DEF HookFailed
  <2> QED  BY <1>6, <2>3, <2>4, <2>5 DEF resolveQueue
<1>7. CASE StartPart
  <2>1. /\ phase = "starting" /\ ran < Len(Hooks(graph)) /\ Next1 \in Parts
        /\ UNCHANGED <<kept, claims>>
    BY <1>3, <1>7 DEF StartPart
  <2>2. CASE HookRan /\ UNCHANGED passed /\ part' = [part EXCEPT ![Next1] = "idle"]
    BY <2>1, <2>2, PartStep DEF HookRan
  <2>3. CASE HookFailed /\ UNCHANGED part  BY <2>1, <2>3, PhaseStep DEF HookFailed
  <2> QED  BY <1>7, <2>2, <2>3 DEF StartPart
<1> QED  BY <1>1, <1>2, <1>4, <1>5, <1>6, <1>7 DEF StartSteps

-----------------------------------------------------------------------------
(* The parts at work: a part whose Stop has returned with nothing to report *)
(* is finished, so it takes no further step.                                *)
LEMMA WorkKeeps ==
  ASSUME IInv, Work
  PROVE  IInv'
<1>1. PICK p \in graph : TakeWork(p) \/ Call(p) \/ CallEnds(p) \/ EndWork(p) \/ Return(p)
  BY DEF Work
<1>2. phase # "exited" /\ UNCHANGED <<kept, phase, ran, passed>>
  BY <1>1 DEF TakeWork, Call, CallEnds, EndWork, Return, Working, kept
<1>3. p \in Parts /\ graph \subseteq Parts  BY OrderFacts
<1>4. PICK v \in {"idle", "indatabase", "calling", "returned"} :
        part' = [part EXCEPT ![p] = v] /\ (v = "indatabase" => pool = "open")
  BY <1>1 DEF TakeWork, Call, CallEnds, EndWork, Return
<1>5. /\ part' \in [Parts -> {"off", "idle", "indatabase", "calling", "returned"}]
      /\ part'[p] = v /\ \A q \in Parts : q # p => part'[q] = part[q]
  BY <1>3, <1>4 DEF IInv, Types
<1>6. part[p] # "off"  BY <1>1 DEF TakeWork, Call, CallEnds, EndWork, Return
<1>7. claims' \in BOOLEAN /\ (claims' => claims \/ p = "publisher")
  <2>1. claims \in BOOLEAN  BY DEF IInv, Types
  <2>2. CASE TakeWork(p)  BY <2>1, <2>2, Zenon DEF TakeWork
  <2>3. CASE Call(p) \/ CallEnds(p) \/ Return(p)
    <3>1. claims' = claims  BY <2>3 DEF Call, CallEnds, Return
    <3> QED  BY <2>1, <3>1
  <2>4. CASE EndWork(p)
    <3>1. claims' = claims \/ claims' = FALSE  BY <2>4 DEF EndWork
    <3>2. CASE claims' = claims  BY <2>1, <3>2
    <3>3. CASE claims' = FALSE  BY <3>3
    <3> QED  BY <3>1, <3>2, <3>3
  <2> QED  BY <1>1, <2>2, <2>3, <2>4
<1>8. ~(p \in cancelled \ late /\ waiting # p)
  <2> SUFFICES ASSUME p \in cancelled \ late, waiting # p PROVE FALSE  OBVIOUS
  <2>1. Finished(p)  BY DEF IInv, StoppedIsFinished
  <2>2. ~TakeWork(p)  BY DEF TakeWork, outlivesStartUp
  <2>3. ~Return(p)  BY <2>1 DEF Return, Finished, Loops
  <2> QED  BY <1>1, <2>1, <2>2, <2>3 DEF Finished, Call, CallEnds, EndWork
<1>9. exit = "none"  BY <1>2 DEF IInv, Types
<1>10. Types'  BY <1>2, <1>5, <1>7 DEF kept, IInv, Types
<1>11. StartsInOrder'
  <2>1. \A q \in Parts : part[q] # "off" => part'[q] # "off"  BY <1>4, <1>5
  <2> QED  BY <1>2, <1>3, <2>1 DEF kept, IInv, StartsInOrder
<1>12. StopsInOrder'
  <2>1. \A q \in Parts : part'[q] # "off" => part[q] # "off"  BY <1>5, <1>6
  <2> QED  BY <1>2, <2>1 DEF kept, IInv, StopsInOrder
<1>13. PoolInOrder'  BY <1>2, <1>4, <1>5 DEF kept, IInv, PoolInOrder
<1>14. StoppedIsFinished'
  <2>1. ASSUME NEW q \in cancelled \ late, waiting # q
        PROVE  Finished(q)' /\ (q = "publisher" => ~claims')
    <3>1. q # p /\ q \in Parts  BY <1>3, <1>8, <2>1 DEF IInv, Types
    <3>2. Finished(q) /\ (q = "publisher" => ~claims)  BY <2>1 DEF IInv, StoppedIsFinished
    <3>3. part'[q] = part[q]  BY <3>1, <1>5
    <3> QED  BY <3>1, <3>2, <3>3, <1>7 DEF Finished
  <2>2. claims' => "publisher" \in graph  BY <1>7 DEF IInv, StoppedIsFinished
  <2> QED  BY <1>2, <2>1, <2>2 DEF kept, StoppedIsFinished
<1>15. NothingStartsHalfUp'  BY <1>2, <1>3, <1>6 DEF kept, IInv, NothingStartsHalfUp, Needed
<1>16. ExitTellsTheTruth'  BY <1>2, <1>9 DEF kept, ExitTellsTheTruth
<1> QED  BY <1>10, <1>11, <1>12, <1>13, <1>14, <1>15, <1>16 DEF IInv

-----------------------------------------------------------------------------
(* Stop. *)

(* What every stop hook leaves alone. *)
stopKept == <<phase, graph, part, passed, exit>>

(* A hook that gives nothing back has been stopped. *)
LEMMA QuietStep ==
  ASSUME IInv, StopQuietly
  PROVE  IInv'
<1>1. /\ phase \in {"stopping", "rollingback"} /\ waiting = "none" /\ ran > 0
      /\ Last1 \in Queues \cup {"database", "guard", "keys", "logger", "telemetry", "lag"}
      /\ ran' = ran - 1 /\ UNCHANGED <<stopKept, kept, claims>>
  BY DEF StopQuietly, NextHook, Stopping, stopKept, kept
<1>2. ran \in 1..Len(Hooks(graph)) /\ Last1 = Hooks(graph)[ran]  BY <1>1, OrderFacts DEF Last1
<1>3. Last1 \notin Parts /\ ran # 3
  <2>1. Last1 \notin Parts /\ Last1 # "pool"  BY <1>1 DEF Parts, Loops, Queues
  <2> QED  BY <2>1, <1>2, OrderFacts
<1>4. Types' /\ StoppedIsFinished' /\ ExitTellsTheTruth' /\ NothingStartsHalfUp'
  BY <1>1, <1>2 DEF stopKept, kept, IInv, Types, StoppedIsFinished, ExitTellsTheTruth, Finished,
                    NothingStartsHalfUp, Needed
<1>5. StartsInOrder'  BY <1>1, <1>2 DEF stopKept, kept, IInv, StartsInOrder, Running
<1>6. StopsInOrder'
  <2>1. \A n \in 1..ran : Hooks(graph)[n] \in Parts => n \in 1..ran'  BY <1>1, <1>2, <1>3
  <2> QED  BY <1>1, <2>1, OrderFacts DEF stopKept, kept, IInv, StopsInOrder
<1>7. PoolInOrder'  BY <1>1, <1>2, <1>3 DEF stopKept, kept, IInv, PoolInOrder
<1> QED  BY <1>4, <1>5, <1>6, <1>7 DEF IInv

(* While a part is the last hook, the pool is open. *)
LEMMA PoolIsOpen ==
  ASSUME IInv, ran > 0, Hooks(graph)[ran] \in Parts
  PROVE  ran > 5 /\ pool = "open"
<1>1. ran > 5  BY OrderFacts
<1> QED  BY <1>1, OrderFacts DEF IInv, PoolInOrder, Types

(* A part has been told to stop. *)
LEMMA TellStep ==
  ASSUME IInv, StopPart
  PROVE  IInv'
<1>1. /\ phase \in {"stopping", "rollingback"} /\ waiting = "none" /\ ran > 0 /\ Last1 \in Parts
      /\ cancelled' = cancelled \cup {Last1} /\ waiting' = Last1
      /\ UNCHANGED <<stopKept, ran, late, claims, pool>>
  BY DEF StopPart, NextHook, Stopping, stopKept
<1>2. ran \in 1..Len(Hooks(graph)) /\ Last1 = Hooks(graph)[ran]  BY <1>1, OrderFacts DEF Last1
<1>3. Last1 \in graph  BY <1>1, <1>2, OrderFacts
<1>4. ran > 5 /\ pool = "open"  BY <1>1, <1>2, PoolIsOpen
<1>5. Types' /\ ExitTellsTheTruth' /\ NothingStartsHalfUp'
  BY <1>1, <1>3 DEF stopKept, IInv, Types, ExitTellsTheTruth, Finished,
                    NothingStartsHalfUp, Needed
<1>6. StartsInOrder'  BY <1>1 DEF stopKept, IInv, StartsInOrder, Running
<1>7. StopsInOrder'  BY <1>1, <1>2 DEF stopKept, IInv, StopsInOrder
<1>8. PoolInOrder'  BY <1>1, <1>4, OrderFacts DEF stopKept, IInv, PoolInOrder
<1>9. StoppedIsFinished'
  <2>1. \A p \in cancelled' \ late' : waiting' # p => p \in cancelled \ late /\ waiting # p
    BY <1>1, OrderFacts DEF IInv, Types
  <2> QED  BY <1>1, <2>1 DEF stopKept, IInv, StoppedIsFinished, Finished
<1> QED  BY <1>5, <1>6, <1>7, <1>8, <1>9 DEF IInv

(* A part's Stop has returned: it reported, or the part is finished and has *)
(* given back what it claimed.                                              *)
LEMMA ReturnedStep ==
  ASSUME IInv, Drained \/ DrainTimeout
  PROVE  IInv'
<1>1. /\ phase \in {"stopping", "rollingback"} /\ waiting \in Parts
      /\ waiting' = "none" /\ ran' = ran - 1 /\ UNCHANGED <<stopKept, cancelled, pool>>
  BY DEF Drained, DrainTimeout, HookStopped, Stopping, stopKept
<1>2. ran \in 1..Len(Hooks(graph)) /\ Hooks(graph)[ran] = waiting /\ waiting \in cancelled
  BY <1>1, OrderFacts DEF IInv, StopsInOrder, Types
<1>3. ran > 5 /\ pool = "open"  BY <1>1, <1>2, PoolIsOpen
<1>4. /\ late' = late \/ late' = late \cup {waiting}
      /\ claims' \in BOOLEAN /\ (claims' => claims)
      /\ waiting \notin late' => Finished(waiting) /\ (waiting = "publisher" => ~claims')
  <2>1. PICK stopped \in BOOLEAN : GiveBack(waiting, stopped) /\ (stopped => Finished(waiting))
    BY DEF Drained, DrainTimeout
  <2>2. claims \in BOOLEAN  BY DEF IInv, Types
  <2>3. CASE claims' = (claims /\ waiting # "publisher") /\ stopWorker(waiting, ~stopped)
    <3>1. claims' \in BOOLEAN /\ (claims' => claims) /\ (waiting = "publisher" => ~claims')
      BY <2>3, Zenon
    <3>2. CASE stopped = TRUE  BY <2>1, <2>3, <3>1, <3>2 DEF stopWorker
    <3>3. CASE stopped = FALSE  BY <2>3, <3>1, <3>3 DEF stopWorker
    <3> QED  BY <3>2, <3>3
  <2>4. CASE UNCHANGED claims /\ stopWorker(waiting, TRUE)
    <3>1. late' = late \cup {waiting} /\ claims' = claims  BY <2>4 DEF stopWorker
    <3> QED  BY <3>1, <2>2
  <2> QED  BY <2>1, <2>3, <2>4 DEF GiveBack
<1>5. Types'  BY <1>1, <1>2, <1>4 DEF stopKept, IInv, Types
<1>6. ExitTellsTheTruth' /\ NothingStartsHalfUp'
  <2>1. exit' = "none"  BY <1>1 DEF stopKept, IInv, Types
  <2> QED  BY <1>1, <2>1 DEF stopKept, IInv, ExitTellsTheTruth, NothingStartsHalfUp, Needed
<1>7. StartsInOrder'  BY <1>1, <1>2, OrderFacts DEF stopKept, IInv, StartsInOrder, Running
<1>8. StopsInOrder'
  <2>1. \A n \in 1..ran : n \in 1..ran' \/ Hooks(graph)[n] \in cancelled  BY <1>1, <1>2
  <2> QED  BY <1>1, <2>1, OrderFacts DEF stopKept, IInv, StopsInOrder
<1>9. PoolInOrder'  BY <1>1, <1>2, <1>3 DEF stopKept, IInv, PoolInOrder
<1>10. StoppedIsFinished'
  <2>1. ASSUME NEW p \in cancelled \ late'
        PROVE  Finished(p) /\ (p = "publisher" => ~claims')
    <3>1. CASE p = waiting  BY <3>1, <1>4
    <3>2. CASE p # waiting  BY <3>2, <1>4 DEF IInv, StoppedIsFinished
    <3> QED  BY <3>1, <3>2
  <2>2. \A p : Finished(p)' <=> Finished(p)  BY <1>1 DEF stopKept, Finished
  <2>3. claims' => "publisher" \in graph  BY <1>4 DEF IInv, StoppedIsFinished
  <2> QED  BY <1>1, <2>1, <2>2, <2>3 DEF stopKept, StoppedIsFinished
<1> QED  BY <1>5, <1>6, <1>7, <1>8, <1>9, <1>10 DEF IInv

(* The pool takes no more work, and is closed: every part is behind. *)
LEMMA PoolStep ==
  ASSUME IInv, close \/ Closed
  PROVE  IInv'
<1>1. phase \in {"stopping", "rollingback"} /\ UNCHANGED <<stopKept, cancelled, late, claims>>
  BY DEF close, Closed, NextHook, Stopping, stopKept
<1>2. ran = 3 /\ waiting \notin Parts
  <2>1. CASE close
    <3>1. ran > 0 /\ Last1 = "pool" /\ waiting = "none"  BY <2>1 DEF close, NextHook
    <3>2. ran \in 1..Len(Hooks(graph)) /\ Hooks(graph)[ran] = "pool"
      BY <3>1, OrderFacts DEF Last1
    <3> QED  BY <3>1, <3>2, OrderFacts
  <2>2. CASE Closed  BY <2>2, OrderFacts DEF Closed, IInv, PoolInOrder
  <2> QED  BY <2>1, <2>2
<1>3. \/ pool' = "closing" /\ waiting' = "pool" /\ ran' = 3
      \/ /\ pool' = "closed" /\ waiting' = "none" /\ ran' = 2
         /\ \A p \in Parts : part[p] # "indatabase"
  BY <1>2 DEF close, Closed
<1>4. Types'  BY <1>1, <1>3 DEF stopKept, IInv, Types
<1>5. ExitTellsTheTruth' /\ NothingStartsHalfUp'
  <2>1. exit' = "none"  BY <1>1 DEF stopKept, IInv, Types
  <2> QED  BY <1>1, <2>1 DEF stopKept, IInv, ExitTellsTheTruth, NothingStartsHalfUp, Needed
<1>6. StartsInOrder'
  BY <1>1, <1>2, <1>3, OrderFacts DEF stopKept, IInv, StartsInOrder, Running
<1>7. StopsInOrder'
  <2>1. \A n \in 1..ran : Hooks(graph)[n] \notin Parts  BY <1>2, OrderFacts
  <2>2. \A p \in Parts : part[p] # "off" => p \in graph /\ p \in cancelled
    BY <2>1 DEF IInv, StopsInOrder
  <2>3. waiting' \notin Parts  BY <1>3, OrderFacts
  <2> QED  BY <1>1, <2>2, <2>3 DEF stopKept, StopsInOrder
<1>8. PoolInOrder'  BY <1>1, <1>2, <1>3 DEF stopKept, IInv, PoolInOrder
<1>9. StoppedIsFinished'
  <2>1. \A p \in cancelled : p \in Parts  BY OrderFacts DEF IInv, Types
  <2> QED  BY <1>1, <1>2, <2>1 DEF stopKept, IInv, StoppedIsFinished, Finished
<1> QED  BY <1>4, <1>5, <1>6, <1>7, <1>8, <1>9 DEF IInv

(* Every hook has been stopped and none reported: all came back. *)
LEMMA CleanStop ==
  ASSUME IInv, phase = "stopping", ran = 0, late = {}
  PROVE  (\A p \in graph : Finished(p)) /\ ~claims /\ pool = "closed"
<1>1. waiting \notin Parts  BY DEF IInv, StopsInOrder
<1>2. \A p \in graph : p \in Parts /\ p \in cancelled \ late /\ waiting # p
  <2>1. graph \subseteq Parts  BY OrderFacts
  <2>2. \A p \in graph : part[p] # "off"  BY DEF IInv, StartsInOrder
  <2> QED  BY <1>1, <2>1, <2>2 DEF IInv, StopsInOrder
<1>3. \A p \in graph : Finished(p) /\ (p = "publisher" => ~claims)
  BY <1>2 DEF IInv, StoppedIsFinished
<1>4. ~claims  BY <1>3 DEF IInv, StoppedIsFinished
<1>5. pool = "closed"  BY DEF IInv, PoolInOrder
<1> QED  BY <1>3, <1>4, <1>5

(* Every step of the stop. *)
LEMMA StopKeeps ==
  ASSUME IInv, StopSteps
  PROVE  IInv'
<1>1. CASE Shutdown  BY <1>1, PhaseStep DEF Shutdown, kept, work
<1>2. CASE StopQuietly  BY <1>2, QuietStep
<1>3. CASE StopPart  BY <1>3, TellStep
<1>4. CASE Drained \/ DrainTimeout  BY <1>4, ReturnedStep
<1>5. CASE close \/ Closed  BY <1>5, PoolStep
<1>6. CASE Stopped
  <2> DEFINE code == IF late = {} /\ ~stopContext THEN "ok" ELSE "unclean"
  <2>1. phase = "stopping" /\ ran = 0 /\ Exits(code)  BY <1>6 DEF Stopped
  <2>2. code # "none" /\ (code = "ok" => late = {})  OBVIOUS
  <2> HIDE DEF code
  <2> QED  BY <2>1, <2>2, CleanStop, ExitStep
<1>7. CASE RolledBack
  <2>1. Exits("failed")  BY <1>7 DEF RolledBack
  <2> QED  BY <2>1, ExitStep
<1>8. CASE GiveUp
  <2>1. Exits("unclean") \/ Exits("failed")  BY <1>8 DEF GiveUp
  <2> QED  BY <2>1, ExitStep
<1> QED  BY <1>1, <1>2, <1>3, <1>4, <1>5, <1>6, <1>7, <1>8 DEF StopSteps

-----------------------------------------------------------------------------
(* At first nothing has run. *)
LEMMA InitInvariant == LifeInit => IInv
<1> SUFFICES ASSUME LifeInit PROVE IInv  OBVIOUS
<1>1. Types  BY DEF LifeInit, Types
<1>2. Len(Hooks(graph)) \in 5..11 /\ graph \subseteq Parts
  BY <1>1, Shape DEF Types, Graphs, Api, Parts
<1>3. \A p \in Parts : part[p] = "off"  BY DEF LifeInit
<1>4. "none" \notin Parts  BY DEF Parts, Loops
<1>5. StartsInOrder  BY <1>2 DEF LifeInit, StartsInOrder
<1>6. StopsInOrder /\ PoolInOrder /\ StoppedIsFinished
  BY <1>3, <1>4 DEF LifeInit, StopsInOrder, PoolInOrder, StoppedIsFinished
<1>7. NothingStartsHalfUp /\ ExitTellsTheTruth
  BY <1>3 DEF LifeInit, NothingStartsHalfUp, ExitTellsTheTruth
<1> QED  BY <1>1, <1>5, <1>6, <1>7 DEF IInv

(* Every step keeps the order. *)
LEMMA StepInvariant == IInv /\ [LifeNext]_process => IInv'
<1> SUFFICES ASSUME IInv, [LifeNext]_process PROVE IInv'  OBVIOUS
<1>1. CASE LoadFails \/ BuildFails
  <2>1. Exits("config") \/ Exits("failed")  BY <1>1 DEF LoadFails, BuildFails
  <2> QED  BY <2>1, ExitStep
<1>2. CASE StartSteps  BY <1>2, StartKeeps
<1>3. CASE StopSteps  BY <1>3, StopKeeps
<1>4. CASE Work  BY <1>4, WorkKeeps
<1>5. CASE queueReadiness
  <2>1. UNCHANGED <<kept, phase, ran, part, claims>>  BY <1>5 DEF queueReadiness, kept, work
  <2>2. passed \subseteq passed'  BY <1>5 DEF queueReadiness
  <2> QED  BY <2>1, <2>2, Aside
<1>6. CASE QueueService \/ Signal \/ StartTimeout \/ StopTimeout
  <2>1. UNCHANGED <<kept, phase, ran, part, claims, passed>>
    BY <1>6 DEF QueueService, Signal, StartTimeout, StopTimeout, Spend, kept, work
  <2> QED  BY <2>1, Aside
<1>7. CASE UNCHANGED process
  <2>1. UNCHANGED <<kept, phase, ran, part, claims, passed>>  BY <1>7 DEF process, kept
  <2> QED  BY <2>1, Aside
<1> QED  BY <1>1, <1>2, <1>3, <1>4, <1>5, <1>6, <1>7 DEF LifeNext

(* Where in the order of its hooks a process is, at every moment. *)
THEOREM OrderHolds == LifeSpec => []IInv
BY InitInvariant, StepInvariant, PTL DEF LifeSpec

(* No server and no loop of a process has started while a check it needs has *)
(* not passed: worker.go forces the queues before any loop.                  *)
THEOREM NeverHalfUp == LifeSpec => []NothingStartsHalfUp
<1>1. IInv => NothingStartsHalfUp  BY DEF IInv
<1> QED  BY <1>1, OrderHolds, PTL

(* The pool's hook stops after every part's: when it begins to close, each  *)
(* part that ever ran has been told to stop and its Stop has returned, and  *)
(* when it is closed no transaction is open.                                *)
THEOREM PoolIsLast == LifeSpec => []PoolOutlivesItsUsers
<1>1. IInv => PoolOutlivesItsUsers
  <2> SUFFICES ASSUME IInv PROVE PoolOutlivesItsUsers  OBVIOUS
  <2>1. ASSUME pool # "open" PROVE ran <= 3
    BY <2>1, OrderFacts DEF IInv, Types, PoolInOrder
  <2>2. ASSUME ran <= 3 PROVE \A n \in 1..ran : Hooks(graph)[n] \notin Parts
    BY <2>2, OrderFacts
  <2>3. ASSUME pool # "open" PROVE waiting \notin Parts
    <3>1. \A n \in 1..ran : Hooks(graph)[n] \notin Parts  BY <2>1, <2>2, <2>3
    <3> QED  BY <3>1, OrderFacts DEF IInv, StopsInOrder
  <2>4. ASSUME pool # "open", NEW p \in Parts, part[p] # "off" PROVE p \in cancelled
    <3>1. \A n \in 1..ran : Hooks(graph)[n] \notin Parts  BY <2>1, <2>2, <2>4
    <3> QED  BY <3>1, <2>4 DEF IInv, StopsInOrder
  <2>5. pool = "closed" => \A p \in Parts : part[p] # "indatabase"  BY DEF IInv, PoolInOrder
  <2> QED  BY <2>3, <2>4, <2>5 DEF PoolOutlivesItsUsers
<1> QED  BY <1>1, OrderHolds, PTL

(* A process that exits 0 has no request and no turn still running, no row  *)
(* under its publisher's name, and its pool closed.                         *)
THEOREM ExitIsTrue == LifeSpec => []ExitTellsTheTruth
<1>1. IInv => ExitTellsTheTruth  BY DEF IInv
<1> QED  BY <1>1, OrderHolds, PTL

-----------------------------------------------------------------------------
(* The keys. *)

KeyTypes ==
  /\ document \in SUBSET Entries
  /\ age \in Int /\ age <= MinInterval
  /\ elapsed \in 0 .. MinInterval
  /\ fetches \in Seq({Reading} \cup SUBSET Kids)
  /\ inflight \in BOOLEAN /\ up \in BOOLEAN
  /\ call \in [Callers -> [at : Places, kid : Kids \cup {Nil}]]

(* There is one fetch at a time, and it is the one in flight. *)
OneFetch == Len(fetches) <= 1 /\ (inflight <=> Len(fetches) = 1)

(* The age the code reads lies between the two times it stands for. *)
ClockInv ==
  /\ age <= elapsed
  /\ waited # Nil => waited \in 0 .. MinInterval /\ waited <= age
  /\ ~up => waited = Nil /\ \A c \in Callers : call[c].at = "idle"

KeyInv == KeyTypes /\ OneFetch /\ ClockInv

(* What the property forbids of a caller's step. *)
Declines(c) == call[c].at # "declined" /\ call'[c].at = "declined"

(* There is no fetch, or one. *)
LEMMA NoneOrOne == ASSUME NEW n \in Nat, n <= 1 PROVE n = 0 \/ n = 1
OBVIOUS

(* With one fetch, a fetch is the first. *)
LEMMA OnlyOne == ASSUME NEW n \in Nat, n <= 1, NEW i \in 1 .. n PROVE n = 1 /\ i = 1
OBVIOUS

(* A fetch that returns stays where it is in the list. *)
LEMMA Returns ==
  ASSUME NEW S, NEW seq \in Seq(S), NEW i \in 1 .. Len(seq), NEW e \in S, NEW next,
         next = [seq EXCEPT ![i] = e]
  PROVE  next \in Seq(S) /\ Len(next) = Len(seq)
BY ExceptSeq

(* The first state. *)
LEMMA InitInv == Init => KeyInv
<1> SUFFICES ASSUME Init PROVE KeyInv  OBVIOUS
<1> USE KeySetAssumption DEF KeySetAssumption
<1>1. fetches \in Seq({Reading} \cup SUBSET Kids) /\ Len(fetches) = 0
  BY EmptySeq DEF Init
<1>2. KeyTypes
  <2>1. document \in SUBSET Entries  BY DEF Init
  <2>2. age \in Int /\ age <= MinInterval /\ elapsed \in 0 .. MinInterval  BY DEF Init
  <2>3. inflight \in BOOLEAN /\ up \in BOOLEAN  BY Zenon DEF Init
  <2>4. call \in [Callers -> [at : Places, kid : Kids \cup {Nil}]]
    <3>1. [at |-> "idle", kid |-> Nil] \in [at : Places, kid : Kids \cup {Nil}]  BY DEF Places
    <3> QED  BY <3>1 DEF Init
  <2> QED  BY <1>1, <2>1, <2>2, <2>3, <2>4 DEF KeyTypes
<1>3. OneFetch /\ ClockInv  BY <1>1 DEF Init, OneFetch, ClockInv
<1> QED  BY <1>2, <1>3 DEF KeyInv

(* The request of c goes from one place to another. *)
LEMMA CallStep ==
  ASSUME KeyTypes, NEW c \in Callers, NEW x \in [at : Places, kid : Kids \cup {Nil}],
         call' = [call EXCEPT ![c] = x]
  PROVE  /\ call' \in [Callers -> [at : Places, kid : Kids \cup {Nil}]]
         /\ call'[c] = x /\ \A d \in Callers : d # c => call'[d] = call[d]
BY DEF KeyTypes

(* As above, for a step that leaves the identifier the token carries. *)
LEMMA PlaceStep ==
  ASSUME KeyTypes, NEW c \in Callers, NEW at \in Places, call' = [call EXCEPT ![c].at = at]
  PROVE  /\ call' \in [Callers -> [at : Places, kid : Kids \cup {Nil}]]
         /\ call'[c].at = at /\ \A d \in Callers : d # c => call'[d] = call[d]
BY DEF KeyTypes

(* Steps of a request other than startRefresh's, and of the issuer: no      *)
(* clock is read and no fetch begins.                                       *)
LEMMA QuietSteps ==
  ASSUME KeyInv, NEW c \in Callers,
         (\E kid \in Kids : key(c, kid)) \/ leave(c) \/ lookAgain(c) \/ answer(c)
  PROVE  KeyInv' /\ Len(fetches') = Len(fetches) /\ \A d \in Callers : ~Declines(d)
<1>1. /\ UNCHANGED <<document, age, inflight, fetches, up, elapsed, waited>> /\ KeyTypes
  BY DEF key, leave, lookAgain, answer, KeyInv
<1>2. up
  <2>1. call[c].at # "idle" => up  BY DEF KeyInv, ClockInv
  <2> QED  BY <2>1 DEF key, leave, lookAgain, answer
<1>3. PICK x \in [at : Places, kid : Kids \cup {Nil}] :
        call' = [call EXCEPT ![c] = x] /\ x.at # "declined"
  <2>1. call[c] \in [at : Places, kid : Kids \cup {Nil}]  BY <1>1 DEF KeyTypes
  <2>2. ASSUME NEW at \in Places, call' = [call EXCEPT ![c].at = at], at # "declined"
        PROVE  \E x \in [at : Places, kid : Kids \cup {Nil}] :
                 call' = [call EXCEPT ![c] = x] /\ x.at # "declined"
    <3> DEFINE x == [call[c] EXCEPT !.at = at]
    <3>1. x \in [at : Places, kid : Kids \cup {Nil}] /\ x.at = at  BY <2>1
    <3>2. call' = [call EXCEPT ![c] = x]  BY <1>1, <2>2 DEF KeyTypes
    <3> QED  BY <2>2, <3>1, <3>2
  <2>3. CASE \E kid \in Kids : key(c, kid)
    <3>1. PICK kid \in Kids : key(c, kid)  BY <2>3
    <3> DEFINE x == [at |-> IF cached(kid) THEN "found" ELSE "missed", kid |-> kid]
    <3>2. x \in [at : Places, kid : Kids \cup {Nil}] /\ x.at # "declined"  BY DEF Places
    <3> QED  BY <3>1, <3>2 DEF key
  <2>4. CASE leave(c)  BY <2>2, <2>4 DEF leave, Places
  <2>5. CASE lookAgain(c)
    <3>1. PICK at \in {"found", "unknown"} : call' = [call EXCEPT ![c].at = at]
      BY <2>5 DEF lookAgain
    <3> QED  BY <2>2, <3>1 DEF Places
  <2>6. CASE answer(c)
    <3> DEFINE x == [at |-> "idle", kid |-> Nil]
    <3>1. x \in [at : Places, kid : Kids \cup {Nil}] /\ x.at # "declined"  BY DEF Places
    <3> QED  BY <2>6, <3>1 DEF answer
  <2> QED  BY <2>3, <2>4, <2>5, <2>6
<1>4. /\ call' \in [Callers -> [at : Places, kid : Kids \cup {Nil}]]
      /\ call'[c] = x /\ \A d \in Callers : d # c => call'[d] = call[d]
  BY <1>1, <1>3, CallStep
<1>5. \A d \in Callers : ~Declines(d)  BY <1>3, <1>4 DEF Declines
<1>6. KeyInv'  BY <1>1, <1>2, <1>4 DEF KeyInv, KeyTypes, OneFetch, ClockInv
<1> QED  BY <1>1, <1>5, <1>6

(* startRefresh: a fetch begins only when the interval has really passed,   *)
(* and a refusal comes within the interval of the first.                    *)
LEMMA RefreshStep ==
  ASSUME KeyInv, NEW c \in Callers, startRefresh(c)
  PROVE  /\ KeyInv'
         /\ Len(fetches') > Len(fetches) => elapsed >= MinInterval
         /\ \A d \in Callers : Declines(d) => waited = Nil \/ waited < MinInterval
<1> USE KeySetAssumption DEF KeySetAssumption
<1>1. KeyTypes /\ call[c].at = "missed" /\ UNCHANGED <<document, up, elapsed>>  BY DEF KeyInv, startRefresh
<1>2. up  BY <1>1 DEF KeyInv, ClockInv
<1>3. \A at \in {"waiting", "declined"} : at \in Places  BY DEF Places
<1>4. CASE inflight /\ Join(c)
  <2>1. call' = [call EXCEPT ![c].at = "waiting"] /\ UNCHANGED <<age, inflight, fetches, waited>>
    BY <1>4 DEF Join
  <2>2. /\ call' \in [Callers -> [at : Places, kid : Kids \cup {Nil}]]
        /\ call'[c].at = "waiting" /\ \A d \in Callers : d # c => call'[d] = call[d]
    BY <1>1, <1>3, <2>1, PlaceStep
  <2>3. \A d \in Callers : ~Declines(d)  BY <2>2 DEF Declines
  <2>4. KeyInv'  BY <1>1, <1>2, <2>1, <2>2 DEF KeyInv, KeyTypes, OneFetch, ClockInv
  <2>5. ~(Len(fetches') > Len(fetches))  BY <1>1, <2>1, LenProperties DEF KeyTypes
  <2> QED  BY <2>3, <2>4, <2>5
<1>5. CASE Decline(c)
  <2>1. /\ Age < MinInterval /\ age' = Age /\ call' = [call EXCEPT ![c].at = "declined"]
        /\ waited' = (IF waited = Nil THEN 0 ELSE waited) /\ UNCHANGED <<inflight, fetches>>
    BY <1>5 DEF Decline
  <2>2. /\ call' \in [Callers -> [at : Places, kid : Kids \cup {Nil}]]
    BY <1>1, <1>3, <2>1, PlaceStep
  <2>3. Age \in Nat /\ age <= Age /\ (0 <= age => Age = age) /\ Age <= elapsed
    BY <1>1 DEF Age, KeyTypes, KeyInv, ClockInv
  <2>4. waited # Nil => waited < MinInterval /\ waited <= Age /\ waited \in 0 .. MinInterval
    BY <1>1, <2>1, <2>3 DEF KeyTypes, KeyInv, ClockInv
  <2>5. KeyTypes'  BY <1>1, <2>1, <2>2, <2>3 DEF KeyTypes
  <2>6. ClockInv'  BY <1>1, <1>2, <2>1, <2>3, <2>4 DEF ClockInv, KeyTypes
  <2>7. OneFetch'  BY <2>1 DEF KeyInv, OneFetch
  <2>8. ~(Len(fetches') > Len(fetches))  BY <1>1, <2>1, LenProperties DEF KeyTypes
  <2> QED  BY <2>4, <2>5, <2>6, <2>7, <2>8 DEF KeyInv
<1>6. CASE ~inflight /\ Begin(c)
  <2>1. /\ Age >= MinInterval /\ inflight' = TRUE /\ fetches' = Append(fetches, Reading)
        /\ call' = [call EXCEPT ![c].at = "waiting"] /\ waited' = Nil /\ UNCHANGED age
    BY <1>6 DEF Begin
  <2>2. /\ call' \in [Callers -> [at : Places, kid : Kids \cup {Nil}]]
        /\ call'[c].at = "waiting" /\ \A d \in Callers : d # c => call'[d] = call[d]
    BY <1>1, <1>3, <2>1, PlaceStep
  <2>3. elapsed >= MinInterval  BY <1>1, <2>1 DEF Age, KeyTypes, KeyInv, ClockInv
  <2>4. fetches' \in Seq({Reading} \cup SUBSET Kids) /\ Len(fetches') = Len(fetches) + 1
    BY <1>1, <2>1, AppendProperties DEF KeyTypes
  <2>5. Len(fetches) = 0
    <3>1. Len(fetches) \in Nat  BY <1>1, LenProperties DEF KeyTypes
    <3>2. Len(fetches) <= 1 /\ Len(fetches) # 1  BY <1>6, Zenon DEF KeyInv, OneFetch
    <3> QED  BY <3>1, <3>2, NoneOrOne, Zenon
  <2>6. KeyTypes'  BY <1>1, <2>1, <2>2, <2>4 DEF KeyTypes
  <2>7. OneFetch' /\ ClockInv'  BY <1>1, <1>2, <2>1, <2>4, <2>5 DEF OneFetch, KeyInv, ClockInv
  <2>8. \A d \in Callers : ~Declines(d)  BY <2>2 DEF Declines
  <2> QED  BY <2>3, <2>6, <2>7, <2>8 DEF KeyInv
<1> QED  BY <1>4, <1>5, <1>6 DEF startRefresh

(* The fetch returns, and is recorded. *)
LEMMA FetchStep ==
  ASSUME KeyInv, NEW i \in 1 .. Len(fetches), Fetched(i) \/ runRefresh(i)
  PROVE  KeyInv' /\ Len(fetches') <= Len(fetches) /\ \A d \in Callers : ~Declines(d)
<1> USE KeySetAssumption DEF KeySetAssumption
<1>1. KeyTypes /\ Len(fetches) = 1 /\ i = 1 /\ inflight
  <2>1. Len(fetches) \in Nat  BY LenProperties DEF KeyInv, KeyTypes
  <2>2. Len(fetches) <= 1 /\ (Len(fetches) = 1 => inflight) /\ KeyTypes
    BY Zenon DEF KeyInv, OneFetch
  <2>3. Len(fetches) = 1 /\ i = 1  BY <2>1, <2>2, OnlyOne, Zenon
  <2> QED  BY <2>2, <2>3, Zenon
<1>2. CASE Fetched(i)
  <2>1. PICK got \in fetch : fetches' = [fetches EXCEPT ![i] = got]  BY <1>2 DEF Fetched
  <2>2. got \in SUBSET Kids
    <3>1. verifyingKeys(document) \subseteq Kids  BY <1>1 DEF verifyingKeys, KeyTypes, Entries
    <3> QED  BY <3>1 DEF fetch, Failed
  <2>3. fetches' \in Seq({Reading} \cup SUBSET Kids) /\ Len(fetches') = Len(fetches)
    <3>1. fetches \in Seq({Reading} \cup SUBSET Kids) /\ got \in {Reading} \cup SUBSET Kids
      BY <1>1, <2>2 DEF KeyTypes
    <3> QED  BY <2>1, <3>1, Returns
  <2>4. UNCHANGED <<document, age, inflight, call, up, elapsed, waited>>  BY <1>2 DEF Fetched
  <2>5. KeyInv'  BY <1>1, <2>3, <2>4 DEF KeyInv, KeyTypes, OneFetch, ClockInv
  <2> QED  BY <1>1, <2>3, <2>4, <2>5 DEF Declines
<1>3. CASE runRefresh(i)
  <2>1. /\ age' = 0 /\ inflight' = FALSE /\ fetches' = RemoveAt(fetches, i) /\ call' = Woken
        /\ elapsed' = 0 /\ waited' = Nil /\ UNCHANGED <<document, up>>
    BY <1>3 DEF runRefresh, Record
  <2>2. fetches' = <<>>
    <3>1. fetches' = SubSeq(fetches, 1, 0) \o SubSeq(fetches, 2, 1)  BY <1>1, <2>1 DEF RemoveAt
    <3>2. SubSeq(fetches, 1, 0) = <<>> /\ SubSeq(fetches, 2, 1) = <<>>
      BY <1>1, SubSeqEmpty DEF KeyTypes
    <3> QED  BY <3>1, <3>2
  <2>3. ASSUME NEW d \in Callers
        PROVE  /\ call'[d] \in [at : Places, kid : Kids \cup {Nil}]
               /\ call[d].at = "idle" => call'[d].at = "idle"
               /\ call'[d].at = "declined" => call[d].at = "declined"
    <3>1. call[d] \in [at : Places, kid : Kids \cup {Nil}]  BY <1>1 DEF KeyTypes
    <3>2. CASE call[d].at = "waiting"
      <4>1. call'[d] = [call[d] EXCEPT !.at = "woken"]  BY <2>1, <3>2 DEF Woken
      <4>2. "woken" \in Places  BY DEF Places
      <4> QED  BY <3>1, <3>2, <4>1, <4>2
    <3>3. CASE call[d].at # "waiting"
      <4>1. call'[d] = call[d]  BY <2>1, <3>3 DEF Woken
      <4> QED  BY <3>1, <4>1
    <3> QED  BY <3>2, <3>3
  <2>4. call' \in [Callers -> [at : Places, kid : Kids \cup {Nil}]]
    <3>1. call' = [d \in Callers |-> call'[d]]  BY <2>1 DEF Woken
    <3> QED  BY <2>3, <3>1
  <2>5. fetches' \in Seq({Reading} \cup SUBSET Kids) /\ Len(fetches') = 0  BY <2>2, EmptySeq
  <2>6. KeyTypes'
    <3>1. age' \in Int /\ age' <= MinInterval /\ elapsed' \in 0 .. MinInterval  BY <2>1
    <3>2. inflight' \in BOOLEAN /\ up' \in BOOLEAN  BY <1>1, <2>1, Zenon DEF KeyTypes
    <3> QED  BY <1>1, <2>1, <2>4, <2>5, <3>1, <3>2 DEF KeyTypes
  <2>7. OneFetch' /\ ClockInv'  BY <2>1, <2>3, <2>5 DEF KeyInv, OneFetch, ClockInv
  <2> QED  BY <1>1, <2>3, <2>5, <2>6, <2>7 DEF KeyInv, Declines
<1> QED  BY <1>2, <1>3

(* Time passes, the clock is set back, the process starts, the issuer       *)
(* publishes.                                                               *)
LEMMA WorldStep ==
  ASSUME KeyInv, prime \/ Tick \/ SetBack \/ Rotate \/ UNCHANGED vars
  PROVE  KeyInv' /\ UNCHANGED <<fetches, call>>
<1> USE KeySetAssumption DEF KeySetAssumption
<1>1. UNCHANGED <<fetches, call, inflight>>  BY DEF prime, Tick, SetBack, Rotate, vars
<1>2. KeyTypes /\ OneFetch  BY DEF KeyInv
<1>3. CASE prime
  <2>1. /\ age' = 0 /\ elapsed' = 0 /\ up' = TRUE /\ UNCHANGED <<document, waited>> /\ ~up
    BY <1>3 DEF prime
  <2>2. waited = Nil  BY <2>1 DEF KeyInv, ClockInv
  <2> QED  BY <1>1, <1>2, <2>1, <2>2 DEF KeyInv, KeyTypes, OneFetch, ClockInv
<1>4. CASE Tick
  <2>1. /\ age' = (IF age < MinInterval THEN age + 1 ELSE age)
        /\ elapsed' = (IF elapsed < MinInterval THEN elapsed + 1 ELSE elapsed)
        /\ waited' = (IF waited = Nil \/ waited = MinInterval THEN waited ELSE waited + 1)
        /\ UNCHANGED <<document, up>>
    BY <1>4 DEF Tick
  <2>2. age' \in Int /\ age' <= MinInterval /\ elapsed' \in 0 .. MinInterval /\ age' <= elapsed'
    BY <1>2, <2>1 DEF KeyTypes, KeyInv, ClockInv
  <2>3. ASSUME waited' # Nil PROVE waited' \in 0 .. MinInterval /\ waited' <= age'
    <3>1. waited # Nil  BY <2>1, <2>3
    <3>2. waited \in 0 .. MinInterval /\ waited <= age  BY <3>1 DEF KeyInv, ClockInv
    <3> QED  BY <1>2, <2>1, <3>1, <3>2 DEF KeyTypes
  <2>4. ~up => waited' = Nil  BY <2>1 DEF KeyInv, ClockInv
  <2> QED  BY <1>1, <1>2, <2>1, <2>2, <2>3, <2>4 DEF KeyInv, KeyTypes, OneFetch, ClockInv
<1>5. CASE SetBack
  <2>1. PICK by \in 1 .. MaxStep : age' = age - by  BY <1>5 DEF SetBack
  <2>2. up /\ UNCHANGED <<document, up, elapsed>> /\ waited' = Nil  BY <1>5 DEF SetBack
  <2>3. age' \in Int /\ age' <= MinInterval /\ age' <= elapsed  BY <1>2, <2>1 DEF KeyTypes, KeyInv, ClockInv
  <2> QED  BY <1>1, <1>2, <2>2, <2>3 DEF KeyInv, KeyTypes, OneFetch, ClockInv
<1>6. CASE Rotate \/ UNCHANGED vars
  <2>1. UNCHANGED <<age, elapsed, up, waited>>  BY <1>6 DEF Rotate, vars
  <2>2. document' \in SUBSET Entries  BY <1>2, <1>6 DEF Rotate, vars, KeyTypes
  <2> QED  BY <1>1, <1>2, <2>1, <2>2 DEF KeyInv, KeyTypes, OneFetch, ClockInv
<1> QED  BY <1>1, <1>3, <1>4, <1>5, <1>6

(* What any step does. *)
LEMMA NextStep ==
  ASSUME KeyInv, [Next]_vars
  PROVE  /\ KeyInv'
         /\ Len(fetches') > Len(fetches) => elapsed >= MinInterval
         /\ \A d \in Callers : Declines(d) => waited = Nil \/ waited < MinInterval
<1>1. Len(fetches) \in Nat  BY LenProperties DEF KeyInv, KeyTypes
<1>2. CASE \E c \in Callers : Request(c)
  <2>1. PICK c \in Callers : Request(c)  BY <1>2
  <2>2. CASE startRefresh(c)  BY <2>2, RefreshStep
  <2>3. CASE (\E kid \in Kids : key(c, kid)) \/ leave(c) \/ lookAgain(c) \/ answer(c)
    BY <1>1, <2>3, QuietSteps
  <2> QED  BY <2>1, <2>2, <2>3 DEF Request
<1>3. CASE Refresh
  <2>1. PICK i \in 1 .. Len(fetches) : Fetched(i) \/ runRefresh(i)  BY <1>3 DEF Refresh
  <2>2. KeyInv' /\ Len(fetches') <= Len(fetches) /\ \A d \in Callers : ~Declines(d)
    BY <2>1, FetchStep
  <2>3. Len(fetches') \in Nat  BY <2>2, LenProperties DEF KeyInv, KeyTypes
  <2> QED  BY <1>1, <2>2, <2>3
<1>4. CASE prime \/ Tick \/ SetBack \/ Rotate \/ UNCHANGED vars
  <2>1. KeyInv' /\ UNCHANGED <<fetches, call>>  BY <1>4, WorldStep
  <2> QED  BY <1>1, <2>1 DEF Declines
<1> QED  BY <1>2, <1>3, <1>4 DEF Next

(* The age the code reads is bounded by the two times it stands for. *)
THEOREM ClockHolds == Spec => []KeyInv
<1>1. KeyInv /\ [Next]_vars => KeyInv'  BY NextStep
<1> QED  BY <1>1, InitInv, PTL DEF Spec

(* The issuer is asked at most once per interval of real time, whether the  *)
(* fetches succeed or fail and however the host's clock is set back.        *)
THEOREM IssuerIsSpared == Spec => IssuerIsNotHammered
<1>1. KeyInv /\ [Next]_vars => [Len(fetches') > Len(fetches) => elapsed >= MinInterval]_vars
  BY NextStep
<1> QED  BY <1>1, ClockHolds, PTL DEF Spec, IssuerIsNotHammered

(* A run of declined refreshes ends within one interval of its first, also  *)
(* after a clock correction.                                                *)
THEOREM DeclinesEnd == Spec => DeclineIsBounded
<1>1. KeyInv /\ [Next]_vars =>
        [\A c \in Callers : call[c].at # "declined" /\ call'[c].at = "declined" =>
           waited = Nil \/ waited < MinInterval]_vars
  BY NextStep DEF Declines
<1> QED  BY <1>1, ClockHolds, PTL DEF Spec, DeclineIsBounded
=============================================================================
