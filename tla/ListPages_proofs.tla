--------------------------- MODULE ListPages_proofs ---------------------------
(***************************************************************************)
(* Theorems about the paginated list queries, for any number of nodes, any *)
(* page sizes and any order in which others ingest.                        *)
(***************************************************************************)
EXTENDS ListPages, FiniteSetTheorems, TLAPS

-----------------------------------------------------------------------------
(* Numbers.                                                                *)
LEMMA SetInduction ==
  ASSUME NEW S, 0 \in S, \A n \in Nat : n \in S => n + 1 \in S
  PROVE  Nat \subseteq S
<1> DEFINE T == Nat \ S
           R == OpToRel(<, Nat)
<1> SUFFICES ASSUME T # {} PROVE FALSE
  OBVIOUS
<1>1. IsWellFoundedOn(R, Nat)
  BY NatLessThanWellFounded
<1>2. \A x, y \in Nat : x < y => <<x, y>> \in R
  BY DEF OpToRel
<1> HIDE DEF R
<1>3. PICK m \in T : \A y \in T : ~(<<y, m>> \in R)
  BY <1>1, WFMin
<1>4. m # 0 /\ m - 1 \in Nat /\ m - 1 < m /\ m \in Nat
  OBVIOUS
<1>5. m - 1 \in S
  BY <1>2, <1>3, <1>4
<1>6. (m - 1) + 1 = m
  BY <1>4
<1>7. QED
  BY <1>4, <1>5, <1>6

(* Course-of-values induction.                                             *)
LEMMA StrongInduction ==
  ASSUME NEW S, \A n \in Nat : (\A m \in Nat : m < n => m \in S) => n \in S
  PROVE  Nat \subseteq S
<1> DEFINE T == {n \in Nat : \A m \in Nat : m < n => m \in S}
<1>1. 0 \in T
  OBVIOUS
<1>2. ASSUME NEW n \in Nat, n \in T PROVE n + 1 \in T
  <2>1. n \in S
    BY <1>2
  <2>2. ASSUME NEW m \in Nat, m < n + 1 PROVE m \in S
    <3>1. m < n \/ m = n
      BY <2>2
    <3>2. QED
      BY <1>2, <2>1, <3>1
  <2>3. n + 1 \in Nat
    OBVIOUS
  <2>4. QED
    BY <2>2, <2>3
<1> HIDE DEF T
<1>3. Nat \subseteq T
  BY <1>1, <1>2, SetInduction
<1>4. QED
  BY <1>3 DEF T

(* A set of places in a list has a first one and a last one.               *)
LEMMA LeastIs ==
  ASSUME NEW T, T \subseteq Nat, T # {}
  PROVE  \E m \in T : \A k \in T : m <= k
<1> DEFINE S == {n \in Nat : \A k \in T : n < k}
<1>1. PICK x \in T : TRUE
  OBVIOUS
<1>2. ~(Nat \subseteq S)
  BY <1>1
<1>3. SUFFICES ASSUME ~\E m \in T : \A k \in T : m <= k PROVE Nat \subseteq S
  BY <1>2
<1>4. ASSUME NEW n \in Nat, \A m \in Nat : m < n => m \in S PROVE n \in S
  <2>1. ASSUME NEW k \in T PROVE n <= k
    <3>1. k < n => k \in S
      BY <1>4
    <3>2. k \notin S
      OBVIOUS
    <3>3. QED
      BY <3>1, <3>2
  <2>2. n \notin T
    BY <1>3, <2>1
  <2>3. ASSUME NEW k \in T PROVE n < k
    BY <2>1, <2>2
  <2>4. QED
    BY <2>3
<1> HIDE DEF S
<1>5. QED
  BY <1>4, StrongInduction

LEMMA MinIs ==
  ASSUME NEW T, T \subseteq Nat, T # {}
  PROVE  Min(T) \in T /\ \A k \in T : Min(T) <= k
BY LeastIs DEF Min

LEMMA MaxIs ==
  ASSUME NEW n \in Nat, NEW T, T \subseteq 1..n, T # {}
  PROVE  Max(T) \in T /\ \A k \in T : Max(T) >= k
<1> DEFINE U == {m \in Nat : \A k \in T : m >= k}
<1>1. n \in U
  OBVIOUS
<1>2. PICK m \in U : \A k \in U : m <= k
  <2> HIDE DEF U
  <2>1. U \subseteq Nat /\ U # {}
    BY <1>1 DEF U
  <2>2. QED
    BY <2>1, LeastIs
<1>3. m \in T
  <2> SUFFICES ASSUME m \notin T PROVE FALSE
    OBVIOUS
  <2>1. PICK x \in T : TRUE
    OBVIOUS
  <2>2. m - 1 \in Nat
    BY <2>1
  <2>3. \A k \in T : m - 1 >= k
    BY <2>2
  <2>4. m - 1 \in U
    BY <2>2, <2>3
  <2>5. QED
    BY <1>2, <2>4
<1>4. \E x \in T : \A y \in T : x >= y
  BY <1>3
<1>5. QED
  BY <1>4 DEF Max
-----------------------------------------------------------------------------
(***************************************************************************)
(* Numerals.  Digits is defined by recursion; that there is such a         *)
(* function is shown by way of its restrictions to 0..k.                   *)
(***************************************************************************)
Digit(f, n) == IF n < 10 THEN <<n>> ELSE Append(f[n \div 10], n % 10)

LEMMA Tenth ==
  ASSUME NEW n \in Nat, ~(n < 10)
  PROVE  n \div 10 \in Nat /\ n \div 10 < n
OBVIOUS

LEMMA SomeDigits == \A k \in Nat : \E f : f = [n \in 0..k |-> Digit(f, n)]
<1> DEFINE S == {k \in Nat : \E f : f = [n \in 0..k |-> Digit(f, n)]}
<1>1. 0 \in S
  <2> DEFINE f == [n \in 0..0 |-> <<n>>]
  <2>1. f = [n \in 0..0 |-> Digit(f, n)]
    BY DEF Digit
  <2>2. QED
    BY <2>1
<1>2. \A k \in Nat : k \in S => k + 1 \in S
  <2> SUFFICES ASSUME NEW k \in Nat, k \in S PROVE k + 1 \in S
    OBVIOUS
  <2>1. PICK f : f = [n \in 0..k |-> Digit(f, n)]
    BY Zenon
  <2> DEFINE g == [n \in 0..(k + 1) |-> IF n = k + 1 THEN Digit(f, n) ELSE f[n]]
  <2>2. \A n \in 0..k : f[n] = Digit(f, n)
    BY <2>1, Zenon
  <2>3. g[k + 1] = Digit(f, k + 1) /\ \A n \in 0..k : g[n] = f[n]
    OBVIOUS
  <2>4. ASSUME NEW n \in 0..(k + 1) PROVE g[n] = Digit(g, n)
    <3> HIDE DEF g
    <3>1. Digit(g, n) = Digit(f, n)
      <4>1. CASE n < 10
        BY <4>1 DEF Digit
      <4>2. CASE ~(n < 10)
        <5>1. n \div 10 \in 0..k
          BY <4>2, Tenth
        <5>2. g[n \div 10] = f[n \div 10]
          BY <2>3, <5>1
        <5>3. QED
          BY <5>2 DEF Digit
      <4>3. QED
        BY <4>1, <4>2
    <3>2. CASE n = k + 1
      BY <2>3, <3>1, <3>2
    <3>3. CASE n \in 0..k
      BY <2>2, <2>3, <3>1, <3>3
    <3>4. QED
      BY <3>2, <3>3
  <2>5. g = [n \in 0..(k + 1) |-> g[n]] /\ k + 1 \in Nat
    OBVIOUS
  <2> HIDE DEF g
  <2>6. g = [n \in 0..(k + 1) |-> Digit(g, n)]
    BY <2>4, <2>5, Zenon
  <2>7. QED
    BY <2>5, <2>6, Zenon
<1>3. QED
  BY <1>1, <1>2, SetInduction

(* The restrictions agree.                                                 *)
LEMMA SameDigits ==
  ASSUME NEW k \in Nat, NEW l \in Nat, k <= l, NEW f, NEW g,
         \A n \in 0..k : f[n] = Digit(f, n),
         \A n \in 0..l : g[n] = Digit(g, n)
  PROVE  f[k] = g[k]
<1> DEFINE S == {n \in Nat : n <= k => f[n] = g[n]}
<1>1. ASSUME NEW n \in Nat, \A m \in Nat : m < n => m \in S PROVE n \in S
  <2> SUFFICES ASSUME n <= k PROVE f[n] = g[n]
    OBVIOUS
  <2>1. f[n] = Digit(f, n) /\ g[n] = Digit(g, n)
    OBVIOUS
  <2>2. CASE n < 10
    BY <2>1, <2>2 DEF Digit
  <2>3. CASE ~(n < 10)
    <3>1. n \div 10 \in Nat /\ n \div 10 < n
      BY <2>3, Tenth
    <3>2. f[n \div 10] = g[n \div 10]
      BY <1>1, <3>1
    <3>3. QED
      BY <2>1, <3>2 DEF Digit
  <2>4. QED
    BY <2>2, <2>3
<1> HIDE DEF S
<1>2. k \in S
  BY <1>1, StrongInduction
<1>3. QED
  BY <1>2 DEF S

LEMMA DigitsAre == Digits = [n \in Nat |-> Digit(Digits, n)]
<1> DEFINE Upto(k) == CHOOSE f : f = [n \in 0..k |-> Digit(f, n)]
           all == [k \in Nat |-> Upto(k)[k]]
<1>1. ASSUME NEW k \in Nat PROVE \A n \in 0..k : Upto(k)[n] = Digit(Upto(k), n)
  <2> DEFINE f == Upto(k)
  <2>1. f = [n \in 0..k |-> Digit(f, n)]
    BY SomeDigits, Zenon
  <2> HIDE DEF f
  <2>2. \A n \in 0..k : f[n] = Digit(f, n)
    BY <2>1, Zenon
  <2>3. QED
    BY <2>2 DEF f
<1>2. \A k \in Nat : all[k] = Upto(k)[k]
  OBVIOUS
<1> HIDE DEF Upto
<1>3. ASSUME NEW n \in Nat PROVE all[n] = Digit(all, n)
  <2>1. all[n] = Digit(Upto(n), n)
    BY <1>1, <1>2
  <2>2. CASE n < 10
    BY <2>1, <2>2 DEF Digit
  <2>3. CASE ~(n < 10)
    <3> DEFINE m == n \div 10
    <3>1. m \in Nat /\ m <= n
      BY <2>3, Tenth
    <3> HIDE DEF m
    <3>2. Upto(m)[m] = Upto(n)[m]
      BY <1>1, <3>1, SameDigits
    <3>3. all[m] = Upto(n)[m]
      BY <1>2, <3>1, <3>2
    <3>4. QED
      BY <2>1, <2>3, <3>3 DEF Digit, m
  <2>4. QED
    BY <2>2, <2>3
<1>4. all = [n \in Nat |-> all[n]]
  OBVIOUS
<1> HIDE DEF all
<1>5. all = [n \in Nat |-> Digit(all, n)]
  BY <1>3, <1>4, Zenon
<1>6. \E f : f = [n \in Nat |-> Digit(f, n)]
  BY <1>5, Zenon
<1>7. Digits = CHOOSE f : f = [n \in Nat |-> Digit(f, n)]
  BY DEF Digits, Digit
<1>8. QED
  BY <1>6, <1>7, Zenon

LEMMA DigitsType == \A n \in Nat : Digits[n] \in Seq(Nat)
<1> DEFINE S == {n \in Nat : Digits[n] \in Seq(Nat)}
<1>1. \A n \in Nat : Digits[n] = Digit(Digits, n)
  BY DigitsAre, Zenon
<1>2. ASSUME NEW n \in Nat, \A m \in Nat : m < n => m \in S PROVE n \in S
  <2>1. CASE n < 10
    <3>1. Digits[n] = <<n>>
      BY <1>1, <2>1 DEF Digit
    <3>2. <<n>> \in Seq(Nat)
      OBVIOUS
    <3>3. QED
      BY <3>1, <3>2
  <2>2. CASE ~(n < 10)
    <3>1. n \div 10 \in Nat /\ n \div 10 < n /\ n % 10 \in Nat
      BY <2>2, Tenth
    <3>2. Digits[n \div 10] \in Seq(Nat)
      BY <1>2, <3>1
    <3>3. Digits[n] = Append(Digits[n \div 10], n % 10)
      BY <1>1, <2>2 DEF Digit
    <3>4. \A q \in Seq(Nat), d \in Nat : Append(q, d) \in Seq(Nat)
      OBVIOUS
    <3>5. Digits[n] \in Seq(Nat)
      BY <3>1, <3>2, <3>3, <3>4, Zenon
    <3>6. QED
      BY <3>5
  <2>3. QED
    BY <2>1, <2>2
<1> HIDE DEF S
<1>3. QED
  BY <1>2, StrongInduction DEF S

(* Of two numerals at most one comes after the other.                      *)
LEMMA AfterIsAsymmetric ==
  ASSUME NEW a \in Nat, NEW b \in Nat, StringAfter(a, b)
  PROVE  ~StringAfter(b, a)
<1> DEFINE s == Digits[a]
           t == Digits[b]
           Greater(u, v) == \E i \in DOMAIN u \cap DOMAIN v :
                              u[i] > v[i] /\ \A j \in 1..i - 1 : u[j] = v[j]
<1>1. s \in Seq(Nat) /\ t \in Seq(Nat)
  BY DigitsType
<1>2. /\ IsStrictPrefix(t, s) \/ Greater(s, t)
      /\ StringAfter(b, a) => IsStrictPrefix(s, t) \/ Greater(t, s)
  BY DEF StringAfter
<1> HIDE DEF s, t
<1>3. ASSUME NEW u \in Seq(Nat), NEW v \in Seq(Nat), IsStrictPrefix(u, v)
      PROVE  Len(u) < Len(v) /\ \A i \in 1..Len(u) : u[i] = v[i]
  <2>1. Len(u) <= Len(v) /\ SubSeq(u, 1, Len(u)) = SubSeq(v, 1, Len(u)) /\ u # v
    BY <1>3 DEF IsStrictPrefix, IsPrefix
  <2>2. ASSUME NEW i \in 1..Len(u) PROVE u[i] = v[i]
    <3>1. SubSeq(u, 1, Len(u))[i] = u[i] /\ SubSeq(v, 1, Len(u))[i] = v[i]
      BY <2>1
    <3>2. QED
      BY <2>1, <3>1
  <2>3. Len(u) # Len(v)
    <3>1. Len(u) = Len(v) => u = v
      BY <2>2
    <3>2. QED
      BY <2>1, <3>1
  <2>4. QED
    BY <2>1, <2>2, <2>3
<1>4. DOMAIN s = 1..Len(s) /\ DOMAIN t = 1..Len(t) /\ Len(s) \in Nat /\ Len(t) \in Nat
  BY <1>1
<1>5. ASSUME NEW u \in Seq(Nat), NEW v \in Seq(Nat), IsStrictPrefix(u, v)
      PROVE  ~IsStrictPrefix(v, u) /\ ~Greater(u, v) /\ ~Greater(v, u)
  <2>1. Len(u) < Len(v) /\ \A i \in 1..Len(u) : u[i] = v[i]
    BY <1>3, <1>5
  <2>2. /\ Len(u) \in Nat /\ Len(v) \in Nat
        /\ DOMAIN u = 1..Len(u) /\ \A i \in 1..Len(u) : u[i] \in Nat
    OBVIOUS
  <2>3. ~IsStrictPrefix(v, u)
    BY <1>3, <2>1, <2>2
  <2>4. \A i \in DOMAIN u \cap DOMAIN v : ~(u[i] > v[i]) /\ ~(v[i] > u[i])
    BY <2>1, <2>2
  <2>5. QED
    BY <2>3, <2>4
<1>6. ASSUME NEW u \in Seq(Nat), NEW v \in Seq(Nat), Greater(u, v)
      PROVE  ~Greater(v, u)
  <2>1. PICK i \in DOMAIN u \cap DOMAIN v : u[i] > v[i] /\ \A j \in 1..i - 1 : u[j] = v[j]
    BY <1>6
  <2>2. SUFFICES ASSUME NEW k \in DOMAIN u \cap DOMAIN v,
                        v[k] > u[k], \A j \in 1..k - 1 : v[j] = u[j]
                 PROVE  FALSE
    OBVIOUS
  <2>3. i \in Nat \ {0} /\ k \in Nat \ {0} /\ u[i] \in Nat /\ v[i] \in Nat
        /\ u[k] \in Nat /\ v[k] \in Nat
    OBVIOUS
  <2>4. i < k \/ k < i \/ i = k
    BY <2>3
  <2>5. QED
    BY <2>1, <2>2, <2>3, <2>4
<1>7. QED
  BY <1>1, <1>2, <1>5, <1>6
-----------------------------------------------------------------------------
(***************************************************************************)
(* The items keep their order and have each its own ID.                    *)
(***************************************************************************)
ItemsOK ==
  /\ items \in Seq(Item)
  /\ nextID \in FirstID..MaxID + 1
  /\ \A i \in DOMAIN items : items[i].id < nextID
  /\ \A i, j \in DOMAIN items : items[i].id = items[j].id => i = j

ListInv ==
  /\ ItemsOK
  /\ list \in Lists
  /\ first \in PageSizes
  /\ status \in {"idle", "asking", "done", "failed"}
  /\ after \in IDs \cup {TypeID[p] : p \in Parents} \cup {NoCursor}
  /\ got \subseteq IDsAt(Matches)
  /\ repeated \in BOOLEAN
  /\ present \subseteq IDsAt(Matches)
  /\ status = "idle" => after = NoCursor /\ got = {} /\ ~repeated

(* The cursor is at place c: what was given lies up to there, and what was *)
(* there at the start and lies up to there was given.                      *)
ReadUpTo(c) ==
  /\ items[c].id = after
  /\ \A i \in Matches : items[i].id \in got => i <= c
  /\ \A i \in Matches : items[i].id \in present /\ i <= c => items[i].id \in got

Reading ==
  InCursorOrder =>
    /\ ~repeated
    /\ status = "asking" =>
         IF after = NoCursor THEN got = {} ELSE \E c \in Matches : ReadUpTo(c)
    /\ status = "done" => present \subseteq got

(* A page was promised: there is a node behind the cursor.                 *)
Promised ==
  status = "asking" /\ after # NoCursor /\ list = "IsDependencyList" =>
    \E c, i \in Matches : items[c].id = after /\ c < i

(* An insertion behind place n.                                            *)
LEMMA InsertAtIs ==
  ASSUME NEW S, NEW s \in Seq(S), NEW e \in S, NEW n \in 0..Len(s)
  PROVE  /\ InsertAt(s, n + 1, e) \in Seq(S)
         /\ DOMAIN InsertAt(s, n + 1, e) = 1..Len(s) + 1
         /\ InsertAt(s, n + 1, e)[n + 1] = e
         /\ \A k \in 1..n : InsertAt(s, n + 1, e)[k] = s[k]
         /\ \A k \in n + 2..Len(s) + 1 : InsertAt(s, n + 1, e)[k] = s[k - 1]
<1> DEFINE a == SubSeq(s, 1, n)
           b == SubSeq(s, n + 1, Len(s))
<1>1. Len(s) \in Nat /\ n \in Nat /\ n <= Len(s) /\ (n + 1) - 1 = n
  OBVIOUS
<1>2. InsertAt(s, n + 1, e) = a \o <<e>> \o b
  BY <1>1 DEF InsertAt
<1>3. a \in Seq(S) /\ Len(a) = n /\ \A k \in 1..n : a[k] = s[k]
  BY <1>1
<1>4. /\ b \in Seq(S) /\ Len(b) = Len(s) - n
      /\ \A k \in 1..(Len(s) - n) : b[k] = s[n + k]
  BY <1>1
<1> DEFINE c == a \o <<e>>
<1> HIDE DEF a, b
<1>5. /\ c \in Seq(S) /\ Len(c) = n + 1
      /\ \A k \in 1..n : c[k] = s[k]
      /\ c[n + 1] = e
  BY <1>1, <1>3
<1> DEFINE d == c \o b
<1> HIDE DEF c
<1>6. /\ d \in Seq(S) /\ Len(d) = Len(c) + Len(b)
      /\ \A k \in 1..Len(c) : d[k] = c[k]
      /\ \A k \in Len(c) + 1..Len(c) + Len(b) : d[k] = b[k - Len(c)]
  <2>1. c \in Seq(S) /\ b \in Seq(S)
    BY <1>4, <1>5
  <2>2. d \in Seq(S) /\ Len(d) = Len(c) + Len(b)
    BY <2>1
  <2>3. \A k \in 1..Len(c) : d[k] = c[k]
    BY <2>1
  <2>4. \A k \in Len(c) + 1..Len(c) + Len(b) : d[k] = b[k - Len(c)]
    BY <2>1
  <2>5. QED
    BY <2>2, <2>3, <2>4
<1> HIDE DEF d
<1>7. DOMAIN d = 1..Len(s) + 1
  BY <1>1, <1>4, <1>5, <1>6
<1>8. d[n + 1] = e /\ \A k \in 1..n : d[k] = s[k]
  <2>1. n + 1 \in 1..Len(c) /\ \A k \in 1..n : k \in 1..Len(c)
    BY <1>1, <1>5
  <2>2. QED
    BY <1>5, <1>6, <2>1
<1>9. ASSUME NEW k \in n + 2..Len(s) + 1 PROVE d[k] = s[k - 1]
  <2>1. /\ k \in Len(c) + 1..Len(c) + Len(b)
        /\ k - Len(c) \in 1..(Len(s) - n) /\ n + (k - Len(c)) = k - 1
    BY <1>1, <1>4, <1>5
  <2>2. QED
    BY <1>4, <1>6, <2>1
<1>10. InsertAt(s, n + 1, e) = d
  BY <1>2 DEF c, d
<1>11. QED
  BY <1>6, <1>7, <1>8, <1>9, <1>10

(* The place that the node at place k of the new list had, and the place   *)
(* that the node at place i gets.                                          *)
From(n, k) == IF k <= n THEN k ELSE k - 1
To(n, i) == IF i <= n THEN i ELSE i + 1

Inserts(n) ==
  /\ n \in 0..Len(items) /\ Len(items) \in Nat
  /\ DOMAIN items = 1..Len(items) /\ DOMAIN items' = 1..Len(items) + 1
  /\ items'[n + 1].id = nextID
  /\ \A k \in DOMAIN items' : k # n + 1 =>
       From(n, k) \in DOMAIN items /\ items'[k] = items[From(n, k)]
  /\ \A i \in DOMAIN items :
       To(n, i) \in DOMAIN items' /\ To(n, i) # n + 1 /\ items'[To(n, i)] = items[i]

LEMMA IngestIs ==
  ASSUME ItemsOK, NEW p \in Parents, NEW match \in BOOLEAN, Ingest(p, match)
  PROVE  /\ \E n : Inserts(n)
         /\ items' \in Seq(Item)
         /\ nextID \in IDs /\ nextID' = nextID + 1 /\ nextID' \in FirstID..MaxID + 1
<1> DEFINE e == [id |-> nextID, parent |-> p, match |-> match]
<1>1. nextID \in IDs /\ nextID' = nextID + 1 /\ nextID' \in FirstID..MaxID + 1
  BY ListAssumption DEF Ingest, ItemsOK, IDs
<1>2. e \in Item
  BY <1>1 DEF Item
<1>3. items \in Seq(Item) /\ Len(items) \in Nat /\ DOMAIN items = 1..Len(items)
  BY DEF ItemsOK
<1>4. PICK n \in Place(p) : items' = InsertAt(items, n + 1, e)
  BY DEF Ingest
<1>5. n \in 0..Len(items)
  <2>1. CASE list \in Sorted
    BY <1>4, <2>1 DEF Place
  <2>2. CASE list \notin Sorted
    <3> DEFINE T == {i \in DOMAIN items : items[i].parent <= p}
    <3> DEFINE m == Len(items)
    <3>1. IsFiniteSet(1..m) /\ Cardinality(1..m) = m
      <4>1. m \in Nat /\ 1 \in Int /\ m \in Int
        BY <1>3
      <4> HIDE DEF m
      <4>2. Cardinality(1..m) = IF 1 > m THEN 0 ELSE m - 1 + 1
        BY <4>1, FS_Interval
      <4>3. QED
        BY <4>1, <4>2, FS_Interval
    <3>2. T \subseteq 1..Len(items) /\ n = Cardinality(T)
      BY <1>3, <1>4, <2>2 DEF Place
    <3> HIDE DEF T
    <3>3. IsFiniteSet(T) /\ Cardinality(T) <= Len(items)
      BY <3>1, <3>2, FS_Subset
    <3>4. Cardinality(T) \in Nat
      BY <3>3, FS_CardinalityType
    <3>5. QED
      BY <1>3, <3>2, <3>3, <3>4
  <2>3. QED
    BY <2>1, <2>2
<1> HIDE DEF e
<1>6. /\ items' \in Seq(Item)
      /\ DOMAIN items' = 1..Len(items) + 1
      /\ items'[n + 1] = e
      /\ \A k \in 1..n : items'[k] = items[k]
      /\ \A k \in n + 2..Len(items) + 1 : items'[k] = items[k - 1]
  <2> DEFINE new == InsertAt(items, n + 1, e)
  <2>1. new \in Seq(Item) /\ DOMAIN new = 1..Len(items) + 1
    BY <1>2, <1>3, <1>5, InsertAtIs
  <2>2. new[n + 1] = e
    BY <1>2, <1>3, <1>5, InsertAtIs
  <2>3. \A k \in 1..n : new[k] = items[k]
    BY <1>2, <1>3, <1>5, InsertAtIs
  <2>4. \A k \in n + 2..Len(items) + 1 : new[k] = items[k - 1]
    BY <1>2, <1>3, <1>5, InsertAtIs
  <2> HIDE DEF new
  <2>5. items' = new
    BY <1>4 DEF new
  <2>6. QED
    BY <2>1, <2>2, <2>3, <2>4, <2>5
<1>7. items'[n + 1].id = nextID
  BY <1>3, <1>5, <1>6 DEF e
<1>8. ASSUME NEW k \in DOMAIN items', k # n + 1
      PROVE  From(n, k) \in DOMAIN items /\ items'[k] = items[From(n, k)]
  <2>1. CASE k <= n
    <3>1. k \in 1..n /\ k \in 1..Len(items) /\ From(n, k) = k
      BY <1>3, <1>5, <1>6, <2>1 DEF From
    <3>2. QED
      BY <1>3, <1>6, <3>1
  <2>2. CASE ~(k <= n)
    <3>1. k \in n + 2..Len(items) + 1 /\ k - 1 \in 1..Len(items) /\ From(n, k) = k - 1
      BY <1>3, <1>5, <1>6, <1>8, <2>2 DEF From
    <3>2. QED
      BY <1>3, <1>6, <3>1
  <2>3. QED
    BY <2>1, <2>2
<1>9. ASSUME NEW i \in DOMAIN items
      PROVE  To(n, i) \in DOMAIN items' /\ To(n, i) # n + 1 /\ items'[To(n, i)] = items[i]
  <2>1. CASE i <= n
    <3>1. i \in 1..n /\ i \in 1..Len(items) + 1 /\ To(n, i) = i /\ i # n + 1
      BY <1>3, <1>5, <2>1 DEF To
    <3>2. QED
      BY <1>6, <3>1
  <2>2. CASE i > n
    <3>1. /\ i + 1 \in n + 2..Len(items) + 1 /\ i + 1 \in 1..Len(items) + 1
          /\ i + 1 # n + 1 /\ (i + 1) - 1 = i
      BY <1>3, <1>5, <2>2
    <3>2. To(n, i) = i + 1
      BY <1>3, <1>5, <2>2 DEF To
    <3>3. QED
      BY <1>6, <3>1, <3>2
  <2>3. QED
    BY <1>3, <1>5, <2>1, <2>2
<1>10. Inserts(n)
  BY <1>3, <1>5, <1>6, <1>7, <1>8, <1>9 DEF Inserts
<1>11. QED
  BY <1>1, <1>6, <1>10

(* What was in front of another node stays in front of it.                 *)
LEMMA InsertsOrder ==
  ASSUME NEW n, Inserts(n)
  PROVE  /\ \A i, j \in DOMAIN items : i < j => To(n, i) < To(n, j)
         /\ \A i, j \in DOMAIN items' :
              i # n + 1 /\ j # n + 1 /\ i < j => From(n, i) < From(n, j)
         /\ \A i \in DOMAIN items : From(n, To(n, i)) = i
BY DEF Inserts, To, From

LEMMA InsertsItems ==
  ASSUME ItemsOK, NEW n, Inserts(n), items' \in Seq(Item),
         nextID \in IDs, nextID' = nextID + 1, nextID' \in FirstID..MaxID + 1
  PROVE  ItemsOK'
<1>1. nextID \in Nat /\ \A i \in DOMAIN items : items[i].id \in Nat /\ items[i].id < nextID
  <2>1. IDs \subseteq Nat
    BY ListAssumption DEF IDs
  <2>2. \A i \in DOMAIN items : items[i] \in Item
    BY DEF ItemsOK
  <2>3. QED
    BY <2>1, <2>2 DEF ItemsOK, Item
<1>2. ASSUME NEW i \in DOMAIN items' PROVE items'[i].id < nextID'
  <2>1. CASE i = n + 1
    BY <1>1, <2>1 DEF Inserts
  <2>2. CASE i # n + 1
    <3>1. From(n, i) \in DOMAIN items /\ items'[i] = items[From(n, i)]
      BY <2>2 DEF Inserts
    <3>2. items[From(n, i)].id \in Nat /\ items[From(n, i)].id < nextID
      BY <1>1, <3>1
    <3>3. QED
      BY <1>1, <3>1, <3>2
  <2>3. QED
    BY <2>1, <2>2
<1>3. ASSUME NEW i \in DOMAIN items', NEW j \in DOMAIN items', items'[i].id = items'[j].id
      PROVE  i = j
  <2>0. \A k \in DOMAIN items' : k # n + 1 =>
          From(n, k) \in DOMAIN items /\ items'[k] = items[From(n, k)]
    BY DEF Inserts
  <2>1. CASE i # n + 1 /\ j # n + 1
    <3>1. From(n, i) = From(n, j)
      BY <1>3, <2>0, <2>1 DEF ItemsOK
    <3>2. i \in Nat /\ j \in Nat /\ n \in Nat
      BY DEF Inserts
    <3>3. QED
      BY <2>1, <3>1, <3>2 DEF From
  <2>2. CASE i = n + 1 \/ j = n + 1
    <3>1. items'[n + 1].id = nextID
      BY DEF Inserts
    <3>2. \A k \in DOMAIN items' : k # n + 1 => items'[k].id # nextID
      BY <1>1, <2>0
    <3>3. QED
      BY <1>3, <2>2, <3>1, <3>2
  <2>3. QED
    BY <2>1, <2>2
<1>4. QED
  BY <1>2, <1>3 DEF ItemsOK
-----------------------------------------------------------------------------
(***************************************************************************)
(* Pages.                                                                  *)
(***************************************************************************)
Below(T, i) == {j \in T : j < i}

LEMMA BelowIs ==
  ASSUME NEW T, T \subseteq Nat, IsFiniteSet(T)
  PROVE  \A i \in T :
           /\ IsFiniteSet(Below(T, i)) /\ Cardinality(Below(T, i)) \in Nat
           /\ i \in Edges(T) <=> first = 0 \/ Cardinality(Below(T, i)) < first
           /\ \A j \in T : j < i => Cardinality(Below(T, j)) <= Cardinality(Below(T, i))
<1> SUFFICES ASSUME NEW i \in T
             PROVE  /\ IsFiniteSet(Below(T, i)) /\ Cardinality(Below(T, i)) \in Nat
                    /\ i \in Edges(T) <=> first = 0 \/ Cardinality(Below(T, i)) < first
                    /\ \A j \in T :
                         j < i => Cardinality(Below(T, j)) <= Cardinality(Below(T, i))
  OBVIOUS
<1>1. Below(T, i) \subseteq T
  BY DEF Below
<1>2. IsFiniteSet(Below(T, i)) /\ Cardinality(Below(T, i)) \in Nat
  BY <1>1, FS_Subset, FS_CardinalityType
<1>3. i \in Edges(T) <=> first = 0 \/ Cardinality(Below(T, i)) < first
  BY DEF Edges, Below
<1>4. ASSUME NEW j \in T, j < i
      PROVE  Cardinality(Below(T, j)) <= Cardinality(Below(T, i))
  <2>1. \A k \in T : k < j => k < i
    <3>1. i \in Nat /\ j \in Nat /\ \A k \in T : k \in Nat
      OBVIOUS
    <3>2. QED
      BY <1>4, <3>1
  <2>2. Below(T, j) \subseteq Below(T, i)
    BY <2>1 DEF Below
  <2>3. QED
    BY <1>2, <2>2, FS_Subset
<1>5. QED
  BY <1>2, <1>3, <1>4

(* The first places of T, all of them exactly if the page is long enough.  *)
LEMMA EdgesIs ==
  ASSUME NEW n \in Nat, NEW T, T \subseteq 1..n, first \in Nat
  PROVE  /\ Edges(T) \subseteq T
         /\ \A i \in Edges(T), j \in T : j < i => j \in Edges(T)
         /\ T # {} => Edges(T) # {}
         /\ first = 0 \/ Cardinality(T) <= first => Edges(T) = T
         /\ first > 0 /\ Cardinality(T) > first => Edges(T) # T
<1>1. T \subseteq Nat
  OBVIOUS
<1>2. IsFiniteSet(T)
  <2>1. IsFiniteSet(1..n)
    BY FS_Interval
  <2>2. QED
    BY <2>1, FS_Subset
<1>3. Cardinality(T) \in Nat
  BY <1>2, FS_CardinalityType
<1>4. \A i \in T :
        /\ IsFiniteSet(Below(T, i)) /\ Cardinality(Below(T, i)) \in Nat
        /\ i \in Edges(T) <=> first = 0 \/ Cardinality(Below(T, i)) < first
        /\ \A j \in T : j < i => Cardinality(Below(T, j)) <= Cardinality(Below(T, i))
  BY <1>1, <1>2, BelowIs
<1>5. Edges(T) \subseteq T
  BY DEF Edges
<1>6. ASSUME NEW i \in Edges(T), NEW j \in T, j < i PROVE j \in Edges(T)
  <2>1. i \in T
    BY <1>5
  <2>2. Cardinality(Below(T, j)) <= Cardinality(Below(T, i))
    BY <1>4, <1>6, <2>1
  <2>3. first = 0 \/ Cardinality(Below(T, i)) < first
    BY <1>4, <2>1
  <2>4. Cardinality(Below(T, i)) \in Nat /\ Cardinality(Below(T, j)) \in Nat
    BY <1>4, <2>1
  <2>5. first = 0 \/ Cardinality(Below(T, j)) < first
    BY <2>2, <2>3, <2>4
  <2>6. QED
    BY <1>4, <2>5
<1>7. ASSUME T # {} PROVE Edges(T) # {}
  <2>1. PICK m \in T : \A k \in T : m <= k
    BY <1>1, <1>7, LeastIs
  <2>2. \A k \in T : ~(k < m)
    <3>1. m \in Nat /\ \A k \in T : k \in Nat
      BY <1>1
    <3>2. QED
      BY <2>1, <3>1
  <2>3. Below(T, m) = {}
    BY <2>2 DEF Below
  <2>4. Cardinality(Below(T, m)) = 0
    BY <2>3, FS_EmptySet
  <2>5. QED
    BY <1>4, <2>4
<1>8. ASSUME first = 0 \/ Cardinality(T) <= first, NEW i \in T PROVE i \in Edges(T)
  <2>1. Below(T, i) \subseteq T \ {i}
    BY <1>1 DEF Below
  <2>2. IsFiniteSet(T \ {i}) /\ Cardinality(T \ {i}) = Cardinality(T) - 1
    BY <1>2, FS_RemoveElement
  <2>3. Cardinality(Below(T, i)) <= Cardinality(T) - 1
    BY <2>1, <2>2, FS_Subset
  <2>4. Cardinality(Below(T, i)) \in Nat
    BY <1>4
  <2>5. first = 0 \/ Cardinality(Below(T, i)) < first
    BY <1>3, <1>8, <2>3, <2>4
  <2>6. QED
    BY <1>4, <2>5
<1>9. ASSUME first > 0, Cardinality(T) > first PROVE Edges(T) # T
  <2>1. T # {}
    BY <1>9, FS_EmptySet
  <2>2. PICK m : m = Max(T)
    OBVIOUS
  <2>3. m \in T /\ \A k \in T : m >= k
    BY <2>1, <2>2, MaxIs
  <2>4. \A k \in T : k < m <=> k # m
    <3>1. m \in Nat /\ \A k \in T : k \in Nat
      BY <1>1, <2>3
    <3>2. QED
      BY <2>3, <3>1
  <2>5. Below(T, m) = T \ {m}
    BY <2>4 DEF Below
  <2>6. Cardinality(Below(T, m)) = Cardinality(T) - 1
    BY <1>2, <2>3, <2>5, FS_RemoveElement
  <2>7. ~(first = 0 \/ Cardinality(Below(T, m)) < first)
    BY <1>3, <1>9, <2>6
  <2>8. m \notin Edges(T)
    BY <1>4, <2>3, <2>7
  <2>9. QED
    BY <2>3, <2>8
<1>10. QED
  BY <1>5, <1>6, <1>7, <1>8, <1>9

LEMMA RestIs ==
  ASSUME ListInv
  PROVE  /\ RestOf \subseteq Matches /\ Matches \subseteq 1..Len(items) /\ Len(items) \in Nat
         /\ first \in Nat
<1>1. \A T : Behind(T) \subseteq T /\ Later(T) \subseteq T /\ LaterType(T) \subseteq T
  BY DEF Behind, Later, LaterType
<1>2. {i \in Matches : TypeID[items[i].parent] = TypeID[1]} \subseteq Matches
  OBVIOUS
<1>3. /\ \/ list \in {"ArtifactsList", "IsDependencyList", "SourcesList", "PackagesList"}
         \/ list = "IsDependencyListOf"
         \/ list \in {"SourcesListOf", "PackagesListOf"}
      /\ first \in Nat
  BY ListAssumption DEF ListInv
<1>4. RestOf \subseteq Matches
  <2>1. CASE list \in {"ArtifactsList", "IsDependencyList", "SourcesList", "PackagesList"}
    BY <1>1, <2>1 DEF RestOf
  <2>2. CASE list = "IsDependencyListOf"
    BY <1>1, <2>2 DEF RestOf
  <2>3. CASE list \in {"SourcesListOf", "PackagesListOf"}
    BY <1>1, <1>2, <2>3 DEF RestOf
  <2>4. QED
    BY <1>3, <2>1, <2>2, <2>3
<1>5. Matches \subseteq 1..Len(items) /\ Len(items) \in Nat
  BY DEF ListInv, ItemsOK, Matches
<1>6. QED
  BY <1>3, <1>4, <1>5
-----------------------------------------------------------------------------
(* Types.                                                                  *)
LEMMA ListInit == Init => ListInv
<1> SUFFICES ASSUME Init PROVE ListInv
  OBVIOUS
<1>1. items = << >> /\ DOMAIN items = {} /\ items \in Seq(Item)
  <2>1. \A S : << >> \in Seq(S) /\ DOMAIN << >> = {}
    OBVIOUS
  <2>2. QED
    BY <2>1 DEF Init
<1>2. nextID \in FirstID..MaxID + 1
  BY ListAssumption DEF Init
<1>3. ItemsOK
  BY <1>1, <1>2 DEF ItemsOK
<1>4. QED
  BY <1>3 DEF Init, ListInv

LEMMA InsertsMatches ==
  ASSUME NEW n, Inserts(n)
  PROVE  /\ \A i \in Matches : To(n, i) \in Matches'
         /\ IDsAt(Matches) \subseteq IDsAt(Matches)'
<1>1. \A i \in Matches : To(n, i) \in Matches' /\ items'[To(n, i)] = items[i]
  BY DEF Inserts, Matches
<1>2. QED
  BY <1>1 DEF IDsAt

LEMMA IngestInv ==
  ASSUME ListInv, NEW p \in Parents, NEW match \in BOOLEAN, Ingest(p, match)
  PROVE  ListInv'
<1>1. PICK n : Inserts(n)
  BY IngestIs DEF ListInv
<1>2. ItemsOK'
  BY <1>1, IngestIs, InsertsItems DEF ListInv
<1>3. IDsAt(Matches) \subseteq IDsAt(Matches)'
  BY <1>1, InsertsMatches
<1>4. QED
  BY <1>2, <1>3 DEF ListInv, Ingest, clientVars

LEMMA CursorType ==
  ASSUME ListInv, NEW T, T \subseteq Matches, T # {}
  PROVE  /\ Max(T) \in T /\ \A k \in T : Max(T) >= k
         /\ EndCursor(T) \in IDs \cup {TypeID[p] : p \in Parents}
<1>1. Max(T) \in T /\ \A k \in T : Max(T) >= k
  BY RestIs, MaxIs
<1>2. items[Max(T)] \in Item
  BY <1>1 DEF ListInv, ItemsOK, Matches
<1>3. items[Max(T)].id \in IDs /\ items[Max(T)].parent \in Parents
  BY <1>2 DEF Item
<1>4. QED
  BY <1>1, <1>3 DEF EndCursor, EndOfTree

LEMMA PageInv ==
  ASSUME ListInv, GetPage
  PROVE  ListInv'
<1> DEFINE edges == Edges(RestOf)
<1>1. edges \subseteq Matches
  BY RestIs, EdgesIs
<1>2. UNCHANGED <<items, nextID, list, first, present>>
  BY DEF GetPage
<1>3. Matches' = Matches /\ IDsAt(Matches)' = IDsAt(Matches) /\ ItemsOK'
  BY <1>2 DEF Matches, IDsAt, ItemsOK, ListInv
<1>4. got' \subseteq IDsAt(Matches)
  BY <1>1 DEF GetPage, IDsAt, ListInv
<1>5. after' \in IDs \cup {TypeID[p] : p \in Parents} \cup {NoCursor}
  <2>1. CASE LastPage(RestOf)
    BY <2>1 DEF GetPage, ListInv
  <2>2. CASE ~LastPage(RestOf)
    <3>1. edges # {} /\ after' = EndCursor(edges)
      BY <2>2, RestIs, EdgesIs DEF GetPage, LastPage
    <3>2. QED
      BY <1>1, <3>1, CursorType
  <2>3. QED
    BY <2>1, <2>2
<1>6. repeated' \in BOOLEAN /\ status' \in {"asking", "done"}
  BY DEF GetPage
<1>7. QED
  BY <1>2, <1>3, <1>4, <1>5, <1>6 DEF ListInv

LEMMA OtherInv ==
  ASSUME ListInv, Begin \/ QueryFails \/ UNCHANGED vars
  PROVE  ListInv'
<1>1. UNCHANGED <<items, nextID, list, first, got, after, repeated>>
  BY DEF Begin, QueryFails, vars, clientVars
<1>2. Matches' = Matches /\ IDsAt(Matches)' = IDsAt(Matches) /\ ItemsOK'
  BY <1>1 DEF Matches, IDsAt, ItemsOK, ListInv
<1>3. present' \subseteq IDsAt(Matches) /\ (status' = status \/ status' \in {"asking", "failed"})
  BY DEF Begin, QueryFails, vars, clientVars, ListInv
<1>4. QED
  BY <1>1, <1>2, <1>3 DEF ListInv

LEMMA ListNext == ListInv /\ [Next]_vars => ListInv'
BY IngestInv, PageInv, OtherInv DEF Next

(* Queries and the client that follows their cursors are well typed, and   *)
(* the client is given only nodes that match its filter.                   *)
THEOREM ListTypeCorrect == Spec => []ListTypeOK
<1>1. ListInv => ListTypeOK
  <2> SUFFICES ASSUME ListInv PROVE ListTypeOK
    OBVIOUS
  <2>1. \A i \in DOMAIN items : items[i] \in Item
    BY DEF ListInv, ItemsOK
  <2>2. \A i \in Matches : items[i].id \in IDs
    BY <2>1 DEF Matches, Item
  <2>3. IDsAt(Matches) \subseteq IDs
    BY <2>2 DEF IDsAt
  <2>4. QED
    BY <2>3 DEF ListInv, ItemsOK, ListTypeOK, Matches
<1>2. QED
  BY <1>1, ListInit, ListNext, PTL DEF Spec
-----------------------------------------------------------------------------
(***************************************************************************)
(* What a page begins with, in a list whose order the cursor agrees with:  *)
(* what comes behind the node with the cursor.                             *)
(***************************************************************************)
LEMMA IDType ==
  ASSUME ListInv
  PROVE  \A i \in DOMAIN items : items[i].id \in Nat /\ items[i].id # NoCursor
<1>1. \A i \in DOMAIN items : items[i] \in Item
  BY DEF ListInv, ItemsOK
<1>2. IDs \subseteq Nat /\ NoCursor \notin IDs
  BY ListAssumption DEF IDs, NoCursor
<1>3. QED
  BY <1>1, <1>2 DEF Item

LEMMA RestBehind ==
  ASSUME ListInv, InCursorOrder, after # NoCursor,
         NEW c \in Matches, items[c].id = after
  PROVE  RestOf = {i \in Matches : c < i}
<1>1. Matches \subseteq DOMAIN items /\ Matches \subseteq Nat
  BY DEF Matches, ListInv, ItemsOK
<1>2. \A d \in Matches : items[d].id = after => d = c
  BY <1>1 DEF ListInv, ItemsOK
<1>3. CASE list \in Sorted
  <2>1. RestOf = Behind(Matches)
    BY <1>3 DEF RestOf, Sorted
  <2>2. \A i \in Matches : (\E d \in Matches : items[d].id = after /\ d < i) <=> c < i
    BY <1>2
  <2>3. QED
    BY <2>1, <2>2 DEF Behind
<1>4. CASE list \notin Sorted
  <2>1. /\ list = "IsDependencyListOf"
        /\ \A i, j \in DOMAIN items : i < j => StringAfter(items[j].id, items[i].id)
    BY <1>4 DEF InCursorOrder
  <2>2. RestOf = Later(Matches)
    BY <2>1 DEF RestOf
  <2>3. ASSUME NEW i \in Matches PROVE StringAfter(items[i].id, after) <=> c < i
    <3>1. i \in Nat /\ c \in Nat
      BY <1>1
    <3>2. items[i].id \in Nat /\ after \in Nat
      BY <1>1, IDType
    <3>3. CASE c < i
      BY <1>1, <2>1, <3>3
    <3>4. CASE i < c
      <4>1. StringAfter(after, items[i].id)
        BY <1>1, <2>1, <3>4
      <4>2. ~StringAfter(items[i].id, after)
        BY <3>2, <4>1, AfterIsAsymmetric
      <4>3. QED
        BY <3>1, <3>4, <4>2
    <3>5. CASE i = c
      <4>1. ~StringAfter(after, after)
        BY <3>2, AfterIsAsymmetric
      <4>2. QED
        BY <3>1, <3>5, <4>1
    <3>6. QED
      BY <3>1, <3>3, <3>4, <3>5
  <2>4. QED
    BY <2>2, <2>3 DEF Later
<1>5. QED
  BY <1>3, <1>4

(* The place k up to which the client has read.                            *)
ReadTo(k) ==
  /\ k \in Nat
  /\ RestOf = {i \in Matches : k < i}
  /\ \A i \in Matches : items[i].id \in got => i <= k
  /\ \A i \in Matches : items[i].id \in present /\ i <= k => items[i].id \in got

LEMMA PageBegins ==
  ASSUME ListInv, Reading, InCursorOrder, status = "asking"
  PROVE  \E k : ReadTo(k)
<1>1. Matches \subseteq Nat \ {0}
  BY DEF Matches, ListInv, ItemsOK
<1>2. CASE after = NoCursor
  <2>1. got = {}
    BY <1>2 DEF Reading
  <2>2. RestOf = Matches
    <3>1. list \in Sorted \cup {"IsDependencyListOf"}
      BY DEF InCursorOrder
    <3>2. QED
      BY <1>2, <3>1 DEF RestOf, Sorted, Behind, Later
  <2>3. \A i \in Matches : 0 < i /\ ~(i <= 0)
    BY <1>1
  <2>4. RestOf = {i \in Matches : 0 < i}
    BY <2>2, <2>3
  <2>5. ReadTo(0)
    BY <2>1, <2>3, <2>4 DEF ReadTo
  <2>6. QED
    BY <2>5
<1>3. CASE after # NoCursor
  <2>1. PICK c \in Matches : ReadUpTo(c)
    BY <1>3 DEF Reading
  <2>2. RestOf = {i \in Matches : c < i}
    BY <1>3, <2>1, RestBehind DEF ReadUpTo
  <2>3. ReadTo(c)
    BY <1>1, <2>1, <2>2 DEF ReadTo, ReadUpTo
  <2>4. QED
    BY <2>3
<1>4. QED
  BY <1>2, <1>3
-----------------------------------------------------------------------------
(***************************************************************************)
(* Each node is given once.                                                *)
(***************************************************************************)
LEMMA OrderKept ==
  ASSUME NEW n, Inserts(n), list' = list, InCursorOrder'
  PROVE  InCursorOrder
<1>1. CASE list \in Sorted
  BY <1>1 DEF InCursorOrder
<1>2. CASE list \notin Sorted
  <2>1. /\ list = "IsDependencyListOf"
        /\ \A i, j \in DOMAIN items' : i < j => StringAfter(items'[j].id, items'[i].id)
    BY <1>2 DEF InCursorOrder, Sorted, StringAfter
  <2>2. ASSUME NEW i \in DOMAIN items, NEW j \in DOMAIN items, i < j
        PROVE  StringAfter(items[j].id, items[i].id)
    <3>1. To(n, i) < To(n, j)
      BY <2>2, InsertsOrder
    <3>2. /\ To(n, i) \in DOMAIN items' /\ items'[To(n, i)] = items[i]
          /\ To(n, j) \in DOMAIN items' /\ items'[To(n, j)] = items[j]
      BY DEF Inserts
    <3>3. StringAfter(items'[To(n, j)].id, items'[To(n, i)].id)
      BY <2>1, <3>1, <3>2
    <3>4. QED
      BY <3>2, <3>3
  <2>3. QED
    BY <2>1, <2>2 DEF InCursorOrder
<1>3. QED
  BY <1>1, <1>2

(* Where a node that the client knows was before the insertion.            *)
LEMMA KnownBefore ==
  ASSUME ListInv, NEW n, Inserts(n), NEW i \in Matches',
         items'[i].id \in IDsAt(Matches)
  PROVE  /\ From(n, i) \in Matches /\ items'[i] = items[From(n, i)]
         /\ \A c \in Matches : From(n, i) <= c <=> i <= To(n, c)
<1>1. i \in DOMAIN items' /\ items'[i].match
  BY DEF Matches
<1>2. i # n + 1
  <2>1. \A k \in DOMAIN items : items[k].id < nextID /\ items[k].id \in Nat
    BY IDType DEF ListInv, ItemsOK
  <2>2. PICK k \in Matches : items[k].id = items'[i].id
    BY DEF IDsAt
  <2>3. items'[i].id \in Nat /\ items'[i].id < nextID
    BY <2>1, <2>2 DEF Matches
  <2>4. items'[n + 1].id = nextID
    BY DEF Inserts
  <2>5. nextID \in Nat
    BY ListAssumption DEF ListInv, ItemsOK
  <2>6. QED
    BY <2>3, <2>4, <2>5
<1>3. From(n, i) \in DOMAIN items /\ items'[i] = items[From(n, i)]
  BY <1>1, <1>2 DEF Inserts
<1>4. From(n, i) \in Matches
  BY <1>1, <1>3 DEF Matches
<1>5. ASSUME NEW c \in Matches PROVE From(n, i) <= c <=> i <= To(n, c)
  <2>1. n \in Nat /\ i \in Nat /\ c \in Nat
    BY <1>1 DEF Inserts, Matches
  <2>2. QED
    BY <1>2, <2>1 DEF From, To
<1>6. QED
  BY <1>3, <1>4, <1>5

LEMMA IngestReading ==
  ASSUME ListInv, Reading, NEW p \in Parents, NEW match \in BOOLEAN, Ingest(p, match)
  PROVE  Reading'
<1>1. PICK n : Inserts(n)
  BY IngestIs DEF ListInv
<1>2. UNCHANGED <<list, status, after, got, repeated, present>>
  BY DEF Ingest, clientVars
<1>3. SUFFICES ASSUME InCursorOrder'
               PROVE  /\ ~repeated'
                      /\ status' = "asking" =>
                           IF after' = NoCursor THEN got' = {}
                           ELSE \E c \in Matches' : ReadUpTo(c)'
                      /\ status' = "done" => present' \subseteq got'
  BY DEF Reading
<1>4. InCursorOrder
  BY <1>1, <1>2, <1>3, OrderKept
<1>5. ASSUME NEW c \in Matches, ReadUpTo(c) PROVE To(n, c) \in Matches' /\ ReadUpTo(To(n, c))'
  <2>1. To(n, c) \in Matches'
    BY <1>1, InsertsMatches
  <2>2. items'[To(n, c)].id = after'
    <3>1. items'[To(n, c)] = items[c]
      BY <1>1 DEF Inserts, Matches
    <3>2. QED
      BY <1>2, <1>5, <3>1 DEF ReadUpTo
  <2>3. got \subseteq IDsAt(Matches) /\ present \subseteq IDsAt(Matches)
    BY DEF ListInv
  <2>4. ASSUME NEW i \in Matches', items'[i].id \in got PROVE i <= To(n, c)
    <3>1. From(n, i) \in Matches /\ items'[i] = items[From(n, i)]
          /\ (From(n, i) <= c <=> i <= To(n, c))
      BY <1>1, <2>3, <2>4, KnownBefore
    <3>2. QED
      BY <1>5, <2>4, <3>1 DEF ReadUpTo
  <2>5. ASSUME NEW i \in Matches', items'[i].id \in present, i <= To(n, c)
        PROVE  items'[i].id \in got
    <3>1. From(n, i) \in Matches /\ items'[i] = items[From(n, i)]
          /\ (From(n, i) <= c <=> i <= To(n, c))
      BY <1>1, <2>3, <2>5, KnownBefore
    <3>2. QED
      BY <1>5, <2>5, <3>1 DEF ReadUpTo
  <2>6. QED
    BY <1>2, <2>1, <2>2, <2>4, <2>5 DEF ReadUpTo
<1>6. QED
  BY <1>2, <1>4, <1>5 DEF Reading

(* The last page holds all that is left.                                   *)
LEMMA LastIsAll ==
  ASSUME ListInv, LastPage(RestOf)
  PROVE  Edges(RestOf) = RestOf
<1>1. /\ RestOf \subseteq 1..Len(items) /\ Len(items) \in Nat /\ first \in Nat
      /\ Cardinality(RestOf) \in Nat
  <2>1. RestOf \subseteq 1..Len(items) /\ Len(items) \in Nat /\ first \in Nat
    BY RestIs
  <2>2. IsFiniteSet(RestOf)
    <3>1. \A n \in Nat : IsFiniteSet(1..n)
      BY FS_Interval
    <3>2. IsFiniteSet(1..Len(items))
      BY <2>1, <3>1
    <3>3. QED
      BY <2>1, <3>2, FS_Subset
  <2>3. QED
    BY <2>1, <2>2, FS_CardinalityType
<1>2. CASE RestOf = {}
  BY <1>1, <1>2, EdgesIs
<1>3. CASE ~NextPage(RestOf)
  <2>1. first = 0 \/ Cardinality(RestOf) <= first
    BY <1>1, <1>3 DEF NextPage, ArtifactsNext, HasNextPage
  <2>2. QED
    BY <1>1, <2>1, EdgesIs
<1>4. QED
  BY <1>2, <1>3 DEF LastPage

LEMMA PageReading ==
  ASSUME ListInv, Reading, GetPage
  PROVE  Reading'
<1> DEFINE edges == Edges(RestOf)
<1>1. UNCHANGED <<items, list, first, present>> /\ status = "asking"
  BY DEF GetPage
<1>2. Matches' = Matches /\ InCursorOrder' = InCursorOrder
  BY <1>1 DEF Matches, InCursorOrder
<1>3. CASE ~InCursorOrder
  BY <1>2, <1>3 DEF Reading
<1>4. CASE InCursorOrder
  <2>1. PICK k : ReadTo(k)
    BY <1>1, <1>4, PageBegins
  <2>2. /\ k \in Nat /\ RestOf = {i \in Matches : k < i}
        /\ \A i \in Matches : items[i].id \in got => i <= k
        /\ \A i \in Matches : items[i].id \in present /\ i <= k => items[i].id \in got
    BY <2>1 DEF ReadTo
  <2>3. Matches \subseteq Nat /\ Matches \subseteq DOMAIN items
    BY DEF Matches, ListInv, ItemsOK
  <2>4. /\ edges \subseteq RestOf /\ RestOf \subseteq Matches
        /\ \A i \in edges, j \in RestOf : j < i => j \in edges
        /\ RestOf # {} => edges # {}
    BY RestIs, EdgesIs
  <2>5. got' = got \cup IDsAt(edges) /\ repeated' = (repeated \/ IDsAt(edges) \cap got # {})
    BY DEF GetPage
  <2>6. present \subseteq IDsAt(Matches)
    BY DEF ListInv
  <2> HIDE DEF edges
  <2>7. ~repeated'
    <3>1. \A i \in edges : i \in Matches /\ ~(i <= k)
      BY <2>2, <2>3, <2>4
    <3>2. IDsAt(edges) \cap got = {}
      BY <2>2, <3>1 DEF IDsAt
    <3>3. QED
      BY <1>4, <2>5, <3>2 DEF Reading
  <2>8. CASE LastPage(RestOf)
    <3>1. status' = "done"
      BY <2>8 DEF GetPage
    <3>2. edges = RestOf
      BY <2>8, LastIsAll DEF edges
    <3>3. ASSUME NEW id \in present PROVE id \in got'
      <4>1. PICK i \in Matches : items[i].id = id
        BY <2>6 DEF IDsAt
      <4>2. CASE i <= k
        BY <2>2, <2>5, <4>1, <4>2
      <4>3. CASE ~(i <= k)
        <5>1. i \in edges
          BY <2>2, <2>3, <3>2, <4>3
        <5>2. QED
          BY <2>5, <4>1, <5>1 DEF IDsAt
      <4>4. QED
        BY <4>2, <4>3
    <3>4. QED
      BY <1>1, <2>7, <3>1, <3>3 DEF Reading
  <2>9. CASE ~LastPage(RestOf)
    <3>1. status' = "asking" /\ edges # {} /\ after' = EndCursor(edges)
      BY <1>1, <2>4, <2>9 DEF GetPage, LastPage, edges
    <3>2. PICK c : c = Max(edges)
      OBVIOUS
    <3>3. c \in edges /\ \A i \in edges : c >= i
      BY <2>4, <3>1, <3>2, CursorType
    <3>4. list \in Sorted \cup {"IsDependencyListOf"}
      BY <1>4 DEF InCursorOrder
    <3>5. after' = items[c].id /\ after' # NoCursor
      <4>1. after' = items[c].id
        BY <3>1, <3>2, <3>4 DEF EndCursor
      <4>2. c \in DOMAIN items
        BY <2>3, <2>4, <3>3
      <4>3. QED
        BY <4>1, <4>2, IDType
    <3>6. c \in Matches /\ k < c /\ c \in Nat
      BY <2>2, <2>3, <2>4, <3>3
    <3>7. ASSUME NEW i \in Matches, items[i].id \in got' PROVE i <= c
      <4>1. CASE items[i].id \in got
        BY <2>2, <2>3, <3>6, <4>1
      <4>2. CASE items[i].id \in IDsAt(edges)
        <5>1. PICK e \in edges : items[e].id = items[i].id
          BY <4>2 DEF IDsAt
        <5>2. e = i
          BY <2>3, <2>4, <5>1 DEF ListInv, ItemsOK
        <5>3. QED
          BY <2>3, <3>3, <3>6, <5>2
      <4>3. QED
        BY <2>5, <3>7, <4>1, <4>2
    <3>8. ASSUME NEW i \in Matches, items[i].id \in present, i <= c
          PROVE  items[i].id \in got'
      <4>1. CASE i <= k
        BY <2>2, <2>5, <3>8, <4>1
      <4>2. CASE ~(i <= k)
        <5>1. i \in RestOf /\ i \in Nat
          BY <2>2, <2>3, <4>2
        <5>2. i = c \/ i < c
          BY <3>6, <3>8, <5>1
        <5>3. i \in edges
          BY <2>4, <3>3, <5>1, <5>2
        <5>4. QED
          BY <2>5, <5>3 DEF IDsAt
      <4>3. QED
        BY <4>1, <4>2
    <3>9. ReadUpTo(c)'
      BY <1>1, <1>2, <3>5, <3>7, <3>8 DEF ReadUpTo
    <3>10. QED
      BY <1>2, <2>7, <3>1, <3>5, <3>6, <3>9 DEF Reading
  <2>10. QED
    BY <2>8, <2>9
<1>5. QED
  BY <1>3, <1>4

LEMMA OtherReading ==
  ASSUME ListInv, Reading, Begin \/ QueryFails \/ UNCHANGED vars
  PROVE  Reading'
<1>1. UNCHANGED <<items, list, got, after, repeated>>
  BY DEF Begin, QueryFails, vars, clientVars
<1>2. Matches' = Matches /\ InCursorOrder' = InCursorOrder
  BY <1>1 DEF Matches, InCursorOrder
<1>3. CASE Begin
  <2>1. after = NoCursor /\ got = {} /\ ~repeated /\ status' = "asking"
    BY <1>3 DEF Begin, ListInv
  <2>2. QED
    BY <1>1, <2>1 DEF Reading
<1>4. CASE QueryFails
  <2>1. status' = "failed"
    BY <1>4 DEF QueryFails
  <2>2. QED
    BY <1>1, <1>2, <2>1 DEF Reading
<1>5. CASE UNCHANGED vars
  <2>1. UNCHANGED <<status, present>>
    BY <1>5 DEF vars, clientVars
  <2>2. \A c : ReadUpTo(c)' = ReadUpTo(c)
    BY <1>1, <1>2, <2>1 DEF ReadUpTo
  <2>3. QED
    BY <1>1, <1>2, <2>1, <2>2 DEF Reading
<1>6. QED
  BY <1>3, <1>4, <1>5

(* A client that follows the cursors of a list whose order they agree with *)
(* gets every node once that was there when it began, whatever is ingested *)
(* meanwhile and however long the pages are.                               *)
THEOREM EachListedOnce == Spec => []ListedOnce
<1>1. Init => Reading
  BY DEF Init, Reading
<1>2. ListInv /\ Reading /\ [Next]_vars => Reading'
  BY IngestReading, PageReading, OtherReading DEF Next
<1>3. Reading => ListedOnce
  BY DEF Reading, ListedOnce
<1>4. QED
  BY <1>1, <1>2, <1>3, ListInit, ListNext, PTL DEF Spec
-----------------------------------------------------------------------------
(***************************************************************************)
(* A page that was promised has nodes.                                     *)
(***************************************************************************)
LEMMA IngestPromised ==
  ASSUME ListInv, Promised, NEW p \in Parents, NEW match \in BOOLEAN, Ingest(p, match)
  PROVE  Promised'
<1>1. PICK n : Inserts(n)
  BY IngestIs DEF ListInv
<1>2. UNCHANGED <<list, status, after>>
  BY DEF Ingest, clientVars
<1>3. ASSUME NEW c \in Matches, NEW i \in Matches, items[c].id = after, c < i
      PROVE  /\ To(n, c) \in Matches' /\ To(n, i) \in Matches'
             /\ items'[To(n, c)].id = after /\ To(n, c) < To(n, i)
  <2>1. c \in DOMAIN items /\ i \in DOMAIN items
    BY DEF Matches
  <2>2. To(n, c) < To(n, i)
    BY <1>1, <1>3, <2>1, InsertsOrder
  <2>3. items'[To(n, c)] = items[c]
    BY <1>1, <2>1 DEF Inserts
  <2>4. QED
    BY <1>1, <1>3, <2>2, <2>3, InsertsMatches
<1>4. QED
  BY <1>2, <1>3 DEF Promised

LEMMA PagePromised ==
  ASSUME ListInv, Promised, GetPage
  PROVE  Promised'
<1> DEFINE edges == Edges(RestOf)
<1>1. UNCHANGED <<items, list>> /\ Matches' = Matches
  BY DEF GetPage, Matches
<1>2. SUFFICES ASSUME status' = "asking", list = "IsDependencyList"
               PROVE  \E c, i \in Matches : items[c].id = after' /\ c < i
  BY <1>1 DEF Promised
<1>3. ~LastPage(RestOf) /\ after' = EndCursor(edges)
  BY <1>2 DEF GetPage
<1>4. RestOf # {} /\ first > 0 /\ Cardinality(RestOf) > first
  BY <1>2, <1>3 DEF LastPage, NextPage, HasNextPage
<1>5. /\ edges \subseteq RestOf /\ RestOf \subseteq Matches
      /\ \A i \in edges, j \in RestOf : j < i => j \in edges
      /\ edges # {} /\ edges # RestOf
  BY <1>4, RestIs, EdgesIs
<1> HIDE DEF edges
<1>6. PICK i \in RestOf : i \notin edges
  BY <1>5
<1>7. PICK c : c = Max(edges)
  OBVIOUS
<1>8. c \in edges
  BY <1>5, <1>7, CursorType
<1>9. items[c].id = after'
  BY <1>2, <1>3, <1>7 DEF EndCursor, Sorted
<1>10. c \in Nat /\ i \in Nat
  BY <1>5, <1>6, <1>8, RestIs
<1>11. c < i
  BY <1>5, <1>6, <1>8, <1>10
<1>12. QED
  BY <1>5, <1>6, <1>8, <1>9, <1>11

LEMMA OtherPromised ==
  ASSUME ListInv, Promised, Begin \/ QueryFails \/ UNCHANGED vars
  PROVE  Promised'
<1>1. UNCHANGED <<items, list, after>> /\ Matches' = Matches
  BY DEF Begin, QueryFails, vars, clientVars, Matches
<1>2. CASE Begin
  BY <1>1, <1>2 DEF Begin, ListInv, Promised
<1>3. CASE QueryFails
  BY <1>3 DEF QueryFails, Promised
<1>4. CASE UNCHANGED vars
  BY <1>1, <1>4 DEF vars, clientVars, Promised
<1>5. QED
  BY <1>2, <1>3, <1>4

(* A dependencies query that says that there is a next page does not send  *)
(* the client to an empty one, whatever was ingested between the two.      *)
THEOREM PromiseKept == Spec => []PromisedPage
<1>1. Init => Promised
  BY DEF Init, Promised
<1>2. ListInv /\ Promised /\ [Next]_vars => Promised'
  BY IngestPromised, PagePromised, OtherPromised DEF Next
<1>3. Promised => PromisedPage
  BY DEF Promised, PromisedPage, RestOf, Behind
<1>4. QED
  BY <1>1, <1>2, <1>3, ListInit, ListNext, PTL DEF Spec
=============================================================================
