--------------------------- MODULE HistoryProofs ---------------------------
(***************************************************************************)
(* Proofs about the history that the provider is told (History): through   *)
(* any number of summaries and elisions no card of the exchange is lost,   *)
(* the request in memory is what a restart would build, and in the         *)
(* projection of an idle session each call is followed by its answer.      *)
(*                                                                         *)
(* The projection is computed by functions that go through the transcript  *)
(* card by card.  Rows say what they compute: the segments of a projection *)
(* are consecutive intervals of the cards of the exchange, the first one   *)
(* behind the newest summary.  Hence a boundary between segments is a      *)
(* place in the transcript, a request is named by the place from which it  *)
(* holds the cards, and a step is a card more at the end.                  *)
(***************************************************************************)
EXTENDS History, SequenceTheorems, FiniteSetTheorems, WellFoundedInduction, TLAPS

-----------------------------------------------------------------------------
(* Numbers *)

(* Every set of naturals that is not empty has a least element: what the inductions below
   start from. *)
LEMMA LeastNumber ==
    ASSUME NEW T \in SUBSET Nat, T # {} PROVE \E x \in T : \A y \in T : x <= y
<1> DEFINE R == {p \in Nat \X Nat : p[1] < p[2]}
<1>1. IsWellFoundedOn(R, Nat)
  BY NatLessThanWellFounded DEF OpToRel
<1>2. PICK x \in T : \A y \in T : ~(<<y, x>> \in R)
  BY <1>1, WFMin
<1>3. ASSUME NEW y \in T PROVE x <= y
  <2>1. y \in Nat /\ x \in Nat /\ <<y, x>> \in Nat \X Nat
    OBVIOUS
  <2>2. ~(y < x)
    <3> SUFFICES ASSUME y < x PROVE FALSE
      OBVIOUS
    <3>1. <<y, x>>[1] < <<y, x>>[2]
      OBVIOUS
    <3>2. <<y, x>> \in R
      BY <2>1, <3>1, Zenon
    <3> QED BY <1>2, <3>2
  <2> QED BY <2>1, <2>2
<1> QED BY <1>3

(* u is what the steps of s make of b, up to the step k. *)
Iterates(u, B, b, s, k) ==
    u \in [0..k -> B] /\ u[0] = b /\ \A n \in 1..k : u[n] = s[n][u[n - 1]]

(* A function that goes from one number to the next exists. *)
LEMMA IterationExists ==
    ASSUME NEW N \in Nat, NEW B, NEW b \in B, NEW s \in [1..N -> [B -> B]]
    PROVE  \E u : Iterates(u, B, b, s, N)
<1> DEFINE T == {k \in 0..N : ~\E u : Iterates(u, B, b, s, k)}
<1> SUFFICES ASSUME T # {} PROVE FALSE
  <2>1. N \in 0..N
    OBVIOUS
  <2> QED BY <2>1
<1>1. PICK k \in T : \A j \in T : k <= j
  <2>1. T \in SUBSET Nat
    OBVIOUS
  <2> HIDE DEF T
  <2> QED BY <2>1, LeastNumber
<1>2. k \in 0..N /\ ~\E u : Iterates(u, B, b, s, k)
  OBVIOUS
<1>3. k # 0
  <2> DEFINE u == [n \in 0..0 |-> b]
  <2>1. Iterates(u, B, b, s, 0)
    BY DEF Iterates
  <2> QED BY <1>2, <2>1
<1>4. k - 1 \in 0..N /\ k - 1 \notin T
  <2>1. k \in Nat /\ k - 1 \in 0..N /\ ~(k <= k - 1)
    BY <1>2, <1>3
  <2> HIDE DEF T
  <2> QED BY <1>1, <2>1
<1>5. PICK u : Iterates(u, B, b, s, k - 1)
  BY <1>4
<1> DEFINE v == [n \in 0..k |-> IF n = k THEN s[k][u[k - 1]] ELSE u[n]]
<1>6. s[k][u[k - 1]] \in B
  <2>1. u[k - 1] \in B /\ k \in 1..N
    BY <1>2, <1>3, <1>5 DEF Iterates
  <2> QED BY <2>1
<1>7. v \in [0..k -> B] /\ v[0] = b
  BY <1>2, <1>3, <1>5, <1>6 DEF Iterates
<1>8. ASSUME NEW n \in 1..k PROVE v[n] = s[n][v[n - 1]]
  <2>1. CASE n = k
    <3>1. v[n] = s[k][u[k - 1]] /\ v[n - 1] = u[k - 1]
      BY <1>2, <1>3, <2>1
    <3> QED BY <2>1, <3>1
  <2>2. CASE n # k
    <3>1. n \in 1..(k - 1) /\ n \in 0..k /\ n - 1 \in 0..k /\ n - 1 # k
      BY <1>2, <2>2
    <3>2. v[n] = u[n] /\ v[n - 1] = u[n - 1]
      BY <2>2, <3>1
    <3> QED BY <1>5, <3>1, <3>2 DEF Iterates
  <2> QED BY <2>1, <2>2
<1> QED BY <1>2, <1>7, <1>8 DEF Iterates

-----------------------------------------------------------------------------
(* Lists of cards *)

(* q lists the numbers of Z in their order. *)
Lists(q, Z) ==
    /\ q \in Seq(Nat)
    /\ \A i, j \in DOMAIN q : i < j => q[i] < q[j]
    /\ \A i \in DOMAIN q : q[i] \in Z
    /\ \A n \in Z : \E i \in DOMAIN q : q[i] = n

(* x is h followed by such a list. *)
Headed(x, h, Z) == \E q : Lists(q, Z) /\ x = h \o q

(* The places of a list that follows another. *)
LEMMA ConcatAt ==
    ASSUME NEW S, NEW u \in Seq(S), NEW v \in Seq(S)
    PROVE  /\ DOMAIN (u \o v) = 1..(Len(u) + Len(v))
           /\ \A i \in DOMAIN u : i \in DOMAIN (u \o v) /\ (u \o v)[i] = u[i]
           /\ \A i \in DOMAIN v : i + Len(u) \in DOMAIN (u \o v) /\ (u \o v)[i + Len(u)] = v[i]
<1> DEFINE c == u \o v
<1>1. /\ DOMAIN u = 1..Len(u) /\ Len(u) \in Nat /\ DOMAIN v = 1..Len(v) /\ Len(v) \in Nat
      /\ c \in Seq(S) /\ Len(c) = Len(u) + Len(v)
      /\ \A i \in 1..(Len(u) + Len(v)) : c[i] = IF i <= Len(u) THEN u[i] ELSE v[i - Len(u)]
  BY ConcatProperties
<1> HIDE DEF c
<1>2. DOMAIN c = 1..(Len(u) + Len(v))
  BY <1>1
<1>3. ASSUME NEW i \in DOMAIN u PROVE i \in DOMAIN c /\ c[i] = u[i]
  <2>1. i \in 1..(Len(u) + Len(v)) /\ i <= Len(u)
    BY <1>1
  <2> QED BY <1>1, <1>2, <2>1
<1>4. ASSUME NEW i \in DOMAIN v PROVE i + Len(u) \in DOMAIN c /\ c[i + Len(u)] = v[i]
  <2>1. PICK j : j = i + Len(u)
    OBVIOUS
  <2>2. j \in 1..(Len(u) + Len(v)) /\ ~(j <= Len(u)) /\ j - Len(u) = i
    BY <1>1, <2>1
  <2>3. c[j] = v[j - Len(u)]
    BY <1>1, <2>2
  <2> QED BY <1>2, <2>1, <2>2, <2>3
<1> QED BY <1>2, <1>3, <1>4 DEF c

(* The list of nothing is empty. *)
LEMMA ListsNothing == Lists(<< >>, {})
  BY DEF Lists

(* A number above all others comes last. *)
LEMMA ListsMore ==
    ASSUME NEW Z, NEW q, Lists(q, Z), NEW n \in Nat, \A m \in Z : m < n
    PROVE  Lists(Append(q, n), Z \cup {n})
<1> DEFINE r == Append(q, n)
<1>1. q \in Seq(Nat) /\ DOMAIN q = 1..Len(q) /\ Len(q) \in Nat
  BY DEF Lists
<1>2. /\ r \in Seq(Nat) /\ Len(r) = Len(q) + 1 /\ DOMAIN r = 1..(Len(q) + 1)
      /\ r[Len(q) + 1] = n /\ \A i \in 1..Len(q) : r[i] = q[i]
  BY <1>1, AppendProperties
<1> HIDE DEF r
<1>3. \A i, j \in DOMAIN r : i < j => r[i] < r[j]
  <2> SUFFICES ASSUME NEW i \in DOMAIN r, NEW j \in DOMAIN r, i < j PROVE r[i] < r[j]
    OBVIOUS
  <2>1. i \in 1..Len(q) /\ r[i] = q[i]
    BY <1>1, <1>2
  <2>2. CASE j = Len(q) + 1
    <3>1. q[i] \in Z
      BY <1>1, <2>1 DEF Lists
    <3> QED BY <1>2, <2>1, <2>2, <3>1
  <2>3. CASE j # Len(q) + 1
    <3>1. j \in 1..Len(q)
      BY <1>1, <1>2, <2>3
    <3> QED BY <1>1, <1>2, <2>1, <3>1 DEF Lists
  <2> QED BY <2>2, <2>3
<1>4. \A i \in DOMAIN r : r[i] \in Z \cup {n}
  <2> SUFFICES ASSUME NEW i \in DOMAIN r PROVE r[i] \in Z \cup {n}
    OBVIOUS
  <2>1. i \in 1..Len(q) \/ i = Len(q) + 1
    BY <1>1, <1>2
  <2> QED BY <1>1, <1>2, <2>1 DEF Lists
<1>5. \A m \in Z \cup {n} : \E i \in DOMAIN r : r[i] = m
  <2> SUFFICES ASSUME NEW m \in Z \cup {n} PROVE \E i \in DOMAIN r : r[i] = m
    OBVIOUS
  <2>1. CASE m = n
    <3>1. Len(q) + 1 \in DOMAIN r
      BY <1>1, <1>2
    <3> QED BY <1>2, <2>1, <3>1
  <2>2. CASE m \in Z
    <3>1. PICK i \in DOMAIN q : q[i] = m
      BY <2>2 DEF Lists
    <3>2. i \in DOMAIN r /\ r[i] = m
      BY <1>1, <1>2, <3>1
    <3> QED BY <3>2
  <2> QED BY <2>1, <2>2
<1> QED BY <1>2, <1>3, <1>4, <1>5 DEF Lists, r

(* One list behind another. *)
LEMMA ListsJoin ==
    ASSUME NEW Y, NEW Z, NEW q, NEW r, Lists(q, Y), Lists(r, Z), \A m \in Y, n \in Z : m < n
    PROVE  Lists(q \o r, Y \cup Z)
<1> DEFINE c == q \o r
<1>1. /\ q \in Seq(Nat) /\ DOMAIN q = 1..Len(q) /\ Len(q) \in Nat
      /\ r \in Seq(Nat) /\ DOMAIN r = 1..Len(r) /\ Len(r) \in Nat
  BY DEF Lists
<1>2. /\ c \in Seq(Nat) /\ Len(c) = Len(q) + Len(r)
      /\ \A i \in 1..(Len(q) + Len(r)) : c[i] = IF i <= Len(q) THEN q[i] ELSE r[i - Len(q)]
  BY <1>1, ConcatProperties
<1> HIDE DEF c
<1>3. DOMAIN c = 1..(Len(q) + Len(r))
  BY <1>1, <1>2
<1>4. /\ \A i \in DOMAIN q : i \in DOMAIN c /\ c[i] = q[i]
      /\ \A i \in DOMAIN r : i + Len(q) \in DOMAIN c /\ c[i + Len(q)] = r[i]
      /\ \A i \in DOMAIN c :
             \/ i \in DOMAIN q /\ c[i] = q[i]
             \/ i > Len(q) /\ i - Len(q) \in DOMAIN r /\ c[i] = r[i - Len(q)]
  <2>1. ASSUME NEW i \in DOMAIN q PROVE i \in DOMAIN c /\ c[i] = q[i]
    <3>1. i \in 1..(Len(q) + Len(r)) /\ i <= Len(q)
      BY <1>1
    <3> QED BY <1>2, <1>3, <3>1
  <2>2. ASSUME NEW i \in DOMAIN r PROVE i + Len(q) \in DOMAIN c /\ c[i + Len(q)] = r[i]
    BY <1>1, ConcatAt DEF c
  <2>3. ASSUME NEW i \in DOMAIN c
        PROVE  \/ i \in DOMAIN q /\ c[i] = q[i]
               \/ i > Len(q) /\ i - Len(q) \in DOMAIN r /\ c[i] = r[i - Len(q)]
    <3>1. CASE i <= Len(q)
      BY <1>1, <1>2, <1>3, <3>1
    <3>2. CASE ~(i <= Len(q))
      <4>1. i > Len(q) /\ i - Len(q) \in 1..Len(r)
        BY <1>1, <1>3, <3>2
      <4> QED BY <1>1, <1>2, <1>3, <3>2, <4>1
    <3> QED BY <3>1, <3>2
  <2> QED BY <2>1, <2>2, <2>3
<1>5. \A i, j \in DOMAIN c : i < j => c[i] < c[j]
  <2> SUFFICES ASSUME NEW i \in DOMAIN c, NEW j \in DOMAIN c, i < j PROVE c[i] < c[j]
    OBVIOUS
  <2>1. CASE i \in DOMAIN q /\ j \in DOMAIN q
    BY <1>4, <2>1 DEF Lists
  <2>2. CASE i \in DOMAIN q /\ j \notin DOMAIN q
    <3>1. c[i] = q[i] /\ j - Len(q) \in DOMAIN r /\ c[j] = r[j - Len(q)]
      BY <1>4, <2>2
    <3>2. c[i] \in Y /\ c[j] \in Z
      BY <2>2, <3>1 DEF Lists
    <3> QED BY <3>2
  <2>3. CASE i \notin DOMAIN q
    <3>1. /\ i > Len(q) /\ i - Len(q) \in DOMAIN r /\ c[i] = r[i - Len(q)]
          /\ j - Len(q) \in DOMAIN r /\ c[j] = r[j - Len(q)]
      BY <1>1, <1>3, <1>4, <2>3
    <3>2. i - Len(q) < j - Len(q)
      BY <1>1, <1>3
    <3> QED BY <3>1, <3>2 DEF Lists
  <2> QED BY <2>1, <2>2, <2>3
<1>6. \A i \in DOMAIN c : c[i] \in Y \cup Z
  BY <1>4 DEF Lists
<1>7. \A n \in Y \cup Z : \E i \in DOMAIN c : c[i] = n
  <2> SUFFICES ASSUME NEW n \in Y \cup Z PROVE \E i \in DOMAIN c : c[i] = n
    OBVIOUS
  <2>1. CASE n \in Y
    <3>1. PICK i \in DOMAIN q : q[i] = n
      BY <2>1 DEF Lists
    <3> QED BY <1>4, <3>1
  <2>2. CASE n \in Z
    <3>1. PICK i \in DOMAIN r : r[i] = n
      BY <2>2 DEF Lists
    <3> QED BY <1>4, <3>1
  <2> QED BY <2>1, <2>2
<1> QED BY <1>2, <1>5, <1>6, <1>7 DEF Lists, c

(* What two lists have in common up to a place, the next numbers of both follow. *)
LEMMA ListsNext ==
    ASSUME NEW Z, NEW q, NEW r, Lists(q, Z), Lists(r, Z), NEW k \in DOMAIN q,
           \A i \in DOMAIN q : i < k => i \in DOMAIN r /\ r[i] = q[i]
    PROVE  k \in DOMAIN r /\ r[k] <= q[k]
<1>1. /\ q \in Seq(Nat) /\ DOMAIN q = 1..Len(q) /\ Len(q) \in Nat
      /\ r \in Seq(Nat) /\ DOMAIN r = 1..Len(r) /\ Len(r) \in Nat
  BY DEF Lists
<1>2. q[k] \in Z
  BY DEF Lists
<1>3. PICK j \in DOMAIN r : r[j] = q[k]
  BY <1>2 DEF Lists
<1>4. ~(j < k)
  <2> SUFFICES ASSUME j < k PROVE FALSE
    OBVIOUS
  <2>1. j \in DOMAIN q
    BY <1>1
  <2>2. q[j] = q[k]
    BY <1>3, <2>1
  <2>3. q[j] < q[k] /\ q[k] \in Nat
    BY <1>1, <2>1 DEF Lists
  <2> QED BY <2>2, <2>3
<1>5. k \in DOMAIN r
  BY <1>1, <1>4
<1>6. CASE k = j
  BY <1>1, <1>3, <1>5, <1>6
<1>7. CASE k # j
  <2>1. k < j
    BY <1>1, <1>4, <1>7
  <2>2. r[k] < r[j]
    BY <1>5, <2>1 DEF Lists
  <2> QED BY <1>1, <1>3, <1>5, <2>2
<1> QED BY <1>6, <1>7

(* A set has one list. *)
LEMMA ListsOnce ==
    ASSUME NEW Z, NEW q, NEW r, Lists(q, Z), Lists(r, Z) PROVE q = r
<1>1. /\ q \in Seq(Nat) /\ DOMAIN q = 1..Len(q) /\ Len(q) \in Nat
      /\ r \in Seq(Nat) /\ DOMAIN r = 1..Len(r) /\ Len(r) \in Nat
  BY DEF Lists
<1> DEFINE Same(k) == k \in DOMAIN q /\ k \in DOMAIN r /\ q[k] = r[k]
           T == {k \in DOMAIN q \cup DOMAIN r : ~Same(k)}
<1>2. T = {}
  <2> SUFFICES ASSUME T # {} PROVE FALSE
    OBVIOUS
  <2>1. T \in SUBSET Nat
    BY <1>1
  <2>2. PICK k \in T : \A i \in T : k <= i
    <3> HIDE DEF T
    <3> QED BY <2>1, LeastNumber
  <2>3. k \in DOMAIN q \cup DOMAIN r /\ ~Same(k) /\ k \in Nat
    BY <2>1
  <2>4. ASSUME NEW i \in DOMAIN q \cup DOMAIN r, i < k PROVE Same(i)
    <3>1. i \notin T
      <4>1. i \in Nat /\ ~(k <= i)
        BY <1>1, <2>3, <2>4
      <4> HIDE DEF T
      <4> QED BY <2>2, <4>1
    <3> HIDE DEF Same
    <3> QED BY <3>1
  <2>5. CASE k \in DOMAIN q
    <3>1. \A i \in DOMAIN q : i < k => i \in DOMAIN r /\ r[i] = q[i]
      BY <2>4
    <3>2. k \in DOMAIN r /\ r[k] <= q[k]
      BY <2>5, <3>1, ListsNext
    <3>3. \A i \in DOMAIN r : i < k => i \in DOMAIN q /\ q[i] = r[i]
      BY <2>4
    <3>4. q[k] <= r[k]
      BY <3>2, <3>3, ListsNext
    <3>5. q[k] \in Nat /\ r[k] \in Nat
      BY <1>1, <2>5, <3>2
    <3> QED BY <2>3, <2>5, <3>2, <3>4, <3>5
  <2>6. CASE k \in DOMAIN r
    <3>1. \A i \in DOMAIN r : i < k => i \in DOMAIN q /\ q[i] = r[i]
      BY <2>4
    <3>2. k \in DOMAIN q
      BY <2>6, <3>1, ListsNext
    <3> QED BY <2>5, <3>2
  <2> QED BY <2>3, <2>5, <2>6
<1>3. \A k \in DOMAIN q \cup DOMAIN r : Same(k)
  <2> HIDE DEF Same
  <2> QED BY <1>2
<1>4. Len(q) = Len(r)
  <2>1. Len(q) > 0 => Len(q) \in DOMAIN q
    BY <1>1
  <2>2. Len(r) > 0 => Len(r) \in DOMAIN r
    BY <1>1
  <2>3. Len(q) > 0 => Len(q) <= Len(r)
    BY <1>1, <1>3, <2>1
  <2>4. Len(r) > 0 => Len(r) <= Len(q)
    BY <1>1, <1>3, <2>2, SMTT(40)
  <2>5. Len(q) \in Nat /\ Len(r) \in Nat
    BY <1>1
  <2> HIDE DEF T, Same
  <2> QED BY <2>3, <2>4, <2>5
<1>5. \A k \in 1..Len(q) : q[k] = r[k]
  BY <1>1, <1>3
<1> QED BY <1>1, <1>4, <1>5, SeqEqual

(* The end of a list, from some number on, lists what is left of its set. *)
LEMMA ListsEnd ==
    ASSUME NEW Z, NEW q, Lists(q, Z), NEW c \in Nat
    PROVE  \E k \in 1..(Len(q) + 1) : Lists(SubSeq(q, k, Len(q)), {n \in Z : n >= c})
<1>1. q \in Seq(Nat) /\ DOMAIN q = 1..Len(q) /\ Len(q) \in Nat /\ \A i \in 1..Len(q) : q[i] \in Nat
  BY DEF Lists
<1> DEFINE T == {i \in 1..(Len(q) + 1) : i = Len(q) + 1 \/ q[i] >= c}
<1>2. PICK k \in T : \A i \in T : k <= i
  <2>1. T \in SUBSET Nat /\ Len(q) + 1 \in T
    BY <1>1
  <2> HIDE DEF T
  <2> QED BY <2>1, LeastNumber
<1>3. k \in 1..(Len(q) + 1) /\ (k = Len(q) + 1 \/ q[k] >= c)
  OBVIOUS
<1>4. \A i \in 1..Len(q) : i < k => ~(q[i] >= c)
  <2> SUFFICES ASSUME NEW i \in 1..Len(q), i < k, q[i] >= c PROVE FALSE
    OBVIOUS
  <2>1. i \in T
    BY <1>1
  <2>2. i \in Nat /\ k \in Nat /\ ~(k <= i)
    BY <1>1, <1>3
  <2> HIDE DEF T
  <2> QED BY <1>2, <2>1, <2>2
<1> DEFINE r == SubSeq(q, k, Len(q))
<1>5. /\ r \in Seq(Nat) /\ Len(r) = Len(q) - k + 1
      /\ \A i \in 1..(Len(q) - k + 1) : r[i] = q[k + i - 1]
  <2>1. \A i \in k..Len(q) : q[i] \in Nat
    BY <1>1, <1>3
  <2>2. k \in Int /\ Len(q) \in Int
    BY <1>1, <1>3
  <2>3. /\ r \in Seq(Nat) /\ Len(r) = IF k <= Len(q) THEN Len(q) - k + 1 ELSE 0
        /\ \A i \in 1..(Len(q) - k + 1) : r[i] = q[k + i - 1]
    BY <2>1, <2>2, SubSeqProperties
  <2> HIDE DEF r
  <2> QED BY <1>1, <1>3, <2>3
<1> HIDE DEF r
<1>6. DOMAIN r = 1..(Len(q) - k + 1)
  BY <1>1, <1>3, <1>5
<1>k. k \in Nat /\ k >= 1 /\ k <= Len(q) + 1 /\ Len(q) \in Nat
  BY <1>1, <1>3
<1>7. \A i \in DOMAIN r : k + i - 1 \in k..Len(q) /\ k + i - 1 \in DOMAIN q /\ r[i] = q[k + i - 1]
  <2> HIDE DEF T
  <2> SUFFICES ASSUME NEW i \in DOMAIN r
               PROVE  k + i - 1 \in k..Len(q) /\ k + i - 1 \in DOMAIN q /\ r[i] = q[k + i - 1]
    OBVIOUS
  <2>1. i \in 1..(Len(q) - k + 1)
    BY <1>6
  <2>2. k + i - 1 \in k..Len(q) /\ k + i - 1 \in 1..Len(q)
    BY <1>k, <2>1
  <2> QED BY <1>1, <1>5, <2>1, <2>2
<1>8. \A i, j \in DOMAIN r : i < j => r[i] < r[j]
  <2> SUFFICES ASSUME NEW i \in DOMAIN r, NEW j \in DOMAIN r, i < j PROVE r[i] < r[j]
    OBVIOUS
  <2>1. k + i - 1 < k + j - 1
    BY <1>1, <1>3, <1>6
  <2> QED BY <1>7, <2>1 DEF Lists
<1>9. ASSUME NEW i \in DOMAIN r PROVE r[i] \in {n \in Z : n >= c}
  <2> DEFINE j == k + i - 1
  <2>1. j \in k..Len(q) /\ j \in DOMAIN q /\ r[i] = q[j] /\ k \in DOMAIN q /\ k # Len(q) + 1
    BY <1>1, <1>3, <1>7
  <2> HIDE DEF j
  <2>2. q[j] \in Z /\ q[j] \in Nat /\ q[k] \in Nat /\ q[k] >= c
    BY <1>1, <1>3, <2>1 DEF Lists
  <2>3. CASE j = k
    BY <2>1, <2>2, <2>3
  <2>4. CASE j # k
    <3>1. k < j
      BY <1>1, <1>3, <2>1, <2>4
    <3>2. q[k] < q[j]
      BY <2>1, <3>1 DEF Lists
    <3> QED BY <2>1, <2>2, <3>2
  <2> QED BY <2>3, <2>4
<1>10. ASSUME NEW n \in {m \in Z : m >= c} PROVE \E i \in DOMAIN r : r[i] = n
  <2>1. PICK j \in DOMAIN q : q[j] = n
    BY DEF Lists
  <2>2. ~(j < k)
    BY <1>1, <1>4, <2>1
  <2> DEFINE i == j - k + 1
  <2>3. i \in DOMAIN r /\ k + i - 1 = j
    <3>1. j \in Nat /\ j <= Len(q) /\ j >= k
      BY <1>1, <1>k, <2>2
    <3>2. i \in 1..(Len(q) - k + 1) /\ k + i - 1 = j
      BY <1>k, <3>1
    <3> QED BY <1>6, <3>2
  <2> HIDE DEF i
  <2> QED BY <1>7, <2>1, <2>3
<1>11. Lists(r, {n \in Z : n >= c})
  BY <1>5, <1>8, <1>9, <1>10 DEF Lists
<1> QED BY <1>3, <1>11 DEF r

(* What is joined at the end is a suffix, as IsSuffix of the community modules has it. *)
LEMMA SuffixIs ==
    ASSUME NEW S, NEW u \in Seq(S), NEW v \in Seq(S) PROVE IsSuffix(v, u \o v)
<1> DEFINE w == u \o v
           a == Reverse(v)
           b == Reverse(w)
<1>1. /\ w \in Seq(S) /\ Len(w) = Len(u) + Len(v) /\ Len(u) \in Nat /\ Len(v) \in Nat
      /\ \A i \in 1..(Len(u) + Len(v)) : w[i] = IF i <= Len(u) THEN u[i] ELSE v[i - Len(u)]
  BY ConcatProperties
<1> HIDE DEF w
<1>2. /\ a = [i \in 1..Len(v) |-> v[Len(v) - i + 1]]
      /\ b = [i \in 1..Len(w) |-> w[Len(w) - i + 1]]
  BY DEF Reverse
<1> HIDE DEF a, b
<1>3. ASSUME NEW i \in 1..Len(v) PROVE a[i] = b[i]
  <2>1. /\ i \in 1..Len(w) /\ Len(w) - i + 1 \in 1..(Len(u) + Len(v))
        /\ ~(Len(w) - i + 1 <= Len(u)) /\ Len(w) - i + 1 - Len(u) = Len(v) - i + 1
    BY <1>1
  <2> QED BY <1>1, <1>2, <2>1
<1>4. a \in Seq(S) /\ b \in Seq(S) /\ Len(a) = Len(v) /\ Len(b) = Len(w)
  <2>1. \A i \in 1..Len(v) : v[Len(v) - i + 1] \in S
    BY <1>1
  <2>2. \A i \in 1..Len(w) : w[Len(w) - i + 1] \in S
    <3> SUFFICES ASSUME NEW i \in 1..Len(w) PROVE w[Len(w) - i + 1] \in S
      OBVIOUS
    <3>1. Len(w) - i + 1 \in 1..Len(w)
      BY <1>1
    <3> QED BY <1>1, <3>1
  <2> QED BY <1>1, <1>2, <2>1, <2>2
<1>5. IsPrefix(a, b)
  BY <1>1, <1>3, <1>4 DEF IsPrefix
<1> QED BY <1>5 DEF IsSuffix, a, b, w

(* What holds at 0 and at the successor of each number holds up to the last. *)
LEMMA Climb ==
    ASSUME NEW N \in Nat, NEW T, 0 \in T, \A k \in 1..N : k - 1 \in T => k \in T
    PROVE  \A k \in 0..N : k \in T
<1> DEFINE R == {k \in 0..N : k \notin T}
<1> SUFFICES ASSUME R # {} PROVE FALSE
  OBVIOUS
<1>1. PICK k \in R : \A j \in R : k <= j
  <2>1. R \in SUBSET Nat
    OBVIOUS
  <2> HIDE DEF R
  <2> QED BY <2>1, LeastNumber
<1>2. k \in 1..N /\ k \notin T
  OBVIOUS
<1>3. k - 1 \in 0..N /\ ~(k <= k - 1) /\ k - 1 \notin T
  BY <1>2
<1>4. k - 1 \in R
  BY <1>3
<1> HIDE DEF R
<1> QED BY <1>1, <1>3, <1>4

(* To append to the second of two lists is to append to both together. *)
LEMMA AppendIs ==
    ASSUME NEW u \in Seq(Nat), NEW v \in Seq(Nat), NEW n \in Nat
    PROVE  Append(u \o v, n) = u \o Append(v, n)
<1>1. u \o v \in Seq(Nat) /\ <<n>> \in Seq(Nat)
  BY ConcatProperties
<1>2. Append(u \o v, n) = (u \o v) \o <<n>> /\ Append(v, n) = v \o <<n>>
  BY <1>1, AppendIsConcat
<1> QED BY <1>1, <1>2, ConcatAssociative

(* A number above all that follow the head comes last. *)
LEMMA HeadedMore ==
    ASSUME NEW h \in Seq(Nat), NEW x, NEW Z, Headed(x, h, Z), NEW n \in Nat, \A m \in Z : m < n
    PROVE  Headed(Append(x, n), h, Z \cup {n})
<1>1. PICK q : Lists(q, Z) /\ x = h \o q
  BY DEF Headed
<1>2. q \in Seq(Nat)
  BY <1>1 DEF Lists
<1>3. Append(x, n) = h \o Append(q, n)
  <2>1. Append(h \o q, n) = h \o Append(q, n)
    BY <1>2, AppendIs, Zenon
  <2> QED BY <1>1, <2>1
<1>4. Lists(Append(q, n), Z \cup {n})
  BY <1>1, ListsMore
<1> QED BY <1>3, <1>4 DEF Headed

(* A list of higher numbers is joined at the end. *)
LEMMA HeadedJoin ==
    ASSUME NEW h \in Seq(Nat), NEW x, NEW y, NEW Y, NEW Z, Headed(x, h, Y), Headed(y, << >>, Z),
           \A m \in Y, n \in Z : m < n
    PROVE  Headed(x \o y, h, Y \cup Z)
<1>1. PICK q : Lists(q, Y) /\ x = h \o q
  BY DEF Headed
<1>2. PICK r : Lists(r, Z) /\ y = << >> \o r
  BY DEF Headed
<1>3. q \in Seq(Nat) /\ r \in Seq(Nat)
  BY <1>1, <1>2 DEF Lists
<1>4. y = r
  BY <1>2, <1>3, ConcatEmptySeq
<1>5. x \o y = h \o (q \o r)
  BY <1>1, <1>3, <1>4, ConcatAssociative, SMTT(40)
<1>6. Lists(q \o r, Y \cup Z)
  BY <1>1, <1>2, ListsJoin
<1> QED BY <1>5, <1>6 DEF Headed

(* Without a head there is only the list. *)
LEMMA HeadedIsList ==
    ASSUME NEW x, NEW Z PROVE Headed(x, << >>, Z) <=> Lists(x, Z)
<1>1. ASSUME Headed(x, << >>, Z) PROVE Lists(x, Z)
  <2>1. PICK q : Lists(q, Z) /\ x = << >> \o q
    BY <1>1 DEF Headed
  <2>2. q \in Seq(Nat)
    BY <2>1 DEF Lists
  <2>3. x = q
    BY <2>1, <2>2, ConcatEmptySeq
  <2> QED BY <2>1, <2>3
<1>2. ASSUME Lists(x, Z) PROVE Headed(x, << >>, Z)
  <2>1. x \in Seq(Nat)
    BY <1>2 DEF Lists
  <2>2. x = << >> \o x
    BY <2>1, ConcatEmptySeq
  <2> QED BY <1>2, <2>2 DEF Headed
<1> QED BY <1>1, <1>2

(* A head and what follows it are a list of numbers. *)
LEMMA HeadedIsSeq ==
    ASSUME NEW h \in Seq(Nat), NEW x, NEW Z, Headed(x, h, Z) PROVE x \in Seq(Nat)
<1>1. PICK q : Lists(q, Z) /\ x = h \o q
  BY DEF Headed
<1>2. q \in Seq(Nat)
  BY <1>1 DEF Lists
<1> QED BY <1>1, <1>2, ConcatProperties

(* The cards of a list with a head. *)
LEMMA HeadedCards ==
    ASSUME NEW h \in Seq(Nat), NEW x, NEW Z, Headed(x, h, Z) PROVE Range(x) = Range(h) \cup Z
<1>1. PICK q : Lists(q, Z) /\ x = h \o q
  BY DEF Headed
<1>2. q \in Seq(Nat) /\ DOMAIN q = 1..Len(q) /\ Len(q) \in Nat /\ DOMAIN h = 1..Len(h) /\ Len(h) \in Nat
  BY <1>1 DEF Lists
<1>3. /\ x \in Seq(Nat) /\ Len(x) = Len(h) + Len(q)
      /\ \A i \in 1..(Len(h) + Len(q)) : x[i] = IF i <= Len(h) THEN h[i] ELSE q[i - Len(h)]
  BY <1>1, <1>2, ConcatProperties
<1>4. DOMAIN x = 1..(Len(h) + Len(q))
  BY <1>3
<1>5. ASSUME NEW n \in Range(x) PROVE n \in Range(h) \cup Z
  <2>1. PICK i \in DOMAIN x : x[i] = n
    BY <1>5 DEF Range
  <2>2. CASE i <= Len(h)
    <3>1. i \in DOMAIN h /\ n = h[i]
      BY <1>2, <1>3, <1>4, <2>1, <2>2
    <3> QED BY <3>1 DEF Range
  <2>3. CASE ~(i <= Len(h))
    <3>1. i - Len(h) \in DOMAIN q
      BY <1>2, <1>4, <2>3
    <3>2. n = q[i - Len(h)]
      BY <1>3, <1>4, <2>1, <2>3
    <3> QED BY <1>1, <3>1, <3>2 DEF Lists
  <2> QED BY <2>2, <2>3
<1>6. ASSUME NEW n \in Range(h) PROVE n \in Range(x)
  <2>1. PICK i \in DOMAIN h : h[i] = n
    BY <1>6 DEF Range
  <2>2. i \in 1..(Len(h) + Len(q)) /\ i <= Len(h)
    BY <1>2
  <2>3. i \in DOMAIN x /\ x[i] = n
    BY <1>3, <1>4, <2>1, <2>2
  <2> QED BY <2>3 DEF Range
<1>7. ASSUME NEW n \in Z PROVE n \in Range(x)
  <2>1. PICK i \in DOMAIN q : q[i] = n
    BY <1>1 DEF Lists
  <2>4. i + Len(h) \in DOMAIN x /\ x[i + Len(h)] = n
    BY <1>1, <1>2, <2>1, ConcatAt
  <2> QED BY <2>4 DEF Range
<1> QED BY <1>5, <1>6, <1>7

(* The greatest number of a set is the last of its list. *)
LEMMA ListsLast ==
    ASSUME NEW Z, NEW q, Lists(q, Z), NEW m \in Z, \A n \in Z : n <= m
    PROVE  Len(q) \in DOMAIN q /\ q[Len(q)] = m
<1>1. q \in Seq(Nat) /\ DOMAIN q = 1..Len(q) /\ Len(q) \in Nat
  BY DEF Lists
<1>2. PICK i \in DOMAIN q : q[i] = m
  BY DEF Lists
<1>3. Len(q) \in DOMAIN q
  BY <1>1
<1>4. CASE i = Len(q)
  BY <1>2, <1>3, <1>4
<1>5. CASE i # Len(q)
  <2>1. i < Len(q)
    BY <1>1, <1>5
  <2>2. q[i] < q[Len(q)] /\ q[Len(q)] \in Z
    BY <1>3, <2>1 DEF Lists
  <2>3. q[i] \in Nat /\ q[Len(q)] \in Nat
    BY <1>1, <1>3
  <2> QED BY <1>2, <2>2, <2>3
<1> QED BY <1>4, <1>5

(* Neighbours of the set are neighbours of the list. *)
LEMMA ListsAfter ==
    ASSUME NEW Z, NEW q, Lists(q, Z), NEW i \in DOMAIN q, q[i] + 1 \in Z
    PROVE  i + 1 \in DOMAIN q /\ q[i + 1] = q[i] + 1
<1>1. q \in Seq(Nat) /\ DOMAIN q = 1..Len(q) /\ Len(q) \in Nat /\ q[i] \in Nat
  BY DEF Lists
<1>2. PICK j \in DOMAIN q : q[j] = q[i] + 1
  BY DEF Lists
<1>3. i < j
  <2> SUFFICES ASSUME ~(i < j) PROVE FALSE
    OBVIOUS
  <2>1. CASE j = i
    BY <1>1, <1>2, <2>1
  <2>2. CASE j # i
    <3>1. j < i
      BY <1>1, <2>2
    <3>2. q[j] < q[i]
      BY <3>1 DEF Lists
    <3> QED BY <1>1, <1>2, <3>2
  <2> QED BY <2>1, <2>2
<1>4. i + 1 \in DOMAIN q /\ i < i + 1
  BY <1>1, <1>3
<1>5. CASE j = i + 1
  BY <1>2, <1>4, <1>5
<1>6. CASE j # i + 1
  <2>1. i + 1 < j
    BY <1>1, <1>3, <1>6
  <2>2. q[i] < q[i + 1] /\ q[i + 1] < q[j]
    BY <1>4, <2>1 DEF Lists
  <2>3. q[i + 1] \in Nat
    BY <1>1, <1>4
  <2> QED BY <1>1, <1>2, <2>2, <2>3
<1> QED BY <1>5, <1>6

(* The number before a number, when both are listed. *)
LEMMA ListsBefore ==
    ASSUME NEW Z, NEW q, Lists(q, Z), NEW i \in DOMAIN q, NEW n \in Z, q[i] = n + 1
    PROVE  i - 1 \in DOMAIN q /\ q[i - 1] = n
<1>1. q \in Seq(Nat) /\ DOMAIN q = 1..Len(q) /\ Len(q) \in Nat /\ q[i] \in Nat
  BY DEF Lists
<1>2. PICK j \in DOMAIN q : q[j] = n
  BY DEF Lists
<1>3. n \in Nat /\ q[j] + 1 \in Z
  <2>1. q[i] \in Z /\ q[j] \in Nat
    BY <1>1, <1>2 DEF Lists
  <2> QED BY <1>2, <2>1
<1>4. j + 1 \in DOMAIN q /\ q[j + 1] = n + 1
  BY <1>2, <1>3, ListsAfter
<1>5. j + 1 = i
  <2> SUFFICES ASSUME j + 1 # i PROVE FALSE
    OBVIOUS
  <2>1. j + 1 < i \/ i < j + 1
    BY <1>1
  <2>2. q[j + 1] < q[i] \/ q[i] < q[j + 1]
    BY <1>4, <2>1 DEF Lists
  <2> QED BY <1>3, <1>4, <2>2
<1>6. i - 1 = j
  BY <1>1, <1>5
<1> QED BY <1>2, <1>6

-----------------------------------------------------------------------------
(* Rows of segments *)

(* The cards of the exchange with the provider: what a projection is made of. *)
ExchangeKinds == {"user", "assistant", "call", "tool", "denied"}

(* What a card and a segment are. *)
CardSet == [kind: Kinds, retain: Nat, stands: SUBSET Nat, size: Nat, whole: BOOLEAN]

SegmentSet == [cards: Seq(Nat), first: Nat, summary: BOOLEAN]

(* The places of the exchange in a transcript. *)
Exchange(s) == OfKind(s, ExchangeKinds)

(* The cards of the exchange from a number on, and before another. *)
Between(s, a, b) == {n \in Exchange(s) : a <= n /\ n < b}

(* What a card of a transcript refers to is there, and an answer follows its call. *)
CardFits(s, n) ==
    /\ s[n].retain < n
    /\ \A m \in s[n].stands : m \in DOMAIN s /\ m < n
    /\ s[n].kind \in {"tool", "denied"} => n - 1 \in DOMAIN s /\ s[n - 1].kind = "call"
    /\ s[n].kind = "summary" /\ s[n].retain # 0 =>
           s[n].retain \in DOMAIN s /\ s[s[n].retain].kind = "user"
    /\ s[n].kind = "elision" => \A m \in s[n].stands : s[m].kind = "tool"

(* Where a segment begins, and where the next one does: the first begins at a, and the
   last ends before e. *)
Start(g, a, k) == IF k = 1 THEN a ELSE g[k].first

Cut(g, k, e) == IF k < Len(g) THEN g[k + 1].first ELSE e

(* One segment of a row: the cards of the exchange from its beginning to its end, the
   first of all behind the head h. *)
SegFits(s, g, h, a, e, k) ==
    /\ Headed(g[k].cards, IF k = 1 THEN h ELSE << >>, Between(s, Start(g, a, k), Cut(g, k, e)))
    /\ Start(g, a, k) <= Cut(g, k, e)
    /\ k > 1 \/ h = << >> => g[k].first \in DOMAIN s /\ s[g[k].first].kind = "user"
    /\ k = Len(g) => Start(g, a, k) < e

(* The segments of a projection are a row: what one leaves off, the next begins with. *)
Row(s, g, h, a, e) ==
    /\ g \in Seq(SegmentSet)
    /\ g = << >> => h = << >> /\ a = e
    /\ h = << >> /\ g # << >> => g[1].first = a
    /\ \A k \in DOMAIN g : SegFits(s, g, h, a, e, k)

(* A new segment is one. *)
LEMMA SegmentTyped == ASSUME NEW n \in Nat PROVE Segment(n, FALSE) \in SegmentSet /\ Segment(n, TRUE) \in SegmentSet
<1>1. <<n>> \in Seq(Nat)
  OBVIOUS
<1> QED BY <1>1 DEF Segment, SegmentSet

(* The places of a transcript and what is there. *)
LEMMA ScriptDomain ==
    ASSUME NEW s \in Seq(CardSet)
    PROVE  /\ DOMAIN s = 1..Len(s) /\ Len(s) \in Nat /\ DOMAIN s \subseteq Nat
           /\ \A n \in DOMAIN s : s[n] \in CardSet /\ s[n].kind \in Kinds /\ s[n].retain \in Nat
                                  /\ s[n].stands \in SUBSET Nat
<1>1. DOMAIN s = 1..Len(s) /\ Len(s) \in Nat /\ \A n \in DOMAIN s : s[n] \in CardSet
  OBVIOUS
<1> QED BY <1>1 DEF CardSet

(* What it takes to be a card of the exchange between two places. *)
LEMMA BetweenIs ==
    ASSUME NEW s \in Seq(CardSet), NEW a \in Nat, NEW b
    PROVE  \A n : n \in Between(s, a, b) <=>
                    n \in DOMAIN s /\ s[n].kind \in ExchangeKinds /\ a <= n /\ n < b
  BY DEF Between, Exchange, OfKind

(* The next card widens what is between two places, when it is of the exchange. *)
LEMMA BetweenGrows ==
    ASSUME NEW s \in Seq(CardSet), NEW a \in Nat, NEW n \in DOMAIN s, a <= n
    PROVE  /\ s[n].kind \in ExchangeKinds => Between(s, a, n + 1) = Between(s, a, n) \cup {n}
           /\ s[n].kind \notin ExchangeKinds => Between(s, a, n + 1) = Between(s, a, n)
<1>1. n \in Nat /\ DOMAIN s \subseteq Nat
  BY ScriptDomain
<1>2. \A m \in Nat : m < n + 1 <=> m < n \/ m = n
  BY <1>1
<1> QED BY <1>1, <1>2 DEF Between, Exchange, OfKind

(* Two neighbouring intervals. *)
LEMMA BetweenJoins ==
    ASSUME NEW s \in Seq(CardSet), NEW a \in Nat, NEW b \in Nat, NEW c \in Nat, a <= b, b <= c
    PROVE  /\ Between(s, a, b) \cup Between(s, b, c) = Between(s, a, c)
           /\ \A m \in Between(s, a, b), n \in Between(s, b, c) : m < n
<1>1. DOMAIN s \subseteq Nat
  BY ScriptDomain
<1>2. \A n \in Nat : (a <= n /\ n < b) \/ (b <= n /\ n < c) <=> a <= n /\ n < c
  OBVIOUS
<1>3. \A m, n \in Nat : m < b /\ b <= n => m < n
  OBVIOUS
<1>4. \A x, y : Between(s, x, y) \subseteq Nat
  BY <1>1 DEF Between, Exchange, OfKind
<1> QED BY <1>1, <1>2, <1>3, <1>4 DEF Between, Exchange, OfKind

(* There is nothing between a place and itself. *)
LEMMA BetweenNothing ==
    ASSUME NEW s \in Seq(CardSet), NEW a \in Nat PROVE Between(s, a, a) = {}
<1>1. DOMAIN s \subseteq Nat /\ \A n \in Nat : ~(a <= n /\ n < a)
  BY ScriptDomain
<1> QED BY <1>1 DEF Between, Exchange, OfKind

(* The highest number is the last. *)
LEMMA HeadedLast ==
    ASSUME NEW h \in Seq(Nat), NEW x, NEW Z, Headed(x, h, Z), NEW m \in Z, \A n \in Z : n <= m
    PROVE  Last(x) = m
<1>1. PICK q : Lists(q, Z) /\ x = h \o q
  BY DEF Headed
<1>2. q \in Seq(Nat)
  BY <1>1 DEF Lists
<1>3. Len(q) \in DOMAIN q /\ q[Len(q)] = m
  BY <1>1, ListsLast
<1>4. Len(x) = Len(h) + Len(q) /\ Len(h) \in Nat /\ Len(q) \in Nat
  BY <1>1, <1>2, ConcatProperties
<1>5. x[Len(q) + Len(h)] = m
  BY <1>1, <1>2, <1>3, ConcatAt
<1>6. Len(x) = Len(q) + Len(h)
  BY <1>4
<1> QED BY <1>5, <1>6 DEF Last

(* The places of a row and what is there. *)
LEMMA RowDomain ==
    ASSUME NEW s \in Seq(CardSet), NEW g, NEW h, NEW a \in Nat, NEW e, Row(s, g, h, a, e)
    PROVE  /\ g \in Seq(SegmentSet) /\ DOMAIN g = 1..Len(g) /\ Len(g) \in Nat
           /\ g = << >> <=> Len(g) = 0
           /\ \A k \in DOMAIN g : /\ g[k] \in SegmentSet /\ g[k].cards \in Seq(Nat) /\ g[k].first \in Nat
                                  /\ Start(g, a, k) \in Nat
<1>1. g \in Seq(SegmentSet) /\ DOMAIN g = 1..Len(g) /\ Len(g) \in Nat
  BY DEF Row
<1>2. \A k \in DOMAIN g : g[k] \in SegmentSet
  BY <1>1
<1>3. \A k \in DOMAIN g : g[k].cards \in Seq(Nat) /\ g[k].first \in Nat
  BY <1>2 DEF SegmentSet
<1>4. g = << >> <=> Len(g) = 0
  BY <1>1
<1> QED BY <1>1, <1>2, <1>3, <1>4 DEF Start

(* A user card opens a segment. *)
LEMMA RowOpens ==
    ASSUME NEW s \in Seq(CardSet), NEW h \in Seq(Nat), NEW a \in Nat, NEW n \in DOMAIN s, NEW g,
           Row(s, g, h, a, n), s[n].kind = "user"
    PROVE  Row(s, Append(g, Segment(n, FALSE)), h, a, n + 1)
<1> DEFINE t == Segment(n, FALSE)
           f == Append(g, t)
           L == Len(g)
<1>1. /\ g \in Seq(SegmentSet) /\ DOMAIN g = 1..L /\ L \in Nat /\ (g = << >> <=> L = 0)
      /\ \A k \in DOMAIN g : Start(g, a, k) \in Nat
      /\ n \in Nat /\ t \in SegmentSet
  BY RowDomain, ScriptDomain, SegmentTyped
<1>2. t.cards = <<n>> /\ t.first = n
  BY DEF Segment
<1> HIDE DEF t
<1>3. /\ f \in Seq(SegmentSet) /\ Len(f) = L + 1 /\ DOMAIN f = 1..(L + 1)
      /\ f[L + 1] = t /\ \A k \in 1..L : f[k] = g[k]
  BY <1>1, AppendProperties
<1> HIDE DEF f
<1>4. ASSUME NEW k \in 1..L PROVE SegFits(s, f, h, a, n + 1, k)
  <2>1. SegFits(s, g, h, a, n, k)
    BY <1>1 DEF Row
  <2>2. f[k] = g[k] /\ Start(f, a, k) = Start(g, a, k) /\ k # Len(f) /\ k \in Nat
    BY <1>1, <1>3 DEF Start
  <2>3. Cut(f, k, n + 1) = Cut(g, k, n)
    <3>1. CASE k < L
      <4>1. k + 1 \in 1..L /\ k < Len(f)
        BY <1>1, <1>3, <3>1
      <4> QED BY <1>3, <3>1, <4>1 DEF Cut
    <3>2. CASE ~(k < L)
      <4>1. k = L
        <5>1. k \in Nat /\ k <= L
          BY <1>1
        <5> HIDE DEF L
        <5> QED BY <1>1, <3>2, <5>1
      <4>2. k < Len(f)
        <5> HIDE DEF L
        <5> QED BY <1>1, <1>3, <4>1
      <4>3. f[k + 1] = t
        BY <1>3, <4>1
      <4> QED BY <1>2, <3>2, <4>2, <4>3 DEF Cut
    <3> QED BY <3>1, <3>2
  <2> QED BY <2>1, <2>2, <2>3 DEF SegFits
<1>5. SegFits(s, f, h, a, n + 1, L + 1)
  <2>1. Start(f, a, L + 1) = n
    <3>1. CASE L = 0
      BY <1>1, <3>1 DEF Start, Row
    <3>2. CASE L # 0
      <4>1. L + 1 # 1
        BY <1>1, <3>2
      <4> QED BY <1>2, <1>3, <4>1 DEF Start
    <3> QED BY <3>1, <3>2
  <2>2. Cut(f, L + 1, n + 1) = n + 1
    BY <1>1, <1>3 DEF Cut
  <2>3. (IF L + 1 = 1 THEN h ELSE << >>) = << >>
    <3>1. CASE L = 0
      BY <1>1, <3>1 DEF Row
    <3>2. CASE L # 0
      BY <1>1, <3>2
    <3> QED BY <3>1, <3>2
  <2>4. Between(s, n, n + 1) = {n}
    <3>1. Between(s, n, n + 1) = Between(s, n, n) \cup {n}
      BY <1>1, BetweenGrows DEF ExchangeKinds
    <3>2. Between(s, n, n) = {}
      BY <1>1, BetweenNothing
    <3> QED BY <3>1, <3>2
  <2>5. Lists(<<n>>, {n})
    <3>1. Lists(Append(<< >>, n), {} \cup {n})
      BY <1>1, ListsNothing, ListsMore
    <3>2. Append(<< >>, n) = <<n>> /\ {} \cup {n} = {n}
      OBVIOUS
    <3> QED BY <3>1, <3>2
  <2>6. Headed(f[L + 1].cards, IF L + 1 = 1 THEN h ELSE << >>, Between(s, Start(f, a, L + 1), Cut(f, L + 1, n + 1)))
    BY <1>2, <1>3, <2>1, <2>2, <2>3, <2>4, <2>5, HeadedIsList
  <2>7. n <= n + 1 /\ n < n + 1
    BY <1>1
  <2>8. f[L + 1].first = n
    BY <1>2, <1>3
  <2> QED BY <2>1, <2>2, <2>6, <2>7, <2>8 DEF SegFits
<1>6. \A k \in DOMAIN f : SegFits(s, f, h, a, n + 1, k)
  <2> SUFFICES ASSUME NEW k \in DOMAIN f PROVE SegFits(s, f, h, a, n + 1, k)
    OBVIOUS
  <2>1. k \in 1..L \/ k = L + 1
    BY <1>1, <1>3
  <2> QED BY <1>4, <1>5, <2>1
<1>7. f # << >>
  BY <1>1, <1>3
<1>8. h = << >> => f[1].first = a
  <2>1. CASE L = 0
    <3>1. f[1] = t /\ a = n
      BY <1>1, <1>3, <2>1 DEF Row
    <3> QED BY <1>2, <3>1
  <2>2. CASE L # 0
    <3>1. 1 \in 1..L /\ g # << >>
      BY <1>1, <2>2
    <3> QED BY <1>3, <3>1 DEF Row
  <2> QED BY <2>1, <2>2
<1> QED BY <1>3, <1>6, <1>7, <1>8 DEF Row, f, t

(* Another card of the exchange joins the last segment. *)
LEMMA RowJoins ==
    ASSUME NEW s \in Seq(CardSet), NEW h \in Seq(Nat), NEW a \in Nat, NEW n \in DOMAIN s, NEW g,
           Row(s, g, h, a, n), s[n].kind \in ExchangeKinds, g # << >>
    PROVE  Row(s, [g EXCEPT ![Len(g)].cards = Append(@, n)], h, a, n + 1)
<1> DEFINE L == Len(g)
           x == Append(g[L].cards, n)
           t == [g[L] EXCEPT !.cards = x]
           f == [g EXCEPT ![L] = t]
<1>1. /\ g \in Seq(SegmentSet) /\ DOMAIN g = 1..L /\ L \in Nat /\ L # 0
      /\ \A k \in DOMAIN g : g[k] \in SegmentSet /\ g[k].cards \in Seq(Nat) /\ Start(g, a, k) \in Nat
      /\ n \in Nat
  <2>1. /\ g \in Seq(SegmentSet) /\ DOMAIN g = 1..Len(g) /\ Len(g) \in Nat /\ (g = << >> <=> Len(g) = 0)
        /\ \A k \in DOMAIN g : g[k] \in SegmentSet /\ g[k].cards \in Seq(Nat) /\ Start(g, a, k) \in Nat
    BY RowDomain
  <2>2. n \in Nat
    BY ScriptDomain
  <2> QED BY <2>1, <2>2
<1>2. L \in DOMAIN g
  BY <1>1
<1>3. [g EXCEPT ![Len(g)].cards = Append(@, n)] = f
  OBVIOUS
<1>4. x \in Seq(Nat)
  BY <1>1, <1>2, AppendProperties
<1> HIDE DEF x
<1>5. t \in SegmentSet /\ t.cards = x /\ t.first = g[L].first
  BY <1>1, <1>2, <1>4 DEF SegmentSet
<1> HIDE DEF t
<1>6. /\ f \in Seq(SegmentSet) /\ Len(f) = L /\ DOMAIN f = 1..L
      /\ f[L] = t /\ \A k \in 1..L : k # L => f[k] = g[k]
  <2>1. /\ f \in Seq(SegmentSet) /\ Len(f) = L
        /\ \A k \in 1..L : f[k] = IF k = L THEN t ELSE g[k]
    BY <1>1, <1>2, <1>5, ExceptSeq
  <2> HIDE DEF f
  <2>2. DOMAIN f = 1..L
    BY <2>1
  <2> QED BY <1>1, <1>2, <2>1, <2>2
<1> HIDE DEF f
<1>7. \A k \in 1..L : f[k].first = g[k].first
  BY <1>5, <1>6
<1>8. \A k \in 1..L : Start(f, a, k) = Start(g, a, k)
  BY <1>7 DEF Start
<1>9. ASSUME NEW k \in 1..L, k # L PROVE SegFits(s, f, h, a, n + 1, k)
  <2>1. SegFits(s, g, h, a, n, k)
    BY <1>1, <1>9 DEF Row
  <2>2. f[k] = g[k] /\ Start(f, a, k) = Start(g, a, k) /\ k # Len(f)
    BY <1>6, <1>8, <1>9
  <2>3. Cut(f, k, n + 1) = Cut(g, k, n)
    <3>1. k < L /\ k + 1 \in 1..L
      <4> HIDE DEF L
      <4> QED BY <1>1, <1>9
    <3> QED BY <1>6, <1>7, <3>1 DEF Cut
  <2> QED BY <2>1, <2>2, <2>3 DEF SegFits
<1>10. SegFits(s, f, h, a, n + 1, L)
  <2> DEFINE b == Start(g, a, L)
             hh == IF L = 1 THEN h ELSE << >>
  <2>1. SegFits(s, g, h, a, n, L)
    BY <1>2 DEF Row
  <2>2. Cut(g, L, n) = n /\ Cut(f, L, n + 1) = n + 1 /\ Start(f, a, L) = b
    <3>1. ~(L < Len(g)) /\ ~(L < Len(f))
      <4>1. Len(g) = L /\ Len(f) = L /\ L \in Nat
        BY <1>1, <1>6
      <4> HIDE DEF L
      <4> QED BY <4>1
    <3> QED BY <1>2, <1>1, <1>8, <3>1 DEF Cut
  <2>3. b \in Nat /\ b < n /\ hh \in Seq(Nat)
    BY <1>1, <1>2, <2>1 DEF SegFits
  <2>4. Headed(g[L].cards, hh, Between(s, b, n))
    BY <2>1, <2>2 DEF SegFits
  <2>5. Between(s, b, n + 1) = Between(s, b, n) \cup {n}
    BY <2>3, <1>1, BetweenGrows, SMTT(40)
  <2>6. \A m \in Between(s, b, n) : m < n
    BY DEF Between
  <2>7. f[L].first = g[L].first /\ f[L].cards = x
    BY <1>5, <1>6
  <2> HIDE DEF b, hh
  <2>8. Headed(x, hh, Between(s, b, n + 1))
    <3>1. Headed(Append(g[L].cards, n), hh, Between(s, b, n) \cup {n})
      BY <1>1, <2>3, <2>4, <2>6, HeadedMore, Zenon
    <3> QED BY <2>5, <3>1 DEF x
  <2>9. b <= n + 1 /\ b < n + 1
    BY <1>1, <2>3
  <2>10. L > 1 \/ h = << >> => f[L].first \in DOMAIN s /\ s[f[L].first].kind = "user"
    BY <2>1, <2>7 DEF SegFits
  <2> QED BY <2>2, <2>7, <2>8, <2>9, <2>10 DEF SegFits, hh
<1>11. \A k \in DOMAIN f : SegFits(s, f, h, a, n + 1, k)
  BY <1>6, <1>9, <1>10
<1>12. f # << >>
  BY <1>1, <1>6
<1>13. h = << >> => f[1].first = a
  <2>1. 1 \in 1..L
    BY <1>1
  <2> QED BY <1>7, <2>1 DEF Row
<1>14. Row(s, f, h, a, n + 1)
  BY <1>6, <1>11, <1>12, <1>13 DEF Row
<1> QED BY <1>3, <1>14

(* A card that is not of the exchange leaves the row as it is. *)
LEMMA RowSkips ==
    ASSUME NEW s \in Seq(CardSet), NEW h \in Seq(Nat), NEW a \in Nat, NEW n \in DOMAIN s, NEW g,
           Row(s, g, h, a, n), s[n].kind \notin ExchangeKinds, g # << >>
    PROVE  Row(s, g, h, a, n + 1)
<1>1. /\ g \in Seq(SegmentSet) /\ DOMAIN g = 1..Len(g) /\ Len(g) \in Nat
      /\ \A k \in DOMAIN g : Start(g, a, k) \in Nat
      /\ n \in Nat
  BY RowDomain, ScriptDomain
<1>2. ASSUME NEW k \in DOMAIN g PROVE SegFits(s, g, h, a, n + 1, k)
  <2>1. SegFits(s, g, h, a, n, k)
    BY DEF Row
  <2>2. CASE k < Len(g)
    <3>1. Cut(g, k, n + 1) = Cut(g, k, n) /\ k # Len(g)
      BY <1>1, <2>2 DEF Cut
    <3> QED BY <2>1, <3>1 DEF SegFits
  <2>3. CASE ~(k < Len(g))
    <3>1. Cut(g, k, n) = n /\ Cut(g, k, n + 1) = n + 1 /\ k = Len(g)
      BY <1>1, <2>3 DEF Cut
    <3>2. Start(g, a, k) \in Nat /\ Start(g, a, k) < n
      BY <1>1, <2>1, <3>1 DEF SegFits
    <3>3. Start(g, a, k) <= n + 1 /\ Start(g, a, k) < n + 1 /\ Start(g, a, k) <= n
      BY <1>1, <3>2
    <3>4. Between(s, Start(g, a, k), n + 1) = Between(s, Start(g, a, k), n)
      BY <3>2, <3>3, BetweenGrows
    <3> QED BY <2>1, <3>1, <3>3, <3>4 DEF SegFits
  <2> QED BY <2>2, <2>3
<1> QED BY <1>1, <1>2 DEF Row

(* apply_entry on a row: a user card opens a segment, another card of the exchange joins the
   last one (an answer because its call is the card before it), the rest is left out. *)
LEMMA RowStep ==
    ASSUME NEW s \in Seq(CardSet), NEW h \in Seq(Nat), NEW a \in Nat, NEW n \in DOMAIN s, NEW g,
           Row(s, g, h, a, n), CardFits(s, n), g = << >> => s[n].kind = "user"
    PROVE  Row(s, ApplyEntry(s, g, n), h, a, n + 1)
<1>1. /\ g \in Seq(SegmentSet) /\ DOMAIN g = 1..Len(g) /\ Len(g) \in Nat
      /\ \A k \in DOMAIN g : g[k].cards \in Seq(Nat) /\ Start(g, a, k) \in Nat
      /\ n \in Nat /\ DOMAIN s \subseteq Nat
  BY RowDomain, ScriptDomain
<1>2. CASE s[n].kind = "user"
  BY <1>2, RowOpens DEF ApplyEntry
<1>3. CASE s[n].kind # "user" /\ s[n].kind \in ExchangeKinds
  <2>1. g # << >>
    BY <1>3
  <2>2. s[n].kind \in {"tool", "denied"} => Declared(s, Last(g).cards, n)
    <3> SUFFICES ASSUME s[n].kind \in {"tool", "denied"} PROVE Declared(s, Last(g).cards, n)
      OBVIOUS
    <3> DEFINE L == Len(g)
               b == Start(g, a, L)
    <3>1. L \in DOMAIN g /\ Last(g) = g[L]
      BY <1>1, <2>1 DEF Last
    <3>2. SegFits(s, g, h, a, n, L)
      BY <3>1 DEF Row
    <3>3. b \in Nat /\ b < n /\ Cut(g, L, n) = n
      BY <1>1, <3>1, <3>2 DEF SegFits, Cut
    <3>4. n - 1 \in DOMAIN s /\ s[n - 1].kind = "call"
      BY DEF CardFits
    <3>5. n - 1 \in Between(s, b, n)
      <4>1. b <= n - 1 /\ n - 1 < n
        BY <1>1, <3>3
      <4> QED BY <3>3, <3>4, <4>1, BetweenIs DEF ExchangeKinds
    <3>6. \A m \in Between(s, b, n) : m <= n - 1
      <4>1. \A m \in Nat : m < n => m <= n - 1
        BY <1>1
      <4> QED BY <1>1, <3>3, <4>1, BetweenIs
    <3>7. Headed(g[L].cards, IF L = 1 THEN h ELSE << >>, Between(s, b, n))
      BY <3>2, <3>3 DEF SegFits
    <3>8. Last(g[L].cards) = n - 1
      <4>1. (IF L = 1 THEN h ELSE << >>) \in Seq(Nat)
        OBVIOUS
      <4> HIDE DEF b, L
      <4> QED BY <3>5, <3>6, <3>7, <4>1, HeadedLast
    <3> QED BY <3>1, <3>4, <3>8 DEF Declared
  <2>3. ApplyEntry(s, g, n) = [g EXCEPT ![Len(g)].cards = Append(@, n)]
    BY <1>3, <2>1, <2>2 DEF ApplyEntry, ExchangeKinds
  <2>4. Row(s, [g EXCEPT ![Len(g)].cards = Append(@, n)], h, a, n + 1)
    BY <1>3, <2>1, RowJoins, Zenon
  <2> QED BY <2>3, <2>4
<1>4. CASE s[n].kind \notin ExchangeKinds
  <2>1. g # << >> /\ ApplyEntry(s, g, n) = g
    BY <1>4 DEF ApplyEntry, ExchangeKinds, Declared
  <2> QED BY <1>4, <2>1, RowSkips
<1> QED BY <1>2, <1>3, <1>4

(* apply_entry makes segments of segments. *)
LEMMA ApplyEntryTyped ==
    ASSUME NEW s, NEW n \in Nat, NEW x \in Seq(SegmentSet) PROVE ApplyEntry(s, x, n) \in Seq(SegmentSet)
<1>1. Segment(n, FALSE) \in SegmentSet
  BY SegmentTyped
<1>2. Append(x, Segment(n, FALSE)) \in Seq(SegmentSet)
  BY <1>1, AppendProperties
<1>3. CASE x = << >>
  BY <1>2, <1>3 DEF ApplyEntry
<1>4. CASE x # << >>
  <2> DEFINE L == Len(x)
             c == Append(x[L].cards, n)
             t == [x[L] EXCEPT !.cards = c]
  <2>1. L \in 1..Len(x) /\ x[L] \in SegmentSet
    BY <1>4
  <2>2. c \in Seq(Nat)
    <3>1. x[L].cards \in Seq(Nat) /\ n \in Nat
      BY <2>1 DEF SegmentSet
    <3> QED BY <3>1, AppendProperties
  <2> HIDE DEF c
  <2>3. t \in SegmentSet
    BY <2>1, <2>2 DEF SegmentSet
  <2> HIDE DEF t
  <2>4. [x EXCEPT ![L] = t] \in Seq(SegmentSet)
    BY <2>1, <2>3, ExceptSeq
  <2>5. [x EXCEPT ![Len(x)].cards = Append(@, n)] = [x EXCEPT ![L] = t]
    BY DEF t, c
  <2> QED BY <1>2, <2>4, <2>5 DEF ApplyEntry
<1> QED BY <1>3, <1>4

(* One card of apply_entries: taken, or not in the window. *)
Applied(s, ns, x, n) == IF n \in ns THEN ApplyEntry(s, x, n) ELSE x

(* What Apply computes, card by card. *)
LEMMA ApplyTable ==
    ASSUME NEW s \in Seq(CardSet), NEW g \in Seq(SegmentSet), NEW ns
    PROVE  \E at : /\ at[0] = g
                   /\ \A n \in 1..Len(s) : at[n] = Applied(s, ns, at[n - 1], n)
                   /\ at[Len(s)] = Apply(s, g, ns)
<1> DEFINE N == Len(s)
           B == Seq(SegmentSet)
           st == [n \in 1..N |-> [x \in B |-> Applied(s, ns, x, n)]]
           Is(f) == f = [n \in 0..N |-> IF n = 0 THEN g
                                        ELSE IF n \in ns THEN ApplyEntry(s, f[n - 1], n) ELSE f[n - 1]]
           at == CHOOSE f : Is(f)
<1>1. N \in Nat /\ g \in B
  BY ScriptDomain
<1>2. ASSUME NEW n \in 1..N, NEW x \in B PROVE Applied(s, ns, x, n) \in B
  BY ApplyEntryTyped DEF Applied
<1>3. PICK f : Iterates(f, B, g, st, N)
  <2>1. st \in [1..N -> [B -> B]]
    BY <1>2
  <2> HIDE DEF st, N, B
  <2> QED BY <1>1, <2>1, IterationExists
<1>4. f \in [0..N -> B] /\ f[0] = g
  BY <1>3 DEF Iterates
<1>5. ASSUME NEW n \in 1..N PROVE f[n] = Applied(s, ns, f[n - 1], n)
  <2>1. f[n - 1] \in B
    <3>1. n - 1 \in 0..N
      BY <1>1
    <3> HIDE DEF B, N
    <3> QED BY <1>4, <3>1
  <2>2. f[n] = st[n][f[n - 1]]
    BY <1>3 DEF Iterates
  <2> HIDE DEF B
  <2> QED BY <2>1, <2>2
<1> HIDE DEF st
<1>6. Is(f)
  <2>1. \A n \in 0..N : f[n] = IF n = 0 THEN g ELSE IF n \in ns THEN ApplyEntry(s, f[n - 1], n) ELSE f[n - 1]
    BY <1>1, <1>4, <1>5 DEF Applied
  <2> HIDE DEF N
  <2> QED BY <1>4, <2>1
<1>7. Is(at)
  <2> HIDE DEF Is
  <2> QED BY <1>6
<1>8. \A n \in 0..N : at[n] = IF n = 0 THEN g ELSE Applied(s, ns, at[n - 1], n)
  <2> HIDE DEF at, N
  <2> QED BY <1>7 DEF Applied
<1>9. Apply(s, g, ns) = at[N]
  BY DEF Apply
<1> HIDE DEF at, Is
<1>10. at[0] = g
  BY <1>1, <1>8
<1>11. \A n \in 1..N : at[n] = Applied(s, ns, at[n - 1], n)
  BY <1>1, <1>8
<1> QED BY <1>9, <1>10, <1>11

(* The cards of an interval, applied in their order to a row that ends before them. *)
LEMMA ApplyFits ==
    ASSUME NEW s \in Seq(CardSet), \A n \in DOMAIN s : CardFits(s, n),
           NEW h \in Seq(Nat), NEW a \in Nat, NEW low \in Nat, NEW high \in Nat,
           1 <= low, low <= high + 1, high <= Len(s),
           NEW g, Row(s, g, h, a, low),
           a \in low..high => s[a].kind = "user",
           NEW ns, \A n \in DOMAIN s : n \in ns <=> low <= n /\ n <= high
    PROVE  Row(s, Apply(s, g, ns), h, a, high + 1)
<1> DEFINE End(n) == IF n < low THEN low ELSE IF n <= high THEN n + 1 ELSE high + 1
<1>1. Len(s) \in Nat /\ DOMAIN s = 1..Len(s) /\ g \in Seq(SegmentSet)
  BY ScriptDomain DEF Row
<1>2. PICK at : /\ at[0] = g
                /\ \A n \in 1..Len(s) : at[n] = Applied(s, ns, at[n - 1], n)
                /\ at[Len(s)] = Apply(s, g, ns)
  BY <1>1, ApplyTable, SMTT(40)
<1> DEFINE T == {n \in 0..Len(s) : Row(s, at[n], h, a, End(n))}
<1>3. 0 \in T
  <2>1. at[0] = g
    BY <1>2
  <2>2. End(0) = low /\ 0 \in 0..Len(s)
    BY <1>1
  <2> HIDE DEF End
  <2> QED BY <2>1, <2>2
<1>4. ASSUME NEW n \in 1..Len(s), n - 1 \in T PROVE n \in T
  <2>1. n \in DOMAIN s /\ n \in Nat /\ n \in 0..Len(s)
    BY <1>1
  <2>2. Row(s, at[n - 1], h, a, End(n - 1))
    <3> HIDE DEF End
    <3> QED BY <1>4
  <2>3. at[n] = Applied(s, ns, at[n - 1], n)
    BY <1>2
  <2> HIDE DEF T
  <2>4. CASE n < low
    <3>1. End(n) = low /\ End(n - 1) = low
      BY <2>1, <2>4
    <3>2. n \notin ns
      BY <2>1, <2>4
    <3> HIDE DEF End
    <3>3. Row(s, at[n], h, a, End(n))
      BY <2>2, <2>3, <3>1, <3>2 DEF Applied
    <3> QED BY <2>1, <3>3 DEF T
  <2>5. CASE low <= n /\ n <= high
    <3>1. End(n) = n + 1
      BY <2>1, <2>5
    <3>2. End(n - 1) = n
      BY <2>1, <2>5
    <3>3. n \in ns
      BY <2>1, <2>5
    <3> HIDE DEF End
    <3>4. at[n - 1] = << >> => s[n].kind = "user"
      <4> SUFFICES ASSUME at[n - 1] = << >> PROVE s[n].kind = "user"
        OBVIOUS
      <4>1. a = n
        BY <2>2, <3>2 DEF Row
      <4> QED BY <2>5, <4>1
    <3>5. Row(s, ApplyEntry(s, at[n - 1], n), h, a, n + 1)
      BY <2>1, <2>2, <3>2, <3>4, RowStep
    <3>6. Row(s, at[n], h, a, End(n))
      BY <2>3, <3>1, <3>3, <3>5 DEF Applied
    <3> QED BY <2>1, <3>6 DEF T
  <2>6. CASE high < n
    <3>1. End(n) = high + 1
      BY <2>1, <2>6
    <3>2. End(n - 1) = high + 1
      BY <2>1, <2>6
    <3>3. n \notin ns
      BY <2>1, <2>6
    <3> HIDE DEF End
    <3>4. Row(s, at[n], h, a, End(n))
      BY <2>2, <2>3, <3>1, <3>2, <3>3 DEF Applied
    <3> QED BY <2>1, <3>4 DEF T
  <2>7. n < low \/ (low <= n /\ n <= high) \/ high < n
    BY <2>1
  <2> QED BY <2>4, <2>5, <2>6, <2>7
<1>5. \A n \in 0..Len(s) : n \in T
  <2> HIDE DEF T
  <2> QED BY <1>1, <1>3, <1>4, Climb
<1>6. Len(s) \in T
  <2> HIDE DEF T
  <2> QED BY <1>1, <1>5
<1>7. End(Len(s)) = high + 1
  BY <1>1
<1>8. Row(s, at[Len(s)], h, a, End(Len(s)))
  <2> HIDE DEF End
  <2> QED BY <1>6
<1> HIDE DEF End
<1> QED BY <1>2, <1>7, <1>8

-----------------------------------------------------------------------------
(* The projection of a transcript *)

(* The summary in front of the verbatim part, if there is one. *)
HeadOf(s) == IF NewestSummary(s) = 0 THEN << >> ELSE <<NewestSummary(s)>>

(* The newest summary stands for what is before the verbatim part, unless a summary could
   not be made from all that it replaced. *)
StandsFit(s) ==
    \/ \E n \in OfKind(s, {"summary"}) : Curtailed(s, n)
    \/ \A n \in Exchange(s) : n < Floor(s) => n \in s[NewestSummary(s)].stands

(* A transcript that can be projected: it begins with a prompt, what each card refers to is
   there, and the newest summary stands for all that it replaces. *)
ScriptFits(s) ==
    /\ s \in Seq(CardSet)
    /\ s # << >> => s[1].kind = "user"
    /\ \A n \in DOMAIN s : CardFits(s, n)
    /\ StandsFit(s)

(* Max picks the greatest of a set of bounded numbers. *)
LEMMA MaxIs ==
    ASSUME NEW N \in Nat, NEW T \in SUBSET (1..N), T # {}
    PROVE  Max(T) \in T /\ \A y \in T : y <= Max(T)
<1> DEFINE R == {N - x : x \in T}
<1>1. R \in SUBSET Nat /\ R # {}
  <2>1. \A x \in T : N - x \in Nat
    OBVIOUS
  <2>2. R \in SUBSET Nat
    BY <2>1
  <2>3. PICK x \in T : TRUE
    OBVIOUS
  <2>4. N - x \in R
    OBVIOUS
  <2> QED BY <2>2, <2>4
<1>2. PICK m \in R : \A y \in R : m <= y
  <2> HIDE DEF R
  <2> QED BY <1>1, LeastNumber
<1>3. PICK x \in T : m = N - x
  OBVIOUS
<1>4. \A y \in T : x >= y
  <2> SUFFICES ASSUME NEW y \in T PROVE x >= y
    OBVIOUS
  <2>1. N - y \in R
    OBVIOUS
  <2> HIDE DEF R
  <2>2. m <= N - y
    BY <1>2, <2>1
  <2>3. x \in Nat /\ y \in Nat
    OBVIOUS
  <2> QED BY <1>3, <2>2, <2>3
<1>5. Max(T) \in T /\ \A y \in T : Max(T) >= y
  BY <1>4 DEF Max
<1>6. \A y \in T : y \in Nat
  OBVIOUS
<1> QED BY <1>5, <1>6

(* The newest summary is the last card of its kind. *)
LEMMA NewestIs ==
    ASSUME NEW s \in Seq(CardSet), NEW card, card = NewestSummary(s)
    PROVE  /\ card \in 0..Len(s)
           /\ card = 0 => \A n \in DOMAIN s : s[n].kind # "summary"
           /\ card # 0 => /\ card \in DOMAIN s /\ s[card].kind = "summary"
                          /\ \A n \in DOMAIN s : s[n].kind = "summary" => n <= card
<1> DEFINE T == OfKind(s, {"summary"})
<1>1. DOMAIN s = 1..Len(s) /\ Len(s) \in Nat
  BY ScriptDomain
<1>2. T \in SUBSET (1..Len(s)) /\ \A n : n \in T <=> n \in DOMAIN s /\ s[n].kind = "summary"
  BY <1>1 DEF OfKind
<1>3. card = IF T = {} THEN 0 ELSE Max(T)
  BY DEF NewestSummary
<1> HIDE DEF T
<1>4. CASE T = {}
  BY <1>1, <1>2, <1>3, <1>4
<1>5. CASE T # {}
  <2>1. Max(T) \in T /\ \A y \in T : y <= Max(T)
    BY <1>1, <1>2, <1>5, MaxIs
  <2>2. card \in T /\ \A y \in T : y <= card
    BY <1>3, <1>5, <2>1
  <2> QED BY <1>1, <1>2, <2>2
<1> QED BY <1>4, <1>5

(* Which summary is the newest. *)
LEMMA NewestOne ==
    ASSUME NEW s \in Seq(CardSet), NEW m \in DOMAIN s, s[m].kind = "summary",
           \A n \in DOMAIN s : s[n].kind = "summary" => n <= m
    PROVE  NewestSummary(s) = m
<1> DEFINE card == NewestSummary(s)
<1>1. /\ card \in 0..Len(s)
      /\ card = 0 => \A n \in DOMAIN s : s[n].kind # "summary"
      /\ card # 0 => /\ card \in DOMAIN s /\ s[card].kind = "summary"
                     /\ \A n \in DOMAIN s : s[n].kind = "summary" => n <= card
  BY NewestIs
<1>2. m \in Nat /\ Len(s) \in Nat
  BY ScriptDomain
<1> HIDE DEF card
<1>3. card # 0
  BY <1>1
<1>4. card <= m /\ m <= card /\ card \in Nat
  BY <1>1, <1>2, <1>3
<1>5. card = m
  BY <1>2, <1>4
<1> QED BY <1>5 DEF card

(* The verbatim part begins at the first card, at the newest summary, or at the prompt that
   it promised to keep. *)
LEMMA FloorIs ==
    ASSUME NEW s, ScriptFits(s), NEW card, card = NewestSummary(s)
    PROVE  /\ Floor(s) \in Nat /\ 1 <= Floor(s)
           /\ card = 0 => Floor(s) = 1
           /\ card # 0 => Floor(s) <= card /\ Floor(s) \in DOMAIN s
           /\ card # 0 /\ s[card].retain = 0 => Floor(s) = card
           /\ card # 0 /\ s[card].retain # 0 => Floor(s) = s[card].retain /\ s[Floor(s)].kind = "user" /\ Floor(s) < card
<1>1. /\ s \in Seq(CardSet) /\ DOMAIN s = 1..Len(s) /\ Len(s) \in Nat
      /\ \A n \in DOMAIN s : s[n].retain \in Nat
  BY ScriptDomain DEF ScriptFits
<1>2. /\ card \in 0..Len(s)
      /\ card # 0 => card \in DOMAIN s /\ s[card].kind = "summary"
  BY <1>1, NewestIs
<1>3. CASE card = 0
  BY <1>3 DEF Floor
<1>4. CASE card # 0
  <2>1. CardFits(s, card)
    BY <1>2, <1>4 DEF ScriptFits
  <2>2. s[card].retain \in Nat /\ s[card].retain < card
    BY <1>1, <1>2, <1>4, <2>1 DEF CardFits
  <2>3. CASE s[card].retain = 0
    <3>1. Floor(s) = card
      BY <1>4, <2>3 DEF Floor
    <3> QED BY <1>1, <1>2, <1>4, <2>3, <3>1
  <2>4. CASE s[card].retain # 0
    <3>1. Floor(s) = s[card].retain
      BY <1>4, <2>4 DEF Floor
    <3>2. s[card].retain \in DOMAIN s /\ s[s[card].retain].kind = "user"
      BY <1>2, <1>4, <2>1, <2>4 DEF CardFits
    <3>3. Floor(s) \in Nat /\ 1 <= Floor(s) /\ Floor(s) <= card /\ Floor(s) < card
      BY <1>1, <1>2, <2>2, <3>1, <3>2
    <3> QED BY <1>4, <2>4, <3>1, <3>2, <3>3
  <2> QED BY <2>3, <2>4
<1> QED BY <1>3, <1>4

(* The segment of the summary, before what the summary kept. *)
LEMMA RowHead ==
    ASSUME NEW s \in Seq(CardSet), NEW card \in DOMAIN s, s[card].kind = "summary",
           NEW a \in Nat, a <= card, NEW g, Row(s, g, << >>, a, card)
    PROVE  Row(s, <<Segment(card, TRUE)>> \o g, <<card>>, a, card + 1)
<1> DEFINE t == Segment(card, TRUE)
           f == <<t>> \o g
           e == card + 1
<1>1. /\ g \in Seq(SegmentSet) /\ DOMAIN g = 1..Len(g) /\ Len(g) \in Nat
      /\ card \in Nat /\ t \in SegmentSet /\ <<t>> \in Seq(SegmentSet) /\ <<card>> \in Seq(Nat)
      /\ \A k \in DOMAIN g : g[k].first \in Nat
  <2>1. /\ g \in Seq(SegmentSet) /\ DOMAIN g = 1..Len(g) /\ Len(g) \in Nat
        /\ \A k \in DOMAIN g : g[k].first \in Nat
    BY RowDomain
  <2>2. card \in Nat
    BY ScriptDomain
  <2>3. t \in SegmentSet
    BY <2>2, SegmentTyped
  <2> HIDE DEF t
  <2> QED BY <2>1, <2>2, <2>3
<1>2. t.cards = <<card>>
  BY DEF Segment
<1> HIDE DEF t
<1>3. /\ f \in Seq(SegmentSet) /\ Len(f) = 1 + Len(g) /\ DOMAIN f = 1..(1 + Len(g))
      /\ f[1] = t /\ \A k \in DOMAIN g : f[k + 1] = g[k]
  <2>1. Len(<<t>>) = 1 /\ DOMAIN <<t>> = 1..1 /\ <<t>>[1] = t
    OBVIOUS
  <2>2. f \in Seq(SegmentSet) /\ Len(f) = Len(<<t>>) + Len(g)
    BY <1>1, ConcatProperties
  <2>3. /\ DOMAIN f = 1..(Len(<<t>>) + Len(g))
        /\ \A k \in DOMAIN <<t>> : f[k] = <<t>>[k]
        /\ \A k \in DOMAIN g : f[k + Len(<<t>>)] = g[k]
    BY <1>1, ConcatAt
  <2> HIDE DEF f
  <2> QED BY <2>1, <2>2, <2>3
<1> HIDE DEF f
<1>4. f # << >>
  BY <1>1, <1>3
<1>5. Headed(<<card>>, <<card>>, {})
  <2>1. <<card>> = <<card>> \o << >>
    BY <1>1, ConcatEmptySeq
  <2> QED BY <2>1, ListsNothing DEF Headed
<1>6. Between(s, card, e) = {}
  <2>1. Between(s, card, card + 1) = Between(s, card, card)
    BY <1>1, BetweenGrows DEF ExchangeKinds
  <2> QED BY <1>1, <2>1, BetweenNothing
<1>7. CASE g = << >>
  <2>1. Len(f) = 1 /\ DOMAIN f = {1} /\ a = card
    BY <1>3, <1>7 DEF Row
  <2>2. Start(f, a, 1) = card /\ Cut(f, 1, e) = e
    BY <2>1 DEF Start, Cut
  <2>3. SegFits(s, f, <<card>>, a, e, 1)
    <3>1. Headed(f[1].cards, IF 1 = 1 THEN <<card>> ELSE << >>, Between(s, Start(f, a, 1), Cut(f, 1, e)))
      BY <1>2, <1>3, <1>5, <1>6, <2>2
    <3>2. card <= e /\ card < e
      BY <1>1
    <3>3. ~(1 > 1 \/ <<card>> = << >>)
      OBVIOUS
    <3> QED BY <2>2, <3>1, <3>2, <3>3 DEF SegFits
  <2>4. \A k \in DOMAIN f : SegFits(s, f, <<card>>, a, e, k)
    BY <2>1, <2>3
  <2>5. ~(<<card>> = << >>)
    OBVIOUS
  <2> QED BY <1>3, <1>4, <2>4, <2>5 DEF Row, f, t
<1>8. CASE g # << >>
  <2>1. Row(s, g, << >>, a, e)
    <3>1. s[card].kind \notin ExchangeKinds /\ << >> \in Seq(Nat)
      BY DEF ExchangeKinds
    <3> QED BY <1>8, <3>1, RowSkips, Zenon
  <2>2. g[1].first = a /\ 1 \in DOMAIN g /\ Len(g) > 0
    BY <1>1, <1>8 DEF Row
  <2>3. SegFits(s, f, <<card>>, a, e, 1)
    <3>1. Start(f, a, 1) = a
      BY DEF Start
    <3>2. Cut(f, 1, e) = a
      <4>1. 1 < Len(f) /\ f[1 + 1] = g[1]
        BY <1>1, <1>3, <2>2
      <4> QED BY <2>2, <4>1 DEF Cut
    <3>3. Between(s, a, a) = {}
      BY BetweenNothing
    <3>4. 1 # Len(f) /\ a <= a
      BY <1>1, <1>3, <2>2
    <3>5. ~(1 > 1 \/ <<card>> = << >>)
      OBVIOUS
    <3> QED BY <1>2, <1>3, <1>5, <3>1, <3>2, <3>3, <3>4, <3>5 DEF SegFits
  <2>4. ASSUME NEW k \in DOMAIN g PROVE SegFits(s, f, <<card>>, a, e, k + 1)
    <3>1. SegFits(s, g, << >>, a, e, k)
      BY <2>1 DEF Row
    <3>2. f[k + 1] = g[k] /\ k + 1 # 1 /\ k + 1 > 1
      BY <1>1, <1>3
    <3>3. Start(f, a, k + 1) = g[k].first /\ Start(g, a, k) = g[k].first
      BY <2>2, <3>2 DEF Start
    <3>4. Cut(f, k + 1, e) = Cut(g, k, e)
      <4>1. CASE k < Len(g)
        <5>1. k + 1 \in DOMAIN g /\ k + 1 < Len(f)
          BY <1>1, <1>3, <4>1
        <5>2. f[(k + 1) + 1] = g[k + 1]
          BY <1>3, <5>1
        <5> QED BY <4>1, <5>1, <5>2 DEF Cut
      <4>2. CASE ~(k < Len(g))
        <5>1. ~(k + 1 < Len(f))
          BY <1>1, <1>3, <4>2
        <5> QED BY <4>2, <5>1 DEF Cut
      <4> QED BY <4>1, <4>2
    <3>5. k + 1 = Len(f) => k = Len(g)
      BY <1>1, <1>3
    <3>6. (IF k = 1 THEN << >> ELSE << >>) = << >> /\ (IF k + 1 = 1 THEN <<card>> ELSE << >>) = << >>
      BY <3>2
    <3>7. Headed(f[k + 1].cards, IF k + 1 = 1 THEN <<card>> ELSE << >>,
                 Between(s, Start(f, a, k + 1), Cut(f, k + 1, e)))
      BY <3>1, <3>2, <3>3, <3>4, <3>6 DEF SegFits
    <3>8. f[k + 1].first \in DOMAIN s /\ s[f[k + 1].first].kind = "user"
      BY <3>1, <3>2 DEF SegFits
    <3>9. Start(f, a, k + 1) <= Cut(f, k + 1, e) /\ (k + 1 = Len(f) => Start(f, a, k + 1) < e)
      BY <3>1, <3>3, <3>4, <3>5 DEF SegFits
    <3> QED BY <3>7, <3>8, <3>9 DEF SegFits
  <2>5. \A k \in DOMAIN f : SegFits(s, f, <<card>>, a, e, k)
    <3> SUFFICES ASSUME NEW k \in DOMAIN f PROVE SegFits(s, f, <<card>>, a, e, k)
      OBVIOUS
    <3>1. CASE k = 1
      BY <2>3, <3>1
    <3>2. CASE k # 1
      <4>1. PICK j : j = k - 1
        OBVIOUS
      <4>2. j \in DOMAIN g /\ k = j + 1
        BY <1>1, <1>3, <3>2, <4>1
      <4> QED BY <2>4, <4>2
    <3> QED BY <3>1, <3>2
  <2>6. ~(<<card>> = << >>)
    OBVIOUS
  <2> QED BY <1>3, <1>4, <2>5, <2>6 DEF Row, f, t
<1> QED BY <1>7, <1>8

(* No segments are a row of nothing. *)
LEMMA RowNothing ==
    ASSUME NEW s, NEW a PROVE Row(s, << >>, << >>, a, a)
  BY DEF Row

(* The segments of a transcript are a row from its floor to its end. *)
LEMMA ScanFits ==
    ASSUME NEW s, ScriptFits(s)
    PROVE  Row(s, ScanSegments(s, DOMAIN s), HeadOf(s), Floor(s), Len(s) + 1)
<1> DEFINE card == NewestSummary(s)
<1>1. /\ s \in Seq(CardSet) /\ DOMAIN s = 1..Len(s) /\ Len(s) \in Nat
      /\ \A n \in DOMAIN s : s[n].retain \in Nat /\ CardFits(s, n)
  BY ScriptDomain DEF ScriptFits
<1>2. /\ card \in 0..Len(s)
      /\ card # 0 => card \in DOMAIN s /\ s[card].kind = "summary"
  BY <1>1, NewestIs
<1>3. /\ Floor(s) \in Nat /\ 1 <= Floor(s)
      /\ card = 0 => Floor(s) = 1
      /\ card # 0 => Floor(s) <= card /\ Floor(s) \in DOMAIN s
      /\ card # 0 /\ s[card].retain = 0 => Floor(s) = card
      /\ card # 0 /\ s[card].retain # 0 => Floor(s) = s[card].retain /\ s[Floor(s)].kind = "user"
  BY FloorIs
<1>4. CASE card = 0
  <2>1. ScanSegments(s, DOMAIN s) = Apply(s, << >>, DOMAIN s) /\ HeadOf(s) = << >> /\ Floor(s) = 1
    BY <1>3, <1>4 DEF ScanSegments, HeadOf
  <2>2. Row(s, << >>, << >>, 1, 1)
    BY RowNothing
  <2>3. 1 \in 1..Len(s) => s[1].kind = "user"
    BY <1>1 DEF ScriptFits
  <2>4. \A n \in DOMAIN s : n \in DOMAIN s <=> 1 <= n /\ n <= Len(s)
    BY <1>1
  <2>5. 1 <= Len(s) + 1 /\ Len(s) <= Len(s) /\ << >> \in Seq(Nat)
    BY <1>1
  <2> DEFINE D == DOMAIN s
             w == << >>
  <2>6. \A n \in DOMAIN s : n \in D <=> 1 <= n /\ n <= Len(s)
    BY <2>4
  <2> HIDE DEF D
  <2>7. Row(s, Apply(s, << >>, D), << >>, 1, Len(s) + 1)
    <3>1. PICK a \in Nat : a = 1
      OBVIOUS
    <3>2. /\ Row(s, << >>, << >>, a, a) /\ (a \in a..Len(s) => s[a].kind = "user")
          /\ 1 <= a /\ a <= Len(s) + 1 /\ \A n \in DOMAIN s : n \in D <=> a <= n /\ n <= Len(s)
      BY <2>2, <2>3, <2>5, <2>6, <3>1
    <3>3. Row(s, Apply(s, << >>, D), << >>, a, Len(s) + 1)
      BY <1>1, <2>5, <3>2, ApplyFits
    <3> QED BY <3>1, <3>3
  <2> QED BY <2>1, <2>7 DEF D
<1>5. CASE card # 0
  <2> DEFINE a == Floor(s)
             kept == Retained(s, DOMAIN s, card)
             after == {n \in DOMAIN s : n > card}
             g == Apply(s, << >>, kept)
             f == <<Segment(card, TRUE)>> \o g
  <2>1. ScanSegments(s, DOMAIN s) = Apply(s, f, after) /\ HeadOf(s) = <<card>>
    BY <1>5 DEF ScanSegments, HeadOf
  <2>2. card \in DOMAIN s /\ card \in Nat /\ s[card].kind = "summary" /\ a \in Nat /\ a <= card /\ 1 <= a
    BY <1>1, <1>2, <1>3, <1>5
  <2>3. \A n \in DOMAIN s : n \in kept <=> a <= n /\ n <= card - 1
    <3> SUFFICES ASSUME NEW n \in DOMAIN s PROVE n \in kept <=> a <= n /\ n <= card - 1
      OBVIOUS
    <3>1. n \in kept <=> n < card /\ s[card].retain # 0 /\ n >= s[card].retain
      BY DEF Retained
    <3>2. n \in Nat /\ s[card].retain \in Nat
      BY <1>1, <2>2
    <3>3. n < card <=> n <= card - 1
      BY <2>2, <3>2
    <3> HIDE DEF kept
    <3>4. CASE s[card].retain = 0
      <4>1. a = card
        BY <1>3, <1>5, <3>4
      <4>2. ~(a <= n /\ n <= card - 1)
        BY <2>2, <3>2, <4>1
      <4> QED BY <3>1, <3>4, <4>2
    <3>5. CASE s[card].retain # 0
      <4>1. a = s[card].retain
        BY <1>3, <1>5, <3>5
      <4>2. n >= s[card].retain <=> a <= n
        BY <3>2, <4>1
      <4> QED BY <3>1, <3>3, <3>5, <4>2
    <3> QED BY <3>4, <3>5
  <2>4. a \in a..(card - 1) => s[a].kind = "user"
    <3> SUFFICES ASSUME a \in a..(card - 1) PROVE s[a].kind = "user"
      OBVIOUS
    <3>1. a # card
      BY <2>2
    <3> QED BY <1>3, <1>5, <3>1
  <2>5. Row(s, << >>, << >>, a, a)
    BY RowNothing
  <2>6. card - 1 \in Nat /\ a <= (card - 1) + 1 /\ card - 1 <= Len(s) /\ << >> \in Seq(Nat) /\ (card - 1) + 1 = card
    BY <1>1, <2>2
  <2> HIDE DEF a, kept, card
  <2>7. Row(s, g, << >>, a, (card - 1) + 1)
    BY <1>1, <2>2, <2>3, <2>4, <2>5, <2>6, ApplyFits
  <2>8. Row(s, f, <<card>>, a, card + 1)
    <3> HIDE DEF g
    <3>1. Row(s, g, << >>, a, card)
      BY <2>6, <2>7
    <3> QED BY <1>1, <2>2, <3>1, RowHead
  <2>9. \A n \in DOMAIN s : n \in after <=> card + 1 <= n /\ n <= Len(s)
    BY <1>1, <2>2
  <2>10. /\ card + 1 \in Nat /\ 1 <= card + 1 /\ card + 1 <= Len(s) + 1 /\ Len(s) <= Len(s)
         /\ a \notin (card + 1)..Len(s) /\ <<card>> \in Seq(Nat)
    BY <1>1, <2>2
  <2> HIDE DEF f, after
  <2>11. Row(s, Apply(s, f, after), <<card>>, a, Len(s) + 1)
    BY <1>1, <2>2, <2>8, <2>9, <2>10, ApplyFits
  <2> QED BY <2>1, <2>11 DEF a
<1> QED BY <1>4, <1>5

(* What a snapshot shows of the transcript s, from the card a on: everything from the floor,
   unless the snapshot ends sooner and there is no summary. *)
Seen(s, g, a) ==
    /\ a \in Nat /\ Floor(s) <= a /\ a <= Len(s) + 1
    /\ Row(s, g, HeadOf(s), a, Len(s) + 1)
    /\ NewestSummary(s) # 0 \/ Len(s) <= TailPage => a = Floor(s)

(* The whole transcript is seen from its floor on. *)
LEMMA ScanSeen ==
    ASSUME NEW s, ScriptFits(s) PROVE Seen(s, ScanSegments(s, DOMAIN s), Floor(s))
<1>1. s \in Seq(CardSet) /\ DOMAIN s = 1..Len(s) /\ Len(s) \in Nat
  BY ScriptDomain DEF ScriptFits
<1>2. NewestSummary(s) \in 0..Len(s)
  BY <1>1, NewestIs
<1>3. /\ Floor(s) \in Nat /\ 1 <= Floor(s)
      /\ NewestSummary(s) = 0 => Floor(s) = 1
      /\ NewestSummary(s) # 0 => Floor(s) <= NewestSummary(s)
  BY FloorIs
<1>4. Floor(s) <= Len(s) + 1 /\ Floor(s) <= Floor(s)
  BY <1>1, <1>2, <1>3
<1>5. Row(s, ScanSegments(s, DOMAIN s), HeadOf(s), Floor(s), Len(s) + 1)
  BY ScanFits
<1> QED BY <1>3, <1>4, <1>5 DEF Seen

(* Before its first prompt a page makes no segment. *)
LEMMA PromptFirst ==
    ASSUME NEW s \in Seq(CardSet), NEW a \in Nat, NEW D, NEW E,
           \A n \in DOMAIN s : n \in E <=> a <= n,
           \A n \in DOMAIN s : a <= n => n \in D,
           \A n \in DOMAIN s : n \in D /\ n < a => s[n].kind # "user"
    PROVE  Apply(s, << >>, D) = Apply(s, << >>, E)
<1>1. Len(s) \in Nat /\ DOMAIN s = 1..Len(s)
  BY ScriptDomain
<1> DEFINE none == << >>
<1>2. none \in Seq(SegmentSet)
  OBVIOUS
<1> HIDE DEF none
<1>3. PICK at : /\ at[0] = none
                /\ \A n \in 1..Len(s) : at[n] = Applied(s, D, at[n - 1], n)
                /\ at[Len(s)] = Apply(s, none, D)
  BY <1>2, ApplyTable, SMTT(40)
<1>4. PICK bt : /\ bt[0] = none
                /\ \A n \in 1..Len(s) : bt[n] = Applied(s, E, bt[n - 1], n)
                /\ bt[Len(s)] = Apply(s, none, E)
  BY <1>2, ApplyTable, SMTT(40)
<1> DEFINE T == {n \in 0..Len(s) : at[n] = bt[n] /\ (n < a => at[n] = none)}
<1>5. 0 \in T
  BY <1>1, <1>3, <1>4
<1>6. ASSUME NEW n \in 1..Len(s), n - 1 \in T PROVE n \in T
  <2>1. n \in DOMAIN s /\ n \in Nat /\ n \in 0..Len(s) /\ n - 1 < n
    BY <1>1
  <2>2. at[n - 1] = bt[n - 1] /\ (n - 1 < a => at[n - 1] = none)
    BY <1>6
  <2>3. at[n] = Applied(s, D, at[n - 1], n) /\ bt[n] = Applied(s, E, bt[n - 1], n)
    BY <1>3, <1>4
  <2>4. CASE n < a
    <3>1. n \notin E /\ at[n - 1] = none /\ n - 1 < a
      BY <2>1, <2>2, <2>4
    <3>2. bt[n] = none
      BY <2>2, <2>3, <3>1 DEF Applied
    <3>3. at[n] = none
      <4>1. CASE n \in D
        <5>1. s[n].kind # "user"
          BY <2>1, <2>4, <4>1
        <5>2. ApplyEntry(s, none, n) = none
          BY <5>1 DEF ApplyEntry, none
        <5> QED BY <2>3, <3>1, <4>1, <5>2 DEF Applied
      <4>2. CASE n \notin D
        BY <2>3, <3>1, <4>2 DEF Applied
      <4> QED BY <4>1, <4>2
    <3> QED BY <2>1, <3>2, <3>3
  <2>5. CASE ~(n < a)
    <3>1. n \in E /\ n \in D
      BY <2>1, <2>5
    <3>2. at[n] = bt[n]
      BY <2>2, <2>3, <3>1 DEF Applied
    <3> QED BY <2>1, <2>5, <3>2
  <2> QED BY <2>4, <2>5
<1>7. \A n \in 0..Len(s) : n \in T
  <2> HIDE DEF T
  <2> QED BY <1>1, <1>5, <1>6, Climb
<1>8. at[Len(s)] = bt[Len(s)]
  BY <1>1, <1>7
<1> QED BY <1>3, <1>4, <1>8 DEF none

(* The snapshot of a session, which holds the tail page while there is no summary: it is
   seen from its first prompt on. *)
LEMMA WindowSeen ==
    ASSUME NEW s, ScriptFits(s) PROVE \E a : Seen(s, ScanSegments(s, WindowOf(s)), a)
<1> DEFINE card == NewestSummary(s)
<1>1. /\ s \in Seq(CardSet) /\ DOMAIN s = 1..Len(s) /\ Len(s) \in Nat
      /\ \A n \in DOMAIN s : s[n].retain \in Nat /\ CardFits(s, n)
  BY ScriptDomain DEF ScriptFits
<1>2. /\ card \in 0..Len(s)
      /\ card # 0 => card \in DOMAIN s /\ s[card].kind = "summary"
  BY <1>1, NewestIs
<1>3. Seen(s, ScanSegments(s, DOMAIN s), Floor(s))
  BY ScanSeen
<1>4. TailPage \in Nat
  BY HistoryAssumption
<1>5. CASE card = 0 /\ Len(s) <= TailPage
  <2>1. \A n \in DOMAIN s : n + TailPage > Len(s)
    BY <1>1, <1>4, <1>5
  <2>2. WindowOf(s) = DOMAIN s
    BY <1>5, <2>1 DEF WindowOf
  <2> QED BY <1>3, <2>2
<1>6. CASE card # 0
  <2>1. s[card].retain \in Nat /\ s[card].retain < card /\ card \in Nat
    BY <1>1, <1>2, <1>6 DEF CardFits
  <2>2. /\ Floor(s) <= card /\ Floor(s) \in Nat
        /\ s[card].retain # 0 => Floor(s) = s[card].retain
    BY <1>6, FloorIs
  <2>3. WindowOf(s) = {n \in DOMAIN s : n >= Floor(s)}
    BY <1>6 DEF WindowOf
  <2>4. Retained(s, WindowOf(s), card) = Retained(s, DOMAIN s, card)
    BY <2>2, <2>3 DEF Retained
  <2>5. {n \in WindowOf(s) : n > card} = {n \in DOMAIN s : n > card}
    BY <1>1, <2>1, <2>2, <2>3
  <2>6. ScanSegments(s, WindowOf(s)) = ScanSegments(s, DOMAIN s)
    BY <1>6, <2>4, <2>5 DEF ScanSegments
  <2> QED BY <1>3, <2>6
<1>7. CASE card = 0 /\ ~(Len(s) <= TailPage)
  <2> DEFINE D == WindowOf(s)
             T == {n \in 1..Len(s) : n + TailPage > Len(s) /\ s[n].kind = "user"} \cup {Len(s) + 1}
  <2>1. D = {n \in DOMAIN s : n + TailPage > Len(s)} /\ Floor(s) = 1 /\ HeadOf(s) = << >>
    BY <1>7 DEF WindowOf, Floor, HeadOf
  <2>2. ScanSegments(s, D) = Apply(s, << >>, D)
    BY <1>7 DEF ScanSegments
  <2>3. T \in SUBSET Nat /\ T # {}
    BY <1>1
  <2>4. PICK a \in T : \A n \in T : a <= n
    <3> HIDE DEF T
    <3> QED BY <2>3, LeastNumber
  <2>5. a \in Nat /\ 1 <= a /\ a <= Len(s) + 1
    BY <1>1, <2>4
  <2>6. a # Len(s) + 1 => a + TailPage > Len(s) /\ a \in DOMAIN s /\ s[a].kind = "user"
    BY <1>1, <2>4
  <2>7. ASSUME NEW n \in DOMAIN s, n \in D, n < a PROVE s[n].kind # "user"
    <3> SUFFICES ASSUME s[n].kind = "user" PROVE FALSE
      OBVIOUS
    <3>1. n \in T
      BY <1>1, <2>1, <2>7
    <3>2. a <= n /\ n \in Nat
      BY <1>1, <2>4, <3>1
    <3> QED BY <2>5, <2>7, <3>2
  <2>8. ASSUME NEW n \in DOMAIN s, a <= n PROVE n \in D
    <3>1. n \in Nat /\ n <= Len(s)
      BY <1>1
    <3>2. a # Len(s) + 1
      BY <1>1, <2>5, <2>8, <3>1
    <3>3. n + TailPage > Len(s)
      BY <1>1, <1>4, <2>5, <2>6, <2>8, <3>1, <3>2
    <3> QED BY <2>1, <3>3
  <2> DEFINE E == {n \in DOMAIN s : a <= n}
  <2>9. \A n \in DOMAIN s : n \in E <=> a <= n
    OBVIOUS
  <2> HIDE DEF D, T, E
  <2>10. Apply(s, << >>, D) = Apply(s, << >>, E)
    BY <1>1, <2>5, <2>7, <2>8, <2>9, PromptFirst
  <2>11. Row(s, Apply(s, << >>, E), << >>, a, Len(s) + 1)
    <3>1. Row(s, << >>, << >>, a, a) /\ << >> \in Seq(Nat) /\ Len(s) <= Len(s)
      BY <1>1, RowNothing
    <3>2. a \in a..Len(s) => s[a].kind = "user"
      BY <1>1, <2>5, <2>6
    <3>3. \A n \in DOMAIN s : n \in E <=> a <= n /\ n <= Len(s)
      BY <1>1, <2>9
    <3> QED BY <1>1, <2>5, <3>1, <3>2, <3>3, ApplyFits
  <2>12. Seen(s, ScanSegments(s, D), a)
    <3>1. ~(card # 0 \/ Len(s) <= TailPage)
      BY <1>7
    <3>2. Row(s, ScanSegments(s, D), HeadOf(s), a, Len(s) + 1)
      BY <2>1, <2>2, <2>10, <2>11
    <3> QED BY <2>1, <2>5, <3>1, <3>2 DEF Seen
  <2> QED BY <2>12 DEF D
<1> QED BY <1>5, <1>6, <1>7

-----------------------------------------------------------------------------
(* Rows laid flat, and parts of rows *)

(* What Flat computes, segment by segment. *)
LEMMA FlatTable ==
    ASSUME NEW g \in Seq(SegmentSet)
    PROVE  \E at : /\ at[0] = << >>
                   /\ \A i \in 1..Len(g) : at[i] = at[i - 1] \o g[i].cards
                   /\ at[Len(g)] = Flat(g)
<1> DEFINE N == Len(g)
           B == Seq(Nat)
           b == << >>
           st == [i \in 1..N |-> [x \in B |-> x \o g[i].cards]]
           Is(f) == f = [i \in 0..N |-> IF i = 0 THEN << >> ELSE f[i - 1] \o g[i].cards]
           at == CHOOSE f : Is(f)
<1>1. N \in Nat /\ b \in B
  OBVIOUS
<1>2. ASSUME NEW i \in 1..N, NEW x \in B PROVE x \o g[i].cards \in B
  <2>1. g[i] \in SegmentSet
    OBVIOUS
  <2>2. g[i].cards \in B
    BY <2>1 DEF SegmentSet
  <2> QED BY <2>2, ConcatProperties
<1> HIDE DEF b
<1>3. PICK f : Iterates(f, B, b, st, N)
  <2>1. st \in [1..N -> [B -> B]]
    BY <1>2
  <2> HIDE DEF st, N, B
  <2> QED BY <1>1, <2>1, IterationExists
<1>4. f \in [0..N -> B] /\ f[0] = b
  BY <1>3 DEF Iterates
<1>5. ASSUME NEW i \in 1..N PROVE f[i] = f[i - 1] \o g[i].cards
  <2>1. f[i - 1] \in B
    <3>1. i - 1 \in 0..N
      BY <1>1
    <3> HIDE DEF B, N
    <3> QED BY <1>4, <3>1
  <2>2. f[i] = st[i][f[i - 1]]
    BY <1>3 DEF Iterates
  <2> HIDE DEF B
  <2> QED BY <2>1, <2>2
<1> HIDE DEF st
<1>6. Is(f)
  <2>1. \A i \in 0..N : f[i] = IF i = 0 THEN << >> ELSE f[i - 1] \o g[i].cards
    <3> SUFFICES ASSUME NEW i \in 0..N PROVE f[i] = IF i = 0 THEN << >> ELSE f[i - 1] \o g[i].cards
      OBVIOUS
    <3>1. CASE i = 0
      BY <1>4, <3>1 DEF b
    <3>2. CASE i # 0
      <4>1. i \in 1..N
        BY <1>1, <3>2
      <4> QED BY <1>5, <3>2, <4>1
    <3> QED BY <3>1, <3>2
  <2> HIDE DEF N
  <2> QED BY <1>4, <2>1
<1>7. Is(at)
  <2> HIDE DEF Is
  <2> QED BY <1>6
<1>8. \A i \in 0..N : at[i] = IF i = 0 THEN << >> ELSE at[i - 1] \o g[i].cards
  <2> HIDE DEF at, N
  <2> QED BY <1>7
<1>9. Flat(g) = at[N]
  BY DEF Flat
<1> HIDE DEF at, Is
<1>10. at[0] = << >>
  BY <1>1, <1>8
<1>11. \A i \in 1..N : at[i] = at[i - 1] \o g[i].cards
  <2> SUFFICES ASSUME NEW i \in 1..N PROVE at[i] = at[i - 1] \o g[i].cards
    OBVIOUS
  <2>1. i \in 0..N /\ i # 0
    BY <1>1
  <2> QED BY <1>8, <2>1
<1> QED BY <1>9, <1>10, <1>11

(* A row laid flat lists its interval. *)
LEMMA FlatFits ==
    ASSUME NEW s \in Seq(CardSet), NEW h \in Seq(Nat), NEW a \in Nat, NEW e \in Nat, NEW g,
           Row(s, g, h, a, e)
    PROVE  Headed(Flat(g), h, Between(s, a, e))
<1>1. /\ g \in Seq(SegmentSet) /\ DOMAIN g = 1..Len(g) /\ Len(g) \in Nat /\ (g = << >> <=> Len(g) = 0)
      /\ \A k \in DOMAIN g : g[k].cards \in Seq(Nat) /\ g[k].first \in Nat /\ Start(g, a, k) \in Nat
  BY RowDomain
<1>2. PICK at : /\ at[0] = << >>
                /\ \A i \in 1..Len(g) : at[i] = at[i - 1] \o g[i].cards
                /\ at[Len(g)] = Flat(g)
  BY <1>1, FlatTable
<1> DEFINE C(i) == Cut(g, i, e)
           P(i) == /\ C(i) \in Nat /\ a <= C(i)
                   /\ Headed(at[i], h, Between(s, a, C(i)))
           T == {i \in 0..Len(g) : i # 0 => P(i)}
<1>3. 0 \in T
  BY <1>1
<1>4. ASSUME NEW i \in 1..Len(g), i - 1 \in T PROVE i \in T
  <2>1. SegFits(s, g, h, a, e, i) /\ i \in DOMAIN g /\ i \in 0..Len(g)
    BY <1>1, SMTT(40) DEF Row
  <2>2. C(i) \in Nat
    <3>1. CASE i < Len(g)
      <4>1. i + 1 \in DOMAIN g
        BY <1>1, <3>1
      <4> QED BY <1>1, <3>1, <4>1 DEF Cut
    <3>2. CASE ~(i < Len(g))
      BY <3>2 DEF Cut
    <3> QED BY <3>1, <3>2
  <2>3. /\ Headed(g[i].cards, IF i = 1 THEN h ELSE << >>, Between(s, Start(g, a, i), C(i)))
        /\ Start(g, a, i) <= C(i)
    BY <2>1 DEF SegFits
  <2> HIDE DEF C
  <2>4. CASE i = 1
    <3>1. at[1] = << >> \o g[1].cards
      <4>1. at[1] = at[1 - 1] \o g[1].cards
        BY <1>2, <2>4
      <4>2. 1 - 1 = 0
        OBVIOUS
      <4>3. at[1] = at[0] \o g[1].cards
        BY <4>1, <4>2
      <4> QED BY <1>2, <4>3
    <3>2. at[1] = g[1].cards
      BY <1>1, <2>1, <2>4, <3>1, ConcatEmptySeq
    <3>3. Start(g, a, 1) = a
      BY DEF Start
    <3>4. P(1)
      BY <2>2, <2>3, <2>4, <3>2, <3>3
    <3> HIDE DEF P
    <3> QED BY <2>1, <2>4, <3>4
  <2>5. CASE i # 1
    <3>1. i - 1 \in 0..Len(g) /\ i - 1 # 0 /\ i - 1 < Len(g) /\ (i - 1) + 1 = i
      BY <1>1, <2>5
    <3>2. P(i - 1)
      <4> HIDE DEF P
      <4> QED BY <1>4, <3>1
    <3>3. C(i - 1) = g[i].first
      BY <3>1 DEF C, Cut
    <3>4. Start(g, a, i) = g[i].first
      BY <2>5 DEF Start
    <3> DEFINE c == g[i].first
               d == C(i)
    <3>5. /\ c \in Nat /\ a <= c /\ c <= d /\ d \in Nat
          /\ Headed(at[i - 1], h, Between(s, a, c))
          /\ Headed(g[i].cards, << >>, Between(s, c, d))
      BY <2>2, <2>3, <2>5, <3>2, <3>3, <3>4
    <3> HIDE DEF c, d
    <3>6. /\ Between(s, a, c) \cup Between(s, c, d) = Between(s, a, d)
          /\ \A m \in Between(s, a, c), n \in Between(s, c, d) : m < n
      BY <3>5, BetweenJoins
    <3>7. Headed(at[i - 1] \o g[i].cards, h, Between(s, a, c) \cup Between(s, c, d))
      BY <3>5, <3>6, HeadedJoin
    <3>8. at[i] = at[i - 1] \o g[i].cards
      BY <1>2
    <3>9. Headed(at[i], h, Between(s, a, d))
      BY <3>6, <3>7, <3>8
    <3>10. a <= d
      BY <3>5
    <3>11. P(i)
      BY <2>2, <3>9, <3>10 DEF d
    <3> HIDE DEF P
    <3> QED BY <2>1, <3>11
  <2> QED BY <2>4, <2>5
<1>5. \A i \in 0..Len(g) : i \in T
  <2> HIDE DEF T
  <2> QED BY <1>1, <1>3, <1>4, Climb
<1>6. CASE g = << >>
  <2>1. h = << >> /\ a = e /\ Len(g) = 0
    BY <1>1, <1>6 DEF Row
  <2>2. Flat(g) = << >> /\ Between(s, a, e) = {}
    BY <1>2, <2>1, BetweenNothing
  <2> QED BY <2>1, <2>2, ListsNothing, HeadedIsList
<1>7. CASE g # << >>
  <2>1. Len(g) \in T /\ Len(g) # 0
    <3> HIDE DEF T
    <3> QED BY <1>1, <1>5, <1>7
  <2>2. P(Len(g))
    <3> HIDE DEF P
    <3> QED BY <2>1
  <2>3. C(Len(g)) = e
    BY <1>1 DEF Cut
  <2> HIDE DEF C
  <2> QED BY <1>2, <2>2, <2>3
<1> QED BY <1>6, <1>7

(* What is left of a row is a row. *)
LEMMA SuffixFits ==
    ASSUME NEW s \in Seq(CardSet), NEW h \in Seq(Nat), NEW a \in Nat, NEW e \in Nat, NEW g,
           Row(s, g, h, a, e), NEW b \in 1..Len(g)
    PROVE  Row(s, Suffix(g, b), << >>, Cut(g, b, e), e)
<1> DEFINE f == Suffix(g, b)
           c == Cut(g, b, e)
           L == Len(g)
<1>1. /\ g \in Seq(SegmentSet) /\ DOMAIN g = 1..L /\ L \in Nat
      /\ \A k \in DOMAIN g : g[k] \in SegmentSet /\ g[k].first \in Nat
  BY RowDomain
<1>2. b \in Nat /\ 1 <= b /\ b <= L
  BY <1>1
<1>3. /\ f \in Seq(SegmentSet) /\ Len(f) = L - b
      /\ \A k \in 1..(L - b) : f[k] = g[b + k]
  <2>1. \A i \in (b + 1)..L : g[i] \in SegmentSet
    BY <1>1, <1>2
  <2>2. b + 1 \in Int /\ L \in Int
    BY <1>1, <1>2
  <2> DEFINE q == SubSeq(g, b + 1, L)
  <2>3. /\ q \in Seq(SegmentSet) /\ Len(q) = IF b + 1 <= L THEN L - (b + 1) + 1 ELSE 0
        /\ \A i \in 1..(L - (b + 1) + 1) : q[i] = g[b + 1 + i - 1]
    BY <2>1, <2>2, SubSeqProperties
  <2>4. f = q
    BY DEF Suffix
  <2> HIDE DEF f, q
  <2>5. Len(q) = L - b /\ L - (b + 1) + 1 = L - b
    <3>1. L \in Nat /\ Len(q) = IF b + 1 <= L THEN L - (b + 1) + 1 ELSE 0
      BY <1>1, <2>3
    <3> HIDE DEF L
    <3> QED BY <1>2, <3>1
  <2>6. ASSUME NEW k \in 1..(L - b) PROVE q[k] = g[b + k]
    <3>1. b + 1 + k - 1 = b + k /\ k \in 1..(L - (b + 1) + 1)
      BY <1>1, <1>2
    <3>2. q[k] = g[b + 1 + k - 1]
      BY <2>3, <3>1
    <3> QED BY <3>1, <3>2
  <2> QED BY <2>3, <2>4, <2>5, <2>6
<1> HIDE DEF f
<1>4. DOMAIN f = 1..(L - b)
  BY <1>1, <1>2, <1>3
<1>5. CASE b = L
  <2>1. c = e
    BY <1>5, <1>1 DEF Cut
  <2>2. f = << >>
    BY <1>3, <1>1, <1>5
  <2> QED BY <2>1, <2>2, RowNothing DEF f
<1>6. CASE b # L
  <2>1. b < L /\ b + 1 \in DOMAIN g
    <3> HIDE DEF L
    <3> QED BY <1>1, <1>2, <1>6
  <2>2. c = g[b + 1].first /\ c \in Nat
    BY <1>1, <2>1 DEF Cut
  <2>3. ASSUME NEW k \in DOMAIN f PROVE SegFits(s, f, << >>, c, e, k)
    <3>1. PICK j : j = b + k
      OBVIOUS
    <3>2. j \in DOMAIN g /\ j # 1 /\ j > 1 /\ k \in 1..(L - b) /\ k \in Nat /\ j \in Nat
      <4> HIDE DEF L
      <4> QED BY <1>1, <1>2, <1>4, <3>1
    <3>3. f[k] = g[j]
      BY <1>3, <3>1, <3>2
    <3>4. SegFits(s, g, h, a, e, j)
      BY <3>2 DEF Row
    <3>5. Start(f, c, k) = g[j].first /\ Start(g, a, j) = g[j].first
      <4>1. CASE k = 1
        BY <2>2, <3>1, <3>2, <4>1 DEF Start
      <4>2. CASE k # 1
        BY <3>2, <3>3, <4>2 DEF Start
      <4> QED BY <4>1, <4>2
    <3>6. Cut(f, k, e) = Cut(g, j, e)
      <4>1. CASE k < Len(f)
        <5>1. k + 1 \in 1..(L - b) /\ b + (k + 1) = j + 1 /\ j < L
          <6>1. k < L - b /\ L \in Nat
            BY <1>1, <1>3, <4>1
          <6>2. k \in Nat /\ j = b + k /\ b \in Nat
            BY <1>2, <3>1, <3>2
          <6> HIDE DEF L
          <6>3. k + 1 \in 1..(L - b)
            BY <6>1, <6>2
          <6>4. b + (k + 1) = j + 1
            BY <6>2
          <6>5. j < L
            BY <6>1, <6>2
          <6> QED BY <6>3, <6>4, <6>5
        <5>2. f[k + 1] = g[j + 1]
          <6>1. f[k + 1] = g[b + (k + 1)]
            BY <1>3, <5>1
          <6> QED BY <5>1, <6>1
        <5> QED BY <4>1, <5>1, <5>2 DEF Cut
      <4>2. CASE ~(k < Len(f))
        <5>1. ~(j < L)
          <6> HIDE DEF L
          <6> QED BY <1>1, <1>2, <1>3, <3>1, <3>2, <4>2
        <5> QED BY <4>2, <5>1 DEF Cut
      <4> QED BY <4>1, <4>2
    <3>7. k = Len(f) => j = L
      <4> HIDE DEF L
      <4> QED BY <1>1, <1>2, <1>3, <3>1, <3>2
    <3>8. (IF k = 1 THEN << >> ELSE << >>) = << >> /\ (IF j = 1 THEN h ELSE << >>) = << >>
      BY <3>2
    <3>9. Headed(f[k].cards, IF k = 1 THEN << >> ELSE << >>, Between(s, Start(f, c, k), Cut(f, k, e)))
      BY <3>3, <3>4, <3>5, <3>6, <3>8 DEF SegFits
    <3>10. f[k].first \in DOMAIN s /\ s[f[k].first].kind = "user"
      BY <3>2, <3>3, <3>4 DEF SegFits
    <3>11. Start(f, c, k) <= Cut(f, k, e) /\ (k = Len(f) => Start(f, c, k) < e)
      BY <3>4, <3>5, <3>6, <3>7 DEF SegFits
    <3> QED BY <3>9, <3>10, <3>11 DEF SegFits
  <2>4. f # << >> /\ f[1].first = c
    <3>1. 1 \in 1..(L - b)
      <4> HIDE DEF L
      <4> QED BY <1>1, <1>2, <2>1
    <3>2. f[1] = g[b + 1]
      BY <1>3, <3>1
    <3>3. 1 \in DOMAIN f
      BY <1>4, <3>1
    <3> QED BY <2>2, <3>2, <3>3
  <2>5. Row(s, f, << >>, c, e)
    BY <1>3, <2>3, <2>4 DEF Row
  <2> QED BY <2>5 DEF f
<1> QED BY <1>5, <1>6

(* The cards of the first segments. *)
LEMMA PrefixFits ==
    ASSUME NEW s \in Seq(CardSet), NEW h \in Seq(Nat), NEW a \in Nat, NEW e \in Nat, NEW g,
           Row(s, g, h, a, e), NEW b \in 1..Len(g)
    PROVE  /\ CardsOf(SubSeq(g, 1, b)) = Range(h) \cup Between(s, a, Cut(g, b, e))
           /\ Cut(g, b, e) \in Nat /\ a <= Cut(g, b, e)
<1>1. /\ g \in Seq(SegmentSet) /\ DOMAIN g = 1..Len(g) /\ Len(g) \in Nat
      /\ \A k \in DOMAIN g : g[k] \in SegmentSet /\ g[k].first \in Nat /\ Start(g, a, k) \in Nat
  BY RowDomain
<1> DEFINE C(i) == Cut(g, i, e)
           U(i) == UNION {Range(g[j].cards) : j \in 1..i}
           P(i) == C(i) \in Nat /\ a <= C(i) /\ U(i) = Range(h) \cup Between(s, a, C(i))
           T == {i \in 0..Len(g) : i # 0 => P(i)}
<1>2. 0 \in T
  BY <1>1
<1>3. ASSUME NEW i \in 1..Len(g), i - 1 \in T PROVE i \in T
  <2>1. SegFits(s, g, h, a, e, i) /\ i \in DOMAIN g /\ i \in 0..Len(g)
    BY <1>1 DEF Row
  <2>2. C(i) \in Nat
    <3>1. CASE i < Len(g)
      <4>1. i + 1 \in DOMAIN g
        BY <1>1, <3>1
      <4> QED BY <1>1, <3>1, <4>1 DEF Cut
    <3>2. CASE ~(i < Len(g))
      BY <3>2 DEF Cut
    <3> QED BY <3>1, <3>2
  <2>3. /\ Headed(g[i].cards, IF i = 1 THEN h ELSE << >>, Between(s, Start(g, a, i), C(i)))
        /\ Start(g, a, i) <= C(i)
    BY <2>1 DEF SegFits
  <2>4. Range(g[i].cards) = Range(IF i = 1 THEN h ELSE << >>) \cup Between(s, Start(g, a, i), C(i))
    <3>1. (IF i = 1 THEN h ELSE << >>) \in Seq(Nat)
      OBVIOUS
    <3> DEFINE hh == IF i = 1 THEN h ELSE << >>
    <3>2. Headed(g[i].cards, hh, Between(s, Start(g, a, i), C(i))) /\ hh \in Seq(Nat)
      BY <2>3, <3>1
    <3> HIDE DEF hh, C
    <3>3. Range(g[i].cards) = Range(hh) \cup Between(s, Start(g, a, i), C(i))
      BY <3>2, HeadedCards
    <3> QED BY <3>3 DEF hh
  <2>5. U(i) = U(i - 1) \cup Range(g[i].cards)
    <3>1. \A j : j \in 1..i <=> j \in 1..(i - 1) \/ j = i
      BY <1>1
    <3> QED BY <3>1
  <2> HIDE DEF C, U
  <2>6. CASE i = 1
    <3>1. U(1 - 1) = {}
      BY DEF U
    <3>2. Start(g, a, 1) = a
      BY DEF Start
    <3>3. P(1)
      BY <2>2, <2>3, <2>4, <2>5, <2>6, <3>1, <3>2
    <3> HIDE DEF P
    <3> QED BY <2>1, <2>6, <3>3
  <2>7. CASE i # 1
    <3>1. i - 1 \in 0..Len(g) /\ i - 1 # 0 /\ i - 1 < Len(g) /\ (i - 1) + 1 = i
      BY <1>1, <2>7
    <3>2. P(i - 1)
      <4> HIDE DEF P
      <4> QED BY <1>3, <3>1
    <3>3. C(i - 1) = g[i].first
      BY <3>1 DEF C, Cut
    <3>4. Start(g, a, i) = g[i].first
      BY <2>7 DEF Start
    <3> DEFINE c == g[i].first
               d == C(i)
    <3>5. Range(<< >>) = {}
      BY DEF Range
    <3>6. /\ c \in Nat /\ a <= c /\ c <= d /\ d \in Nat
          /\ U(i - 1) = Range(h) \cup Between(s, a, c)
          /\ Range(g[i].cards) = Between(s, c, d)
      BY <2>2, <2>3, <2>4, <2>7, <3>2, <3>3, <3>4, <3>5
    <3> HIDE DEF c, d
    <3>7. Between(s, a, c) \cup Between(s, c, d) = Between(s, a, d)
      <4>1. a <= c /\ c <= d /\ c \in Nat /\ d \in Nat
        BY <3>6
      <4> QED BY <4>1, BetweenJoins
    <3>8. U(i) = Range(h) \cup Between(s, a, d)
      BY <2>5, <3>6, <3>7
    <3>9. a <= d
      BY <3>6
    <3>10. P(i)
      BY <2>2, <3>8, <3>9 DEF d
    <3> HIDE DEF P
    <3> QED BY <2>1, <3>10
  <2> QED BY <2>6, <2>7
<1>4. \A i \in 0..Len(g) : i \in T
  <2> HIDE DEF T
  <2> QED BY <1>1, <1>2, <1>3, Climb
<1>5. P(b)
  <2>1. b \in 0..Len(g) /\ b # 0
    BY <1>1
  <2>2. b \in T
    <3> HIDE DEF T
    <3> QED BY <1>4, <2>1
  <2> HIDE DEF P
  <2> QED BY <2>1, <2>2
<1>6. CardsOf(SubSeq(g, 1, b)) = U(b)
  <2> DEFINE f == SubSeq(g, 1, b)
  <2>1. /\ Len(f) = b /\ f \in Seq(SegmentSet)
        /\ \A i \in 1..b : f[i] = g[i]
    <3>1. \A i \in 1..b : g[i] \in SegmentSet
      BY <1>1
    <3>2. 1 \in Int /\ b \in Int /\ 1 <= b
      BY <1>1
    <3>3. /\ f \in Seq(SegmentSet) /\ Len(f) = IF 1 <= b THEN b - 1 + 1 ELSE 0
          /\ \A i \in 1..(b - 1 + 1) : f[i] = g[1 + i - 1]
      BY <3>1, <3>2, SubSeqProperties
    <3> HIDE DEF f
    <3>4. b - 1 + 1 = b /\ \A i \in 1..b : 1 + i - 1 = i
      BY <3>2
    <3> QED BY <3>2, <3>3, <3>4
  <2> HIDE DEF f
  <2>2. DOMAIN f = 1..b
    BY <2>1
  <2>3. CardsOf(f) = UNION {Range(f[i].cards) : i \in 1..b}
    BY <2>2 DEF CardsOf
  <2>4. {Range(f[i].cards) : i \in 1..b} = {Range(g[i].cards) : i \in 1..b}
    BY <2>1
  <2> QED BY <2>3, <2>4 DEF f
<1> HIDE DEF U, C
<1> QED BY <1>5, <1>6 DEF C

(* What the actions see of the segments of a transcript that fits: the whole, and at each
   boundary b the number from which the suffix keeps the cards verbatim. *)
Place(s, g, b) == Cut(g, b, Len(s) + 1)

(* Laid flat, what is seen of a transcript is the head and then each card of the exchange
   from there on. *)
LEMMA WholeIs ==
    ASSUME NEW s, ScriptFits(s), NEW a, NEW g, Seen(s, g, a)
    PROVE  /\ g \in Seq(SegmentSet) /\ Len(g) \in Nat
           /\ HeadOf(s) \in Seq(Nat)
           /\ Headed(Flat(g), HeadOf(s), Between(s, a, Len(s) + 1))
           /\ Between(s, a, Len(s) + 1) \subseteq CardsOf(g)
           /\ Suffix(g, 0) = g
<1>1. s \in Seq(CardSet) /\ Len(s) \in Nat /\ Len(s) + 1 \in Nat
  BY ScriptDomain DEF ScriptFits
<1>2. a \in Nat
  BY DEF Seen
<1>3. Row(s, g, HeadOf(s), a, Len(s) + 1)
  BY DEF Seen
<1>4. g \in Seq(SegmentSet) /\ Len(g) \in Nat /\ (g = << >> <=> Len(g) = 0)
  <2>1. g \in Seq(SegmentSet)
    BY <1>3 DEF Row
  <2> QED BY <2>1
<1>5. HeadOf(s) \in Seq(Nat)
  <2>1. NewestSummary(s) \in 0..Len(s)
    BY <1>1, NewestIs
  <2> QED BY <1>1, <2>1 DEF HeadOf
<1>6. Headed(Flat(g), HeadOf(s), Between(s, a, Len(s) + 1))
  BY <1>1, <1>2, <1>3, <1>5, FlatFits
<1>7. SubSeq(g, 1, Len(g)) = g
  BY <1>4, SubSeqFull
<1>8. Suffix(g, 0) = g
  BY <1>7 DEF Suffix
<1>9. Between(s, a, Len(s) + 1) \subseteq CardsOf(g)
  <2>1. CASE g = << >>
    <3>1. a = Len(s) + 1
      BY <1>3, <2>1 DEF Row
    <3> QED BY <1>1, <1>2, <3>1, BetweenNothing
  <2>2. CASE g # << >>
    <3> DEFINE L == Len(g)
    <3>1. L \in 1..Len(g)
      BY <1>4, <2>2
    <3>2. Cut(g, L, Len(s) + 1) = Len(s) + 1
      BY <1>4 DEF Cut
    <3> HIDE DEF L
    <3>3. CardsOf(SubSeq(g, 1, L)) = Range(HeadOf(s)) \cup Between(s, a, Cut(g, L, Len(s) + 1))
      BY <1>1, <1>2, <1>3, <1>5, <3>1, PrefixFits
    <3> QED BY <1>7, <3>2, <3>3 DEF L
  <2> QED BY <2>1, <2>2
<1> QED BY <1>4, <1>5, <1>6, <1>8, <1>9

(* A boundary in the projection is a place in the transcript: before it is what the prefix
   holds, from it on what the suffix does, and RetainFrom names it. *)
LEMMA PlaceIs ==
    ASSUME NEW s, ScriptFits(s), NEW a, NEW g, Seen(s, g, a), NEW b \in 1..Len(g),
           NEW c, c = Place(s, g, b)
    PROVE  /\ c \in Nat /\ a <= c /\ c <= Len(s) + 1 /\ 1 <= c
           /\ Lists(Flat(Suffix(g, b)), Between(s, c, Len(s) + 1))
           /\ CardsOf(SubSeq(g, 1, b)) = Range(HeadOf(s)) \cup Between(s, a, c)
           /\ b = Len(g) => c = Len(s) + 1 /\ RetainFrom(g, b) = 0
           /\ b # Len(g) => c \in DOMAIN s /\ s[c].kind = "user" /\ RetainFrom(g, b) = c
<1>1. s \in Seq(CardSet) /\ Len(s) \in Nat /\ Len(s) + 1 \in Nat /\ DOMAIN s = 1..Len(s)
  BY ScriptDomain DEF ScriptFits
<1>2. a \in Nat /\ 1 <= a /\ a <= Len(s) + 1
  <2>1. Floor(s) \in Nat /\ 1 <= Floor(s)
    BY FloorIs
  <2>2. a \in Nat /\ Floor(s) <= a /\ a <= Len(s) + 1
    BY DEF Seen
  <2> QED BY <2>1, <2>2
<1>3. Row(s, g, HeadOf(s), a, Len(s) + 1)
  BY DEF Seen
<1>4. HeadOf(s) \in Seq(Nat) /\ g \in Seq(SegmentSet) /\ Len(g) \in Nat /\ DOMAIN g = 1..Len(g)
  BY WholeIs
<1>5. /\ CardsOf(SubSeq(g, 1, b)) = Range(HeadOf(s)) \cup Between(s, a, c)
      /\ c \in Nat /\ a <= c
  BY <1>1, <1>2, <1>3, <1>4, PrefixFits DEF Place
<1>6. Lists(Flat(Suffix(g, b)), Between(s, c, Len(s) + 1))
  <2>1. Row(s, Suffix(g, b), << >>, c, Len(s) + 1)
    BY <1>1, <1>2, <1>3, <1>4, SuffixFits DEF Place
  <2>2. << >> \in Seq(Nat)
    OBVIOUS
  <2>3. Headed(Flat(Suffix(g, b)), << >>, Between(s, c, Len(s) + 1))
    BY <1>1, <1>5, <2>1, <2>2, FlatFits
  <2> QED BY <2>3, HeadedIsList
<1>7. CASE b = Len(g)
  <2>1. c = Len(s) + 1 /\ RetainFrom(g, b) = 0
    BY <1>4, <1>7 DEF Place, Cut, RetainFrom
  <2> QED BY <1>1, <1>2, <1>5, <1>6, <1>7, <2>1
<1>8. CASE b # Len(g)
  <2>1. b < Len(g) /\ b + 1 \in DOMAIN g /\ b + 1 > 1 /\ b \in Nat
    <3>1. PICK L \in Nat : L = Len(g)
      BY <1>4
    <3>2. b \in 1..L /\ b # L
      BY <1>8, <3>1
    <3>3. b < L /\ b + 1 \in 1..L /\ b + 1 > 1 /\ b \in Nat
      BY <3>2
    <3> QED BY <1>4, <3>1, <3>3, Zenon
  <2>2. c = g[b + 1].first /\ RetainFrom(g, b) = c
    BY <1>8, <2>1 DEF Place, Cut, RetainFrom
  <2>3. SegFits(s, g, HeadOf(s), a, Len(s) + 1, b + 1)
    BY <1>3, <2>1 DEF Row
  <2>4. c \in DOMAIN s /\ s[c].kind = "user"
    BY <2>1, <2>2, <2>3 DEF SegFits
  <2>5. c <= Len(s) + 1 /\ 1 <= c
    BY <1>1, <2>4
  <2> QED BY <1>5, <1>6, <1>8, <2>2, <2>4, <2>5
<1> QED BY <1>7, <1>8

-----------------------------------------------------------------------------
(* A transcript that grows by one card *)

(* The results of tools in a transcript. *)
ToolCards(s) == OfKind(s, {"tool"})

(* The cards of the actions are cards. *)
LEMMA CardTyped ==
    /\ \A kind \in Kinds : Card(kind) \in CardSet
    /\ \A ns \in SUBSET Nat : /\ ElisionCard(ns) \in CardSet
                              /\ ElisionCard(ns).kind = "elision"
                              /\ ElisionCard(ns).retain = 0
                              /\ ElisionCard(ns).stands = ns
<1>1. ASSUME NEW kind \in Kinds PROVE Card(kind) \in CardSet
  BY DEF Card, CardSet
<1>2. ASSUME NEW ns \in SUBSET Nat
      PROVE  /\ ElisionCard(ns) \in CardSet /\ ElisionCard(ns).kind = "elision"
             /\ ElisionCard(ns).retain = 0 /\ ElisionCard(ns).stands = ns
  <2>1. Card("elision") \in CardSet /\ Card("elision").kind = "elision" /\ Card("elision").retain = 0
    BY DEF Card, CardSet, Kinds
  <2> HIDE DEF Card
  <2> QED BY <2>1 DEF ElisionCard, CardSet
<1> QED BY <1>1, <1>2

(* t is s with the card c at n. *)
Grown(s, c, t, n) ==
    /\ t \in Seq(CardSet) /\ Len(t) = n /\ n \in Nat /\ t # << >>
    /\ n \in DOMAIN t /\ n \notin DOMAIN s /\ t[n] = c
    /\ \A m : m \in DOMAIN t <=> m \in DOMAIN s \/ m = n
    /\ \A m \in DOMAIN s : m \in Nat /\ m < n /\ t[m] = s[m]
    /\ \A kinds : OfKind(t, kinds) = OfKind(s, kinds) \cup (IF c.kind \in kinds THEN {n} ELSE {})

(* A card at the end: the others keep their place. *)
LEMMA GrowIs ==
    ASSUME NEW s \in Seq(CardSet), NEW c \in CardSet, NEW t, t = Append(s, c), NEW n, n = Len(s) + 1
    PROVE  Grown(s, c, t, n)
<1>1. Len(s) \in Nat /\ DOMAIN s = 1..Len(s) /\ n \in Nat
  BY ScriptDomain
<1>2. /\ t \in Seq(CardSet) /\ Len(t) = n /\ DOMAIN t = 1..n
      /\ t[n] = c /\ \A m \in 1..Len(s) : t[m] = s[m]
  BY <1>1, AppendProperties
<1>3. n \in DOMAIN t /\ n \notin DOMAIN s /\ t # << >>
  BY <1>1, <1>2
<1>4. \A m : m \in DOMAIN t <=> m \in DOMAIN s \/ m = n
  BY <1>1, <1>2
<1>5. \A m \in DOMAIN s : m \in Nat /\ m < n /\ t[m] = s[m]
  BY <1>1, <1>2
<1>6. \A kinds : OfKind(t, kinds) = OfKind(s, kinds) \cup (IF c.kind \in kinds THEN {n} ELSE {})
  BY <1>2, <1>3, <1>4, <1>5 DEF OfKind
<1> QED BY <1>1, <1>2, <1>3, <1>4, <1>5, <1>6 DEF Grown

(* A summary that was curtailed stays one. *)
LEMMA CurtailedStays ==
    ASSUME NEW s \in Seq(CardSet), NEW c \in CardSet, NEW t, t = Append(s, c),
           NEW m \in OfKind(s, {"summary"}), Curtailed(s, m)
    PROVE  m \in OfKind(t, {"summary"}) /\ Curtailed(t, m)
<1> DEFINE n == Len(s) + 1
<1>1. /\ \A x \in DOMAIN s : x \in Nat /\ x < n /\ t[x] = s[x]
      /\ \A x : x \in DOMAIN t <=> x \in DOMAIN s \/ x = n
      /\ n \in Nat
  BY GrowIs DEF Grown
<1>2. m \in DOMAIN s /\ s[m].kind = "summary"
  BY DEF OfKind
<1> HIDE DEF n
<1>3. m \in OfKind(t, {"summary"})
  BY <1>1, <1>2 DEF OfKind
<1>4. ASSUME NEW x \in OfKind(t, {"summary"}), x \notin OfKind(s, {"summary"}) PROVE m <= x
  <2>1. x = n
    BY <1>1, <1>4 DEF OfKind
  <2> QED BY <1>1, <1>2, <2>1
<1> QED BY <1>1, <1>2, <1>3, <1>4 DEF Curtailed

(* The cards that were there keep fitting. *)
LEMMA GrowKeeps ==
    ASSUME NEW s, ScriptFits(s), NEW c \in CardSet, NEW t, t = Append(s, c), NEW n, n = Len(s) + 1,
           CardFits(t, n), s = << >> => c.kind = "user"
    PROVE  /\ \A m \in DOMAIN t : CardFits(t, m)
           /\ t # << >> => t[1].kind = "user"
<1>1. s \in Seq(CardSet) /\ DOMAIN s = 1..Len(s) /\ Len(s) \in Nat
  BY ScriptDomain DEF ScriptFits
<1>2. /\ \A m : m \in DOMAIN t <=> m \in DOMAIN s \/ m = n
      /\ \A m \in DOMAIN s : m \in Nat /\ m < n /\ t[m] = s[m]
      /\ t[n] = c
  <2>1. Grown(s, c, t, n)
    BY <1>1, GrowIs
  <2> QED BY <2>1 DEF Grown
<1>3. ASSUME NEW m \in DOMAIN s PROVE CardFits(t, m)
  <2>1. CardFits(s, m) /\ t[m] = s[m]
    BY <1>2 DEF ScriptFits
  <2>2. s[m].retain < m /\ \A x \in s[m].stands : x \in DOMAIN t /\ x \in DOMAIN s /\ x < m /\ t[x] = s[x]
    BY <1>2, <2>1 DEF CardFits
  <2>3. s[m].kind \in {"tool", "denied"} => m - 1 \in DOMAIN t /\ t[m - 1].kind = "call"
    <3>1. s[m].kind \in {"tool", "denied"} => m - 1 \in DOMAIN s /\ s[m - 1].kind = "call"
      BY <2>1 DEF CardFits
    <3> QED BY <1>2, <3>1
  <2>4. s[m].kind = "summary" /\ s[m].retain # 0 =>
            s[m].retain \in DOMAIN t /\ t[s[m].retain].kind = "user"
    BY <1>2, <2>1 DEF CardFits
  <2>5. s[m].kind = "elision" => \A x \in s[m].stands : t[x].kind = "tool"
    BY <1>2, <2>1, <2>2 DEF CardFits
  <2> QED BY <2>1, <2>2, <2>3, <2>4, <2>5 DEF CardFits
<1>4. t[1].kind = "user"
  <2>1. CASE s = << >>
    <3>1. n = 1
      BY <1>1, <2>1
    <3> QED BY <1>2, <2>1, <3>1
  <2>2. CASE s # << >>
    <3>1. 1 \in DOMAIN s
      BY <1>1, <2>2
    <3>2. s[1].kind = "user"
      BY <2>2 DEF ScriptFits
    <3> QED BY <1>2, <3>1, <3>2
  <2> QED BY <2>1, <2>2
<1> QED BY <1>2, <1>3, <1>4

(* What a card that is not a summary changes. *)
Ordinary(s, c, t, n) ==
    /\ ScriptFits(t)
    /\ NewestSummary(t) = NewestSummary(s)
    /\ NewestSummary(s) # 0 => t[NewestSummary(s)] = s[NewestSummary(s)]
    /\ Floor(t) = Floor(s)
    /\ c.kind \in ExchangeKinds => \A a \in Nat : a <= n => Between(t, a, n + 1) = Between(s, a, n) \cup {n}
    /\ c.kind \notin ExchangeKinds => \A a \in Nat : a <= n => Between(t, a, n + 1) = Between(s, a, n)

(* Any card but a summary leaves the summary and the beginning of the verbatim part as they
   are. *)
LEMMA GrowOrdinary ==
    ASSUME NEW s, ScriptFits(s), NEW c \in CardSet, c.kind # "summary",
           NEW t, t = Append(s, c), NEW n, n = Len(s) + 1,
           CardFits(t, n), s = << >> => c.kind = "user"
    PROVE  Ordinary(s, c, t, n)
<1>1. s \in Seq(CardSet) /\ DOMAIN s = 1..Len(s) /\ Len(s) \in Nat
  BY ScriptDomain DEF ScriptFits
<1>2. /\ t \in Seq(CardSet) /\ Len(t) = n /\ n \in Nat /\ t[n] = c /\ n \notin DOMAIN s
      /\ \A m : m \in DOMAIN t <=> m \in DOMAIN s \/ m = n
      /\ \A m \in DOMAIN s : m \in Nat /\ m < n /\ t[m] = s[m]
      /\ \A kinds : OfKind(t, kinds) = OfKind(s, kinds) \cup (IF c.kind \in kinds THEN {n} ELSE {})
  <2>1. Grown(s, c, t, n)
    BY <1>1, GrowIs
  <2> QED BY <2>1 DEF Grown
<1> DEFINE card == NewestSummary(s)
<1>3. NewestSummary(t) = card
  <2>1. c.kind \notin {"summary"}
    OBVIOUS
  <2>2. OfKind(t, {"summary"}) = OfKind(s, {"summary"})
    <3>1. PICK kinds : kinds = {"summary"}
      OBVIOUS
    <3>2. OfKind(t, kinds) = OfKind(s, kinds) \cup {}
      BY <1>2, <2>1, <3>1
    <3> QED BY <3>1, <3>2
  <2> QED BY <2>2 DEF NewestSummary
<1>4. /\ card \in 0..Len(s)
      /\ card # 0 => card \in DOMAIN s
  BY <1>1, NewestIs
<1>5. card # 0 => t[card] = s[card]
  BY <1>2, <1>4
<1>6. Floor(t) = Floor(s)
  BY <1>3, <1>5 DEF Floor
<1>7. ASSUME NEW a \in Nat, a <= n
      PROVE  /\ c.kind \in ExchangeKinds => Between(t, a, n + 1) = Between(s, a, n) \cup {n}
             /\ c.kind \notin ExchangeKinds => Between(t, a, n + 1) = Between(s, a, n)
  <2>1. Exchange(t) = Exchange(s) \cup (IF c.kind \in ExchangeKinds THEN {n} ELSE {})
    BY <1>2 DEF Exchange
  <2>2. \A m \in Exchange(s) : m \in Nat /\ m < n /\ m < n + 1
    BY <1>2 DEF Exchange, OfKind
  <2>3. n < n + 1 /\ ~(n < n)
    BY <1>2
  <2> QED BY <1>7, <2>1, <2>2, <2>3 DEF Between
<1>8. StandsFit(t)
  <2>1. CASE \E m \in OfKind(s, {"summary"}) : Curtailed(s, m)
    BY <1>1, <2>1, CurtailedStays DEF StandsFit
  <2>2. CASE \A m \in Exchange(s) : m < Floor(s) => m \in s[card].stands
    <3> SUFFICES ASSUME NEW m \in Exchange(t), m < Floor(s) PROVE m \in t[card].stands
      BY <1>3, <1>6 DEF StandsFit
    <3>1. /\ Floor(s) \in Nat /\ (card = 0 => Floor(s) = 1)
          /\ card # 0 => Floor(s) <= card
      BY FloorIs
    <3>2. m \in DOMAIN t /\ m \in Nat /\ 1 <= m
      BY <1>2, ScriptDomain DEF Exchange, OfKind
    <3>3. card # 0
      BY <3>1, <3>2
    <3>4. m # n
      BY <1>1, <1>4, <3>1, <3>3
    <3>5. m \in Exchange(s)
      BY <1>2, <3>2, <3>4 DEF Exchange, OfKind
    <3> QED BY <1>5, <2>2, <3>3, <3>5
  <2>3. StandsFit(s)
    BY DEF ScriptFits
  <2> QED BY <2>1, <2>2, <2>3 DEF StandsFit
<1>9. ScriptFits(t)
  <2>1. (\A m \in DOMAIN t : CardFits(t, m)) /\ (t # << >> => t[1].kind = "user")
    BY GrowKeeps
  <2> QED BY <1>2, <1>8, <2>1 DEF ScriptFits
<1> QED BY <1>3, <1>5, <1>6, <1>7, <1>9 DEF Ordinary

(* What a new summary changes: it is the newest, and the verbatim part begins where it says. *)
Summarized(s, c, t, n) ==
    /\ ScriptFits(t)
    /\ NewestSummary(t) = n /\ t[n] = c
    /\ c.retain = 0 => Floor(t) = n
    /\ c.retain # 0 => Floor(t) = c.retain
    /\ \A a \in Nat : Between(t, a, n + 1) = Between(s, a, n)

(* A new summary card moves the beginning of the verbatim part to the place it retains, if
   it stands for all before that, or a summary could not be made from all. *)
LEMMA GrowSummary ==
    ASSUME NEW s, ScriptFits(s), s # << >>, NEW c \in CardSet, c.kind = "summary",
           NEW t, t = Append(s, c), NEW n, n = Len(s) + 1, CardFits(t, n),
           \/ \E m \in OfKind(t, {"summary"}) : Curtailed(t, m)
           \/ \A m \in Exchange(s) : m < (IF c.retain = 0 THEN n ELSE c.retain) => m \in c.stands
    PROVE  Summarized(s, c, t, n)
<1>1. s \in Seq(CardSet) /\ DOMAIN s = 1..Len(s) /\ Len(s) \in Nat
  BY ScriptDomain DEF ScriptFits
<1>2. /\ t \in Seq(CardSet) /\ Len(t) = n /\ n \in Nat /\ t[n] = c /\ n \notin DOMAIN s /\ n \in DOMAIN t
      /\ \A m : m \in DOMAIN t <=> m \in DOMAIN s \/ m = n
      /\ \A m \in DOMAIN s : m \in Nat /\ m < n /\ t[m] = s[m]
      /\ \A kinds : OfKind(t, kinds) = OfKind(s, kinds) \cup (IF c.kind \in kinds THEN {n} ELSE {})
  <2>1. Grown(s, c, t, n)
    BY <1>1, GrowIs
  <2> QED BY <2>1 DEF Grown
<1>3. NewestSummary(t) = n
  <2>1. \A m \in DOMAIN t : t[m].kind = "summary" => m <= n
    BY <1>2
  <2> QED BY <1>2, <2>1, NewestOne
<1>4. n # 0 /\ n > 0
  BY <1>1
<1>5. Floor(t) = IF c.retain = 0 THEN n ELSE c.retain
  BY <1>2, <1>3, <1>4 DEF Floor
<1>6. Exchange(t) = Exchange(s)
  <2>1. c.kind \notin ExchangeKinds
    BY DEF ExchangeKinds
  <2> QED BY <1>2, <2>1, ZenonT(60) DEF Exchange
<1>7. \A m \in Exchange(s) : m \in DOMAIN s /\ m \in Nat /\ m < n
  BY <1>2 DEF Exchange, OfKind
<1>8. ASSUME NEW a \in Nat PROVE Between(t, a, n + 1) = Between(s, a, n)
  <2>1. \A m \in Exchange(s) : m < n + 1 /\ m < n
    BY <1>2, <1>7
  <2> QED BY <1>6, <2>1 DEF Between
<1>9. StandsFit(t)
  <2>1. CASE \E m \in OfKind(t, {"summary"}) : Curtailed(t, m)
    BY <2>1 DEF StandsFit
  <2>2. CASE \A m \in Exchange(s) : m < (IF c.retain = 0 THEN n ELSE c.retain) => m \in c.stands
    BY <1>2, <1>3, <1>5, <1>6, <2>2 DEF StandsFit
  <2> QED BY <2>1, <2>2
<1>10. ScriptFits(t)
  <2>1. (\A m \in DOMAIN t : CardFits(t, m)) /\ (t # << >> => t[1].kind = "user")
    BY GrowKeeps
  <2> QED BY <1>2, <1>9, <2>1 DEF ScriptFits
<1> QED BY <1>2, <1>3, <1>5, <1>8, <1>10 DEF Summarized

-----------------------------------------------------------------------------
(* The request in memory *)

(* What a request may hold of the transcript s: its end from a verbatim card on; all that
   is verbatim behind the newest summary; or the summary of everything with the prompt it
   was made for, which it precedes. *)
CardsFit(s, x) ==
    LET card == NewestSummary(s)
        end == Len(s) + 1
    IN \/ \E c \in Nat : Floor(s) <= c /\ c <= end /\ Lists(x, Between(s, c, end))
       \/ card # 0 /\ Headed(x, <<card>>, Between(s, Floor(s), end))
       \/ /\ card # 0
          /\ s[card].retain = 0
          /\ \E p \in DOMAIN s : p < card /\ Headed(x, <<card, p>>, Between(s, card, end))

(* The verbatim results that are skeletons are those that an elision card names. *)
SkeletonsFit(s, k) ==
    /\ k \subseteq ToolCards(s)
    /\ \A n \in ToolCards(s) : n >= Floor(s) => (n \in k <=> n \in Skeletons(s))

(* A request that holds what the transcript says: its cards and its skeletons. *)
RequestFits(s, r) ==
    /\ r = [cards |-> r.cards, skeletons |-> r.skeletons, tail |-> r.tail]
    /\ CardsFit(s, r.cards)
    /\ SkeletonsFit(s, r.skeletons)

(* The numbers that a transcript that fits refers to. *)
LEMMA PlacesAre ==
    ASSUME NEW s, ScriptFits(s), NEW card, card = NewestSummary(s)
    PROVE  /\ s \in Seq(CardSet) /\ DOMAIN s = 1..Len(s) /\ Len(s) \in Nat /\ Len(s) + 1 \in Nat
           /\ card \in Nat /\ card <= Len(s)
           /\ card # 0 => card \in DOMAIN s /\ s[card].kind = "summary" /\ s[card].stands \subseteq Nat
                          /\ \A m \in s[card].stands : m < card
           /\ Floor(s) \in Nat /\ 1 <= Floor(s) /\ Floor(s) <= Len(s) + 1
           /\ card # 0 => Floor(s) <= card
<1>1. s \in Seq(CardSet) /\ DOMAIN s = 1..Len(s) /\ Len(s) \in Nat /\ Len(s) + 1 \in Nat
  BY ScriptDomain DEF ScriptFits
<1>2. /\ card \in 0..Len(s)
      /\ card # 0 => card \in DOMAIN s /\ s[card].kind = "summary"
  BY <1>1, NewestIs
<1>3. card # 0 => s[card].stands \subseteq Nat /\ \A m \in s[card].stands : m < card
  <2> SUFFICES ASSUME card # 0 PROVE s[card].stands \subseteq Nat /\ \A m \in s[card].stands : m < card
    OBVIOUS
  <2>1. CardFits(s, card) /\ s[card].stands \in SUBSET Nat
    BY <1>1, <1>2, ScriptDomain DEF ScriptFits
  <2> QED BY <2>1 DEF CardFits
<1>4. /\ Floor(s) \in Nat /\ 1 <= Floor(s)
      /\ card = 0 => Floor(s) = 1
      /\ card # 0 => Floor(s) <= card
  BY FloorIs
<1>5. Floor(s) <= Len(s) + 1
  BY <1>1, <1>2, <1>4
<1> QED BY <1>1, <1>2, <1>3, <1>4, <1>5

(* A card that is not of the exchange changes no request. *)
LEMMA CardsStay ==
    ASSUME NEW s, ScriptFits(s), NEW x, CardsFit(s, x),
           NEW c \in CardSet, c.kind # "summary", c.kind \notin ExchangeKinds,
           NEW t, t = Append(s, c), NEW n, n = Len(s) + 1, CardFits(t, n), s # << >>
    PROVE  CardsFit(t, x)
<1> DEFINE card == NewestSummary(s)
<1>0. s = << >> => c.kind = "user"
  OBVIOUS
<1>1. /\ NewestSummary(t) = card
      /\ card # 0 => t[card] = s[card]
      /\ Floor(t) = Floor(s)
      /\ \A a \in Nat : a <= n => Between(t, a, n + 1) = Between(s, a, n)
  <2>1. Ordinary(s, c, t, n)
    BY <1>0, GrowOrdinary
  <2> QED BY <2>1 DEF Ordinary
<1>2. /\ card \in Nat /\ n \in Nat /\ Floor(s) \in Nat /\ Floor(s) <= n /\ card <= n
      /\ s \in Seq(CardSet)
  BY PlacesAre
<1>3. Grown(s, c, t, n)
  BY <1>2, GrowIs
<1>4. Len(t) + 1 = n + 1
  BY <1>3 DEF Grown
<1>5. \A a \in Nat : a <= n => Between(t, a, Len(t) + 1) = Between(s, a, Len(s) + 1)
  BY <1>1, <1>4
<1> HIDE DEF card
<1>6. CASE \E a \in Nat : Floor(s) <= a /\ a <= Len(s) + 1 /\ Lists(x, Between(s, a, Len(s) + 1))
  <2>1. PICK a \in Nat : Floor(s) <= a /\ a <= Len(s) + 1 /\ Lists(x, Between(s, a, Len(s) + 1))
    BY <1>6
  <2>2. Floor(t) <= a /\ a <= Len(t) + 1 /\ Lists(x, Between(t, a, Len(t) + 1))
    BY <1>1, <1>2, <1>4, <1>5, <2>1
  <2> QED BY <2>2 DEF CardsFit
<1>7. CASE card # 0 /\ Headed(x, <<card>>, Between(s, Floor(s), Len(s) + 1))
  <2>1. Headed(x, <<card>>, Between(t, Floor(t), Len(t) + 1))
    BY <1>1, <1>2, <1>5, <1>7
  <2> QED BY <1>1, <1>7, <2>1 DEF CardsFit
<1>8. CASE /\ card # 0 /\ s[card].retain = 0
           /\ \E p \in DOMAIN s : p < card /\ Headed(x, <<card, p>>, Between(s, card, Len(s) + 1))
  <2>1. PICK p \in DOMAIN s : p < card /\ Headed(x, <<card, p>>, Between(s, card, Len(s) + 1))
    BY <1>8
  <2>2. Headed(x, <<card, p>>, Between(t, card, Len(t) + 1))
    BY <1>2, <1>5, <2>1
  <2>3. p \in DOMAIN t
    BY <1>3 DEF Grown
  <2> QED BY <1>1, <1>8, <2>1, <2>2, <2>3 DEF CardsFit
<1> QED BY <1>6, <1>7, <1>8 DEF CardsFit, card

(* A card of the exchange at the end of the transcript and of the request. *)
LEMMA CardsGrow ==
    ASSUME NEW s, ScriptFits(s), NEW x, CardsFit(s, x),
           NEW c \in CardSet, c.kind \in ExchangeKinds,
           NEW t, t = Append(s, c), NEW n, n = Len(s) + 1, CardFits(t, n),
           s = << >> => c.kind = "user"
    PROVE  CardsFit(t, Append(x, n))
<1> DEFINE card == NewestSummary(s)
<1>0. c.kind # "summary"
  BY DEF ExchangeKinds
<1>1. /\ NewestSummary(t) = card
      /\ card # 0 => t[card] = s[card]
      /\ Floor(t) = Floor(s)
      /\ \A a \in Nat : a <= n => Between(t, a, n + 1) = Between(s, a, n) \cup {n}
  <2>1. Ordinary(s, c, t, n)
    BY <1>0, GrowOrdinary
  <2> QED BY <2>1 DEF Ordinary
<1>2. /\ card \in Nat /\ n \in Nat /\ Floor(s) \in Nat /\ Floor(s) <= n /\ card <= n
      /\ s \in Seq(CardSet)
  BY PlacesAre
<1>3. Grown(s, c, t, n)
  BY <1>2, GrowIs
<1>4. Len(t) + 1 = n + 1
  BY <1>3 DEF Grown
<1>5. /\ \A a \in Nat : a <= n => Between(t, a, Len(t) + 1) = Between(s, a, Len(s) + 1) \cup {n}
      /\ \A a \in Nat : \A m \in Between(s, a, Len(s) + 1) : m < n
  BY <1>1, <1>4 DEF Between
<1> HIDE DEF card
<1>6. CASE \E a \in Nat : Floor(s) <= a /\ a <= Len(s) + 1 /\ Lists(x, Between(s, a, Len(s) + 1))
  <2>1. PICK a \in Nat : Floor(s) <= a /\ a <= Len(s) + 1 /\ Lists(x, Between(s, a, Len(s) + 1))
    BY <1>6
  <2>2. Lists(Append(x, n), Between(s, a, Len(s) + 1) \cup {n})
    BY <1>2, <1>5, <2>1, ListsMore
  <2>3. a <= n /\ Floor(t) <= a /\ a <= Len(t) + 1
    BY <1>1, <1>2, <1>4, <2>1
  <2>4. Lists(Append(x, n), Between(t, a, Len(t) + 1))
    BY <1>5, <2>2, <2>3
  <2> QED BY <2>3, <2>4 DEF CardsFit
<1>7. CASE card # 0 /\ Headed(x, <<card>>, Between(s, Floor(s), Len(s) + 1))
  <2>1. <<card>> \in Seq(Nat)
    BY <1>2
  <2>2. Headed(Append(x, n), <<card>>, Between(s, Floor(s), Len(s) + 1) \cup {n})
    BY <1>2, <1>5, <1>7, <2>1, HeadedMore
  <2>3. Headed(Append(x, n), <<card>>, Between(t, Floor(t), Len(t) + 1))
    BY <1>1, <1>2, <1>5, <2>2
  <2> QED BY <1>1, <1>7, <2>3 DEF CardsFit
<1>8. CASE /\ card # 0 /\ s[card].retain = 0
           /\ \E p \in DOMAIN s : p < card /\ Headed(x, <<card, p>>, Between(s, card, Len(s) + 1))
  <2>1. PICK p \in DOMAIN s : p < card /\ Headed(x, <<card, p>>, Between(s, card, Len(s) + 1))
    BY <1>8
  <2>2. <<card, p>> \in Seq(Nat) /\ p \in DOMAIN t
    BY <1>2, <1>3, <2>1 DEF Grown
  <2>3. Headed(Append(x, n), <<card, p>>, Between(s, card, Len(s) + 1) \cup {n})
    BY <1>2, <1>5, <2>1, <2>2, HeadedMore
  <2>4. Headed(Append(x, n), <<card, p>>, Between(t, card, Len(t) + 1))
    BY <1>2, <1>5, <2>3
  <2> QED BY <1>1, <1>8, <2>1, <2>2, <2>4 DEF CardsFit
<1> QED BY <1>6, <1>7, <1>8 DEF CardsFit, card

(* Elision cards name tool cards only. *)
LEMMA SkeletonsAre ==
    ASSUME NEW s, ScriptFits(s)
    PROVE  Skeletons(s) \subseteq ToolCards(s) /\ SkeletonsFit(s, Skeletons(s))
<1>1. ASSUME NEW m \in Skeletons(s) PROVE m \in ToolCards(s)
  <2>1. PICK n \in OfKind(s, {"elision"}) : m \in s[n].stands
    BY DEF Skeletons
  <2>2. n \in DOMAIN s /\ s[n].kind = "elision"
    BY DEF OfKind
  <2>3. CardFits(s, n)
    BY <2>2 DEF ScriptFits
  <2>4. m \in DOMAIN s /\ s[m].kind = "tool"
    BY <2>1, <2>2, <2>3 DEF CardFits
  <2> QED BY <2>4 DEF ToolCards, OfKind
<1> QED BY <1>1 DEF SkeletonsFit

(* Only an elision card makes skeletons. *)
LEMMA SkeletonsGrow ==
    ASSUME NEW s \in Seq(CardSet), NEW c \in CardSet, NEW t, t = Append(s, c), NEW n, n = Len(s) + 1
    PROVE  /\ Skeletons(t) = Skeletons(s) \cup (IF c.kind = "elision" THEN c.stands ELSE {})
           /\ ToolCards(t) = ToolCards(s) \cup (IF c.kind = "tool" THEN {n} ELSE {})
<1>1. Grown(s, c, t, n)
  BY GrowIs
<1>2. /\ t[n] = c /\ n \notin DOMAIN s /\ \A m \in DOMAIN s : t[m] = s[m]
      /\ \A kinds : OfKind(t, kinds) = OfKind(s, kinds) \cup (IF c.kind \in kinds THEN {n} ELSE {})
  BY <1>1 DEF Grown
<1>3. ToolCards(t) = ToolCards(s) \cup (IF c.kind = "tool" THEN {n} ELSE {})
  <2>1. PICK kinds : kinds = {"tool"}
    OBVIOUS
  <2>2. OfKind(t, kinds) = OfKind(s, kinds) \cup (IF c.kind \in kinds THEN {n} ELSE {})
    BY <1>2
  <2>3. c.kind \in kinds <=> c.kind = "tool"
    BY <2>1
  <2> QED BY <2>1, <2>2, <2>3 DEF ToolCards
<1> DEFINE E == OfKind(s, {"elision"})
<1>4. OfKind(t, {"elision"}) = E \cup (IF c.kind = "elision" THEN {n} ELSE {})
  <2>1. PICK kinds : kinds = {"elision"}
    OBVIOUS
  <2>2. OfKind(t, kinds) = OfKind(s, kinds) \cup (IF c.kind \in kinds THEN {n} ELSE {})
    BY <1>2
  <2>3. c.kind \in kinds <=> c.kind = "elision"
    BY <2>1
  <2> QED BY <2>1, <2>2, <2>3
<1>5. \A m \in E : m \in DOMAIN s /\ t[m].stands = s[m].stands
  BY <1>2 DEF OfKind
<1>6. \A x : x \in Skeletons(t) <=> \E m \in OfKind(t, {"elision"}) : x \in t[m].stands
  BY DEF Skeletons
<1>7. \A x : x \in Skeletons(s) <=> \E m \in E : x \in s[m].stands
  BY DEF Skeletons
<1> HIDE DEF E
<1>8. CASE c.kind = "elision"
  <2>1. \A x : x \in Skeletons(t) <=> x \in Skeletons(s) \/ x \in c.stands
    BY <1>2, <1>4, <1>5, <1>6, <1>7, <1>8
  <2> QED BY <1>3, <1>8, <2>1
<1>9. CASE c.kind # "elision"
  <2>1. \A x : x \in Skeletons(t) <=> x \in Skeletons(s)
    BY <1>2, <1>4, <1>5, <1>6, <1>7, <1>9
  <2> QED BY <1>3, <1>9, <2>1
<1> QED BY <1>8, <1>9

(* Without a new elision, what is a skeleton stays one. *)
LEMMA SkeletonsStay ==
    ASSUME NEW s, ScriptFits(s), NEW k, SkeletonsFit(s, k),
           NEW c \in CardSet, c.kind # "summary", c.kind # "elision",
           NEW t, t = Append(s, c), NEW n, n = Len(s) + 1, CardFits(t, n),
           s = << >> => c.kind = "user"
    PROVE  SkeletonsFit(t, k)
<1>1. Floor(t) = Floor(s)
  <2>1. Ordinary(s, c, t, n)
    BY GrowOrdinary
  <2> QED BY <2>1 DEF Ordinary
<1>2. s \in Seq(CardSet) /\ Skeletons(s) \subseteq ToolCards(s)
  BY SkeletonsAre DEF ScriptFits
<1>3. /\ Skeletons(t) = Skeletons(s)
      /\ ToolCards(t) = ToolCards(s) \cup (IF c.kind = "tool" THEN {n} ELSE {})
  BY <1>2, SkeletonsGrow, ZenonT(60)
<1>4. n \notin ToolCards(s)
  <2>1. Grown(s, c, t, n)
    BY <1>2, GrowIs
  <2> QED BY <2>1 DEF Grown, ToolCards, OfKind
<1> QED BY <1>1, <1>2, <1>3, <1>4 DEF SkeletonsFit

-----------------------------------------------------------------------------
(* Boundaries, and what a summary of a prefix stands for *)

(* Min picks the least of a set of bounded numbers. *)
LEMMA MinIs ==
    ASSUME NEW N \in Nat, NEW T \in SUBSET (0..N), T # {}
    PROVE  Min(T) \in T /\ \A y \in T : Min(T) <= y
<1>1. T \in SUBSET Nat
  OBVIOUS
<1>2. \E x \in T : \A y \in T : x <= y
  BY <1>1, LeastNumber
<1> QED BY <1>2 DEF Min

(* Whatever the sizes are, a boundary is a place in the row. *)
LEMMA CutsAre ==
    ASSUME NEW s, NEW g \in Seq(SegmentSet), NEW k, NEW prompt
    PROVE  Discarded(s, k, g, prompt) \in 0..Len(g) /\ RetainBoundary(s, k, g) \in 0..Len(g)
<1>1. Len(g) \in Nat /\ Len(g) \in 0..Len(g)
  OBVIOUS
<1>2. Discarded(s, k, g, prompt) \in 0..Len(g)
  <2> DEFINE T == {d \in 0..Len(g) :
                     \/ d = Len(g)
                     \/ HeadSize + SegmentsSize(s, k, Suffix(g, d)) + prompt <= Budget}
  <2>1. T \in SUBSET (0..Len(g)) /\ T # {}
    BY <1>1
  <2>2. Discarded(s, k, g, prompt) = Min(T)
    BY DEF Discarded
  <2> HIDE DEF T
  <2>3. Min(T) \in T
    BY <1>1, <2>1, MinIs
  <2> QED BY <2>1, <2>2, <2>3
<1>3. RetainBoundary(s, k, g) \in 0..Len(g)
  <2> DEFINE fits(b) == \/ b + 1 = Len(g)
                        \/ SegmentsSize(s, k, Suffix(g, b)) <= RetainSize
             T == {b \in 0..Len(g) :
                     \/ b = Len(g)
                     \/ /\ \A i \in DOMAIN g : i > b => ~g[i].summary
                        /\ fits(b)}
  <2>1. T \in SUBSET (0..Len(g)) /\ T # {}
    BY <1>1
  <2>2. RetainBoundary(s, k, g) = Min(T)
    BY DEF RetainBoundary
  <2> HIDE DEF T
  <2>3. Min(T) \in T
    BY <1>1, <2>1, MinIs
  <2> QED BY <2>1, <2>2, <2>3
<1> QED BY <1>2, <1>3

(* The segments behind a boundary hold what a request may hold. *)
LEMMA SuffixCards ==
    ASSUME NEW s, ScriptFits(s), NEW a, NEW g, Seen(s, g, a), NEW b \in 0..Len(g)
    PROVE  CardsFit(s, Flat(Suffix(g, b)))
<1> DEFINE card == NewestSummary(s)
           x == Flat(Suffix(g, b))
<1>1. /\ s \in Seq(CardSet) /\ Len(s) + 1 \in Nat /\ card \in Nat
      /\ Floor(s) \in Nat /\ Floor(s) <= Len(s) + 1
  BY PlacesAre
<1>0. a \in Nat /\ Floor(s) <= a /\ a <= Len(s) + 1 /\ (card # 0 => a = Floor(s))
  BY DEF Seen
<1>2. /\ Headed(Flat(g), HeadOf(s), Between(s, a, Len(s) + 1))
      /\ Suffix(g, 0) = g /\ Len(g) \in Nat
  BY WholeIs
<1>3. CASE b = 0
  <2>1. Headed(x, HeadOf(s), Between(s, a, Len(s) + 1))
    BY <1>2, <1>3
  <2>2. CASE card = 0
    <3>1. HeadOf(s) = << >>
      BY <2>2 DEF HeadOf
    <3>2. Lists(x, Between(s, a, Len(s) + 1))
      BY <2>1, <3>1, HeadedIsList
    <3> QED BY <1>0, <3>2 DEF CardsFit
  <2>3. CASE card # 0
    <3>1. HeadOf(s) = <<card>>
      BY <2>3 DEF HeadOf
    <3>2. Headed(x, <<card>>, Between(s, Floor(s), Len(s) + 1))
      BY <1>0, <2>1, <2>3, <3>1
    <3> QED BY <2>3, <3>2 DEF CardsFit
  <2> QED BY <2>2, <2>3
<1>4. CASE b # 0
  <2>1. b \in 1..Len(g)
    BY <1>2, <1>4
  <2>2. PICK c : c = Place(s, g, b)
    OBVIOUS
  <2>3. /\ c \in Nat /\ a <= c /\ c <= Len(s) + 1
        /\ Lists(x, Between(s, c, Len(s) + 1))
    BY <2>1, <2>2, PlaceIs
  <2>4. Floor(s) <= c
    BY <1>0, <1>1, <2>3
  <2> QED BY <2>3, <2>4 DEF CardsFit
<1> QED BY <1>3, <1>4

(* The results before a boundary are tool cards before the place of the boundary. *)
LEMMA ToolsAre ==
    ASSUME NEW s, ScriptFits(s), NEW a, NEW g, Seen(s, g, a), NEW b \in 1..Len(g)
    PROVE  /\ ToolsBefore(s, g, b) \subseteq ToolCards(s)
           /\ \A n \in ToolsBefore(s, g, b) : n < Place(s, g, b)
<1>1. PICK c : c = Place(s, g, b)
  OBVIOUS
<1>2. CardsOf(SubSeq(g, 1, b)) = Range(HeadOf(s)) \cup Between(s, a, c)
  BY <1>1, PlaceIs
<1>3. \A n \in Range(HeadOf(s)) : s[n].kind = "summary"
  <2> DEFINE card == NewestSummary(s)
  <2>1. card # 0 => s[card].kind = "summary"
    BY PlacesAre
  <2>2. CASE card = 0
    <3>1. HeadOf(s) = << >>
      BY <2>2 DEF HeadOf
    <3> QED BY <3>1 DEF Range
  <2>3. CASE card # 0
    <3>1. HeadOf(s) = <<card>>
      BY <2>3 DEF HeadOf
    <3>2. \A n \in Range(HeadOf(s)) : n = card
      BY <3>1 DEF Range
    <3> QED BY <2>1, <2>3, <3>2
  <2> QED BY <2>2, <2>3
<1>4. ASSUME NEW n \in ToolsBefore(s, g, b) PROVE n \in ToolCards(s) /\ n < c
  <2>1. n \in CardsOf(SubSeq(g, 1, b)) /\ s[n].kind = "tool"
    BY DEF ToolsBefore
  <2>2. n \in Between(s, a, c)
    BY <1>2, <1>3, <2>1
  <2> QED BY <2>1, <2>2 DEF Between, Exchange, OfKind, ToolCards
<1> QED BY <1>1, <1>4

(* What reaches the summarizer is of the prefix, and all of it when the bound allows. *)
LEMMA ReachedIs ==
    ASSUME NEW s, NEW k, NEW prefix
    PROVE  /\ Reached(s, k, prefix) \subseteq CardsOf(prefix)
           /\ SegmentsSize(s, k, prefix) <= SourceSize => Reached(s, k, prefix) = CardsOf(prefix)
<1>1. CASE SegmentsSize(s, k, prefix) <= SourceSize
  BY <1>1 DEF Reached
<1>2. CASE ~(SegmentsSize(s, k, prefix) <= SourceSize)
  <2>1. ASSUME NEW n \in Reached(s, k, prefix) PROVE n \in CardsOf(prefix)
    <3>1. PICK i \in DOMAIN prefix : \E h \in DOMAIN prefix[i].cards : n = prefix[i].cards[h]
      BY <1>2 DEF Reached
    <3>2. n \in Range(prefix[i].cards)
      BY <3>1 DEF Range
    <3> QED BY <3>2 DEF CardsOf
  <2> QED BY <1>2, <2>1
<1> QED BY <1>1, <1>2

(* No summary of s was made from less than it replaces, and the next one cannot be. *)
AllSeen(s) ==
    /\ NewestSummary(s) # 0 \/ Len(s) <= TailPage
    /\ \A n \in OfKind(s, {"summary"}) : ~Curtailed(s, n)

(* A summary of the segments before a boundary stands for cards of the transcript and for the
   prompt that was folded into it; when it is whole, for all that was said before the place
   of the boundary and for that prompt. *)
SummaryFits(s, k, g, b, c) ==
    \A z \in Nat, folded \in SUBSET Nat :
        LET card == SummaryCard(s, k, g, b, z, folded)
        IN /\ card \in CardSet /\ card.kind = "summary" /\ card.retain = RetainFrom(g, b)
           /\ card.stands \subseteq DOMAIN s \cup folded
           /\ card.whole /\ AllSeen(s) =>
                 folded \subseteq card.stands /\ \A n \in Exchange(s) : n < c => n \in card.stands

(* What a summary of the prefix stands for, a summary in the prefix included: all of the
   exchange before the boundary, when it is whole. *)
LEMMA SummaryIs ==
    ASSUME NEW s, ScriptFits(s), NEW a, NEW g, Seen(s, g, a), NEW b \in 1..Len(g),
           NEW c, c = Place(s, g, b), NEW k
    PROVE  SummaryFits(s, k, g, b, c)
<1> DEFINE card == NewestSummary(s)
           segments == SubSeq(g, 1, b)
           prefix == CardsOf(segments)
           reached == Reached(s, k, segments)
           own == IF card = 0 THEN {} ELSE {card}
           old == IF card = 0 THEN {} ELSE s[card].stands
<1>1. /\ s \in Seq(CardSet) /\ DOMAIN s = 1..Len(s) /\ Len(s) \in Nat /\ card \in Nat
      /\ card # 0 => card \in DOMAIN s /\ s[card].kind = "summary" /\ s[card].stands \subseteq Nat
      /\ Floor(s) \in Nat
  BY PlacesAre
<1>2. /\ prefix = Range(HeadOf(s)) \cup Between(s, a, c)
      /\ c \in Nat /\ a <= c
      /\ RetainFrom(g, b) \in Nat
  BY PlaceIs
<1>3. Range(HeadOf(s)) = own
  <2>1. CASE card = 0
    <3>1. HeadOf(s) = << >>
      BY <2>1 DEF HeadOf
    <3> QED BY <2>1, <3>1 DEF Range
  <2>2. CASE card # 0
    <3>1. HeadOf(s) = <<card>>
      BY <2>2 DEF HeadOf
    <3> QED BY <2>2, <3>1 DEF Range
  <2> QED BY <2>1, <2>2
<1>4. \A n \in Between(s, a, c) : n \in DOMAIN s /\ s[n].kind # "summary"
  BY DEF Between, Exchange, OfKind, ExchangeKinds
<1>5. prefix \subseteq DOMAIN s /\ {m \in prefix : s[m].kind = "summary"} = own
  BY <1>1, <1>2, <1>3, <1>4
<1>6. old \subseteq DOMAIN s
  <2> SUFFICES ASSUME card # 0, NEW m \in s[card].stands PROVE m \in DOMAIN s
    OBVIOUS
  <2>1. CardFits(s, card)
    BY <1>1 DEF ScriptFits
  <2> QED BY <2>1 DEF CardFits
<1>7. /\ reached \subseteq prefix
      /\ SegmentsSize(s, k, segments) <= SourceSize => reached = prefix
  BY ReachedIs
<1> DEFINE mine == UNION {s[n].stands : n \in {m \in reached : s[m].kind = "summary"}}
<1>8. mine \subseteq old /\ (reached = prefix => mine = old)
  <2>1. \A n \in {m \in reached : s[m].kind = "summary"} : n = card /\ card # 0
    BY <1>5, <1>7
  <2>2. own = {m \in prefix : s[m].kind = "summary"}
    BY <1>5
  <2> HIDE DEF reached, prefix
  <2>3. mine \subseteq old
    BY <2>1
  <2>4. ASSUME reached = prefix, NEW m \in old PROVE m \in mine
    <3>1. card # 0 /\ m \in s[card].stands /\ card \in own
      BY <2>4
    <3>2. card \in {x \in reached : s[x].kind = "summary"}
      BY <2>2, <2>4, <3>1
    <3> QED BY <3>1, <3>2
  <2> QED BY <2>3, <2>4
<1>9. ASSUME AllSeen(s), reached = prefix, NEW n \in Exchange(s), n < c PROVE n \in reached \cup mine
  <2>1. a = Floor(s)
    BY <1>9 DEF AllSeen, Seen
  <2>2. n \in DOMAIN s /\ n \in Nat /\ n >= 1
    BY <1>1 DEF Exchange, OfKind
  <2>3. CASE n < Floor(s)
    <3>1. card # 0
      <4>1. card = 0 => Floor(s) = 1
        BY FloorIs
      <4> QED BY <2>2, <2>3, <4>1
    <3>2. n \in s[card].stands
      BY <1>9, <2>3 DEF ScriptFits, StandsFit, AllSeen
    <3> HIDE DEF mine, reached
    <3> QED BY <1>8, <1>9, <3>1, <3>2
  <2>4. CASE ~(n < Floor(s))
    <3>1. n \in Between(s, a, c)
      BY <1>1, <1>9, <2>1, <2>2, <2>4 DEF Between
    <3> HIDE DEF mine, reached, prefix
    <3> QED BY <1>2, <1>9, <3>1
  <2> QED BY <2>3, <2>4
<1>10. SUFFICES ASSUME NEW z \in Nat, NEW folded \in SUBSET Nat, NEW y, y = SummaryCard(s, k, g, b, z, folded)
                PROVE  /\ y \in CardSet /\ y.kind = "summary" /\ y.retain = RetainFrom(g, b)
                       /\ y.stands \subseteq DOMAIN s \cup folded
                       /\ y.whole /\ AllSeen(s) =>
                             folded \subseteq y.stands /\ \A n \in Exchange(s) : n < c => n \in y.stands
  BY Zenon DEF SummaryFits
<1> DEFINE w == SourceIsWhole(s, k, segments, folded)
           said == reached \cup mine \cup (IF w THEN folded ELSE {})
<1>11. StandsFor(s, k, segments, folded) = said
  BY Zenon DEF StandsFor
<1>12. w \in BOOLEAN /\ (w => SegmentsSize(s, k, segments) <= SourceSize)
  BY DEF SourceIsWhole
<1>13. said \subseteq DOMAIN s \cup folded
  <2> HIDE DEF w, reached, mine, old, prefix
  <2> QED BY <1>5, <1>6, <1>7, <1>8
<1>14. said \in SUBSET Nat
  <2>1. DOMAIN s \subseteq Nat
    BY <1>1
  <2> HIDE DEF said
  <2> QED BY <1>10, <1>13, <2>1, Zenon
<1>15. y = [kind |-> "summary", retain |-> RetainFrom(g, b), stands |-> said, size |-> z, whole |-> w]
  BY <1>10, <1>11 DEF SummaryCard
<1>16. y.kind = "summary" /\ y.retain = RetainFrom(g, b) /\ y.stands = said /\ y.whole = w
  <2> HIDE DEF said, w
  <2> QED BY <1>15
<1>17. y \in CardSet
  <2> HIDE DEF said, w
  <2> QED BY <1>2, <1>12, <1>14, <1>15 DEF CardSet, Kinds
<1>18. ASSUME w, AllSeen(s) PROVE folded \subseteq said /\ \A n \in Exchange(s) : n < c => n \in said
  <2>1. reached = prefix
    BY <1>7, <1>12, <1>18
  <2> HIDE DEF w, reached, mine, prefix
  <2> QED BY <1>9, <1>18, <2>1
<1> HIDE DEF said, w
<1> QED BY <1>13, <1>16, <1>17, <1>18

-----------------------------------------------------------------------------
(* The outcomes, and what they leave behind *)

(* One outcome of building a request for the prompt n from the segments g of s. *)
Prepared(o, s, g, n) ==
    \/ /\ o.tier = "plain" /\ CardFor(o) = << >> /\ o.skeletons = Skeletons(s)
       /\ \E d \in 0..Len(g) : o.segments = Suffix(g, d)
    \/ /\ o.tier = "failed" /\ failures < MaxFailures
       /\ CardFor(o) = <<Card("audit")>> /\ o.skeletons = Skeletons(s)
       /\ \E d \in 0..Len(g) : o.segments = Suffix(g, d)
    \/ /\ o.tier = "elided"
       /\ \E b \in 1..Len(g) :
            /\ CardFor(o) = <<ElisionCard(ToolsBefore(s, g, b))>>
            /\ o.skeletons = Skeletons(s) \cup ToolsBefore(s, g, b)
            /\ o.segments = g
    \/ /\ o.tier = "summarized"
       /\ \E b \in 1..Len(g), z \in SummarySizes : \E k :
            /\ CardFor(o) = <<SummaryCard(s, k, g, b, z, IF RetainFrom(g, b) = 0 THEN {n} ELSE {})>>
            /\ o.skeletons = Skeletons(s)
            /\ o.segments = Suffix(g, b)

(* The card of an outcome that has one. *)
LEMMA CardOfOne ==
    ASSUME NEW o, NEW c, o.card = {c}, o.tier \in {"elided", "summarized"} PROVE CardFor(o) = <<c>>
<1>1. (CHOOSE x \in o.card : TRUE) = c
  OBVIOUS
<1>2. CardFor(o) = <<CHOOSE x \in o.card : TRUE>>
  BY DEF CardFor
<1> QED BY <1>1, <1>2

(* prepare_history has these outcomes and no other. *)
LEMMA PrepareIs ==
    ASSUME NEW s, NEW g \in Seq(SegmentSet), NEW n, NEW o \in Prepare(s, g, Skeletons(s), n),
           failures \in 0..MaxFailures, MaxFailures \in Nat
    PROVE  Prepared(o, s, g, n)
<1> DEFINE k == Skeletons(s)
           d == Discarded(s, k, g, 1)
           tail == TailKept(s, k, g, 1)
           plain == Plain(k, Suffix(g, d), tail)
           used == HeadSize + SegmentsSize(s, k, Suffix(g, d)) + tail + 1
           boundary == IF d > 0 THEN d ELSE RetainBoundary(s, k, g)
           elided == ElideTier(s, k, g, boundary, d > 0, tail, 1)
           folded == IF RetainFrom(g, boundary) = 0 THEN {n} ELSE {}
           view == SourceView(s, k, g, boundary)
           easy == \/ strategy = "off"
                   \/ failures >= MaxFailures
                   \/ d = 0 /\ (~CompactionDue(used) \/ boundary = 0)
<1>1. d \in 0..Len(g) /\ RetainBoundary(s, k, g) \in 0..Len(g) /\ Len(g) \in Nat
  BY CutsAre
<1>2. boundary \in 0..Len(g) /\ (~easy => boundary \in 1..Len(g) /\ failures < MaxFailures)
  <2> HIDE DEF d, k, tail, used
  <2> QED BY <1>1
<1>3. o \in IF easy THEN {plain}
            ELSE IF elided # {} THEN elided
                 ELSE SummaryTier(s, k, g, boundary, tail, 1, folded, plain)
  BY DEF Prepare
<1> HIDE DEF easy, elided, boundary, d, tail, view
<1>4. CASE easy
  <2>1. o = [tier |-> "plain", segments |-> Suffix(g, d), skeletons |-> k, tail |-> tail, card |-> {}]
    BY <1>3, <1>4 DEF Plain
  <2>2. o.tier = "plain" /\ o.segments = Suffix(g, d) /\ o.skeletons = k /\ CardFor(o) = << >>
    BY <2>1 DEF CardFor
  <2> QED BY <1>1, <2>2 DEF Prepared
<1>5. CASE ~easy /\ elided # {}
  <2>1. o \in elided
    BY <1>3, <1>5
  <2> DEFINE ns == ToolsBefore(s, g, boundary)
             all == k \cup ns
  <2>2. o = [Plain(all, g, tail) EXCEPT !.tier = "elided", !.card = {ElisionCard(ns)}]
    BY <2>1 DEF ElideTier, elided
  <2>3. o = [tier |-> "elided", segments |-> g, skeletons |-> all, tail |-> tail, card |-> {ElisionCard(ns)}]
    BY <2>2 DEF Plain
  <2>4. o.tier = "elided" /\ o.segments = g /\ o.skeletons = all /\ o.card = {ElisionCard(ns)}
    BY <2>3
  <2>5. CardFor(o) = <<ElisionCard(ns)>>
    BY <2>4, CardOfOne
  <2> QED BY <1>2, <1>5, <2>4, <2>5 DEF Prepared
<1>6. CASE ~easy /\ elided = {}
  <2>1. o \in SummaryTier(s, k, g, boundary, tail, 1, folded, plain)
    BY <1>3, <1>6
  <2>2. \/ o = [plain EXCEPT !.tier = "failed"]
        \/ \E z \in SummarySizes :
             o = [Plain(k, Suffix(g, boundary), tail) EXCEPT
                    !.tier = "summarized", !.card = {SummaryCard(s, view, g, boundary, z, folded)}]
    BY <2>1 DEF SummaryTier, view
  <2>3. CASE o = [plain EXCEPT !.tier = "failed"]
    <3>1. o = [tier |-> "failed", segments |-> Suffix(g, d), skeletons |-> k, tail |-> tail, card |-> {}]
      BY <2>3 DEF Plain
    <3>2. o.tier = "failed" /\ o.segments = Suffix(g, d) /\ o.skeletons = k /\ CardFor(o) = <<Card("audit")>>
      BY <3>1 DEF CardFor
    <3> QED BY <1>1, <1>2, <1>6, <3>2 DEF Prepared
  <2>4. CASE \E z \in SummarySizes :
               o = [Plain(k, Suffix(g, boundary), tail) EXCEPT
                      !.tier = "summarized", !.card = {SummaryCard(s, view, g, boundary, z, folded)}]
    <3>1. PICK z \in SummarySizes :
               o = [Plain(k, Suffix(g, boundary), tail) EXCEPT
                      !.tier = "summarized", !.card = {SummaryCard(s, view, g, boundary, z, folded)}]
      BY <2>4
    <3> DEFINE c == SummaryCard(s, view, g, boundary, z, folded)
    <3>2. o = [tier |-> "summarized", segments |-> Suffix(g, boundary), skeletons |-> k, tail |-> tail,
               card |-> {c}]
      BY <3>1 DEF Plain
    <3> HIDE DEF c
    <3>3. o.tier = "summarized" /\ o.segments = Suffix(g, boundary) /\ o.skeletons = k /\ o.card = {c}
      BY <3>2
    <3>4. CardFor(o) = <<c>>
      BY <3>3, CardOfOne
    <3> USE DEF c
    <3> QED BY <1>2, <1>6, <3>3, <3>4 DEF Prepared
  <2> QED BY <2>2, <2>3, <2>4
<1> QED BY <1>3, <1>4, <1>5, <1>6

-----------------------------------------------------------------------------
(* A turn that begins: the prompt, and the card of the outcome *)

(* The cards of a request are a list of places. *)
LEMMA CardsAreSeq == ASSUME NEW s, ScriptFits(s), NEW x, CardsFit(s, x) PROVE x \in Seq(Nat)
<1> DEFINE card == NewestSummary(s)
<1>1. card \in Nat
  BY PlacesAre
<1>2. \A Z : Lists(x, Z) => x \in Seq(Nat)
  BY DEF Lists
<1>3. DOMAIN s \subseteq Nat
  <2>1. DOMAIN s = 1..Len(s) /\ Len(s) \in Nat
    BY PlacesAre
  <2> QED BY <2>1
<1>4. <<card>> \in Seq(Nat) /\ \A p \in DOMAIN s : <<card, p>> \in Seq(Nat)
  BY <1>1, <1>3
<1> HIDE DEF card
<1> QED BY <1>2, <1>4, HeadedIsSeq DEF CardsFit, card

(* Joining one card is appending it, joining none changes nothing. *)
LEMMA OneMore ==
    ASSUME NEW S, NEW u \in Seq(S), NEW e \in S PROVE u \o <<e>> = Append(u, e) /\ u \o << >> = u
<1>1. u \o <<e>> = Append(u, e)
  BY AppendIsConcat
<1>2. u \o << >> = u
  BY ConcatEmptySeq
<1> QED BY <1>1, <1>2

(* A card of a plain kind fits anywhere. *)
LEMMA PlainFits ==
    ASSUME NEW s \in Seq(CardSet), NEW kind \in {"user", "assistant", "call", "check", "audit"},
           NEW c, c = Card(kind), NEW t, t = Append(s, c), NEW n, n = Len(s) + 1
    PROVE  c \in CardSet /\ c.kind = kind /\ CardFits(t, n)
<1>1. c \in CardSet /\ c.kind = kind /\ c.retain = 0 /\ c.stands = {}
  <2>1. kind \in Kinds
    BY DEF Kinds
  <2> QED BY <2>1, CardTyped DEF Card
<1>2. n \in Nat /\ n > 0
  BY ScriptDomain
<1>3. t[n] = c
  <2>1. Grown(s, c, t, n)
    BY <1>1, GrowIs
  <2> QED BY <2>1 DEF Grown
<1> QED BY <1>1, <1>2, <1>3 DEF CardFits

(* The summary before what it keeps. *)
LEMMA SummarizedCards ==
    ASSUME NEW u, ScriptFits(u), NEW c, NEW t, NEW m, m = Len(u) + 1, Len(t) = m,
           Summarized(u, c, t, m), c.retain \in Nat, c.retain # 0,
           NEW x, Lists(x, Between(u, c.retain, m))
    PROVE  CardsFit(t, <<m>> \o x)
<1>1. NewestSummary(t) = m /\ Floor(t) = c.retain /\ Between(t, c.retain, m + 1) = Between(u, c.retain, m)
  BY DEF Summarized
<1>2. m \in Nat /\ m # 0
  BY PlacesAre
<1>3. Headed(<<m>> \o x, <<m>>, Between(t, Floor(t), m + 1))
  BY <1>1 DEF Headed
<1> QED BY <1>1, <1>2, <1>3 DEF CardsFit

(* The summary of everything, with the prompt it was made for. *)
LEMMA SummarizedAll ==
    ASSUME NEW u, ScriptFits(u), NEW c, NEW t, NEW m, m = Len(u) + 1, Len(t) = m,
           Summarized(u, c, t, m), c.retain = 0, NEW p \in DOMAIN t, p \in Nat, p < m
    PROVE  CardsFit(t, <<m, p>>)
<1>1. /\ NewestSummary(t) = m /\ t[m] = c
      /\ \A a \in Nat : Between(t, a, m + 1) = Between(u, a, m)
  BY DEF Summarized
<1>2. m \in Nat /\ m # 0 /\ u \in Seq(CardSet)
  BY PlacesAre
<1>3. Between(t, m, m + 1) = {}
  <2>1. Between(u, m, m) = {}
    BY <1>2, BetweenNothing
  <2> QED BY <1>1, <1>2, <2>1
<1>4. <<m, p>> \in Seq(Nat)
  BY <1>2
<1>5. <<m, p>> = <<m, p>> \o << >>
  BY <1>4, ConcatEmptySeq
<1>6. Headed(<<m, p>>, <<m, p>>, Between(t, m, m + 1))
  BY <1>3, <1>5, ListsNothing DEF Headed
<1> QED BY <1>1, <1>2, <1>6 DEF CardsFit

(* An elision card after the tool cards it names. *)
LEMMA ElisionFits ==
    ASSUME NEW s, ScriptFits(s), NEW ns, ns \subseteq ToolCards(s),
           NEW c, c = ElisionCard(ns), NEW t, t = Append(s, c), NEW n, n = Len(s) + 1
    PROVE  c \in CardSet /\ c.kind = "elision" /\ CardFits(t, n) /\ Skeletons(t) = Skeletons(s) \cup ns
<1>1. s \in Seq(CardSet) /\ DOMAIN s = 1..Len(s) /\ Len(s) \in Nat
  BY PlacesAre
<1>2. \A m \in ns : m \in DOMAIN s /\ s[m].kind = "tool"
  BY DEF ToolCards, OfKind
<1>3. ns \in SUBSET Nat
  BY <1>1, <1>2
<1>4. c \in CardSet /\ c.kind = "elision" /\ c.retain = 0 /\ c.stands = ns
  BY <1>3, CardTyped
<1>5. Grown(s, c, t, n)
  BY <1>1, <1>4, GrowIs
<1>6. t[n] = c /\ n \in Nat /\ \A m \in DOMAIN s : m \in DOMAIN t /\ m < n /\ t[m] = s[m]
  BY <1>5 DEF Grown
<1>7. n > 0
  BY <1>1
<1>8. CardFits(t, n)
  BY <1>2, <1>4, <1>6, <1>7 DEF CardFits
<1>9. Skeletons(t) = Skeletons(s) \cup ns
  <2>1. Skeletons(t) = Skeletons(s) \cup (IF c.kind = "elision" THEN c.stands ELSE {})
    BY <1>1, <1>4, SkeletonsGrow
  <2> QED BY <1>4, <2>1
<1> QED BY <1>4, <1>8, <1>9

(* A transcript and the request of the turn that runs on it. *)
Runs(t, r, top) == ScriptFits(t) /\ t # << >> /\ RequestFits(t, r) /\ Len(t) \in 1..top

(* The prompt behind the segments that the request keeps. *)
LEMMA PromptFits ==
    ASSUME NEW s, ScriptFits(s), NEW a, NEW g, Seen(s, g, a),
           NEW c, c = Card("user"), NEW u, u = Append(s, c), NEW n, n = Len(s) + 1
    PROVE  /\ Grown(s, c, u, n) /\ Ordinary(s, c, u, n) /\ c.kind = "user"
           /\ \A b \in 0..Len(g) : /\ Flat(Suffix(g, b)) \in Seq(Nat)
                                   /\ CardsFit(u, Append(Flat(Suffix(g, b)), n))
           /\ Skeletons(u) = Skeletons(s) /\ ToolCards(u) = ToolCards(s)
           /\ SkeletonsFit(u, Skeletons(u))
<1>1. s \in Seq(CardSet)
  BY PlacesAre
<1>2. c \in CardSet /\ c.kind = "user" /\ CardFits(u, n)
  BY <1>1, PlainFits
<1>3. Grown(s, c, u, n)
  BY <1>1, <1>2, GrowIs
<1>4. c.kind # "summary" /\ c.kind # "elision" /\ c.kind # "tool" /\ c.kind \in ExchangeKinds
  BY <1>2 DEF ExchangeKinds
<1>5. Ordinary(s, c, u, n)
  BY <1>2, <1>4, GrowOrdinary
<1>6. ASSUME NEW b \in 0..Len(g)
      PROVE  Flat(Suffix(g, b)) \in Seq(Nat) /\ CardsFit(u, Append(Flat(Suffix(g, b)), n))
  <2>1. PICK x : x = Flat(Suffix(g, b))
    OBVIOUS
  <2>2. CardsFit(s, x)
    BY <2>1, SuffixCards
  <2>3. x \in Seq(Nat)
    BY <2>2, CardsAreSeq
  <2>4. CardsFit(u, Append(x, n))
    BY <1>2, <1>4, <2>2, CardsGrow
  <2> QED BY <2>1, <2>3, <2>4
<1>7. Skeletons(u) = Skeletons(s) /\ ToolCards(u) = ToolCards(s)
  <2>1. /\ Skeletons(u) = Skeletons(s) \cup (IF c.kind = "elision" THEN c.stands ELSE {})
        /\ ToolCards(u) = ToolCards(s) \cup (IF c.kind = "tool" THEN {n} ELSE {})
    BY <1>1, <1>2, SkeletonsGrow
  <2> QED BY <1>4, <2>1
<1>8. SkeletonsFit(u, Skeletons(u))
  <2>1. ScriptFits(u)
    BY <1>5 DEF Ordinary
  <2> QED BY <2>1, SkeletonsAre
<1> QED BY <1>2, <1>3, <1>5, <1>6, <1>7, <1>8

(* Two cards one after the other. *)
LEMMA TwoAre == ASSUME NEW S, NEW m \in S, NEW n \in S PROVE <<m>> \o <<n>> = <<m, n>>
<1> DEFINE x == <<m>> \o <<n>>
           y == <<m, n>>
<1>1. <<m>> \in Seq(S) /\ <<n>> \in Seq(S) /\ Len(<<m>>) = 1 /\ Len(<<n>>) = 1
  OBVIOUS
<1>2. /\ x \in Seq(S) /\ Len(x) = 2
      /\ \A i \in 1..2 : x[i] = IF i <= 1 THEN <<m>>[i] ELSE <<n>>[i - 1]
  BY <1>1, ConcatProperties
<1>3. y \in Seq(S) /\ Len(y) = 2 /\ y[1] = m /\ y[2] = n
  OBVIOUS
<1>4. x[1] = m /\ x[2] = n
  BY <1>2
<1> HIDE DEF x, y
<1>5. \A i \in 1..Len(x) : x[i] = y[i]
  BY <1>2, <1>3, <1>4
<1> QED BY <1>2, <1>3, <1>5, SeqEqual DEF x, y

(* Joining two cards is appending one after the other. *)
LEMMA TwoMore ==
    ASSUME NEW S, NEW u \in Seq(S), NEW a \in S, NEW b \in S
    PROVE  u \o <<a, b>> = Append(Append(u, a), b)
<1>1. <<a>> \in Seq(S) /\ <<b>> \in Seq(S) /\ Append(u, a) \in Seq(S)
  OBVIOUS
<1>2. u \o <<a, b>> = u \o (<<a>> \o <<b>>)
  BY TwoAre
<1>3. u \o (<<a>> \o <<b>>) = (u \o <<a>>) \o <<b>>
  BY <1>1, ConcatAssociative
<1>4. u \o <<a>> = Append(u, a) /\ Append(u, a) \o <<b>> = Append(Append(u, a), b)
  BY <1>1, OneMore
<1> QED BY <1>2, <1>3, <1>4

(* The summary card comes behind the transcript it was made from or behind the prompt that came
   after, which is folded into a summary that keeps nothing. *)
Extended(s, u, folded, retain) ==
    /\ folded \in SUBSET Nat /\ folded \subseteq DOMAIN u /\ Len(s) <= Len(u)
    /\ retain # 0 => folded = {}
    /\ \A m \in DOMAIN s : m \in DOMAIN u /\ u[m] = s[m]
    /\ \A m \in Exchange(u) : m \in Exchange(s) \/ (m > Len(s) /\ (retain = 0 => m \in folded))
    /\ \A m \in DOMAIN u : u[m].kind = "summary" => m \in DOMAIN s

(* The summary card and what it makes of the transcript. *)
Follows(u, c, t, m, retain) ==
    /\ c \in CardSet /\ c.kind = "summary" /\ c.retain = retain
    /\ Grown(u, c, t, m) /\ Summarized(u, c, t, m)

(* The summary of a prefix of s fits at the end of what has become of s: also when the
   prompt, and no more, came between. *)
LEMMA SummaryCardFits ==
    ASSUME NEW s, ScriptFits(s), NEW a, NEW g, Seen(s, g, a), NEW b \in 1..Len(g),
           NEW k, NEW z \in Nat, NEW folded, NEW u, ScriptFits(u), u # << >>,
           Extended(s, u, folded, RetainFrom(g, b)),
           NEW c, c = SummaryCard(s, k, g, b, z, folded),
           NEW t, t = Append(u, c), NEW m, m = Len(u) + 1
    PROVE  Follows(u, c, t, m, RetainFrom(g, b))
<1>0. /\ folded \in SUBSET Nat /\ folded \subseteq DOMAIN u /\ Len(s) <= Len(u)
      /\ RetainFrom(g, b) # 0 => folded = {}
      /\ \A i \in DOMAIN s : i \in DOMAIN u /\ u[i] = s[i]
      /\ \A i \in Exchange(u) : i \in Exchange(s) \/ (i > Len(s) /\ (RetainFrom(g, b) = 0 => i \in folded))
      /\ \A i \in DOMAIN u : u[i].kind = "summary" => i \in DOMAIN s
  BY DEF Extended
<1>1. /\ s \in Seq(CardSet) /\ DOMAIN s = 1..Len(s) /\ Len(s) \in Nat
      /\ u \in Seq(CardSet) /\ DOMAIN u = 1..Len(u) /\ Len(u) \in Nat
  BY PlacesAre
<1>2. PICK at : at = Place(s, g, b)
  OBVIOUS
<1>3. /\ at \in Nat /\ 1 <= at /\ at <= Len(s) + 1
      /\ b = Len(g) => at = Len(s) + 1 /\ RetainFrom(g, b) = 0
      /\ b # Len(g) => at \in DOMAIN s /\ s[at].kind = "user" /\ RetainFrom(g, b) = at
  BY <1>2, PlaceIs
<1>4. SummaryFits(s, k, g, b, at)
  BY <1>2, SummaryIs
<1>5. /\ c \in CardSet /\ c.kind = "summary" /\ c.retain = RetainFrom(g, b)
      /\ c.stands \subseteq DOMAIN s \cup folded
      /\ c.whole /\ AllSeen(s) =>
            folded \subseteq c.stands /\ \A n \in Exchange(s) : n < at => n \in c.stands
  BY <1>0, <1>4, Zenon DEF SummaryFits
<1>7. Grown(u, c, t, m)
  BY <1>1, <1>5, GrowIs
<1>8. t[m] = c /\ m \in Nat /\ m > 0 /\ \A n \in DOMAIN u : n \in DOMAIN t /\ n < m /\ t[n] = u[n]
  BY <1>1, <1>7 DEF Grown
<1>9. c.retain # 0 => c.retain \in DOMAIN s /\ s[c.retain].kind = "user" /\ c.retain = at
  BY <1>3, <1>5
<1>10. CardFits(t, m)
  <2>1. c.retain < m
    BY <1>0, <1>1, <1>8, <1>9
  <2>2. \A n \in c.stands : n \in DOMAIN t /\ n < m
    BY <1>0, <1>5, <1>8
  <2>3. c.retain # 0 => c.retain \in DOMAIN t /\ t[c.retain].kind = "user"
    BY <1>0, <1>8, <1>9
  <2> QED BY <1>5, <1>8, <2>1, <2>2, <2>3 DEF CardFits
<1> DEFINE T == OfKind(t, {"summary"})
           told == \A n \in Exchange(u) : n < (IF c.retain = 0 THEN m ELSE c.retain) => n \in c.stands
<1>11. T = OfKind(s, {"summary"}) \cup {m}
  <2>1. \A n : n \in DOMAIN t <=> n \in DOMAIN u \/ n = m
    BY <1>7 DEF Grown
  <2>2. \A n : n \in T <=> n \in DOMAIN t /\ t[n].kind = "summary"
    BY DEF OfKind
  <2>3. \A n : n \in OfKind(s, {"summary"}) <=> n \in DOMAIN s /\ s[n].kind = "summary"
    BY DEF OfKind
  <2> HIDE DEF T
  <2> QED BY <1>0, <1>5, <1>8, <2>1, <2>2, <2>3
<1>12. (\E n \in T : Curtailed(t, n)) \/ told
  <2>1. CASE ~c.whole
    BY <1>8, <1>11, <2>1 DEF Curtailed
  <2>2. CASE \E n \in OfKind(s, {"summary"}) : Curtailed(s, n)
    <3>1. PICK n \in OfKind(s, {"summary"}) : Curtailed(s, n)
      BY <2>2
    <3>2. n \in DOMAIN s /\ n \in Nat /\ n < m /\ t[n] = s[n]
      BY <1>0, <1>1, <1>8 DEF OfKind
    <3> HIDE DEF T
    <3>3. Curtailed(t, n)
      BY <1>8, <1>11, <3>1, <3>2 DEF Curtailed, T
    <3> QED BY <1>11, <3>3
  <2>3. CASE NewestSummary(s) = 0 /\ ~(Len(s) <= TailPage)
    <3>1. OfKind(s, {"summary"}) = {}
      <4>1. \A n \in DOMAIN s : s[n].kind # "summary"
        BY <1>1, <2>3, NewestIs
      <4> QED BY <4>1 DEF OfKind
    <3>2. m > TailPage + 1
      <4>1. TailPage \in Nat
        BY HistoryAssumption
      <4> QED BY <1>0, <1>1, <2>3, <4>1
    <3>3. T = {m}
      <4> HIDE DEF T
      <4> QED BY <1>11, <3>1
    <3>4. \A n \in OfKind(t, {"summary"}) : m <= n
      BY <1>8, <3>3
    <3> QED BY <3>2, <3>3, <3>4 DEF Curtailed
  <2>4. CASE c.whole /\ AllSeen(s)
    <3> SUFFICES ASSUME NEW n \in Exchange(u), n < (IF c.retain = 0 THEN m ELSE c.retain)
                 PROVE  n \in c.stands
      OBVIOUS
    <3>1. n \in DOMAIN u /\ n \in Nat
      BY <1>1 DEF Exchange, OfKind
    <3>2. CASE n \in Exchange(s)
      <4>1. n \in DOMAIN s
        BY <3>2 DEF Exchange, OfKind
      <4>2. n < at
        <5>1. CASE c.retain = 0
          BY <1>1, <1>3, <1>5, <4>1, <5>1
        <5>2. CASE c.retain # 0
          BY <1>9, <5>2
        <5> QED BY <5>1, <5>2
      <4> QED BY <1>5, <2>4, <3>2, <4>2
    <3>3. CASE n \notin Exchange(s)
      <4>1. n > Len(s) /\ (RetainFrom(g, b) = 0 => n \in folded)
        BY <1>0, <3>3
      <4>2. c.retain = 0
        <5> SUFFICES ASSUME c.retain # 0 PROVE FALSE
          OBVIOUS
        <5>1. n < c.retain /\ c.retain \in 1..Len(s)
          BY <1>1, <1>9
        <5> QED BY <1>1, <3>1, <4>1, <5>1
      <4> QED BY <1>5, <2>4, <4>1, <4>2
    <3> QED BY <3>2, <3>3
  <2>5. ~AllSeen(s) => \/ NewestSummary(s) = 0 /\ ~(Len(s) <= TailPage)
                       \/ \E n \in OfKind(s, {"summary"}) : Curtailed(s, n)
    BY DEF AllSeen
  <2> HIDE DEF T, told
  <2> QED BY <2>1, <2>2, <2>3, <2>4, <2>5
<1>13. Summarized(u, c, t, m)
  BY <1>5, <1>10, <1>12, GrowSummary
<1> QED BY <1>5, <1>7, <1>13 DEF Follows

(* What the start of a turn leaves behind. *)
LEMMA PrepareFits ==
    ASSUME NEW s, ScriptFits(s), NEW a, NEW g, Seen(s, g, a), NEW n, n = Len(s) + 1,
           NEW o, Prepared(o, s, g, n), SummarySizes \subseteq Nat,
           NEW t, t = s \o <<Card("user")>> \o CardFor(o), NEW r, r = RequestOf(t, o, <<n>>)
    PROVE  Runs(t, r, Len(s) + 2)
<1> DEFINE c == Card("user")
<1>1. PICK u : u = Append(s, c)
  OBVIOUS
<1>2. /\ Grown(s, c, u, n) /\ Ordinary(s, c, u, n) /\ c.kind = "user"
      /\ \A b \in 0..Len(g) : /\ Flat(Suffix(g, b)) \in Seq(Nat)
                              /\ CardsFit(u, Append(Flat(Suffix(g, b)), n))
      /\ Skeletons(u) = Skeletons(s) /\ ToolCards(u) = ToolCards(s)
      /\ SkeletonsFit(u, Skeletons(u))
  BY <1>1, PromptFits
<1>3. /\ s \in Seq(CardSet) /\ Len(s) \in Nat /\ n \in Nat /\ DOMAIN s = 1..Len(s)
      /\ ScriptFits(u) /\ u \in Seq(CardSet) /\ u # << >> /\ Len(u) = n
      /\ c \in CardSet
  <2>1. c \in CardSet
    BY CardTyped DEF Kinds
  <2> QED BY <1>2, <2>1, PlacesAre DEF Grown, Ordinary
<1>4. t = u \o CardFor(o)
  BY <1>1, <1>3, OneMore
<1>5. \A e \in CardSet : u \o <<e>> = Append(u, e) /\ u \o << >> = u
  BY <1>3, OneMore
<1>6. /\ g \in Seq(SegmentSet) /\ Len(g) \in Nat /\ Suffix(g, 0) = g
  BY WholeIs
<1>7. /\ r = [cards |-> r.cards, skeletons |-> r.skeletons, tail |-> r.tail]
      /\ r.cards = (IF o.tier = "summarized" THEN <<Len(t)>> ELSE << >>) \o Flat(o.segments) \o <<n>>
      /\ r.skeletons = o.skeletons
  BY DEF RequestOf
<1> HIDE DEF c
<1>8. ASSUME NEW b \in 0..Len(g), o.tier # "summarized", o.segments = Suffix(g, b)
      PROVE  CardsFit(u, r.cards)
  <2>1. PICK x : x = Flat(Suffix(g, b))
    OBVIOUS
  <2>2. x \in Seq(Nat) /\ CardsFit(u, Append(x, n))
    BY <1>2, <2>1
  <2>3. << >> \o x = x
    BY <2>2, ConcatEmptySeq
  <2>4. x \o <<n>> = Append(x, n)
    BY <1>3, <2>2, OneMore
  <2>5. r.cards = << >> \o x \o <<n>>
    BY <1>7, <1>8, <2>1
  <2> QED BY <2>2, <2>3, <2>4, <2>5
<1>9. CASE o.tier = "plain"
  <2>1. /\ CardFor(o) = << >> /\ o.skeletons = Skeletons(s)
        /\ \E d \in 0..Len(g) : o.segments = Suffix(g, d)
    BY <1>9 DEF Prepared
  <2>2. t = u
    BY <1>3, <1>4, <1>5, <2>1
  <2>3. CardsFit(t, r.cards)
    BY <1>8, <1>9, <2>1, <2>2
  <2>4. SkeletonsFit(t, r.skeletons)
    BY <1>2, <1>7, <2>1, <2>2
  <2>5. Len(t) \in 1..(Len(s) + 2)
    BY <1>3, <2>2
  <2> QED BY <1>3, <1>7, <2>2, <2>3, <2>4, <2>5 DEF Runs, RequestFits
<1>10. CASE o.tier = "failed"
  <2>1. /\ CardFor(o) = <<Card("audit")>> /\ o.skeletons = Skeletons(s)
        /\ \E d \in 0..Len(g) : o.segments = Suffix(g, d)
    BY <1>10 DEF Prepared
  <2>2. PICK e : e = Card("audit")
    OBVIOUS
  <2>3. PICK m : m = Len(u) + 1
    OBVIOUS
  <2>4. e \in CardSet
    BY <2>2, CardTyped DEF Kinds
  <2>5. t = Append(u, e)
    BY <1>4, <1>5, <2>1, <2>2, <2>4
  <2>6. e.kind = "audit" /\ CardFits(t, m)
    BY <1>3, <2>2, <2>3, <2>5, PlainFits, ZenonT(60)
  <2>7. e.kind # "summary" /\ e.kind # "elision" /\ e.kind \notin ExchangeKinds
    BY <2>6 DEF ExchangeKinds
  <2>8. Ordinary(u, e, t, m)
    BY <1>3, <2>3, <2>4, <2>5, <2>6, <2>7, GrowOrdinary
  <2>9. CardsFit(t, r.cards)
    <3>1. CardsFit(u, r.cards)
      BY <1>8, <1>10, <2>1
    <3> QED BY <1>3, <2>3, <2>4, <2>5, <2>6, <2>7, <3>1, CardsStay
  <2>10. SkeletonsFit(t, r.skeletons)
    <3>1. SkeletonsFit(u, r.skeletons)
      BY <1>2, <1>7, <2>1
    <3> QED BY <1>3, <2>3, <2>4, <2>5, <2>6, <2>7, <3>1, SkeletonsStay
  <2>11. Len(t) = n + 1 /\ t # << >>
    <3>1. Grown(u, e, t, m)
      BY <1>3, <2>3, <2>4, <2>5, GrowIs
    <3> QED BY <1>3, <2>3, <3>1 DEF Grown
  <2>12. Len(t) \in 1..(Len(s) + 2)
    BY <1>3, <2>11
  <2> QED BY <1>7, <2>8, <2>9, <2>10, <2>11, <2>12 DEF Runs, RequestFits, Ordinary
<1>11. CASE o.tier = "elided"
  <2>1. PICK b \in 1..Len(g) :
            /\ CardFor(o) = <<ElisionCard(ToolsBefore(s, g, b))>>
            /\ o.skeletons = Skeletons(s) \cup ToolsBefore(s, g, b)
            /\ o.segments = g
    BY <1>11 DEF Prepared
  <2>2. PICK ns : ns = ToolsBefore(s, g, b)
    OBVIOUS
  <2>3. PICK e : e = ElisionCard(ns)
    OBVIOUS
  <2>4. PICK m : m = Len(u) + 1
    OBVIOUS
  <2>5. ns \subseteq ToolCards(u)
    BY <1>2, <2>2, ToolsAre
  <2>6. PICK v : v = Append(u, e)
    OBVIOUS
  <2>7. e \in CardSet /\ e.kind = "elision" /\ CardFits(v, m) /\ Skeletons(v) = Skeletons(u) \cup ns
    BY <1>3, <2>3, <2>4, <2>5, <2>6, ElisionFits
  <2>8. t = v
    BY <1>4, <1>5, <2>1, <2>2, <2>3, <2>6, <2>7
  <2>9. e.kind # "summary" /\ e.kind \notin ExchangeKinds
    BY <2>7 DEF ExchangeKinds
  <2>10. Ordinary(u, e, v, m)
    BY <1>3, <2>4, <2>6, <2>7, <2>9, GrowOrdinary
  <2>11. CardsFit(v, r.cards)
    <3>1. 0 \in 0..Len(g)
      BY <1>6
    <3>2. CardsFit(u, r.cards)
      BY <1>6, <1>8, <1>11, <2>1, <3>1
    <3> QED BY <1>3, <2>4, <2>6, <2>7, <2>9, <3>2, CardsStay
  <2>12. SkeletonsFit(v, r.skeletons)
    <3>1. r.skeletons = Skeletons(v)
      BY <1>2, <1>7, <2>1, <2>2, <2>7
    <3> QED BY <2>10, <3>1, SkeletonsAre DEF Ordinary
  <2>13. Len(v) = n + 1 /\ v # << >>
    <3>1. Grown(u, e, v, m)
      BY <1>3, <2>4, <2>6, <2>7, GrowIs
    <3> QED BY <1>3, <2>4, <3>1 DEF Grown
  <2>14. Len(v) \in 1..(Len(s) + 2)
    BY <1>3, <2>13
  <2> QED BY <1>7, <2>8, <2>10, <2>11, <2>12, <2>13, <2>14 DEF Runs, RequestFits, Ordinary
<1>12. CASE o.tier = "summarized"
  <2>0. PICK b \in 1..Len(g), z \in SummarySizes : \E k :
            /\ CardFor(o) = <<SummaryCard(s, k, g, b, z, IF RetainFrom(g, b) = 0 THEN {n} ELSE {})>>
            /\ o.skeletons = Skeletons(s)
            /\ o.segments = Suffix(g, b)
    BY <1>12 DEF Prepared
  <2>1. PICK k :
            /\ CardFor(o) = <<SummaryCard(s, k, g, b, z, IF RetainFrom(g, b) = 0 THEN {n} ELSE {})>>
            /\ o.skeletons = Skeletons(s)
            /\ o.segments = Suffix(g, b)
    BY <2>0
  <2>2. PICK folded : folded = IF RetainFrom(g, b) = 0 THEN {n} ELSE {}
    OBVIOUS
  <2>3. PICK e : e = SummaryCard(s, k, g, b, z, folded)
    OBVIOUS
  <2>4. PICK m : m = Len(u) + 1
    OBVIOUS
  <2>5. PICK v : v = Append(u, e)
    OBVIOUS
  <2>6. /\ \A i \in DOMAIN s : i \in DOMAIN u /\ u[i] = s[i]
        /\ n \in DOMAIN u /\ u[n] = c
        /\ Exchange(u) = Exchange(s) \cup {n}
        /\ \A i \in DOMAIN u : u[i].kind = "summary" => i \in DOMAIN s
    <3>1. /\ \A i : i \in DOMAIN u <=> i \in DOMAIN s \/ i = n
          /\ \A i \in DOMAIN s : u[i] = s[i]
          /\ u[n] = c
          /\ \A kinds : OfKind(u, kinds) = OfKind(s, kinds) \cup (IF c.kind \in kinds THEN {n} ELSE {})
      BY <1>2 DEF Grown
    <3>2. c.kind \in ExchangeKinds
      BY <1>2 DEF ExchangeKinds
    <3>3. c.kind # "summary"
      BY <1>2
    <3> QED BY <3>1, <3>2, <3>3 DEF Exchange
  <2>7. /\ folded \in SUBSET Nat /\ folded \subseteq DOMAIN u
        /\ RetainFrom(g, b) # 0 => folded = {}
        /\ RetainFrom(g, b) = 0 => n \in folded
    BY <1>3, <2>2, <2>6
  <2>8. \A i \in Exchange(u) : \/ i \in Exchange(s)
                               \/ i > Len(s) /\ (RetainFrom(g, b) = 0 => i \in folded)
    BY <1>3, <2>6, <2>7
  <2>9. z \in Nat
    OBVIOUS
  <2>10. /\ e \in CardSet /\ e.retain = RetainFrom(g, b)
         /\ Grown(u, e, v, m) /\ Summarized(u, e, v, m)
    <3>1. Extended(s, u, folded, RetainFrom(g, b))
      BY <1>3, <2>6, <2>7, <2>8 DEF Extended
    <3>2. ScriptFits(u) /\ u # << >>
      BY <1>3
    <3>3. Follows(u, e, v, m, RetainFrom(g, b))
      BY <2>3, <2>4, <2>5, <2>9, <3>1, <3>2, SummaryCardFits
    <3> QED BY <3>3 DEF Follows
  <2>11. t = v
    BY <1>4, <1>5, <2>1, <2>2, <2>3, <2>5, <2>10
  <2>12. Len(v) = m /\ m = n + 1 /\ v # << >> /\ ScriptFits(v)
    BY <1>3, <2>4, <2>10 DEF Grown, Summarized
  <2>13. SkeletonsFit(v, r.skeletons)
    <3>1. Skeletons(v) = Skeletons(u) \cup (IF e.kind = "elision" THEN e.stands ELSE {})
      BY <1>3, <2>4, <2>5, <2>10, SkeletonsGrow
    <3>2. e.kind # "elision"
      BY <2>3 DEF SummaryCard
    <3>3. r.skeletons = Skeletons(v)
      BY <1>2, <1>7, <2>1, <3>1, <3>2
    <3> QED BY <2>12, <3>3, SkeletonsAre
  <2>14. PICK x : x = Flat(Suffix(g, b))
    OBVIOUS
  <2>15. PICK at : at = Place(s, g, b)
    OBVIOUS
  <2>16. /\ at \in Nat /\ at <= Len(s) + 1 /\ 1 <= at
         /\ Lists(x, Between(s, at, Len(s) + 1))
         /\ b = Len(g) => at = Len(s) + 1 /\ RetainFrom(g, b) = 0
         /\ b # Len(g) => RetainFrom(g, b) = at
    BY <2>14, <2>15, PlaceIs
  <2>17. x \in Seq(Nat)
    BY <2>16 DEF Lists
  <2>18. r.cards = <<m>> \o x \o <<n>>
    BY <1>7, <1>12, <2>1, <2>11, <2>12, <2>14
  <2>19. CASE RetainFrom(g, b) # 0
    <3>1. e.retain = at /\ e.retain # 0 /\ e.retain \in Nat
      BY <2>10, <2>16, <2>19
    <3>2. \A i \in Between(s, at, Len(s) + 1) : i < n
      BY DEF Between
    <3>3. Lists(Append(x, n), Between(s, at, Len(s) + 1) \cup {n})
      BY <1>3, <2>16, <3>2, ListsMore
    <3>4. Between(u, at, n + 1) = Between(s, at, n) \cup {n}
      <4>1. c.kind \in ExchangeKinds
        BY <1>2 DEF ExchangeKinds
      <4>2. at <= n
        BY <2>16
      <4> QED BY <1>2, <2>16, <4>1, <4>2 DEF Ordinary
    <3>5. Lists(Append(x, n), Between(u, e.retain, m))
      BY <2>12, <3>1, <3>3, <3>4
    <3>6. CardsFit(v, <<m>> \o Append(x, n))
      BY <1>3, <2>4, <2>10, <2>12, <3>1, <3>5, SummarizedCards
    <3>7. <<m>> \o x \o <<n>> = <<m>> \o Append(x, n)
      <4>1. m \in Nat /\ <<m>> \in Seq(Nat) /\ <<n>> \in Seq(Nat)
        BY <1>3, <2>12
      <4>2. (<<m>> \o x) \o <<n>> = <<m>> \o (x \o <<n>>)
        BY <2>17, <4>1, ConcatAssociative
      <4>3. x \o <<n>> = Append(x, n)
        BY <1>3, <2>17, OneMore
      <4> QED BY <4>2, <4>3
    <3>8. CardsFit(v, r.cards)
      BY <2>18, <3>6, <3>7
    <3>9. Len(v) \in 1..(Len(s) + 2)
      BY <1>3, <2>12
    <3> QED BY <1>7, <2>11, <2>12, <2>13, <3>8, <3>9 DEF Runs, RequestFits
  <2>20. CASE RetainFrom(g, b) = 0
    <3>1. at = n
      BY <2>16, <2>20
    <3>2. Between(s, n, n) = {}
      BY <1>3, BetweenNothing
    <3>3. x = << >>
      <4>1. Lists(x, {})
        BY <2>16, <3>1, <3>2
      <4> QED BY <4>1, ListsNothing, ListsOnce
    <3>4. r.cards = <<m, n>>
      <4>1. m \in Nat /\ <<m>> \in Seq(Nat)
        BY <1>3, <2>12
      <4>2. <<m>> \o << >> = <<m>>
        BY <4>1, ConcatEmptySeq
      <4>3. <<m>> \o <<n>> = <<m, n>>
        <5>1. m \in Nat /\ n \in Nat
          BY <1>3, <2>12
        <5> QED BY <5>1, TwoAre
      <4> QED BY <2>18, <3>3, <4>2, <4>3
    <3>5. CardsFit(v, <<m, n>>)
      <4>1. e.retain = 0 /\ n \in DOMAIN v /\ n \in Nat /\ n < m
        BY <1>3, <2>6, <2>10, <2>12, <2>20 DEF Grown
      <4> QED BY <1>3, <2>4, <2>10, <2>12, <4>1, SummarizedAll
    <3>6. Len(v) \in 1..(Len(s) + 2)
      BY <1>3, <2>12
    <3> QED BY <1>7, <2>11, <2>12, <2>13, <3>4, <3>5, <3>6 DEF Runs, RequestFits
  <2> QED BY <2>19, <2>20
<1>13. o.tier \in {"plain", "failed", "elided", "summarized"}
  BY DEF Prepared
<1> QED BY <1>9, <1>10, <1>11, <1>12, <1>13

-----------------------------------------------------------------------------
(* Compaction between two requests *)

(* One outcome of compacting the segments g of the transcript s, whose request is r. *)
MidTurned(o, s, g, r) ==
    \/ o.tier = "plain" /\ o.card = << >> /\ o.request = r
    \/ o.tier = "failed" /\ failures < MaxFailures /\ o.card = <<Card("audit")>> /\ o.request = r
    \/ /\ o.tier = "elided"
       /\ \E b \in 1..Len(g) :
            /\ o.card = <<ElisionCard(ToolsBefore(s, g, b))>>
            /\ o.request = [cards |-> Flat(g), skeletons |-> Skeletons(s) \cup ToolsBefore(s, g, b),
                            tail |-> o.request.tail]
    \/ /\ o.tier = "summarized"
       /\ \E b \in 1..Len(g), z \in SummarySizes : \E k :
            /\ RetainFrom(g, b) # 0
            /\ o.card = <<SummaryCard(s, k, g, b, z, {})>>
            /\ o.request = [cards |-> <<Len(s) + 1>> \o Flat(Suffix(g, b)),
                            skeletons |-> o.request.skeletons, tail |-> o.request.tail]
            /\ \/ o.request.skeletons = Skeletons(s)
               \/ o.request.skeletons = Skeletons(s) \cup ToolsBefore(s, g, b)

(* maybe_compact_mid_turn has these outcomes and no other. *)
LEMMA MidTurnIs ==
    ASSUME NEW s, NEW g, g = ScanSegments(s, WindowOf(s)), g \in Seq(SegmentSet),
           NEW r, NEW forced \in BOOLEAN, NEW o \in MidTurn(s, r, forced),
           failures \in 0..MaxFailures, MaxFailures \in Nat
    PROVE  MidTurned(o, s, g, r)
<1> DEFINE k == Skeletons(s)
           size(q) == HeadSize + SizeOf(s, q.skeletons, Range(q.cards)) + q.tail
           d == Discarded(s, k, g, 0)
           tail == IF r.tail = 0 THEN 0 ELSE TailKept(s, k, g, 0)
           used == SegmentsSize(s, k, Suffix(g, d)) + tail
           boundary == IF d > 0 THEN d ELSE RetainBoundary(s, k, g)
           view == SourceView(s, k, g, boundary)
           same == [tier |-> "plain", request |-> r, card |-> << >>]
           all == k \cup ToolsBefore(s, g, boundary)
           elided == [cards |-> Flat(g), skeletons |-> all, tail |-> tail]
           cured == \/ forced
                    \/ d > 0 /\ Discarded(s, all, g, 0) = 0
                    \/ d = 0 /\ ~CompactionDue(size(elided))
           summarized(z) ==
               [tier |-> "summarized", card |-> <<SummaryCard(s, view, g, boundary, z, {})>>,
                total |-> HeadSize + z + SegmentsSize(s, all, Suffix(g, boundary)) + tail,
                request |-> [cards |-> <<Len(s) + 1>> \o Flat(Suffix(g, boundary)),
                             skeletons |-> IF strategy = "elide" THEN all ELSE k,
                             tail |-> tail]]
           good(total) == total <= Budget /\ (forced => total < size(r))
           easy == \/ strategy = "off"
                   \/ ~forced /\ failures >= MaxFailures
                   \/ g = << >>
                   \/ ~forced /\ d = 0 /\ ~CompactionDue(used)
                   \/ d = 0 /\ boundary = 0
           elides == strategy = "elide" /\ ToolsBefore(s, g, boundary) # {} /\ cured /\ good(size(elided))
           stuck == RetainFrom(g, boundary) = 0 \/ (forced /\ failures >= MaxFailures)
           sums == {q \in {summarized(z) : z \in SummarySizes} : good(q.total)}
           failed == [tier |-> "failed", request |-> r, card |-> <<Card("audit")>>]
           elision == [tier |-> "elided", request |-> elided,
                       card |-> <<ElisionCard(ToolsBefore(s, g, boundary))>>]
<1>1. d \in 0..Len(g) /\ RetainBoundary(s, k, g) \in 0..Len(g) /\ Len(g) \in Nat
  BY CutsAre
<1>2. ~easy => boundary \in 1..Len(g) /\ (forced \/ failures < MaxFailures)
  <2> HIDE DEF d, k, tail, used
  <2> QED BY <1>1
<1>3. o \in IF easy THEN {same}
            ELSE IF elides THEN {elision}
            ELSE IF stuck THEN {same}
            ELSE sums \cup {IF forced THEN same ELSE failed}
  BY ZenonT(60) DEF MidTurn
<1> HIDE DEF easy, elides, stuck, boundary, d, tail, good, cured, view
<1>4. CASE o = same
  <2>1. o.tier = "plain" /\ o.card = << >> /\ o.request = r
    BY <1>4
  <2> QED BY <2>1 DEF MidTurned
<1>5. CASE ~easy /\ o = elision
  <2> HIDE DEF all
  <2>1. /\ o.tier = "elided" /\ o.card = <<ElisionCard(ToolsBefore(s, g, boundary))>>
        /\ o.request = [cards |-> Flat(g), skeletons |-> all, tail |-> tail]
    BY <1>5
  <2>2. o.request.tail = tail
    BY <2>1
  <2> USE DEF all
  <2> QED BY <1>2, <1>5, <2>1, <2>2 DEF MidTurned
<1>6. CASE ~easy /\ ~forced /\ o = failed
  <2>1. o.tier = "failed" /\ o.card = <<Card("audit")>> /\ o.request = r
    BY <1>6
  <2> QED BY <1>2, <1>6, <2>1 DEF MidTurned
<1>7. CASE ~easy /\ ~stuck /\ o \in sums
  <2>1. PICK z \in SummarySizes : o = summarized(z)
    BY <1>7
  <2> DEFINE ks == IF strategy = "elide" THEN all ELSE k
  <2>2. /\ o.tier = "summarized" /\ o.card = <<SummaryCard(s, view, g, boundary, z, {})>>
        /\ o.request = [cards |-> <<Len(s) + 1>> \o Flat(Suffix(g, boundary)),
                        skeletons |-> ks, tail |-> tail]
    <3> HIDE DEF all
    <3> QED BY <2>1
  <2>3. ks = k \/ ks = all
    OBVIOUS
  <2> HIDE DEF ks
  <2>4. o.request.skeletons = ks /\ o.request.tail = tail
    BY <2>2
  <2>5. RetainFrom(g, boundary) # 0
    BY <1>7 DEF stuck
  <2> QED BY <1>2, <1>7, <2>2, <2>3, <2>4, <2>5 DEF MidTurned
<1>8. \/ o = same
      \/ ~easy /\ o = elision
      \/ ~easy /\ ~forced /\ o = failed
      \/ ~easy /\ ~stuck /\ o \in sums
  <2> HIDE DEF same, elision, failed, sums
  <2> QED BY <1>3
<1> QED BY <1>4, <1>5, <1>6, <1>7, <1>8

(* What compaction leaves behind. *)
LEMMA MidTurnFits ==
    ASSUME NEW s, ScriptFits(s), s # << >>, NEW a, NEW g, Seen(s, g, a),
           NEW r, RequestFits(s, r), NEW o, MidTurned(o, s, g, r), SummarySizes \subseteq Nat,
           NEW t, t = s \o o.card, NEW q, q = o.request
    PROVE  Runs(t, q, Len(s) + 1)
<1>1. /\ s \in Seq(CardSet) /\ Len(s) \in Nat /\ DOMAIN s = 1..Len(s)
  BY PlacesAre
<1>2. s \o << >> = s /\ \A e \in CardSet : s \o <<e>> = Append(s, e)
  BY <1>1, OneMore
<1>3. /\ g \in Seq(SegmentSet) /\ Len(g) \in Nat /\ Suffix(g, 0) = g
  BY WholeIs
<1>4. PICK m : m = Len(s) + 1
  OBVIOUS
<1>5. Len(s) # 0 /\ m \in Nat
  BY <1>1, <1>4
<1>6. CASE o.tier = "plain"
  <2>1. t = s /\ q = r
    BY <1>2, <1>6 DEF MidTurned
  <2>2. Len(s) \in 1..(Len(s) + 1)
    BY <1>1, <1>5
  <2> QED BY <2>1, <2>2 DEF Runs
<1>7. CASE o.tier = "failed"
  <2>1. PICK e : e = Card("audit")
    OBVIOUS
  <2>2. o.card = <<e>> /\ q = r
    BY <1>7, <2>1 DEF MidTurned
  <2>3. e \in CardSet
    BY <2>1, CardTyped DEF Kinds
  <2>4. t = Append(s, e)
    BY <1>2, <2>2, <2>3
  <2>5. e.kind = "audit" /\ CardFits(t, m)
    BY <1>1, <1>4, <2>1, <2>4, PlainFits, ZenonT(60)
  <2>6. e.kind # "summary" /\ e.kind # "elision" /\ e.kind \notin ExchangeKinds
    BY <2>5 DEF ExchangeKinds
  <2>7. Ordinary(s, e, t, m)
    BY <1>4, <2>3, <2>4, <2>5, <2>6, GrowOrdinary
  <2>8. CardsFit(t, r.cards)
    <3>1. CardsFit(s, r.cards)
      BY DEF RequestFits
    <3> QED BY <1>4, <2>3, <2>4, <2>5, <2>6, <3>1, CardsStay
  <2>9. SkeletonsFit(t, r.skeletons)
    <3>1. SkeletonsFit(s, r.skeletons)
      BY DEF RequestFits
    <3> QED BY <1>4, <2>3, <2>4, <2>5, <2>6, <3>1, SkeletonsStay
  <2>10. Len(t) = m /\ t # << >>
    <3>1. Grown(s, e, t, m)
      BY <1>1, <1>4, <2>3, <2>4, GrowIs
    <3> QED BY <3>1 DEF Grown
  <2>11. Len(t) \in 1..(Len(s) + 1)
    BY <1>1, <1>4, <2>10
  <2> QED BY <2>2, <2>7, <2>8, <2>9, <2>10, <2>11 DEF Runs, RequestFits, Ordinary
<1>8. CASE o.tier = "elided"
  <2>1. PICK b \in 1..Len(g) :
            /\ o.card = <<ElisionCard(ToolsBefore(s, g, b))>>
            /\ o.request = [cards |-> Flat(g), skeletons |-> Skeletons(s) \cup ToolsBefore(s, g, b),
                            tail |-> o.request.tail]
    BY <1>8 DEF MidTurned
  <2>2. PICK ns : ns = ToolsBefore(s, g, b)
    OBVIOUS
  <2>3. PICK e : e = ElisionCard(ns)
    OBVIOUS
  <2>4. ns \subseteq ToolCards(s)
    BY <2>2, ToolsAre
  <2>5. PICK v : v = Append(s, e)
    OBVIOUS
  <2>6. e \in CardSet /\ e.kind = "elision" /\ CardFits(v, m) /\ Skeletons(v) = Skeletons(s) \cup ns
    BY <1>4, <2>3, <2>4, <2>5, ElisionFits
  <2>7. t = v
    BY <1>2, <2>1, <2>2, <2>3, <2>5, <2>6
  <2>8. e.kind # "summary" /\ e.kind \notin ExchangeKinds
    BY <2>6 DEF ExchangeKinds
  <2>9. Ordinary(s, e, v, m)
    BY <1>4, <2>5, <2>6, <2>8, GrowOrdinary
  <2>10. /\ q = [cards |-> q.cards, skeletons |-> q.skeletons, tail |-> q.tail]
         /\ q.cards = Flat(g) /\ q.skeletons = Skeletons(s) \cup ns
    BY <2>1, <2>2
  <2>11. CardsFit(v, q.cards)
    <3>1. 0 \in 0..Len(g)
      BY <1>3
    <3>2. PICK i \in 0..Len(g) : i = 0
      BY <3>1
    <3>3. CardsFit(s, Flat(Suffix(g, i)))
      BY SuffixCards
    <3>4. CardsFit(s, q.cards)
      BY <1>3, <2>10, <3>2, <3>3
    <3> QED BY <1>4, <2>5, <2>6, <2>8, <3>4, CardsStay
  <2>12. SkeletonsFit(v, q.skeletons)
    <3>1. q.skeletons = Skeletons(v)
      BY <2>6, <2>10
    <3> QED BY <2>9, <3>1, SkeletonsAre DEF Ordinary
  <2>13. Len(v) = m /\ v # << >>
    <3>1. Grown(s, e, v, m)
      BY <1>1, <1>4, <2>5, <2>6, GrowIs
    <3> QED BY <3>1 DEF Grown
  <2>14. Len(v) \in 1..(Len(s) + 1)
    BY <1>1, <1>4, <2>13
  <2> QED BY <2>7, <2>9, <2>10, <2>11, <2>12, <2>13, <2>14 DEF Runs, RequestFits, Ordinary
<1>9. CASE o.tier = "summarized"
  <2>0. PICK b \in 1..Len(g), z \in SummarySizes : \E k :
            /\ RetainFrom(g, b) # 0
            /\ o.card = <<SummaryCard(s, k, g, b, z, {})>>
            /\ o.request = [cards |-> <<Len(s) + 1>> \o Flat(Suffix(g, b)),
                            skeletons |-> o.request.skeletons, tail |-> o.request.tail]
            /\ \/ o.request.skeletons = Skeletons(s)
               \/ o.request.skeletons = Skeletons(s) \cup ToolsBefore(s, g, b)
    BY <1>9 DEF MidTurned
  <2>1. PICK k :
            /\ RetainFrom(g, b) # 0
            /\ o.card = <<SummaryCard(s, k, g, b, z, {})>>
            /\ o.request = [cards |-> <<Len(s) + 1>> \o Flat(Suffix(g, b)),
                            skeletons |-> o.request.skeletons, tail |-> o.request.tail]
            /\ \/ o.request.skeletons = Skeletons(s)
               \/ o.request.skeletons = Skeletons(s) \cup ToolsBefore(s, g, b)
    BY <2>0
  <2>2. PICK folded : folded = {}
    OBVIOUS
  <2>3. PICK e : e = SummaryCard(s, k, g, b, z, folded)
    OBVIOUS
  <2>4. PICK v : v = Append(s, e)
    OBVIOUS
  <2>5. Follows(s, e, v, m, RetainFrom(g, b))
    <3>1. Extended(s, s, folded, RetainFrom(g, b))
      BY <1>1, <2>1, <2>2 DEF Extended
    <3>2. z \in Nat
      OBVIOUS
    <3> QED BY <1>4, <2>3, <2>4, <3>1, <3>2, SummaryCardFits
  <2>6. /\ e \in CardSet /\ e.kind = "summary" /\ e.retain = RetainFrom(g, b)
        /\ Len(v) = m /\ v # << >> /\ ScriptFits(v) /\ Summarized(s, e, v, m)
    BY <2>5 DEF Follows, Grown, Summarized
  <2>7. t = v
    BY <1>2, <2>1, <2>2, <2>3, <2>4, <2>6
  <2>8. PICK at : at = Place(s, g, b)
    OBVIOUS
  <2>9. PICK x : x = Flat(Suffix(g, b))
    OBVIOUS
  <2>10. /\ at \in Nat /\ 1 <= at
         /\ Lists(x, Between(s, at, Len(s) + 1))
         /\ RetainFrom(g, b) = at
    BY <2>1, <2>8, <2>9, PlaceIs
  <2>11. /\ q = [cards |-> q.cards, skeletons |-> q.skeletons, tail |-> q.tail]
         /\ q.cards = <<m>> \o x
         /\ \/ q.skeletons = Skeletons(s)
            \/ q.skeletons = Skeletons(s) \cup ToolsBefore(s, g, b)
    BY <1>4, <2>1, <2>9
  <2>12. CardsFit(v, q.cards)
    <3>1. e.retain = at /\ e.retain # 0 /\ e.retain \in Nat
      BY <2>1, <2>6, <2>10
    <3>2. Lists(x, Between(s, e.retain, m))
      BY <1>4, <2>10, <3>1
    <3> QED BY <1>4, <2>6, <2>11, <3>1, <3>2, SummarizedCards, SMTT(40)
  <2>13. SkeletonsFit(v, q.skeletons)
    <3>1. /\ Skeletons(v) = Skeletons(s) \cup (IF e.kind = "elision" THEN e.stands ELSE {})
          /\ ToolCards(v) = ToolCards(s) \cup (IF e.kind = "tool" THEN {m} ELSE {})
      BY <1>1, <1>4, <2>4, <2>6, SkeletonsGrow
    <3>2. Skeletons(v) = Skeletons(s) /\ ToolCards(v) = ToolCards(s)
      BY <2>6, <3>1
    <3>3. SkeletonsFit(v, Skeletons(v)) /\ Skeletons(s) \subseteq ToolCards(s)
      BY <2>6, SkeletonsAre
    <3>4. Floor(v) = at
      BY <2>1, <2>6, <2>10 DEF Summarized
    <3>5. ToolsBefore(s, g, b) \subseteq ToolCards(s) /\ \A n \in ToolsBefore(s, g, b) : n < at
      BY <2>8, ToolsAre
    <3>6. ToolCards(s) \subseteq Nat
      BY <1>1 DEF ToolCards, OfKind
    <3>7. ASSUME NEW n \in ToolsBefore(s, g, b) PROVE ~(n >= Floor(v))
      <4>1. n \in Nat /\ n < at
        BY <3>5, <3>6
      <4> QED BY <2>10, <3>4, <4>1
    <3> QED BY <2>11, <3>2, <3>3, <3>5, <3>7 DEF SkeletonsFit
  <2>14. Len(v) \in 1..(Len(s) + 1)
    BY <1>1, <1>4, <2>6
  <2> QED BY <2>6, <2>7, <2>11, <2>12, <2>13, <2>14 DEF Runs, RequestFits
<1>10. o.tier \in {"plain", "failed", "elided", "summarized"}
  BY DEF MidTurned
<1> QED BY <1>6, <1>7, <1>8, <1>9, <1>10

-----------------------------------------------------------------------------
(* The inductive invariant of the history *)

(* The transcript fits; the session waits for what the transcript says; the request of a
   running turn holds what the transcript does; and there is an end to the cards. *)
HistoryInv ==
    /\ ScriptFits(script)
    /\ phase \in {"ready", "running", "input", "permission", "over"}
    /\ phase \in {"running", "input", "permission"} => script # << >>
    /\ phase = "permission" => script[Len(script)].kind = "call" /\ Len(script) <= MaxCards
    /\ phase = "running" => /\ RequestFits(script, carried)
                            /\ Len(script) <= MaxCards + 2
                            /\ ~retried => Len(script) <= MaxCards + 1
    /\ phase # "running" => carried = NoRequest
    /\ failures \in 0..MaxFailures
    /\ strategy \in Strategies

(* A card of some kind at the end. *)
Ends(s, c, t, n, kind) ==
    c \in CardSet /\ c.kind = kind /\ CardFits(t, n) /\ Grown(s, c, t, n) /\ Ordinary(s, c, t, n)

(* A card of each ordinary kind fits where the code writes one: anything but a prompt behind
   another card, an answer behind its call. *)
LEMMA KindFits ==
    ASSUME NEW s, ScriptFits(s), NEW kind \in {"user", "assistant", "call", "tool", "check", "denied", "audit"},
           kind # "user" => s # << >>,
           kind \in {"tool", "denied"} => s[Len(s)].kind = "call",
           NEW c, c = Card(kind), NEW t, t = Append(s, c), NEW n, n = Len(s) + 1
    PROVE  Ends(s, c, t, n, kind)
<1>1. s \in Seq(CardSet) /\ DOMAIN s = 1..Len(s) /\ Len(s) \in Nat
  BY PlacesAre
<1>2. c \in CardSet /\ c.kind = kind /\ c.retain = 0 /\ c.stands = {}
  <2>1. kind \in Kinds
    BY DEF Kinds
  <2> QED BY <2>1, CardTyped DEF Card
<1>3. Grown(s, c, t, n)
  BY <1>1, <1>2, GrowIs
<1>4. t[n] = c /\ n \in Nat /\ n > 0 /\ \A m \in DOMAIN s : m \in DOMAIN t /\ t[m] = s[m]
  BY <1>1, <1>3 DEF Grown
<1>5. kind \in {"tool", "denied"} => n - 1 \in DOMAIN t /\ t[n - 1].kind = "call"
  <2> SUFFICES ASSUME kind \in {"tool", "denied"} PROVE n - 1 \in DOMAIN t /\ t[n - 1].kind = "call"
    OBVIOUS
  <2>1. s # << >> /\ s[Len(s)].kind = "call"
    OBVIOUS
  <2>2. n - 1 = Len(s) /\ Len(s) \in DOMAIN s
    BY <1>1, <2>1
  <2> QED BY <1>4, <2>1, <2>2
<1>6. CardFits(t, n)
  BY <1>2, <1>4, <1>5 DEF CardFits
<1>7. Ordinary(s, c, t, n)
  <2>1. c.kind # "summary" /\ (s = << >> => c.kind = "user")
    BY <1>2
  <2> QED BY <1>2, <1>6, <2>1, GrowOrdinary
<1> QED BY <1>2, <1>3, <1>6, <1>7 DEF Ends

(* The count of failures stops where the summarizer is no longer asked. *)
LEMMA FailuresFit ==
    ASSUME HistoryInv, NEW tier, tier = "failed" => failures < MaxFailures
    PROVE  FailuresAfter(tier) \in 0..MaxFailures
<1>1. failures \in 0..MaxFailures /\ MaxFailures \in Nat
  BY HistoryAssumption DEF HistoryInv
<1> QED BY <1>1 DEF FailuresAfter

(* A turn that runs. *)
LEMMA RunsOn ==
    ASSUME NEW top \in Nat, Runs(script', carried', top), phase' = "running",
           top <= MaxCards + 2, ~retried' => top <= MaxCards + 1,
           failures' \in 0..MaxFailures, strategy' \in Strategies
    PROVE  HistoryInv'
<1>1. ScriptFits(script') /\ script' # << >> /\ RequestFits(script', carried') /\ Len(script') \in 1..top
  BY DEF Runs
<1>2. MaxCards \in Nat
  BY HistoryAssumption
<1>3. Len(script') <= MaxCards + 2 /\ (~retried' => Len(script') <= MaxCards + 1)
  BY <1>1, <1>2
<1> QED BY <1>1, <1>3 DEF HistoryInv

(* What the start of a turn prepares. *)
LEMMA Starts ==
    ASSUME HistoryInv, Len(script) < MaxCards,
           NEW n, n = Len(script) + 1, NEW o \in Prepare(script, ScanSegments(script, DOMAIN script), Skeletons(script), n),
           NEW t, t = script \o <<Card("user")>> \o CardFor(o)
    PROVE  /\ Runs(t, RequestOf(t, o, <<n>>), MaxCards + 1)
           /\ FailuresAfter(o.tier) \in 0..MaxFailures
<1>1. ScriptFits(script) /\ failures \in 0..MaxFailures /\ MaxFailures \in Nat /\ MaxCards \in Nat
      /\ SummarySizes \subseteq Nat
  BY HistoryAssumption DEF HistoryInv
<1>2. PICK g : g = ScanSegments(script, DOMAIN script)
  OBVIOUS
<1>0. PICK a : a = Floor(script)
  OBVIOUS
<1>3. Seen(script, g, a) /\ g \in Seq(SegmentSet)
  <2>1. Seen(script, g, a)
    BY <1>0, <1>1, <1>2, ScanSeen
  <2> QED BY <1>1, <2>1, WholeIs
<1>4. o \in Prepare(script, g, Skeletons(script), n)
  BY <1>2
<1>5. Prepared(o, script, g, n)
  BY <1>1, <1>3, <1>4, PrepareIs
<1>6. PICK r : r = RequestOf(t, o, <<n>>)
  OBVIOUS
<1>7. Runs(t, r, Len(script) + 2)
  BY <1>1, <1>3, <1>5, <1>6, PrepareFits
<1>8. Len(script) \in Nat
  BY <1>1, PlacesAre
<1>9. Len(script) + 2 <= MaxCards + 1
  BY <1>1, <1>8
<1>10. Runs(t, r, MaxCards + 1)
  <2>1. Len(t) \in 1..(Len(script) + 2)
    BY <1>7 DEF Runs
  <2>2. Len(t) \in 1..(MaxCards + 1)
    BY <1>1, <1>8, <1>9, <2>1
  <2> QED BY <1>7, <2>2 DEF Runs
<1>11. o.tier = "failed" => failures < MaxFailures
  BY <1>5 DEF Prepared
<1> QED BY <1>6, <1>10, <1>11, FailuresFit

(* follow_up: the prompt, and what was prepared for it. *)
LEMMA FollowUpTurnKeeps == ASSUME HistoryInv, FollowUpTurn PROVE HistoryInv'
<1>1. PICK n : n = Len(script) + 1
  OBVIOUS
<1>2. PICK o \in Prepare(script, ScanSegments(script, DOMAIN script), Skeletons(script), n) :
         LET s == script \o <<Card("user")>> \o CardFor(o)
         IN /\ script' = s
            /\ carried' = RequestOf(s, o, <<n>>)
            /\ failures' = FailuresAfter(o.tier)
  BY <1>1 DEF FollowUpTurn
<1>3. Len(script) < MaxCards /\ phase' = "running" /\ retried' = FALSE /\ strategy' = strategy
  BY DEF FollowUpTurn
<1>4. Runs(script', carried', MaxCards + 1) /\ failures' \in 0..MaxFailures
  BY <1>1, <1>2, <1>3, Starts
<1>5. MaxCards + 1 \in Nat /\ MaxCards + 1 <= MaxCards + 2 /\ strategy' \in Strategies
  BY <1>3, HistoryAssumption DEF HistoryInv
<1> QED BY <1>3, <1>4, <1>5, RunsOn

(* provide_input: the answer, and what was prepared for it, or a turn given up. *)
LEMMA AnswerInputKeeps == ASSUME HistoryInv, AnswerInput PROVE HistoryInv'
<1>1. PICK n : n = Len(script) + 1
  OBVIOUS
<1>2. PICK o \in Prepare(script, ScanSegments(script, DOMAIN script), Skeletons(script), n) :
         LET s == script \o <<Card("user")>> \o CardFor(o)
         IN /\ failures' = FailuresAfter(o.tier)
            /\ \/ script' = Append(script, Card("user")) /\ Abandon
               \/ /\ script' = s
                  /\ carried' = RequestOf(s, o, <<n>>)
                  /\ phase' = "running"
  BY <1>1 DEF AnswerInput
<1>3. Len(script) < MaxCards /\ retried' = FALSE /\ strategy' = strategy
  BY DEF AnswerInput
<1>4. strategy' \in Strategies /\ ScriptFits(script)
  BY <1>3 DEF HistoryInv
<1> DEFINE s == script \o <<Card("user")>> \o CardFor(o)
<1>5. Runs(s, RequestOf(s, o, <<n>>), MaxCards + 1) /\ FailuresAfter(o.tier) \in 0..MaxFailures
  BY <1>1, <1>3, Starts
<1>6. CASE script' = Append(script, Card("user")) /\ Abandon
  <2>1. PICK c : c = Card("user")
    OBVIOUS
  <2>2. PICK t : t = Append(script, c)
    OBVIOUS
  <2>3. Ends(script, c, t, n, "user")
    BY <1>1, <1>4, <2>1, <2>2, KindFits
  <2>4. ScriptFits(script')
    BY <1>6, <2>1, <2>2, <2>3 DEF Ends, Ordinary
  <2>5. phase' = "over" /\ carried' = NoRequest /\ failures' \in 0..MaxFailures
    BY <1>2, <1>5, <1>6 DEF Abandon
  <2> QED BY <1>4, <2>4, <2>5 DEF HistoryInv
<1>7. CASE /\ script' = s
           /\ carried' = RequestOf(s, o, <<n>>)
           /\ phase' = "running"
  <2>1. MaxCards + 1 \in Nat /\ MaxCards + 1 <= MaxCards + 2
    BY HistoryAssumption
  <2>2. Runs(script', carried', MaxCards + 1) /\ failures' \in 0..MaxFailures
    BY <1>2, <1>5, <1>7
  <2> QED BY <1>3, <1>4, <1>7, <2>1, <2>2, RunsOn, SMTT(40)
<1> QED BY <1>2, <1>6, <1>7

(* A card that ends a turn, or that waits. *)
LEMMA EndsFit ==
    ASSUME HistoryInv, NEW kind \in {"assistant", "call", "tool", "check", "denied", "audit"},
           script # << >>, kind \in {"tool", "denied"} => script[Len(script)].kind = "call",
           NEW t, t = Append(script, Card(kind))
    PROVE  /\ ScriptFits(t) /\ t # << >> /\ Len(t) = Len(script) + 1 /\ t[Len(t)].kind = kind
           /\ Len(script) \in Nat
<1>1. ScriptFits(script)
  BY DEF HistoryInv
<1>2. PICK c : c = Card(kind)
  OBVIOUS
<1>3. PICK n : n = Len(script) + 1
  OBVIOUS
<1>4. kind # "user" /\ kind \in {"user", "assistant", "call", "tool", "check", "denied", "audit"}
  OBVIOUS
<1>5. Ends(script, c, t, n, kind)
  BY <1>1, <1>2, <1>3, <1>4, KindFits
<1>6. Len(script) \in Nat
  BY <1>1, PlacesAre
<1> QED BY <1>3, <1>5, <1>6 DEF Ends, Grown, Ordinary

(* A request over the budget is not sent. *)
LEMMA OverBudgetKeeps == ASSUME HistoryInv, OverBudget PROVE HistoryInv'
<1>1. /\ phase' = "ready" /\ carried' = NoRequest
      /\ script' = script /\ failures' = failures /\ strategy' = strategy
  BY DEF OverBudget
<1> QED BY <1>1 DEF HistoryInv

(* The last cards of a turn. *)
LEMMA EndTurnKeeps == ASSUME HistoryInv, NEW ending \in Endings, EndTurn(ending) PROVE HistoryInv'
<1>1. /\ phase = "running" /\ phase' = ending.phase /\ carried' = NoRequest
      /\ script' = script \o ending.cards
      /\ failures' = failures /\ strategy' = strategy
  BY DEF EndTurn, Sends
<1>2. ScriptFits(script) /\ script # << >> /\ script \in Seq(CardSet)
  BY <1>1, PlacesAre DEF HistoryInv
<1>3. phase' \in {"ready", "over"}
  BY <1>1 DEF Endings
<1>4. PICK a : a = Card("assistant")
  OBVIOUS
<1>5. PICK b : b = Card("check")
  OBVIOUS
<1>6. a \in CardSet /\ b \in CardSet
  BY <1>4, <1>5, CardTyped DEF Kinds
<1>7. ending.cards = << >> \/ ending.cards = <<a>> \/ ending.cards = <<a, b>>
  BY <1>4, <1>5 DEF Endings
<1>8. PICK u : u = Append(script, a)
  OBVIOUS
<1>9. PICK n : n = Len(script) + 1
  OBVIOUS
<1>10. Ends(script, a, u, n, "assistant")
  BY <1>2, <1>4, <1>8, <1>9, KindFits
<1>11. ScriptFits(u) /\ u # << >>
  BY <1>10 DEF Ends, Ordinary, Grown
<1>12. PICK v : v = Append(u, b)
  OBVIOUS
<1>13. PICK m : m = Len(u) + 1
  OBVIOUS
<1>14. Ends(u, b, v, m, "check")
  BY <1>5, <1>11, <1>12, <1>13, KindFits
<1>15. ScriptFits(v)
  BY <1>14 DEF Ends, Ordinary
<1>16. script \o << >> = script /\ script \o <<a>> = u /\ script \o <<a, b>> = v
  BY <1>2, <1>6, <1>8, <1>12, OneMore, TwoMore
<1>17. ScriptFits(script')
  BY <1>1, <1>2, <1>7, <1>11, <1>15, <1>16
<1> QED BY <1>1, <1>3, <1>17 DEF HistoryInv

(* A question to the user leaves the transcript as it is. *)
LEMMA AskInputKeeps == ASSUME HistoryInv, AskInput PROVE HistoryInv'
<1>1. /\ phase = "running" /\ phase' = "input" /\ carried' = NoRequest
      /\ script' = script /\ failures' = failures /\ strategy' = strategy
  BY DEF AskInput, Sends
<1> QED BY <1>1 DEF HistoryInv

(* A call that waits for permission is the last card. *)
LEMMA ParkCallKeeps == ASSUME HistoryInv, ParkCall PROVE HistoryInv'
<1>1. /\ phase = "running" /\ Len(script) < MaxCards
      /\ script' = Append(script, Card("call"))
      /\ phase' = "permission" /\ carried' = NoRequest
      /\ failures' = failures /\ strategy' = strategy
  BY DEF ParkCall, Sends
<1>2. /\ ScriptFits(script') /\ script' # << >> /\ script'[Len(script')].kind = "call"
      /\ Len(script') = Len(script) + 1 /\ Len(script) \in Nat
  <2>1. script # << >>
    BY <1>1 DEF HistoryInv
  <2> QED BY <1>1, <2>1, EndsFit
<1>3. Len(script') <= MaxCards
  BY <1>1, <1>2, HistoryAssumption
<1> QED BY <1>1, <1>2, <1>3 DEF HistoryInv

(* A denial answers the call that waited. *)
LEMMA DenyCallKeeps == ASSUME HistoryInv, DenyCall PROVE HistoryInv'
<1>1. /\ phase = "permission" /\ script' = Append(script, Card("denied")) /\ phase' = "ready"
      /\ carried' = carried /\ failures' = failures /\ strategy' = strategy
  BY DEF DenyCall
<1>2. script # << >> /\ script[Len(script)].kind = "call" /\ carried = NoRequest
  BY <1>1 DEF HistoryInv
<1>3. ScriptFits(script')
  BY <1>1, <1>2, EndsFit
<1> QED BY <1>1, <1>2, <1>3 DEF HistoryInv

(* A cancellation leaves a call without an answer, and no turn. *)
LEMMA CancelTurnKeeps == ASSUME HistoryInv, CancelTurn PROVE HistoryInv'
<1>1. /\ phase' = "over" /\ carried' = NoRequest /\ failures' = failures /\ strategy' = strategy
      /\ \/ script' = script
         \/ phase = "running" /\ script' = Append(script, Card("call"))
  BY DEF CancelTurn, Sends
<1>2. ScriptFits(script')
  <2>1. CASE script' = script
    BY <2>1 DEF HistoryInv
  <2>2. CASE phase = "running" /\ script' = Append(script, Card("call"))
    <3>1. script # << >>
      BY <2>2 DEF HistoryInv
    <3> QED BY <2>2, <3>1, EndsFit
  <2> QED BY <1>1, <2>1, <2>2
<1> QED BY <1>1, <1>2 DEF HistoryInv

(* The request that a permission builds again is the projection of the snapshot. *)
LEMMA AllowCallKeeps == ASSUME HistoryInv, AllowCall PROVE HistoryInv'
<1>1. /\ phase = "permission" /\ phase' = "running" /\ retried' = FALSE
      /\ script' = Append(script, Card("tool"))
      /\ carried' = [cards |-> Flat(ScanSegments(script', WindowOf(script'))), skeletons |-> Skeletons(script'),
                     tail |-> TailSize]
      /\ failures' = failures /\ strategy' = strategy
  BY DEF AllowCall
<1>2. script # << >> /\ script[Len(script)].kind = "call" /\ Len(script) <= MaxCards
  BY <1>1 DEF HistoryInv
<1>3. PICK t : t = script'
  OBVIOUS
<1>4. ScriptFits(t) /\ t # << >> /\ Len(t) = Len(script) + 1 /\ Len(script) \in Nat
  BY <1>1, <1>2, <1>3, EndsFit
<1>5. MaxCards \in Nat
  BY HistoryAssumption
<1>6. Len(t) \in 1..(MaxCards + 1)
  BY <1>2, <1>4, <1>5
<1>7. PICK g : g = ScanSegments(t, WindowOf(t))
  OBVIOUS
<1>8. PICK a : Seen(t, g, a)
  BY <1>4, <1>7, WindowSeen
<1>9. Len(g) \in Nat /\ Suffix(g, 0) = g
  BY <1>4, <1>8, WholeIs
<1>10. CardsFit(t, Flat(g))
  <2>1. PICK i \in 0..Len(g) : i = 0
    BY <1>9
  <2>2. CardsFit(t, Flat(Suffix(g, i)))
    BY <1>4, <1>8, SuffixCards
  <2> QED BY <1>9, <2>1, <2>2
<1>11. SkeletonsFit(t, Skeletons(t))
  BY <1>4, SkeletonsAre
<1>12. carried' = [cards |-> Flat(g), skeletons |-> Skeletons(t), tail |-> TailSize]
  BY <1>1, <1>3, <1>7
<1>13. RequestFits(t, carried')
  <2> DEFINE r == [cards |-> Flat(g), skeletons |-> Skeletons(t), tail |-> TailSize]
  <2>1. r.cards = Flat(g) /\ r.skeletons = Skeletons(t) /\ r = [cards |-> r.cards, skeletons |-> r.skeletons, tail |-> r.tail]
    OBVIOUS
  <2> HIDE DEF r
  <2>2. RequestFits(t, r)
    BY <1>10, <1>11, <2>1 DEF RequestFits
  <2> QED BY <1>12, <2>2 DEF r
<1>14. Runs(script', carried', MaxCards + 1)
  BY <1>3, <1>4, <1>6, <1>13 DEF Runs
<1>15. MaxCards + 1 \in Nat /\ MaxCards + 1 <= MaxCards + 2
  BY <1>5
<1>16. failures' \in 0..MaxFailures /\ strategy' \in Strategies
  BY <1>1 DEF HistoryInv
<1> QED BY <1>1, <1>14, <1>15, <1>16, RunsOn

(* What compaction does to the turn whose transcript is s and whose request is r. *)
LEMMA CompactKeeps ==
    ASSUME HistoryInv, NEW s, ScriptFits(s), s # << >>, NEW r, RequestFits(s, r),
           NEW forced \in BOOLEAN, NEW o \in MidTurn(s, r, forced), Compact(s, o),
           Len(s) + 1 <= MaxCards + 2, ~retried' => Len(s) + 1 <= MaxCards + 1, strategy' \in Strategies
    PROVE  HistoryInv'
<1>1. failures \in 0..MaxFailures /\ MaxFailures \in Nat /\ MaxCards \in Nat /\ SummarySizes \subseteq Nat
  BY HistoryAssumption DEF HistoryInv
<1>2. Len(s) \in Nat
  BY PlacesAre
<1>3. PICK g : g = ScanSegments(s, WindowOf(s))
  OBVIOUS
<1>4. PICK a : Seen(s, g, a)
  BY <1>3, WindowSeen
<1>5. g \in Seq(SegmentSet)
  BY <1>4, WholeIs
<1>6. MidTurned(o, s, g, r)
  BY <1>1, <1>3, <1>5, MidTurnIs
<1>7. PICK t : t = s \o o.card
  OBVIOUS
<1>8. PICK q : q = o.request
  OBVIOUS
<1>9. Runs(t, q, Len(s) + 1)
  BY <1>1, <1>4, <1>6, <1>7, <1>8, MidTurnFits
<1>10. failures' \in 0..MaxFailures
  <2>1. o.tier = "failed" => failures < MaxFailures
    BY <1>6 DEF MidTurned
  <2>2. failures' = FailuresAfter(o.tier)
    BY DEF Compact
  <2> QED BY <2>1, <2>2, FailuresFit
<1>11. \/ script' = s /\ phase' = "over" /\ carried' = NoRequest
       \/ script' = s \o o.card /\ carried' = o.request /\ phase' = "running"
  BY DEF Compact, Abandon
<1>12. CASE script' = s /\ phase' = "over" /\ carried' = NoRequest
  BY <1>10, <1>12 DEF HistoryInv
<1>13. CASE script' = s \o o.card /\ carried' = o.request /\ phase' = "running"
  <2>1. Runs(script', carried', Len(s) + 1) /\ Len(s) + 1 \in Nat
    BY <1>2, <1>7, <1>8, <1>9, <1>13
  <2> QED BY <1>10, <1>13, <2>1, RunsOn
<1> QED BY <1>11, <1>12, <1>13

(* The round that the request and the transcript take in together. *)
LEMMA RoundFits ==
    ASSUME NEW s, ScriptFits(s), s # << >>, NEW r, RequestFits(s, r), NEW n, n = Len(s),
           NEW t, t = s \o <<Card("call"), Card("tool")>>,
           NEW q, q = [r EXCEPT !.cards = @ \o <<n + 1, n + 2>>]
    PROVE  Runs(t, q, n + 2) /\ Len(t) = n + 2
<1>1. s \in Seq(CardSet) /\ n \in Nat /\ DOMAIN s = 1..n
  BY PlacesAre
<1>2. PICK a : a = Card("call")
  OBVIOUS
<1>3. PICK b : b = Card("tool")
  OBVIOUS
<1>4. PICK i : i = Len(s) + 1
  OBVIOUS
<1>5. PICK u : u = Append(s, a)
  OBVIOUS
<1>6. Ends(s, a, u, i, "call")
  BY <1>2, <1>4, <1>5, KindFits
<1>7. /\ a \in CardSet /\ a.kind = "call" /\ CardFits(u, i) /\ ScriptFits(u) /\ u # << >>
      /\ Len(u) = i /\ u[i].kind = "call"
  BY <1>6 DEF Ends, Grown, Ordinary
<1>8. PICK j : j = Len(u) + 1
  OBVIOUS
<1>9. PICK v : v = Append(u, b)
  OBVIOUS
<1>10. Ends(u, b, v, j, "tool")
  BY <1>3, <1>7, <1>8, <1>9, KindFits
<1>11. /\ b \in CardSet /\ b.kind = "tool" /\ CardFits(v, j) /\ ScriptFits(v) /\ v # << >>
       /\ Len(v) = j
  BY <1>10 DEF Ends, Grown, Ordinary
<1>12. t = v
  BY <1>1, <1>2, <1>3, <1>5, <1>7, <1>9, <1>11, TwoMore
<1>13. i = n + 1 /\ j = n + 2 /\ i \in Nat /\ j \in Nat
  BY <1>1, <1>4, <1>7, <1>8
<1>14. /\ r = [cards |-> r.cards, skeletons |-> r.skeletons, tail |-> r.tail]
       /\ CardsFit(s, r.cards) /\ SkeletonsFit(s, r.skeletons)
  BY DEF RequestFits
<1>15. PICK x : x = r.cards
  OBVIOUS
<1>16. x \in Seq(Nat)
  BY <1>14, <1>15, CardsAreSeq
<1>17. a.kind \in ExchangeKinds /\ b.kind \in ExchangeKinds
  BY <1>7, <1>11 DEF ExchangeKinds
<1>18. PICK y : y = Append(x, i)
  OBVIOUS
<1>19. CardsFit(u, y)
  BY <1>4, <1>5, <1>7, <1>14, <1>15, <1>17, <1>18, CardsGrow
<1>20. CardsFit(v, Append(y, j))
  BY <1>7, <1>8, <1>9, <1>11, <1>17, <1>19, CardsGrow
<1>21. SkeletonsFit(u, r.skeletons)
  <2>1. a.kind # "summary" /\ a.kind # "elision"
    BY <1>7
  <2> QED BY <1>4, <1>5, <1>7, <1>14, <2>1, SkeletonsStay
<1>22. SkeletonsFit(v, r.skeletons)
  <2>1. b.kind # "summary" /\ b.kind # "elision"
    BY <1>11
  <2> QED BY <1>7, <1>8, <1>9, <1>11, <1>21, <2>1, SkeletonsStay
<1>23. x \o <<i, j>> = Append(y, j)
  BY <1>13, <1>16, <1>18, TwoMore
<1>24. q = [cards |-> x \o <<i, j>>, skeletons |-> r.skeletons, tail |-> r.tail]
  BY <1>13, <1>14, <1>15
<1>25. RequestFits(v, q)
  <2>1. PICK w : w = [cards |-> x \o <<i, j>>, skeletons |-> r.skeletons, tail |-> r.tail]
    OBVIOUS
  <2>2. w.cards = x \o <<i, j>> /\ w.skeletons = r.skeletons /\ w.tail = r.tail
    BY <2>1
  <2>3. w = [cards |-> w.cards, skeletons |-> w.skeletons, tail |-> w.tail]
    BY <2>1
  <2>4. RequestFits(v, w)
    BY <1>20, <1>22, <1>23, <2>2, <2>3 DEF RequestFits
  <2> QED BY <1>24, <2>1, <2>4
<1>26. Len(v) = n + 2 /\ Len(v) \in 1..(n + 2)
  BY <1>1, <1>11, <1>13
<1> QED BY <1>11, <1>12, <1>25, <1>26 DEF Runs

(* A round of tools and the compaction after it. *)
LEMMA ToolRoundKeeps == ASSUME HistoryInv, ToolRound PROVE HistoryInv'
<1>1. PICK n : n = Len(script)
  OBVIOUS
<1>2. PICK s : s = script \o <<Card("call"), Card("tool")>>
  OBVIOUS
<1>3. PICK r : r = [carried EXCEPT !.cards = @ \o <<n + 1, n + 2>>]
  OBVIOUS
<1>4. /\ phase = "running" /\ Len(script) + 1 < MaxCards
      /\ strategy' = strategy
      /\ \E o \in MidTurn(s, r, FALSE) : Compact(s, o)
  BY <1>1, <1>2, <1>3 DEF ToolRound, Sends
<1>5. PICK o \in MidTurn(s, r, FALSE) : Compact(s, o)
  BY <1>4
<1>6. ScriptFits(script) /\ script # << >> /\ RequestFits(script, carried) /\ strategy' \in Strategies
  BY <1>4 DEF HistoryInv
<1>7. Runs(s, r, n + 2) /\ Len(s) = n + 2
  BY <1>1, <1>2, <1>3, <1>6, RoundFits
<1>8. ScriptFits(s) /\ s # << >> /\ RequestFits(s, r)
  BY <1>7 DEF Runs
<1>9. n \in Nat /\ MaxCards \in Nat
  BY <1>1, <1>6, PlacesAre, HistoryAssumption
<1>10. Len(s) + 1 <= MaxCards + 2 /\ Len(s) + 1 <= MaxCards + 1
  BY <1>1, <1>4, <1>7, <1>9
<1>11. PICK forced \in BOOLEAN : forced = FALSE
  OBVIOUS
<1>12. o \in MidTurn(s, r, forced)
  BY <1>11
<1> QED BY <1>5, <1>6, <1>8, <1>9, <1>10, <1>12, CompactKeeps

(* The forced compaction after the provider found the request too long. *)
LEMMA OverflowKeeps == ASSUME HistoryInv, Overflow PROVE HistoryInv'
<1>1. /\ phase = "running" /\ ~retried /\ retried' = TRUE /\ strategy' = strategy
      /\ \E o \in MidTurn(script, carried, TRUE) :
           \/ phase' = "ready" /\ carried' = NoRequest /\ script' = script /\ failures' = failures
           \/ Compact(script, o)
  BY DEF Overflow, Sends
<1>2. PICK o \in MidTurn(script, carried, TRUE) :
           \/ phase' = "ready" /\ carried' = NoRequest /\ script' = script /\ failures' = failures
           \/ Compact(script, o)
  BY <1>1
<1>3. /\ ScriptFits(script) /\ script # << >> /\ RequestFits(script, carried)
      /\ Len(script) <= MaxCards + 1 /\ strategy' \in Strategies
  BY <1>1 DEF HistoryInv
<1>4. CASE phase' = "ready" /\ carried' = NoRequest /\ script' = script /\ failures' = failures
  BY <1>3, <1>4 DEF HistoryInv
<1>5. CASE Compact(script, o)
  <2>1. Len(script) \in Nat /\ MaxCards \in Nat
    BY <1>3, PlacesAre, HistoryAssumption
  <2>2. Len(script) + 1 <= MaxCards + 2
    BY <1>3, <2>1
  <2>3. PICK forced \in BOOLEAN : forced = TRUE
    OBVIOUS
  <2>4. o \in MidTurn(script, carried, forced)
    BY <2>3
  <2>5. ~retried' => Len(script) + 1 <= MaxCards + 1
    BY <1>1
  <2> QED BY <1>3, <1>5, <2>1, <2>2, <2>4, <2>5, CompactKeeps
<1> QED BY <1>2, <1>4, <1>5

(* Without a card there is no segment. *)
LEMMA SegmentsSay ==
    ASSUME NEW s, ScriptFits(s), NEW g, g = ScanSegments(s, DOMAIN s), g # << >> PROVE s # << >>
<1> SUFFICES ASSUME s = << >> PROVE FALSE
  OBVIOUS
<1>1. NewestSummary(s) = 0 /\ DOMAIN s = {}
  BY PlacesAre
<1>2. HeadOf(s) = << >>
  BY <1>1 DEF HeadOf
<1>3. Row(s, g, HeadOf(s), Floor(s), Len(s) + 1) /\ g \in Seq(SegmentSet)
  BY ScanFits DEF Row
<1>4. 1 \in DOMAIN g
  BY <1>3
<1>5. SegFits(s, g, HeadOf(s), Floor(s), Len(s) + 1, 1)
  BY <1>3, <1>4 DEF Row
<1>6. g[1].first \in DOMAIN s
  BY <1>2, <1>5 DEF SegFits
<1> QED BY <1>1, <1>6

(* compact_session: an elision or a summary in an idle session. *)
LEMMA ManualCompactKeeps == ASSUME HistoryInv, ManualCompact PROVE HistoryInv'
<1>1. PICK g : g = ScanSegments(script, DOMAIN script)
  OBVIOUS
<1>2. PICK b : b = RetainBoundary(script, Skeletons(script), g)
  OBVIOUS
<1>3. PICK ns : ns = ToolsBefore(script, g, b)
  OBVIOUS
<1>4. PICK all : all = Skeletons(script) \cup ns
  OBVIOUS
<1>5. PICK plain : plain = Plain(Skeletons(script), g, TailSize)
  OBVIOUS
<1>6. /\ phase' = phase /\ carried' = carried /\ strategy' = strategy /\ phase = "ready"
      /\ g # << >> /\ failures < MaxFailures /\ b > 0
      /\ \E o : /\ \/ o \in {[plain EXCEPT !.tier = "elided", !.card = {ElisionCard(ns)}]}
                   \/ o \in SummaryTier(script, all, g, b, TailSize, 0, {}, plain)
                /\ failures' = FailuresAfter(o.tier)
                /\ script' = IF o.tier = "failed" THEN script ELSE script \o CardFor(o)
  BY <1>1, <1>2, <1>3, <1>4, <1>5 DEF ManualCompact
<1>7. PICK o : /\ \/ o \in {[plain EXCEPT !.tier = "elided", !.card = {ElisionCard(ns)}]}
                  \/ o \in SummaryTier(script, all, g, b, TailSize, 0, {}, plain)
               /\ failures' = FailuresAfter(o.tier)
               /\ script' = IF o.tier = "failed" THEN script ELSE script \o CardFor(o)
  BY <1>6
<1>8. ScriptFits(script) /\ carried' = NoRequest /\ strategy' \in Strategies /\ phase' = "ready"
  BY <1>6 DEF HistoryInv
<1>9. /\ script \in Seq(CardSet) /\ script # << >> /\ g \in Seq(SegmentSet)
      /\ SummarySizes \subseteq Nat
  <2>1. Seen(script, g, Floor(script))
    BY <1>1, <1>8, ScanSeen
  <2>2. g \in Seq(SegmentSet)
    BY <2>1 DEF Seen, Row
  <2> QED BY <1>1, <1>6, <1>8, <2>2, PlacesAre, SegmentsSay, HistoryAssumption
<1>0. PICK a : Seen(script, g, a)
  BY <1>1, <1>8, ScanSeen
<1>10. b \in 1..Len(g)
  <2>1. b \in 0..Len(g)
    BY <1>2, <1>9, CutsAre
  <2> QED BY <1>6, <2>1
<1>11. failures' \in 0..MaxFailures
  BY <1>6, <1>7, FailuresFit
<1>12. PICK n : n = Len(script) + 1
  OBVIOUS
<1> DEFINE view == SourceView(script, all, g, b)
<1> HIDE DEF view
<1>13. CASE o = [plain EXCEPT !.tier = "elided", !.card = {ElisionCard(ns)}]
  <2>1. PICK e : e = ElisionCard(ns)
    OBVIOUS
  <2>2. o.tier = "elided" /\ o.card = {e}
    BY <1>5, <1>13, <2>1 DEF Plain
  <2>3. CardFor(o) = <<e>>
    BY <2>2, CardOfOne
  <2>4. PICK t : t = Append(script, e)
    OBVIOUS
  <2>5. ns \subseteq ToolCards(script)
    BY <1>0, <1>3, <1>8, <1>10, ToolsAre
  <2>6. e \in CardSet /\ e.kind = "elision" /\ CardFits(t, n)
    BY <1>8, <1>12, <2>1, <2>4, <2>5, ElisionFits
  <2>7. Ordinary(script, e, t, n)
    <3>1. e.kind # "summary"
      BY <2>6
    <3> QED BY <1>8, <1>9, <1>12, <2>4, <2>6, <3>1, GrowOrdinary
  <2>8. script' = t
    BY <1>7, <1>9, <2>2, <2>3, <2>4, <2>6, OneMore
  <2>9. ScriptFits(script')
    BY <2>7, <2>8 DEF Ordinary
  <2> QED BY <1>8, <1>11, <2>9 DEF HistoryInv
<1>14. CASE o = [plain EXCEPT !.tier = "failed"]
  <2>1. o.tier = "failed"
    BY <1>5, <1>14 DEF Plain
  <2>2. script' = script
    BY <1>7, <2>1
  <2> QED BY <1>8, <1>11, <2>2 DEF HistoryInv
<1>15. ASSUME NEW z \in SummarySizes,
              o = [Plain(all, Suffix(g, b), TailSize) EXCEPT
                     !.tier = "summarized", !.card = {SummaryCard(script, view, g, b, z, {})}]
       PROVE  HistoryInv'
  <2>1. PICK folded : folded = {}
    OBVIOUS
  <2>2. PICK e : e = SummaryCard(script, view, g, b, z, folded)
    OBVIOUS
  <2>3. o.tier = "summarized" /\ o.card = {e}
    BY <1>15, <2>1, <2>2 DEF Plain
  <2>4. CardFor(o) = <<e>>
    BY <2>3, CardOfOne
  <2>5. PICK t : t = Append(script, e)
    OBVIOUS
  <2>6. Follows(script, e, t, n, RetainFrom(g, b))
    <3>1. Extended(script, script, folded, RetainFrom(g, b))
      <4>1. Len(script) \in Nat
        BY <1>9
      <4> QED BY <2>1, <4>1 DEF Extended
    <3>2. PICK y \in Nat : y = z
      BY <1>9
    <3>3. e = SummaryCard(script, view, g, b, y, folded)
      BY <2>2, <3>2
    <3> QED BY <1>0, <1>8, <1>9, <1>10, <1>12, <2>5, <3>1, <3>3, SummaryCardFits
  <2>7. e \in CardSet /\ ScriptFits(t)
    BY <2>6 DEF Follows, Summarized
  <2>8. script' = t
    BY <1>7, <1>9, <2>3, <2>4, <2>5, <2>7, OneMore
  <2> QED BY <1>8, <1>11, <2>7, <2>8 DEF HistoryInv
<1>16. \/ o = [plain EXCEPT !.tier = "elided", !.card = {ElisionCard(ns)}]
       \/ o = [plain EXCEPT !.tier = "failed"]
       \/ \E z \in SummarySizes :
             o = [Plain(all, Suffix(g, b), TailSize) EXCEPT
                     !.tier = "summarized", !.card = {SummaryCard(script, view, g, b, z, {})}]
  BY <1>7 DEF SummaryTier, view
<1> QED BY <1>13, <1>14, <1>15, <1>16

(* A fork has the transcript, or that of a round that has no results yet, and no turn. *)
LEMMA ForkSessionKeeps == ASSUME HistoryInv, ForkSession PROVE HistoryInv'
<1>1. /\ phase' = "ready" /\ carried' = NoRequest /\ failures' = 0 /\ strategy' = strategy
      /\ \/ script' = script
         \/ phase = "running" /\ script' = Append(script, Card("call"))
  BY DEF ForkSession, Sends
<1>2. 0 \in 0..MaxFailures
  BY HistoryAssumption
<1>3. ScriptFits(script')
  <2>1. CASE script' = script
    BY <2>1 DEF HistoryInv
  <2>2. CASE phase = "running" /\ script' = Append(script, Card("call"))
    <3>1. script # << >>
      BY <2>2 DEF HistoryInv
    <3> QED BY <2>2, <3>1, EndsFit
  <2> QED BY <1>1, <2>1, <2>2
<1> QED BY <1>1, <1>2, <1>3 DEF HistoryInv

(* What waits for the user survives the process, a request does not. *)
LEMMA HistoryRestartKeeps == ASSUME HistoryInv, HistoryRestart PROVE HistoryInv'
<1>1. /\ phase \in {"running", "input", "permission"}
      /\ phase' = IF phase = "running" THEN "over" ELSE phase
      /\ carried' = NoRequest /\ failures' = 0
      /\ script' = script /\ strategy' = strategy
  BY DEF HistoryRestart
<1>2. 0 \in 0..MaxFailures
  BY HistoryAssumption
<1>3. phase' \in {"input", "permission", "over"} /\ (phase' \in {"input", "permission"} => phase' = phase)
  BY <1>1
<1> QED BY <1>1, <1>2, <1>3 DEF HistoryInv

(* The empty session. *)
LEMMA HistoryInitFits == HistoryInit => HistoryInv
<1> SUFFICES ASSUME HistoryInit PROVE HistoryInv
  OBVIOUS
<1>1. script = << >> /\ phase = "ready" /\ failures = 0 /\ carried = NoRequest /\ strategy \in Strategies
  BY DEF HistoryInit
<1>2. 0 \in 0..MaxFailures
  BY HistoryAssumption
<1>3. script \in Seq(CardSet) /\ DOMAIN script = {}
  BY <1>1
<1>4. StandsFit(script)
  <2>1. Exchange(script) = {}
    BY <1>3 DEF Exchange, OfKind
  <2> QED BY <2>1 DEF StandsFit
<1>5. ScriptFits(script)
  BY <1>1, <1>3, <1>4 DEF ScriptFits
<1> QED BY <1>1, <1>2, <1>5 DEF HistoryInv

(* Each step keeps the invariant. *)
LEMMA HistoryStep ==
    ASSUME HistoryInv, [HistoryNext]_historyVars PROVE HistoryInv'
<1>1. CASE HistoryNext
  BY <1>1, FollowUpTurnKeeps, AnswerInputKeeps, OverBudgetKeeps, EndTurnKeeps, AskInputKeeps, ParkCallKeeps,
     DenyCallKeeps, CancelTurnKeeps, AllowCallKeeps, ToolRoundKeeps, OverflowKeeps, ManualCompactKeeps,
     ForkSessionKeeps, HistoryRestartKeeps DEF HistoryNext
<1>2. CASE UNCHANGED historyVars
  BY <1>2 DEF historyVars, HistoryInv
<1> QED BY <1>1, <1>2

-----------------------------------------------------------------------------
(* What the invariant says of the projection and of the request *)

(* What Without computes, card by card. *)
LEMMA WithoutTable ==
    ASSUME NEW q \in Seq(Nat), NEW ns
    PROVE  \E at : /\ at[0] = << >>
                   /\ \A i \in 1..Len(q) : at[i] = IF q[i] \in ns THEN at[i - 1] ELSE Append(at[i - 1], q[i])
                   /\ at[Len(q)] = Without(q, ns)
<1> DEFINE N == Len(q)
           B == Seq(Nat)
           b == << >>
           next(i, x) == IF q[i] \in ns THEN x ELSE Append(x, q[i])
           st == [i \in 1..N |-> [x \in B |-> next(i, x)]]
           Is(f) == f = [i \in 0..N |-> IF i = 0 THEN << >> ELSE IF q[i] \in ns THEN f[i - 1]
                                                                 ELSE Append(f[i - 1], q[i])]
           at == CHOOSE f : Is(f)
<1>1. N \in Nat /\ b \in B
  OBVIOUS
<1>2. ASSUME NEW i \in 1..N, NEW x \in B PROVE next(i, x) \in B
  <2>1. q[i] \in Nat
    OBVIOUS
  <2> QED BY <2>1
<1> HIDE DEF b, next
<1>3. PICK f : Iterates(f, B, b, st, N)
  <2>1. st \in [1..N -> [B -> B]]
    BY <1>2
  <2> HIDE DEF st, N, B
  <2> QED BY <1>1, <2>1, IterationExists
<1>4. f \in [0..N -> B] /\ f[0] = b
  BY <1>3 DEF Iterates
<1>5. ASSUME NEW i \in 1..N PROVE f[i] = next(i, f[i - 1])
  <2>1. f[i - 1] \in B
    <3>1. i - 1 \in 0..N
      BY <1>1
    <3> HIDE DEF B, N
    <3> QED BY <1>4, <3>1
  <2>2. f[i] = st[i][f[i - 1]]
    BY <1>3 DEF Iterates
  <2> HIDE DEF B
  <2> QED BY <2>1, <2>2
<1> HIDE DEF st
<1>6. Is(f)
  <2>1. \A i \in 0..N : f[i] = IF i = 0 THEN << >> ELSE IF q[i] \in ns THEN f[i - 1] ELSE Append(f[i - 1], q[i])
    <3> SUFFICES ASSUME NEW i \in 0..N
                 PROVE f[i] = IF i = 0 THEN << >> ELSE IF q[i] \in ns THEN f[i - 1] ELSE Append(f[i - 1], q[i])
      OBVIOUS
    <3>1. CASE i = 0
      BY <1>4, <3>1 DEF b
    <3>2. CASE i # 0
      <4>1. i \in 1..N
        BY <1>1, <3>2
      <4>2. f[i] = next(i, f[i - 1])
        BY <1>5, <4>1
      <4> QED BY <3>2, <4>2 DEF next
    <3> QED BY <3>1, <3>2
  <2> HIDE DEF N
  <2> QED BY <1>4, <2>1
<1>7. Is(at)
  <2> HIDE DEF Is
  <2> QED BY <1>6
<1>8. \A i \in 0..N : at[i] = IF i = 0 THEN << >> ELSE IF q[i] \in ns THEN at[i - 1] ELSE Append(at[i - 1], q[i])
  <2> HIDE DEF at, N
  <2> QED BY <1>7
<1>9. Without(q, ns) = at[N]
  BY DEF Without
<1> HIDE DEF at, Is
<1>10. at[0] = << >>
  BY <1>1, <1>8
<1>11. \A i \in 1..N : at[i] = IF q[i] \in ns THEN at[i - 1] ELSE Append(at[i - 1], q[i])
  <2> SUFFICES ASSUME NEW i \in 1..N PROVE at[i] = IF q[i] \in ns THEN at[i - 1] ELSE Append(at[i - 1], q[i])
    OBVIOUS
  <2>1. i \in 0..N /\ i # 0
    BY <1>1
  <2> QED BY <1>8, <2>1
<1> QED BY <1>9, <1>10, <1>11

(* Behind the place k of a table, the numbers of l follow one by one. *)
Copies(at, l, k) == \A i \in 1..Len(l) : at[k + i] = Append(at[k + (i - 1)], l[i])

(* From a place on where nothing is left out, what follows is what was there. *)
LEMMA WithoutTail ==
    ASSUME NEW q, NEW ns, NEW at, NEW h \in Seq(Nat), NEW l \in Seq(Nat), NEW k \in Nat, at[k] = h,
           Copies(at, l, k)
    PROVE  at[k + Len(l)] = h \o l
<1> DEFINE N == Len(l)
           T == {i \in 0..N : at[k + i] = h \o SubSeq(l, 1, i)}
<1>1. N \in Nat /\ SubSeq(l, 1, N) = l
  BY SubSeqFull
<1>2. 0 \in T
  <2>1. SubSeq(l, 1, 0) = << >>
    BY SubSeqEmpty
  <2>2. h \o << >> = h
    BY ConcatEmptySeq
  <2>3. k + 0 = k /\ 0 \in 0..N
    BY <1>1
  <2> QED BY <2>1, <2>2, <2>3
<1>3. ASSUME NEW i \in 1..N, i - 1 \in T PROVE i \in T
  <2>1. at[k + (i - 1)] = h \o SubSeq(l, 1, i - 1) /\ i \in 0..N /\ i - 1 \in Int /\ l[i] \in Nat
    BY <1>1, <1>3
  <2>2. PICK u : u = SubSeq(l, 1, i - 1)
    OBVIOUS
  <2>3. u \in Seq(Nat)
    <3>1. \A j \in 1..(i - 1) : l[j] \in Nat
      BY <1>1
    <3> QED BY <2>1, <2>2, <3>1, SubSeqProperties
  <2>4. SubSeq(l, 1, i) = u \o <<l[i]>>
    <3>1. 1 \in 1..Len(l) /\ i \in 1..Len(l)
      BY <1>1
    <3> QED BY <2>2, <3>1, SubSeqRecursiveSecond
  <2>5. SubSeq(l, 1, i) = Append(u, l[i])
    BY <2>1, <2>3, <2>4, OneMore
  <2>6. PICK n \in Nat : n = l[i]
    BY <2>1
  <2>7. Append(h \o u, n) = h \o Append(u, n)
    BY <2>3, AppendIs
  <2>8. at[k + i] = Append(h \o u, n)
    BY <2>1, <2>2, <2>6 DEF Copies
  <2> QED BY <2>1, <2>5, <2>6, <2>7, <2>8
<1> HIDE DEF T
<1>4. \A i \in 0..N : i \in T
  BY <1>1, <1>2, <1>3, Climb
<1>5. N \in 0..N
  BY <1>1
<1> QED BY <1>1, <1>4, <1>5 DEF T

(* Where nothing is to be left out nothing is. *)
LEMMA WithoutNone ==
    ASSUME NEW q \in Seq(Nat), NEW ns, \A i \in DOMAIN q : q[i] \notin ns PROVE Without(q, ns) = q
<1>1. PICK at : /\ at[0] = << >>
                /\ \A i \in 1..Len(q) : at[i] = IF q[i] \in ns THEN at[i - 1] ELSE Append(at[i - 1], q[i])
                /\ at[Len(q)] = Without(q, ns)
  BY WithoutTable
<1>2. Len(q) \in Nat /\ DOMAIN q = 1..Len(q)
  OBVIOUS
<1>3. \A i \in 1..Len(q) : at[0 + i] = Append(at[0 + (i - 1)], q[i])
  <2> SUFFICES ASSUME NEW i \in 1..Len(q) PROVE at[0 + i] = Append(at[0 + (i - 1)], q[i])
    OBVIOUS
  <2>1. 0 + i = i /\ 0 + (i - 1) = i - 1 /\ q[i] \notin ns
    BY <1>2
  <2> QED BY <1>1, <2>1
<1>4. PICK h : h = << >>
  OBVIOUS
<1>5. PICK k \in Nat : k = 0
  OBVIOUS
<1>6. h \in Seq(Nat) /\ at[k] = h /\ Copies(at, q, k)
  BY <1>1, <1>3, <1>4, <1>5 DEF Copies
<1>7. at[k + Len(q)] = h \o q
  BY <1>6, WithoutTail
<1>8. k + Len(q) = Len(q) /\ h \o q = q
  BY <1>2, <1>4, <1>5, ConcatEmptySeq
<1> QED BY <1>1, <1>7, <1>8

(* Two lists one after the other: what a place of the whole holds. *)
Joined(q, u, v) ==
    /\ q \in Seq(Nat) /\ Len(q) = Len(u) + Len(v) /\ Len(v) \in Nat /\ DOMAIN v = 1..Len(v)
    /\ \A i \in 1..(Len(u) + Len(v)) : q[i] = IF i <= Len(u) THEN u[i] ELSE v[i - Len(u)]

(* What a place in two joined lists holds. *)
LEMMA JoinIs ==
    ASSUME NEW u \in Seq(Nat), NEW v \in Seq(Nat), NEW q, q = u \o v PROVE Joined(q, u, v)
  BY ConcatProperties DEF Joined

(* A list of cards has its places, from one to its length. *)
LEMMA ListIs ==
    ASSUME NEW w \in Seq(Nat)
    PROVE  DOMAIN w = 1..Len(w) /\ Len(w) \in Nat
  OBVIOUS

(* Three lists one after the other, joined from either side. *)
LEMMA JoinThree ==
    ASSUME NEW u \in Seq(Nat), NEW v \in Seq(Nat), NEW w \in Seq(Nat)
    PROVE  (u \o v) \o w = u \o (v \o w)
  BY ConcatAssociative, SMTT(60)

(* The prompt that a summary replaces, behind the summary. *)
LEMMA WithoutSecond ==
    ASSUME NEW ns, NEW m \in Nat, NEW p \in Nat, NEW l \in Seq(Nat), m \notin ns, p \in ns,
           \A i \in DOMAIN l : l[i] \notin ns
    PROVE  Without(<<m, p>> \o l, ns) = <<m>> \o l
<1>0. PICK hd : hd = <<m, p>>
  OBVIOUS
<1>1. hd \in Seq(Nat) /\ Len(hd) = 2 /\ hd[1] = m /\ hd[2] = p
  BY <1>0
<1>2. PICK q : q = hd \o l
  OBVIOUS
<1>3. /\ q \in Seq(Nat) /\ Len(q) = 2 + Len(l) /\ Len(l) \in Nat /\ DOMAIN l = 1..Len(l)
      /\ \A i \in 1..(2 + Len(l)) : q[i] = IF i <= 2 THEN hd[i] ELSE l[i - 2]
  <2>1. Joined(q, hd, l)
    BY <1>1, <1>2, JoinIs
  <2> QED BY <1>1, <2>1 DEF Joined
<1>4. PICK at : /\ at[0] = << >>
                /\ \A i \in 1..Len(q) : at[i] = IF q[i] \in ns THEN at[i - 1] ELSE Append(at[i - 1], q[i])
                /\ at[Len(q)] = Without(q, ns)
  BY <1>3, WithoutTable
<1>5. q[1] = m /\ q[2] = p
  BY <1>1, <1>3
<1>6. at[1] = <<m>>
  <2>1. 1 \in 1..Len(q) /\ 1 - 1 = 0
    BY <1>3
  <2>2. at[1] = Append(<< >>, m)
    BY <1>4, <1>5, <2>1
  <2> QED BY <2>2
<1>7. at[2] = <<m>>
  <2>1. 2 \in 1..Len(q) /\ 2 - 1 = 1
    BY <1>3
  <2> QED BY <1>4, <1>5, <1>6, <2>1
<1>8. \A i \in 1..Len(l) : at[2 + i] = Append(at[2 + (i - 1)], l[i])
  <2> SUFFICES ASSUME NEW i \in 1..Len(l) PROVE at[2 + i] = Append(at[2 + (i - 1)], l[i])
    OBVIOUS
  <2>1. /\ 2 + i \in 1..Len(q) /\ (2 + i) - 1 = 2 + (i - 1) /\ ~(2 + i <= 2) /\ (2 + i) - 2 = i
        /\ 2 + i \in 1..(2 + Len(l))
    BY <1>3
  <2>2. q[2 + i] = l[i]
    BY <1>3, <2>1
  <2>3. l[i] \notin ns
    BY <1>3
  <2> QED BY <1>4, <2>1, <2>2, <2>3
<1>9. PICK h : h = <<m>>
  OBVIOUS
<1>10. PICK k \in Nat : k = 2
  OBVIOUS
<1>11. h \in Seq(Nat) /\ at[k] = h /\ Copies(at, l, k)
  BY <1>7, <1>8, <1>9, <1>10 DEF Copies
<1>12. at[k + Len(l)] = h \o l
  BY <1>11, WithoutTail
<1> QED BY <1>0, <1>2, <1>3, <1>4, <1>9, <1>10, <1>12

(* Nothing of the verbatim part is superseded, nor is the summary. *)
LEMMA SupersededIs ==
    ASSUME NEW s, ScriptFits(s)
    PROVE  /\ \A n \in Between(s, Floor(s), Len(s) + 1) : n \notin Superseded(s)
           /\ NewestSummary(s) \notin Superseded(s)
<1>1. /\ s \in Seq(CardSet) /\ DOMAIN s = 1..Len(s) /\ Len(s) \in Nat
      /\ NewestSummary(s) \in Nat /\ Floor(s) \in Nat
      /\ NewestSummary(s) # 0 => Floor(s) <= NewestSummary(s)
  BY PlacesAre
<1>2. ASSUME NEW n \in Between(s, Floor(s), Len(s) + 1) PROVE n \notin Superseded(s)
  <2>1. n \in Nat /\ Floor(s) <= n
    BY <1>1 DEF Between, Exchange, OfKind
  <2>2. ~(n < Floor(s))
    BY <1>1, <2>1
  <2> QED BY <2>2 DEF Superseded
<1>3. NewestSummary(s) \notin Superseded(s)
  <2>1. NewestSummary(s) # 0 => ~(NewestSummary(s) < Floor(s))
    BY <1>1
  <2>2. 0 \notin DOMAIN s
    BY <1>1
  <2> QED BY <2>1, <2>2 DEF Superseded
<1> QED BY <1>2, <1>3

(* The cards of a request that fits are the end of the projection. *)
LEMMA RequestIsEnd ==
    ASSUME NEW s, ScriptFits(s), NEW x, CardsFit(s, x),
           NEW mine, mine = Without(x, Superseded(s)), NEW whole, whole = Flat(ScanSegments(s, DOMAIN s))
    PROVE  /\ IsSuffix(mine, whole)
           /\ \A n \in Range(mine) : n = NewestSummary(s) \/ n \in Between(s, Floor(s), Len(s) + 1)
<1> DEFINE card == NewestSummary(s)
           end == Len(s) + 1
           Z == Between(s, Floor(s), end)
<1>0. PICK h : h = HeadOf(s)
  OBVIOUS
<1>1. /\ s \in Seq(CardSet) /\ Len(s) \in Nat /\ end \in Nat /\ card \in Nat /\ Floor(s) \in Nat
  BY PlacesAre
<1>2. PICK g : g = ScanSegments(s, DOMAIN s)
  OBVIOUS
<1>3. h \in Seq(Nat) /\ Headed(whole, h, Z)
  <2>1. Seen(s, g, Floor(s))
    BY <1>2, ScanSeen
  <2> QED BY <1>0, <1>2, <2>1, WholeIs
<1>4. PICK w : Lists(w, Z) /\ whole = h \o w
  BY <1>3 DEF Headed
<1>5. w \in Seq(Nat) /\ DOMAIN w = 1..Len(w) /\ Len(w) \in Nat /\ whole \in Seq(Nat)
  <2>1. w \in Seq(Nat)
    BY <1>4 DEF Lists
  <2>2. whole \in Seq(Nat)
    BY <1>3, <1>4, <2>1, JoinIs DEF Joined
  <2>3. DOMAIN w = 1..Len(w) /\ Len(w) \in Nat
    BY <2>1, ListIs
  <2> QED BY <2>1, <2>2, <2>3
<1>6. \A n \in Z : n \notin Superseded(s)
  BY SupersededIs
<1>7. card \notin Superseded(s)
  BY SupersededIs
<1> HIDE DEF card, Z, end
<1>8. ASSUME mine = whole
      PROVE  IsSuffix(mine, whole) /\ \A n \in Range(mine) : n = card \/ n \in Z
  <2>1. PICK none : none = << >>
    OBVIOUS
  <2>2. none \in Seq(Nat) /\ none \o whole = whole
    BY <1>5, <2>1, ConcatEmptySeq
  <2>3. IsSuffix(whole, none \o whole)
    BY <1>5, <2>2, SuffixIs
  <2>4. Range(whole) = Range(h) \cup Z
    BY <1>3, HeadedCards
  <2>5. \A n \in Range(h) : n = card
    <3>1. CASE card = 0
      <4>1. h = << >>
        BY <1>0, <3>1 DEF HeadOf, card
      <4> QED BY <4>1 DEF Range
    <3>2. CASE card # 0
      <4>1. h = <<card>>
        BY <1>0, <3>2 DEF HeadOf, card
      <4> QED BY <4>1 DEF Range
    <3> QED BY <3>1, <3>2
  <2> QED BY <1>8, <2>2, <2>3, <2>4, <2>5
<1>9. CASE \E c \in Nat : Floor(s) <= c /\ c <= end /\ Lists(x, Between(s, c, end))
  <2>1. PICK c \in Nat : Floor(s) <= c /\ c <= end /\ Lists(x, Between(s, c, end))
    BY <1>9
  <2>2. {n \in Z : n >= c} = Between(s, c, end)
    <3>1. Exchange(s) \subseteq Nat
      BY <1>1, ScriptDomain DEF Exchange, OfKind
    <3>2. \A n \in Nat : Floor(s) <= n /\ n >= c <=> c <= n
      BY <1>1, <2>1
    <3> QED BY <3>1, <3>2 DEF Between, Z
  <2>3. x \in Seq(Nat) /\ \A i \in DOMAIN x : x[i] \in Z
    <3>1. \A n \in Between(s, c, end) : n \in Z
      BY <2>2
    <3> QED BY <2>1, <3>1 DEF Lists
  <2>4. mine = x
    BY <1>6, <2>3, WithoutNone
  <2>5. PICK k \in 1..(Len(w) + 1) : Lists(SubSeq(w, k, Len(w)), {n \in Z : n >= c})
    BY <1>4, ListsEnd
  <2>6. SubSeq(w, k, Len(w)) = x
    BY <2>1, <2>2, <2>5, ListsOnce
  <2>7. PICK u : u = SubSeq(w, 1, k - 1)
    OBVIOUS
  <2>8. k - 1 \in 0..Len(w) /\ k - 1 \in Int /\ (k - 1) + 1 = k /\ 1 \in Int
    BY <1>5
  <2>9. u \in Seq(Nat)
    <3>1. \A i \in 1..(k - 1) : w[i] \in Nat
      BY <1>5, <2>8
    <3> QED BY <2>7, <2>8, <3>1, SubSeqProperties
  <2>10. u \o x = w
    <3>1. 1 \in 1..(Len(w) + 1) /\ k - 1 \in (1 - 1)..Len(w) /\ Len(w) \in (k - 1)..Len(w)
      BY <1>5, <2>8
    <3>2. SubSeq(w, 1, k - 1) \o SubSeq(w, (k - 1) + 1, Len(w)) = SubSeq(w, 1, Len(w))
      BY <1>5, <3>1, ConcatAdjacentSubSeq
    <3>3. SubSeq(w, 1, Len(w)) = w
      BY <1>5, SubSeqFull
    <3> QED BY <2>6, <2>7, <2>8, <3>2, <3>3
  <2>11. whole = (h \o u) \o x
    <3>1. (h \o u) \o x = h \o (u \o x)
      BY <1>3, <2>3, <2>9, JoinThree
    <3> QED BY <1>4, <2>10, <3>1
  <2>12. h \o u \in Seq(Nat)
    BY <1>3, <2>9, ConcatProperties
  <2>13. IsSuffix(x, (h \o u) \o x)
    BY <2>3, <2>12, SuffixIs
  <2>14. \A n \in Range(x) : n \in Z
    BY <2>3 DEF Range
  <2> QED BY <2>4, <2>11, <2>13, <2>14 DEF card, Z, end
<1>10. ASSUME card # 0, NEW l, Lists(l, Z) PROVE <<card>> \o l = whole
  <2>1. l = w
    BY <1>4, <1>10, ListsOnce
  <2>2. h = <<card>>
    BY <1>0, <1>10 DEF HeadOf, card
  <2> QED BY <1>4, <2>1, <2>2
<1>11. CASE card # 0 /\ Headed(x, <<card>>, Z)
  <2>1. PICK l : Lists(l, Z) /\ x = <<card>> \o l
    BY <1>11 DEF Headed
  <2>2. x = whole
    BY <1>10, <1>11, <2>1
  <2>3. \A n \in Range(x) : n \notin Superseded(s)
    <3>1. PICK hd : hd = <<card>>
      OBVIOUS
    <3>2. hd \in Seq(Nat) /\ Range(hd) = {card}
      BY <1>1, <3>1 DEF Range
    <3>3. Range(x) = Range(hd) \cup Z
      BY <1>11, <3>1, <3>2, HeadedCards
    <3> QED BY <1>6, <1>7, <3>2, <3>3
  <2>4. \A i \in DOMAIN x : x[i] \notin Superseded(s)
    BY <2>3 DEF Range
  <2>5. mine = x
    BY <1>5, <2>2, <2>4, WithoutNone
  <2>6. mine = whole
    BY <2>2, <2>5
  <2> QED BY <1>8, <2>6 DEF card, Z, end
<1>12. CASE /\ card # 0 /\ s[card].retain = 0
            /\ \E p \in DOMAIN s : p < card /\ Headed(x, <<card, p>>, Between(s, card, end))
  <2>1. PICK p \in DOMAIN s : p < card /\ Headed(x, <<card, p>>, Between(s, card, end))
    BY <1>12
  <2>2. Floor(s) = card
    BY <1>12, FloorIs DEF card
  <2>3. PICK l : Lists(l, Z) /\ x = <<card, p>> \o l
    BY <2>1, <2>2 DEF Headed, Z
  <2>4. p \in Nat /\ p \in Superseded(s)
    <3>1. DOMAIN s \subseteq Nat
      BY <1>1, ScriptDomain
    <3> QED BY <2>1, <2>2, <3>1 DEF Superseded
  <2>5. l \in Seq(Nat) /\ \A i \in DOMAIN l : l[i] \notin Superseded(s)
    BY <1>6, <2>3 DEF Lists
  <2>6. mine = <<card>> \o l
    BY <1>1, <1>7, <2>3, <2>4, <2>5, WithoutSecond
  <2>7. mine = whole
    BY <1>10, <1>12, <2>3, <2>6
  <2> QED BY <1>8, <2>7 DEF card, Z, end
<1> QED BY <1>9, <1>11, <1>12 DEF CardsFit, card, Z, end

(* The promises of the history that the invariant keeps. *)
LEMMA HistoryInvSays ==
    ASSUME HistoryInv, severed \subseteq Nat PROVE HistoryTypeOK /\ NothingForgotten /\ RequestIsProjection
<1>1. ScriptFits(script)
  BY DEF HistoryInv
<1>2. /\ script \in Seq(CardSet) /\ DOMAIN script = 1..Len(script) /\ Len(script) \in Nat
      /\ NewestSummary(script) \in Nat /\ Floor(script) \in Nat
      /\ NewestSummary(script) # 0 => /\ NewestSummary(script) \in DOMAIN script
                                      /\ script[NewestSummary(script)].kind = "summary"
  BY <1>1, PlacesAre
<1>3. HistoryTypeOK
  <2>1. ASSUME NEW n \in DOMAIN script
        PROVE  /\ script[n].kind \in Kinds
               /\ script[n].retain < n
               /\ \A m \in script[n].stands : m < n
    <3>1. CardFits(script, n)
      BY <1>1 DEF ScriptFits
    <3>2. script[n].kind \in Kinds
      BY <1>2, ScriptDomain
    <3> QED BY <3>1, <3>2 DEF CardFits
  <2> QED BY <2>1 DEF HistoryTypeOK, HistoryInv
<1>4. NothingForgotten
  <2>1. PICK g : g = ScanSegments(script, DOMAIN script)
    OBVIOUS
  <2>2. Between(script, Floor(script), Len(script) + 1) \subseteq CardsOf(g)
    <3>1. Seen(script, g, Floor(script))
      BY <1>1, <2>1, ScanSeen
    <3> QED BY <1>1, <3>1, WholeIs
  <2>3. ASSUME NEW n \in Exchange(script) PROVE n \in CardsOf(g) \cup Superseded(script)
    <3>1. n \in DOMAIN script /\ n \in Nat /\ n < Len(script) + 1
      BY <1>2 DEF Exchange, OfKind
    <3>2. CASE n < Floor(script)
      BY <3>1, <3>2 DEF Superseded
    <3>3. CASE ~(n < Floor(script))
      <4>1. Floor(script) <= n
        BY <1>2, <3>1, <3>3
      <4>2. n \in Between(script, Floor(script), Len(script) + 1)
        BY <3>1, <4>1 DEF Between
      <4> QED BY <2>2, <4>2
    <3> QED BY <3>2, <3>3
  <2>4. StandsFit(script)
    BY <1>1 DEF ScriptFits
  <2>5. PICK exchange : exchange = OfKind(script, {"user", "assistant", "call", "tool", "denied"})
    OBVIOUS
  <2>6. exchange = Exchange(script)
    BY <2>5 DEF Exchange, ExchangeKinds
  <2>7. exchange \subseteq CardsOf(g) \cup Superseded(script)
    BY <2>3, <2>6
  <2>8. \/ \A n \in exchange \cap Superseded(script) : n \in script[NewestSummary(script)].stands
        \/ \E n \in OfKind(script, {"summary"}) : Curtailed(script, n)
    BY <2>4, <2>6 DEF StandsFit, Superseded
  <2> QED BY <2>1, <2>5, <2>7, <2>8 DEF NothingForgotten
<1>5. RequestIsProjection
  <2> SUFFICES ASSUME phase = "running" PROVE RequestIsProjection
    BY DEF RequestIsProjection
  <2>1. RequestFits(script, carried)
    BY DEF HistoryInv
  <2>2. PICK mine : mine = Without(carried.cards, Superseded(script))
    OBVIOUS
  <2>3. PICK whole : whole = Flat(ScanSegments(script, DOMAIN script))
    OBVIOUS
  <2>4. /\ IsSuffix(mine, whole)
        /\ \A n \in Range(mine) : \/ n = NewestSummary(script)
                                  \/ n \in Between(script, Floor(script), Len(script) + 1)
    <3>1. CardsFit(script, carried.cards)
      BY <2>1 DEF RequestFits
    <3> QED BY <1>1, <2>2, <2>3, <3>1, RequestIsEnd
  <2>5. ASSUME NEW n \in Range(mine) PROVE n \in carried.skeletons <=> n \in Skeletons(script)
    <3>1. SkeletonsFit(script, carried.skeletons) /\ Skeletons(script) \subseteq ToolCards(script)
      BY <1>1, <2>1, SkeletonsAre DEF RequestFits
    <3>2. CASE n \in ToolCards(script)
      <4>1. n \in DOMAIN script /\ script[n].kind = "tool" /\ n \in Nat
        BY <1>2, <3>2 DEF ToolCards, OfKind
      <4>2. n # NewestSummary(script)
        <5>1. NewestSummary(script) # 0 => script[NewestSummary(script)].kind # "tool"
          BY <1>2
        <5>2. n # 0
          BY <1>2, <4>1
        <5> QED BY <4>1, <5>1, <5>2
      <4>3. n >= Floor(script)
        <5>1. Floor(script) <= n
          BY <2>4, <4>2 DEF Between
        <5> QED BY <1>2, <4>1, <5>1
      <4> QED BY <3>1, <3>2, <4>3 DEF SkeletonsFit
    <3>3. CASE n \notin ToolCards(script)
      BY <3>1, <3>3 DEF SkeletonsFit
    <3> QED BY <3>2, <3>3
  <2> QED BY <2>2, <2>3, <2>4, <2>5 DEF RequestIsProjection
<1> QED BY <1>3, <1>4, <1>5

-----------------------------------------------------------------------------
(* Each call and its answer *)

(* The card behind the card n answers a call. *)
Answered(s, n) == n + 1 \in DOMAIN s /\ s[n + 1].kind \in {"tool", "denied"}

(* No call is without an answer, those in the set out apart. *)
AllAnswered(s, out) == \A n \in DOMAIN s : s[n].kind = "call" /\ n \notin out => Answered(s, n)

(* Only the last card may be another call that waits. *)
Parked(s, out) == \A n \in DOMAIN s : s[n].kind = "call" /\ n \notin out /\ n # Len(s) => Answered(s, n)

(* What a turn leaves behind has no call without an answer, unless a fork left the answer
   behind or the turn waits for the permission of its last call. *)
AnswersFit ==
    /\ severed \subseteq Nat
    /\ phase \in {"ready", "running", "input"} => AllAnswered(script, severed)
    /\ phase = "permission" => Parked(script, severed)

(* The card of an outcome is no call. *)
Aside(x) == x = << >> \/ \E c \in CardSet : c.kind # "call" /\ x = <<c>>

(* What one more card means for the calls: it is a call that waits, or an answer to the one
   that did, or something else. *)
LEMMA AnswersGrow ==
    ASSUME NEW out, NEW s \in Seq(CardSet), NEW c \in CardSet, NEW t, t = Append(s, c)
    PROVE  /\ t \in Seq(CardSet)
           /\ AllAnswered(s, out) /\ c.kind # "call" => AllAnswered(t, out)
           /\ AllAnswered(s, out) => Parked(t, out)
           /\ Parked(s, out) /\ c.kind \in {"tool", "denied"} => AllAnswered(t, out)
<1>1. PICK n : n = Len(s) + 1
  OBVIOUS
<1>2. Grown(s, c, t, n)
  BY <1>1, GrowIs
<1>3. /\ t \in Seq(CardSet) /\ Len(t) = n /\ n \in Nat /\ n \in DOMAIN t /\ t[n] = c
      /\ \A m \in DOMAIN t : m \in DOMAIN s \/ m = n
      /\ \A m \in DOMAIN s : m \in Nat /\ m < n /\ m \in DOMAIN t /\ t[m] = s[m]
  BY <1>2 DEF Grown
<1>4. Len(s) \in Nat
  OBVIOUS
<1>5. ASSUME NEW m \in DOMAIN s, Answered(s, m) PROVE Answered(t, m)
  BY <1>3, <1>5 DEF Answered
<1>6. ASSUME AllAnswered(s, out), c.kind # "call" PROVE AllAnswered(t, out)
  <2> SUFFICES ASSUME NEW m \in DOMAIN t, t[m].kind = "call", m \notin out PROVE Answered(t, m)
    BY DEF AllAnswered
  <2>1. m \in DOMAIN s /\ s[m].kind = "call"
    BY <1>3, <1>6
  <2> QED BY <1>5, <1>6, <2>1 DEF AllAnswered
<1>7. ASSUME AllAnswered(s, out) PROVE Parked(t, out)
  <2> SUFFICES ASSUME NEW m \in DOMAIN t, t[m].kind = "call", m \notin out, m # Len(t)
               PROVE  Answered(t, m)
    BY DEF Parked
  <2>1. m \in DOMAIN s /\ s[m].kind = "call"
    BY <1>3
  <2> QED BY <1>5, <1>7, <2>1 DEF AllAnswered
<1>8. ASSUME Parked(s, out), c.kind \in {"tool", "denied"} PROVE AllAnswered(t, out)
  <2> SUFFICES ASSUME NEW m \in DOMAIN t, t[m].kind = "call", m \notin out PROVE Answered(t, m)
    BY DEF AllAnswered
  <2>1. m \in DOMAIN s /\ s[m].kind = "call" /\ m \in Nat
    BY <1>3, <1>8
  <2>2. CASE m = Len(s)
    <3>1. m + 1 = n
      BY <1>1, <2>2
    <3> QED BY <1>3, <1>8, <3>1 DEF Answered
  <2>3. CASE m # Len(s)
    BY <1>5, <1>8, <2>1, <2>3 DEF Parked
  <2> QED BY <2>2, <2>3
<1> QED BY <1>3, <1>6, <1>7, <1>8

(* The card of an outcome leaves no call behind. *)
LEMMA AsideAnswers ==
    ASSUME NEW out, NEW s \in Seq(CardSet), AllAnswered(s, out), NEW x, Aside(x), NEW t, t = s \o x
    PROVE  AllAnswered(t, out)
<1>1. CASE x = << >>
  <2>1. t = s
    BY <1>1
  <2> QED BY <2>1
<1>2. ASSUME NEW c \in CardSet, c.kind # "call", x = <<c>> PROVE AllAnswered(t, out)
  <2>1. t = Append(s, c)
    BY <1>2, OneMore
  <2> QED BY <1>2, <2>1, AnswersGrow
<1> QED BY <1>1, <1>2 DEF Aside

(* One card at the end of what a turn has left. *)
LEMMA CardAnswers ==
    ASSUME NEW out, NEW s \in Seq(CardSet), NEW kind \in Kinds, NEW t, t = Append(s, Card(kind))
    PROVE  /\ t \in Seq(CardSet)
           /\ AllAnswered(s, out) /\ kind # "call" => AllAnswered(t, out)
           /\ AllAnswered(s, out) => Parked(t, out)
           /\ Parked(s, out) /\ kind \in {"tool", "denied"} => AllAnswered(t, out)
<1>1. PICK c : c = Card(kind)
  OBVIOUS
<1>2. c \in CardSet /\ c.kind = kind
  BY <1>1, CardTyped DEF Card
<1>3. t = Append(s, c)
  BY <1>1
<1> QED BY <1>2, <1>3, AnswersGrow

(* The card of an elision or of a summary is no call. *)
LEMMA CompactionAside ==
    ASSUME NEW s, ScriptFits(s), NEW a, NEW g, Seen(s, g, a), SummarySizes \subseteq Nat,
           NEW b \in 1..Len(g)
    PROVE  /\ Aside(<<ElisionCard(ToolsBefore(s, g, b))>>)
           /\ \A k : \A z \in SummarySizes, folded \in SUBSET Nat : Aside(<<SummaryCard(s, k, g, b, z, folded)>>)
<1>1. s \in Seq(CardSet) /\ DOMAIN s \subseteq Nat
  BY PlacesAre, ScriptDomain
<1>2. Aside(<<ElisionCard(ToolsBefore(s, g, b))>>)
  <2>1. PICK ns : ns = ToolsBefore(s, g, b)
    OBVIOUS
  <2>2. ns \in SUBSET Nat
    BY <1>1, <2>1, ToolsAre DEF ToolCards, OfKind
  <2>3. PICK c : c = ElisionCard(ns)
    OBVIOUS
  <2>4. c \in CardSet /\ c.kind = "elision"
    BY <2>2, <2>3, CardTyped
  <2>5. Aside(<<c>>)
    BY <2>4 DEF Aside
  <2> QED BY <2>1, <2>3, <2>5
<1>3. ASSUME NEW k, NEW z \in SummarySizes, NEW folded \in SUBSET Nat
      PROVE  Aside(<<SummaryCard(s, k, g, b, z, folded)>>)
  <2>1. PICK cut : cut = Place(s, g, b)
    OBVIOUS
  <2>2. SummaryFits(s, k, g, b, cut)
    BY <2>1, SummaryIs
  <2>3. PICK c : c = SummaryCard(s, k, g, b, z, folded)
    OBVIOUS
  <2>4. c \in CardSet /\ c.kind = "summary"
    BY <2>2, <2>3 DEF SummaryFits
  <2>5. Aside(<<c>>)
    BY <2>4 DEF Aside
  <2> QED BY <2>3, <2>5
<1> QED BY <1>2, <1>3

(* The audit card of a failure. *)
LEMMA AuditAside == Aside(<<Card("audit")>>)
<1>1. PICK c : c = Card("audit")
  OBVIOUS
<1>2. c \in CardSet /\ c.kind = "audit"
  BY <1>1, CardTyped DEF Card, Kinds
<1>3. Aside(<<c>>)
  BY <1>2 DEF Aside
<1> QED BY <1>1, <1>3

(* What the start of a turn puts behind the prompt. *)
LEMMA PreparedAside ==
    ASSUME NEW s, ScriptFits(s), NEW a, NEW g, Seen(s, g, a), SummarySizes \subseteq Nat,
           NEW n \in Nat, NEW o, Prepared(o, s, g, n)
    PROVE  Aside(CardFor(o))
<1>1. CASE CardFor(o) = << >>
  BY <1>1 DEF Aside
<1>2. CASE CardFor(o) = <<Card("audit")>>
  BY <1>2, AuditAside
<1>3. ASSUME NEW b \in 1..Len(g), CardFor(o) = <<ElisionCard(ToolsBefore(s, g, b))>> PROVE Aside(CardFor(o))
  BY <1>3, CompactionAside
<1>4. ASSUME NEW b \in 1..Len(g), NEW z \in SummarySizes, NEW k,
             CardFor(o) = <<SummaryCard(s, k, g, b, z, IF RetainFrom(g, b) = 0 THEN {n} ELSE {})>>
      PROVE  Aside(CardFor(o))
  <2>1. PICK folded : folded = IF RetainFrom(g, b) = 0 THEN {n} ELSE {}
    OBVIOUS
  <2>2. folded \in SUBSET Nat
    BY <2>1
  <2>3. CardFor(o) = <<SummaryCard(s, k, g, b, z, folded)>>
    BY <1>4, <2>1
  <2> QED BY <2>2, <2>3, CompactionAside
<1> QED BY <1>1, <1>2, <1>3, <1>4 DEF Prepared

(* What compaction between two requests puts behind the round. *)
LEMMA MidTurnedAside ==
    ASSUME NEW s, ScriptFits(s), NEW a, NEW g, Seen(s, g, a), SummarySizes \subseteq Nat,
           NEW r, NEW o, MidTurned(o, s, g, r)
    PROVE  Aside(o.card)
<1>1. CASE o.card = << >>
  BY <1>1 DEF Aside
<1>2. CASE o.card = <<Card("audit")>>
  BY <1>2, AuditAside
<1>3. ASSUME NEW b \in 1..Len(g), o.card = <<ElisionCard(ToolsBefore(s, g, b))>> PROVE Aside(o.card)
  BY <1>3, CompactionAside
<1>4. ASSUME NEW b \in 1..Len(g), NEW z \in SummarySizes, NEW k,
             o.card = <<SummaryCard(s, k, g, b, z, {})>>
      PROVE  Aside(o.card)
  <2>1. PICK folded : folded = {}
    OBVIOUS
  <2>2. folded \in SUBSET Nat
    BY <2>1
  <2>3. o.card = <<SummaryCard(s, k, g, b, z, folded)>>
    BY <1>4, <2>1
  <2> QED BY <2>2, <2>3, CompactionAside
<1> QED BY <1>1, <1>2, <1>3, <1>4 DEF MidTurned

(* The start of a turn: the prompt, and the card of the outcome. *)
LEMMA TurnAnswers ==
    ASSUME HistoryInv, AllAnswered(script, severed),
           NEW n, n = Len(script) + 1, NEW o \in Prepare(script, ScanSegments(script, DOMAIN script), Skeletons(script), n),
           NEW t, t = script \o <<Card("user")>> \o CardFor(o)
    PROVE  AllAnswered(t, severed)
<1>1. ScriptFits(script) /\ failures \in 0..MaxFailures /\ MaxFailures \in Nat /\ SummarySizes \subseteq Nat
  BY HistoryAssumption DEF HistoryInv
<1>2. script \in Seq(CardSet) /\ Len(script) \in Nat
  BY <1>1, PlacesAre
<1>3. PICK g : g = ScanSegments(script, DOMAIN script)
  OBVIOUS
<1>0. PICK a : Seen(script, g, a)
  BY <1>1, <1>3, ScanSeen
<1>4. g \in Seq(SegmentSet)
  BY <1>0, <1>1, WholeIs
<1>5. o \in Prepare(script, g, Skeletons(script), n)
  BY <1>3
<1>6. Prepared(o, script, g, n)
  BY <1>1, <1>4, <1>5, PrepareIs
<1>7. n \in Nat
  BY <1>2
<1>8. PICK x : x = CardFor(o)
  OBVIOUS
<1>9. Aside(x)
  BY <1>0, <1>1, <1>6, <1>7, <1>8, PreparedAside
<1>10. PICK c : c = Card("user")
  OBVIOUS
<1>11. c \in CardSet
  BY <1>10, CardTyped DEF Kinds
<1>12. PICK u : u = Append(script, c)
  OBVIOUS
<1>13. u \in Seq(CardSet) /\ AllAnswered(u, severed)
  <2>1. PICK kind \in Kinds : kind = "user"
    BY DEF Kinds
  <2>2. u = Append(script, Card(kind))
    BY <1>10, <1>12, <2>1
  <2> QED BY <1>2, <2>1, <2>2, CardAnswers
<1>14. script \o <<c>> = u
  BY <1>2, <1>11, <1>12, OneMore
<1>15. t = u \o x
  BY <1>8, <1>10, <1>14
<1> QED BY <1>9, <1>13, <1>15, AsideAnswers

(* A turn starts with an idle session, whose calls are answered. *)
LEMMA FollowUpTurnAnswers == ASSUME HistoryInv, AnswersFit, FollowUpTurn PROVE AnswersFit'
<1>1. PICK n : n = Len(script) + 1
  OBVIOUS
<1>2. PICK o \in Prepare(script, ScanSegments(script, DOMAIN script), Skeletons(script), n) :
         script' = script \o <<Card("user")>> \o CardFor(o)
  BY <1>1 DEF FollowUpTurn
<1>3. phase = "ready" /\ phase' = "running" /\ severed' = severed
  BY DEF FollowUpTurn
<1>4. AllAnswered(script, severed)
  BY <1>3 DEF AnswersFit
<1>5. AllAnswered(script', severed')
  BY <1>1, <1>2, <1>3, <1>4, TurnAnswers
<1> QED BY <1>3, <1>5 DEF AnswersFit

(* The answer of the user is no call. *)
LEMMA AnswerInputAnswers == ASSUME HistoryInv, AnswersFit, AnswerInput PROVE AnswersFit'
<1>1. PICK n : n = Len(script) + 1
  OBVIOUS
<1>2. PICK o \in Prepare(script, ScanSegments(script, DOMAIN script), Skeletons(script), n) :
         \/ phase' = "over"
         \/ script' = script \o <<Card("user")>> \o CardFor(o) /\ phase' = "running"
  BY <1>1 DEF AnswerInput, Abandon
<1>3. phase = "input" /\ severed' = severed
  BY DEF AnswerInput
<1>4. AllAnswered(script, severed)
  BY <1>3 DEF AnswersFit
<1>5. CASE phase' = "over"
  BY <1>3, <1>5 DEF AnswersFit
<1>6. CASE script' = script \o <<Card("user")>> \o CardFor(o) /\ phase' = "running"
  <2>1. AllAnswered(script', severed')
    BY <1>1, <1>3, <1>4, <1>6, TurnAnswers
  <2> QED BY <1>3, <1>6, <2>1 DEF AnswersFit
<1> QED BY <1>2, <1>5, <1>6

(* The last cards of a turn are no calls. *)
LEMMA EndTurnAnswers == ASSUME HistoryInv, AnswersFit, NEW ending \in Endings, EndTurn(ending) PROVE AnswersFit'
<1>1. /\ phase = "running" /\ phase' = ending.phase /\ script' = script \o ending.cards /\ severed' = severed
  BY DEF EndTurn, Sends
<1>2. script \in Seq(CardSet) /\ AllAnswered(script, severed)
  BY <1>1, PlacesAre DEF HistoryInv, AnswersFit
<1>3. phase' \in {"ready", "over"}
  BY <1>1 DEF Endings
<1>4. PICK a : a = Card("assistant")
  OBVIOUS
<1>5. PICK b : b = Card("check")
  OBVIOUS
<1>6. a \in CardSet /\ b \in CardSet /\ a.kind = "assistant" /\ b.kind = "check"
  BY <1>4, <1>5, CardTyped DEF Kinds, Card
<1>7. ending.cards = << >> \/ ending.cards = <<a>> \/ ending.cards = <<a, b>>
  BY <1>4, <1>5 DEF Endings
<1>8. PICK u : u = Append(script, a)
  OBVIOUS
<1>9. PICK v : v = Append(u, b)
  OBVIOUS
<1>10. u \in Seq(CardSet) /\ AllAnswered(u, severed)
  BY <1>2, <1>6, <1>8, AnswersGrow
<1>11. AllAnswered(v, severed)
  BY <1>6, <1>9, <1>10, AnswersGrow
<1>12. script \o << >> = script /\ script \o <<a>> = u /\ script \o <<a, b>> = v
  BY <1>2, <1>6, <1>8, <1>9, OneMore, TwoMore
<1>13. AllAnswered(script', severed')
  BY <1>1, <1>2, <1>7, <1>10, <1>11, <1>12
<1> QED BY <1>1, <1>3, <1>13 DEF AnswersFit

(* A call that waits is the only one without an answer. *)
LEMMA ParkCallAnswers == ASSUME HistoryInv, AnswersFit, ParkCall PROVE AnswersFit'
<1>1. phase = "running" /\ phase' = "permission" /\ script' = Append(script, Card("call")) /\ severed' = severed
  BY DEF ParkCall, Sends
<1>2. script \in Seq(CardSet) /\ AllAnswered(script, severed)
  BY <1>1, PlacesAre DEF HistoryInv, AnswersFit
<1>3. Parked(script', severed')
  <2>1. PICK kind \in Kinds : kind = "call"
    BY DEF Kinds
  <2>2. PICK t : t = script'
    OBVIOUS
  <2>3. t = Append(script, Card(kind))
    BY <1>1, <2>1, <2>2
  <2> QED BY <1>1, <1>2, <2>2, <2>3, CardAnswers
<1> QED BY <1>1, <1>3 DEF AnswersFit

(* The answer to the call that waited. *)
LEMMA PermissionAnswers ==
    ASSUME HistoryInv, AnswersFit, phase = "permission",
           NEW kind \in {"tool", "denied"}, NEW t, t = Append(script, Card(kind))
    PROVE  AllAnswered(t, severed)
<1>1. script \in Seq(CardSet) /\ Parked(script, severed)
  BY PlacesAre DEF HistoryInv, AnswersFit
<1>2. kind \in Kinds
  BY DEF Kinds
<1> QED BY <1>1, <1>2, CardAnswers

(* A denial answers the call that waited. *)
LEMMA DenyCallAnswers == ASSUME HistoryInv, AnswersFit, DenyCall PROVE AnswersFit'
<1>1. phase = "permission" /\ phase' = "ready" /\ script' = Append(script, Card("denied")) /\ severed' = severed
  BY DEF DenyCall
<1>2. AllAnswered(script', severed')
  BY <1>1, PermissionAnswers
<1> QED BY <1>1, <1>2 DEF AnswersFit

(* The result answers the call that waited. *)
LEMMA AllowCallAnswers == ASSUME HistoryInv, AnswersFit, AllowCall PROVE AnswersFit'
<1>1. phase = "permission" /\ phase' = "running" /\ script' = Append(script, Card("tool")) /\ severed' = severed
  BY DEF AllowCall
<1>2. AllAnswered(script', severed')
  BY <1>1, PermissionAnswers
<1> QED BY <1>1, <1>2 DEF AnswersFit

(* What compaction does to the turn whose transcript is s. *)
LEMMA CompactAnswers ==
    ASSUME HistoryInv, NEW s, ScriptFits(s), s # << >>, AllAnswered(s, severed), NEW r,
           severed' = severed, severed \subseteq Nat,
           NEW forced \in BOOLEAN, NEW o \in MidTurn(s, r, forced), Compact(s, o)
    PROVE  AnswersFit'
<1>1. failures \in 0..MaxFailures /\ MaxFailures \in Nat /\ SummarySizes \subseteq Nat
  BY HistoryAssumption DEF HistoryInv
<1>2. s \in Seq(CardSet)
  BY PlacesAre
<1>3. PICK g : g = ScanSegments(s, WindowOf(s))
  OBVIOUS
<1>4. PICK a : Seen(s, g, a)
  BY <1>3, WindowSeen
<1>5. g \in Seq(SegmentSet)
  BY <1>4, WholeIs
<1>6. MidTurned(o, s, g, r)
  BY <1>1, <1>3, <1>5, MidTurnIs
<1>7. PICK x : x = o.card
  OBVIOUS
<1>8. Aside(x)
  BY <1>1, <1>4, <1>6, <1>7, MidTurnedAside
<1>9. phase' = "over" \/ (script' = s \o o.card /\ phase' = "running")
  BY DEF Compact, Abandon
<1>10. CASE phase' = "over"
  BY <1>10 DEF AnswersFit
<1>11. CASE script' = s \o o.card /\ phase' = "running"
  <2>1. AllAnswered(script', severed')
    BY <1>2, <1>7, <1>8, <1>11, AsideAnswers
  <2> QED BY <1>11, <2>1 DEF AnswersFit
<1> QED BY <1>9, <1>10, <1>11

(* A round: a call and at once its result. *)
LEMMA RoundAnswers ==
    ASSUME NEW out, NEW s \in Seq(CardSet), AllAnswered(s, out), NEW t, t = s \o <<Card("call"), Card("tool")>>
    PROVE  AllAnswered(t, out)
<1>1. PICK a : a = Card("call")
  OBVIOUS
<1>2. PICK b : b = Card("tool")
  OBVIOUS
<1>3. a \in CardSet /\ b \in CardSet /\ a.kind = "call" /\ b.kind = "tool"
  BY <1>1, <1>2, CardTyped DEF Kinds, Card
<1>4. PICK u : u = Append(s, a)
  OBVIOUS
<1>5. u \in Seq(CardSet) /\ Parked(u, out)
  BY <1>3, <1>4, AnswersGrow
<1>6. PICK v : v = Append(u, b)
  OBVIOUS
<1>7. AllAnswered(v, out)
  <2>1. b.kind \in {"tool", "denied"}
    BY <1>3
  <2> QED BY <1>3, <1>5, <1>6, <2>1, AnswersGrow
<1>8. s \o <<a, b>> = v
  BY <1>3, <1>4, <1>6, TwoMore
<1> QED BY <1>1, <1>2, <1>7, <1>8

(* A round leaves no call without its result. *)
LEMMA ToolRoundAnswers == ASSUME HistoryInv, AnswersFit, ToolRound PROVE AnswersFit'
<1>1. PICK n : n = Len(script)
  OBVIOUS
<1>2. PICK s : s = script \o <<Card("call"), Card("tool")>>
  OBVIOUS
<1>3. PICK r : r = [carried EXCEPT !.cards = @ \o <<n + 1, n + 2>>]
  OBVIOUS
<1>4. /\ phase = "running" /\ severed' = severed
      /\ \E o \in MidTurn(s, r, FALSE) : Compact(s, o)
  BY <1>1, <1>2, <1>3 DEF ToolRound, Sends
<1>5. PICK o \in MidTurn(s, r, FALSE) : Compact(s, o)
  BY <1>4
<1>6. ScriptFits(script) /\ script # << >> /\ RequestFits(script, carried) /\ AllAnswered(script, severed)
      /\ severed \subseteq Nat
  BY <1>4 DEF HistoryInv, AnswersFit
<1>7. Runs(s, r, n + 2) /\ Len(s) = n + 2
  BY <1>1, <1>2, <1>3, <1>6, RoundFits
<1>8. ScriptFits(s) /\ s # << >>
  BY <1>7 DEF Runs
<1>9. script \in Seq(CardSet)
  BY <1>6, PlacesAre
<1>10. AllAnswered(s, severed)
  BY <1>2, <1>6, <1>9, RoundAnswers
<1>11. PICK forced \in BOOLEAN : forced = FALSE
  OBVIOUS
<1>12. o \in MidTurn(s, r, forced)
  BY <1>5, <1>11
<1> QED BY <1>4, <1>5, <1>6, <1>8, <1>10, <1>12, CompactAnswers

(* A forced compaction adds no call. *)
LEMMA OverflowAnswers == ASSUME HistoryInv, AnswersFit, Overflow PROVE AnswersFit'
<1>1. /\ phase = "running" /\ severed' = severed
      /\ \E o \in MidTurn(script, carried, TRUE) :
           (phase' = "ready" /\ script' = script) \/ Compact(script, o)
  BY DEF Overflow, Sends
<1>2. PICK o \in MidTurn(script, carried, TRUE) :
           (phase' = "ready" /\ script' = script) \/ Compact(script, o)
  BY <1>1
<1>3. ScriptFits(script) /\ script # << >> /\ AllAnswered(script, severed) /\ severed \subseteq Nat
  BY <1>1 DEF HistoryInv, AnswersFit
<1>4. CASE phase' = "ready" /\ script' = script
  BY <1>1, <1>3, <1>4 DEF AnswersFit
<1>5. CASE Compact(script, o)
  <2>1. PICK forced \in BOOLEAN : forced = TRUE
    OBVIOUS
  <2>2. o \in MidTurn(script, carried, forced)
    BY <2>1
  <2> QED BY <1>1, <1>3, <1>5, <2>2, CompactAnswers
<1> QED BY <1>2, <1>4, <1>5

(* A compaction of an idle session adds no call. *)
LEMMA ManualCompactAnswers == ASSUME HistoryInv, AnswersFit, ManualCompact PROVE AnswersFit'
<1>1. PICK g : g = ScanSegments(script, DOMAIN script)
  OBVIOUS
<1>2. PICK b : b = RetainBoundary(script, Skeletons(script), g)
  OBVIOUS
<1>3. PICK ns : ns = ToolsBefore(script, g, b)
  OBVIOUS
<1>4. PICK all : all = Skeletons(script) \cup ns
  OBVIOUS
<1>5. PICK plain : plain = Plain(Skeletons(script), g, TailSize)
  OBVIOUS
<1>6. /\ phase' = phase /\ phase = "ready" /\ severed' = severed /\ g # << >> /\ b > 0
      /\ \E o : /\ \/ o \in {[plain EXCEPT !.tier = "elided", !.card = {ElisionCard(ns)}]}
                   \/ o \in SummaryTier(script, all, g, b, TailSize, 0, {}, plain)
                /\ script' = IF o.tier = "failed" THEN script ELSE script \o CardFor(o)
  BY <1>1, <1>2, <1>3, <1>4, <1>5 DEF ManualCompact
<1>7. PICK o : /\ \/ o \in {[plain EXCEPT !.tier = "elided", !.card = {ElisionCard(ns)}]}
                  \/ o \in SummaryTier(script, all, g, b, TailSize, 0, {}, plain)
               /\ script' = IF o.tier = "failed" THEN script ELSE script \o CardFor(o)
  BY <1>6
<1>8. ScriptFits(script) /\ AllAnswered(script, severed)
  BY <1>6 DEF HistoryInv, AnswersFit
<1>0. PICK a : Seen(script, g, a)
  BY <1>1, <1>8, ScanSeen
<1>9. script \in Seq(CardSet) /\ g \in Seq(SegmentSet) /\ SummarySizes \subseteq Nat
  BY <1>0, <1>8, PlacesAre, WholeIs, HistoryAssumption
<1> DEFINE view == SourceView(script, all, g, b)
<1> HIDE DEF view
<1>10. b \in 1..Len(g)
  <2>1. b \in 0..Len(g)
    BY <1>2, <1>9, CutsAre
  <2> QED BY <1>6, <2>1
<1>11. ASSUME NEW x, Aside(x), script' = script \o x PROVE AnswersFit'
  <2>1. AllAnswered(script', severed')
    BY <1>6, <1>8, <1>9, <1>11, AsideAnswers
  <2> QED BY <1>6, <2>1 DEF AnswersFit
<1>12. CASE o = [plain EXCEPT !.tier = "elided", !.card = {ElisionCard(ns)}]
  <2>1. o.tier = "elided" /\ o.card = {ElisionCard(ns)}
    BY <1>5, <1>12 DEF Plain
  <2>2. CardFor(o) = <<ElisionCard(ns)>>
    BY <2>1, CardOfOne
  <2>3. PICK x : x = <<ElisionCard(ns)>>
    OBVIOUS
  <2>4. Aside(x)
    BY <1>0, <1>3, <1>8, <1>9, <1>10, <2>3, CompactionAside
  <2>5. script' = script \o x
    BY <1>7, <2>1, <2>2, <2>3
  <2> QED BY <1>11, <2>4, <2>5
<1>13. CASE o = [plain EXCEPT !.tier = "failed"]
  <2>1. o.tier = "failed"
    BY <1>5, <1>13 DEF Plain
  <2>2. script' = script
    BY <1>7, <2>1
  <2> QED BY <1>6, <1>8, <2>2 DEF AnswersFit
<1>14. ASSUME NEW z \in SummarySizes,
              o = [Plain(all, Suffix(g, b), TailSize) EXCEPT
                     !.tier = "summarized", !.card = {SummaryCard(script, view, g, b, z, {})}]
       PROVE  AnswersFit'
  <2>1. PICK folded : folded = {}
    OBVIOUS
  <2>2. folded \in SUBSET Nat
    BY <2>1
  <2>3. PICK e : e = SummaryCard(script, view, g, b, z, folded)
    OBVIOUS
  <2>4. o.tier = "summarized" /\ o.card = {e}
    BY <1>14, <2>1, <2>3 DEF Plain
  <2>5. CardFor(o) = <<e>>
    BY <2>4, CardOfOne
  <2>6. PICK x : x = <<e>>
    OBVIOUS
  <2>7. Aside(x)
    BY <1>0, <1>8, <1>9, <1>10, <2>2, <2>3, <2>6, CompactionAside
  <2>8. script' = script \o x
    BY <1>7, <2>4, <2>5, <2>6
  <2> QED BY <1>11, <2>7, <2>8
<1>15. \/ o = [plain EXCEPT !.tier = "elided", !.card = {ElisionCard(ns)}]
       \/ o = [plain EXCEPT !.tier = "failed"]
       \/ \E z \in SummarySizes :
             o = [Plain(all, Suffix(g, b), TailSize) EXCEPT
                     !.tier = "summarized", !.card = {SummaryCard(script, view, g, b, z, {})}]
  BY <1>7 DEF SummaryTier, view
<1> QED BY <1>12, <1>13, <1>14, <1>15

(* The calls that a fork leaves without an answer are those of its transcript. *)
LEMMA ForkSessionAnswers == ASSUME HistoryInv', ForkSession PROVE AnswersFit'
<1>1. phase' = "ready" /\ severed' = Unanswered(script')
  BY DEF ForkSession
<1>2. PICK s : s = script'
  OBVIOUS
<1>3. s \in Seq(CardSet) /\ DOMAIN s = 1..Len(s) /\ Len(s) \in Nat
  <2>1. ScriptFits(s)
    BY <1>2 DEF HistoryInv
  <2> QED BY <2>1, PlacesAre
<1>4. PICK out : out = Unanswered(s)
  OBVIOUS
<1>5. out \subseteq Nat
  BY <1>3, <1>4 DEF Unanswered, OfKind
<1>6. ASSUME NEW n \in DOMAIN s, s[n].kind = "call", n \notin out PROVE Answered(s, n)
  <2>1. n # Len(s) /\ s[n + 1].kind \in {"tool", "denied"}
    BY <1>4, <1>6 DEF Unanswered, OfKind
  <2>2. n + 1 \in DOMAIN s
    BY <1>3, <2>1
  <2> QED BY <2>1, <2>2 DEF Answered
<1>7. AllAnswered(s, out)
  BY <1>6 DEF AllAnswered
<1> QED BY <1>1, <1>2, <1>4, <1>5, <1>7 DEF AnswersFit

(* A step keeps the answers. *)
LEMMA AnswersStep ==
    ASSUME HistoryInv, HistoryInv', AnswersFit, [HistoryNext]_historyVars
    PROVE  AnswersFit'
<1>1. CASE OverBudget \/ AskInput
  <2>1. phase = "running" /\ script' = script /\ phase' \in {"ready", "input"} /\ severed' = severed
    BY <1>1 DEF OverBudget, AskInput, Sends
  <2> QED BY <2>1 DEF AnswersFit
<1>2. CASE CancelTurn
  <2>1. phase' = "over" /\ severed' = severed
    BY <1>2 DEF CancelTurn
  <2> QED BY <2>1 DEF AnswersFit
<1>3. CASE ForkSession
  BY <1>3, ForkSessionAnswers
<1>4. CASE HistoryRestart
  <2>1. /\ phase \in {"running", "input", "permission"} /\ script' = script /\ severed' = severed
        /\ phase' = IF phase = "running" THEN "over" ELSE phase
    BY <1>4 DEF HistoryRestart
  <2>2. phase' = "over" \/ phase' = phase
    BY <2>1
  <2> QED BY <2>1, <2>2 DEF AnswersFit
<1>5. CASE UNCHANGED historyVars
  BY <1>5 DEF historyVars, AnswersFit
<1> QED BY <1>1, <1>2, <1>3, <1>4, <1>5, FollowUpTurnAnswers, AnswerInputAnswers, EndTurnAnswers,
           ParkCallAnswers, DenyCallAnswers, AllowCallAnswers, ToolRoundAnswers, OverflowAnswers,
           ManualCompactAnswers DEF HistoryNext

(* Behind a call of the verbatim part is its answer, and before an answer its call. *)
LEMMA PairsAre ==
    ASSUME NEW out, NEW s, ScriptFits(s), AllAnswered(s, out), NEW n \in Between(s, Floor(s), Len(s) + 1)
    PROVE  /\ n \in Nat /\ n \in DOMAIN s /\ s[n].kind \in ExchangeKinds
           /\ s[n].kind = "call" /\ n \notin out => /\ n + 1 \in Between(s, Floor(s), Len(s) + 1)
                                                    /\ s[n + 1].kind \in {"tool", "denied"}
           /\ s[n].kind \in {"tool", "denied"} => /\ n - 1 \in Between(s, Floor(s), Len(s) + 1)
                                                  /\ s[n - 1].kind = "call"
<1>1. /\ s \in Seq(CardSet) /\ DOMAIN s = 1..Len(s) /\ Len(s) \in Nat /\ Floor(s) \in Nat
  BY PlacesAre
<1>2. n \in DOMAIN s /\ s[n].kind \in ExchangeKinds /\ Floor(s) <= n /\ n < Len(s) + 1
  BY DEF Between, Exchange, OfKind
<1>3. n \in Nat
  BY <1>1, <1>2
<1>4. ASSUME s[n].kind = "call", n \notin out
      PROVE  n + 1 \in Between(s, Floor(s), Len(s) + 1) /\ s[n + 1].kind \in {"tool", "denied"}
  <2>1. n + 1 \in DOMAIN s /\ s[n + 1].kind \in {"tool", "denied"}
    BY <1>2, <1>4 DEF AllAnswered, Answered
  <2>2. Floor(s) <= n + 1 /\ n + 1 < Len(s) + 1
    BY <1>1, <1>2, <1>3, <2>1
  <2> QED BY <2>1, <2>2 DEF Between, Exchange, OfKind, ExchangeKinds
<1>5. ASSUME s[n].kind \in {"tool", "denied"}
      PROVE  n - 1 \in Between(s, Floor(s), Len(s) + 1) /\ s[n - 1].kind = "call"
  <2>1. n - 1 \in DOMAIN s /\ s[n - 1].kind = "call"
    <3>1. CardFits(s, n)
      BY <1>2 DEF ScriptFits
    <3> QED BY <1>5, <3>1 DEF CardFits
  <2>2. n # Floor(s)
    <3>1. PICK card : card = NewestSummary(s)
      OBVIOUS
    <3>2. CASE card = 0
      <4>1. Floor(s) = 1
        BY <3>1, <3>2, FloorIs
      <4>2. n # 1
        BY <1>1, <2>1
      <4> QED BY <4>1, <4>2
    <3>3. CASE card # 0
      <4>1. /\ s[card].kind = "summary"
            /\ Floor(s) = card \/ s[Floor(s)].kind = "user"
        BY <3>1, <3>3, FloorIs, PlacesAre
      <4> QED BY <1>5, <4>1
    <3> QED BY <3>2, <3>3
  <2>3. Floor(s) <= n - 1 /\ n - 1 < Len(s) + 1
    BY <1>1, <1>2, <1>3, <2>2
  <2> QED BY <2>1, <2>3 DEF Between, Exchange, OfKind, ExchangeKinds
<1> QED BY <1>2, <1>3, <1>4, <1>5

(* In an idle session the projection is the head and then the verbatim part: each call of
   it stands right before its answer. *)
LEMMA PairedSays == ASSUME HistoryInv, AnswersFit PROVE CallsArePaired
<1> SUFFICES ASSUME phase = "ready" PROVE CallsArePaired
  BY DEF CallsArePaired
<1>1. ScriptFits(script) /\ AllAnswered(script, severed)
  BY DEF HistoryInv, AnswersFit
<1>2. PICK s : s = script
  OBVIOUS
<1>3. PICK g : g = ScanSegments(s, DOMAIN s)
  OBVIOUS
<1>4. PICK cards : cards = Flat(g)
  OBVIOUS
<1>5. PICK h : h = HeadOf(s)
  OBVIOUS
<1>6. PICK Z : Z = Between(s, Floor(s), Len(s) + 1)
  OBVIOUS
<1>7. h \in Seq(Nat) /\ Headed(cards, h, Z)
  <2>1. Seen(s, g, Floor(s))
    BY <1>1, <1>2, <1>3, ScanSeen
  <2> QED BY <1>1, <1>2, <1>4, <1>5, <1>6, <2>1, WholeIs
<1>8. PICK w : Lists(w, Z) /\ cards = h \o w
  BY <1>7 DEF Headed
<1>9. w \in Seq(Nat) /\ \A j \in DOMAIN w : w[j] \in Z
  BY <1>8 DEF Lists
<1>10. DOMAIN w = 1..Len(w) /\ Len(w) \in Nat
  BY <1>9, ListIs
<1>11. /\ Len(h) \in Nat
       /\ \A i \in DOMAIN h : s[h[i]].kind = "summary" /\ h[i] # 0
       /\ DOMAIN h = 1..Len(h)
  <2>1. CASE NewestSummary(s) = 0
    <3>1. h = << >>
      BY <1>5, <2>1 DEF HeadOf
    <3> QED BY <3>1
  <2>2. CASE NewestSummary(s) # 0
    <3>1. PICK m : m = NewestSummary(s)
      OBVIOUS
    <3>2. h = <<m>> /\ s[m].kind = "summary" /\ m # 0
      BY <1>1, <1>2, <1>5, <2>2, <3>1, PlacesAre DEF HeadOf
    <3> QED BY <3>2
  <2> QED BY <2>1, <2>2
<1>12. PICK k \in Nat : k = Len(h)
  BY <1>11
<1>13. /\ DOMAIN cards = 1..(k + Len(w))
       /\ \A i \in DOMAIN h : cards[i] = h[i]
       /\ \A j \in DOMAIN w : j + k \in DOMAIN cards /\ cards[j + k] = w[j]
  BY <1>7, <1>8, <1>9, <1>12, ConcatAt
<1>14. ASSUME NEW i \in DOMAIN cards
       PROVE  /\ s[cards[i]].kind = "call" /\ cards[i] \notin severed =>
                     i + 1 \in DOMAIN cards /\ s[cards[i + 1]].kind \in {"tool", "denied"}
              /\ s[cards[i]].kind \in {"tool", "denied", "check"} =>
                     i - 1 \in DOMAIN cards /\ s[cards[i - 1]].kind = "call"
  <2>1. i \in Nat /\ 1 <= i /\ i <= k + Len(w)
    BY <1>10, <1>13
  <2>2. CASE i <= k
    <3>1. i \in DOMAIN h
      BY <1>11, <1>12, <2>1, <2>2
    <3>2. s[cards[i]].kind = "summary"
      BY <1>11, <1>13, <3>1
    <3> QED BY <3>2
  <2>3. CASE ~(i <= k)
    <3>1. PICK j \in Nat : j = i - k
      BY <2>1, <2>3
    <3>2. j \in DOMAIN w /\ i = j + k
      BY <1>10, <2>1, <2>3, <3>1
    <3>3. PICK n : n = w[j]
      OBVIOUS
    <3>4. n \in Z /\ cards[i] = n
      BY <1>9, <1>13, <3>2, <3>3
    <3>5. /\ n \in Nat /\ s[n].kind \in ExchangeKinds
          /\ s[n].kind = "call" /\ n \notin severed => n + 1 \in Z /\ s[n + 1].kind \in {"tool", "denied"}
          /\ s[n].kind \in {"tool", "denied"} => n - 1 \in Z /\ s[n - 1].kind = "call"
      BY <1>1, <1>2, <1>6, <3>4, PairsAre
    <3>6. ASSUME s[n].kind = "call", n \notin severed
          PROVE  i + 1 \in DOMAIN cards /\ s[cards[i + 1]].kind \in {"tool", "denied"}
      <4>1. n + 1 \in Z /\ s[n + 1].kind \in {"tool", "denied"}
        BY <3>5, <3>6
      <4>2. j + 1 \in DOMAIN w /\ w[j + 1] = n + 1
        BY <1>8, <3>2, <3>3, <4>1, ListsAfter
      <4>3. (j + 1) + k = i + 1
        BY <2>1, <3>2
      <4> QED BY <1>13, <4>1, <4>2, <4>3
    <3>7. ASSUME s[n].kind \in {"tool", "denied"}
          PROVE  i - 1 \in DOMAIN cards /\ s[cards[i - 1]].kind = "call"
      <4>1. n - 1 \in Z /\ s[n - 1].kind = "call"
        BY <3>5, <3>7
      <4>2. PICK m \in Z : m = n - 1
        BY <4>1
      <4>3. w[j] = m + 1
        BY <3>3, <3>5, <4>2
      <4>4. j - 1 \in DOMAIN w /\ w[j - 1] = m
        <5>1. PICK y \in DOMAIN w : y = j
          BY <3>2
        <5>2. w[y] = m + 1
          BY <4>3, <5>1
        <5>3. y - 1 \in DOMAIN w /\ w[y - 1] = m
          BY <1>8, <5>2, ListsBefore
        <5> QED BY <5>1, <5>3
      <4>5. (j - 1) + k = i - 1
        BY <2>1, <3>2
      <4> QED BY <1>13, <4>1, <4>2, <4>4, <4>5
    <3>8. s[n].kind # "check"
      BY <3>5 DEF ExchangeKinds
    <3> QED BY <3>4, <3>6, <3>7, <3>8
  <2> QED BY <2>2, <2>3
<1> QED BY <1>2, <1>3, <1>4, <1>14 DEF CallsArePaired

(* HistoryCorrect, whatever the sizes, the strategies, the tail page and the bound on what a
   summarizer reads: each card of the exchange is in the projection or superseded, the newest
   summary tells of all that was superseded unless the source of one was curtailed, the
   request in memory is what a restart would build, and in an idle session each tool call is
   followed at once by its one result, unless a fork left the result behind. *)
THEOREM HistorySafety == HistorySpec => []HistoryCorrect
<1>1. HistoryInit => HistoryInv
  BY HistoryInitFits
<1>2. HistoryInit => AnswersFit
  <2> SUFFICES ASSUME HistoryInit PROVE AnswersFit
    OBVIOUS
  <2>1. script = << >> /\ phase = "ready" /\ severed = {} /\ DOMAIN script = {}
    BY DEF HistoryInit
  <2> QED BY <2>1 DEF AnswersFit, AllAnswered
<1>3. HistoryInv /\ [HistoryNext]_historyVars => HistoryInv'
  BY HistoryStep
<1>4. HistoryInv /\ HistoryInv' /\ AnswersFit /\ [HistoryNext]_historyVars => AnswersFit'
  BY AnswersStep
<1>5. HistoryInv /\ AnswersFit => HistoryCorrect
  BY HistoryInvSays, PairedSays DEF HistoryCorrect, AnswersFit
<1> QED BY <1>1, <1>2, <1>3, <1>4, <1>5, PTL DEF HistorySpec
=============================================================================
