------------------------------- MODULE Loops --------------------------------
(***************************************************************************)
(* The loops of the library that go over the rows of a view are recursive  *)
(* functions of the number of a row here.  That there is such a function,  *)
(* and that what each round keeps the loop keeps, for any number of rows.  *)
(***************************************************************************)
EXTENDS WellFoundedInduction, TLAPS

(* A set of numbers that is not empty has a least one.                     *)
LEMMA LeastNumber ==
  ASSUME NEW S \in SUBSET Nat, S # {}
  PROVE  \E n \in S : \A m \in S : n <= m
<1>1. PICK n \in S : \A m \in S : ~ (<<m, n>> \in OpToRel(<, Nat))
  BY NatLessThanWellFounded, WFMin, Zenon
<1>2. ASSUME NEW m \in S, m < n
      PROVE  FALSE
  <2>1. n \in Nat /\ m \in Nat
    OBVIOUS
  <2>2. <<m, n>> \in OpToRel(<, Nat)
    BY <1>2, <2>1, Zenon DEF OpToRel
  <2> QED
    BY <1>1, <2>2
<1>3. \A m \in S : n <= m
  BY <1>2
<1> QED
  BY <1>3

(* What holds before a loop and what each round keeps holds throughout.    *)
LEMMA LoopStays ==
  ASSUME NEW N \in Nat, NEW S, NEW f, f[0] \in S,
         \A i \in 1 .. N : f[i - 1] \in S => f[i] \in S
  PROVE  \A i \in 0 .. N : f[i] \in S
<1> DEFINE Bad == {i \in 0 .. N : f[i] \notin S}
<1>1. SUFFICES ASSUME Bad # {}
               PROVE  FALSE
  OBVIOUS
<1>2. PICK n \in Bad : \A m \in Bad : n <= m
  <2>1. Bad \in SUBSET Nat
    OBVIOUS
  <2> HIDE DEF Bad
  <2> QED
    BY <1>1, <2>1, LeastNumber
<1>3. n \in 1 .. N /\ f[n] \notin S
  BY <1>2
<1>4. n - 1 \in 0 .. N /\ n - 1 \notin Bad
  BY <1>2, <1>3
<1> QED
  BY <1>3, <1>4

(* The loops from base on whose round i is step.                           *)
LoopsOf(N, S, base, step) ==
  {g \in [0 .. N -> S] : g[0] = base /\ \A i \in 1 .. N : g[i] = step[<<g[i - 1], i>>]}

LEMMA LoopExists ==
  ASSUME NEW N \in Nat, NEW S, NEW base \in S, NEW step,
         \A q \in S, i \in 1 .. N : step[<<q, i>>] \in S
  PROVE  LoopsOf(N, S, base, step) # {}
<1> USE DEF LoopsOf
<1> DEFINE Run(n) == LoopsOf(n, S, base, step)
           Bad == {n \in 0 .. N : Run(n) = {}}
<1>1. SUFFICES ASSUME Bad # {}
               PROVE  FALSE
  OBVIOUS
<1>2. PICK n \in Bad : \A m \in Bad : n <= m
  <2>1. Bad \in SUBSET Nat
    OBVIOUS
  <2> HIDE DEF Bad
  <2> QED
    BY <1>1, <2>1, LeastNumber
<1>3. CASE n = 0
  <2> DEFINE g == [i \in 0 .. 0 |-> base]
  <2>1. g \in [0 .. 0 -> S] /\ g[0] = base
    OBVIOUS
  <2>2. g \in Run(0)
    BY <2>1
  <2> QED
    BY <1>2, <1>3, <2>2
<1>4. CASE n # 0
  <2>1. n \in 1 .. N /\ n - 1 \in 0 .. N /\ n - 1 \notin Bad
    BY <1>2, <1>4
  <2>2. PICK g \in Run(n - 1) : TRUE
    BY <2>1
  <2> DEFINE last == step[<<g[n - 1], n>>]
             h == [i \in 0 .. n |-> IF i < n THEN g[i] ELSE last]
  <2>3. g \in [0 .. n - 1 -> S]
    BY <2>2
  <2>4. g[0] = base /\ \A i \in 1 .. n - 1 : g[i] = step[<<g[i - 1], i>>]
    BY <2>2
  <2>5. h \in [0 .. n -> S]
    <3>1. last \in S
      <4>1. g[n - 1] \in S
        BY <2>1, <2>3
      <4> QED
        BY <2>1, <4>1
    <3>2. \A i \in 0 .. n : i < n => i \in 0 .. n - 1
      BY <2>1
    <3> HIDE DEF last
    <3> QED
      BY <2>3, <3>1, <3>2
  <2>6. ASSUME NEW i \in 1 .. n
        PROVE  h[i] = step[<<h[i - 1], i>>]
    <3>1. CASE i = n
      <4>1. h[i] = last /\ h[i - 1] = g[n - 1]
        <5> HIDE DEF last
        <5> QED
          BY <2>1, <3>1
      <4> HIDE DEF h
      <4> QED
        BY <3>1, <4>1
    <3>2. CASE i # n
      <4>1. i \in 1 .. n - 1 /\ h[i] = g[i] /\ h[i - 1] = g[i - 1]
        <5> HIDE DEF last
        <5> QED
          BY <2>1, <3>2
      <4> HIDE DEF h
      <4> QED
        BY <2>4, <4>1
    <3> QED
      BY <3>1, <3>2
  <2>7. h[0] = base
    <3> HIDE DEF last
    <3> QED
      BY <2>1, <2>4
  <2>8. h \in Run(n)
    <3> HIDE DEF h
    <3> QED
      BY <2>5, <2>6, <2>7
  <2> QED
    BY <1>2, <2>8
<1> QED
  BY <1>3, <1>4

(* Loops that go down from N and look at the two results behind them.      *)
DownLoopsOf(N, S, base, step) ==
  {g \in [1 .. N + 2 -> S] :
     /\ g[N + 1] = base /\ g[N + 2] = base
     /\ \A i \in 1 .. N : g[i] = step[<<g[i + 1], g[i + 2], i>>]}

LEMMA DownLoopExists ==
  ASSUME NEW N \in Nat, NEW S, NEW base \in S, NEW step,
         \A p \in S, q \in S, i \in 1 .. N : step[<<p, q, i>>] \in S
  PROVE  DownLoopsOf(N, S, base, step) # {}
<1> DEFINE P == S \X S
           Turn(q, j) == <<step[<<q[1], q[2], N + 1 - j>>], q[1]>>
           turn == [x \in P \X (1 .. N) |-> Turn(x[1], x[2])]
<1>1. <<base, base>> \in P
  OBVIOUS
<1>2. ASSUME NEW q \in P, NEW j \in 1 .. N
      PROVE  turn[<<q, j>>] = Turn(q, j) /\ Turn(q, j) \in P
  <2>1. q[1] \in S /\ q[2] \in S /\ N + 1 - j \in 1 .. N
    OBVIOUS
  <2>2. step[<<q[1], q[2], N + 1 - j>>] \in S
    BY <2>1
  <2> QED
    BY <2>1, <2>2
<1> HIDE DEF turn, P
<1>3. LoopsOf(N, P, <<base, base>>, turn) # {}
  <2>1. \A q \in P, j \in 1 .. N : turn[<<q, j>>] \in P
    BY <1>2
  <2> HIDE DEF Turn
  <2> QED
    BY <1>1, <2>1, LoopExists
<1>4. PICK h \in [0 .. N -> P] : h[0] = <<base, base>> /\ \A j \in 1 .. N : h[j] = turn[<<h[j - 1], j>>]
  BY <1>3 DEF LoopsOf
<1>5. ASSUME NEW j \in 1 .. N
      PROVE  h[j] = <<step[<<h[j - 1][1], h[j - 1][2], N + 1 - j>>], h[j - 1][1]>>
  <2>1. h[j - 1] \in P
    BY <1>4
  <2> QED
    BY <1>2, <1>4, <2>1
<1>6. \A j \in 0 .. N : h[j][1] \in S
  BY <1>4 DEF P
<1> DEFINE g == [i \in 1 .. N + 2 |-> IF i = N + 2 THEN base ELSE h[N + 1 - i][1]]
<1>7. g \in [1 .. N + 2 -> S]
  <2>1. ASSUME NEW i \in 1 .. N + 2 PROVE (IF i = N + 2 THEN base ELSE h[N + 1 - i][1]) \in S
    <3>1. i # N + 2 => N + 1 - i \in 0 .. N
      OBVIOUS
    <3> QED
      BY <1>6, <3>1
  <2> QED
    BY <2>1
<1>8. g[N + 1] = base /\ g[N + 2] = base
  <2>1. g[N + 1] = h[N + 1 - (N + 1)][1] /\ N + 1 - (N + 1) = 0
    OBVIOUS
  <2> QED
    BY <1>4, <2>1
<1>9. ASSUME NEW i \in 1 .. N
      PROVE  g[i] = step[<<g[i + 1], g[i + 2], i>>]
  <2> DEFINE j == N + 1 - i
  <2>1. j \in 1 .. N /\ N + 1 - j = i /\ g[i] = h[j][1]
    OBVIOUS
  <2>2. h[j][1] = step[<<h[j - 1][1], h[j - 1][2], i>>]
    BY <1>5, <2>1
  <2>3. g[i + 1] = h[j - 1][1]
    <3>1. i + 1 \in 1 .. N + 2 /\ i + 1 # N + 2 /\ N + 1 - (i + 1) = j - 1
      OBVIOUS
    <3> QED
      BY <3>1
  <2>4. g[i + 2] = h[j - 1][2]
    <3>1. CASE j = 1
      <4>1. i + 2 = N + 2 + 1 - j /\ i + 2 = N + 2
        BY <3>1
      <4>2. g[N + 2] = base /\ h[0][2] = base /\ j - 1 = 0
        BY <1>4, <3>1
      <4> HIDE DEF g, j
      <4> QED
        BY <4>1, <4>2
    <3>2. CASE j # 1
      <4>1. PICK k \in 1 .. N : k = j - 1
        <5> HIDE DEF g
        <5> QED
          BY <2>1, <3>2
      <4>2. h[k][2] = h[k - 1][1]
        <5>1. h[k] = <<step[<<h[k - 1][1], h[k - 1][2], N + 1 - k>>], h[k - 1][1]>>
          BY <1>5
        <5> HIDE DEF g
        <5> QED
          BY <5>1
      <4>3. i + 2 \in 1 .. N + 2 /\ i + 2 # N + 2 /\ N + 1 - (i + 2) = k - 1
        BY <2>1, <3>2, <4>1
      <4>4. g[i + 2] = h[N + 1 - (i + 2)][1]
        BY <4>3
      <4> QED
        BY <4>1, <4>2, <4>3, <4>4
    <3> QED
      BY <3>1, <3>2
  <2> HIDE DEF g, j
  <2> QED
    BY <2>1, <2>2, <2>3, <2>4
<1> HIDE DEF g
<1>10. g \in DownLoopsOf(N, S, base, step)
  BY <1>7, <1>8, <1>9 DEF DownLoopsOf
<1> QED
  BY <1>10

(* What holds at its end and what each turn keeps holds throughout.        *)
LEMMA DownLoopStays ==
  ASSUME NEW N \in Nat, NEW S, NEW f, f[N + 1] \in S, f[N + 2] \in S,
         \A i \in 1 .. N : f[i + 1] \in S /\ f[i + 2] \in S => f[i] \in S
  PROVE  \A i \in 1 .. N + 2 : f[i] \in S
<1> DEFINE h == [j \in 0 .. N |-> <<f[N + 1 - j], f[N + 2 - j]>>]
<1>1. h[0] \in S \X S
  OBVIOUS
<1>2. ASSUME NEW j \in 1 .. N, h[j - 1] \in S \X S
      PROVE  h[j] \in S \X S
  <2>1. PICK i \in 1 .. N : i = N + 1 - j
    OBVIOUS
  <2>2. /\ j - 1 \in 0 .. N /\ N + 1 - (j - 1) = i + 1 /\ N + 2 - (j - 1) = i + 2
        /\ j \in 0 .. N /\ N + 1 - j = i /\ N + 2 - j = i + 1
    BY <2>1
  <2>3. h[j - 1] = <<f[i + 1], f[i + 2]>> /\ h[j] = <<f[i], f[i + 1]>>
    BY <2>2
  <2> HIDE DEF h
  <2>4. f[i + 1] \in S /\ f[i + 2] \in S
    BY <1>2, <2>3
  <2>5. f[i] \in S
    BY <2>4
  <2> QED
    BY <2>3, <2>4, <2>5
<1>3. \A j \in 0 .. N : h[j] \in S \X S
  <2> HIDE DEF h
  <2> QED
    BY <1>1, <1>2, LoopStays
<1>4. ASSUME NEW i \in 1 .. N + 1 PROVE f[i] \in S
  <2>1. N + 1 - i \in 0 .. N /\ N + 1 - (N + 1 - i) = i
    OBVIOUS
  <2>2. h[N + 1 - i] = <<f[i], f[N + 2 - (N + 1 - i)]>>
    BY <2>1
  <2> HIDE DEF h
  <2> QED
    BY <1>3, <2>1, <2>2
<1>5. \A i \in 1 .. N + 2 : i \in 1 .. N + 1 \/ i = N + 2
  OBVIOUS
<1> QED
  BY <1>4, <1>5

(* The same of a set of rounds: from the last two down to the first, and   *)
(* from the first up to the last.                                          *)
LEMMA DownToFirst ==
  ASSUME NEW N \in Nat, NEW Good, N + 1 \in Good, N + 2 \in Good,
         \A i \in 1 .. N : i + 1 \in Good /\ i + 2 \in Good => i \in Good
  PROVE  \A i \in 1 .. N + 2 : i \in Good
<1> DEFINE id == [i \in 1 .. N + 2 |-> i]
<1>1. \A i \in 1 .. N + 2 : id[i] = i
  OBVIOUS
<1> HIDE DEF id
<1>2. id[N + 1] \in Good /\ id[N + 2] \in Good
  BY <1>1
<1>3. \A i \in 1 .. N : id[i + 1] \in Good /\ id[i + 2] \in Good => id[i] \in Good
  <2>1. \A i \in 1 .. N : i \in 1 .. N + 2 /\ i + 1 \in 1 .. N + 2 /\ i + 2 \in 1 .. N + 2
    OBVIOUS
  <2> QED
    BY <1>1, <2>1
<1>4. \A i \in 1 .. N + 2 : id[i] \in Good
  BY <1>2, <1>3, DownLoopStays
<1> QED
  BY <1>1, <1>4

LEMMA UpToLast ==
  ASSUME NEW N \in Nat, NEW Good, 0 \in Good,
         \A i \in 1 .. N : i - 1 \in Good => i \in Good
  PROVE  \A i \in 0 .. N : i \in Good
<1> DEFINE id == [i \in 0 .. N |-> i]
<1>1. \A i \in 0 .. N : id[i] = i
  OBVIOUS
<1> HIDE DEF id
<1>2. id[0] \in Good
  BY <1>1
<1>3. \A i \in 1 .. N : id[i - 1] \in Good => id[i] \in Good
  <2>1. \A i \in 1 .. N : i \in 0 .. N /\ i - 1 \in 0 .. N
    OBVIOUS
  <2> QED
    BY <1>1, <2>1
<1>4. \A i \in 0 .. N : id[i] \in Good
  BY <1>2, <1>3, LoopStays
<1> QED
  BY <1>1, <1>4
=============================================================================
