--------------------------- MODULE Package_proofs ---------------------------
(***************************************************************************)
(* The streams, the storages and the summary information of a package, for *)
(* any names, data, views, objects and number of steps: each stream is in  *)
(* the list once, and the list is the map from names to data that a        *)
(* program takes it for; a cell reads what it was given; each storage has  *)
(* what it was given; and only the properties that were given change.      *)
(*                                                                         *)
(* The loops of the code are functions on an interval.  A lemma for each   *)
(* has it as a function to a set that no turn leaves; what a loop keeps is *)
(* then a choice of this set.                                              *)
(***************************************************************************)
EXTENDS Package, Loops, FiniteSetTheorems, SequenceTheorems

-----------------------------------------------------------------------------
(* The code of names: what a digit becomes, or two, and what a character   *)
(* of the code becomes again.                                              *)
LEMMA MimeFacts ==
  ASSUME NEW ch \in Nat
  PROVE  Mime(ch) = -1 \/ (Mime(ch) \in 0 .. 63 /\ Unmime(Mime(ch)) = ch)
BY DEF Mime, Unmime, Dot

(* A character of the code for one digit decodes to this digit.            *)
LEMMA DecodedSingle ==
  ASSUME NEW m \in 0 .. 63
  PROVE  Single(m) \in Nat /\ Coded(Single(m)) /\ Decoded(Single(m)) = <<Unmime(m)>>
<1>1. Single(m) \in Nat /\ Coded(Single(m)) /\ ~(Single(m) < Singles) /\ Single(m) - Singles = m
  BY DEF Single, Coded, Singles, Doubles, TableMark
<1> QED
  BY <1>1, Zenon DEF Decoded

(* A character of the code for two digits decodes to both.                 *)
LEMMA DecodedDouble ==
  ASSUME NEW m \in 0 .. 63, NEW next \in 0 .. 63
  PROVE  /\ Double(m, next) \in Nat /\ Coded(Double(m, next))
         /\ Decoded(Double(m, next)) = <<Unmime(m), Unmime(next)>>
<1>1. /\ Double(m, next) \in Nat /\ Coded(Double(m, next)) /\ Double(m, next) < Singles
      /\ Double(m, next) - Doubles = 64 * next + m
  BY DEF Double, Coded, Singles, Doubles, TableMark
<1>2. (64 * next + m) % 64 = m /\ (64 * next + m) \div 64 = next
  OBVIOUS
<1> QED
  BY <1>1, <1>2, Zenon DEF Decoded

(* The characters that a name is encoded in are characters.                *)
LEMMA EncodeTurnNat ==
  ASSUME NEW name \in Seq(Nat), NEW one \in Seq(Nat), NEW two \in Seq(Nat), NEW i \in 1 .. Len(name)
  PROVE  EncodeTurn(name, one, two, i) \in Seq(Nat)
<1>1. name[i] \in Nat /\ (i < Len(name) => name[i + 1] \in Nat)
  OBVIOUS
<1>2. \A c \in Nat : <<c>> \o one \in Seq(Nat) /\ <<c>> \o two \in Seq(Nat)
  OBVIOUS
<1>3. CASE Mime(name[i]) = -1
  BY <1>1, <1>2, <1>3, Zenon DEF EncodeTurn
<1>4. CASE Mime(name[i]) # -1 /\ ~(i < Len(name) /\ Mime(name[i + 1]) # -1)
  <2>1. Single(Mime(name[i])) \in Nat
    BY <1>1, <1>4, MimeFacts, DecodedSingle, Zenon
  <2> QED
    BY <1>2, <1>4, <2>1, Zenon DEF EncodeTurn
<1>5. CASE Mime(name[i]) # -1 /\ i < Len(name) /\ Mime(name[i + 1]) # -1
  <2>1. Double(Mime(name[i]), Mime(name[i + 1])) \in Nat
    BY <1>1, <1>5, MimeFacts, DecodedDouble, Zenon
  <2> QED
    BY <1>2, <1>5, <2>1, Zenon DEF EncodeTurn
<1> QED
  BY <1>3, <1>4, <1>5, Zenon

(* The loop of encode_streamname, from the end.                            *)
LEMMA EncodeLoop ==
  ASSUME NEW name \in Seq(Nat)
  PROVE  \E e \in [1 .. Len(name) + 2 -> Seq(Nat)] :
           /\ e[Len(name) + 1] = <<>> /\ e[Len(name) + 2] = <<>>
           /\ \A i \in 1 .. Len(name) : e[i] = EncodeTurn(name, e[i + 1], e[i + 2], i)
           /\ Encode(name) = e[1]
<1> DEFINE N == Len(name)
           S == Seq(Nat)
           step == [x \in S \X S \X (1 .. N) |-> EncodeTurn(name, x[1], x[2], x[3])]
<1>1. N \in Nat /\ \A i \in 1 .. N : name[i] \in Nat
  OBVIOUS
<1>2. ASSUME NEW p \in S, NEW q \in S, NEW i \in 1 .. N
      PROVE  step[<<p, q, i>>] = EncodeTurn(name, p, q, i) /\ EncodeTurn(name, p, q, i) \in S
  <2>1. EncodeTurn(name, p, q, i) \in S
    BY EncodeTurnNat
  <2> HIDE DEF S
  <2> QED
    BY <2>1
<1> HIDE DEF S, step
<1>3. PICK base \in S : base = <<>>
  BY EmptySeq DEF S
<1>4. \A p \in S, q \in S, i \in 1 .. N : step[<<p, q, i>>] \in S
  BY <1>2
<1>5. PICK g \in [1 .. N + 2 -> S] :
        /\ g[N + 1] = base /\ g[N + 2] = base
        /\ \A i \in 1 .. N : g[i] = step[<<g[i + 1], g[i + 2], i>>]
  <2>1. DownLoopsOf(N, S, base, step) # {}
    BY <1>1, <1>4, DownLoopExists
  <2> QED
    BY <2>1 DEF DownLoopsOf
<1>6. ASSUME NEW i \in 1 .. N PROVE g[i] = EncodeTurn(name, g[i + 1], g[i + 2], i)
  <2>1. i + 1 \in 1 .. N + 2 /\ i + 2 \in 1 .. N + 2
    BY <1>1
  <2>2. g[i + 1] \in S /\ g[i + 2] \in S
    BY <1>5, <2>1
  <2> QED
    BY <1>2, <1>5, <2>2
<1> DEFINE Body(f, i) == IF i > N THEN <<>> ELSE EncodeTurn(name, f[i + 1], f[i + 2], i)
           e == CHOOSE f : f = [i \in 1 .. N + 2 |-> Body(f, i)]
<1>7. g = [i \in 1 .. N + 2 |-> Body(g, i)]
  <2>1. ASSUME NEW i \in 1 .. N + 2 PROVE g[i] = Body(g, i)
    <3>1. CASE i \in 1 .. N
      BY <1>1, <1>6, <3>1
    <3>2. CASE i \notin 1 .. N
      <4>1. i = N + 1 \/ i = N + 2
        BY <1>1, <3>2
      <4> QED
        BY <1>1, <1>3, <1>5, <4>1
    <3> QED
      BY <3>1, <3>2
  <2> HIDE DEF Body
  <2> QED
    BY <1>5, <2>1
<1>8. e = [i \in 1 .. N + 2 |-> Body(e, i)]
  <2> HIDE DEF Body
  <2> QED
    BY <1>7
<1>9. Encode(name) = e[1]
  BY DEF Encode, EncodeTurn, Single, Double
<1> HIDE DEF e
<1>10. ASSUME NEW i \in 1 .. N + 2 PROVE e[i] = Body(e, i)
  <2> HIDE DEF Body
  <2> QED
    BY <1>8
<1>11. e[N + 1] = <<>> /\ e[N + 2] = <<>> /\ \A i \in 1 .. N : e[i] = EncodeTurn(name, e[i + 1], e[i + 2], i)
  <2>1. N + 1 \in 1 .. N + 2 /\ N + 2 \in 1 .. N + 2 /\ N + 1 > N /\ N + 2 > N
    BY <1>1
  <2>2. \A i \in 1 .. N : i \in 1 .. N + 2 /\ ~(i > N)
    BY <1>1
  <2> QED
    BY <1>10, <2>1, <2>2
<1>12. \A i \in 1 .. N + 2 : e[i] \in S
  <2>1. e[N + 1] \in S /\ e[N + 2] \in S
    BY <1>3, <1>11
  <2>2. ASSUME NEW i \in 1 .. N, e[i + 1] \in S, e[i + 2] \in S PROVE e[i] \in S
    <3>1. EncodeTurn(name, e[i + 1], e[i + 2], i) \in S
      BY <1>2, <2>2
    <3> QED
      BY <1>11, <3>1
  <2> QED
    BY <1>1, <2>1, <2>2, DownLoopStays
<1>13. e \in [1 .. N + 2 -> S]
  <2> HIDE DEF Body
  <2> QED
    BY <1>8, <1>12
<1> QED
  BY <1>9, <1>11, <1>13 DEF S

(* The loop of decode_streamname, from the end.                            *)
LEMMA DecodedNat ==
  ASSUME NEW ch \in Nat
  PROVE  Decoded(ch) \in Seq(Nat)
<1>1. \A m \in Nat : Unmime(m) \in Nat
  BY DEF Unmime, Dot
<1>2. CASE ~Coded(ch)
  <2>1. <<ch>> \in Seq(Nat)
    OBVIOUS
  <2> QED
    BY <1>2, <2>1, Zenon DEF Decoded
<1>3. CASE Coded(ch) /\ ch < Singles
  <2>1. (ch - Doubles) % 64 \in Nat /\ (ch - Doubles) \div 64 \in Nat
    BY <1>3 DEF Coded, Doubles
  <2>2. \A x, y \in Nat : <<x, y>> \in Seq(Nat)
    OBVIOUS
  <2> QED
    BY <1>1, <1>3, <2>1, <2>2, Zenon DEF Decoded
<1>4. CASE Coded(ch) /\ ~(ch < Singles)
  <2>1. ch - Singles \in Nat
    BY <1>4 DEF Singles
  <2>2. \A x \in Nat : <<x>> \in Seq(Nat)
    OBVIOUS
  <2> QED
    BY <1>1, <1>4, <2>1, <2>2, Zenon DEF Decoded
<1> QED
  BY <1>2, <1>3, <1>4, Zenon

(* The loop of decode_streamname, from the end.                            *)
LEMMA DecodeLoop ==
  ASSUME NEW name \in Seq(Nat)
  PROVE  \E d \in [1 .. Len(name) + 1 -> Seq(Nat)] :
           /\ d[Len(name) + 1] = <<>>
           /\ \A i \in 1 .. Len(name) : d[i] = Decoded(name[i]) \o d[i + 1]
           /\ Decode(name) = d[1]
<1> DEFINE N == Len(name)
           S == Seq(Nat)
           step == [x \in S \X S \X (1 .. N) |-> Decoded(name[x[3]]) \o x[1]]
<1>1. N \in Nat /\ \A i \in 1 .. N : name[i] \in Nat
  OBVIOUS
<1>2. ASSUME NEW p \in S, NEW q \in S, NEW i \in 1 .. N
      PROVE  step[<<p, q, i>>] = Decoded(name[i]) \o p /\ Decoded(name[i]) \o p \in S
  <2>1. Decoded(name[i]) \in S
    BY <1>1, DecodedNat
  <2>2. Decoded(name[i]) \o p \in S
    BY <2>1
  <2> HIDE DEF S
  <2> QED
    BY <2>2
<1> HIDE DEF S, step
<1>3. PICK base \in S : base = <<>>
  BY EmptySeq DEF S
<1>4. \A p \in S, q \in S, i \in 1 .. N : step[<<p, q, i>>] \in S
  BY <1>2
<1>5. PICK g \in [1 .. N + 2 -> S] :
        /\ g[N + 1] = base /\ g[N + 2] = base
        /\ \A i \in 1 .. N : g[i] = step[<<g[i + 1], g[i + 2], i>>]
  <2>1. DownLoopsOf(N, S, base, step) # {}
    BY <1>1, <1>4, DownLoopExists
  <2> QED
    BY <2>1 DEF DownLoopsOf
<1>6. ASSUME NEW i \in 1 .. N PROVE g[i] = Decoded(name[i]) \o g[i + 1]
  <2>1. i + 1 \in 1 .. N + 2 /\ i + 2 \in 1 .. N + 2
    BY <1>1
  <2>2. g[i + 1] \in S /\ g[i + 2] \in S
    BY <1>5, <2>1
  <2> QED
    BY <1>2, <1>5, <2>2
<1> DEFINE Body(f, i) == IF i > N THEN <<>> ELSE Decoded(name[i]) \o f[i + 1]
           h == [i \in 1 .. N + 1 |-> g[i]]
           d == CHOOSE f : f = [i \in 1 .. N + 1 |-> Body(f, i)]
<1>7. h = [i \in 1 .. N + 1 |-> Body(h, i)]
  <2>1. ASSUME NEW i \in 1 .. N + 1 PROVE h[i] = Body(h, i)
    <3>1. CASE i \in 1 .. N
      <4>1. h[i] = g[i] /\ h[i + 1] = g[i + 1] /\ ~(i > N)
        BY <1>1, <3>1
      <4> QED
        BY <1>6, <3>1, <4>1
    <3>2. CASE i \notin 1 .. N
      <4>1. i = N + 1 /\ h[i] = g[i]
        BY <1>1, <3>2
      <4> QED
        BY <1>1, <1>3, <1>5, <4>1
    <3> QED
      BY <3>1, <3>2
  <2> HIDE DEF Body
  <2> QED
    BY <2>1
<1>8. d = [i \in 1 .. N + 1 |-> Body(d, i)]
  <2> HIDE DEF Body, h
  <2> QED
    BY <1>7
<1>9. Decode(name) = d[1]
  BY DEF Decode
<1> HIDE DEF d
<1>10. ASSUME NEW i \in 1 .. N + 1 PROVE d[i] = Body(d, i)
  <2> HIDE DEF Body
  <2> QED
    BY <1>8
<1>11. d[N + 1] = <<>> /\ \A i \in 1 .. N : d[i] = Decoded(name[i]) \o d[i + 1]
  <2>1. N + 1 \in 1 .. N + 1 /\ N + 1 > N
    BY <1>1
  <2>2. \A i \in 1 .. N : i \in 1 .. N + 1 /\ ~(i > N)
    BY <1>1
  <2> QED
    BY <1>10, <2>1, <2>2
<1>12. \A i \in 1 .. N + 1 : d[i] \in S
  <2> DEFINE f == [i \in 1 .. N + 2 |-> IF i = N + 2 THEN base ELSE d[i]]
  <2>1. f[N + 1] \in S /\ f[N + 2] \in S
    BY <1>1, <1>3, <1>11
  <2>2. ASSUME NEW i \in 1 .. N, f[i + 1] \in S PROVE f[i] \in S
    <3>1. f[i] = d[i] /\ f[i + 1] = d[i + 1]
      BY <1>1
    <3> HIDE DEF f
    <3> QED
      <4>1. Decoded(name[i]) \o d[i + 1] \in S
        BY <1>2, <2>2, <3>1
      <4> QED
        BY <1>11, <3>1, <4>1
  <2>3. \A i \in 1 .. N + 1 : f[i] = d[i]
    BY <1>1
  <2> HIDE DEF f
  <2>4. \A i \in 1 .. N + 2 : f[i] \in S
    BY <1>1, <2>1, <2>2, DownLoopStays
  <2> QED
    BY <1>1, <2>3, <2>4
<1>13. d \in [1 .. N + 1 -> S]
  <2> HIDE DEF Body
  <2> QED
    BY <1>8, <1>12
<1> QED
  BY <1>9, <1>11, <1>13 DEF S

(* What a name decodes to does not depend on what is in front of it.       *)
LEMMA DecodeCons ==
  ASSUME NEW c \in Nat, NEW s \in Seq(Nat)
  PROVE  Decode(<<c>> \o s) = Decoded(c) \o Decode(s)
<1> DEFINE N == Len(s)
<1>1. PICK t \in Seq(Nat) : t = <<c>> \o s
  <2>1. <<c>> \o s \in Seq(Nat)
    OBVIOUS
  <2> QED
    BY <2>1, Zenon
<1>2. N \in Nat /\ Len(t) = N + 1 /\ t[1] = c /\ \A i \in 1 .. N : t[i + 1] = s[i]
  BY <1>1
<1>3. PICK d \in [1 .. N + 1 -> Seq(Nat)] :
        /\ d[N + 1] = <<>> /\ \A i \in 1 .. N : d[i] = Decoded(s[i]) \o d[i + 1]
        /\ Decode(s) = d[1]
  BY DecodeLoop
<1>4. PICK g \in [1 .. N + 2 -> Seq(Nat)] :
        /\ g[N + 2] = <<>> /\ \A i \in 1 .. N + 1 : g[i] = Decoded(t[i]) \o g[i + 1]
        /\ Decode(t) = g[1]
  <2>1. N + 1 + 1 = N + 2 /\ Len(t) = N + 1
    BY <1>2
  <2>2. \E g \in [1 .. Len(t) + 1 -> Seq(Nat)] :
          /\ g[Len(t) + 1] = <<>> /\ \A i \in 1 .. Len(t) : g[i] = Decoded(t[i]) \o g[i + 1]
          /\ Decode(t) = g[1]
    BY DecodeLoop
  <2> QED
    BY <2>1, <2>2
<1> DEFINE Good == {i \in 1 .. N + 2 : i = N + 2 \/ g[i + 1] = d[i]}
<1> HIDE DEF N
<1>5. N + 1 \in Good /\ N + 2 \in Good
  <2>1. N + 1 + 1 = N + 2 /\ N + 1 \in 1 .. N + 2 /\ N + 2 \in 1 .. N + 2
    BY <1>2
  <2> QED
    BY <1>3, <1>4, <2>1
<1>6. ASSUME NEW i \in 1 .. N, i + 1 \in Good PROVE i \in Good
  <2>1. i + 1 \in 1 .. N + 1 /\ i + 1 # N + 2 /\ i \in 1 .. N + 2
    BY <1>2
  <2>2. g[i + 1 + 1] = d[i + 1]
    BY <1>6, <2>1
  <2>3. t[i + 1] = s[i]
    BY <1>2
  <2>4. g[i + 1] = d[i]
    BY <1>3, <1>4, <2>1, <2>2, <2>3
  <2> QED
    BY <2>1, <2>4
<1>7. g[2] = d[1]
  <2>1. \A i \in 1 .. N + 2 : i \in Good
    <3> HIDE DEF Good
    <3> QED
      BY <1>2, <1>5, <1>6, DownToFirst
  <2>2. 1 \in 1 .. N + 2 /\ 1 # N + 2 /\ 1 + 1 = 2
    BY <1>2
  <2> QED
    BY <2>1, <2>2
<1>8. 1 \in 1 .. N + 1 /\ 1 + 1 = 2
  BY <1>2
<1> QED
  BY <1>1, <1>2, <1>3, <1>4, <1>7, <1>8

(* Nothing decodes to nothing.                                             *)
LEMMA DecodeEmpty == Decode(<<>>) = <<>>
<1>1. <<>> \in Seq(Nat) /\ Len(<<>>) = 0
  BY EmptySeq
<1>2. PICK e \in Seq(Nat) : e = <<>> /\ Len(e) = 0
  BY <1>1, Zenon
<1>3. PICK d \in [1 .. Len(e) + 1 -> Seq(Nat)] : d[Len(e) + 1] = <<>> /\ Decode(e) = d[1]
  BY DecodeLoop
<1>4. Len(e) + 1 = 1
  BY <1>2
<1> QED
  BY <1>2, <1>3, <1>4, Zenon

(* Two characters in front of a sequence are one in front of another.      *)
LEMMA PairCons ==
  ASSUME NEW a \in Nat, NEW b \in Nat, NEW s \in Seq(Nat)
  PROVE  <<a, b>> \o s = <<a>> \o (<<b>> \o s)
<1>1. /\ <<b>> \o s \in Seq(Nat) /\ Len(<<b>> \o s) = Len(s) + 1
      /\ (<<b>> \o s)[1] = b /\ \A i \in 1 .. Len(s) : (<<b>> \o s)[i + 1] = s[i]
  OBVIOUS
<1>2. <<a, b>> \o s \in Seq(Nat) /\ Len(<<a, b>> \o s) = Len(s) + 2
  OBVIOUS
<1>3. /\ (<<a, b>> \o s)[1] = a /\ (<<a, b>> \o s)[2] = b
      /\ \A i \in 1 .. Len(s) : (<<a, b>> \o s)[i + 2] = s[i]
  OBVIOUS
<1>4. PICK r \in Seq(Nat) : r = <<b>> \o s
  BY <1>1, Zenon
<1>5. /\ <<a>> \o r \in Seq(Nat) /\ Len(<<a>> \o r) = Len(r) + 1
      /\ (<<a>> \o r)[1] = a /\ \A i \in 1 .. Len(r) : (<<a>> \o r)[i + 1] = r[i]
  OBVIOUS
<1>6. PICK p \in Seq(Nat) : p = <<a, b>> \o s
  BY <1>2, Zenon
<1>7. PICK q \in Seq(Nat) : q = <<a>> \o r
  BY <1>5, Zenon
<1>8. Len(p) = Len(s) + 2 /\ Len(q) = Len(s) + 2 /\ Len(s) \in Nat
  BY <1>1, <1>2, <1>4, <1>5, <1>6, <1>7
<1>9. ASSUME NEW i \in 1 .. Len(p) PROVE p[i] = q[i]
  <2>1. i = 1 \/ i = 2 \/ \E k \in 1 .. Len(s) : i = k + 2
    <3>1. i > 2 => i - 2 \in 1 .. Len(s) /\ i = (i - 2) + 2
      BY <1>8
    <3> QED
      BY <1>8, <3>1
  <2>2. p[1] = q[1] /\ p[2] = q[2]
    BY <1>1, <1>3, <1>4, <1>5, <1>6, <1>7
  <2>3. ASSUME NEW k \in 1 .. Len(s) PROVE p[k + 2] = q[k + 2]
    <3>1. p[k + 2] = s[k] /\ r[k + 1] = s[k]
      BY <1>1, <1>3, <1>4, <1>6
    <3>2. k + 1 \in 1 .. Len(r) /\ k + 1 + 1 = k + 2
      BY <1>1, <1>4
    <3>3. q[k + 1 + 1] = r[k + 1]
      BY <1>5, <1>7, <3>2
    <3> QED
      BY <3>1, <3>2, <3>3
  <2> QED
    BY <2>1, <2>2, <2>3
<1>10. p = q
  BY <1>8, <1>9, SeqEqual
<1> QED
  BY <1>4, <1>6, <1>7, <1>10, Zenon

(* Names without characters of the code decode to themselves.              *)
LEMMA RestCons ==
  ASSUME NEW C, NEW name \in Seq(C), NEW i \in 1 .. Len(name)
  PROVE  <<name[i]>> \o SubSeq(name, i + 1, Len(name)) = SubSeq(name, i, Len(name))
<1>1. /\ SubSeq(name, i + 1, Len(name)) \in Seq(C) /\ SubSeq(name, i, Len(name)) \in Seq(C)
      /\ <<name[i]>> \o SubSeq(name, i + 1, Len(name)) \in Seq(C)
  OBVIOUS
<1> QED
  BY <1>1

(* A name without characters of the code decodes to itself.                *)
LEMMA DecodePlain ==
  ASSUME NEW name \in Seq(Plain)
  PROVE  Decode(name) = name
<1>1. name \in Seq(Nat) /\ \A i \in 1 .. Len(name) : name[i] \in Nat /\ ~Coded(name[i])
  BY DEF Plain
<1> DEFINE N == Len(name)
           Good == {i \in 1 .. N + 2 : i = N + 2 \/ SubSeq(name, i, N) = Decode(SubSeq(name, i, N))}
<1>2. N \in Nat
  OBVIOUS
<1>3. N + 1 \in Good /\ N + 2 \in Good
  <2>1. SubSeq(name, N + 1, N) = <<>>
    BY <1>1
  <2>2. N + 1 \in 1 .. N + 2 /\ N + 2 \in 1 .. N + 2
    BY <1>2
  <2> HIDE DEF N
  <2> QED
    BY <2>1, <2>2, DecodeEmpty
<1>4. ASSUME NEW i \in 1 .. N, i + 1 \in Good PROVE i \in Good
  <2> DEFINE rest == SubSeq(name, i + 1, N)
  <2>1. rest \in Seq(Nat) /\ rest = Decode(rest)
    <3>1. rest \in Seq(Nat) /\ i + 1 # N + 2
      BY <1>1, <1>2
    <3> HIDE DEF N
    <3> QED
      BY <1>4, <3>1
  <2>2. Decoded(name[i]) = <<name[i]>>
    BY <1>1, Zenon DEF Decoded
  <2>3. Decode(<<name[i]>> \o rest) = Decoded(name[i]) \o Decode(rest)
    <3> HIDE DEF rest
    <3> QED
      BY <1>1, <2>1, DecodeCons
  <2>4. <<name[i]>> \o rest = SubSeq(name, i, N)
    BY RestCons
  <2>5. i \in 1 .. N + 2
    OBVIOUS
  <2> HIDE DEF rest, N
  <2> QED
    BY <2>1, <2>2, <2>3, <2>4, <2>5
<1>5. \A i \in 1 .. N + 2 : i \in Good
  <2> HIDE DEF Good, N
  <2> QED
    BY <1>2, <1>3, <1>4, DownToFirst
<1>6. SubSeq(name, 1, N) = name
  OBVIOUS
<1>7. 1 \in Good /\ 1 # N + 2
  BY <1>2, <1>5
<1> QED
  BY <1>6, <1>7

(* What a plain name is encoded in decodes to it again.                    *)
LEMMA RoundTrip ==
  ASSUME NEW name \in Seq(Plain)
  PROVE  Encode(name) \in Seq(Nat) /\ Decode(Encode(name)) = name
<1>1. name \in Seq(Nat) /\ \A i \in 1 .. Len(name) : name[i] \in Nat /\ ~Coded(name[i])
  BY DEF Plain
<1> DEFINE N == Len(name)
           Rest(i) == SubSeq(name, i, N)
<1>2. N \in Nat
  OBVIOUS
<1>3. PICK e \in [1 .. N + 2 -> Seq(Nat)] :
        /\ e[N + 1] = <<>> /\ e[N + 2] = <<>>
        /\ \A i \in 1 .. N : e[i] = EncodeTurn(name, e[i + 1], e[i + 2], i)
        /\ Encode(name) = e[1]
  BY <1>1, EncodeLoop
<1> DEFINE Good == {i \in 1 .. N + 2 : i = N + 2 \/ Decode(e[i]) = Rest(i)}
<1>4. N + 1 \in Good /\ N + 2 \in Good
  <2>1. Rest(N + 1) = <<>>
    BY <1>1
  <2> QED
    BY <1>3, <2>1, DecodeEmpty
<1>5. ASSUME NEW i \in 1 .. N, i + 1 \in Good, i + 2 \in Good PROVE i \in Good
  <2>1. /\ i \in 1 .. N + 2 /\ i + 1 \in 1 .. N + 2 /\ i + 2 \in 1 .. N + 2
        /\ i + 1 # N + 2 /\ (i < N => i + 2 # N + 2 /\ i + 1 \in 1 .. N)
    BY <1>2
  <2>2. e[i + 1] \in Seq(Nat) /\ e[i + 2] \in Seq(Nat)
    BY <1>3, <2>1
  <2>3. Decode(e[i + 1]) = Rest(i + 1) /\ (i < N => Decode(e[i + 2]) = Rest(i + 2))
    BY <1>5, <2>1
  <2>4. \A k \in 1 .. N : <<name[k]>> \o Rest(k + 1) = Rest(k)
    BY RestCons
  <2>5. \A k \in 1 .. N : Mime(name[k]) = -1 \/ (Mime(name[k]) \in 0 .. 63 /\ Unmime(Mime(name[k])) = name[k])
    BY <1>1, MimeFacts
  <2>6. e[i] = EncodeTurn(name, e[i + 1], e[i + 2], i)
    BY <1>3
  <2>7. \A x \in Nat : /\ Decode(<<x>> \o e[i + 1]) = Decoded(x) \o Decode(e[i + 1])
                       /\ Decode(<<x>> \o e[i + 2]) = Decoded(x) \o Decode(e[i + 2])
    BY <2>2, DecodeCons
  <2> HIDE DEF Rest, N, Good
  <2>8. Decode(e[i]) = Rest(i)
    <3>1. CASE Mime(name[i]) = -1
      <4>1. e[i] = <<name[i]>> \o e[i + 1]
        BY <2>6, <3>1, Zenon DEF EncodeTurn
      <4>2. Decoded(name[i]) = <<name[i]>> /\ name[i] \in Nat
        BY <1>1, Zenon DEF Decoded, N
      <4> QED
        BY <2>3, <2>4, <2>7, <4>1, <4>2, Zenon
    <3>2. CASE Mime(name[i]) # -1 /\ ~(i < N /\ Mime(name[i + 1]) # -1)
      <4>1. e[i] = <<Single(Mime(name[i]))>> \o e[i + 1]
        BY <2>6, <3>2, Zenon DEF EncodeTurn, N
      <4>2. Single(Mime(name[i])) \in Nat /\ Decoded(Single(Mime(name[i]))) = <<name[i]>>
        BY <2>5, <3>2, DecodedSingle, Zenon
      <4> QED
        BY <2>3, <2>4, <2>7, <4>1, <4>2, Zenon
    <3>3. CASE Mime(name[i]) # -1 /\ i < N /\ Mime(name[i + 1]) # -1
      <4>1. e[i] = <<Double(Mime(name[i]), Mime(name[i + 1]))>> \o e[i + 2]
        BY <2>6, <3>3, Zenon DEF EncodeTurn, N
      <4>2. /\ Double(Mime(name[i]), Mime(name[i + 1])) \in Nat
            /\ Decoded(Double(Mime(name[i]), Mime(name[i + 1]))) = <<name[i], name[i + 1]>>
        BY <2>1, <2>5, <3>3, DecodedDouble, Zenon
      <4>3. Decode(e[i]) = <<name[i], name[i + 1]>> \o Rest(i + 2)
        BY <2>3, <2>7, <3>3, <4>1, <4>2, Zenon
      <4>4. <<name[i], name[i + 1]>> \o Rest(i + 2) = <<name[i]>> \o (<<name[i + 1]>> \o Rest(i + 2))
        <5>1. Rest(i + 2) \in Seq(Nat) /\ name[i] \in Nat /\ name[i + 1] \in Nat
          BY <1>1, <1>2, <2>1, <3>3 DEF Rest, N
        <5> QED
          BY <5>1, PairCons
      <4>5. i + 1 + 1 = i + 2
        OBVIOUS
      <4>6. <<name[i + 1]>> \o Rest(i + 2) = Rest(i + 1)
        BY <2>1, <2>4, <3>3, <4>5
      <4> QED
        BY <2>4, <4>3, <4>4, <4>6
    <3> QED
      BY <3>1, <3>2, <3>3
  <2> QED
    BY <2>1, <2>8 DEF Good
<1>6. \A i \in 1 .. N + 2 : i \in Good
  <2> HIDE DEF Good, N
  <2> QED
    BY <1>2, <1>4, <1>5, DownToFirst
<1>7. 1 \in Good /\ 1 # N + 2 /\ 1 \in 1 .. N + 2
  BY <1>2, <1>6
<1>8. Rest(1) = name
  OBVIOUS
<1>9. e[1] \in Seq(Nat)
  BY <1>3, <1>7
<1> QED
  BY <1>3, <1>7, <1>8, <1>9

(* The code has no digits, and no mark in front of what had none.          *)
NoDigits == {ch \in Nat : Mime(ch) = -1}

(* A character of the code is no digit, and not the mark of a table.       *)
LEMMA CodedIsNoDigit ==
  ASSUME NEW ch \in Nat, Coded(ch)
  PROVE  ch \in NoDigits /\ ch # TableMark
BY DEF NoDigits, Coded, Mime, Doubles, TableMark, Dot

(* Encoding puts one character in front, which is no digit.                *)
LEMMA EncodeTurnFirst ==
  ASSUME NEW name \in Seq(Nat), NEW one, NEW two, NEW i \in 1 .. Len(name)
  PROVE  \E ch \in NoDigits :
           /\ Coded(ch) \/ ch = name[i]
           /\ EncodeTurn(name, one, two, i) \in {<<ch>> \o one, <<ch>> \o two}
<1>1. name[i] \in Nat /\ (i < Len(name) => name[i + 1] \in Nat)
  OBVIOUS
<1>2. CASE Mime(name[i]) = -1
  <2>1. name[i] \in NoDigits
    BY <1>1, <1>2 DEF NoDigits
  <2> QED
    BY <1>2, <2>1, Zenon DEF EncodeTurn
<1>3. CASE Mime(name[i]) # -1 /\ ~(i < Len(name) /\ Mime(name[i + 1]) # -1)
  <2>1. Single(Mime(name[i])) \in Nat /\ Coded(Single(Mime(name[i])))
    BY <1>1, <1>3, MimeFacts, DecodedSingle, Zenon
  <2> QED
    BY <1>3, <2>1, CodedIsNoDigit, Zenon DEF EncodeTurn
<1>4. CASE Mime(name[i]) # -1 /\ i < Len(name) /\ Mime(name[i + 1]) # -1
  <2> DEFINE ch == Double(Mime(name[i]), Mime(name[i + 1]))
  <2>1. ch \in Nat /\ Coded(ch)
    BY <1>1, <1>4, MimeFacts, DecodedDouble, Zenon
  <2> QED
    BY <1>4, <2>1, CodedIsNoDigit, Zenon DEF EncodeTurn
<1> QED
  BY <1>2, <1>3, <1>4, Zenon

(* No digit is left in an encoded name, and encoding puts no mark of a     *)
(* table in front.                                                         *)
LEMMA EncodeHasNoDigits ==
  ASSUME NEW name \in Seq(Nat)
  PROVE  /\ Encode(name) \in Seq(NoDigits)
         /\ IsTableStream(Encode(name)) => IsTableStream(name)
<1> DEFINE N == Len(name)
<1>1. N \in Nat
  OBVIOUS
<1>2. PICK e \in [1 .. N + 2 -> Seq(Nat)] :
        /\ e[N + 1] = <<>> /\ e[N + 2] = <<>>
        /\ \A i \in 1 .. N : e[i] = EncodeTurn(name, e[i + 1], e[i + 2], i)
        /\ Encode(name) = e[1]
  BY EncodeLoop
<1>3. <<>> \in Seq(NoDigits)
  BY EmptySeq
<1>4. ASSUME NEW i \in 1 .. Len(name)
      PROVE  \E ch \in NoDigits :
               /\ Coded(ch) \/ ch = name[i]
               /\ e[i] \in {<<ch>> \o e[i + 1], <<ch>> \o e[i + 2]}
  <2>1. PICK ch \in NoDigits :
          /\ Coded(ch) \/ ch = name[i]
          /\ EncodeTurn(name, e[i + 1], e[i + 2], i) \in {<<ch>> \o e[i + 1], <<ch>> \o e[i + 2]}
    BY EncodeTurnFirst
  <2>2. e[i] = EncodeTurn(name, e[i + 1], e[i + 2], i)
    BY <1>2
  <2> QED
    BY <2>1, <2>2, Zenon
<1>5. ASSUME NEW i \in 1 .. N, e[i + 1] \in Seq(NoDigits), e[i + 2] \in Seq(NoDigits)
      PROVE  e[i] \in Seq(NoDigits)
  <2>1. \A ch \in NoDigits : <<ch>> \o e[i + 1] \in Seq(NoDigits) /\ <<ch>> \o e[i + 2] \in Seq(NoDigits)
    BY <1>5
  <2> QED
    BY <1>4, <2>1
<1>6. \A i \in 1 .. N + 2 : e[i] \in Seq(NoDigits)
  <2> HIDE DEF N
  <2> QED
    BY <1>1, <1>2, <1>3, <1>5, DownLoopStays
<1>7. ASSUME IsTableStream(Encode(name)) PROVE IsTableStream(name)
  <2>1. e[1] # <<>> /\ e[1][1] = TableMark
    BY <1>2, <1>7 DEF IsTableStream
  <2>2. N # 0
    <3>1. N = 0 => N + 1 = 1
      BY <1>1
    <3> HIDE DEF N
    <3> QED
      BY <1>2, <2>1, <3>1
  <2>3. 1 \in 1 .. N /\ 1 + 1 \in 1 .. N + 2 /\ 1 + 2 \in 1 .. N + 2
    BY <1>1, <2>2
  <2>4. PICK ch \in NoDigits :
          /\ Coded(ch) \/ ch = name[1]
          /\ e[1] \in {<<ch>> \o e[1 + 1], <<ch>> \o e[1 + 2]}
    BY <1>4, <2>3
  <2>5. \A s \in Seq(Nat) : (<<ch>> \o s)[1] = ch
    OBVIOUS
  <2>6. e[1 + 1] \in Seq(Nat) /\ e[1 + 2] \in Seq(Nat)
    BY <1>2, <2>3
  <2>7. ch = TableMark /\ ch \in Nat
    BY <2>1, <2>4, <2>5, <2>6 DEF NoDigits
  <2>8. name[1] = TableMark
    BY <2>4, <2>7, CodedIsNoDigit
  <2>9. name # <<>>
    BY <2>2
  <2> QED
    BY <2>8, <2>9 DEF IsTableStream
<1>8. 1 \in 1 .. N + 2
  BY <1>1
<1> QED
  BY <1>2, <1>6, <1>7, <1>8

-----------------------------------------------------------------------------
(* Lists of streams.  A list in which each name is once is a map, and what *)
(* a commit writes of it.                                                  *)
NamesIn(list) == {list[i].name : i \in DOMAIN list}
OneEach(list) == \A i, j \in DOMAIN list : list[i].name = list[j].name => i = j
Entries(E) == \A e \in E : e = Entry(e.name, e.data)
Lists(E) == {list \in Seq(E) : OneEach(list)}

(* A list with another element in one place.                               *)
LEMMA OtherElement ==
  ASSUME NEW E, NEW list \in Seq(E), NEW k \in 1 .. Len(list), NEW e \in E
  PROVE  LET new == [list EXCEPT ![k] = e] IN
         /\ new \in Seq(E) /\ Len(new) = Len(list) /\ DOMAIN new = 1 .. Len(list)
         /\ new[k] = e /\ \A i \in 1 .. Len(list) : i # k => new[i] = list[i]
OBVIOUS

(* What is behind a place of a list.                                       *)
LEMMA Behind ==
  ASSUME NEW E, NEW list \in Seq(E), NEW k \in 1 .. Len(list)
  PROVE  LET rest == SubSeq(list, k + 1, Len(list)) IN
         /\ rest \in Seq(E) /\ Len(rest) = Len(list) - k
         /\ \A i \in 1 .. Len(list) - k : rest[i] = list[k + i]
OBVIOUS

(* The first place of a name that is in a list has this name.              *)
LEMMA FirstPlace ==
  ASSUME NEW E, NEW list \in Seq(E), NEW name, Places(list, name) # {}
  PROVE  First(Places(list, name)) \in 1 .. Len(list) /\ list[First(Places(list, name))].name = name
<1>1. Places(list, name) \in SUBSET Nat
  BY DEF Places
<1>2. \E i \in Places(list, name) : \A j \in Places(list, name) : i <= j
  <2> DEFINE P == Places(list, name)
  <2> HIDE DEF P
  <2> QED
    BY <1>1, LeastNumber
<1>3. First(Places(list, name)) \in Places(list, name)
  BY <1>2, Zenon DEF First
<1> QED
  BY <1>3 DEF Places

(* What is read under the name of an element is the data of this           *)
(* element.                                                                *)
LEMMA DataIs ==
  ASSUME NEW E, NEW list \in Lists(E), NEW i \in 1 .. Len(list)
  PROVE  DataOf(list, list[i].name) = list[i].data
<1>1. list \in Seq(E) /\ OneEach(list) /\ DOMAIN list = 1 .. Len(list)
  BY DEF Lists
<1> DEFINE P == Places(list, list[i].name)
<1>2. i \in P
  BY <1>1 DEF Places
<1>3. First(P) \in 1 .. Len(list) /\ list[First(P)].name = list[i].name
  BY <1>1, <1>2, FirstPlace
<1>4. First(P) = i
  BY <1>1, <1>3 DEF OneEach
<1> QED
  BY <1>2, <1>4 DEF DataOf

(* A name has no place in a list if no element has it.                     *)
LEMMA NoPlace ==
  ASSUME NEW E, NEW list \in Seq(E), NEW name
  PROVE  Places(list, name) = {} <=> name \notin NamesIn(list)
BY DEF Places, NamesIn

(* A map is what a list is on file when each entry is of the map, and each *)
(* name has an entry.                                                      *)
LEMMA OnFileIs ==
  ASSUME NEW E, NEW list \in Lists(E), NEW S, NEW map, map = [name \in S |-> map[name]],
         \A i \in 1 .. Len(list) : list[i].name \in S /\ map[list[i].name] = list[i].data,
         \A name \in S : \E i \in 1 .. Len(list) : list[i].name = name
  PROVE  OnFile(list) = map
<1>1. DOMAIN list = 1 .. Len(list)
  BY DEF Lists
<1>2. NamesIn(list) = S
  BY <1>1 DEF NamesIn
<1>3. ASSUME NEW name \in S PROVE DataOf(list, name) = map[name]
  <2>1. PICK i \in 1 .. Len(list) : list[i].name = name
    OBVIOUS
  <2> QED
    BY <2>1, DataIs
<1>4. OnFile(list) = [name \in NamesIn(list) |-> DataOf(list, name)]
  BY DEF OnFile, NamesIn
<1> QED
  BY <1>2, <1>3, <1>4

(* What a commit writes of a list: its names, each with its data.          *)
LEMMA OnFileFacts ==
  ASSUME NEW E, NEW list \in Lists(E), Entries(E)
  PROVE  /\ OnFile(list) = [name \in NamesIn(list) |-> DataOf(list, name)]
         /\ \A i \in 1 .. Len(list) : list[i].name \in NamesIn(list) /\ OnFile(list)[list[i].name] = list[i].data
         /\ \A name \in NamesIn(list) : \E i \in 1 .. Len(list) : list[i].name = name
         /\ \A name \in NamesIn(list) : Entry(name, OnFile(list)[name]) \in E
         /\ IsFiniteSet(NamesIn(list))
<1>1. list \in Seq(E) /\ DOMAIN list = 1 .. Len(list) /\ Len(list) \in Nat /\ \A i \in 1 .. Len(list) : list[i] \in E
  BY DEF Lists
<1>2. OnFile(list) = [name \in NamesIn(list) |-> DataOf(list, name)]
  BY DEF OnFile, NamesIn
<1>3. /\ \A i \in 1 .. Len(list) : list[i].name \in NamesIn(list)
      /\ \A name \in NamesIn(list) : \E i \in 1 .. Len(list) : list[i].name = name
  BY <1>1 DEF NamesIn
<1>4. \A i \in 1 .. Len(list) : OnFile(list)[list[i].name] = list[i].data
  BY <1>2, <1>3, DataIs
<1>5. ASSUME NEW name \in NamesIn(list) PROVE Entry(name, OnFile(list)[name]) \in E
  <2>1. PICK i \in 1 .. Len(list) : list[i].name = name
    BY <1>3
  <2>2. Entry(name, OnFile(list)[name]) = list[i]
    BY <1>1, <1>4, <2>1 DEF Entries
  <2> QED
    BY <1>1, <2>2
<1>6. IsFiniteSet(NamesIn(list))
  <2> DEFINE f == [i \in 1 .. Len(list) |-> list[i].name]
  <2>1. f \in Surjection(1 .. Len(list), NamesIn(list))
    BY <1>3 DEF Surjection
  <2>2. IsFiniteSet(1 .. Len(list))
    BY <1>1, FS_Interval
  <2> HIDE DEF f
  <2> QED
    BY <2>1, <2>2, FS_Surjection
<1> QED
  BY <1>2, <1>3, <1>4, <1>5, <1>6

(* Placing data under a name puts it in the map.                           *)
LEMMA PlacedFacts ==
  ASSUME NEW E, NEW list \in Lists(E), Entries(E), NEW name, NEW data, Entry(name, data) \in E
  PROVE  /\ Placed(list, name, data) \in Lists(E)
         /\ OnFile(Placed(list, name, data)) = With(OnFile(list), name, data)
<1> DEFINE n == name
           new == Placed(list, name, data)
           k == First(Places(list, n))
           map == With(OnFile(list), n, data)
           S == NamesIn(list) \cup {n}
<1>1. list \in Seq(E) /\ OneEach(list) /\ DOMAIN list = 1 .. Len(list) /\ Len(list) \in Nat
  BY DEF Lists
<1>2. /\ OnFile(list) = [m \in NamesIn(list) |-> DataOf(list, m)]
      /\ \A i \in 1 .. Len(list) : list[i].name \in NamesIn(list) /\ OnFile(list)[list[i].name] = list[i].data
      /\ \A m \in NamesIn(list) : \E i \in 1 .. Len(list) : list[i].name = m
  BY OnFileFacts
<1>3. map = [m \in S |-> IF m = n THEN data ELSE OnFile(list)[m]]
  BY <1>2 DEF With
<1>4. Entry(n, data).name = n /\ Entry(n, data).data = data
  BY DEF Entry
<1>5. ASSUME NEW i \in 1 .. Len(list), list[i].name # n
      PROVE  list[i].name \in S /\ map[list[i].name] = list[i].data
  <2>1. list[i].name \in NamesIn(list) /\ OnFile(list)[list[i].name] = list[i].data
    BY <1>2
  <2>2. list[i].name \in S
    BY <2>1
  <2> HIDE DEF S, map, n
  <2> QED
    BY <1>3, <1>5, <2>1, <2>2
<1>6. n \in S /\ map[n] = data
  BY <1>3
<1>7. CASE n \notin NamesIn(list)
  <2>1. new = Append(list, Entry(n, data))
    BY <1>1, <1>7, NoPlace DEF Placed
  <2>2. /\ new \in Seq(E) /\ Len(new) = Len(list) + 1 /\ DOMAIN new = 1 .. Len(list) + 1
        /\ new[Len(list) + 1] = Entry(n, data) /\ \A i \in 1 .. Len(list) : new[i] = list[i]
    BY <1>1, <2>1
  <2> HIDE DEF n, new
  <2>3. ASSUME NEW i \in DOMAIN new, NEW j \in DOMAIN new, new[i].name = new[j].name PROVE i = j
    <3>1. CASE i \in 1 .. Len(list) /\ j \in 1 .. Len(list)
      BY <1>1, <2>2, <2>3, <3>1 DEF OneEach
    <3>2. CASE ~(i \in 1 .. Len(list) /\ j \in 1 .. Len(list))
      BY <1>1, <1>2, <1>4, <1>7, <2>2, <2>3, <3>2
    <3> QED
      BY <3>1, <3>2
  <2>4. new \in Lists(E)
    BY <2>2, <2>3 DEF Lists, OneEach
  <2>5. ASSUME NEW i \in 1 .. Len(new) PROVE new[i].name \in S /\ map[new[i].name] = new[i].data
    <3> HIDE DEF map, S
    <3>1. CASE i \in 1 .. Len(list)
      BY <1>2, <1>7, <1>5, <2>2, <3>1
    <3>2. CASE i \notin 1 .. Len(list)
      BY <1>1, <1>4, <1>6, <2>2, <3>2
    <3> QED
      BY <3>1, <3>2
  <2>6. ASSUME NEW m \in S PROVE \E i \in 1 .. Len(new) : new[i].name = m
    BY <1>1, <1>2, <1>4, <2>2
  <2>7. map = [m \in S |-> map[m]]
    BY <1>3
  <2> HIDE DEF map, S
  <2>8. OnFile(new) = map
    BY <2>4, <2>5, <2>6, <2>7, OnFileIs
  <2> QED
    BY <2>4, <2>8 DEF map, n, new
<1>8. CASE n \in NamesIn(list)
  <2>1. Places(list, n) # {}
    BY <1>1, <1>8, NoPlace
  <2>2. k \in 1 .. Len(list) /\ list[k].name = n
    BY <1>1, <2>1, FirstPlace
  <2>3. new = [list EXCEPT ![k].data = data]
    BY <2>1 DEF Placed
  <2>4. list[k] \in E /\ [list[k] EXCEPT !.data = data] = Entry(n, data)
    <3>1. list[k] \in E /\ list[k] = Entry(list[k].name, list[k].data)
      BY <1>1, <2>2 DEF Entries
    <3>2. [list[k] EXCEPT !.data = data] = Entry(list[k].name, data)
      BY <3>1 DEF Entry
    <3> QED
      BY <2>2, <3>1, <3>2
  <2>5. /\ new \in Seq(E) /\ Len(new) = Len(list) /\ DOMAIN new = 1 .. Len(list)
        /\ new[k] = Entry(n, data) /\ \A i \in 1 .. Len(list) : i # k => new[i] = list[i]
    <3>1. new = [list EXCEPT ![k] = Entry(n, data)]
      <4> HIDE DEF k, n, new
      <4> QED
        BY <2>3, <2>4
    <3>2. PICK e \in E : e = Entry(n, data)
      OBVIOUS
    <3> HIDE DEF k, n, new
    <3> QED
      BY <1>1, <2>2, <3>1, <3>2, OtherElement
  <2> HIDE DEF n, new, k
  <2>6. \A i \in 1 .. Len(list) : new[i].name = list[i].name
    BY <1>4, <2>2, <2>5
  <2>7. new \in Lists(E)
    BY <1>1, <2>5, <2>6 DEF Lists, OneEach
  <2>8. ASSUME NEW i \in 1 .. Len(new) PROVE new[i].name \in S /\ map[new[i].name] = new[i].data
    <3> HIDE DEF map, S
    <3>1. CASE i = k
      BY <1>4, <1>6, <2>5, <3>1
    <3>2. CASE i # k
      <4>1. list[i].name # n
        BY <1>1, <2>2, <2>5, <3>2 DEF OneEach
      <4> QED
        BY <1>5, <2>5, <3>2, <4>1
    <3> QED
      BY <3>1, <3>2
  <2>9. ASSUME NEW m \in S PROVE \E i \in 1 .. Len(new) : new[i].name = m
    BY <1>2, <1>8, <2>5, <2>6
  <2>10. map = [m \in S |-> map[m]]
    BY <1>3
  <2> HIDE DEF map, S
  <2>11. OnFile(new) = map
    BY <2>7, <2>8, <2>9, <2>10, OnFileIs
  <2> QED
    BY <2>7, <2>11 DEF map, n, new
<1> QED
  BY <1>7, <1>8

Without(f, name) == [n \in DOMAIN f \ {name} |-> f[n]]

(* Destroying a stream takes its name from the map.                        *)
LEMMA DestroyedFacts ==
  ASSUME NEW E, NEW list \in Lists(E), Entries(E), NEW name
  PROVE  /\ Destroyed(list, name) \in Lists(E)
         /\ OnFile(Destroyed(list, name)) = Without(OnFile(list), name)
<1> DEFINE new == Destroyed(list, name)
           k == First(Places(list, name))
           map == Without(OnFile(list), name)
           S == NamesIn(list) \ {name}
<1>1. list \in Seq(E) /\ OneEach(list) /\ DOMAIN list = 1 .. Len(list) /\ Len(list) \in Nat
  BY DEF Lists
<1>2. /\ OnFile(list) = [m \in NamesIn(list) |-> DataOf(list, m)]
      /\ \A i \in 1 .. Len(list) : list[i].name \in NamesIn(list) /\ OnFile(list)[list[i].name] = list[i].data
      /\ \A m \in NamesIn(list) : \E i \in 1 .. Len(list) : list[i].name = m
  BY OnFileFacts
<1>3. map = [m \in S |-> OnFile(list)[m]]
  BY <1>2 DEF Without
<1>4. CASE name \notin NamesIn(list)
  <2>1. new = list
    BY <1>1, <1>4, NoPlace DEF Destroyed
  <2>2. S = NamesIn(list)
    BY <1>4
  <2> QED
    BY <1>2, <1>3, <2>1, <2>2
<1>5. CASE name \in NamesIn(list)
  <2>1. Places(list, name) # {}
    BY <1>1, <1>5, NoPlace
  <2>2. k \in 1 .. Len(list) /\ list[k].name = name
    BY <1>1, <2>1, FirstPlace
  <2>3. new = SubSeq(list, 1, k - 1) \o SubSeq(list, k + 1, Len(list))
    BY <2>1 DEF Destroyed, RemoveAt
  <2>4. /\ new \in Seq(E) /\ Len(new) = Len(list) - 1 /\ DOMAIN new = 1 .. Len(list) - 1
        /\ \A i \in 1 .. Len(list) - 1 : new[i] = IF i < k THEN list[i] ELSE list[i + 1]
    <3> DEFINE s == SubSeq(list, 1, k - 1)
               t == SubSeq(list, k + 1, Len(list))
    <3> HIDE DEF k, new
    <3>1. s \in Seq(E) /\ Len(s) = k - 1 /\ \A i \in 1 .. k - 1 : s[i] = list[i]
      BY <1>1, <2>2
    <3>2. t \in Seq(E) /\ Len(t) = Len(list) - k /\ \A i \in 1 .. Len(list) - k : t[i] = list[k + i]
      BY <1>1, <2>2, Behind
    <3> HIDE DEF s, t
    <3>3. /\ s \o t \in Seq(E) /\ Len(s \o t) = Len(s) + Len(t)
          /\ \A i \in 1 .. Len(s) + Len(t) : (s \o t)[i] = IF i <= Len(s) THEN s[i] ELSE t[i - Len(s)]
      BY <3>1, <3>2, ConcatProperties
    <3>4. new = s \o t
      BY <2>3 DEF s, t
    <3>5. new \in Seq(E) /\ Len(new) = Len(list) - 1 /\ DOMAIN new = 1 .. Len(list) - 1
      <4>1. new \in Seq(E) /\ Len(new) = (k - 1) + (Len(list) - k)
        BY <3>1, <3>2, <3>3, <3>4
      <4>2. (k - 1) + (Len(list) - k) = Len(list) - 1
        BY <1>1, <2>2
      <4> QED
        BY <4>1, <4>2
    <3>6. ASSUME NEW i \in 1 .. Len(list) - 1
          PROVE  new[i] = IF i < k THEN list[i] ELSE list[i + 1]
      <4>1. CASE i < k
        BY <1>1, <2>2, <3>1, <3>2, <3>3, <3>4, <4>1
      <4>2. CASE ~(i < k)
        <5>1. i - (k - 1) \in 1 .. Len(list) - k /\ k + (i - (k - 1)) = i + 1 /\ ~(i <= k - 1)
          BY <1>1, <2>2, <4>2
        <5>2. new[i] = t[i - (k - 1)]
          BY <1>1, <2>2, <3>1, <3>2, <3>3, <3>4, <5>1
        <5>3. t[i - (k - 1)] = list[k + (i - (k - 1))]
          BY <3>2, <5>1
        <5> QED
          BY <4>2, <5>1, <5>2, <5>3
      <4> QED
        BY <4>1, <4>2
    <3> QED
      BY <3>5, <3>6
  <2> HIDE DEF new, k
  <2>5. ASSUME NEW i \in DOMAIN new, NEW j \in DOMAIN new, new[i].name = new[j].name PROVE i = j
    <3> DEFINE was(x) == IF x < k THEN x ELSE x + 1
    <3>1. was(i) \in 1 .. Len(list) /\ was(j) \in 1 .. Len(list) /\ new[i] = list[was(i)] /\ new[j] = list[was(j)]
      BY <1>1, <2>2, <2>4
    <3>2. was(i) = was(j)
      BY <1>1, <2>5, <3>1 DEF OneEach
    <3> QED
      BY <1>1, <2>2, <2>4, <3>2
  <2>6. new \in Lists(E)
    BY <2>4, <2>5 DEF Lists, OneEach
  <2>7. ASSUME NEW i \in 1 .. Len(new) PROVE new[i].name \in S /\ map[new[i].name] = new[i].data
    <3>1. PICK j \in 1 .. Len(list) : j # k /\ new[i] = list[j]
      BY <1>1, <2>2, <2>4
    <3>2. list[j].name # name
      BY <1>1, <2>2, <3>1 DEF OneEach
    <3> QED
      BY <1>2, <1>3, <3>1, <3>2
  <2>8. ASSUME NEW m \in S PROVE \E i \in 1 .. Len(new) : new[i].name = m
    <3>1. PICK j \in 1 .. Len(list) : list[j].name = m
      BY <1>2
    <3>2. j # k
      BY <2>2, <3>1
    <3>3. PICK i \in 1 .. Len(list) - 1 : j = IF i < k THEN i ELSE i + 1
      <4>1. CASE j < k
        BY <1>1, <2>2, <4>1
      <4>2. CASE j > k
        <5>1. j - 1 \in 1 .. Len(list) - 1 /\ ~(j - 1 < k) /\ j = (j - 1) + 1
          BY <1>1, <2>2, <4>2
        <5> QED
          BY <5>1
      <4> QED
        BY <1>1, <2>2, <3>2, <4>1, <4>2
    <3>4. new[i].name = m
      BY <2>4, <3>1, <3>3
    <3> QED
      BY <2>4, <3>4
  <2>9. map = [m \in S |-> map[m]]
    BY <1>3
  <2> HIDE DEF map, S
  <2>10. OnFile(new) = map
    BY <2>6, <2>7, <2>8, <2>9, OnFileIs
  <2> QED
    BY <2>6, <2>10 DEF map, new
<1> QED
  BY <1>4, <1>5

(* A stream that is written as it is, is in the map.                       *)
LEMMA WrittenFacts ==
  ASSUME NEW E, NEW list \in Lists(E), Entries(E), NEW name, NEW data, Entry(name, data) \in E
  PROVE  /\ Written(list, name, data) \in Lists(E)
         /\ OnFile(Written(list, name, data)) = With(OnFile(list), name, data)
<1> DEFINE rest == Destroyed(list, name)
           new == Append(rest, Entry(name, data))
           map == With(OnFile(list), name, data)
           S == NamesIn(list) \cup {name}
<1>1. rest \in Lists(E) /\ OnFile(rest) = Without(OnFile(list), name)
  BY DestroyedFacts
<1>2. /\ OnFile(rest) = [m \in NamesIn(rest) |-> DataOf(rest, m)]
      /\ \A i \in 1 .. Len(rest) : rest[i].name \in NamesIn(rest) /\ OnFile(rest)[rest[i].name] = rest[i].data
      /\ \A m \in NamesIn(rest) : \E i \in 1 .. Len(rest) : rest[i].name = m
      /\ OnFile(list) = [m \in NamesIn(list) |-> DataOf(list, m)]
  <2> HIDE DEF rest
  <2> QED
    BY <1>1, OnFileFacts
<1>3. NamesIn(rest) = NamesIn(list) \ {name} /\ \A m \in NamesIn(rest) : OnFile(rest)[m] = OnFile(list)[m]
  <2> HIDE DEF rest
  <2>1. DOMAIN OnFile(rest) = NamesIn(rest) /\ DOMAIN OnFile(list) = NamesIn(list)
    BY <1>2
  <2> QED
    BY <1>1, <2>1 DEF Without
<1>4. PICK e \in E : e = Entry(name, data) /\ e.name = name /\ e.data = data
  BY DEF Entry
<1> HIDE DEF rest
<1>5. rest \in Seq(E) /\ OneEach(rest) /\ DOMAIN rest = 1 .. Len(rest) /\ Len(rest) \in Nat
  BY <1>1 DEF Lists
<1>6. /\ new \in Seq(E) /\ Len(new) = Len(rest) + 1 /\ DOMAIN new = 1 .. Len(rest) + 1
      /\ new[Len(rest) + 1] = e /\ \A i \in 1 .. Len(rest) : new[i] = rest[i]
  BY <1>4, <1>5
<1>7. new = Written(list, name, data)
  BY DEF Written, rest
<1> HIDE DEF new
<1>8. map = [m \in S |-> IF m = name THEN data ELSE OnFile(list)[m]]
  BY <1>2 DEF With
<1> HIDE DEF map
<1>9. ASSUME NEW i \in DOMAIN new, NEW j \in DOMAIN new, new[i].name = new[j].name PROVE i = j
  <2>1. CASE i \in 1 .. Len(rest) /\ j \in 1 .. Len(rest)
    BY <1>5, <1>6, <1>9, <2>1 DEF OneEach
  <2>2. CASE ~(i \in 1 .. Len(rest) /\ j \in 1 .. Len(rest))
    <3>1. \A m \in 1 .. Len(rest) : new[m].name # name
      BY <1>2, <1>3, <1>6
    <3>2. \A m \in DOMAIN new : m \in 1 .. Len(rest) \/ m = Len(rest) + 1
      BY <1>5, <1>6
    <3>3. new[Len(rest) + 1].name = name
      BY <1>4, <1>6
    <3> QED
      BY <1>9, <2>2, <3>1, <3>2, <3>3
  <2> QED
    BY <2>1, <2>2
<1>10. new \in Lists(E)
  BY <1>6, <1>9 DEF Lists, OneEach
<1>11. ASSUME NEW i \in 1 .. Len(new) PROVE new[i].name \in S /\ map[new[i].name] = new[i].data
  <2>1. CASE i \in 1 .. Len(rest)
    <3>1. PICK m \in NamesIn(rest) : m = new[i].name /\ OnFile(rest)[m] = new[i].data
      BY <1>2, <1>6, <2>1
    <3> QED
      BY <1>3, <1>8, <3>1
  <2>2. CASE i \notin 1 .. Len(rest)
    <3>1. new[i] = e
      BY <1>5, <1>6, <2>2
    <3> QED
      BY <1>4, <1>8, <3>1
  <2> QED
    BY <2>1, <2>2
<1>12. ASSUME NEW m \in S PROVE \E i \in 1 .. Len(new) : new[i].name = m
  <2>1. CASE m = name
    BY <1>4, <1>5, <1>6, <2>1
  <2>2. CASE m # name
    BY <1>2, <1>3, <1>5, <1>6, <2>2
  <2> QED
    BY <2>1, <2>2
<1>13. map = [m \in S |-> map[m]]
  BY <1>8
<1> HIDE DEF S
<1>14. OnFile(new) = map
  BY <1>10, <1>11, <1>12, <1>13, OnFileIs
<1> QED
  BY <1>7, <1>10, <1>14 DEF map

(* A finite set in some order.                                             *)
LEMMA InOrder ==
  ASSUME NEW S, IsFiniteSet(S)
  PROVE  /\ SetToSeq(S) \in Seq(S) /\ DOMAIN SetToSeq(S) = 1 .. Len(SetToSeq(S))
         /\ Len(SetToSeq(S)) = Cardinality(S)
         /\ \A i, j \in 1 .. Len(SetToSeq(S)) : SetToSeq(S)[i] = SetToSeq(S)[j] => i = j
         /\ \A x \in S : \E i \in 1 .. Len(SetToSeq(S)) : SetToSeq(S)[i] = x
<1> DEFINE n == Cardinality(S)
           order == SetToSeq(S)
<1>1. n \in Nat /\ ExistsBijection(1 .. n, S)
  BY FS_CardinalityType
<1>2. PICK b \in [1 .. n -> S] : IsInjective(b)
  BY <1>1 DEF ExistsBijection, Bijection, Injection
<1>3. order \in [1 .. n -> S] /\ IsInjective(order)
  BY <1>2, Zenon DEF SetToSeq
<1> HIDE DEF order
<1>4. Cardinality(1 .. n) = n
  <2>1. 1 \in Int /\ n \in Int
    BY <1>1
  <2>2. Cardinality(1 .. n) = IF 1 > n THEN 0 ELSE n - 1 + 1
    BY <2>1, FS_Interval
  <2> HIDE DEF n
  <2> QED
    BY <1>1, <2>2
<1>5. order \in Injection(1 .. n, S)
  BY <1>3 DEF Injection
<1> HIDE DEF n
<1>6. order \in Surjection(1 .. n, S)
  <2>1. Cardinality(1 .. n) = Cardinality(S)
    BY <1>4 DEF n
  <2> QED
    BY <1>5, <2>1, FS_Injection
<1>7. order \in Seq(S) /\ Len(order) = n /\ DOMAIN order = 1 .. n
  BY <1>1, <1>3
<1>8. \A i, j \in 1 .. n : order[i] = order[j] => i = j
  BY <1>3, <1>7 DEF IsInjective
<1>9. \A x \in S : \E i \in 1 .. n : order[i] = x
  BY <1>6 DEF Surjection
<1> QED
  BY <1>7, <1>8, <1>9 DEF n, order

(* The list that is read from a file has what the file has.                *)
OnlyEntries(E, file) ==
  /\ file = [name \in DOMAIN file |-> file[name]] /\ IsFiniteSet(DOMAIN file)
  /\ \A name \in DOMAIN file : Entry(name, file[name]) \in E

(* The list read from a file is, as a map, what the file has.              *)
LEMMA ListingFacts ==
  ASSUME NEW E, NEW file, OnlyEntries(E, file)
  PROVE  Listing(DOMAIN file, file) \in Lists(E) /\ OnFile(Listing(DOMAIN file, file)) = file
<1> DEFINE S == DOMAIN file
           names == SetToSeq(S)
           list == [i \in DOMAIN names |-> Entry(names[i], file[names[i]])]
<1>2. Listing(DOMAIN file, file) = list
  BY DEF Listing
<1>3. IsFiniteSet(S) /\ file = [name \in S |-> file[name]] /\ \A name \in S : Entry(name, file[name]) \in E
  BY DEF OnlyEntries
<1> HIDE DEF S
<1>4. /\ names \in Seq(S) /\ DOMAIN names = 1 .. Len(names)
      /\ \A i, j \in 1 .. Len(names) : names[i] = names[j] => i = j
      /\ \A x \in S : \E i \in 1 .. Len(names) : names[i] = x
  BY <1>3, InOrder
<1> HIDE DEF names
<1>5. Len(names) \in Nat /\ \A i \in 1 .. Len(names) : names[i] \in S
  BY <1>4
<1>6. \A i \in 1 .. Len(names) : list[i].name = names[i] /\ list[i].data = file[names[i]]
  BY <1>4 DEF Entry
<1>7. list \in Seq(E) /\ DOMAIN list = 1 .. Len(names) /\ Len(list) = Len(names)
  <2>1. \A i \in 1 .. Len(names) : Entry(names[i], file[names[i]]) \in E
    BY <1>3, <1>5
  <2>2. list \in [1 .. Len(names) -> E]
    BY <1>4, <2>1
  <2> HIDE DEF list
  <2> QED
    BY <1>5, <2>2
<1> HIDE DEF list
<1>8. list \in Lists(E)
  BY <1>4, <1>6, <1>7 DEF Lists, OneEach
<1>9. \A i \in 1 .. Len(list) : list[i].name \in S /\ file[list[i].name] = list[i].data
  BY <1>5, <1>6, <1>7
<1>10. \A x \in S : \E i \in 1 .. Len(list) : list[i].name = x
  BY <1>4, <1>6, <1>7
<1>11. OnFile(list) = file
  BY <1>3, <1>8, <1>9, <1>10, OnFileIs
<1> QED
  BY <1>2, <1>8, <1>11

-----------------------------------------------------------------------------
(* The loops: of a set that holds what a loop begins with, and that no     *)
(* turn leaves, the loop is a function to it.                              *)

(* msi_stream_name.                                                        *)
NameTurn(key, name, i) == name \o <<Dot>> \o key[i]

(* msi_stream_name: the keys of a row, one behind the other.               *)
LEMMA NameLoop ==
  ASSUME NEW key \in Seq(Seq(Plain)), NEW S, TableName \in S,
         \A q \in S, i \in 1 .. Len(key) : NameTurn(key, q, i) \in S
  PROVE  \E f \in [0 .. Len(key) -> S] :
           /\ f[0] = TableName
           /\ \A i \in 1 .. Len(key) : f[i] = NameTurn(key, f[i - 1], i)
           /\ StreamName(key) = f[Len(key)]
<1> DEFINE N == Len(key)
           base == TableName
           Turn(q, i) == NameTurn(key, q, i)
           step == [p \in S \X (1 .. N) |-> Turn(p[1], p[2])]
           Body(f, i) == IF i = 0 THEN base ELSE Turn(f[i - 1], i)
           e == CHOOSE f : f = [i \in 0 .. N |-> Body(f, i)]
<1>1. N \in Nat /\ base \in S /\ \A q \in S, i \in 1 .. N : Turn(q, i) \in S
  OBVIOUS
<1>2. StreamName(key) = e[N]
  BY Zenon DEF StreamName, NameTurn
<1> HIDE DEF N, base, Turn
<1>3. \A q \in S, i \in 1 .. N : step[<<q, i>>] = Turn(q, i) /\ step[<<q, i>>] \in S
  BY <1>1
<1> HIDE DEF step
<1>4. PICK g \in [0 .. N -> S] : g[0] = base /\ \A i \in 1 .. N : g[i] = step[<<g[i - 1], i>>]
  <2>1. LoopsOf(N, S, base, step) # {}
    BY <1>1, <1>3, LoopExists
  <2> QED
    BY <2>1 DEF LoopsOf
<1>5. ASSUME NEW i \in 0 .. N PROVE g[i] = Body(g, i)
  <2>1. CASE i # 0
    <3>1. i \in 1 .. N /\ i - 1 \in 0 .. N
      BY <1>1, <2>1
    <3> QED
      BY <1>3, <1>4, <2>1, <3>1
  <2> QED
    BY <1>4, <2>1
<1>6. g = [i \in 0 .. N |-> Body(g, i)]
  <2> HIDE DEF Body
  <2> QED
    BY <1>4, <1>5
<1>7. e = [i \in 0 .. N |-> Body(e, i)]
  <2> HIDE DEF Body
  <2> QED
    BY <1>6
<1> HIDE DEF e
<1>8. ASSUME NEW i \in 0 .. N PROVE e[i] = Body(e, i)
  <2> HIDE DEF Body
  <2> QED
    BY <1>7
<1>9. e[0] = base /\ \A i \in 1 .. N : e[i] = Turn(e[i - 1], i)
  <2>1. 0 \in 0 .. N /\ \A i \in 1 .. N : i \in 0 .. N /\ i # 0
    BY <1>1
  <2> QED
    BY <1>8, <2>1
<1>10. \A i \in 0 .. N : e[i] \in S
  <2>1. \A i \in 1 .. N : e[i - 1] \in S => e[i] \in S
    BY <1>1, <1>9
  <2> QED
    BY <1>1, <1>9, <2>1, LoopStays
<1>11. e \in [0 .. N -> S]
  <2> HIDE DEF Body
  <2> QED
    BY <1>7, <1>10
<1> QED
  BY <1>2, <1>9, <1>11 DEF N, base, Turn

(* The names a view adds to the strings.                                   *)
AddStart(known) == known
AddTurn(list, known, i) == AddString(known, list[i])

(* A query is prepared: the names of the streams become strings.           *)
LEMMA AddLoop ==
  ASSUME NEW known, NEW list, Len(list) \in Nat, NEW S, AddStart(known) \in S,
         \A q \in S, i \in 1 .. Len(list) : AddTurn(list, q, i) \in S
  PROVE  \E f \in [0 .. Len(list) -> S] :
           /\ f[0] = AddStart(known)
           /\ \A i \in 1 .. Len(list) : f[i] = AddTurn(list, f[i - 1], i)
           /\ AddStrings(known, list) = f[Len(list)]
<1> DEFINE N == Len(list)
           base == AddStart(known)
           Turn(q, i) == AddTurn(list, q, i)
           step == [p \in S \X (1 .. N) |-> Turn(p[1], p[2])]
           Body(f, i) == IF i = 0 THEN base ELSE Turn(f[i - 1], i)
           e == CHOOSE f : f = [i \in 0 .. N |-> Body(f, i)]
<1>1. N \in Nat /\ base \in S /\ \A q \in S, i \in 1 .. N : Turn(q, i) \in S
  OBVIOUS
<1>2. AddStrings(known, list) = e[N]
  BY Zenon DEF AddStrings, AddTurn, AddStart
<1> HIDE DEF N, base, Turn
<1>3. \A q \in S, i \in 1 .. N : step[<<q, i>>] = Turn(q, i) /\ step[<<q, i>>] \in S
  BY <1>1
<1> HIDE DEF step
<1>4. PICK g \in [0 .. N -> S] : g[0] = base /\ \A i \in 1 .. N : g[i] = step[<<g[i - 1], i>>]
  <2>1. LoopsOf(N, S, base, step) # {}
    BY <1>1, <1>3, LoopExists
  <2> QED
    BY <2>1 DEF LoopsOf
<1>5. ASSUME NEW i \in 0 .. N PROVE g[i] = Body(g, i)
  <2>1. CASE i # 0
    <3>1. i \in 1 .. N /\ i - 1 \in 0 .. N
      BY <1>1, <2>1
    <3> QED
      BY <1>3, <1>4, <2>1, <3>1
  <2> QED
    BY <1>4, <2>1
<1>6. g = [i \in 0 .. N |-> Body(g, i)]
  <2> HIDE DEF Body
  <2> QED
    BY <1>4, <1>5
<1>7. e = [i \in 0 .. N |-> Body(e, i)]
  <2> HIDE DEF Body
  <2> QED
    BY <1>6
<1> HIDE DEF e
<1>8. ASSUME NEW i \in 0 .. N PROVE e[i] = Body(e, i)
  <2> HIDE DEF Body
  <2> QED
    BY <1>7
<1>9. e[0] = base /\ \A i \in 1 .. N : e[i] = Turn(e[i - 1], i)
  <2>1. 0 \in 0 .. N /\ \A i \in 1 .. N : i \in 0 .. N /\ i # 0
    BY <1>1
  <2> QED
    BY <1>8, <2>1
<1>10. \A i \in 0 .. N : e[i] \in S
  <2>1. \A i \in 1 .. N : e[i - 1] \in S => e[i] \in S
    BY <1>1, <1>9
  <2> QED
    BY <1>1, <1>9, <2>1, LoopStays
<1>11. e \in [0 .. N -> S]
  <2> HIDE DEF Body
  <2> QED
    BY <1>7, <1>10
<1> QED
  BY <1>2, <1>9, <1>11 DEF N, base, Turn

(* UPDATE of the rows of a view.                                           *)
UpdateTurn(v, rows, data, list, row) ==
  IF row \in rows THEN Created(list, NameOf(v, row), data) ELSE list

(* UPDATE: one row of the view after the other.                            *)
LEMMA UpdateLoop ==
  ASSUME NEW v, views[v].count \in Nat, NEW rows, NEW data, NEW S, streams \in S,
         \A q \in S, i \in 1 .. views[v].count : UpdateTurn(v, rows, data, q, i) \in S
  PROVE  \E f \in [0 .. views[v].count -> S] :
           /\ f[0] = streams
           /\ \A i \in 1 .. views[v].count : f[i] = UpdateTurn(v, rows, data, f[i - 1], i)
           /\ Updated(v, rows, data) = f[views[v].count]
<1> DEFINE N == views[v].count
           base == streams
           Turn(q, i) == UpdateTurn(v, rows, data, q, i)
           step == [p \in S \X (1 .. N) |-> Turn(p[1], p[2])]
           Body(f, i) == IF i = 0 THEN base ELSE Turn(f[i - 1], i)
           e == CHOOSE f : f = [i \in 0 .. N |-> Body(f, i)]
<1>1. N \in Nat /\ base \in S /\ \A q \in S, i \in 1 .. N : Turn(q, i) \in S
  OBVIOUS
<1>2. Updated(v, rows, data) = e[N]
  BY Zenon DEF Updated, UpdateTurn
<1> HIDE DEF N, base, Turn
<1>3. \A q \in S, i \in 1 .. N : step[<<q, i>>] = Turn(q, i) /\ step[<<q, i>>] \in S
  BY <1>1
<1> HIDE DEF step
<1>4. PICK g \in [0 .. N -> S] : g[0] = base /\ \A i \in 1 .. N : g[i] = step[<<g[i - 1], i>>]
  <2>1. LoopsOf(N, S, base, step) # {}
    BY <1>1, <1>3, LoopExists
  <2> QED
    BY <2>1 DEF LoopsOf
<1>5. ASSUME NEW i \in 0 .. N PROVE g[i] = Body(g, i)
  <2>1. CASE i # 0
    <3>1. i \in 1 .. N /\ i - 1 \in 0 .. N
      BY <1>1, <2>1
    <3> QED
      BY <1>3, <1>4, <2>1, <3>1
  <2> QED
    BY <1>4, <2>1
<1>6. g = [i \in 0 .. N |-> Body(g, i)]
  <2> HIDE DEF Body
  <2> QED
    BY <1>4, <1>5
<1>7. e = [i \in 0 .. N |-> Body(e, i)]
  <2> HIDE DEF Body
  <2> QED
    BY <1>6
<1> HIDE DEF e
<1>8. ASSUME NEW i \in 0 .. N PROVE e[i] = Body(e, i)
  <2> HIDE DEF Body
  <2> QED
    BY <1>7
<1>9. e[0] = base /\ \A i \in 1 .. N : e[i] = Turn(e[i - 1], i)
  <2>1. 0 \in 0 .. N /\ \A i \in 1 .. N : i \in 0 .. N /\ i # 0
    BY <1>1
  <2> QED
    BY <1>8, <2>1
<1>10. \A i \in 0 .. N : e[i] \in S
  <2>1. \A i \in 1 .. N : e[i - 1] \in S => e[i] \in S
    BY <1>1, <1>9
  <2> QED
    BY <1>1, <1>9, <2>1, LoopStays
<1>11. e \in [0 .. N -> S]
  <2> HIDE DEF Body
  <2> QED
    BY <1>7, <1>10
<1> QED
  BY <1>2, <1>9, <1>11 DEF N, base, Turn

(* DELETE of rows of a view.                                               *)
DeleteStart(v) == [list |-> streams, rows |-> views[v].rows, count |-> views[v].count]
DeleteTurn(rows, state, row) == IF row \in rows THEN DeleteRow(state, row) ELSE state

(* DELETE: one row of the view after the other.                            *)
LEMMA DeleteLoop ==
  ASSUME NEW v, views[v].count \in Nat, NEW rows, NEW S, DeleteStart(v) \in S,
         \A q \in S, i \in 1 .. views[v].count : DeleteTurn(rows, q, i) \in S
  PROVE  \E f \in [0 .. views[v].count -> S] :
           /\ f[0] = DeleteStart(v)
           /\ \A i \in 1 .. views[v].count : f[i] = DeleteTurn(rows, f[i - 1], i)
           /\ Deleted(v, rows) = f[views[v].count]
<1> DEFINE N == views[v].count
           base == DeleteStart(v)
           Turn(q, i) == DeleteTurn(rows, q, i)
           step == [p \in S \X (1 .. N) |-> Turn(p[1], p[2])]
           Body(f, i) == IF i = 0 THEN base ELSE Turn(f[i - 1], i)
           e == CHOOSE f : f = [i \in 0 .. N |-> Body(f, i)]
<1>1. N \in Nat /\ base \in S /\ \A q \in S, i \in 1 .. N : Turn(q, i) \in S
  OBVIOUS
<1>2. Deleted(v, rows) = e[N]
  BY Zenon DEF Deleted, DeleteTurn, DeleteStart
<1> HIDE DEF N, base, Turn
<1>3. \A q \in S, i \in 1 .. N : step[<<q, i>>] = Turn(q, i) /\ step[<<q, i>>] \in S
  BY <1>1
<1> HIDE DEF step
<1>4. PICK g \in [0 .. N -> S] : g[0] = base /\ \A i \in 1 .. N : g[i] = step[<<g[i - 1], i>>]
  <2>1. LoopsOf(N, S, base, step) # {}
    BY <1>1, <1>3, LoopExists
  <2> QED
    BY <2>1 DEF LoopsOf
<1>5. ASSUME NEW i \in 0 .. N PROVE g[i] = Body(g, i)
  <2>1. CASE i # 0
    <3>1. i \in 1 .. N /\ i - 1 \in 0 .. N
      BY <1>1, <2>1
    <3> QED
      BY <1>3, <1>4, <2>1, <3>1
  <2> QED
    BY <1>4, <2>1
<1>6. g = [i \in 0 .. N |-> Body(g, i)]
  <2> HIDE DEF Body
  <2> QED
    BY <1>4, <1>5
<1>7. e = [i \in 0 .. N |-> Body(e, i)]
  <2> HIDE DEF Body
  <2> QED
    BY <1>6
<1> HIDE DEF e
<1>8. ASSUME NEW i \in 0 .. N PROVE e[i] = Body(e, i)
  <2> HIDE DEF Body
  <2> QED
    BY <1>7
<1>9. e[0] = base /\ \A i \in 1 .. N : e[i] = Turn(e[i - 1], i)
  <2>1. 0 \in 0 .. N /\ \A i \in 1 .. N : i \in 0 .. N /\ i # 0
    BY <1>1
  <2> QED
    BY <1>8, <2>1
<1>10. \A i \in 0 .. N : e[i] \in S
  <2>1. \A i \in 1 .. N : e[i - 1] \in S => e[i] \in S
    BY <1>1, <1>9
  <2> QED
    BY <1>1, <1>9, <2>1, LoopStays
<1>11. e \in [0 .. N -> S]
  <2> HIDE DEF Body
  <2> QED
    BY <1>7, <1>10
<1> QED
  BY <1>2, <1>9, <1>11 DEF N, base, Turn

(* The summary information is read.                                        *)
LoadStart == [props |-> Properties0, stopped |-> FALSE]

(* The entries of the summary information, as they are read.               *)
LEMMA LoadLoop ==
  ASSUME NEW content \in Contents, NEW S, LoadStart \in S,
         \A q \in S, i \in 1 .. Len(content) : ReadProperty(q, content[i]) \in S
  PROVE  \E f \in [0 .. Len(content) -> S] :
           /\ f[0] = LoadStart
           /\ \A i \in 1 .. Len(content) : f[i] = ReadProperty(f[i - 1], content[i])
           /\ Loaded(content) = f[Len(content)].props
<1> DEFINE N == Len(content)
           base == LoadStart
           Turn(q, i) == ReadProperty(q, content[i])
           step == [p \in S \X (1 .. N) |-> Turn(p[1], p[2])]
           Body(f, i) == IF i = 0 THEN base ELSE Turn(f[i - 1], i)
           e == CHOOSE f : f = [i \in 0 .. N |-> Body(f, i)]
<1>1. N \in Nat /\ base \in S /\ \A q \in S, i \in 1 .. N : Turn(q, i) \in S
  OBVIOUS
<1>2. Loaded(content) = e[N].props
  BY Zenon DEF Loaded, LoadStart, ReadProperty
<1> HIDE DEF N, base, Turn
<1>3. \A q \in S, i \in 1 .. N : step[<<q, i>>] = Turn(q, i) /\ step[<<q, i>>] \in S
  BY <1>1
<1> HIDE DEF step
<1>4. PICK g \in [0 .. N -> S] : g[0] = base /\ \A i \in 1 .. N : g[i] = step[<<g[i - 1], i>>]
  <2>1. LoopsOf(N, S, base, step) # {}
    BY <1>1, <1>3, LoopExists
  <2> QED
    BY <2>1 DEF LoopsOf
<1>5. ASSUME NEW i \in 0 .. N PROVE g[i] = Body(g, i)
  <2>1. CASE i # 0
    <3>1. i \in 1 .. N /\ i - 1 \in 0 .. N
      BY <1>1, <2>1
    <3> QED
      BY <1>3, <1>4, <2>1, <3>1
  <2> QED
    BY <1>4, <2>1
<1>6. g = [i \in 0 .. N |-> Body(g, i)]
  <2> HIDE DEF Body
  <2> QED
    BY <1>4, <1>5
<1>7. e = [i \in 0 .. N |-> Body(e, i)]
  <2> HIDE DEF Body
  <2> QED
    BY <1>6
<1> HIDE DEF e
<1>8. ASSUME NEW i \in 0 .. N PROVE e[i] = Body(e, i)
  <2> HIDE DEF Body
  <2> QED
    BY <1>7
<1>9. e[0] = base /\ \A i \in 1 .. N : e[i] = Turn(e[i - 1], i)
  <2>1. 0 \in 0 .. N /\ \A i \in 1 .. N : i \in 0 .. N /\ i # 0
    BY <1>1
  <2> QED
    BY <1>8, <2>1
<1>10. \A i \in 0 .. N : e[i] \in S
  <2>1. \A i \in 1 .. N : e[i - 1] \in S => e[i] \in S
    BY <1>1, <1>9
  <2> QED
    BY <1>1, <1>9, <2>1, LoopStays
<1>11. e \in [0 .. N -> S]
  <2> HIDE DEF Body
  <2> QED
    BY <1>7, <1>10
<1> QED
  BY <1>2, <1>9, <1>11 DEF N, base, Turn

(* It is written.                                                          *)
Nothing == <<>>
PersistTurn(props, list, i) ==
  IF i - 1 \in DOMAIN props /\ props[i - 1] # Empty
  THEN Append(list, Property(i - 1, Properties[i - 1], props[i - 1], TRUE))
  ELSE list

(* The properties of the summary information, as they are written.         *)
LEMMA PersistLoop ==
  ASSUME NEW props, NEW S, Nothing \in S,
         \A q \in S, i \in 1 .. MSI_MAX_PROPS : PersistTurn(props, q, i) \in S
  PROVE  \E f \in [0 .. MSI_MAX_PROPS -> S] :
           /\ f[0] = Nothing
           /\ \A i \in 1 .. MSI_MAX_PROPS : f[i] = PersistTurn(props, f[i - 1], i)
           /\ Persistent(props) = f[MSI_MAX_PROPS]
<1> DEFINE N == MSI_MAX_PROPS
           base == Nothing
           Turn(q, i) == PersistTurn(props, q, i)
           step == [p \in S \X (1 .. N) |-> Turn(p[1], p[2])]
           Body(f, i) == IF i = 0 THEN base ELSE Turn(f[i - 1], i)
           e == CHOOSE f : f = [i \in 0 .. N |-> Body(f, i)]
<1>1. N \in Nat /\ base \in S /\ \A q \in S, i \in 1 .. N : Turn(q, i) \in S
  BY DEF MSI_MAX_PROPS
<1>2. Persistent(props) = e[N]
  BY Zenon DEF Persistent, Nothing, PersistTurn
<1> HIDE DEF N, base, Turn
<1>3. \A q \in S, i \in 1 .. N : step[<<q, i>>] = Turn(q, i) /\ step[<<q, i>>] \in S
  BY <1>1
<1> HIDE DEF step
<1>4. PICK g \in [0 .. N -> S] : g[0] = base /\ \A i \in 1 .. N : g[i] = step[<<g[i - 1], i>>]
  <2>1. LoopsOf(N, S, base, step) # {}
    BY <1>1, <1>3, LoopExists
  <2> QED
    BY <2>1 DEF LoopsOf
<1>5. ASSUME NEW i \in 0 .. N PROVE g[i] = Body(g, i)
  <2>1. CASE i # 0
    <3>1. i \in 1 .. N /\ i - 1 \in 0 .. N
      BY <1>1, <2>1
    <3> QED
      BY <1>3, <1>4, <2>1, <3>1
  <2> QED
    BY <1>4, <2>1
<1>6. g = [i \in 0 .. N |-> Body(g, i)]
  <2> HIDE DEF Body
  <2> QED
    BY <1>4, <1>5
<1>7. e = [i \in 0 .. N |-> Body(e, i)]
  <2> HIDE DEF Body
  <2> QED
    BY <1>6
<1> HIDE DEF e
<1>8. ASSUME NEW i \in 0 .. N PROVE e[i] = Body(e, i)
  <2> HIDE DEF Body
  <2> QED
    BY <1>7
<1>9. e[0] = base /\ \A i \in 1 .. N : e[i] = Turn(e[i - 1], i)
  <2>1. 0 \in 0 .. N /\ \A i \in 1 .. N : i \in 0 .. N /\ i # 0
    BY <1>1
  <2> QED
    BY <1>8, <2>1
<1>10. \A i \in 0 .. N : e[i] \in S
  <2>1. \A i \in 1 .. N : e[i - 1] \in S => e[i] \in S
    BY <1>1, <1>9
  <2> QED
    BY <1>1, <1>9, <2>1, LoopStays
<1>11. e \in [0 .. N -> S]
  <2> HIDE DEF Body
  <2> QED
    BY <1>7, <1>10
<1> QED
  BY <1>2, <1>9, <1>11 DEF N, base, Turn

(* Properties are imported.                                                *)
ChangeStart(props, changes) == [props |-> props, left |-> Len(changes), set |-> {}]

(* The changes of an import, one after the other.                          *)
LEMMA ChangeLoop ==
  ASSUME NEW props, NEW changes \in Seq([id : Int, value : Values]), NEW S, ChangeStart(props, changes) \in S,
         \A q \in S, i \in 1 .. Len(changes) : SetProperty(q, changes[i].id, changes[i].value) \in S
  PROVE  \E f \in [0 .. Len(changes) -> S] :
           /\ f[0] = ChangeStart(props, changes)
           /\ \A i \in 1 .. Len(changes) : f[i] = SetProperty(f[i - 1], changes[i].id, changes[i].value)
           /\ Changed(props, changes) = f[Len(changes)].props
<1> DEFINE N == Len(changes)
           base == ChangeStart(props, changes)
           Turn(q, i) == SetProperty(q, changes[i].id, changes[i].value)
           step == [p \in S \X (1 .. N) |-> Turn(p[1], p[2])]
           Body(f, i) == IF i = 0 THEN base ELSE Turn(f[i - 1], i)
           e == CHOOSE f : f = [i \in 0 .. N |-> Body(f, i)]
<1>1. N \in Nat /\ base \in S /\ \A q \in S, i \in 1 .. N : Turn(q, i) \in S
  OBVIOUS
<1>2. Changed(props, changes) = e[N].props
  BY Zenon DEF Changed, ChangeStart, SetProperty
<1> HIDE DEF N, base, Turn
<1>3. \A q \in S, i \in 1 .. N : step[<<q, i>>] = Turn(q, i) /\ step[<<q, i>>] \in S
  BY <1>1
<1> HIDE DEF step
<1>4. PICK g \in [0 .. N -> S] : g[0] = base /\ \A i \in 1 .. N : g[i] = step[<<g[i - 1], i>>]
  <2>1. LoopsOf(N, S, base, step) # {}
    BY <1>1, <1>3, LoopExists
  <2> QED
    BY <2>1 DEF LoopsOf
<1>5. ASSUME NEW i \in 0 .. N PROVE g[i] = Body(g, i)
  <2>1. CASE i # 0
    <3>1. i \in 1 .. N /\ i - 1 \in 0 .. N
      BY <1>1, <2>1
    <3> QED
      BY <1>3, <1>4, <2>1, <3>1
  <2> QED
    BY <1>4, <2>1
<1>6. g = [i \in 0 .. N |-> Body(g, i)]
  <2> HIDE DEF Body
  <2> QED
    BY <1>4, <1>5
<1>7. e = [i \in 0 .. N |-> Body(e, i)]
  <2> HIDE DEF Body
  <2> QED
    BY <1>6
<1> HIDE DEF e
<1>8. ASSUME NEW i \in 0 .. N PROVE e[i] = Body(e, i)
  <2> HIDE DEF Body
  <2> QED
    BY <1>7
<1>9. e[0] = base /\ \A i \in 1 .. N : e[i] = Turn(e[i - 1], i)
  <2>1. 0 \in 0 .. N /\ \A i \in 1 .. N : i \in 0 .. N /\ i # 0
    BY <1>1
  <2> QED
    BY <1>8, <2>1
<1>10. \A i \in 0 .. N : e[i] \in S
  <2>1. \A i \in 1 .. N : e[i - 1] \in S => e[i] \in S
    BY <1>1, <1>9
  <2> QED
    BY <1>1, <1>9, <2>1, LoopStays
<1>11. e \in [0 .. N -> S]
  <2> HIDE DEF Body
  <2> QED
    BY <1>7, <1>10
<1> QED
  BY <1>2, <1>9, <1>11 DEF N, base, Turn

(* DELETE of storages.                                                     *)
StoragesStart == [list |-> storages, count |-> Len(storages),
                  rows |-> [i \in DOMAIN storages |-> storages[i].name]]
StorageTurn(found, state, row) == IF row \in found THEN DeleteStorageRow(state, row) ELSE state

(* DELETE of storages: one row after the other.                            *)
LEMMA StorageLoop ==
  ASSUME NEW found, Len(storages) \in Nat, NEW S, StoragesStart \in S,
         \A q \in S, i \in 1 .. Len(storages) : StorageTurn(found, q, i) \in S
  PROVE  \E f \in [0 .. Len(storages) -> S] :
           /\ f[0] = StoragesStart
           /\ \A i \in 1 .. Len(storages) : f[i] = StorageTurn(found, f[i - 1], i)
           /\ DeletedStorages(found) = f[Len(storages)].list
<1> DEFINE N == Len(storages)
           base == StoragesStart
           Turn(q, i) == StorageTurn(found, q, i)
           step == [p \in S \X (1 .. N) |-> Turn(p[1], p[2])]
           Body(f, i) == IF i = 0 THEN base ELSE Turn(f[i - 1], i)
           e == CHOOSE f : f = [i \in 0 .. N |-> Body(f, i)]
<1>1. N \in Nat /\ base \in S /\ \A q \in S, i \in 1 .. N : Turn(q, i) \in S
  OBVIOUS
<1>2. DeletedStorages(found) = e[N].list
  BY Zenon DEF DeletedStorages, StoragesStart, StorageTurn
<1> HIDE DEF N, base, Turn
<1>3. \A q \in S, i \in 1 .. N : step[<<q, i>>] = Turn(q, i) /\ step[<<q, i>>] \in S
  BY <1>1
<1> HIDE DEF step
<1>4. PICK g \in [0 .. N -> S] : g[0] = base /\ \A i \in 1 .. N : g[i] = step[<<g[i - 1], i>>]
  <2>1. LoopsOf(N, S, base, step) # {}
    BY <1>1, <1>3, LoopExists
  <2> QED
    BY <2>1 DEF LoopsOf
<1>5. ASSUME NEW i \in 0 .. N PROVE g[i] = Body(g, i)
  <2>1. CASE i # 0
    <3>1. i \in 1 .. N /\ i - 1 \in 0 .. N
      BY <1>1, <2>1
    <3> QED
      BY <1>3, <1>4, <2>1, <3>1
  <2> QED
    BY <1>4, <2>1
<1>6. g = [i \in 0 .. N |-> Body(g, i)]
  <2> HIDE DEF Body
  <2> QED
    BY <1>4, <1>5
<1>7. e = [i \in 0 .. N |-> Body(e, i)]
  <2> HIDE DEF Body
  <2> QED
    BY <1>6
<1> HIDE DEF e
<1>8. ASSUME NEW i \in 0 .. N PROVE e[i] = Body(e, i)
  <2> HIDE DEF Body
  <2> QED
    BY <1>7
<1>9. e[0] = base /\ \A i \in 1 .. N : e[i] = Turn(e[i - 1], i)
  <2>1. 0 \in 0 .. N /\ \A i \in 1 .. N : i \in 0 .. N /\ i # 0
    BY <1>1
  <2> QED
    BY <1>8, <2>1
<1>10. \A i \in 0 .. N : e[i] \in S
  <2>1. \A i \in 1 .. N : e[i - 1] \in S => e[i] \in S
    BY <1>1, <1>9
  <2> QED
    BY <1>1, <1>9, <2>1, LoopStays
<1>11. e \in [0 .. N -> S]
  <2> HIDE DEF Body
  <2> QED
    BY <1>7, <1>10
<1> QED
  BY <1>2, <1>9, <1>11 DEF N, base, Turn

-----------------------------------------------------------------------------
(* What is in the list: streams with a coded name, and the summary         *)
(* information.                                                            *)
FileNames == {Encode(name) : name \in PlainNames}
StreamEntries == [name : FileNames, data : Data] \cup [name : {SummaryName}, data : Contents]

(* A plain name, encoded: not the name of a table, not the summary         *)
(* information's, and decoded what it was.                                 *)
LEMMA EncodedPlain ==
  ASSUME NEW name \in PlainNames
  PROVE  /\ Encode(name) \in FileNames /\ Encode(name) \in Seq(NoDigits) /\ Encode(name) # SummaryName
         /\ ~IsTableStream(Encode(name)) /\ Decode(Encode(name)) = name
<1>1. name \in Seq(Plain) /\ name \in Seq(Nat) /\ ~IsTableStream(name)
  <2>1. name \in Seq(Plain) /\ ~IsTableStream(name)
    BY DEF PlainNames
  <2>2. \A i \in 1 .. Len(name) : name[i] \in Nat
    BY <2>1 DEF Plain
  <2> QED
    BY <2>1, <2>2
<1>2. Encode(name) \in Seq(NoDigits) /\ ~IsTableStream(Encode(name))
  BY <1>1, EncodeHasNoDigits
<1>3. Encode(name) # SummaryName
  <2>1. PICK i \in DOMAIN SummaryName : Mime(SummaryName[i]) # -1
    BY StreamsAssumption
  <2>2. \A s \in Seq(NoDigits) : \A j \in DOMAIN s : Mime(s[j]) = -1
    BY DEF NoDigits
  <2> QED
    BY <1>2, <2>1, <2>2
<1> QED
  BY <1>1, <1>2, <1>3, RoundTrip DEF FileNames

(* The summary information's name is not changed when it is decoded.       *)
LEMMA SummaryPlain ==
  SummaryName \in PlainNames /\ Decode(SummaryName) = SummaryName /\ ~IsTableStream(SummaryName)
BY StreamsAssumption, DecodePlain DEF PlainNames

(* A name in the list decodes to a plain one, and back, except for the     *)
(* summary information's.                                                  *)
LEMMA NameFacts ==
  ASSUME NEW s \in FileNames \cup {SummaryName}
  PROVE  /\ ~IsTableStream(s) /\ Decode(s) \in PlainNames
         /\ s # SummaryName => Encode(Decode(s)) = s
<1>1. CASE s = SummaryName
  BY <1>1, SummaryPlain
<1>2. CASE s \in FileNames
  <2>1. PICK name \in PlainNames : s = Encode(name)
    BY <1>2 DEF FileNames
  <2> QED
    BY <2>1, EncodedPlain
<1> QED
  BY <1>1, <1>2

(* The elements that the statements make.                                  *)
LEMMA EntryFacts ==
  /\ Entries(StreamEntries)
  /\ \A name \in PlainNames, data \in Data : Entry(Encode(name), data) \in StreamEntries
  /\ \A content \in Contents : Entry(SummaryName, content) \in StreamEntries
<1>1. Entries(StreamEntries)
  BY DEF Entries, Entry, StreamEntries
<1>2. ASSUME NEW name \in PlainNames, NEW data \in Data PROVE Entry(Encode(name), data) \in StreamEntries
  BY EncodedPlain DEF Entry, StreamEntries
<1>3. ASSUME NEW content \in Contents PROVE Entry(SummaryName, content) \in StreamEntries
  BY DEF Entry, StreamEntries
<1> QED
  BY <1>1, <1>2, <1>3

(* Which data an element may have.                                         *)
LEMMA OfEntry ==
  ASSUME NEW e \in StreamEntries
  PROVE  /\ e.name \in FileNames \cup {SummaryName}
         /\ e.name = SummaryName => e.data \in Contents
         /\ e.name # SummaryName => e.data \in Data
<1>1. SummaryName \notin FileNames
  <2>1. \A name \in PlainNames : Encode(name) # SummaryName
    BY EncodedPlain
  <2> QED
    BY <2>1 DEF FileNames
<1> QED
  BY <1>1 DEF StreamEntries

(* What is on file can be read again.                                      *)
LEMMA OnFileEntries ==
  ASSUME NEW list \in Lists(StreamEntries)
  PROVE  OnlyEntries(StreamEntries, OnFile(list)) /\ DOMAIN OnFile(list) = NamesIn(list)
<1> DEFINE map == OnFile(list)
           S == NamesIn(list)
<1>1. /\ map = [name \in S |-> DataOf(list, name)] /\ IsFiniteSet(S)
      /\ \A name \in S : Entry(name, map[name]) \in StreamEntries
  <2> HIDE DEF map, S
  <2> QED
    BY EntryFacts, OnFileFacts DEF map, S
<1> HIDE DEF map, S
<1>2. DOMAIN map = S /\ map = [name \in S |-> map[name]]
  BY <1>1
<1> QED
  BY <1>1, <1>2 DEF OnlyEntries, map, S

(* The list read from a file with no other streams has all of them.        *)
LEMMA CachedFacts ==
  ASSUME NEW file, OnlyEntries(StreamEntries, file)
  PROVE  Cached(file) \in Lists(StreamEntries) /\ OnFile(Cached(file)) = file
<1>1. ASSUME NEW name \in DOMAIN file PROVE ~IsTableStream(name)
  <2>1. Entry(name, file[name]) \in StreamEntries /\ Entry(name, file[name]).name = name
    BY DEF OnlyEntries, Entry
  <2> QED
    BY <2>1, OfEntry, NameFacts
<1>2. Cached(file) = Listing(DOMAIN file, file)
  <2>1. {name \in DOMAIN file : ~IsTableStream(name)} = DOMAIN file
    BY <1>1
  <2> QED
    BY <2>1 DEF Cached
<1> QED
  BY <1>2, ListingFacts

-----------------------------------------------------------------------------
(* Maps that differ by one data under some names, or by names that went.   *)
Grown(old, new, data) ==
  /\ DOMAIN old \subseteq DOMAIN new
  /\ \A name \in DOMAIN new : new[name] = data \/ (name \in DOMAIN old /\ new[name] = old[name])
Shrunk(old, new) ==
  DOMAIN new \subseteq DOMAIN old /\ \A name \in DOMAIN new : new[name] = old[name]
IsMap(f) == f = [name \in DOMAIN f |-> f[name]]

(* One more name with the data.                                            *)
LEMMA GrownWith ==
  ASSUME NEW old, NEW mid, NEW name, NEW data, Grown(old, mid, data)
  PROVE  Grown(old, With(mid, name, data), data)
<1> DEFINE new == With(mid, name, data)
<1>1. DOMAIN new = DOMAIN mid \cup {name} /\ new[name] = data
      /\ \A n \in DOMAIN mid : n # name => new[n] = mid[n]
  BY DEF With
<1> HIDE DEF new
<1>2. Grown(old, new, data)
  BY <1>1 DEF Grown
<1> QED
  BY <1>2 DEF new

(* One more name that went.                                                *)
LEMMA ShrunkWithout ==
  ASSUME NEW old, NEW mid, NEW name, Shrunk(old, mid)
  PROVE  Shrunk(old, Without(mid, name))
BY DEF Shrunk, Without

(* A map that has grown by one data is the old one, or one into which      *)
(* some names were put.                                                    *)
LEMMA GrownPuts ==
  ASSUME NEW old, NEW new, NEW data, IsMap(old), IsMap(new), Grown(old, new, data)
  PROVE  \/ new = old
         \/ \E n \in DOMAIN new : \A name \in DOMAIN new :
              new[name] = new[n] \/ (name \in DOMAIN old /\ new[name] = old[name])
<1>1. CASE \E n \in DOMAIN new : new[n] = data
  <2>1. PICK n \in DOMAIN new : new[n] = data
    BY <1>1
  <2> QED
    BY <2>1 DEF Grown
<1>2. CASE ~ \E n \in DOMAIN new : new[n] = data
  <2>1. \A name \in DOMAIN new : name \in DOMAIN old /\ new[name] = old[name]
    BY <1>2 DEF Grown
  <2>2. DOMAIN new = DOMAIN old
    BY <2>1 DEF Grown
  <2>3. new = old
    BY <2>1, <2>2 DEF IsMap
  <2> QED
    BY <2>3
<1> QED
  BY <1>1, <1>2

(* The list, the file and the strings.                                     *)
ListInv ==
  /\ streams \in Lists(StreamEntries)
  /\ OnlyEntries(StreamEntries, saved.streams)
  /\ strings \in Seq(PlainNames)

(* A list of streams is a sequence, and a map when it is written.          *)
LEMMA ListFacts ==
  ASSUME NEW list \in Lists(StreamEntries)
  PROVE  /\ list \in Seq(StreamEntries) /\ OneEach(list) /\ DOMAIN list = 1 .. Len(list) /\ Len(list) \in Nat
         /\ \A i \in 1 .. Len(list) : list[i] \in StreamEntries /\ list[i].name \in FileNames \cup {SummaryName}
         /\ IsMap(OnFile(list))
<1>1. list \in Seq(StreamEntries) /\ OneEach(list) /\ DOMAIN list = 1 .. Len(list) /\ Len(list) \in Nat
  BY DEF Lists
<1>2. \A i \in 1 .. Len(list) : list[i] \in StreamEntries
  BY <1>1
<1>3. IsMap(OnFile(list))
  BY OnFileEntries DEF OnlyEntries, IsMap
<1> QED
  BY <1>1, <1>2, <1>3, OfEntry

(* The characters of a plain name are numbers.                             *)
LEMMA PlainNat ==
  ASSUME NEW name \in PlainNames
  PROVE  name \in Seq(Nat) /\ name \in Seq(Plain)
<1>1. name \in Seq(Plain)
  BY DEF PlainNames
<1>2. \A i \in 1 .. Len(name) : name[i] \in Nat
  BY <1>1 DEF Plain
<1> QED
  BY <1>1, <1>2

(* The names of which a view is made.                                      *)
LEMMA ListedPlain ==
  ASSUME streams \in Lists(StreamEntries)
  PROVE  Listed \in Seq(PlainNames) /\ Len(Listed) = Len(streams)
<1>1. DOMAIN streams = 1 .. Len(streams) /\ Len(streams) \in Nat
      /\ \A i \in 1 .. Len(streams) : streams[i].name \in FileNames \cup {SummaryName}
  BY ListFacts
<1>2. \A i \in 1 .. Len(streams) : Decode(streams[i].name) \in PlainNames
  BY <1>1, NameFacts
<1>3. Listed = [i \in 1 .. Len(streams) |-> Decode(streams[i].name)]
  BY <1>1 DEF Listed
<1>4. Listed \in [1 .. Len(streams) -> PlainNames]
  BY <1>2, <1>3
<1> QED
  BY <1>1, <1>4

(* What is put behind a sequence does not change its first element.        *)
LEMMA SameHead ==
  ASSUME NEW T, NEW q \in Seq(T), NEW s \in Seq(T), NEW t \in Seq(T), Len(q) > 0
  PROVE  q \o s \o t \in Seq(T) /\ Len(q \o s \o t) > 0 /\ (q \o s \o t)[1] = q[1]
OBVIOUS

(* The stream of a cell has a plain name, which begins with that of the    *)
(* table.                                                                  *)
LEMMA CellName ==
  ASSUME NEW key \in Keys
  PROVE  StreamName(key) \in PlainNames /\ StreamName(key)[1] = 66
<1> DEFINE S == {name \in Seq(Plain) : Len(name) > 0 /\ name[1] = 66}
<1>1. key \in Seq(Seq(Plain)) /\ Len(key) \in Nat /\ \A i \in 1 .. Len(key) : key[i] \in Seq(Plain)
  BY StreamsAssumption
<1>2. Dot \in Plain /\ 66 \in Plain
  BY DEF Plain, Coded, Dot, Doubles, TableMark
<1>3. TableName \in S
  BY <1>2 DEF TableName
<1>4. ASSUME NEW q \in S, NEW i \in 1 .. Len(key) PROVE NameTurn(key, q, i) \in S
  <2>1. PICK dot \in Seq(Plain) : dot = <<Dot>>
    <3>1. \A ch \in Plain : <<ch>> \in Seq(Plain)
      OBVIOUS
    <3> QED
      BY <1>2, <3>1
  <2>2. key[i] \in Seq(Plain)
    BY <1>1
  <2>3. q \o dot \o key[i] \in Seq(Plain) /\ Len(q \o dot \o key[i]) > 0 /\ (q \o dot \o key[i])[1] = q[1]
    <3>1. q \in Seq(Plain) /\ Len(q) > 0
      OBVIOUS
    <3> HIDE DEF S
    <3> QED
      BY <2>2, <3>1, SameHead
  <2> QED
    BY <2>1, <2>3 DEF NameTurn
<1> HIDE DEF S
<1>5. PICK f \in [0 .. Len(key) -> S] : StreamName(key) = f[Len(key)]
  BY <1>1, <1>3, <1>4, NameLoop
<1>6. StreamName(key) \in S
  BY <1>1, <1>5
<1> QED
  BY <1>6 DEF S, PlainNames, IsTableStream, TableMark

(* UPDATE puts its data under some names.                                  *)
LEMMA UpdatedFacts ==
  ASSUME ListInv, NEW v, views[v].count \in Nat, NEW rows, \A row \in rows : Named(v, row),
         NEW data \in Data
  PROVE  Updated(v, rows, data) \in Lists(StreamEntries)
         /\ Grown(OnFile(streams), OnFile(Updated(v, rows, data)), data)
<1> DEFINE old == OnFile(streams)
           S == {list \in Lists(StreamEntries) : Grown(old, OnFile(list), data)}
<1>1. streams \in Lists(StreamEntries) /\ strings \in Seq(PlainNames)
  BY DEF ListInv
<1>2. streams \in S
  BY <1>1 DEF Grown
<1>3. ASSUME NEW q \in S, NEW i \in 1 .. views[v].count PROVE UpdateTurn(v, rows, data, q, i) \in S
  <2>1. CASE i \in rows
    <3> DEFINE name == NameOf(v, i)
    <3>1. name \in PlainNames
      BY <1>1, <2>1 DEF Named, NameOf
    <3> HIDE DEF name
    <3>2. Entry(Encode(name), data) \in StreamEntries
      BY <3>1, EntryFacts
    <3>3. Created(q, name, data) \in Lists(StreamEntries)
          /\ OnFile(Created(q, name, data)) = With(OnFile(q), Encode(name), data)
      BY <3>2, EntryFacts, PlacedFacts DEF Created
    <3>4. Grown(old, With(OnFile(q), Encode(name), data), data)
      <4> HIDE DEF old
      <4>1. Grown(old, OnFile(q), data)
        OBVIOUS
      <4> QED
        BY <4>1, GrownWith
    <3> HIDE DEF old
    <3> QED
      BY <2>1, <3>3, <3>4 DEF UpdateTurn, name
  <2>2. CASE i \notin rows
    BY <2>2 DEF UpdateTurn
  <2> QED
    BY <2>1, <2>2
<1> HIDE DEF S
<1>4. PICK f \in [0 .. views[v].count -> S] : Updated(v, rows, data) = f[views[v].count]
  BY <1>2, <1>3, UpdateLoop
<1>5. Updated(v, rows, data) \in S
  BY <1>4
<1> QED
  BY <1>5 DEF S

(* Views: of each row a string, and the name it was made of.               *)
ViewStates ==
  {w \in [rows : Seq(Nat), count : Nat, for : {"none", "update", "delete"}, stale : BOOLEAN,
          names : Seq(FileNames \cup {SummaryName})] :
     w.count <= Len(w.rows) /\ Len(w.rows) = Len(w.names) /\ Len(w.names) <= MaxRows}

(* In a view that is whole each row has the string of its name.            *)
RowsNamed(w, known) ==
  ~w.stale /\ w.count = Len(w.names) =>
    \A i \in 1 .. Len(w.names) : w.rows[i] \in 1 .. Len(known) /\ known[w.rows[i]] = Decode(w.names[i])

ViewInv == views \in [Views -> ViewStates] /\ \A v \in Views : RowsNamed(views[v], strings)

(* DELETE takes streams away, and what a view has of rows stays a view.    *)
RowsMoved(rows, row, last) ==
  [i \in DOMAIN rows |-> IF i \in row .. last THEN rows[i + 1] ELSE rows[i]]

(* Rows that moved down are as many as before.                             *)
LEMMA MovedFacts ==
  ASSUME NEW rows \in Seq(Nat), NEW row \in Nat, NEW last \in Int, last < Len(rows)
  PROVE  RowsMoved(rows, row, last) \in Seq(Nat) /\ Len(RowsMoved(rows, row, last)) = Len(rows)
<1>1. DOMAIN rows = 1 .. Len(rows) /\ Len(rows) \in Nat /\ \A i \in 1 .. Len(rows) : rows[i] \in Nat
  OBVIOUS
<1>2. \A i \in 1 .. Len(rows) : i \in row .. last => i + 1 \in 1 .. Len(rows)
  BY <1>1
<1>3. RowsMoved(rows, row, last) \in [1 .. Len(rows) -> Nat]
  BY <1>1, <1>2 DEF RowsMoved
<1> QED
  BY <1>1, <1>3

DeleteStates(v) ==
  {q \in [list : Lists(StreamEntries), rows : Seq(Nat), count : Int] :
     /\ Shrunk(OnFile(streams), OnFile(q.list))
     /\ Len(q.rows) = Len(views[v].rows) /\ q.count <= views[v].count
     /\ q.count = views[v].count => q = DeleteStart(v)}

(* Deleting a row takes a stream from the list, or does nothing at all.    *)
LEMMA DeletedRow ==
  ASSUME ListInv, ViewInv, NEW v \in Views, NEW q \in DeleteStates(v), NEW row \in Nat
  PROVE  DeleteRow(q, row) \in DeleteStates(v)
         /\ DeleteRow(q, row).count \in {q.count, q.count - 1}
<1>1. views[v] \in ViewStates /\ views[v].count <= Len(views[v].rows) /\ views[v].count \in Nat
  BY DEF ViewInv, ViewStates
<1>2. q \in [list : Lists(StreamEntries), rows : Seq(Nat), count : Int]
      /\ Shrunk(OnFile(streams), OnFile(q.list))
      /\ Len(q.rows) = Len(views[v].rows) /\ q.count <= views[v].count
  BY DEF DeleteStates
<1>3. CASE row > q.count + 1 \/ q.rows[row] \notin DOMAIN strings
  BY <1>2, <1>3 DEF DeleteRow
<1>4. CASE ~(row > q.count + 1 \/ q.rows[row] \notin DOMAIN strings)
  <2> DEFINE name == Encode(strings[q.rows[row]])
             list == Destroyed(q.list, name)
             moved == RowsMoved(q.rows, row, q.count - 1)
             new == [list |-> list, rows |-> moved, count |-> q.count - 1]
  <2>1. DeleteRow(q, row) = new
    BY <1>2, <1>4 DEF DeleteRow, RowsMoved
  <2>2. list \in Lists(StreamEntries) /\ OnFile(list) = Without(OnFile(q.list), name)
    <3>1. q.list \in Lists(StreamEntries)
      BY <1>2
    <3> HIDE DEF name
    <3> QED
      BY <3>1, EntryFacts, DestroyedFacts
  <2>3. Shrunk(OnFile(streams), OnFile(list))
    <3> HIDE DEF name
    <3> QED
      BY <1>2, <2>2, ShrunkWithout
  <2>4. moved \in Seq(Nat) /\ Len(moved) = Len(q.rows)
    <3>1. q.count - 1 \in Int /\ q.count - 1 < Len(q.rows) /\ q.rows \in Seq(Nat)
      BY <1>1, <1>2
    <3> QED
      BY <3>1, MovedFacts
  <2> HIDE DEF list, moved
  <2>5. new \in DeleteStates(v) /\ new.count = q.count - 1
    BY <1>1, <1>2, <2>2, <2>3, <2>4 DEF DeleteStates
  <2> QED
    BY <2>1, <2>5
<1> QED
  BY <1>3, <1>4

(* What DELETE begins with.                                                *)
LEMMA DeleteStarts ==
  ASSUME ListInv, ViewInv, NEW v \in Views
  PROVE  DeleteStart(v) \in DeleteStates(v) /\ DeleteStart(v).count = views[v].count
         /\ views[v].count \in Nat
<1>1. views[v].rows \in Seq(Nat) /\ views[v].count \in Nat
  BY DEF ViewInv, ViewStates
<1>2. Shrunk(OnFile(streams), OnFile(streams))
  BY DEF Shrunk
<1> QED
  BY <1>1, <1>2 DEF ListInv, DeleteStates, DeleteStart

(* The rounds of DELETE.                                                   *)
LEMMA DeleteRounds ==
  ASSUME ListInv, ViewInv, NEW v \in Views, NEW rows
  PROVE  \E f \in [0 .. views[v].count -> DeleteStates(v)] :
           /\ f[0] = DeleteStart(v)
           /\ \A i \in 1 .. views[v].count : f[i] = DeleteTurn(rows, f[i - 1], i)
           /\ Deleted(v, rows) = f[views[v].count]
<1> DEFINE S == DeleteStates(v)
<1>1. ASSUME NEW q \in S, NEW i \in 1 .. views[v].count PROVE DeleteTurn(rows, q, i) \in S
  <2>1. i \in Nat
    BY DeleteStarts
  <2> QED
    BY <2>1, DeletedRow DEF DeleteTurn
<1> HIDE DEF S
<1>2. DeleteStart(v) \in S /\ views[v].count \in Nat
  BY DeleteStarts DEF S
<1>3. \E f \in [0 .. views[v].count -> S] :
           /\ f[0] = DeleteStart(v)
           /\ \A i \in 1 .. views[v].count : f[i] = DeleteTurn(rows, f[i - 1], i)
           /\ Deleted(v, rows) = f[views[v].count]
  BY <1>1, <1>2, DeleteLoop
<1> QED
  BY <1>3 DEF S

(* After DELETE the list is smaller, and the count no negative number.     *)
LEMMA DeletedFacts ==
  ASSUME ListInv, ViewInv, NEW v \in Views, NEW rows
  PROVE  Deleted(v, rows) \in DeleteStates(v) /\ Deleted(v, rows).count \in Nat
<1>1. views[v].count \in Nat
  BY DeleteStarts
<1>2. PICK f \in [0 .. views[v].count -> DeleteStates(v)] :
           /\ f[0] = DeleteStart(v)
           /\ \A i \in 1 .. views[v].count : f[i] = DeleteTurn(rows, f[i - 1], i)
           /\ Deleted(v, rows) = f[views[v].count]
  BY DeleteRounds
<1> DEFINE Good == {i \in 0 .. views[v].count : f[i].count \in Nat}
<1>3. 0 \in Good
  BY <1>1, <1>2, DeleteStarts
<1>4. ASSUME NEW i \in 1 .. views[v].count, i - 1 \in Good PROVE i \in Good
  <2>1. f[i - 1] \in DeleteStates(v) /\ f[i - 1].count \in Nat /\ i \in Nat /\ f[i] = DeleteTurn(rows, f[i - 1], i)
    BY <1>1, <1>2, <1>4
  <2>2. DeleteRow(f[i - 1], i).count \in {f[i - 1].count, f[i - 1].count - 1}
    BY <2>1, DeletedRow
  <2>3. CASE f[i - 1].count # 0
    BY <2>1, <2>2, <2>3 DEF DeleteTurn
  <2>4. CASE f[i - 1].count = 0
    <3>1. i # 1
      BY <1>1, <1>2, <2>4, DeleteStarts
    <3>2. i > f[i - 1].count + 1
      BY <2>1, <2>4, <3>1
    <3>3. DeleteRow(f[i - 1], i) = f[i - 1]
      BY <3>2 DEF DeleteRow
    <3> QED
      BY <2>1, <3>3 DEF DeleteTurn
  <2> QED
    BY <2>3, <2>4
<1> HIDE DEF Good
<1>5. views[v].count \in Good
  <2>1. \A i \in 0 .. views[v].count : i \in Good
    BY <1>1, <1>3, <1>4, UpToLast
  <2> QED
    BY <1>1, <2>1
<1>6. f[views[v].count] \in DeleteStates(v)
  BY <1>1, <1>2
<1> QED
  BY <1>2, <1>5, <1>6 DEF Good

(* DELETE of one row is one round.                                         *)
LEMMA DeletedOne ==
  ASSUME ListInv, ViewInv, NEW v \in Views, NEW row \in 1 .. views[v].count
  PROVE  Deleted(v, {row}) = DeleteRow(DeleteStart(v), row)
<1> DEFINE N == views[v].count
           start == DeleteStart(v)
           end == DeleteRow(start, row)
<1>1. N \in Nat
  BY DeleteStarts
<1>2. PICK f : /\ f[0] = start
               /\ \A i \in 1 .. N : f[i] = DeleteTurn({row}, f[i - 1], i)
               /\ Deleted(v, {row}) = f[N]
  BY DeleteRounds
<1>3. \A i \in 1 .. N : f[i] = IF i = row THEN DeleteRow(f[i - 1], i) ELSE f[i - 1]
  BY <1>2 DEF DeleteTurn
<1> DEFINE Good == {i \in 0 .. N : f[i] = IF i < row THEN start ELSE end}
<1> HIDE DEF N, start
<1>4. 0 \in Good
  BY <1>1, <1>2
<1>5. ASSUME NEW i \in 1 .. N, i - 1 \in Good PROVE i \in Good
  <2>1. f[i - 1] = IF i - 1 < row THEN start ELSE end
    BY <1>5
  <2>2. i \in 0 .. N /\ row \in Nat
    BY <1>1
  <2> HIDE DEF end
  <2>3. CASE i < row
    BY <1>1, <1>3, <2>1, <2>2, <2>3
  <2>4. CASE i = row
    BY <1>1, <1>3, <2>1, <2>2, <2>4 DEF end
  <2>5. CASE i > row
    BY <1>1, <1>3, <2>1, <2>2, <2>5
  <2> QED
    BY <1>1, <2>2, <2>3, <2>4, <2>5
<1> HIDE DEF Good
<1>6. \A i \in 0 .. N : i \in Good
  BY <1>1, <1>4, <1>5, UpToLast
<1>7. N \in Good /\ ~(N < row)
  BY <1>1, <1>6 DEF N
<1> QED
  BY <1>2, <1>7 DEF Good, end, start

(* Strings are added behind those that are known, and each of them is.     *)
Behindhand(known, more) ==
  Len(known) <= Len(more) /\ \A i \in 1 .. Len(known) : more[i] = known[i]
Knows(known, name) == \E i \in 1 .. Len(known) : known[i] = name

(* A string more: those that were known keep their ids.                    *)
LEMMA AddedString ==
  ASSUME NEW known \in Seq(PlainNames), NEW name \in PlainNames
  PROVE  /\ AddString(known, name) \in Seq(PlainNames)
         /\ Behindhand(known, AddString(known, name)) /\ Knows(AddString(known, name), name)
<1>1. CASE name \in Range(known)
  BY <1>1 DEF AddString, Behindhand, Knows, Range
<1>2. CASE name \notin Range(known)
  <2> DEFINE more == Append(known, name)
  <2>1. more \in Seq(PlainNames) /\ Len(more) = Len(known) + 1 /\ Len(known) \in Nat
        /\ more[Len(known) + 1] = name /\ \A i \in 1 .. Len(known) : more[i] = known[i]
    OBVIOUS
  <2>2. AddString(known, name) = more
    BY <1>2 DEF AddString
  <2> HIDE DEF more
  <2> QED
    BY <2>1, <2>2 DEF Behindhand, Knows
<1> QED
  BY <1>1, <1>2

(* After a query is prepared each name has a string, and those before      *)
(* keep their ids.                                                         *)
LEMMA AddedKnown ==
  ASSUME NEW known \in Seq(PlainNames), NEW list \in Seq(PlainNames)
  PROVE  /\ AddStrings(known, list) \in Seq(PlainNames) /\ Behindhand(known, AddStrings(known, list))
         /\ \A i \in 1 .. Len(list) : Knows(AddStrings(known, list), list[i])
<1> DEFINE S == {q \in Seq(PlainNames) : Behindhand(known, q)}
<1>1. Len(list) \in Nat /\ \A i \in 1 .. Len(list) : list[i] \in PlainNames
  OBVIOUS
<1>2. ASSUME NEW q \in S, NEW i \in 1 .. Len(list)
      PROVE  AddString(q, list[i]) \in S /\ Knows(AddString(q, list[i]), list[i])
             /\ \A name : Knows(q, name) => Knows(AddString(q, list[i]), name)
  <2>1. list[i] \in PlainNames /\ q \in Seq(PlainNames) /\ Behindhand(known, q)
    BY <1>1
  <2>2. PICK r : r = AddString(q, list[i])
    OBVIOUS
  <2>3. r \in Seq(PlainNames) /\ Behindhand(q, r) /\ Knows(r, list[i])
    BY <2>1, <2>2, AddedString
  <2>4. Len(known) \in Nat /\ Len(q) \in Nat /\ Len(r) \in Nat
    BY <2>1, <2>3
  <2>5. Behindhand(known, r)
    BY <2>1, <2>3, <2>4 DEF Behindhand
  <2>6. \A name : Knows(q, name) => Knows(r, name)
    BY <2>3, <2>4 DEF Behindhand, Knows
  <2> QED
    BY <2>2, <2>3, <2>5, <2>6
<1>3. known \in S
  BY DEF Behindhand
<1> HIDE DEF S
<1>4. PICK f \in [0 .. Len(list) -> S] :
        /\ f[0] = AddStart(known)
        /\ \A i \in 1 .. Len(list) : f[i] = AddTurn(list, f[i - 1], i)
        /\ AddStrings(known, list) = f[Len(list)]
  <2>1. AddStart(known) \in S /\ \A q \in S, i \in 1 .. Len(list) : AddTurn(list, q, i) \in S
    BY <1>2, <1>3 DEF AddStart, AddTurn
  <2>2. Len(list) \in Nat
    BY <1>1
  <2> QED
    BY <2>1, <2>2, AddLoop
<1>5. f[Len(list)] \in S
  BY <1>1, <1>4
<1> DEFINE Good == {i \in 0 .. Len(list) : \A j \in 1 .. i : Knows(f[i], list[j])}
<1>6. 0 \in Good
  BY <1>1
<1>7. ASSUME NEW i \in 1 .. Len(list), i - 1 \in Good PROVE i \in Good
  <2>1. i - 1 \in 0 .. Len(list) /\ i \in 0 .. Len(list) /\ i \in Nat
    BY <1>1
  <2>2. f[i - 1] \in S /\ f[i] = AddString(f[i - 1], list[i])
    BY <1>4, <2>1 DEF AddTurn
  <2>3. Knows(f[i], list[i]) /\ \A name : Knows(f[i - 1], name) => Knows(f[i], name)
    BY <1>2, <2>2
  <2>4. \A j \in 1 .. i - 1 : Knows(f[i - 1], list[j])
    BY <1>7
  <2>5. \A j \in 1 .. i : j \in 1 .. i - 1 \/ j = i
    BY <2>1
  <2> QED
    BY <2>1, <2>3, <2>4, <2>5
<1> HIDE DEF Good
<1>8. Len(list) \in Good
  <2>1. \A i \in 0 .. Len(list) : i \in Good
    BY <1>1, <1>6, <1>7, UpToLast
  <2> QED
    BY <1>1, <2>1
<1> QED
  BY <1>4, <1>5, <1>8 DEF S, Good

(* The id of a known name is the place of this name.                       *)
LEMMA IdIs ==
  ASSUME NEW known \in Seq(PlainNames), NEW name, Knows(known, name)
  PROVE  IdIn(known, name) \in 1 .. Len(known) /\ known[IdIn(known, name)] = name
<1>1. DOMAIN known = 1 .. Len(known)
  OBVIOUS
<1>2. \E id \in DOMAIN known : known[id] = name
  BY <1>1 DEF Knows
<1>3. IdIn(known, name) \in DOMAIN known /\ known[IdIn(known, name)] = name
  BY <1>2, Zenon DEF IdIn
<1> QED
  BY <1>1, <1>3

(* A view that was whole is when there are more strings.                   *)
LEMMA NamedStays ==
  ASSUME NEW w \in ViewStates, NEW known \in Seq(PlainNames), NEW more \in Seq(PlainNames),
         Behindhand(known, more), RowsNamed(w, known)
  PROVE  RowsNamed(w, more)
<1>1. Len(known) \in Nat /\ Len(more) \in Nat
  OBVIOUS
<1>2. \A id \in 1 .. Len(known) : id \in 1 .. Len(more) /\ more[id] = known[id]
  BY <1>1 DEF Behindhand
<1> QED
  BY <1>2 DEF RowsNamed

(* More strings do not change what the rows of views are named.            *)
LEMMA MoreStrings ==
  ASSUME ListInv, ViewInv, NEW more \in Seq(PlainNames), Behindhand(strings, more)
  PROVE  \A v \in Views : RowsNamed(views[v], more)
<1> TAKE v \in Views
<1>1. views[v] \in ViewStates /\ RowsNamed(views[v], strings) /\ strings \in Seq(PlainNames)
  BY DEF ViewInv, ListInv
<1> QED
  BY <1>1, NamedStays

-----------------------------------------------------------------------------
(* The properties of the summary information.                              *)
PropStates == [DOMAIN Properties -> Values \cup {Empty}]

(* A property that is set is one of those given; or nothing happens to     *)
(* the object.                                                             *)
LEMMA SetFacts ==
  ASSUME NEW object, {"props", "left", "set"} \subseteq DOMAIN object,
         object.props \in PropStates, object.left \in Nat,
         NEW p \in DOMAIN Properties, NEW value \in Values
  PROVE  \/ SetProperty(object, p, value) = object
         \/ \E left \in 0 .. object.left :
              /\ SetProperty(object, p, value) =
                   [object EXCEPT !.props = [object.props EXCEPT ![p] = value],
                                  !.set = object.set \cup {p}, !.left = left]
              /\ [object.props EXCEPT ![p] = value] \in PropStates
<1>1. CASE object.props[p] = Empty /\ object.left = 0
  BY <1>1 DEF SetProperty
<1>2. CASE ~(object.props[p] = Empty /\ object.left = 0)
  <2> DEFINE left == IF object.props[p] = Empty THEN object.left - 1 ELSE object.left
  <2>1. left \in 0 .. object.left
    BY <1>2
  <2>2. SetProperty(object, p, value) =
          [object EXCEPT !.props = [object.props EXCEPT ![p] = value],
                         !.set = object.set \cup {p}, !.left = left]
    BY <1>2 DEF SetProperty
  <2>3. [object.props EXCEPT ![p] = value] \in PropStates
    BY DEF PropStates
  <2> HIDE DEF left
  <2> QED
    BY <2>1, <2>2, <2>3
<1> QED
  BY <1>1, <1>2

(* An entry that is read leaves properties of the kinds there are.         *)
LEMMA ReadFacts ==
  ASSUME NEW state \in [props : PropStates, stopped : BOOLEAN],
         NEW entry \in [id : Int, type : Types, value : Values, fits : BOOLEAN]
  PROVE  ReadProperty(state, entry) \in [props : PropStates, stopped : BOOLEAN]
<1>1. entry.id \in DOMAIN Properties =>
        [state.props EXCEPT ![entry.id] = entry.value] \in PropStates
  BY DEF PropStates
<1>2. CASE ~state.stopped /\ (Understood(entry) \/ Overwrites(state, entry))
  <2>1. entry.id \in DOMAIN Properties
    BY <1>2 DEF Understood, Overwrites
  <2>2. (~Understood(entry)) \in BOOLEAN
    OBVIOUS
  <2>3. ReadProperty(state, entry) =
          [state EXCEPT !.props = [state.props EXCEPT ![entry.id] = entry.value],
                        !.stopped = ~Understood(entry)]
    BY <1>2 DEF ReadProperty
  <2> QED
    BY <1>1, <2>1, <2>2, <2>3
<1>3. CASE ~(~state.stopped /\ (Understood(entry) \/ Overwrites(state, entry)))
  BY <1>3 DEF ReadProperty
<1> QED
  BY <1>2, <1>3

(* The entries of a stream.                                                *)
LEMMA ContentFacts ==
  ASSUME NEW content \in Contents
  PROVE  /\ Len(content) \in Nat /\ DOMAIN content = 1 .. Len(content)
         /\ \A i \in 1 .. Len(content) : content[i] \in [id : Int, type : Types, value : Values, fits : BOOLEAN]
<1> DEFINE E == [id : Int, type : Types, value : Values, fits : BOOLEAN]
<1>1. PICK c \in Seq(E) : c = content
  BY DEF Contents
<1> HIDE DEF E
<1>2. Len(c) \in Nat /\ DOMAIN c = 1 .. Len(c) /\ \A i \in 1 .. Len(c) : c[i] \in E
  OBVIOUS
<1> QED
  BY <1>1, <1>2 DEF E

(* What is loaded of a stream are properties.                              *)
LEMMA LoadedFacts ==
  ASSUME NEW content \in Contents \cup {Missing}
  PROVE  Load(content) \in PropStates
<1> DEFINE S == [props : PropStates, stopped : BOOLEAN]
<1>1. Properties0 \in PropStates
  BY DEF Properties0, PropStates
<1>2. CASE content = Missing \/ Len(content) > MSI_MAX_PROPS
  BY <1>1, <1>2 DEF Load
<1>3. CASE ~(content = Missing \/ Len(content) > MSI_MAX_PROPS)
  <2>1. Len(content) \in Nat
        /\ \A i \in 1 .. Len(content) : content[i] \in [id : Int, type : Types, value : Values, fits : BOOLEAN]
    <3>1. content \in Contents
      BY <1>3
    <3> QED
      BY <3>1, ContentFacts
  <2>2. LoadStart \in S
    BY <1>1 DEF LoadStart
  <2>3. ASSUME NEW q \in S, NEW i \in 1 .. Len(content) PROVE ReadProperty(q, content[i]) \in S
    BY <2>1, ReadFacts
  <2>4. content \in Contents
    BY <1>3
  <2> HIDE DEF S
  <2>5. PICK f \in [0 .. Len(content) -> S] : Loaded(content) = f[Len(content)].props
    BY <2>2, <2>3, <2>4, LoadLoop
  <2>6. f[Len(content)] \in S
    BY <2>1
  <2> QED
    BY <1>3, <2>5, <2>6 DEF S, Load
<1> QED
  BY <1>2, <1>3

(* What is written holds each property that is set, and no more, and is no *)
(* longer than there are numbers for properties.                           *)
Holds(list, props, k) ==
  /\ Len(list) <= k
  /\ \A j \in 1 .. Len(list) :
       LET p == list[j].id IN
       p \in DOMAIN Properties /\ props[p] # Empty /\ list[j] = Property(p, Properties[p], props[p], TRUE)
  /\ \A p \in DOMAIN Properties : p < k /\ props[p] # Empty => \E j \in 1 .. Len(list) : list[j].id = p

(* The properties have numbers below MSI_MAX_PROPS, and types.             *)
LEMMA PropertyNumbers ==
  \A p \in DOMAIN Properties : p \in 0 .. MSI_MAX_PROPS - 1 /\ p \in Nat /\ Properties[p] \in Types
BY SummaryAssumption DEF MSI_MAX_PROPS

(* One property more is written.                                           *)
LEMMA PersistTurnFacts ==
  ASSUME NEW props \in PropStates, NEW list \in Contents, NEW i \in 1 .. MSI_MAX_PROPS
  PROVE  /\ PersistTurn(props, list, i) \in Contents
         /\ Holds(list, props, i - 1) => Holds(PersistTurn(props, list, i), props, i)
<1> DEFINE new == PersistTurn(props, list, i)
           e == Property(i - 1, Properties[i - 1], props[i - 1], TRUE)
           E == [id : Int, type : Types, value : Values, fits : BOOLEAN]
<1>1. DOMAIN props = DOMAIN Properties /\ i \in Int /\ i - 1 \in Int
      /\ \A p \in DOMAIN Properties : p \in Nat
  BY PropertyNumbers DEF PropStates, MSI_MAX_PROPS
<1>2. CASE i - 1 \in DOMAIN props /\ props[i - 1] # Empty
  <2>1. e \in E
    <3>1. props[i - 1] \in Values /\ Properties[i - 1] \in Types
      BY <1>1, <1>2, PropertyNumbers DEF PropStates
    <3> QED
      BY <1>1, <3>1 DEF Property
  <2>2. list \in Seq(E)
    BY DEF Contents
  <2>3. new = Append(list, e)
    BY <1>2 DEF PersistTurn
  <2>4. e.id = i - 1
    BY DEF Property
  <2> HIDE DEF e, E, new
  <2>5. new \in Seq(E) /\ Len(new) = Len(list) + 1 /\ Len(list) \in Nat /\ new[Len(list) + 1] = e
        /\ \A j \in 1 .. Len(list) : new[j] = list[j]
    BY <2>1, <2>2, <2>3
  <2>6. ASSUME Holds(list, props, i - 1) PROVE Holds(new, props, i)
    <3>1. ASSUME NEW j \in 1 .. Len(new)
          PROVE  new[j].id \in DOMAIN Properties /\ props[new[j].id] # Empty
                 /\ new[j] = Property(new[j].id, Properties[new[j].id], props[new[j].id], TRUE)
      <4>1. CASE j \in 1 .. Len(list)
        BY <2>5, <2>6, <4>1 DEF Holds
      <4>2. CASE j \notin 1 .. Len(list)
        <5>1. new[j] = e
          BY <2>5, <4>2
        <5> QED
          BY <1>1, <1>2, <2>4, <5>1 DEF e
      <4> QED
        BY <4>1, <4>2
    <3>2. ASSUME NEW p \in DOMAIN Properties, p < i, props[p] # Empty
          PROVE  \E j \in 1 .. Len(new) : new[j].id = p
      <4>1. CASE p = i - 1
        BY <2>4, <2>5, <4>1
      <4>2. CASE p # i - 1
        <5>1. p < i - 1
          BY <1>1, <3>2, <4>2
        <5> QED
          BY <2>5, <2>6, <3>2, <5>1 DEF Holds
      <4> QED
        BY <4>1, <4>2
    <3>3. Len(new) <= i
      <4>1. Len(list) <= i - 1
        BY <2>6 DEF Holds
      <4> QED
        BY <1>1, <2>5, <4>1
    <3> QED
      BY <3>1, <3>2, <3>3, Zenon DEF Holds
  <2> QED
    BY <2>5, <2>6 DEF Contents, E, new
<1>3. CASE ~(i - 1 \in DOMAIN props /\ props[i - 1] # Empty)
  <2>1. new = list
    BY <1>3 DEF PersistTurn
  <2>2. ASSUME NEW p \in DOMAIN Properties, p < i, props[p] # Empty PROVE p < i - 1
    <3>1. p # i - 1
      BY <1>1, <1>3, <2>2
    <3> QED
      BY <1>1, <2>2, <3>1
  <2>3. Len(list) \in Nat
    BY ContentFacts
  <2>4. Len(list) <= i - 1 => Len(list) <= i
    BY <1>1, <2>3
  <2> QED
    BY <2>1, <2>2, <2>4, Zenon DEF Holds
<1> QED
  BY <1>2, <1>3

(* What is persisted has every property that is set.                       *)
LEMMA PersistedFacts ==
  ASSUME NEW props \in PropStates
  PROVE  Persistent(props) \in Contents /\ Holds(Persistent(props), props, MSI_MAX_PROPS)
<1>1. Nothing \in Contents
  BY EmptySeq DEF Nothing, Contents
<1>2. PICK f \in [0 .. MSI_MAX_PROPS -> Contents] :
        /\ f[0] = Nothing
        /\ \A i \in 1 .. MSI_MAX_PROPS : f[i] = PersistTurn(props, f[i - 1], i)
        /\ Persistent(props) = f[MSI_MAX_PROPS]
  <2>1. \A q \in Contents, i \in 1 .. MSI_MAX_PROPS : PersistTurn(props, q, i) \in Contents
    BY PersistTurnFacts
  <2> QED
    BY <1>1, <2>1, PersistLoop
<1> DEFINE Good == {i \in 0 .. MSI_MAX_PROPS : Holds(f[i], props, i)}
<1>3. MSI_MAX_PROPS \in Nat
  BY DEF MSI_MAX_PROPS
<1>4. 0 \in Good
  <2>1. \A p \in DOMAIN Properties : ~(p < 0)
    BY PropertyNumbers
  <2>2. Len(Nothing) = 0
    BY EmptySeq DEF Nothing
  <2> QED
    <3>1. Holds(Nothing, props, 0)
      BY <2>1, <2>2 DEF Holds
    <3> QED
      BY <1>2, <1>3, <3>1
<1>5. ASSUME NEW i \in 1 .. MSI_MAX_PROPS, i - 1 \in Good PROVE i \in Good
  <2>1. i \in 0 .. MSI_MAX_PROPS /\ i - 1 \in 0 .. MSI_MAX_PROPS
    BY <1>3
  <2>2. f[i - 1] \in Contents /\ f[i] = PersistTurn(props, f[i - 1], i) /\ Holds(f[i - 1], props, i - 1)
    BY <1>2, <1>5, <2>1
  <2> QED
    BY <2>1, <2>2, PersistTurnFacts
<1> HIDE DEF Good
<1>6. MSI_MAX_PROPS \in Good
  <2>1. \A i \in 0 .. MSI_MAX_PROPS : i \in Good
    BY <1>3, <1>4, <1>5, UpToLast
  <2> QED
    BY <1>3, <2>1
<1>7. f[MSI_MAX_PROPS] \in Contents
  BY <1>2, <1>3
<1> QED
  BY <1>2, <1>6, <1>7 DEF Good

(* What was written is read again.                                         *)
LEMMA ReadHeld ==
  ASSUME NEW props \in PropStates, NEW list \in Contents, Holds(list, props, MSI_MAX_PROPS)
  PROVE  Load(list) = props
<1> DEFINE S == {state \in [props : PropStates, stopped : {FALSE}] :
                   \A p \in DOMAIN Properties : state.props[p] \in {Empty, props[p]}}
           N == Len(list)
<1>1. N \in Nat /\ \A j \in 1 .. N : list[j] \in [id : Int, type : Types, value : Values, fits : BOOLEAN]
  BY ContentFacts
<1>2. ASSUME NEW j \in 1 .. N
      PROVE  /\ list[j].id \in DOMAIN Properties /\ list[j].fits = TRUE
             /\ list[j].type = Properties[list[j].id] /\ list[j].value = props[list[j].id]
  <2> DEFINE p == list[j].id
  <2>1. p \in DOMAIN Properties /\ list[j] = Property(p, Properties[p], props[p], TRUE)
    BY DEF Holds
  <2>2. PICK e, type, value : e = list[j] /\ type = Properties[p] /\ value = props[p]
    OBVIOUS
  <2> HIDE DEF p
  <2>3. e = Property(p, type, value, TRUE)
    BY <2>1, <2>2
  <2>4. e.fits = TRUE /\ e.type = type /\ e.value = value
    BY <2>3 DEF Property
  <2>5. p \in DOMAIN Properties /\ list[j].fits = TRUE /\ list[j].type = Properties[p] /\ list[j].value = props[p]
    BY <2>1, <2>2, <2>4
  <2> QED
    BY <2>5 DEF p
<1>3. ASSUME NEW q \in S, NEW j \in 1 .. N
      PROVE  /\ ReadProperty(q, list[j]) \in S
             /\ ReadProperty(q, list[j]).props = [q.props EXCEPT ![list[j].id] = props[list[j].id]]
  <2> DEFINE p == list[j].id
  <2>1. /\ p \in DOMAIN Properties /\ list[j].fits = TRUE
        /\ list[j].type = Properties[p] /\ list[j].value = props[p]
    BY <1>2
  <2>2. Understood(list[j])
    BY <2>1 DEF Understood
  <2> HIDE DEF p
  <2>3. ReadProperty(q, list[j]) = [q EXCEPT !.props = [q.props EXCEPT ![p] = props[p]]]
    <3>1. q.stopped = FALSE /\ q = [props |-> q.props, stopped |-> FALSE]
      BY DEF S
    <3>2. ReadProperty(q, list[j]) =
            [q EXCEPT !.props = [q.props EXCEPT ![p] = props[p]], !.stopped = ~Understood(list[j])]
      BY <2>1, <2>2, <3>1 DEF ReadProperty, p
    <3>3. (~Understood(list[j])) = FALSE
      BY <2>2
    <3> QED
      BY <3>1, <3>2, <3>3
  <2>4. [q.props EXCEPT ![p] = props[p]] \in PropStates
        /\ \A x \in DOMAIN Properties : [q.props EXCEPT ![p] = props[p]][x] \in {Empty, props[x]}
    BY <2>1 DEF PropStates
  <2> QED
    BY <2>3, <2>4 DEF p
<1>4. LoadStart \in S
  BY DEF LoadStart, Properties0, PropStates
<1> HIDE DEF S, N
<1>5. PICK f \in [0 .. N -> S] :
        /\ f[0] = LoadStart
        /\ \A i \in 1 .. N : f[i] = ReadProperty(f[i - 1], list[i])
        /\ Loaded(list) = f[N].props
  <2>1. \A q \in S, i \in 1 .. Len(list) : ReadProperty(q, list[i]) \in S
    BY <1>3 DEF N
  <2> QED
    BY <1>4, <2>1, LoadLoop DEF N
<1> DEFINE Good == {i \in 0 .. N : \A j \in 1 .. i : f[i].props[list[j].id] = props[list[j].id]}
<1>6. 0 \in Good
  BY <1>1
<1>7. ASSUME NEW i \in 1 .. N, i - 1 \in Good PROVE i \in Good
  <2>1. i \in 0 .. N /\ i - 1 \in 0 .. N /\ i \in Nat
    BY <1>1
  <2> DEFINE old == f[i - 1]
             p == list[i].id
  <2>2. old \in S /\ f[i].props = [old.props EXCEPT ![p] = props[p]] /\ old.props \in PropStates
    <3>1. old \in S /\ f[i] = ReadProperty(old, list[i])
      BY <1>5, <2>1
    <3> HIDE DEF old
    <3>2. f[i].props = [old.props EXCEPT ![p] = props[p]]
      BY <1>3, <3>1
    <3> QED
      BY <3>1, <3>2 DEF S
  <2>3. \A j \in 1 .. i - 1 : old.props[list[j].id] = props[list[j].id]
    BY <1>7
  <2> HIDE DEF old
  <2>4. ASSUME NEW j \in 1 .. i PROVE f[i].props[list[j].id] = props[list[j].id]
    <3>1. j \in 1 .. N /\ list[j].id \in DOMAIN Properties
      <4>1. j \in 1 .. N
        BY <1>1
      <4> QED
        BY <1>2, <4>1
    <3>2. CASE list[j].id = p
      BY <2>2, <3>1, <3>2 DEF PropStates
    <3>3. CASE list[j].id # p
      <4>1. j \in 1 .. i - 1
        BY <2>1, <3>3
      <4> QED
        BY <2>2, <2>3, <3>1, <3>3, <4>1 DEF PropStates
    <3> QED
      BY <3>2, <3>3
  <2> QED
    BY <2>1, <2>4
<1> HIDE DEF Good
<1>8. N \in Good
  <2>1. \A i \in 0 .. N : i \in Good
    BY <1>1, <1>6, <1>7, UpToLast
  <2> QED
    BY <1>1, <2>1
<1> DEFINE read == Loaded(list)
<1>9. read \in PropStates /\ (\A p \in DOMAIN Properties : read[p] \in {Empty, props[p]})
      /\ \A j \in 1 .. N : read[list[j].id] = props[list[j].id]
  <2>1. f[N] \in S
    BY <1>1, <1>5
  <2> QED
    BY <1>5, <1>8, <2>1 DEF S, Good
<1>10. ASSUME NEW p \in DOMAIN Properties PROVE read[p] = props[p]
  <2>1. CASE props[p] = Empty
    BY <1>9, <2>1
  <2>2. CASE props[p] # Empty
    <3>1. p < MSI_MAX_PROPS
      BY PropertyNumbers DEF MSI_MAX_PROPS
    <3>2. PICK j \in 1 .. N : list[j].id = p
      BY <2>2, <3>1 DEF Holds, N
    <3> QED
      BY <1>9, <3>2
  <2> QED
    BY <2>1, <2>2
<1> HIDE DEF read
<1>11. read = props
  BY <1>9, <1>10 DEF PropStates
<1>12. list # Missing /\ ~(N > MSI_MAX_PROPS)
  BY <1>1, PackageAssumption DEF Holds, N, MSI_MAX_PROPS
<1> QED
  BY <1>11, <1>12 DEF read, Load, N

(* An import changes the properties it was given, and no other.            *)
LEMMA ChangedFacts ==
  ASSUME NEW props \in PropStates, NEW changes \in Imports,
         \A i \in DOMAIN changes : changes[i].id \in DOMAIN Properties
  PROVE  /\ Changed(props, changes) \in PropStates
         /\ \A p \in DOMAIN Properties :
              Changed(props, changes)[p] # props[p] => \E i \in DOMAIN changes : changes[i].id = p
<1> DEFINE Given == {changes[i].id : i \in DOMAIN changes}
           S == {state \in [props : PropStates, left : Nat, set : SUBSET Int] :
                   \A p \in DOMAIN Properties : state.props[p] # props[p] => p \in Given}
           N == Len(changes)
<1>1. changes \in Seq([id : Int, value : Values])
  BY SummaryAssumption
<1>2. N \in Nat /\ DOMAIN changes = 1 .. N /\ \A i \in 1 .. N : changes[i] \in [id : Int, value : Values]
  <2> DEFINE E == [id : Int, value : Values]
  <2>1. changes \in Seq(E)
    BY <1>1
  <2> HIDE DEF E
  <2>2. N \in Nat /\ DOMAIN changes = 1 .. N /\ \A i \in 1 .. N : changes[i] \in E
    BY <2>1
  <2> QED
    BY <2>2 DEF E
<1>3. ChangeStart(props, changes) \in S
  BY <1>2 DEF ChangeStart
<1>4. ASSUME NEW q \in S, NEW i \in 1 .. N PROVE SetProperty(q, changes[i].id, changes[i].value) \in S
  <2> DEFINE p == changes[i].id
             value == changes[i].value
             other == [q.props EXCEPT ![p] = value]
  <2>1. p \in DOMAIN Properties /\ p \in Int /\ value \in Values /\ p \in Given
    BY <1>2
  <2>2. q \in [props : PropStates, left : Nat, set : SUBSET Int]
        /\ \A x \in DOMAIN Properties : q.props[x] # props[x] => x \in Given
    OBVIOUS
  <2> HIDE DEF p, value, Given
  <2>3. \/ SetProperty(q, p, value) = q
        \/ \E left \in 0 .. q.left :
             /\ SetProperty(q, p, value) = [q EXCEPT !.props = other, !.set = q.set \cup {p}, !.left = left]
             /\ other \in PropStates
    BY <2>1, <2>2, SetFacts
  <2>4. \A x \in DOMAIN Properties : other[x] # props[x] => x \in Given
    BY <2>1, <2>2 DEF PropStates
  <2> HIDE DEF other
  <2>5. ASSUME NEW left \in 0 .. q.left, other \in PropStates
        PROVE  [q EXCEPT !.props = other, !.set = q.set \cup {p}, !.left = left] \in S
    <3>1. left \in Nat /\ q.set \cup {p} \in SUBSET Int
      BY <2>1, <2>2
    <3> QED
      BY <2>2, <2>4, <2>5, <3>1
  <2>6. SetProperty(q, p, value) \in S
    BY <2>3, <2>5
  <2> QED
    BY <2>6 DEF p, value
<1> HIDE DEF S
<1>5. PICK f \in [0 .. N -> S] : Changed(props, changes) = f[N].props
  <2>1. \A q \in S, i \in 1 .. Len(changes) : SetProperty(q, changes[i].id, changes[i].value) \in S
    BY <1>4
  <2>2. \E f \in [0 .. Len(changes) -> S] :
          /\ f[0] = ChangeStart(props, changes)
          /\ \A i \in 1 .. Len(changes) : f[i] = SetProperty(f[i - 1], changes[i].id, changes[i].value)
          /\ Changed(props, changes) = f[Len(changes)].props
    BY <1>1, <1>3, <2>1, ChangeLoop
  <2> QED
    BY <2>2
<1>6. f[N] \in S
  BY <1>2
<1>7. \A p \in Given : \E i \in DOMAIN changes : changes[i].id = p
  OBVIOUS
<1> HIDE DEF Given
<1> QED
  BY <1>5, <1>6, <1>7 DEF S

-----------------------------------------------------------------------------
(* The steps, for the list and what the file has.                          *)
StoreStep ==
  Store!Put \/ Store!Remove \/ Store!Commit \/ Store!Revert \/ UNCHANGED <<OnFile(streams), saved.streams>>

(* A list that has grown by one data is a step of the store.               *)
LEMMA PutStep ==
  ASSUME ListInv, NEW new \in Lists(StreamEntries), streams' = new, NEW data,
         Grown(OnFile(streams), OnFile(new), data), UNCHANGED saved
  PROVE  StoreStep
<1> DEFINE old == OnFile(streams)
           map == OnFile(new)
<1>1. IsMap(old) /\ IsMap(map)
  BY ListFacts DEF ListInv
<1>2. map = old
         \/ \E n \in DOMAIN map : \A name \in DOMAIN map :
              map[name] = map[n] \/ (name \in DOMAIN old /\ map[name] = old[name])
  BY <1>1, GrownPuts
<1>3. DOMAIN old \subseteq DOMAIN map
  BY DEF Grown
<1>4. OnFile(streams)' = map
  OBVIOUS
<1> HIDE DEF old, map
<1>5. CASE map = old
  BY <1>4, <1>5 DEF StoreStep, old
<1>6. CASE map # old
  BY <1>2, <1>3, <1>4, <1>6 DEF StoreStep, old, Store!Put
<1> QED
  BY <1>5, <1>6

(* A list that has lost names is a step of the store.                      *)
LEMMA RemoveStep ==
  ASSUME ListInv, NEW new \in Lists(StreamEntries), streams' = new,
         Shrunk(OnFile(streams), OnFile(new)), UNCHANGED saved
  PROVE  StoreStep
BY DEF Shrunk, StoreStep, Store!Remove

(* A stream that is placed in the list, or written over another.           *)
LEMMA OnePut ==
  ASSUME ListInv, NEW name, NEW data, Entry(name, data) \in StreamEntries,
         streams' \in {streams, Placed(streams, name, data), Written(streams, name, data)},
         UNCHANGED saved
  PROVE  streams' \in Lists(StreamEntries) /\ StoreStep
<1>1. streams \in Lists(StreamEntries)
  BY DEF ListInv
<1>2. PICK new : new = streams'
  OBVIOUS
<1>3. CASE new = streams
  <2>1. Grown(OnFile(streams), OnFile(new), data)
    BY <1>3 DEF Grown
  <2> QED
    BY <1>1, <1>2, <1>3, <2>1, PutStep
<1>4. CASE new # streams
  <2>1. new \in Lists(StreamEntries) /\ OnFile(new) = With(OnFile(streams), name, data)
    BY <1>1, <1>2, <1>4, EntryFacts, PlacedFacts, WrittenFacts
  <2>2. Grown(OnFile(streams), OnFile(streams), data)
    BY DEF Grown
  <2>3. Grown(OnFile(streams), OnFile(new), data)
    BY <2>1, <2>2, GrownWith
  <2> QED
    BY <1>2, <2>1, <2>3, PutStep
<1> QED
  BY <1>3, <1>4

(* The strings of INSERT.                                                  *)
LEMMA InsertedStrings ==
  ASSUME ListInv, ViewInv, NEW name \in PlainNames
  PROVE  InsertStrings(name) \in Seq(PlainNames) /\ \A v \in Views : RowsNamed(views[v], InsertStrings(name))
<1>1. strings \in Seq(PlainNames) /\ Listed \in Seq(PlainNames)
  BY ListedPlain DEF ListInv
<1>2. PICK mid : mid = AddStrings(strings, Listed)
  OBVIOUS
<1>3. PICK more : more = InsertStrings(name)
  OBVIOUS
<1>4. mid \in Seq(PlainNames) /\ Behindhand(strings, mid)
  BY <1>1, <1>2, AddedKnown
<1>5. more \in Seq(PlainNames) /\ Behindhand(mid, more)
  BY <1>2, <1>3, <1>4, AddedString DEF InsertStrings
<1>6. Len(strings) \in Nat /\ Len(mid) \in Nat /\ Len(more) \in Nat
  BY <1>1, <1>4, <1>5
<1>7. Behindhand(strings, more)
  BY <1>4, <1>5, <1>6 DEF Behindhand
<1> QED
  BY <1>3, <1>5, <1>7, MoreStrings

(* INSERT puts its data under one name.                                    *)
LEMMA InsertList ==
  ASSUME ListInv, ViewInv, NEW name \in PlainNames, NEW data \in Data, Insert(name, data)
  PROVE  ListInv' /\ ViewInv' /\ StoreStep
<1>1. Entry(Encode(name), data) \in StreamEntries
  BY EntryFacts
<1>2. streams' \in {streams, Placed(streams, Encode(name), data)} /\ UNCHANGED saved
  BY DEF Insert, Created
<1>3. streams' \in Lists(StreamEntries) /\ StoreStep
  BY <1>1, <1>2, OnePut
<1>4. PICK more : more = InsertStrings(name)
  OBVIOUS
<1>5. more \in Seq(PlainNames) /\ \A v \in Views : RowsNamed(views[v], more)
  BY <1>4, InsertedStrings
<1>6. strings' = more /\ views' = views
  BY <1>4 DEF Insert
<1>7. ListInv'
  BY <1>2, <1>3, <1>5, <1>6 DEF ListInv
<1>8. ViewInv'
  BY <1>5, <1>6 DEF ViewInv
<1> QED
  BY <1>3, <1>7, <1>8

(* A cell that is set puts its data under its name.                        *)
LEMMA SetCellList ==
  ASSUME ListInv, ViewInv, NEW key \in Keys, NEW data \in Data \cup {Missing}, SetCell(key, data)
  PROVE  ListInv' /\ ViewInv' /\ StoreStep
<1> DEFINE name == StreamName(key)
<1>1. name \in PlainNames
  BY CellName
<1> HIDE DEF name
<1>2. UNCHANGED <<saved, views>>
  BY DEF SetCell
<1>3. CASE data = Missing
  <2>1. UNCHANGED <<streams, strings>>
    BY <1>3 DEF SetCell
  <2> QED
    BY <1>2, <2>1 DEF ListInv, ViewInv, StoreStep
<1>4. CASE data # Missing
  <2>1. Entry(Encode(name), data) \in StreamEntries
    BY <1>1, <1>4, EntryFacts
  <2>2. streams' \in {streams, Placed(streams, Encode(name), data)}
    BY <1>4 DEF SetCell, Created, name
  <2>3. streams' \in Lists(StreamEntries) /\ StoreStep
    BY <1>2, <2>1, <2>2, OnePut
  <2>4. PICK more : more = InsertStrings(name)
    OBVIOUS
  <2>5. more \in Seq(PlainNames) /\ \A v \in Views : RowsNamed(views[v], more)
    BY <1>1, <2>4, InsertedStrings
  <2>6. strings' = more
    BY <1>4, <2>4 DEF SetCell, name
  <2>7. ListInv'
    BY <1>2, <2>3, <2>5, <2>6 DEF ListInv
  <2>8. ViewInv'
    BY <1>2, <2>5, <2>6 DEF ViewInv
  <2> QED
    BY <2>3, <2>7, <2>8
<1> QED
  BY <1>3, <1>4

(* A query that is closed has no rows.                                     *)
LEMMA NoViewFacts == NoView \in ViewStates /\ \A known : RowsNamed(NoView, known)
<1>1. PICK none \in Seq(Nat) : none = <<>> /\ Len(none) = 0
  BY EmptySeq
<1>2. PICK no \in Seq(FileNames \cup {SummaryName}) : no = <<>> /\ Len(no) = 0
  BY EmptySeq
<1>3. NoView = [rows |-> none, count |-> 0, for |-> "none", names |-> no, stale |-> FALSE]
  BY <1>1, <1>2 DEF NoView
<1> QED
  BY <1>1, <1>2, <1>3, StreamsAssumption DEF ViewStates, RowsNamed

(* A query that is prepared changes the strings and its view.              *)
LEMMA PrepareList ==
  ASSUME ListInv, ViewInv, NEW v \in Views, NEW for \in {"update", "delete"}, Prepare(v, for)
  PROVE  ListInv' /\ ViewInv' /\ StoreStep
<1>1. streams \in Lists(StreamEntries) /\ strings \in Seq(PlainNames)
  BY DEF ListInv
<1>2. Listed \in Seq(PlainNames) /\ Len(Listed) = Len(streams) /\ Len(streams) \in Nat
      /\ DOMAIN streams = 1 .. Len(streams) /\ DOMAIN Listed = 1 .. Len(streams)
      /\ \A i \in 1 .. Len(streams) : streams[i].name \in FileNames \cup {SummaryName}
  BY <1>1, ListedPlain, ListFacts
<1>3. PICK more : more = AddStrings(strings, Listed)
  OBVIOUS
<1>4. more \in Seq(PlainNames) /\ Behindhand(strings, more) /\ \A i \in 1 .. Len(streams) : Knows(more, Listed[i])
  BY <1>1, <1>2, <1>3, AddedKnown
<1> DEFINE N == Len(streams)
           rows == [i \in 1 .. N |-> IdIn(more, Listed[i])]
           names == [i \in 1 .. N |-> streams[i].name]
           w == [rows |-> rows, count |-> N, for |-> for, stale |-> FALSE, names |-> names]
<1>5. \A i \in 1 .. N : IdIn(more, Listed[i]) \in 1 .. Len(more) /\ more[IdIn(more, Listed[i])] = Listed[i]
  BY <1>4, IdIs
<1>6. /\ strings' = more /\ UNCHANGED <<streams, saved>> /\ N <= MaxRows
      /\ views' = [views EXCEPT ![v] = w]
  BY <1>2, <1>3 DEF Prepare
<1>7. rows \in Seq(Nat) /\ Len(rows) = N /\ names \in Seq(FileNames \cup {SummaryName}) /\ Len(names) = N
  <2>1. rows \in [1 .. N -> Nat]
    BY <1>4, <1>5
  <2>2. names \in [1 .. N -> FileNames \cup {SummaryName}]
    BY <1>2
  <2> HIDE DEF rows, names
  <2> QED
    BY <1>2, <2>1, <2>2
<1>8. \A i \in 1 .. N : Listed[i] = Decode(names[i])
  BY <1>2 DEF Listed
<1>9. \A i \in 1 .. N : rows[i] \in 1 .. Len(more) /\ more[rows[i]] = Decode(names[i])
  BY <1>5, <1>8
<1>10. N \in Nat
  BY <1>2
<1> HIDE DEF rows, names, N
<1>11. w \in ViewStates /\ RowsNamed(w, more)
  BY <1>6, <1>7, <1>9, <1>10 DEF ViewStates, RowsNamed
<1> HIDE DEF w
<1>12. \A x \in Views : RowsNamed(views[x], more)
  BY <1>4, MoreStrings
<1>13. ViewInv'
  BY <1>6, <1>11, <1>12 DEF ViewInv
<1>14. ListInv' /\ StoreStep
  BY <1>4, <1>6 DEF ListInv, StoreStep
<1> QED
  BY <1>13, <1>14

(* A query that is closed changes its view.                                *)
LEMMA CloseList ==
  ASSUME ListInv, ViewInv, NEW v \in Views, Close(v)
  PROVE  ListInv' /\ ViewInv' /\ StoreStep
<1>1. views' = [views EXCEPT ![v] = NoView] /\ UNCHANGED <<streams, strings, saved>>
  BY DEF Close
<1>2. ViewInv'
  BY <1>1, NoViewFacts DEF ViewInv
<1> QED
  BY <1>1, <1>2 DEF ListInv, StoreStep

(* UPDATE puts its data under the names of the rows.                       *)
LEMMA UpdateList ==
  ASSUME ListInv, ViewInv, NEW v \in Views, NEW rows, NEW data \in Data, Update(v, rows, data)
  PROVE  ListInv' /\ ViewInv' /\ StoreStep
<1>1. PICK new : new = Updated(v, rows, data)
  OBVIOUS
<1>2. /\ \A row \in rows : Named(v, row)
      /\ streams' = new /\ UNCHANGED <<strings, views, saved>>
  BY <1>1 DEF Update
<1>3. new \in Lists(StreamEntries) /\ Grown(OnFile(streams), OnFile(new), data)
  BY <1>1, <1>2, DeleteStarts, UpdatedFacts
<1>4. StoreStep
  BY <1>2, <1>3, PutStep
<1> QED
  BY <1>2, <1>3, <1>4 DEF ListInv, ViewInv

(* A view with other rows.                                                 *)
LEMMA ViewOther ==
  ASSUME NEW w \in ViewStates, NEW rows \in Seq(Nat), NEW count \in Nat
  PROVE  [w EXCEPT !.rows = rows, !.count = count] = [rows |-> rows, count |-> count, for |-> w.for, stale |-> w.stale, names |-> w.names]
<1> DEFINE new == [w EXCEPT !.rows = rows, !.count = count]
<1> DEFINE N == Seq(FileNames \cup {SummaryName})
           F == {"none", "update", "delete"}
<1>0. w \in [rows : Seq(Nat), count : Nat, for : F, stale : BOOLEAN, names : N]
  BY DEF ViewStates
<1> HIDE DEF N, F
<1>1. new \in [rows : Seq(Nat), count : Nat, for : F, stale : BOOLEAN, names : N]
  BY <1>0
<1>2. new.rows = rows /\ new.count = count /\ new.for = w.for /\ new.stale = w.stale /\ new.names = w.names
  BY <1>0
<1> HIDE DEF new
<1>3. new = [rows |-> new.rows, count |-> new.count, for |-> new.for, stale |-> new.stale, names |-> new.names]
  BY <1>1
<1>4. new = [rows |-> rows, count |-> count, for |-> w.for, stale |-> w.stale, names |-> w.names]
  BY <1>2, <1>3
<1> QED BY <1>4 DEF new

(* DELETE takes names away; and a view that is whole afterwards is as it   *)
(* was.                                                                    *)
LEMMA DeleteList ==
  ASSUME ListInv, ViewInv, NEW v \in Views, NEW rows, Delete(v, rows)
  PROVE  ListInv' /\ ViewInv' /\ StoreStep
<1>1. PICK end : end = Deleted(v, rows)
  OBVIOUS
<1>2. /\ streams' = end.list /\ UNCHANGED <<strings, saved>>
      /\ views' = [views EXCEPT ![v].rows = end.rows, ![v].count = end.count]
  BY <1>1 DEF Delete
<1>3. /\ end \in [list : Lists(StreamEntries), rows : Seq(Nat), count : Int] /\ end.count \in Nat
      /\ Shrunk(OnFile(streams), OnFile(end.list))
      /\ Len(end.rows) = Len(views[v].rows) /\ end.count <= views[v].count
      /\ end.count = views[v].count => end = DeleteStart(v)
  BY <1>1, DeletedFacts DEF DeleteStates
<1>4. StoreStep
  BY <1>2, <1>3, RemoveStep
<1>5. PICK w : w = views[v]
  OBVIOUS
<1>6. /\ w \in ViewStates /\ w.count \in Nat /\ RowsNamed(w, strings) /\ views \in [Views -> ViewStates]
      /\ w \in [rows : Seq(Nat), count : Nat, for : {"none", "update", "delete"}, stale : BOOLEAN,
                names : Seq(FileNames \cup {SummaryName})]
      /\ w.count <= Len(w.rows) /\ Len(w.rows) = Len(w.names) /\ Len(w.names) <= MaxRows
  BY <1>5 DEF ViewInv, ViewStates
<1> DEFINE new == [w EXCEPT !.rows = end.rows, !.count = end.count]
<1>7. views' = [views EXCEPT ![v] = new]
  BY <1>2, <1>5, <1>6
<1>8. new \in ViewStates
  <2>1. new = [rows |-> end.rows, count |-> end.count, for |-> w.for, stale |-> w.stale, names |-> w.names]
    <3>1. w \in ViewStates
      BY <1>6
    <3>2. end.rows \in Seq(Nat) /\ end.count \in Nat
      BY <1>3
    <3> QED
      BY <3>1, <3>2, ViewOther
  <2>2. /\ end.rows \in Seq(Nat) /\ end.count \in Nat
        /\ Len(end.rows) = Len(w.rows) /\ end.count <= w.count
    BY <1>3, <1>5
  <2>3. Len(w.rows) \in Nat
    BY <1>6
  <2>4. end.count <= Len(end.rows)
    BY <1>6, <2>2, <2>3
  <2>5. /\ w.for \in {"none", "update", "delete"} /\ w.stale \in BOOLEAN
        /\ w.names \in Seq(FileNames \cup {SummaryName})
        /\ Len(w.rows) = Len(w.names) /\ Len(w.names) <= MaxRows
    BY <1>6
  <2> HIDE DEF new
  <2> QED
    BY <2>1, <2>2, <2>4, <2>5 DEF ViewStates
<1>9. RowsNamed(new, strings)
  <2>1. CASE end.count = w.count
    <3>1. end.rows = w.rows
      BY <1>3, <1>5, <2>1 DEF DeleteStart
    <3>2. new = w
      BY <1>6, <2>1, <3>1
    <3> QED
      BY <1>6, <3>2
  <2>2. CASE end.count # w.count
    <3>1. Len(w.rows) \in Nat /\ w.rows \in Seq(Nat)
      BY <1>6
    <3>2. end.count # Len(w.names)
      BY <1>3, <1>5, <1>6, <2>2, <3>1
    <3>3. new.count = end.count /\ new.names = w.names
      BY <1>6
    <3> QED
      BY <3>2, <3>3 DEF RowsNamed
  <2> QED
    BY <2>1, <2>2
<1> HIDE DEF new
<1>10. ViewInv'
  BY <1>2, <1>6, <1>7, <1>8, <1>9 DEF ViewInv
<1> QED
  BY <1>2, <1>3, <1>4, <1>10 DEF ListInv

(* A view that stays open over a commit.                                   *)
LEMMA StaleView ==
  ASSUME NEW w \in ViewStates, RowsNamed(w, strings), NEW known, NEW old \in BOOLEAN, old = (w # NoView)
  PROVE  [w EXCEPT !.stale = old] \in ViewStates /\ RowsNamed([w EXCEPT !.stale = old], known)
<1> DEFINE N == Seq(FileNames \cup {SummaryName})
           F == {"none", "update", "delete"}
           new == [w EXCEPT !.stale = old]
<1>1. /\ w \in [rows : Seq(Nat), count : Nat, for : F, stale : BOOLEAN, names : N]
      /\ w.count <= Len(w.rows) /\ Len(w.rows) = Len(w.names) /\ Len(w.names) <= MaxRows
  BY DEF ViewStates
<1> HIDE DEF N, F
<1>2. new \in [rows : Seq(Nat), count : Nat, for : F, stale : BOOLEAN, names : N]
  BY <1>1
<1>3. new.rows = w.rows /\ new.count = w.count /\ new.stale = old /\ new.names = w.names
  BY <1>1
<1> HIDE DEF new
<1>4. new \in ViewStates
  BY <1>1, <1>2, <1>3 DEF ViewStates, N, F
<1>5. CASE w = NoView
  <2>1. RowsNamed(NoView, known)
    BY NoViewFacts
  <2>2. NoView.stale = FALSE /\ NoView.count = 0 /\ NoView.names = <<>>
    BY DEF NoView
  <2>3. Len(new.names) = 0
    BY <1>3, <1>5, <2>2
  <2> QED
    BY <1>4, <2>3 DEF RowsNamed, new
<1>6. CASE w # NoView
  BY <1>3, <1>4, <1>6 DEF RowsNamed, new
<1> QED
  BY <1>5, <1>6

(* A commit saves the map and does not change it; the views are stale.     *)
LEMMA CommitList ==
  ASSUME ListInv, ViewInv, Commit
  PROVE  ListInv' /\ ViewInv' /\ StoreStep
<1>1. PICK file : file = OnFile(streams)
  OBVIOUS
<1>2. OnlyEntries(StreamEntries, file)
  BY <1>1, OnFileEntries DEF ListInv
<1>3. PICK none \in Seq(PlainNames) : none = <<>>
  BY EmptySeq
<1>4. /\ saved' = [streams |-> file, cells |-> cells]
      /\ streams' = Cached(saved'.streams) /\ strings' = none
      /\ views' = [v \in Views |-> [views[v] EXCEPT !.stale = views[v] # NoView]]
  BY <1>1, <1>3 DEF Commit
<1>5. saved.streams' = file /\ streams' = Cached(file)
  BY <1>4
<1>6. Cached(file) \in Lists(StreamEntries) /\ OnFile(Cached(file)) = file
  BY <1>2, CachedFacts
<1>7. ListInv'
  BY <1>2, <1>4, <1>5, <1>6 DEF ListInv
<1>8. OnFile(streams)' = OnFile(streams)
  BY <1>1, <1>5, <1>6
<1>9. StoreStep
  BY <1>1, <1>5, <1>8 DEF StoreStep, Store!Commit
<1>10. ASSUME NEW v \in Views
       PROVE  views'[v] \in ViewStates /\ RowsNamed(views'[v], strings')
  <2>1. views'[v] = [views[v] EXCEPT !.stale = views[v] # NoView]
    BY <1>4
  <2>2. views[v] \in ViewStates /\ RowsNamed(views[v], strings)
    BY DEF ViewInv
  <2>3. PICK w \in ViewStates : w = views[v] /\ RowsNamed(w, strings)
    BY <2>2
  <2>4. PICK old \in BOOLEAN : old = (w # NoView)
    OBVIOUS
  <2>5. views'[v] = [w EXCEPT !.stale = old]
    BY <2>1, <2>3, <2>4
  <2> QED
    <3>1. [w EXCEPT !.stale = old] \in ViewStates /\ RowsNamed([w EXCEPT !.stale = old], strings')
      BY <2>3, <2>4, StaleView
    <3> QED
      BY <2>5, <3>1
<1>11. ViewInv'
  BY <1>4, <1>10 DEF ViewInv
<1> QED
  BY <1>7, <1>9, <1>11

(* Opening the file again brings back what was saved.                      *)
LEMMA ReopenList ==
  ASSUME ListInv, ViewInv, Reopen
  PROVE  ListInv' /\ ViewInv' /\ StoreStep
<1>1. PICK file : file = saved.streams
  OBVIOUS
<1>2. OnlyEntries(StreamEntries, file)
  BY <1>1 DEF ListInv
<1>3. PICK none \in Seq(PlainNames) : none = <<>>
  BY EmptySeq
<1>4. /\ streams' = Cached(file) /\ strings' = none /\ UNCHANGED <<views, saved>>
      /\ \A v \in Views : views[v] = NoView
  BY <1>1, <1>3 DEF Reopen
<1>5. Cached(file) \in Lists(StreamEntries) /\ OnFile(Cached(file)) = file
  BY <1>2, CachedFacts
<1>6. ListInv'
  BY <1>4, <1>5 DEF ListInv
<1>7. OnFile(streams)' = saved.streams
  BY <1>1, <1>4, <1>5
<1>8. StoreStep
  BY <1>4, <1>7 DEF StoreStep, Store!Revert
<1>9. ViewInv'
  BY <1>4, NoViewFacts DEF ViewInv
<1> QED
  BY <1>6, <1>8, <1>9

-----------------------------------------------------------------------------
(* The objects of the summary information: an object differs from the      *)
(* stream it was read from in the properties it was given.                 *)

(* An object's properties are those it read, except those it was given.    *)
ObjectStates ==
  {ob \in [props : PropStates, left : 0 .. MaxCount, read : Contents \cup {Missing},
           set : SUBSET DOMAIN Properties] :
     \A p \in DOMAIN Properties : ob.props[p] # Load(ob.read)[p] => p \in ob.set}

ObjectInv == objects \in [Objects -> ObjectStates \cup {Empty}]

(* The stream of the summary information has contents of that kind.        *)
LEMMA SummaryIs ==
  ASSUME NEW list \in Lists(StreamEntries)
  PROVE  DataOf(list, SummaryName) \in Contents \cup {Missing}
<1>1. CASE Places(list, SummaryName) = {}
  BY <1>1 DEF DataOf
<1>2. CASE Places(list, SummaryName) # {}
  <2>1. list \in Seq(StreamEntries) /\ \A i \in 1 .. Len(list) : list[i] \in StreamEntries
    BY ListFacts
  <2>2. PICK i \in 1 .. Len(list) : list[i].name = SummaryName /\ DataOf(list, SummaryName) = list[i].data
    BY <1>2, <2>1, FirstPlace DEF DataOf
  <2> QED
    BY <2>1, <2>2, OfEntry
<1> QED
  BY <1>1, <1>2

(* What was written is read again.                                         *)
LEMMA WrittenSummary ==
  ASSUME NEW list \in Lists(StreamEntries), NEW content \in Contents
  PROVE  DataOf(Written(list, SummaryName, content), SummaryName) = content
<1>1. PICK new : new = Written(list, SummaryName, content)
  OBVIOUS
<1>2. Entry(SummaryName, content) \in StreamEntries
  BY EntryFacts
<1>3. new \in Lists(StreamEntries) /\ OnFile(new) = With(OnFile(list), SummaryName, content)
  BY <1>1, <1>2, EntryFacts, WrittenFacts
<1>4. SummaryName \in DOMAIN OnFile(new) /\ OnFile(new)[SummaryName] = content
  BY <1>3 DEF With
<1>5. OnFile(new) = [name \in NamesIn(new) |-> DataOf(new, name)]
  BY <1>3, EntryFacts, OnFileFacts
<1> QED
  BY <1>1, <1>4, <1>5

(* The summary information is persisted: the properties that are then read.*)
LEMMA PersistSummary ==
  ASSUME ListInv, ViewInv, NEW props \in PropStates, UNCHANGED streamsOnly,
         streams' = Written(streams, SummaryName, Persistent(props))
  PROVE  ListInv' /\ ViewInv' /\ StoreStep /\ Readable' = props
<1>1. PICK content : content = Persistent(props)
  OBVIOUS
<1>2. content \in Contents /\ Holds(content, props, MSI_MAX_PROPS)
  BY <1>1, PersistedFacts
<1>3. Entry(SummaryName, content) \in StreamEntries
  BY <1>2, EntryFacts
<1>4. UNCHANGED <<strings, views, saved>>
  BY DEF streamsOnly
<1>5. streams' \in {streams, Placed(streams, SummaryName, content), Written(streams, SummaryName, content)}
  BY <1>1
<1>6. streams' \in Lists(StreamEntries) /\ StoreStep
  BY <1>3, <1>4, <1>5, OnePut
<1>7. DataOf(streams', SummaryName) = content
  BY <1>1, <1>2, WrittenSummary DEF ListInv
<1>8. Load(content) = props
  BY <1>2, ReadHeld, PackageAssumption DEF Load
<1>9. Readable' = props
  BY <1>7, <1>8 DEF Readable, SummaryStream
<1> QED
  BY <1>4, <1>6, <1>9 DEF ListInv, ViewInv

(* What an object has.                                                     *)
LEMMA ObjectFields ==
  ASSUME NEW ob \in ObjectStates
  PROVE  /\ {"props", "left", "set"} \subseteq DOMAIN ob
         /\ ob.props \in PropStates /\ ob.left \in Nat /\ ob.left \in 0 .. MaxCount
         /\ ob.read \in Contents \cup {Missing} /\ ob.set \in SUBSET DOMAIN Properties
         /\ \A p \in DOMAIN Properties : ob.props[p] # Load(ob.read)[p] => p \in ob.set
<1> DEFINE C == Contents \cup {Missing}
           D == SUBSET DOMAIN Properties
<1>1. /\ ob \in [props : PropStates, left : 0 .. MaxCount, read : C, set : D]
      /\ \A p \in DOMAIN Properties : ob.props[p] # Load(ob.read)[p] => p \in ob.set
  BY DEF ObjectStates
<1>2. MaxCount \in Nat
  BY SummaryAssumption
<1> HIDE DEF C, D
<1>3. /\ {"props", "left", "set"} \subseteq DOMAIN ob
      /\ ob.props \in PropStates /\ ob.left \in 0 .. MaxCount /\ ob.read \in C /\ ob.set \in D
  BY <1>1
<1> QED
  BY <1>1, <1>2, <1>3 DEF C, D

(* An object that is made has the properties of the stream.                *)
LEMMA NewObject ==
  ASSUME ObjectInv, NEW o \in Objects, NEW count \in 0 .. MaxCount,
         NEW content \in Contents \cup {Missing}, New(o, count, content)
  PROVE  ObjectInv'
<1> DEFINE ob == [props |-> Load(content), left |-> count, read |-> content, set |-> {}]
<1>1. objects' = [objects EXCEPT ![o] = ob]
  BY DEF New
<1>2. Load(content) \in PropStates
  BY LoadedFacts
<1>3. ob \in ObjectStates
  BY <1>2 DEF ObjectStates
<1> HIDE DEF ob
<1> QED
  BY <1>1, <1>3 DEF ObjectInv

(* A property that is set is remembered as one that was given.             *)
LEMMA SetObject ==
  ASSUME ObjectInv, NEW o \in Objects, NEW p \in DOMAIN Properties, NEW value \in Values, Set(o, p, value)
  PROVE  ObjectInv'
<1>1. PICK ob \in ObjectStates : ob = objects[o]
  BY DEF ObjectInv, Set
<1>2. PICK new : new = SetProperty(ob, p, value)
  OBVIOUS
<1>3. objects' = [objects EXCEPT ![o] = new]
  BY <1>1, <1>2 DEF Set
<1>4. new \in ObjectStates
  <2>1. /\ {"props", "left", "set"} \subseteq DOMAIN ob
        /\ ob.props \in PropStates /\ ob.left \in Nat /\ ob.left \in 0 .. MaxCount
        /\ ob.read \in Contents \cup {Missing} /\ ob.set \in SUBSET DOMAIN Properties
        /\ \A q \in DOMAIN Properties : ob.props[q] # Load(ob.read)[q] => q \in ob.set
    BY <1>1, ObjectFields
  <2>2. CASE new = ob
    BY <1>1, <2>2
  <2>3. CASE new # ob
    <3> DEFINE changed == [ob.props EXCEPT ![p] = value]
               more == ob.set \cup {p}
    <3>1. PICK left \in 0 .. ob.left :
            /\ new = [ob EXCEPT !.props = changed, !.set = more, !.left = left]
            /\ changed \in PropStates
      BY <1>2, <2>1, <2>3, SetFacts
    <3>2. left \in 0 .. MaxCount
      BY <2>1, SummaryAssumption
    <3>3. more \in SUBSET DOMAIN Properties
      BY <2>1
    <3>4. \A q \in DOMAIN Properties : changed[q] # Load(ob.read)[q] => q \in more
      BY <2>1 DEF PropStates
    <3> HIDE DEF changed, more
    <3> DEFINE C == Contents \cup {Missing}
               D == SUBSET DOMAIN Properties
    <3>5. ob \in [props : PropStates, left : 0 .. MaxCount, read : C, set : D]
      BY <1>1 DEF ObjectStates
    <3>6. more \in D
      BY <3>3
    <3> HIDE DEF C, D
    <3>7. new \in [props : PropStates, left : 0 .. MaxCount, read : C, set : D]
          /\ new.props = changed /\ new.read = ob.read /\ new.set = more
      BY <3>1, <3>2, <3>5, <3>6
    <3> QED
      BY <3>4, <3>7 DEF ObjectStates, C, D
  <2> QED
    BY <2>2, <2>3
<1> QED
  BY <1>3, <1>4 DEF ObjectInv

(* What is imported is read back from the stream that was read first.      *)
LEMMA ImportFacts ==
  ASSUME ListInv, NEW changes \in Imports, \A i \in DOMAIN changes : changes[i].id \in DOMAIN Properties
  PROVE  /\ Imported(changes) \in PropStates
         /\ \A p \in DOMAIN Properties :
              Imported(changes)[p] # Readable[p] => \E i \in DOMAIN changes : changes[i].id = p
<1>1. Readable \in PropStates
  BY SummaryIs, LoadedFacts DEF ListInv, Readable, SummaryStream
<1>2. Imported(changes) = Changed(Readable, changes)
  BY DEF Imported, Readable
<1> QED
  BY <1>1, <1>2, ChangedFacts

(* The steps of objects, and import.                                       *)
LEMMA SummaryList ==
  ASSUME ListInv, ViewInv, ObjectInv, SummaryStep, UNCHANGED streamsOnly
  PROVE  ListInv' /\ ViewInv' /\ ObjectInv' /\ StoreStep
<1>1. UNCHANGED <<strings, views, saved>>
  BY DEF streamsOnly
<1>2. ASSUME UNCHANGED streams
      PROVE  ListInv' /\ ViewInv' /\ StoreStep
  BY <1>1, <1>2 DEF ListInv, ViewInv, StoreStep
<1>3. ASSUME NEW o \in Objects, NEW count \in 0 .. MaxCount, NEW content \in {Missing, SummaryStream},
             New(o, count, content)
      PROVE  ListInv' /\ ViewInv' /\ ObjectInv' /\ StoreStep
  <2>1. content \in Contents \cup {Missing}
    BY SummaryIs DEF SummaryStream, ListInv
  <2>2. ObjectInv'
    BY <1>3, <2>1, NewObject
  <2> QED
    BY <1>2, <1>3, <2>2 DEF New
<1>4. ASSUME NEW o \in Objects, Release(o)
      PROVE  ListInv' /\ ViewInv' /\ ObjectInv' /\ StoreStep
  <2>1. ObjectInv'
    BY <1>4 DEF Release, ObjectInv
  <2> QED
    BY <1>2, <1>4, <2>1 DEF Release
<1>5. ASSUME NEW o \in Objects, NEW p \in DOMAIN Properties, NEW value \in Values, Set(o, p, value)
      PROVE  ListInv' /\ ViewInv' /\ ObjectInv' /\ StoreStep
  <2>1. ObjectInv'
    BY <1>5, SetObject
  <2> QED
    BY <1>2, <1>5, <2>1 DEF Set
<1>6. ASSUME NEW o \in Objects, Persist(o)
      PROVE  ListInv' /\ ViewInv' /\ ObjectInv' /\ StoreStep
  <2>1. PICK ob \in ObjectStates : ob = objects[o]
    BY <1>6 DEF ObjectInv, Persist
  <2>2. ObjectInv'
    BY <1>6 DEF ObjectInv, Persist
  <2>3. CASE streams' = streams
    BY <1>2, <2>2, <2>3
  <2>4. CASE streams' # streams
    <3>1. streams' = Written(streams, SummaryName, Persistent(ob.props))
      BY <1>6, <2>1, <2>4 DEF Persist
    <3> QED
      BY <2>1, <2>2, <3>1, ObjectFields, PersistSummary
  <2> QED
    BY <2>3, <2>4
<1>7. ASSUME NEW changes \in Imports, Import(changes)
      PROVE  ListInv' /\ ViewInv' /\ ObjectInv' /\ StoreStep
  <2>1. ObjectInv'
    BY <1>7 DEF ObjectInv, Import
  <2>2. CASE streams' = streams
    BY <1>2, <2>1, <2>2
  <2>3. CASE streams' # streams
    <3>1. /\ \A i \in DOMAIN changes : changes[i].id \in DOMAIN Properties
          /\ streams' = Written(streams, SummaryName, Persistent(Imported(changes)))
      BY <1>7, <2>3 DEF Import
    <3> QED
      BY <2>1, <3>1, ImportFacts, PersistSummary
  <2> QED
    BY <2>2, <2>3
<1> QED
  BY <1>3, <1>4, <1>5, <1>6, <1>7 DEF SummaryStep

(* What was persisted is read back.                                        *)
LEMMA ReadBack ==
  ASSUME ListInv, NEW props \in PropStates, streams' = Written(streams, SummaryName, Persistent(props))
  PROVE  Readable' = props
<1>1. PICK content : content = Persistent(props)
  OBVIOUS
<1>2. content \in Contents /\ Holds(content, props, MSI_MAX_PROPS)
  BY <1>1, PersistedFacts
<1>3. DataOf(streams', SummaryName) = content
  BY <1>1, <1>2, WrittenSummary DEF ListInv
<1>4. Load(content) = props
  BY <1>2, ReadHeld, PackageAssumption DEF Load
<1> QED
  BY <1>3, <1>4 DEF Readable, SummaryStream

(* Only what was given differs when the stream is read after it was        *)
(* written.                                                                *)
LEMMA GivenChange ==
  ASSUME ListInv, ObjectInv
  PROVE  /\ \A o \in Objects : Persist(o) /\ objects[o].read = SummaryStream =>
              \A p \in DOMAIN Properties : Readable'[p] # Readable[p] => p \in objects[o].set
         /\ \A changes \in Imports : Import(changes) =>
              \A p \in DOMAIN Properties :
                Readable'[p] # Readable[p] => \E i \in DOMAIN changes : changes[i].id = p
<1>1. ASSUME NEW o \in Objects, Persist(o), objects[o].read = SummaryStream,
             NEW p \in DOMAIN Properties, Readable'[p] # Readable[p]
      PROVE  p \in objects[o].set
  <2>1. PICK ob \in ObjectStates : ob = objects[o]
    BY <1>1 DEF ObjectInv, Persist
  <2>2. CASE streams' = streams
    BY <1>1, <2>2 DEF Readable, SummaryStream
  <2>3. CASE streams' # streams
    <3>1. streams' = Written(streams, SummaryName, Persistent(ob.props))
      BY <1>1, <2>1, <2>3 DEF Persist
    <3>2. ob.props \in PropStates /\ \A q \in DOMAIN Properties : ob.props[q] # Load(ob.read)[q] => q \in ob.set
      BY <2>1, ObjectFields
    <3>3. Readable' = ob.props
      BY <3>1, <3>2, ReadBack
    <3>4. Readable = Load(ob.read)
      BY <1>1, <2>1 DEF Readable
    <3> QED
      BY <1>1, <2>1, <3>2, <3>3, <3>4
  <2> QED
    BY <2>2, <2>3
<1>2. ASSUME NEW changes \in Imports, Import(changes),
             NEW p \in DOMAIN Properties, Readable'[p] # Readable[p]
      PROVE  \E i \in DOMAIN changes : changes[i].id = p
  <2>1. CASE streams' = streams
    BY <1>2, <2>1 DEF Readable, SummaryStream
  <2>2. CASE streams' # streams
    <3>1. /\ \A i \in DOMAIN changes : changes[i].id \in DOMAIN Properties
          /\ streams' = Written(streams, SummaryName, Persistent(Imported(changes)))
      BY <1>2, <2>2 DEF Import
    <3>2. Imported(changes) \in PropStates
          /\ (Imported(changes)[p] # Readable[p] => \E i \in DOMAIN changes : changes[i].id = p)
      BY <3>1, ImportFacts
    <3>3. Readable' = Imported(changes)
      BY <3>1, <3>2, ReadBack
    <3> QED
      BY <1>2, <3>2, <3>3
  <2> QED
    BY <2>1, <2>2
<1> QED
  BY <1>1, <1>2

(* Each statement on the streams and on the table.                         *)
LEMMA StatementList ==
  ASSUME ListInv, ViewInv, Statement
  PROVE  ListInv' /\ ViewInv' /\ StoreStep
<1>1. ASSUME NEW name \in Names, NEW data \in Data, Insert(name, data)
      PROVE  ListInv' /\ ViewInv' /\ StoreStep
  BY <1>1, InsertList, StreamsAssumption
<1>2. ASSUME NEW v \in Views, NEW for \in {"update", "delete"}, Prepare(v, for)
      PROVE  ListInv' /\ ViewInv' /\ StoreStep
  BY <1>2, PrepareList
<1>3. ASSUME NEW v \in Views, Close(v)
      PROVE  ListInv' /\ ViewInv' /\ StoreStep
  BY <1>3, CloseList
<1>4. ASSUME NEW v \in Views, NEW rows \in Found(v),
             (\E data \in Data : Update(v, rows, data)) \/ UpdateUndefined(v, rows) \/ Delete(v, rows)
      PROVE  ListInv' /\ ViewInv' /\ StoreStep
  <2>1. CASE \E data \in Data : Update(v, rows, data)
    BY <2>1, UpdateList
  <2>2. CASE UpdateUndefined(v, rows)
    BY <2>2 DEF UpdateUndefined, ListInv, ViewInv, StoreStep
  <2>3. CASE Delete(v, rows)
    BY <2>3, DeleteList
  <2> QED
    BY <1>4, <2>1, <2>2, <2>3
<1>5. ASSUME NEW key \in Keys, (\E data \in Data \cup {Missing} : SetCell(key, data)) \/ DeleteTableRow(key)
      PROVE  ListInv' /\ ViewInv' /\ StoreStep
  <2>1. CASE \E data \in Data \cup {Missing} : SetCell(key, data)
    BY <2>1, SetCellList
  <2>2. CASE DeleteTableRow(key)
    BY <2>2 DEF DeleteTableRow, ListInv, ViewInv, StoreStep
  <2> QED
    BY <1>5, <2>1, <2>2
<1> QED
  BY <1>1, <1>2, <1>3, <1>4, <1>5 DEF Statement

(* A file with streams of some names, and the summary information.         *)
LEMMA FirstFile ==
  ASSUME NEW present \in SUBSET Names, IsFiniteSet(present), NEW data \in Data,
         NEW summary \in SummaryContents
  PROVE  OnlyEntries(StreamEntries,
                     With([name \in {Encode(n) : n \in present} |-> data], SummaryName, summary))
<1> DEFINE coded == {Encode(n) : n \in present}
           first == [name \in coded |-> data]
           file == With(first, SummaryName, summary)
<1>1. IsFiniteSet(coded)
  <2> DEFINE f == [n \in present |-> Encode(n)]
  <2>1. f \in Surjection(present, coded)
    BY DEF Surjection
  <2> QED
    BY <2>1, FS_Surjection
<1>2. \A name \in coded : Entry(name, data) \in StreamEntries
  <2>1. ASSUME NEW n \in present
        PROVE  Entry(Encode(n), data) \in StreamEntries
    BY EntryFacts, StreamsAssumption
  <2> QED
    BY <2>1
<1>3. Entry(SummaryName, summary) \in StreamEntries
  BY EntryFacts, PackageAssumption
<1> HIDE DEF coded
<1>4. IsFiniteSet(coded \cup {SummaryName})
  BY <1>1, FS_AddElement
<1>5. DOMAIN file = coded \cup {SummaryName} /\ file = [name \in DOMAIN file |-> file[name]]
      /\ \A name \in DOMAIN file : file[name] = IF name = SummaryName THEN summary ELSE data
  BY DEF With
<1> HIDE DEF file
<1>6. OnlyEntries(StreamEntries, file)
  BY <1>2, <1>3, <1>4, <1>5 DEF OnlyEntries
<1> QED
  BY <1>6 DEF file, coded

(* What a program begins with.                                             *)
LEMMA FirstList ==
  ASSUME PackageInit
  PROVE  ListInv /\ ViewInv /\ ObjectInv /\ OnFile(streams) = saved.streams
<1>1. PICK present \in SUBSET Names, data \in Data, summary \in SummaryContents :
        /\ IsFiniteSet(present)
        /\ saved = [streams |-> With([name \in {Encode(n) : n \in present} |-> data], SummaryName, summary),
                    cells |-> <<>>]
  BY DEF PackageInit, InitStreams
<1>2. PICK file : file = With([name \in {Encode(n) : n \in present} |-> data], SummaryName, summary)
  OBVIOUS
<1>3. OnlyEntries(StreamEntries, file)
  BY <1>1, <1>2, FirstFile
<1>4. saved.streams = file
  BY <1>1, <1>2
<1>5. PICK none \in Seq(PlainNames) : none = <<>>
  BY EmptySeq
<1>6. /\ streams = Cached(file) /\ strings = none /\ views = [v \in Views |-> NoView]
      /\ objects = [o \in Objects |-> Empty]
  BY <1>4, <1>5 DEF PackageInit, InitStreams
<1>7. Cached(file) \in Lists(StreamEntries) /\ OnFile(Cached(file)) = file
  BY <1>3, CachedFacts
<1>8. ViewInv
  BY <1>6, NoViewFacts DEF ViewInv
<1>9. ObjectInv
  BY <1>6 DEF ObjectInv
<1> QED
  BY <1>3, <1>4, <1>6, <1>7, <1>8, <1>9 DEF ListInv

(* DELETE of one row, in a view where the rows have their names,           *)
(* destroys the stream of that name.                                       *)
LEMMA OneDeleted ==
  ASSUME ListInv, ViewInv, NEW v \in Views, NEW row \in 1 .. views[v].count,
         Delete(v, {row}), Whole(v), views[v].names[row] # SummaryName
  PROVE  OnFile(streams') = [name \in DOMAIN OnFile(streams) \ {views[v].names[row]}
                               |-> DataOf(streams, name)]
<1>1. PICK w \in ViewStates : w = views[v] /\ RowsNamed(w, strings)
  BY DEF ViewInv
<1>2. /\ w.rows \in Seq(Nat) /\ w.count \in Nat /\ w.names \in Seq(FileNames \cup {SummaryName})
      /\ w.count = Len(w.names) /\ ~w.stale /\ row \in 1 .. w.count
  BY <1>1 DEF ViewStates, Whole
<1>3. PICK name \in FileNames \cup {SummaryName} : name = w.names[row]
  BY <1>2
<1>4. /\ w.rows[row] \in 1 .. Len(strings) /\ strings[w.rows[row]] = Decode(name)
  BY <1>1, <1>2, <1>3 DEF RowsNamed
<1>5. DOMAIN strings = 1 .. Len(strings)
  BY DEF ListInv
<1>6. Encode(Decode(name)) = name
  BY <1>1, <1>3, NameFacts
<1>7. PICK start : start = DeleteStart(v)
  OBVIOUS
<1>8. start = [list |-> streams, rows |-> w.rows, count |-> w.count]
  BY <1>1, <1>7 DEF DeleteStart
<1>9. DeleteRow(start, row).list = Destroyed(streams, name)
  BY <1>2, <1>4, <1>5, <1>6, <1>8 DEF DeleteRow
<1>10. streams' = Destroyed(streams, name)
  BY <1>7, <1>9, DeletedOne DEF Delete
<1>11. OnFile(streams') = Without(OnFile(streams), name)
  BY <1>10, EntryFacts, DestroyedFacts DEF ListInv
<1>12. \A n \in DOMAIN OnFile(streams) : OnFile(streams)[n] = DataOf(streams, n)
  BY DEF OnFile
<1> QED
  BY <1>1, <1>3, <1>11, <1>12 DEF Without

-----------------------------------------------------------------------------
(* The invariant of streams and objects, and what follows from it.         *)
PackageInv == ListInv /\ ViewInv /\ ObjectInv

(* Each step keeps the lists, the views and the objects, and is a step     *)
(* of the store or none.                                                   *)
LEMMA PackageKept ==
  ASSUME PackageInv, [PackageNext]_packageVars
  PROVE  PackageInv' /\ StoreStep
<1>1. ASSUME UNCHANGED <<streams, streamsOnly>>
      PROVE  ListInv' /\ ViewInv' /\ StoreStep
  BY <1>1 DEF PackageInv, streamsOnly, ListInv, ViewInv, StoreStep
<1>2. ASSUME UNCHANGED objects
      PROVE  ObjectInv'
  BY <1>2 DEF PackageInv, ObjectInv
<1>3. CASE Statement /\ UNCHANGED <<objects, storageOnly>>
  BY <1>2, <1>3, StatementList DEF PackageInv
<1>4. CASE SummaryStep /\ UNCHANGED <<streamsOnly, storageOnly>>
  BY <1>4, SummaryList DEF PackageInv
<1>5. CASE (\E data \in Data : Insert(SummaryName, data)) /\ UNCHANGED <<objects, storageOnly>>
  BY <1>2, <1>5, InsertList, SummaryPlain DEF PackageInv
<1>6. CASE StorageStatement /\ UNCHANGED <<streams, streamsOnly, objects>>
  BY <1>1, <1>2, <1>6 DEF PackageInv
<1>7. CASE Commit /\ CommitStorages /\ UNCHANGED objects
  BY <1>2, <1>7, CommitList DEF PackageInv
<1>8. CASE Reopen /\ ReopenStorages /\ UNCHANGED objects
  BY <1>2, <1>8, ReopenList DEF PackageInv
<1>9. CASE UNCHANGED packageVars
  <2>1. UNCHANGED <<streams, streamsOnly>> /\ UNCHANGED objects
    BY <1>9 DEF packageVars, vars, streamsOnly
  <2> QED
    BY <1>1, <1>2, <2>1 DEF PackageInv
<1> QED
  BY <1>3, <1>4, <1>5, <1>6, <1>7, <1>8, <1>9 DEF PackageNext, Step

(* So the invariant holds in each state.                                   *)
LEMMA PackageKeeps == PackageSpec => []PackageInv
<1>1. PackageInit => PackageInv
  BY FirstList DEF PackageInv
<1>2. PackageInv /\ [PackageNext]_packageVars => PackageInv'
  BY PackageKept
<1> QED
  BY <1>1, <1>2, PTL DEF PackageSpec

(* No two streams in the list have one name.                               *)
THEOREM StreamsOncePerName == PackageSpec => []OneStreamPerName
<1>1. PackageInv => OneStreamPerName
  BY ListFacts DEF PackageInv, ListInv, OneStreamPerName, OneEach
<1> QED
  BY <1>1, PackageKeeps, PTL

(* The list, read as a map from names to data, implements StreamStore.     *)
THEOREM ListIsStore == PackageSpec => ImplementsStore
<1>1. PackageInit => OnFile(streams) = saved.streams
  BY FirstList
<1>2. PackageInv /\ [PackageNext]_packageVars =>
        [Store!Put \/ Store!Remove \/ Store!Commit \/ Store!Revert]_<<OnFile(streams), saved.streams>>
  BY PackageKept DEF StoreStep
<1> QED
  BY <1>1, <1>2, PackageKeeps, PTL DEF PackageSpec, ImplementsStore, Store!StoreSpec

(* DELETE of one row of `_Streams` removes the stream it was made of.      *)
THEOREM OneRowIsDeleted == PackageSpec => DeleteOfOne
<1> DEFINE Exact == \A v \in Views : \A row \in 1 .. views[v].count :
             Delete(v, {row}) /\ Whole(v) /\ views[v].names[row] # SummaryName =>
               OnFile(streams') = [name \in DOMAIN OnFile(streams) \ {views[v].names[row]}
                                     |-> DataOf(streams, name)]
<1>1. PackageInv => [Exact]_vars
  BY OneDeleted DEF PackageInv
<1> QED
  BY <1>1, PackageKeeps, PTL DEF DeleteOfOne

(* Writing the summary information changes the properties given.           *)
THEOREM GivenPropertiesChange == PackageSpec => OnlyGivenChange
<1> DEFINE Given ==
      /\ \A o \in Objects : Persist(o) /\ objects[o].read = SummaryStream =>
           \A p \in DOMAIN Properties : Readable'[p] # Readable[p] => p \in objects[o].set
      /\ \A changes \in Imports : Import(changes) =>
           \A p \in DOMAIN Properties :
             Readable'[p] # Readable[p] => \E i \in DOMAIN changes : changes[i].id = p
<1>1. PackageInv => [Given]_summaryVars
  BY GivenChange DEF PackageInv
<1> QED
  BY <1>1, PackageKeeps, PTL DEF OnlyGivenChange

-----------------------------------------------------------------------------
(* Storages: elements of the list, and what is wanted of each.             *)
Nodes == [path : Seq(Nat), dir : BOOLEAN]
StorageEntries == [name : StorageNames, data : SUBSET Nodes]
StorageInv ==
  /\ storages \in Lists(StorageEntries)
  /\ OnlyEntries(StorageEntries, savedStorages)
  /\ DOMAIN wanted = StoredNames
  /\ \A name \in DOMAIN wanted :
       /\ wanted[name] \in SUBSET Nodes
       /\ OnFile(storages)[name] \in {wanted[name], Copied(wanted[name])}

(* The elements of the list of storages.                                   *)
LEMMA StorageEntryFacts ==
  /\ Entries(StorageEntries)
  /\ \A name \in StorageNames, data \in SUBSET Nodes : Entry(name, data) \in StorageEntries
  /\ \A e \in StorageEntries : e.name \in StorageNames /\ e.data \in SUBSET Nodes
BY DEF Entries, Entry, StorageEntries

(* A copy is of the same kind, and a copy of a copy is no other.           *)
LEMMA CopiedFacts ==
  ASSUME NEW tree \in SUBSET Nodes
  PROVE  Copied(tree) \in SUBSET Nodes /\ Copied(Copied(tree)) = Copied(tree)
<1> DEFINE Full(e) == Below(tree, e.path) # {}
           Copy(e) == [e EXCEPT !.dir = @ /\ Full(e)]
           more == {Copy(e) : e \in tree}
<1>1. Copied(tree) = more
  BY DEF Copied
<1>2. \A e \in tree : Copy(e) \in Nodes /\ Copy(e).path = e.path /\ Copy(e).dir = (e.dir /\ Full(e))
  <2>1. ASSUME NEW e \in tree
        PROVE  Copy(e) \in Nodes /\ Copy(e).path = e.path /\ Copy(e).dir = (e.dir /\ Full(e))
    <3>1. e \in [path : Seq(Nat), dir : BOOLEAN]
      BY DEF Nodes
    <3>2. PICK full \in BOOLEAN : full = (e.dir /\ Full(e))
      OBVIOUS
    <3>3. Copy(e) = [e EXCEPT !.dir = full]
      BY <3>2
    <3> QED
      BY <3>1, <3>2, <3>3 DEF Nodes
  <2> QED
    BY <2>1
<1> HIDE DEF Copy
<1>3. more \in SUBSET Nodes
  BY <1>2
<1>4. \A e \in tree : (Below(more, Copy(e).path) # {}) = Full(e)
  <2>1. ASSUME NEW e \in tree, NEW b \in tree, b \in Below(tree, e.path)
        PROVE  Copy(b) \in Below(more, Copy(e).path)
    BY <1>2, <2>1 DEF Below
  <2>2. ASSUME NEW e \in tree, NEW c \in more, c \in Below(more, Copy(e).path)
        PROVE  Below(tree, e.path) # {}
    <3>1. PICK b \in tree : c = Copy(b)
      OBVIOUS
    <3>2. b \in Below(tree, e.path)
      BY <1>2, <2>2, <3>1 DEF Below
    <3> QED
      BY <3>2
  <2>3. \A p : Below(tree, p) \subseteq tree /\ Below(more, p) \subseteq more
    BY DEF Below
  <2> QED
    BY <2>1, <2>2, <2>3
<1>5. \A c \in more : [c EXCEPT !.dir = @ /\ Below(more, c.path) # {}] = c
  <2>1. ASSUME NEW c \in more
        PROVE  [c EXCEPT !.dir = @ /\ Below(more, c.path) # {}] = c
    <3>1. PICK e \in tree : c = Copy(e)
      OBVIOUS
    <3>2. c \in [path : Seq(Nat), dir : BOOLEAN]
      BY <1>3 DEF Nodes
    <3>3. c.dir = (e.dir /\ Full(e)) /\ (Below(more, c.path) # {}) = Full(e)
      BY <1>2, <1>4, <3>1
    <3>4. (c.dir /\ Below(more, c.path) # {}) = c.dir
      BY <3>3
    <3> QED
      BY <3>2, <3>4
  <2> QED
    BY <2>1
<1> HIDE DEF more
<1>6. Copied(more) = {[c EXCEPT !.dir = @ /\ Below(more, c.path) # {}] : c \in more}
  BY DEF Copied
<1>7. Copied(more) = more
  <2>1. ASSUME NEW c \in more PROVE c \in Copied(more)
    BY <1>5, <1>6, Zenon
  <2>2. ASSUME NEW c \in Copied(more) PROVE c \in more
    BY <1>5, <1>6, Zenon
  <2> QED
    BY <2>1, <2>2, Zenon
<1> QED
  BY <1>1, <1>3, <1>7

(* What the list has under its names.                                      *)
LEMMA StoredFacts ==
  ASSUME NEW list \in Lists(StorageEntries)
  PROVE  /\ OnlyEntries(StorageEntries, OnFile(list)) /\ DOMAIN OnFile(list) = NamesIn(list)
         /\ \A name \in NamesIn(list) :
              name \in StorageNames /\ OnFile(list)[name] \in SUBSET Nodes
              /\ DataOf(list, name) = OnFile(list)[name]
<1>1. /\ OnFile(list) = [name \in NamesIn(list) |-> DataOf(list, name)]
      /\ \A name \in NamesIn(list) : Entry(name, OnFile(list)[name]) \in StorageEntries
      /\ IsFiniteSet(NamesIn(list))
  BY StorageEntryFacts, OnFileFacts
<1>2. OnlyEntries(StorageEntries, OnFile(list)) /\ DOMAIN OnFile(list) = NamesIn(list)
  BY <1>1 DEF OnlyEntries
<1>3. \A name \in NamesIn(list) : Entry(name, OnFile(list)[name]).name \in StorageNames
                                  /\ Entry(name, OnFile(list)[name]).data \in SUBSET Nodes
  BY <1>1, StorageEntryFacts
<1> QED
  BY <1>1, <1>2, <1>3 DEF Entry

(* INSERT of a storage.                                                    *)
LEMMA InsertStored ==
  ASSUME StorageInv, NEW name \in StorageNames, NEW data \in Trees \cup {NoStorage},
         InsertStorage(name, data)
  PROVE  StorageInv'
<1>1. CASE readonly \/ data = NoStorage
  BY <1>1 DEF InsertStorage, CreatedStorage, StorageInv, StoredNames
<1>2. CASE ~(readonly \/ data = NoStorage)
  <2>1. PICK new : new = Placed(storages, name, data)
    OBVIOUS
  <2>2. PICK file : file = OnFile(storages)
    OBVIOUS
  <2>3. data \in SUBSET Nodes
    BY <1>2, StoragesAssumption DEF Nodes
  <2>4. new \in Lists(StorageEntries) /\ OnFile(new) = With(file, name, data)
    BY <2>1, <2>2, <2>3, StorageEntryFacts, PlacedFacts DEF StorageInv
  <2>5. /\ storages' = new /\ wanted' = With(wanted, name, data) /\ UNCHANGED savedStorages
    BY <1>2, <2>1 DEF InsertStorage, CreatedStorage
  <2>6. DOMAIN file = StoredNames /\ DOMAIN OnFile(new) = NamesIn(new)
    BY <2>2, <2>4, StoredFacts DEF StorageInv, NamesIn, StoredNames
  <2>7. DOMAIN wanted' = NamesIn(new)
    BY <2>4, <2>5, <2>6 DEF With, StorageInv
  <2>8. ASSUME NEW n \in DOMAIN wanted'
        PROVE  wanted'[n] \in SUBSET Nodes /\ OnFile(new)[n] \in {wanted'[n], Copied(wanted'[n])}
    <3>1. n \in DOMAIN wanted \cup {name} /\ n \in DOMAIN file \cup {name}
      BY <2>5, <2>6, <2>8 DEF With, StorageInv
    <3>2. CASE n = name
      BY <2>3, <2>4, <2>5, <3>1, <3>2 DEF With
    <3>3. CASE n # name
      <4>1. wanted'[n] = wanted[n] /\ OnFile(new)[n] = file[n]
        BY <2>4, <2>5, <3>1, <3>3 DEF With
      <4> QED
        BY <2>2, <3>1, <3>3, <4>1 DEF StorageInv
    <3> QED
      BY <3>2, <3>3
  <2> QED
    BY <2>4, <2>5, <2>7, <2>8 DEF StorageInv, StoredNames, NamesIn
<1> QED
  BY <1>1, <1>2

(* UPDATE of storages.                                                     *)
LEMMA UpdateStored ==
  ASSUME StorageInv, NEW found, NEW data \in Trees \cup {NoStorage}, UpdateStorages(found, data)
  PROVE  StorageInv'
<1>1. CASE readonly \/ data = NoStorage
  BY <1>1 DEF UpdateStorages, StorageInv, StoredNames
<1>2. CASE ~(readonly \/ data = NoStorage)
  <2> DEFINE Other(i) == IF storages[i].name \in found THEN Entry(storages[i].name, data) ELSE storages[i]
             new == [i \in DOMAIN storages |-> Other(i)]
             file == OnFile(storages)
             map == [n \in StoredNames |-> IF n \in found THEN data ELSE file[n]]
  <2>1. data \in SUBSET Nodes
    BY <1>2, StoragesAssumption DEF Nodes
  <2>2. /\ storages \in Seq(StorageEntries) /\ OneEach(storages)
        /\ DOMAIN storages = 1 .. Len(storages) /\ Len(storages) \in Nat
        /\ \A i \in 1 .. Len(storages) : storages[i] \in StorageEntries
    BY DEF StorageInv, Lists
  <2>3. \A i \in 1 .. Len(storages) : Other(i) \in StorageEntries /\ Other(i).name = storages[i].name
    BY <2>1, <2>2, StorageEntryFacts DEF Entry
  <2>4. new \in [1 .. Len(storages) -> StorageEntries] /\ \A i \in 1 .. Len(storages) : new[i] = Other(i)
    <3> HIDE DEF Other
    <3> QED
      BY <2>2, <2>3
  <2>5. storages' = new /\ UNCHANGED savedStorages
        /\ wanted' = [n \in DOMAIN wanted |-> IF n \in found THEN data ELSE wanted[n]]
    BY <1>2 DEF UpdateStorages
  <2> HIDE DEF new
  <2>6. new \in Seq(StorageEntries) /\ Len(new) = Len(storages) /\ DOMAIN new = 1 .. Len(storages)
    BY <2>2, <2>4
  <2>7. \A i \in 1 .. Len(storages) : new[i].name = storages[i].name
    BY <2>3, <2>4
  <2>8. new \in Lists(StorageEntries) /\ NamesIn(new) = StoredNames
    BY <2>2, <2>6, <2>7 DEF Lists, OneEach, NamesIn, StoredNames
  <2>9. \A i \in 1 .. Len(storages) : storages[i].name \in StoredNames /\ file[storages[i].name] = storages[i].data
    <3>1. storages \in Lists(StorageEntries)
      BY DEF StorageInv
    <3> QED
      BY <3>1, StorageEntryFacts, OnFileFacts DEF StoredNames, NamesIn
  <2>10. \A i \in 1 .. Len(storages) : new[i].name \in StoredNames /\ map[new[i].name] = new[i].data
    BY <2>4, <2>7, <2>9 DEF Entry
  <2>11. \A n \in StoredNames : \E i \in 1 .. Len(new) : new[i].name = n
    BY <2>2, <2>6, <2>7 DEF StoredNames
  <2>12. map = [n \in StoredNames |-> map[n]] /\ DOMAIN map = StoredNames
    OBVIOUS
  <2>13. \A n \in DOMAIN wanted : map[n] = IF n \in found THEN data ELSE file[n]
    BY DEF StorageInv
  <2> HIDE DEF map
  <2>14. OnFile(new) = map
    BY <2>6, <2>8, <2>10, <2>11, <2>12, OnFileIs
  <2>15. DOMAIN wanted' = DOMAIN wanted
         /\ \A n \in DOMAIN wanted : wanted'[n] \in SUBSET Nodes /\ map[n] \in {wanted'[n], Copied(wanted'[n])}
    <3>1. \A n \in DOMAIN wanted :
            wanted[n] \in SUBSET Nodes /\ file[n] \in {wanted[n], Copied(wanted[n])}
      BY DEF StorageInv
    <3> QED
      BY <2>1, <2>5, <2>13, <3>1
  <2>16. StoredNames' = StoredNames
    BY <2>5, <2>8 DEF StoredNames, NamesIn
  <2> QED
    BY <2>5, <2>8, <2>14, <2>15, <2>16 DEF StorageInv
<1> QED
  BY <1>1, <1>2

(* The states of a DELETE between its rounds.                              *)
RemovalStates ==
  {q \in [list : Lists(StorageEntries), count : Int, rows : [1 .. Len(storages) -> StorageNames]] :
     q.count <= Len(storages) /\ Shrunk(OnFile(storages), OnFile(q.list))}

(* What DELETE begins with.                                                *)
LEMMA StoragesStarts ==
  ASSUME StorageInv
  PROVE  StoragesStart \in RemovalStates /\ Len(storages) \in Nat /\ DOMAIN storages = 1 .. Len(storages)
<1>1. /\ storages \in Seq(StorageEntries) /\ DOMAIN storages = 1 .. Len(storages) /\ Len(storages) \in Nat
      /\ \A i \in 1 .. Len(storages) : storages[i].name \in StorageNames
  BY StorageEntryFacts DEF StorageInv, Lists
<1> DEFINE names == [i \in DOMAIN storages |-> storages[i].name]
<1>2. names \in [1 .. Len(storages) -> StorageNames]
  BY <1>1
<1>3. Shrunk(OnFile(storages), OnFile(storages))
  BY DEF Shrunk
<1>4. StoragesStart = [list |-> storages, count |-> Len(storages), rows |-> names]
  BY DEF StoragesStart
<1> HIDE DEF names
<1> QED
  BY <1>1, <1>2, <1>3, <1>4 DEF RemovalStates, StorageInv

(* Deleting a row takes a storage from the list.                           *)
LEMMA RemovedRow ==
  ASSUME StorageInv, NEW q \in RemovalStates, NEW row \in Nat
  PROVE  DeleteStorageRow(q, row) \in RemovalStates
<1>1. /\ q \in [list : Lists(StorageEntries), count : Int, rows : [1 .. Len(storages) -> StorageNames]]
      /\ q.count <= Len(storages) /\ Shrunk(OnFile(storages), OnFile(q.list))
  BY DEF RemovalStates
<1>2. CASE row > q.count + 1
  BY <1>2 DEF DeleteStorageRow
<1>3. CASE ~(row > q.count + 1)
  <2> DEFINE name == q.rows[row]
             list == Destroyed(q.list, name)
             moved == RowsMoved(q.rows, row, q.count - 1)
             new == [list |-> list, count |-> q.count - 1, rows |-> moved]
  <2>1. DeleteStorageRow(q, row) = new
    BY <1>1, <1>3 DEF DeleteStorageRow, RowsMoved
  <2>2. list \in Lists(StorageEntries) /\ OnFile(list) = Without(OnFile(q.list), name)
    <3>1. q.list \in Lists(StorageEntries)
      BY <1>1
    <3> HIDE DEF name
    <3> QED
      BY <3>1, StorageEntryFacts, DestroyedFacts
  <2>3. Shrunk(OnFile(storages), OnFile(list))
    <3> HIDE DEF name
    <3> QED
      BY <1>1, <2>2, ShrunkWithout
  <2>4. moved \in [1 .. Len(storages) -> StorageNames]
    <3>1. q.rows \in [1 .. Len(storages) -> StorageNames] /\ q.count \in Int /\ Len(storages) \in Nat
      BY <1>1, StoragesStarts
    <3>2. \A i \in 1 .. Len(storages) : i \in row .. q.count - 1 => i + 1 \in 1 .. Len(storages)
      BY <1>1, <3>1
    <3> QED
      BY <3>1, <3>2 DEF RowsMoved
  <2>5. q.count - 1 \in Int /\ q.count - 1 <= Len(storages)
    BY <1>1, StoragesStarts
  <2> HIDE DEF list, moved
  <2>6. new \in RemovalStates
    BY <2>2, <2>3, <2>4, <2>5 DEF RemovalStates
  <2> QED
    BY <2>1, <2>6
<1> QED
  BY <1>2, <1>3

(* The rounds of DELETE.                                                   *)
LEMMA RemovalRounds ==
  ASSUME StorageInv, NEW found
  PROVE  \E f \in [0 .. Len(storages) -> RemovalStates] :
           /\ f[0] = StoragesStart
           /\ \A i \in 1 .. Len(storages) : f[i] = StorageTurn(found, f[i - 1], i)
           /\ DeletedStorages(found) = f[Len(storages)].list
<1> DEFINE S == RemovalStates
<1>1. ASSUME NEW q \in S, NEW i \in 1 .. Len(storages) PROVE StorageTurn(found, q, i) \in S
  <2>1. i \in Nat
    BY StoragesStarts
  <2> QED
    BY <2>1, RemovedRow DEF StorageTurn
<1>2. StoragesStart \in S /\ Len(storages) \in Nat
  BY StoragesStarts
<1> HIDE DEF S
<1>3. \E f \in [0 .. Len(storages) -> S] :
           /\ f[0] = StoragesStart
           /\ \A i \in 1 .. Len(storages) : f[i] = StorageTurn(found, f[i - 1], i)
           /\ DeletedStorages(found) = f[Len(storages)].list
  BY <1>1, <1>2, StorageLoop
<1> QED
  BY <1>3 DEF S

(* After DELETE no storage has other data.                                 *)
LEMMA RemovedFacts ==
  ASSUME StorageInv, NEW found
  PROVE  /\ DeletedStorages(found) \in Lists(StorageEntries)
         /\ Shrunk(OnFile(storages), OnFile(DeletedStorages(found)))
<1>1. PICK f \in [0 .. Len(storages) -> RemovalStates] : DeletedStorages(found) = f[Len(storages)].list
  BY RemovalRounds
<1>2. f[Len(storages)] \in RemovalStates
  BY <1>1, StoragesStarts
<1> QED
  BY <1>1, <1>2 DEF RemovalStates

(* DELETE of one storage is one round.                                     *)
LEMMA RemovedOne ==
  ASSUME StorageInv, NEW row \in 1 .. Len(storages)
  PROVE  DeletedStorages({row}) = Destroyed(storages, storages[row].name)
<1> DEFINE N == Len(storages)
           start == StoragesStart
           end == DeleteStorageRow(start, row)
<1>1. N \in Nat
  BY StoragesStarts
<1>2. PICK f : /\ f[0] = start
               /\ \A i \in 1 .. N : f[i] = StorageTurn({row}, f[i - 1], i)
               /\ DeletedStorages({row}) = f[N].list
  BY RemovalRounds
<1>3. \A i \in 1 .. N : f[i] = IF i = row THEN DeleteStorageRow(f[i - 1], i) ELSE f[i - 1]
  BY <1>2 DEF StorageTurn
<1> DEFINE Good == {i \in 0 .. N : f[i] = IF i < row THEN start ELSE end}
<1> HIDE DEF N, start
<1>4. 0 \in Good
  BY <1>1, <1>2 DEF N
<1>5. ASSUME NEW i \in 1 .. N, i - 1 \in Good PROVE i \in Good
  <2>1. f[i - 1] = IF i - 1 < row THEN start ELSE end
    BY <1>5
  <2>2. i \in 0 .. N /\ row \in Nat
    BY <1>1 DEF N
  <2> HIDE DEF end
  <2>3. CASE i < row
    BY <1>1, <1>3, <2>1, <2>2, <2>3
  <2>4. CASE i = row
    BY <1>1, <1>3, <2>1, <2>2, <2>4 DEF end
  <2>5. CASE i > row
    BY <1>1, <1>3, <2>1, <2>2, <2>5
  <2> QED
    BY <1>1, <2>2, <2>3, <2>4, <2>5
<1> HIDE DEF Good
<1>6. \A i \in 0 .. N : i \in Good
  BY <1>1, <1>4, <1>5, UpToLast
<1>7. N \in Good /\ ~(N < row)
  BY <1>1, <1>6 DEF N
<1>8. DeletedStorages({row}) = DeleteStorageRow(StoragesStart, row).list
  BY <1>2, <1>7 DEF Good, end, start
<1>9. DOMAIN storages = 1 .. Len(storages) /\ Len(storages) \in Nat
  BY StoragesStarts
<1>10. DeleteStorageRow(StoragesStart, row).list = Destroyed(storages, storages[row].name)
  BY <1>9 DEF StoragesStart, DeleteStorageRow
<1> QED
  BY <1>8, <1>10

(* DELETE of storages: of one row, the storage that was found.             *)
LEMMA DeleteStored ==
  ASSUME StorageInv, NEW found, DeleteStorages(found)
  PROVE  StorageInv'
<1>1. PICK new : new = DeletedStorages(found)
  OBVIOUS
<1>2. PICK file : file = OnFile(storages)
  OBVIOUS
<1>3. new \in Lists(StorageEntries) /\ Shrunk(file, OnFile(new))
  BY <1>1, <1>2, RemovedFacts
<1>4. storages' = new /\ UNCHANGED savedStorages /\ found # {} /\ found \subseteq DOMAIN storages
  BY <1>1 DEF DeleteStorages
<1>5. DOMAIN file = StoredNames /\ DOMAIN OnFile(new) = NamesIn(new)
  BY <1>2, <1>3, StoredFacts DEF StorageInv, NamesIn, StoredNames
<1>6. StoredNames' = NamesIn(new)
  BY <1>4 DEF StoredNames, NamesIn
<1>7. DOMAIN wanted' = NamesIn(new) /\ \A n \in DOMAIN wanted' : wanted'[n] = wanted[n]
  <2>1. CASE Cardinality(found) = 1
    <3>1. IsFiniteSet(found)
      <4>1. IsFiniteSet(1 .. Len(storages))
        BY StoragesStarts, FS_Interval
      <4> QED
        BY <1>4, <4>1, StoragesStarts, FS_Subset
    <3>2. PICK row : found = {row}
      BY <2>1, <3>1, FS_Singleton
    <3>3. row \in 1 .. Len(storages)
      BY <1>4, <3>2, StoragesStarts
    <3>4. wanted' = [n \in DOMAIN wanted \ {storages[row].name} |-> wanted[n]]
      BY <2>1, <3>2 DEF DeleteStorages
    <3>5. OnFile(new) = Without(file, storages[row].name)
      BY <1>1, <1>2, <3>2, <3>3, RemovedOne, StorageEntryFacts, DestroyedFacts DEF StorageInv
    <3> QED
      BY <1>5, <3>4, <3>5 DEF Without, StorageInv
  <2>2. CASE Cardinality(found) # 1
    <3>1. wanted' = [n \in DOMAIN wanted \ (DOMAIN wanted \ NamesIn(new)) |-> wanted[n]]
      BY <1>6, <2>2 DEF DeleteStorages
    <3>2. NamesIn(new) \subseteq DOMAIN wanted
      BY <1>3, <1>5 DEF Shrunk, StorageInv
    <3> QED
      BY <3>1, <3>2
  <2> QED
    BY <2>1, <2>2
<1>8. \A n \in NamesIn(new) : n \in DOMAIN wanted /\ OnFile(new)[n] = file[n]
  BY <1>3, <1>5 DEF Shrunk, StorageInv
<1> QED
  BY <1>2, <1>3, <1>4, <1>6, <1>7, <1>8 DEF StorageInv

(* A commit copies the storages: what is wanted of each is there, or its   *)
(* copy.                                                                   *)
LEMMA CommitStored ==
  ASSUME StorageInv, CommitStorages
  PROVE  StorageInv'
<1>1. PICK file : file = OnFile(storages)
  OBVIOUS
<1>2. /\ DOMAIN file = StoredNames /\ IsFiniteSet(StoredNames)
      /\ \A n \in StoredNames : n \in StorageNames /\ file[n] \in SUBSET Nodes /\ DataOf(storages, n) = file[n]
  <2>1. storages \in Lists(StorageEntries) /\ NamesIn(storages) = StoredNames
    BY DEF StorageInv, NamesIn, StoredNames
  <2> QED
    BY <1>1, <2>1, StoredFacts DEF OnlyEntries
<1>3. PICK copy : copy = [name \in StoredNames |-> Copied(DataOf(storages, name))]
  OBVIOUS
<1>4. savedStorages' = copy /\ storages' = Listing(DOMAIN copy, copy) /\ UNCHANGED wanted
  BY <1>3 DEF CommitStorages
<1>5. DOMAIN copy = StoredNames /\ \A n \in StoredNames : copy[n] = Copied(file[n])
  BY <1>2, <1>3
<1>6. \A n \in StoredNames : copy[n] \in SUBSET Nodes
  BY <1>2, <1>5, CopiedFacts
<1>7. OnlyEntries(StorageEntries, copy)
  BY <1>2, <1>3, <1>5, <1>6, StorageEntryFacts DEF OnlyEntries
<1>8. PICK new : new = Listing(DOMAIN copy, copy)
  OBVIOUS
<1>9. new \in Lists(StorageEntries) /\ OnFile(new) = copy
  BY <1>7, <1>8, ListingFacts
<1>10. NamesIn(new) = StoredNames
  BY <1>5, <1>9, StoredFacts
<1>11. StoredNames' = StoredNames
  BY <1>4, <1>8, <1>10 DEF StoredNames, NamesIn
<1>12. \A n \in StoredNames : wanted[n] \in SUBSET Nodes /\ copy[n] \in {wanted[n], Copied(wanted[n])}
  <2>1. \A n \in StoredNames : wanted[n] \in SUBSET Nodes /\ file[n] \in {wanted[n], Copied(wanted[n])}
    BY <1>1 DEF StorageInv
  <2> QED
    BY <1>5, <2>1, CopiedFacts
<1> QED
  BY <1>4, <1>7, <1>8, <1>9, <1>11, <1>12 DEF StorageInv

(* The list is read from a file, which is then what is wanted.             *)
LEMMA ReadStored ==
  ASSUME NEW file, OnlyEntries(StorageEntries, file),
         storages = Listing(DOMAIN file, file), wanted = file, savedStorages = file
  PROVE  StorageInv
<1>1. storages \in Lists(StorageEntries) /\ OnFile(storages) = file
  BY ListingFacts
<1>2. NamesIn(storages) = DOMAIN file /\ \A n \in NamesIn(storages) : file[n] \in SUBSET Nodes
  BY <1>1, StoredFacts
<1> QED
  BY <1>1, <1>2 DEF StorageInv, NamesIn, StoredNames

(* Opening the file again.                                                 *)
LEMMA ReopenStored ==
  ASSUME StorageInv, ReopenStorages
  PROVE  StorageInv'
<1>1. PICK file : file = savedStorages
  OBVIOUS
<1>2. OnlyEntries(StorageEntries, file)
  BY <1>1 DEF StorageInv
<1>3. storages' = Listing(DOMAIN file, file) /\ wanted' = file /\ savedStorages' = file
  BY <1>1 DEF ReopenStorages
<1>4. PICK new : new = Listing(DOMAIN file, file)
  OBVIOUS
<1>5. new \in Lists(StorageEntries) /\ OnFile(new) = file
  BY <1>2, <1>4, ListingFacts
<1>6. NamesIn(new) = DOMAIN file /\ \A n \in NamesIn(new) : file[n] \in SUBSET Nodes
  BY <1>5, StoredFacts
<1>7. StoredNames' = NamesIn(new)
  BY <1>3, <1>4 DEF StoredNames, NamesIn
<1> QED
  BY <1>2, <1>3, <1>4, <1>5, <1>6, <1>7 DEF StorageInv

(* The storages a program begins with.                                     *)
LEMMA FirstStored ==
  ASSUME InitStorages
  PROVE  StorageInv
<1>1. PICK present \in SUBSET StorageNames, tree \in Trees :
        IsFiniteSet(present) /\ savedStorages = [name \in present |-> Copied(tree)]
  BY DEF InitStorages
<1>2. Copied(tree) \in SUBSET Nodes
  BY StoragesAssumption, CopiedFacts DEF Nodes
<1>3. PICK file : file = [name \in present |-> Copied(tree)]
  OBVIOUS
<1>4. OnlyEntries(StorageEntries, file)
  BY <1>1, <1>2, <1>3, StorageEntryFacts DEF OnlyEntries
<1> QED
  BY <1>1, <1>3, <1>4, ReadStored DEF InitStorages

(* Each step keeps the storages.                                           *)
LEMMA StorageKept ==
  ASSUME StorageInv, [PackageNext]_packageVars
  PROVE  StorageInv'
<1>1. ASSUME UNCHANGED storageOnly
      PROVE  StorageInv'
  BY <1>1 DEF storageOnly, StorageInv, StoredNames
<1>2. CASE StorageStatement
  <2>1. ASSUME NEW found \in SUBSET (1 .. Len(storages)), DeleteStorages(found) PROVE StorageInv'
    BY <2>1, DeleteStored
  <2>2. CASE InsertUndefined
    BY <1>1, <2>2 DEF InsertUndefined, storageOnly
  <2> QED
    BY <1>2, <2>1, <2>2, InsertStored, UpdateStored DEF StorageStatement
<1>3. CASE Commit /\ CommitStorages
  BY <1>3, CommitStored
<1>4. CASE Reopen /\ ReopenStorages
  BY <1>4, ReopenStored
<1>5. CASE UNCHANGED packageVars
  BY <1>1, <1>5 DEF packageVars, storageVars, storageOnly
<1> QED
  BY <1>1, <1>2, <1>3, <1>4, <1>5 DEF PackageNext, Step

(* So the invariant of storages holds in each state.                       *)
LEMMA StoragesStay == PackageSpec => []StorageInv
<1>1. PackageInit => StorageInv
  BY FirstStored DEF PackageInit
<1>2. StorageInv /\ [PackageNext]_packageVars => StorageInv'
  BY StorageKept
<1> QED
  BY <1>1, <1>2, PTL DEF PackageSpec

(* A list in which each name is once has as many elements as names.        *)
LEMMA AsManyNames ==
  ASSUME NEW E, NEW list \in Lists(E)
  PROVE  Cardinality(NamesIn(list)) = Len(list)
<1>1. OneEach(list) /\ DOMAIN list = 1 .. Len(list) /\ Len(list) \in Nat
  BY DEF Lists
<1> DEFINE f == [i \in 1 .. Len(list) |-> list[i].name]
<1>2. f \in Bijection(1 .. Len(list), NamesIn(list))
  BY <1>1 DEF Bijection, Injection, Surjection, NamesIn, OneEach, IsInjective
<1>3. PICK n \in Nat : n = Len(list)
  BY <1>1
<1>4. IsFiniteSet(1 .. n)
  BY FS_Interval
<1>5. Cardinality(1 .. n) = n
  <2>1. 1 \in Int /\ n \in Int
    OBVIOUS
  <2>2. Cardinality(1 .. n) = IF 1 > n THEN 0 ELSE n - 1 + 1
    BY <2>1, FS_Interval
  <2> QED
    BY <2>2
<1> HIDE DEF f
<1>6. ExistsBijection(1 .. n, NamesIn(list))
  BY <1>2, <1>3 DEF ExistsBijection
<1> QED
  BY <1>3, <1>4, <1>5, <1>6, FS_Bijection

(* The list and the file have each storage once, with what it was given.   *)
THEOREM StoragesAreKept == PackageSpec => []StoragesKept
<1>1. ASSUME StorageInv PROVE StoragesKept
  <2>1. NamesIn(storages) = StoredNames /\ storages \in Lists(StorageEntries)
    BY <1>1 DEF NamesIn, StoredNames, StorageInv
  <2>2. Cardinality(StoredNames) = Len(storages)
    BY <2>1, AsManyNames
  <2>3. \A n \in StoredNames : DataOf(storages, n) = OnFile(storages)[n]
    BY <2>1, StoredFacts
  <2> QED
    BY <1>1, <2>2, <2>3 DEF StorageInv, StoragesKept
<1> QED
  BY <1>1, StoragesStay, PTL

-----------------------------------------------------------------------------
(* The names of cells: without dots in the keys, the dots tell where       *)
(* each key begins, from the last to the first.                            *)
(* A sequence in three parts, the one in the middle of one element.        *)
Parted(w, s, d, a) ==
  /\ Len(w) = Len(s) + 1 + Len(a)
  /\ Len(s) \in Nat /\ Len(a) \in Nat
  /\ \A i \in 1 .. Len(s) : w[i] = s[i]
  /\ w[Len(s) + 1] = d[1]
  /\ \A i \in 1 .. Len(a) : w[Len(s) + 1 + i] = a[i]

(* A sequence in three parts, by its elements.                             *)
LEMMA Parts ==
  ASSUME NEW T, NEW s \in Seq(T), NEW d \in Seq(T), NEW a \in Seq(T), Len(d) = 1
  PROVE  Parted(s \o d \o a, s, d, a)
<1>1. Len(s) \in Nat /\ Len(a) \in Nat
  OBVIOUS
<1>2. /\ s \o d \in Seq(T) /\ Len(s \o d) = Len(s) + Len(d)
      /\ \A i \in 1 .. Len(s) + Len(d) : (s \o d)[i] = IF i <= Len(s) THEN s[i] ELSE d[i - Len(s)]
  BY ConcatProperties
<1>3. PICK h \in Seq(T) :
      /\ h = s \o d /\ Len(h) = Len(s) + 1
      /\ \A i \in 1 .. Len(s) + 1 : h[i] = IF i <= Len(s) THEN s[i] ELSE d[i - Len(s)]
  BY <1>2
<1>4. /\ h \o a \in Seq(T) /\ Len(h \o a) = Len(h) + Len(a)
      /\ \A i \in 1 .. Len(h) + Len(a) : (h \o a)[i] = IF i <= Len(h) THEN h[i] ELSE a[i - Len(h)]
  BY ConcatProperties
<1> DEFINE w == h \o a
<1>5. /\ Len(w) = Len(s) + 1 + Len(a)
      /\ \A i \in 1 .. Len(s) + 1 + Len(a) : w[i] = IF i <= Len(s) + 1 THEN h[i] ELSE a[i - (Len(s) + 1)]
  BY <1>3, <1>4
<1> HIDE DEF w
<1>6. \A i \in 1 .. Len(s) : w[i] = s[i]
  BY <1>1, <1>3, <1>5
<1>7. w[Len(s) + 1] = d[1]
  BY <1>1, <1>3, <1>5
<1>8. ASSUME NEW i \in 1 .. Len(a) PROVE w[Len(s) + 1 + i] = a[i]
  <2>1. PICK n \in Nat, k \in Nat : n = Len(s) + 1 /\ k = Len(a)
    BY <1>1
  <2>2. i \in 1 .. k
    BY <2>1
  <2>3. n + i \in 1 .. n + k /\ ~(n + i <= n) /\ (n + i) - n = i
    BY <2>1, <2>2
  <2>4. w[n + i] = IF n + i <= n THEN h[n + i] ELSE a[(n + i) - n]
    BY <1>5, <2>1, <2>3
  <2> QED
    BY <2>1, <2>3, <2>4
<1> QED
  BY <1>1, <1>3, <1>5, <1>6, <1>7, <1>8 DEF w, Parted

(* With a separator that is not in the last part, the first part is not    *)
(* shorter than that of the same sequence parted otherwise.                *)
LEMMA NotLonger ==
  ASSUME NEW s, NEW t, NEW a, NEW b, NEW d, NEW w,
         \A i \in 1 .. Len(a) : a[i] # d[1], Parted(w, s, d, a), Parted(w, t, d, b)
  PROVE  ~(Len(s) < Len(t))
<1> SUFFICES ASSUME Len(s) < Len(t) PROVE FALSE
  OBVIOUS
<1>1. PICK n \in Nat, m \in Nat, k \in Nat, l \in Nat : n = Len(s) /\ m = Len(t) /\ k = Len(a) /\ l = Len(b)
  BY DEF Parted
<1>2. PICK i \in 1 .. k : n + 1 + i = m + 1
  <2>1. n + 1 + k = m + 1 + l /\ n < m
    BY <1>1 DEF Parted
  <2>2. m - n \in 1 .. k /\ n + 1 + (m - n) = m + 1
    BY <2>1
  <2> QED
    BY <2>2
<1>3. w[n + 1 + i] = a[i] /\ w[m + 1] = d[1] /\ a[i] # d[1]
  BY <1>1 DEF Parted
<1> QED
  BY <1>2, <1>3

(* The last dot of a name parts the last key column from what is before.   *)
LEMMA LastPart ==
  ASSUME NEW T, NEW s \in Seq(T), NEW t \in Seq(T), NEW a \in Seq(T), NEW b \in Seq(T), NEW d, NEW w,
         \A i \in 1 .. Len(a) : a[i] # d[1], \A i \in 1 .. Len(b) : b[i] # d[1],
         Parted(w, s, d, a), Parted(w, t, d, b)
  PROVE  s = t /\ a = b
<1>1. ~(Len(s) < Len(t)) /\ ~(Len(t) < Len(s))
  BY NotLonger
<1>2. Len(s) = Len(t) /\ Len(a) = Len(b)
  BY <1>1 DEF Parted
<1>3. \A i \in 1 .. Len(s) : s[i] = t[i]
  BY <1>2 DEF Parted
<1>4. \A i \in 1 .. Len(a) : a[i] = b[i]
  BY <1>2 DEF Parted
<1> QED
  BY <1>2, <1>3, <1>4, SeqEqual

(* The dot, as a sequence.                                                 *)
LEMMA DotFacts ==
  \E dot \in Seq(Plain) : dot = <<Dot>> /\ Len(dot) = 1 /\ dot[1] = 46
<1>1. Dot \in Plain /\ Dot = 46
  BY DEF Plain, Coded, Dot, Doubles, TableMark
<1>2. \A ch \in Plain : <<ch>> \in Seq(Plain) /\ Len(<<ch>>) = 1 /\ <<ch>>[1] = ch
  OBVIOUS
<1>3. <<Dot>> \in Seq(Plain) /\ Len(<<Dot>>) = 1 /\ <<Dot>>[1] = 46
  BY <1>1, <1>2
<1> QED
  BY <1>3

(* Before the first key column there is the name of the table, without.    *)
LEMMA NoDotInTable ==
  ASSUME NEW t, NEW b, NEW dot, dot[1] = 46, NEW w, Parted(w, t, dot, b)
  PROVE  w # TableName
<1>1. Len(w) = Len(t) + 1 + Len(b) /\ Len(t) \in Nat /\ Len(b) \in Nat /\ w[Len(t) + 1] = 46
  BY DEF Parted
<1>2. Len(TableName) = 1 /\ TableName[1] = 66
  BY DEF TableName
<1>3. ASSUME w = TableName PROVE FALSE
  <2>1. Len(w) = 1 /\ w[1] = 66
    BY <1>2, <1>3
  <2>2. PICK n \in Nat, l \in Nat : n = Len(t) /\ l = Len(b) /\ w[n + 1] = 46 /\ Len(w) = n + 1 + l
    BY <1>1
  <2>3. n + 1 + l = 1
    BY <2>1, <2>2
  <2>4. n = 0
    BY <2>3
  <2> QED
    BY <2>1, <2>2, <2>4
<1> QED
  BY <1>3

NoDots(key) == \A i \in 1 .. Len(key) : \A j \in 1 .. Len(key[i]) : key[i][j] # Dot

(* The rounds of msi_stream_name, each a name in three parts.              *)
LEMMA CellRounds ==
  ASSUME NEW key \in Keys, NEW dot \in Seq(Plain), dot = <<Dot>>, Len(dot) = 1
  PROVE  \E f \in [0 .. Len(key) -> Seq(Plain)] :
           /\ f[0] = TableName
           /\ \A i \in 1 .. Len(key) : Parted(f[i], f[i - 1], dot, key[i])
           /\ StreamName(key) = f[Len(key)]
<1> DEFINE S == Seq(Plain)
<1>1. key \in Seq(Seq(Plain)) /\ \A i \in 1 .. Len(key) : key[i] \in S
  BY StreamsAssumption
<1>2. TableName \in S
  <2>1. 66 \in Plain
    BY DEF Plain, Coded, Doubles, TableMark
  <2> QED
    BY <2>1 DEF TableName
<1>4. ASSUME NEW q \in S, NEW i \in 1 .. Len(key) PROVE NameTurn(key, q, i) \in S
  <2>1. key[i] \in S
    BY <1>1
  <2>2. q \o dot \o key[i] \in S
    BY <2>1
  <2> QED
    BY <2>2 DEF NameTurn
<1> HIDE DEF S
<1>5. PICK f \in [0 .. Len(key) -> S] :
           /\ f[0] = TableName
           /\ \A i \in 1 .. Len(key) : f[i] = NameTurn(key, f[i - 1], i)
           /\ StreamName(key) = f[Len(key)]
  BY <1>1, <1>2, <1>4, NameLoop
<1>6. ASSUME NEW i \in 1 .. Len(key) PROVE Parted(f[i], f[i - 1], dot, key[i])
  <2>1. PICK q \in Seq(Plain), k \in Seq(Plain) : q = f[i - 1] /\ k = key[i]
    <3>1. Len(key) \in Nat
      BY <1>1
    <3>2. i - 1 \in 0 .. Len(key)
      BY <3>1
    <3>3. f[i - 1] \in S /\ key[i] \in S
      BY <1>1, <1>5, <3>2
    <3> QED
      BY <3>3 DEF S
  <2>2. Parted(q \o dot \o k, q, dot, k)
    BY Parts
  <2>3. f[i] = q \o dot \o k
    BY <1>5, <2>1 DEF NameTurn
  <2> QED
    BY <2>1, <2>2, <2>3
<1> QED
  BY <1>5, <1>6 DEF S

(* Two rows have two names, unless there are dots in the keys.             *)
LEMMA NamesDiffer ==
  ASSUME NEW key \in Keys, NEW other \in Keys, NoDots(key), NoDots(other),
         StreamName(key) = StreamName(other)
  PROVE  key = other
<1>1. key \in Seq(Seq(Plain)) /\ other \in Seq(Seq(Plain))
  BY StreamsAssumption
<1>2. PICK n \in Nat, m \in Nat : n = Len(key) /\ m = Len(other)
  BY <1>1
<1>0. PICK dot \in Seq(Plain) : dot = <<Dot>> /\ Len(dot) = 1 /\ dot[1] = 46
  BY DotFacts
<1>3. PICK f \in [0 .. n -> Seq(Plain)] :
        /\ f[0] = TableName
        /\ \A i \in 1 .. n : Parted(f[i], f[i - 1], dot, key[i])
        /\ StreamName(key) = f[n]
  BY <1>0, <1>2, CellRounds
<1>4. PICK g \in [0 .. m -> Seq(Plain)] :
        /\ g[0] = TableName
        /\ \A i \in 1 .. m : Parted(g[i], g[i - 1], dot, other[i])
        /\ StreamName(other) = g[m]
  BY <1>0, <1>2, CellRounds
<1>5. ASSUME NEW i \in 1 .. n, NEW k \in 0 .. m, f[i] = g[k]
      PROVE  k # 0 /\ f[i - 1] = g[k - 1] /\ key[i] = other[k]
  <2>1. Parted(f[i], f[i - 1], dot, key[i]) /\ f[i - 1] \in Seq(Plain)
    BY <1>3
  <2>2. key[i] \in Seq(Plain) /\ \A j \in 1 .. Len(key[i]) : key[i][j] # dot[1]
    BY <1>0, <1>1, <1>2 DEF NoDots, Dot
  <2>3. k # 0
    BY <1>0, <1>4, <1>5, <2>1, NoDotInTable
  <2>4. k \in 1 .. m
    BY <2>3
  <2>5. Parted(g[k], g[k - 1], dot, other[k]) /\ g[k - 1] \in Seq(Plain)
    BY <1>4, <2>4
  <2>6. other[k] \in Seq(Plain) /\ \A j \in 1 .. Len(other[k]) : other[k][j] # dot[1]
    BY <1>0, <1>1, <1>2, <2>4 DEF NoDots, Dot
  <2>7. Parted(f[i], g[k - 1], dot, other[k])
    BY <1>5, <2>5
  <2>8. f[i - 1] = g[k - 1] /\ key[i] = other[k]
    <3>1. PICK s \in Seq(Plain), t \in Seq(Plain), a \in Seq(Plain), b \in Seq(Plain) :
            s = f[i - 1] /\ t = g[k - 1] /\ a = key[i] /\ b = other[k]
      BY <2>1, <2>2, <2>5, <2>6
    <3> DEFINE w == f[i]
    <3>2. /\ Parted(w, s, dot, a) /\ Parted(w, t, dot, b)
          /\ \A j \in 1 .. Len(a) : a[j] # dot[1]
          /\ \A j \in 1 .. Len(b) : b[j] # dot[1]
      BY <2>1, <2>2, <2>6, <2>7, <3>1
    <3>3. s = t /\ a = b
      BY <3>2, LastPart
    <3> QED
      BY <3>1, <3>3
  <2> QED
    BY <2>3, <2>8
<1>6. ASSUME NEW k \in 1 .. m PROVE g[k] # TableName
  BY <1>0, <1>4, NoDotInTable
<1> DEFINE Good == {d \in 0 .. n :
             /\ d <= m /\ f[n - d] = g[m - d]
             /\ \A j \in 1 .. n : j > n - d => key[j] = other[j - n + m]}
<1>7. 0 \in Good
  <2>1. f[n] = g[m]
    BY <1>3, <1>4
  <2> QED
    BY <2>1
<1>8. ASSUME NEW d \in 1 .. n, d - 1 \in Good PROVE d \in Good
  <2>1. /\ d - 1 <= m /\ f[n - (d - 1)] = g[m - (d - 1)]
        /\ \A j \in 1 .. n : j > n - (d - 1) => key[j] = other[j - n + m]
    BY <1>8
  <2> HIDE DEF Good
  <2>2. PICK i \in 1 .. n : i = n - (d - 1)
    <3>1. n - (d - 1) \in 1 .. n
      OBVIOUS
    <3> QED
      BY <3>1
  <2>3. PICK k \in 0 .. m : k = m - (d - 1)
    <3>1. m - (d - 1) \in 0 .. m
      BY <2>1
    <3> QED
      BY <3>1
  <2>4. k # 0 /\ f[i - 1] = g[k - 1] /\ key[i] = other[k]
    <3>1. f[i] = g[k]
      BY <2>1, <2>2, <2>3
    <3> QED
      BY <1>5, <3>1
  <2>5. i - 1 = n - d /\ k - 1 = m - d /\ d <= m /\ i - n + m = k /\ d \in 0 .. n
    BY <2>2, <2>3, <2>4
  <2>6. \A j \in 1 .. n : j > n - d => j = i \/ j > n - (d - 1)
    BY <2>2
  <2>7. \A j \in 1 .. n : j > n - d => key[j] = other[j - n + m]
    BY <2>1, <2>4, <2>5, <2>6
  <2>8. f[n - d] = g[m - d]
    BY <2>4, <2>5
  <2> QED
    BY <2>5, <2>7, <2>8 DEF Good
<1> HIDE DEF Good
<1>9. n \in Good
  <2>1. \A d \in 0 .. n : d \in Good
    BY <1>7, <1>8, UpToLast
  <2> QED
    BY <2>1
<1>10. n <= m /\ f[n - n] = g[m - n] /\ \A j \in 1 .. n : j > n - n => key[j] = other[j - n + m]
  BY <1>9 DEF Good
<1>11. m - n \in 0 .. m /\ f[0] = g[m - n]
  BY <1>10
<1>12. m = n
  <2>1. CASE m - n \in 1 .. m
    BY <1>3, <1>6, <1>11, <2>1
  <2> QED
    BY <1>11, <2>1
<1>13. \A j \in 1 .. n : key[j] = other[j]
  BY <1>10, <1>12
<1> QED
  BY <1>1, <1>2, <1>12, <1>13, SeqEqual

-----------------------------------------------------------------------------
(* Cells.  What was last given for a cell is under its name, unless it     *)
(* may have been changed by a statement on `_Streams`; for this the rows   *)
(* of an UPDATE must be those of its view: only DELETE moves rows.         *)
WholeInv == \A v \in Views : views[v].for = "update" => views[v].count = Len(views[v].names)

(* The cells of the table, now and in the file.                            *)
CellInv ==
  /\ DOMAIN cells \subseteq Keys /\ DOMAIN given = DOMAIN cells /\ DOMAIN saved.cells \subseteq Keys
  /\ CellsRead

(* The names of cells in the file.                                         *)
CellFile(key) == Encode(StreamName(key))
DotFree == \A other \in Keys : \A i \in DOMAIN other : Dot \notin Range(other[i])

(* The stream of a cell is not the summary information.                    *)
LEMMA CellFileFacts ==
  ASSUME NEW key \in Keys
  PROVE  CellFile(key) # SummaryName /\ CellFile(key) # Encode(SummaryName)
<1>1. StreamName(key) \in PlainNames /\ StreamName(key)[1] = 66
  BY CellName
<1>2. StreamName(key) # SummaryName
  <2>1. Mime(66) # -1
    BY DEF Mime
  <2> QED
    BY <1>1, <2>1, StreamsAssumption
<1>3. Decode(Encode(StreamName(key))) = StreamName(key) /\ Decode(Encode(SummaryName)) = SummaryName
  BY <1>1, EncodedPlain, SummaryPlain
<1>4. CellFile(key) # SummaryName
  BY <1>1, EncodedPlain DEF CellFile
<1> QED
  BY <1>2, <1>3, <1>4 DEF CellFile

(* Without dots in the keys each row has a stream of its own.              *)
LEMMA CellFilesDiffer ==
  ASSUME NEW key \in Keys, NEW other \in Keys, DotFree, CellFile(key) = CellFile(other)
  PROVE  key = other
<1>1. StreamName(key) \in PlainNames /\ StreamName(other) \in PlainNames
  BY CellName
<1>2. StreamName(key) = StreamName(other)
  <2>1. Decode(Encode(StreamName(key))) = StreamName(key) /\ Decode(Encode(StreamName(other))) = StreamName(other)
    BY <1>1, EncodedPlain
  <2> QED
    BY <2>1 DEF CellFile
<1>3. ASSUME NEW k \in Keys PROVE NoDots(k)
  <2>1. k \in Seq(Seq(Plain))
    BY StreamsAssumption
  <2>2. ASSUME NEW i \in 1 .. Len(k), NEW j \in 1 .. Len(k[i]) PROVE k[i][j] # Dot
    <3>1. i \in DOMAIN k /\ k[i] \in Seq(Plain)
      BY <2>1
    <3>2. j \in DOMAIN k[i]
      BY <3>1
    <3>3. k[i][j] \in Range(k[i])
      BY <3>2 DEF Range
    <3> QED
      BY <3>1, <3>3 DEF DotFree
  <2> QED
    BY <2>2 DEF NoDots
<1> QED
  BY <1>2, <1>3, NamesDiffer

(* What a map from names to data has under a name.                         *)
FileData(file, name) == IF name \in DOMAIN file THEN file[name] ELSE Missing

(* What is read in the list is what its map has.                           *)
LEMMA DataFrom ==
  ASSUME NEW list \in Lists(StreamEntries), NEW name
  PROVE  DataOf(list, name) = FileData(OnFile(list), name)
<1>1. OnFile(list) = [n \in NamesIn(list) |-> DataOf(list, n)]
  BY EntryFacts, OnFileFacts
<1>2. Places(list, name) = {} <=> name \notin NamesIn(list)
  BY ListFacts, NoPlace
<1> QED
  BY <1>1, <1>2 DEF FileData, DataOf

(* What is read after data were placed: those, and the others as before.   *)
LEMMA PlacedData ==
  ASSUME NEW list \in Lists(StreamEntries), NEW name, NEW data, Entry(name, data) \in StreamEntries, NEW other
  PROVE  /\ DataOf(Placed(list, name, data), other) = IF other = name THEN data ELSE DataOf(list, other)
         /\ DataOf(Written(list, name, data), other) = IF other = name THEN data ELSE DataOf(list, other)
<1>1. PICK new, written :
        /\ new = Placed(list, name, data) /\ written = Written(list, name, data)
  OBVIOUS
<1>2. /\ new \in Lists(StreamEntries) /\ OnFile(new) = With(OnFile(list), name, data)
      /\ written \in Lists(StreamEntries) /\ OnFile(written) = With(OnFile(list), name, data)
  BY <1>1, EntryFacts, PlacedFacts, WrittenFacts
<1>3. FileData(With(OnFile(list), name, data), other)
        = IF other = name THEN data ELSE FileData(OnFile(list), other)
  BY DEF FileData, With
<1> QED
  BY <1>1, <1>2, <1>3, DataFrom

(* What is read under other names than the one destroyed.                  *)
LEMMA DestroyedData ==
  ASSUME NEW list \in Lists(StreamEntries), NEW name, NEW other, other # name
  PROVE  DataOf(Destroyed(list, name), other) = DataOf(list, other)
<1>1. PICK new : new = Destroyed(list, name)
  OBVIOUS
<1>2. new \in Lists(StreamEntries) /\ OnFile(new) = Without(OnFile(list), name)
  BY <1>1, EntryFacts, DestroyedFacts
<1>3. FileData(Without(OnFile(list), name), other) = FileData(OnFile(list), other)
  BY DEF FileData, Without
<1> QED
  BY <1>1, <1>2, <1>3, DataFrom

(* UPDATE changes the data of streams that rows have the names of.         *)
LEMMA UpdatedData ==
  ASSUME ListInv, NEW v, views[v].count \in Nat, NEW rows, \A row \in rows : Named(v, row),
         NEW data \in Data, NEW other, \A row \in rows : row \in 1 .. views[v].count => Encode(NameOf(v, row)) # other
  PROVE  DataOf(Updated(v, rows, data), other) = DataOf(streams, other)
<1> DEFINE S == {list \in Lists(StreamEntries) : DataOf(list, other) = DataOf(streams, other)}
<1>1. streams \in Lists(StreamEntries) /\ strings \in Seq(PlainNames)
  BY DEF ListInv
<1>2. streams \in S
  BY <1>1
<1>3. ASSUME NEW q \in S, NEW i \in 1 .. views[v].count PROVE UpdateTurn(v, rows, data, q, i) \in S
  <2>1. CASE i \in rows
    <3>1. PICK name : name = NameOf(v, i)
      OBVIOUS
    <3>2. name \in PlainNames
      BY <1>1, <2>1, <3>1 DEF Named, NameOf
    <3>3. Entry(Encode(name), data) \in StreamEntries
      BY <3>2, EntryFacts
    <3>4. q \in Lists(StreamEntries) /\ DataOf(q, other) = DataOf(streams, other)
      OBVIOUS
    <3>5. Placed(q, Encode(name), data) \in Lists(StreamEntries)
      BY <3>3, <3>4, EntryFacts, PlacedFacts
    <3>6. DataOf(Placed(q, Encode(name), data), other) = DataOf(q, other)
      <4>1. other # Encode(name)
        BY <2>1, <3>1
      <4>2. DataOf(Placed(q, Encode(name), data), other) = IF other = Encode(name) THEN data ELSE DataOf(q, other)
        BY <3>3, <3>4, PlacedData
      <4> QED
        BY <4>1, <4>2
    <3> QED
      BY <2>1, <3>1, <3>4, <3>5, <3>6 DEF UpdateTurn, Created
  <2>2. CASE i \notin rows
    BY <2>2 DEF UpdateTurn
  <2> QED
    BY <2>1, <2>2
<1> HIDE DEF S
<1>4. PICK f \in [0 .. views[v].count -> S] : Updated(v, rows, data) = f[views[v].count]
  BY <1>2, <1>3, UpdateLoop
<1>5. Updated(v, rows, data) \in S
  BY <1>4
<1> QED
  BY <1>5 DEF S

(* What CellsRead says of one cell.                                        *)
CellRead(key) ==
  cells[key] /\ given[key] # Unknown /\ DotFree => DataOf(streams, CellFile(key)) = given[key]

(* CellsRead, for each cell.                                               *)
LEMMA ReadEach == CellsRead <=> \A key \in DOMAIN cells : CellRead(key)
BY DEF CellsRead, CellRead, DotFree, CellFile, CellData

(* A statement that changes only streams it makes cells forget.            *)
LEMMA CellsForgotten ==
  ASSUME CellInv, NEW S, given' = Forget(S), UNCHANGED <<cells, saved>>,
         \A key \in Keys : CellFile(key) \notin S => DataOf(streams', CellFile(key)) = DataOf(streams, CellFile(key))
  PROVE  CellInv'
<1>1. DOMAIN given' = DOMAIN cells
      /\ \A key \in DOMAIN cells : given'[key] = IF CellFile(key) \in S THEN Unknown ELSE given[key]
  BY DEF Forget, CellInv, CellFile
<1>2. ASSUME NEW key \in DOMAIN cells PROVE CellRead(key)'
  <2>1. key \in Keys /\ CellRead(key)
    BY ReadEach DEF CellInv
  <2>2. CASE CellFile(key) \in S
    BY <1>1, <2>2 DEF CellRead
  <2>3. CASE CellFile(key) \notin S
    <3>1. DataOf(streams', CellFile(key)) = DataOf(streams, CellFile(key)) /\ given'[key] = given[key]
      BY <1>1, <2>1, <2>3
    <3> QED
      BY <2>1, <3>1 DEF CellRead
  <2> QED
    BY <2>2, <2>3
<1>3. CellsRead'
  BY <1>2 DEF CellsRead, CellRead, DotFree, CellFile, CellData
<1> QED
  BY <1>1, <1>3 DEF CellInv

(* A step that changes no stream of a cell.                                *)
LEMMA CellsUnchanged ==
  ASSUME CellInv, UNCHANGED <<cells, given, saved>>,
         \A key \in Keys : DataOf(streams', CellFile(key)) = DataOf(streams, CellFile(key))
  PROVE  CellInv'
<1>1. ASSUME NEW key \in DOMAIN cells PROVE CellRead(key)'
  <2>1. key \in Keys /\ CellRead(key)
    BY ReadEach DEF CellInv
  <2> QED
    BY <2>1 DEF CellRead
<1>2. CellsRead'
  BY <1>1 DEF CellsRead, CellRead, DotFree, CellFile, CellData
<1> QED
  BY <1>2 DEF CellInv

(* INSERT into `_Streams` may change the cell whose stream it names.       *)
LEMMA InsertCells ==
  ASSUME ListInv, CellInv, NEW name \in PlainNames, NEW data \in Data, Insert(name, data)
  PROVE  CellInv'
<1>1. given' = Forget({Encode(name)}) /\ UNCHANGED <<cells, saved>>
      /\ streams' \in {streams, Placed(streams, Encode(name), data)}
  BY DEF Insert, Created
<1>2. Entry(Encode(name), data) \in StreamEntries
  BY EntryFacts
<1>3. ASSUME NEW key \in Keys, CellFile(key) \notin {Encode(name)}
      PROVE  DataOf(streams', CellFile(key)) = DataOf(streams, CellFile(key))
  BY <1>1, <1>2, <1>3, PlacedData DEF ListInv
<1> QED
  BY <1>1, <1>3, CellsForgotten

(* Of a row of a view that is whole, the stream of its name.               *)
LEMMA RowFile ==
  ASSUME ListInv, ViewInv, NEW v \in Views, NEW row \in 1 .. views[v].count, Whole(v), NEW key \in Keys,
         CellFile(key) # views[v].names[row]
  PROVE  row \in 1 .. Len(views[v].names) /\ Encode(NameOf(v, row)) # CellFile(key)
<1>1. PICK w \in ViewStates : w = views[v] /\ RowsNamed(w, strings)
  BY DEF ViewInv
<1>2. /\ w.count \in Nat /\ w.names \in Seq(FileNames \cup {SummaryName})
      /\ w.count = Len(w.names) /\ ~w.stale /\ row \in 1 .. Len(w.names)
  BY <1>1 DEF ViewStates, Whole
<1>3. PICK name \in FileNames \cup {SummaryName} : name = w.names[row]
  BY <1>2
<1>4. NameOf(v, row) = Decode(name)
  BY <1>1, <1>2, <1>3 DEF RowsNamed, NameOf
<1>5. CASE name = SummaryName
  <2>1. Encode(NameOf(v, row)) = Encode(SummaryName)
    BY <1>4, <1>5, SummaryPlain
  <2> QED
    BY <1>1, <1>2, <2>1, CellFileFacts
<1>6. CASE name # SummaryName
  <2>1. Encode(NameOf(v, row)) = name
    BY <1>3, <1>4, <1>6, NameFacts
  <2> QED
    BY <1>1, <1>2, <1>3, <2>1
<1> QED
  BY <1>5, <1>6

(* UPDATE changes the streams of its rows, whose names its view has.       *)
LEMMA UpdateCells ==
  ASSUME ListInv, ViewInv, WholeInv, CellInv, NEW v \in Views, NEW rows, NEW data \in Data, Update(v, rows, data)
  PROVE  CellInv'
<1> DEFINE S == IF views[v].stale THEN Encoded ELSE {views[v].names[row] : row \in rows}
<1>1. given' = Forget(S) /\ UNCHANGED <<cells, saved>> /\ streams' = Updated(v, rows, data)
      /\ views[v].for = "update" /\ \A row \in rows : Named(v, row)
  BY DEF Update
<1>2. views[v].count \in Nat
  BY DeleteStarts
<1>3. ASSUME NEW key \in Keys, CellFile(key) \notin S
      PROVE  DataOf(streams', CellFile(key)) = DataOf(streams, CellFile(key))
  <2>1. ~views[v].stale
    BY <1>3 DEF Encoded, CellFile
  <2>2. Whole(v)
    BY <1>1, <2>1 DEF WholeInv, Whole
  <2>3. ASSUME NEW row \in rows, row \in 1 .. views[v].count PROVE Encode(NameOf(v, row)) # CellFile(key)
    <3>1. CellFile(key) # views[v].names[row]
      BY <1>3, <2>1, <2>3
    <3> QED
      BY <2>2, <2>3, <3>1, RowFile
  <2> QED
    BY <1>1, <1>2, <2>3, UpdatedData
<1> HIDE DEF S
<1> QED
  BY <1>1, <1>3, CellsForgotten

(* DELETE of one row changes this row's stream; of several, which ones     *)
(* is not followed.                                                        *)
LEMMA DeleteCells ==
  ASSUME ListInv, ViewInv, CellInv, NEW v \in Views, NEW rows \in Found(v), Delete(v, rows)
  PROVE  CellInv'
<1> DEFINE one == Whole(v) /\ Cardinality(rows) = 1
           S == IF one THEN {views[v].names[row] : row \in rows} ELSE Encoded
<1>1. given' = Forget(S) /\ UNCHANGED <<cells, saved>> /\ streams' = Deleted(v, rows).list
  BY DEF Delete
<1>2. rows \subseteq 1 .. views[v].count /\ views[v].count \in Nat
  BY DeleteStarts DEF Found, Matching
<1>3. ASSUME NEW key \in Keys, CellFile(key) \notin S
      PROVE  DataOf(streams', CellFile(key)) = DataOf(streams, CellFile(key))
  <2>1. one
    BY <1>3 DEF Encoded, CellFile
  <2>2. IsFiniteSet(rows)
    <3>1. IsFiniteSet(1 .. views[v].count)
      BY <1>2, FS_Interval
    <3> QED
      BY <1>2, <3>1, FS_Subset
  <2>3. PICK row : rows = {row}
    BY <2>1, <2>2, FS_Singleton
  <2>4. row \in 1 .. views[v].count /\ CellFile(key) # views[v].names[row]
    BY <1>2, <1>3, <2>1, <2>3
  <2>5. Encode(NameOf(v, row)) # CellFile(key)
    BY <2>1, <2>4, RowFile
  <2>6. streams' = DeleteRow(DeleteStart(v), row).list
    BY <1>1, <2>3, <2>4, DeletedOne
  <2>7. CASE streams' = streams
    BY <2>7
  <2>8. CASE streams' # streams
    <3>1. streams' = Destroyed(streams, Encode(NameOf(v, row)))
      BY <2>6, <2>8 DEF DeleteRow, DeleteStart, NameOf
    <3> QED
      BY <2>5, <3>1, DestroyedData DEF ListInv
  <2> QED
    BY <2>7, <2>8
<1> HIDE DEF S
<1> QED
  BY <1>1, <1>3, CellsForgotten

(* A step that sets one cell.                                              *)
LEMMA OneCell ==
  ASSUME CellInv, NEW key \in Keys, NEW full \in BOOLEAN, NEW value,
         cells' = With(cells, key, full), given' = With(given, key, value), UNCHANGED saved,
         full => DataOf(streams', CellFile(key)) = value,
         \A k \in Keys : k # key /\ DotFree => DataOf(streams', CellFile(k)) = DataOf(streams, CellFile(k))
  PROVE  CellInv'
<1>1. /\ DOMAIN cells' = DOMAIN cells \cup {key} /\ DOMAIN given' = DOMAIN given \cup {key}
      /\ \A k \in DOMAIN cells' : cells'[k] = IF k = key THEN full ELSE cells[k]
      /\ \A k \in DOMAIN given' : given'[k] = IF k = key THEN value ELSE given[k]
  BY DEF With
<1>2. DOMAIN given = DOMAIN cells /\ DOMAIN cells \subseteq Keys
  BY DEF CellInv
<1>3. ASSUME NEW k \in DOMAIN cells' PROVE CellRead(k)'
  <2>1. CASE k = key
    BY <1>1, <1>2, <2>1 DEF CellRead
  <2>2. CASE k # key
    <3>1. k \in DOMAIN cells /\ k \in Keys /\ CellRead(k)
      BY <1>1, <1>2, <2>2, ReadEach DEF CellInv
    <3>2. cells'[k] = cells[k] /\ given'[k] = given[k]
      BY <1>1, <1>2, <2>2
    <3>3. DotFree => DataOf(streams', CellFile(k)) = DataOf(streams, CellFile(k))
      BY <2>2, <3>1
    <3> QED
      BY <3>1, <3>2, <3>3 DEF CellRead
  <2> QED
    BY <2>1, <2>2
<1>4. CellsRead'
  BY <1>3 DEF CellsRead, CellRead, DotFree, CellFile, CellData
<1> QED
  BY <1>1, <1>2, <1>4 DEF CellInv

(* A cell that is set, also where nothing may be written, and to null.     *)
LEMMA SetCellCells ==
  ASSUME ListInv, CellInv, NEW key \in Keys, NEW data \in Data \cup {Missing}, SetCell(key, data)
  PROVE  CellInv'
<1>1. UNCHANGED saved /\ DOMAIN given = DOMAIN cells
  BY DEF SetCell, CellInv
<1>2. CASE data = Missing
  <2>1. streams' = streams /\ cells' = With(cells, key, FALSE) /\ given' = With(given, key, Missing)
    BY <1>2 DEF SetCell
  <2> QED
    BY <1>1, <2>1, OneCell
<1>3. CASE data # Missing /\ readonly
  <2>1. /\ streams' = streams
        /\ cells' = IF key \in DOMAIN cells THEN cells ELSE With(cells, key, FALSE)
        /\ given' = IF key \in DOMAIN given THEN given ELSE With(given, key, Missing)
    BY <1>3 DEF SetCell
  <2>2. CASE key \in DOMAIN cells
    BY <1>1, <2>1, <2>2, CellsUnchanged
  <2>3. CASE key \notin DOMAIN cells
    BY <1>1, <2>1, <2>3, OneCell
  <2> QED
    BY <2>2, <2>3
<1>4. CASE data # Missing /\ ~readonly
  <2>1. /\ streams' = Placed(streams, CellFile(key), data)
        /\ cells' = With(cells, key, TRUE) /\ given' = With(given, key, data)
    BY <1>4 DEF SetCell, Created, CellFile
  <2>2. Entry(CellFile(key), data) \in StreamEntries
    BY <1>4, CellName, EntryFacts DEF CellFile
  <2>3. streams \in Lists(StreamEntries)
    BY DEF ListInv
  <2>4. DataOf(streams', CellFile(key)) = data
    BY <2>1, <2>2, <2>3, PlacedData
  <2>5. ASSUME NEW k \in Keys, k # key, DotFree
        PROVE  DataOf(streams', CellFile(k)) = DataOf(streams, CellFile(k))
    <3>1. CellFile(k) # CellFile(key)
      BY <2>5, CellFilesDiffer
    <3> QED
      BY <2>1, <2>2, <2>3, <3>1, PlacedData
  <2> QED
    BY <1>1, <2>1, <2>4, <2>5, OneCell
<1> QED
  BY <1>2, <1>3, <1>4

(* DELETE of a row of the table leaves its stream.                         *)
LEMMA DeleteTableRowCells ==
  ASSUME CellInv, NEW key, DeleteTableRow(key)
  PROVE  CellInv'
<1>1. /\ cells' = [k \in DOMAIN cells \ {key} |-> cells[k]]
      /\ given' = [k \in DOMAIN cells \ {key} |-> given[k]]
      /\ UNCHANGED <<streams, saved>>
  BY DEF DeleteTableRow
<1>2. ASSUME NEW k \in DOMAIN cells' PROVE CellRead(k)'
  <2>1. k \in DOMAIN cells /\ CellRead(k) /\ cells'[k] = cells[k] /\ given'[k] = given[k]
    BY <1>1, ReadEach DEF CellInv
  <2> QED
    BY <1>1, <2>1 DEF CellRead
<1>3. CellsRead'
  BY <1>2 DEF CellsRead, CellRead, DotFree, CellFile, CellData
<1> QED
  BY <1>1, <1>3 DEF CellInv

(* A commit does not change what is read.                                  *)
LEMMA CommitCells ==
  ASSUME ListInv, CellInv, Commit
  PROVE  CellInv'
<1>1. PICK file : file = OnFile(streams)
  OBVIOUS
<1>2. OnlyEntries(StreamEntries, file)
  BY <1>1, OnFileEntries DEF ListInv
<1>3. /\ saved' = [streams |-> file, cells |-> cells]
      /\ streams' = Cached(saved'.streams) /\ UNCHANGED <<cells, given>>
  BY <1>1 DEF Commit
<1>4. streams' = Cached(file) /\ saved.cells' = cells
  BY <1>3
<1>5. Cached(file) \in Lists(StreamEntries) /\ OnFile(Cached(file)) = file
  BY <1>2, CachedFacts
<1>6. \A name : DataOf(streams', name) = DataOf(streams, name)
  BY <1>1, <1>4, <1>5, DataFrom DEF ListInv
<1>7. ASSUME NEW key \in DOMAIN cells' PROVE CellRead(key)'
  <2>1. CellRead(key)
    BY <1>3, ReadEach DEF CellInv
  <2> QED
    BY <1>3, <1>6, <2>1 DEF CellRead
<1>8. CellsRead'
  BY <1>7 DEF CellsRead, CellRead, DotFree, CellFile, CellData
<1> QED
  BY <1>3, <1>4, <1>8 DEF CellInv

(* Without a commit what the file has is read.                             *)
LEMMA ReopenCells ==
  ASSUME CellInv, Reopen
  PROVE  CellInv'
<1>1. /\ cells' = saved.cells /\ UNCHANGED saved
      /\ given' = [key \in DOMAIN saved.cells |->
                     IF saved.cells[key] THEN DataOf(streams', CellFile(key)) ELSE Missing]
  BY DEF Reopen, CellFile
<1>2. ASSUME NEW key \in DOMAIN cells' PROVE CellRead(key)'
  BY <1>1 DEF CellRead
<1>3. CellsRead'
  BY <1>2 DEF CellsRead, CellRead, DotFree, CellFile, CellData
<1> QED
  BY <1>1, <1>3 DEF CellInv

(* The summary information has no cell's name.                             *)
LEMMA SummaryCells ==
  ASSUME ListInv, ObjectInv, CellInv, SummaryStep, UNCHANGED streamsOnly
  PROVE  CellInv'
<1>1. UNCHANGED <<cells, given, saved>>
  BY DEF streamsOnly
<1>2. ASSUME UNCHANGED streams PROVE CellInv'
  BY <1>1, <1>2, CellsUnchanged
<1>3. ASSUME NEW props \in PropStates, streams' = Written(streams, SummaryName, Persistent(props))
      PROVE  CellInv'
  <2>1. PICK content \in Contents : content = Persistent(props)
    BY PersistedFacts
  <2>2. Entry(SummaryName, content) \in StreamEntries
    BY EntryFacts
  <2>3. ASSUME NEW key \in Keys
        PROVE  DataOf(streams', CellFile(key)) = DataOf(streams, CellFile(key))
    BY <1>3, <2>1, <2>2, CellFileFacts, PlacedData DEF ListInv
  <2> QED
    BY <1>1, <2>3, CellsUnchanged
<1>4. ASSUME NEW o \in Objects, Persist(o) PROVE CellInv'
  <2>1. PICK ob \in ObjectStates : ob = objects[o]
    BY <1>4 DEF ObjectInv, Persist
  <2>2. ob.props \in PropStates
    BY ObjectFields
  <2> QED
    BY <1>2, <1>3, <1>4, <2>1, <2>2 DEF Persist
<1>5. ASSUME NEW changes \in Imports, Import(changes) PROVE CellInv'
  <2>1. CASE streams' = streams
    BY <1>2, <2>1
  <2>2. CASE streams' # streams
    <3>1. /\ \A i \in DOMAIN changes : changes[i].id \in DOMAIN Properties
          /\ streams' = Written(streams, SummaryName, Persistent(Imported(changes)))
      BY <1>5, <2>2 DEF Import
    <3> QED
      BY <1>3, <3>1, ImportFacts
  <2> QED
    BY <2>1, <2>2
<1> QED
  BY <1>2, <1>4, <1>5 DEF SummaryStep, New, Release, Set

(* Of an UPDATE, each row is still there.                                  *)
WholeView(w) == w.for = "update" => w.count = Len(w.names)

(* Each step keeps each row of an UPDATE.                                  *)
LEMMA WholeKept ==
  ASSUME ListInv, ViewInv, WholeInv, [PackageNext]_packageVars
  PROVE  WholeInv'
<1>1. DOMAIN views = Views /\ \A v \in Views : WholeView(views[v])
  BY DEF ViewInv, WholeInv, WholeView
<1>2. SUFFICES \A v \in Views : WholeView(views'[v])
  BY DEF WholeInv, WholeView
<1>3. ASSUME UNCHANGED views PROVE \A v \in Views : WholeView(views'[v])
  BY <1>1, <1>3
<1>4. ASSUME NEW v \in Views, NEW new, WholeView(new), views' = [views EXCEPT ![v] = new]
      PROVE  \A u \in Views : WholeView(views'[u])
  BY <1>1, <1>4
<1>5. ASSUME NEW v \in Views, NEW for, Prepare(v, for) PROVE \A u \in Views : WholeView(views'[u])
  <2>1. PICK new : new = [rows |-> [i \in DOMAIN Listed |-> IdIn(strings', Listed[i])],
                          count |-> Len(Listed), for |-> for, stale |-> FALSE,
                          names |-> [i \in DOMAIN streams |-> streams[i].name]]
    OBVIOUS
  <2>2. views' = [views EXCEPT ![v] = new]
    BY <1>5, <2>1 DEF Prepare
  <2>3. new.count = Len(new.names)
    <3>1. DOMAIN streams = 1 .. Len(streams) /\ Len(streams) \in Nat /\ Len(Listed) = Len(streams)
      BY ListFacts, ListedPlain DEF ListInv
    <3>2. new.names = [i \in 1 .. Len(streams) |-> streams[i].name] /\ new.count = Len(Listed)
      BY <2>1, <3>1
    <3>3. Len(new.names) = Len(streams)
      BY <3>1, <3>2
    <3> QED
      BY <3>1, <3>2, <3>3
  <2> QED
    BY <1>4, <2>2, <2>3 DEF WholeView
<1>6. ASSUME NEW v \in Views, Close(v) PROVE \A u \in Views : WholeView(views'[u])
  <2>1. WholeView(NoView)
    BY DEF WholeView, NoView
  <2> QED
    BY <1>4, <1>6, <2>1 DEF Close
<1>7. ASSUME NEW v \in Views, NEW rows, Delete(v, rows) PROVE \A u \in Views : WholeView(views'[u])
  <2>1. PICK left : left = Deleted(v, rows)
    OBVIOUS
  <2>2. /\ views[v].for = "delete"
        /\ views' = [views EXCEPT ![v].rows = left.rows, ![v].count = left.count]
    BY <1>7, <2>1 DEF Delete
  <2>3. PICK w \in ViewStates : w = views[v]
    BY DEF ViewInv
  <2>4. views' = [views EXCEPT ![v] = [w EXCEPT !.rows = left.rows, !.count = left.count]]
    BY <1>1, <2>2, <2>3
  <2>5. [w EXCEPT !.rows = left.rows, !.count = left.count].for = "delete"
    BY <2>2, <2>3 DEF ViewStates
  <2> QED
    BY <1>4, <2>4, <2>5 DEF WholeView
<1>8. ASSUME Commit PROVE \A v \in Views : WholeView(views'[v])
  <2>1. ASSUME NEW v \in Views PROVE WholeView(views'[v])
    <3>1. PICK w \in ViewStates : w = views[v]
      BY DEF ViewInv
    <3>2. PICK old : old = (w # NoView)
      OBVIOUS
    <3>3. views'[v] = [w EXCEPT !.stale = old]
      BY <1>8, <3>1, <3>2 DEF Commit
    <3>4. /\ [w EXCEPT !.stale = old].for = w.for /\ [w EXCEPT !.stale = old].count = w.count
          /\ [w EXCEPT !.stale = old].names = w.names
      OBVIOUS
    <3> QED
      BY <1>1, <3>1, <3>3, <3>4 DEF WholeView
  <2> QED
    BY <2>1
<1>9. CASE Statement
  BY <1>3, <1>5, <1>6, <1>7, <1>9
     DEF Statement, Insert, Update, UpdateUndefined, SetCell, DeleteTableRow
<1>10. CASE UNCHANGED packageVars
  BY <1>3, <1>10 DEF packageVars, vars
<1> QED
  BY <1>3, <1>8, <1>9, <1>10 DEF PackageNext, Step, streamsOnly, Insert, Reopen

(* Each step keeps what the cells read.                                    *)
LEMMA CellsKept ==
  ASSUME PackageInv, WholeInv, CellInv, [PackageNext]_packageVars
  PROVE  CellInv'
<1>1. ListInv /\ ViewInv /\ ObjectInv
  BY DEF PackageInv
<1>2. ASSUME UNCHANGED <<streams, cells, given, saved>> PROVE CellInv'
  BY <1>2, CellsUnchanged
<1>3. CASE Statement
  <2>1. ASSUME NEW name \in Names, NEW data \in Data, Insert(name, data) PROVE CellInv'
    BY <1>1, <2>1, InsertCells, StreamsAssumption
  <2>2. ASSUME NEW v \in Views, NEW for, Prepare(v, for) \/ Close(v) PROVE CellInv'
    BY <1>2, <2>2 DEF Prepare, Close
  <2>3. ASSUME NEW v \in Views, NEW rows \in Found(v),
               (\E data \in Data : Update(v, rows, data)) \/ UpdateUndefined(v, rows) \/ Delete(v, rows)
        PROVE  CellInv'
    <3>1. CASE \E data \in Data : Update(v, rows, data)
      BY <1>1, <3>1, UpdateCells
    <3>2. CASE UpdateUndefined(v, rows)
      BY <1>2, <3>2 DEF UpdateUndefined
    <3>3. CASE Delete(v, rows)
      BY <1>1, <3>3, DeleteCells
    <3> QED
      BY <2>3, <3>1, <3>2, <3>3
  <2>4. ASSUME NEW key \in Keys, NEW data \in Data \cup {Missing}, SetCell(key, data) PROVE CellInv'
    BY <1>1, <2>4, SetCellCells
  <2>5. ASSUME NEW key \in Keys, DeleteTableRow(key) PROVE CellInv'
    BY <2>5, DeleteTableRowCells
  <2> QED
    BY <1>3, <2>1, <2>2, <2>3, <2>4, <2>5 DEF Statement
<1>4. CASE SummaryStep /\ UNCHANGED <<streamsOnly, storageOnly>>
  BY <1>1, <1>4, SummaryCells
<1>5. CASE \E data \in Data : Insert(SummaryName, data)
  BY <1>1, <1>5, InsertCells, SummaryPlain
<1>6. CASE UNCHANGED <<streams, streamsOnly, objects>>
  BY <1>2, <1>6 DEF streamsOnly
<1>7. CASE Commit
  BY <1>1, <1>7, CommitCells
<1>8. CASE Reopen
  BY <1>8, ReopenCells
<1>9. CASE UNCHANGED packageVars
  BY <1>2, <1>9 DEF packageVars, vars
<1> QED
  BY <1>3, <1>4, <1>5, <1>6, <1>7, <1>8, <1>9 DEF PackageNext, Step

(* What the status may be.                                                 *)
StatusInv == status \in {"ok", "undefined"}

(* Each step keeps the status one of both.                                 *)
LEMMA StatusKept ==
  ASSUME StatusInv, [PackageNext]_packageVars
  PROVE  StatusInv'
<1>1. ASSUME UNCHANGED status PROVE StatusInv'
  BY <1>1 DEF StatusInv
<1>2. CASE Statement
  <2>1. UNCHANGED status \/ status' = "undefined"
    BY <1>2 DEF Statement, Insert, Prepare, Close, Update, UpdateUndefined, Delete, SetCell, DeleteTableRow
  <2> QED
    BY <1>1, <2>1 DEF StatusInv
<1>3. CASE SummaryStep
  BY <1>1, <1>3 DEF SummaryStep, New, Release, Set, Persist, Import
<1>4. CASE StorageStatement
  <2>1. UNCHANGED status \/ status' = "undefined"
    BY <1>4 DEF StorageStatement, InsertStorage, DeleteStorages, UpdateStorages, InsertUndefined
  <2> QED
    BY <1>1, <2>1 DEF StatusInv
<1>5. CASE (\E data \in Data : Insert(SummaryName, data)) \/ Commit \/ Reopen
  BY <1>1, <1>5 DEF Insert, Commit, Reopen
<1>6. CASE UNCHANGED packageVars
  BY <1>1, <1>6 DEF packageVars, vars
<1> QED
  BY <1>2, <1>3, <1>4, <1>5, <1>6 DEF PackageNext, Step

(* All that the theorems on cells and on types need.                       *)
CellsInv == PackageInv /\ WholeInv /\ CellInv /\ StatusInv

(* So what the theorems on cells and types need holds in each state.       *)
LEMMA CellsKeep == PackageSpec => []CellsInv
<1>1. ASSUME PackageInit PROVE CellsInv
  <2>1. PackageInv
    BY <1>1, FirstList DEF PackageInv
  <2>2. WholeInv
    BY <1>1 DEF PackageInit, InitStreams, WholeInv, NoView
  <2>3. cells = <<>> /\ given = <<>> /\ saved.cells = <<>> /\ status = "ok"
    BY <1>1 DEF PackageInit, InitStreams
  <2>4. PICK none \in Seq(Nat) : none = <<>>
    BY EmptySeq
  <2>5. DOMAIN none = {}
    BY <2>4
  <2>6. CellInv
    BY <2>3, <2>4, <2>5 DEF CellInv, CellsRead
  <2> QED
    BY <2>1, <2>2, <2>3, <2>6 DEF CellsInv, StatusInv
<1>2. CellsInv /\ [PackageNext]_packageVars => CellsInv'
  BY PackageKept, WholeKept, CellsKept, StatusKept DEF CellsInv, PackageInv
<1> QED
  BY <1>1, <1>2, PTL DEF PackageSpec

(* What a cell that is not null reads is what was last given for it.       *)
THEOREM CellsReadBack == PackageSpec => []CellsRead
<1>1. CellsInv => CellsRead
  BY DEF CellsInv, CellInv
<1> QED
  BY <1>1, CellsKeep, PTL

(* What is in the lists, the views, the table and the objects.             *)
THEOREM PackageTyped == PackageSpec => []PackageTypeOK
<1>1. ASSUME CellsInv, StorageInv PROVE PackageTypeOK
  <2>1. ASSUME NEW i \in DOMAIN streams
        PROVE  IF streams[i].name = SummaryName
               THEN streams[i].data \in Contents
               ELSE streams[i].data \in Data /\ ~IsTableStream(streams[i].name)
    <3>1. streams[i] \in StreamEntries
      BY <1>1, ListFacts DEF CellsInv, PackageInv, ListInv
    <3> QED
      BY <3>1, OfEntry, NameFacts
  <2>2. ASSUME NEW v \in Views
        PROVE  views[v].count <= Len(views[v].rows) /\ Len(views[v].rows) <= MaxRows
    BY <1>1 DEF CellsInv, PackageInv, ViewInv, ViewStates
  <2>3. ASSUME NEW o \in Objects, objects[o] # Empty PROVE objects[o].left \in 0 .. MaxCount
    BY <1>1, <2>3, ObjectFields DEF CellsInv, PackageInv, ObjectInv
  <2>4. ASSUME NEW i \in DOMAIN storages PROVE storages[i].name \in StorageNames
    <3>1. storages[i] \in StorageEntries
      BY <1>1 DEF StorageInv, Lists
    <3> QED
      BY <3>1, StorageEntryFacts
  <2> QED
    BY <1>1, <2>1, <2>2, <2>3, <2>4 DEF PackageTypeOK, CellsInv, CellInv, StatusInv
<1> QED
  BY <1>1, CellsKeep, StoragesStay, PTL
=============================================================================
