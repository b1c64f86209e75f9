---------------------------- MODULE StreamNames ----------------------------
(***************************************************************************)
(* How streams are named in the file (table.c, encode_streamname and       *)
(* decode_streamname).  A name is a sequence of characters, by their code  *)
(* points.  Letters, digits, `.` and `_` are the 64 digits of a code in    *)
(* which two of them, or one, become one character from U+3800 on.         *)
(***************************************************************************)
EXTENDS Integers, Sequences

Doubles == 14336              \* U+3800, from which on a character is two digits
Singles == 18432              \* U+4800, and one
TableMark == 18496            \* U+4840, in front of the name of a table's stream
Dot == 46

Mime(ch) == IF ch \in 48 .. 57 THEN ch - 48
            ELSE IF ch \in 65 .. 90 THEN ch - 65 + 10
            ELSE IF ch \in 97 .. 122 THEN ch - 97 + 36
            ELSE IF ch = Dot THEN 62 ELSE IF ch = 95 THEN 63 ELSE -1

Unmime(m) == IF m < 10 THEN m + 48 ELSE IF m < 36 THEN m - 10 + 65
             ELSE IF m < 62 THEN m - 36 + 97 ELSE IF m = 62 THEN Dot ELSE 95

Coded(ch) == Doubles <= ch /\ ch < TableMark
Single(m) == Singles + m
Double(m, next) == Doubles + 64 * next + m

EncodeTurn(name, one, two, i) ==
  IF Mime(name[i]) = -1 THEN <<name[i]>> \o one
  ELSE IF i < Len(name) /\ Mime(name[i + 1]) # -1
       THEN <<Double(Mime(name[i]), Mime(name[i + 1]))>> \o two
  ELSE <<Single(Mime(name[i]))>> \o one

Encode(name) ==
  LET e[i \in 1 .. Len(name) + 2] ==
        IF i > Len(name) THEN <<>> ELSE EncodeTurn(name, e[i + 1], e[i + 2], i)
  IN e[1]

Decoded(ch) ==
  IF ~Coded(ch) THEN <<ch>>
  ELSE IF ch < Singles THEN <<Unmime((ch - Doubles) % 64), Unmime((ch - Doubles) \div 64)>>
  ELSE <<Unmime(ch - Singles)>>

Decode(name) ==
  LET d[i \in 1 .. Len(name) + 1] ==
        IF i > Len(name) THEN <<>> ELSE Decoded(name[i]) \o d[i + 1]
  IN d[1]

IsTableStream(name) == name # <<>> /\ name[1] = TableMark

(* A name with characters that are those of the code is not told from one  *)
(* that is encoded, nor one that begins with the mark from a table's.      *)
Plain == {ch \in Nat : ~Coded(ch)}
PlainNames == {name \in Seq(Plain) : ~IsTableStream(name)}
=============================================================================
