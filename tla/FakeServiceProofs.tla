-------------------------- MODULE FakeServiceProofs --------------------------
(***************************************************************************)
(* Proofs about FakeService and the conversion of lists it stands on, for    *)
(* any names, any finite set of ids, and lists and threads of any length.    *)
(*                                                                         *)
(* The conversions and the loop of read are recursive functions.  What they   *)
(* compute for every input is proved by induction; the induction theorems of  *)
(* the library are of no use here, but well-foundedness of the order of the   *)
(* natural numbers is.                                                      *)
(***************************************************************************)
EXTENDS FakeService, WellFoundedInduction, FiniteSetTheorems, TLAPS

-----------------------------------------------------------------------------
(* Induction and recursion over the natural numbers.                        *)

\* The natural numbers are well ordered, ...
LEMMA NatOrder == \E R : /\ IsWellFoundedOn(R, Nat)
                         /\ \A x, y \in Nat : y < x => <<y, x>> \in R
<1> DEFINE R == OpToRel(<, Nat)
<1>1. \A x, y \in Nat : y < x => <<y, x>> \in R
  BY DEF OpToRel
<1>2. IsWellFoundedOn(R, Nat)
  BY NatLessThanWellFounded
<1> HIDE DEF R
<1> QED
  BY <1>1, <1>2

\* ... so a set of them that is not empty has a least one.
LEMMA Least ==
  ASSUME NEW S, S \subseteq Nat, S # {}
  PROVE  \E x \in S : \A y \in S : x <= y
<1>1. PICK R : /\ IsWellFoundedOn(R, Nat)
               /\ \A x, y \in Nat : y < x => <<y, x>> \in R
  BY NatOrder
<1>2. PICK x \in S : \A y \in S : <<y, x>> \notin R
  BY <1>1, WFMin
<1>3. \A y \in S : ~(y < x)
  BY <1>1, <1>2
<1>4. \A y \in S : x <= y
  BY <1>3
<1> QED
  BY <1>4

\* Induction up to N.
LEMMA UpTo ==
  ASSUME NEW N \in Nat, NEW S, 0 \in S, \A n \in 1 .. N : n - 1 \in S => n \in S
  PROVE  \A n \in 0 .. N : n \in S
<1> DEFINE Bad == {n \in 0 .. N : n \notin S}
<1>1. CASE Bad # {}
  <2>1. PICK m \in Bad : \A n \in Bad : m <= n
    <3>1. Bad \subseteq Nat
      OBVIOUS
    <3> HIDE DEF Bad
    <3> QED
      BY <1>1, <3>1, Least
  <2>2. m \in 1 .. N /\ m - 1 \in 0 .. N /\ ~(m <= m - 1)
    BY <2>1
  <2>3. m - 1 \in S
    BY <2>1, <2>2
  <2> QED
    BY <2>1, <2>2, <2>3
<1> QED
  BY <1>1

\* f is defined by recursion up to N.
Recurs(f, N, V, base, step) ==
  /\ f \in [0 .. N -> V]
  /\ f[0] = base
  /\ \A n \in 1 .. N : f[n] = step[n][f[n - 1]]

\* There is such a function.
LEMMA Recursion ==
  ASSUME NEW N \in Nat, NEW V, NEW base \in V, NEW step \in [1 .. N -> [V -> V]]
  PROVE  \E f : Recurs(f, N, V, base, step)
<1> DEFINE Upto(k, f) == f[0] = base /\ \A n \in 1 .. k : f[n] = step[n][f[n - 1]]
           S == {k \in 0 .. N : \E f \in [0 .. k -> V] : Upto(k, f)}
<1>1. 0 \in S
  <2> DEFINE f == [n \in 0 .. 0 |-> base]
  <2>1. f \in [0 .. 0 -> V] /\ f[0] = base
    OBVIOUS
  <2>2. Upto(0, f)
    BY <2>1
  <2> HIDE DEF f
  <2> QED
    BY <2>1, <2>2
<1>2. ASSUME NEW k \in 1 .. N, k - 1 \in S PROVE k \in S
  <2>1. PICK f \in [0 .. (k - 1) -> V] : Upto(k - 1, f)
    BY <1>2
  <2> DEFINE g == [n \in 0 .. k |-> IF n = k THEN step[k][f[k - 1]] ELSE f[n]]
  <2>2. k - 1 \in 0 .. (k - 1) /\ f[k - 1] \in V /\ step[k][f[k - 1]] \in V
    <3>1. k - 1 \in 0 .. (k - 1)
      OBVIOUS
    <3>2. f[k - 1] \in V
      BY <3>1
    <3>3. step[k] \in [V -> V]
      OBVIOUS
    <3> QED
      BY <3>1, <3>2, <3>3
  <2>3. \A n \in 0 .. k : n = k \/ n \in 0 .. (k - 1)
    OBVIOUS
  <2>4. g \in [0 .. k -> V]
    BY <2>2, <2>3
  <2>5. g[0] = base
    BY <2>1
  <2>6. \A n \in 1 .. k : n - 1 \in 0 .. k /\ n - 1 # k /\ n \in 0 .. k
    OBVIOUS
  <2>7. \A n \in 1 .. k : n # k => n \in 1 .. (k - 1)
    OBVIOUS
  <2>8. \A n \in 1 .. k : g[n - 1] = f[n - 1]
    BY <2>6
  <2>9. \A n \in 1 .. k : g[n] = step[n][g[n - 1]]
    BY <2>1, <2>6, <2>7, <2>8
  <2> HIDE DEF g
  <2> QED
    BY <2>4, <2>5, <2>9
<1> HIDE DEF S
<1>3. \A n \in 1 .. N : n - 1 \in S => n \in S
  BY <1>2
<1>4. \A n \in 0 .. N : n \in S
  BY <1>1, <1>3, UpTo
<1>5. N \in S
  BY <1>4
<1> QED
  BY <1>5 DEF S, Recurs

-----------------------------------------------------------------------------
(* Lists and strings.                                                       *)

\* A list of strings with characters of Char: what its string is, element by element.
ParserRun(f, Char, list) ==
  /\ f \in [0 .. Len(list) -> Seq(Char)]
  /\ f[0] = <<>>
  /\ \A n \in 1 .. Len(list) : f[n] = f[n - 1] \o list[n] \o <<Newline>>
  /\ Parser(list) = f[Len(list)]

\* The loop of Parser, element by element.
LEMMA ParserLoop ==
  ASSUME NEW Char, Newline \in Char, NEW list \in Seq(Seq(Char))
  PROVE  \E f : ParserRun(f, Char, list)
<1> DEFINE N == Len(list)
           Loop(f) == f = [n \in 0 .. N |->
                             IF n = 0 THEN <<>> ELSE f[n - 1] \o list[n] \o <<Newline>>]
<1>1. N \in Nat /\ \A n \in 1 .. N : list[n] \in Seq(Char)
  OBVIOUS
<1>2. \E f \in [0 .. N -> Seq(Char)] :
        f[0] = <<>> /\ \A n \in 1 .. N : f[n] = f[n - 1] \o list[n] \o <<Newline>>
  <2> DEFINE step == [n \in 1 .. N |-> [s \in Seq(Char) |-> s \o list[n] \o <<Newline>>]]
  <2>1. \A n \in 1 .. N : \A s \in Seq(Char) : s \o list[n] \o <<Newline>> \in Seq(Char)
    BY <1>1
  <2>2. step \in [1 .. N -> [Seq(Char) -> Seq(Char)]]
    BY <2>1
  <2>3. \A n \in 1 .. N : \A s \in Seq(Char) : step[n][s] = s \o list[n] \o <<Newline>>
    OBVIOUS
  <2>4. <<>> \in Seq(Char)
    OBVIOUS
  <2> HIDE DEF step, N
  <2>5. PICK f : Recurs(f, N, Seq(Char), <<>>, step)
    BY <1>1, <2>2, <2>4, Recursion
  <2>6. \A n \in 1 .. N : n - 1 \in 0 .. N
    BY <1>1
  <2>7. \A n \in 1 .. N : f[n - 1] \in Seq(Char)
    BY <2>5, <2>6 DEF Recurs
  <2>8. \A n \in 1 .. N : f[n] = f[n - 1] \o list[n] \o <<Newline>>
    BY <2>3, <2>5, <2>7 DEF Recurs
  <2> QED
    BY <2>5, <2>8 DEF Recurs
<1> HIDE DEF N
<1>3. PICK f \in [0 .. N -> Seq(Char)] :
        f[0] = <<>> /\ \A n \in 1 .. N : f[n] = f[n - 1] \o list[n] \o <<Newline>>
  BY <1>2
<1>4. Loop(f)
  <2>1. DOMAIN f = 0 .. N
    OBVIOUS
  <2>2. \A n \in 0 .. N : n = 0 \/ n \in 1 .. N
    BY <1>1
  <2>3. \A n \in 0 .. N : f[n] = IF n = 0 THEN <<>> ELSE f[n - 1] \o list[n] \o <<Newline>>
    BY <1>3, <2>2
  <2> QED
    BY <2>1, <2>3
<1>5. PICK g : Loop(g) /\ Parser(list) = g[N]
  <2>1. Parser(list) = (CHOOSE g : Loop(g))[N]
    BY DEF Parser, N
  <2> DEFINE g == CHOOSE x : Loop(x)
  <2>2. Loop(g)
    BY <1>4
  <2> QED
    BY <2>1, <2>2
<1>6. /\ g[0] = <<>>
      /\ \A n \in 1 .. N : g[n] = g[n - 1] \o list[n] \o <<Newline>>
  <2>1. \A n \in 0 .. N : g[n] = IF n = 0 THEN <<>> ELSE g[n - 1] \o list[n] \o <<Newline>>
    BY <1>5
  <2>2. 0 \in 0 .. N /\ \A n \in 1 .. N : n \in 0 .. N /\ n # 0
    BY <1>1
  <2> QED
    BY <2>1, <2>2
<1>7. \A n \in 0 .. N : g[n] \in Seq(Char)
  <2> DEFINE S == {n \in 0 .. N : g[n] \in Seq(Char)}
  <2>1. 0 \in S
    <3>1. <<>> \in Seq(Char) /\ 0 \in 0 .. N
      BY <1>1
    <3> QED
      BY <1>6, <3>1
  <2>2. ASSUME NEW n \in 1 .. N, n - 1 \in S PROVE n \in S
    <3>1. list[n] \in Seq(Char) /\ <<Newline>> \in Seq(Char) /\ g[n - 1] \in Seq(Char)
      BY <1>1, <2>2
    <3>2. g[n - 1] \o list[n] \o <<Newline>> \in Seq(Char)
      BY <3>1
    <3>3. n \in 0 .. N /\ g[n] = g[n - 1] \o list[n] \o <<Newline>>
      <4> HIDE DEF S
      <4>1. n \in 0 .. N
        BY <1>1
      <4>2. g[n] = g[n - 1] \o list[n] \o <<Newline>>
        BY <1>6
      <4> QED
        BY <4>1, <4>2
    <3> QED
      BY <3>2, <3>3
  <2> HIDE DEF S
  <2>3. \A n \in 0 .. N : n \in S
    BY <1>1, <2>1, <2>2, UpTo
  <2> QED
    BY <2>3 DEF S
<1>8. g \in [0 .. N -> Seq(Char)]
  <2>1. g = [n \in 0 .. N |-> g[n]]
    BY <1>5
  <2> QED
    BY <1>7, <2>1
<1> QED
  BY <1>5, <1>6, <1>8 DEF N, ParserRun

\* The lines of a string, character by character.
Got(Char) == [vec : Seq(Seq(Char)), token : Seq(Char)]

\* A character read leaves lines and a token.
LEMMA GetlineType ==
  ASSUME NEW Char, NEW got \in Got(Char), NEW char \in Char
  PROVE  Getline(got, char) \in Got(Char)
BY DEF Got, Getline

GetlinesRun(f, Char, string) ==
  /\ f \in [0 .. Len(string) -> Got(Char)]
  /\ f[0] = [vec |-> <<>>, token |-> <<>>]
  /\ \A n \in 1 .. Len(string) : f[n] = Getline(f[n - 1], string[n])
  /\ Getlines(string) = f[Len(string)]

\* The loop of std::getline, character by character.
LEMMA GetlinesLoop ==
  ASSUME NEW Char, NEW string \in Seq(Char)
  PROVE  \E f : GetlinesRun(f, Char, string)
<1> DEFINE N == Len(string)
           V == Got(Char)
           none == [vec |-> <<>>, token |-> <<>>]
           Loop(f) == f = [n \in 0 .. N |->
                             IF n = 0 THEN none ELSE Getline(f[n - 1], string[n])]
<1>1. N \in Nat /\ (\A n \in 1 .. N : string[n] \in Char) /\ none \in V
  BY DEF Got
<1>2. \A n \in 1 .. N : \A got \in V : Getline(got, string[n]) \in V
  BY <1>1, GetlineType
<1>3. Getlines(string) = (CHOOSE f : Loop(f))[N]
  BY DEF Getlines
<1> HIDE DEF N, V, none
<1>4. PICK f : /\ f \in [0 .. N -> V] /\ f[0] = none
               /\ \A n \in 1 .. N : f[n] = Getline(f[n - 1], string[n])
  <2> DEFINE step == [n \in 1 .. N |-> [got \in V |-> Getline(got, string[n])]]
  <2>1. step \in [1 .. N -> [V -> V]]
    BY <1>2
  <2>2. \A n \in 1 .. N : \A got \in V : step[n][got] = Getline(got, string[n])
    OBVIOUS
  <2> HIDE DEF step
  <2>3. PICK f : Recurs(f, N, V, none, step)
    BY <1>1, <2>1, Recursion
  <2>4. \A n \in 1 .. N : n - 1 \in 0 .. N
    BY <1>1
  <2>5. \A n \in 1 .. N : f[n - 1] \in V
    BY <2>3, <2>4 DEF Recurs
  <2>6. \A n \in 1 .. N : f[n] = Getline(f[n - 1], string[n])
    BY <2>2, <2>3, <2>5 DEF Recurs
  <2> QED
    BY <2>3, <2>6 DEF Recurs
<1>5. Loop(f)
  <2>1. f = [n \in 0 .. N |-> f[n]]
    BY <1>4
  <2>2. \A n \in 0 .. N : n = 0 \/ n \in 1 .. N
    BY <1>1
  <2>3. \A n \in 0 .. N : f[n] = IF n = 0 THEN none ELSE Getline(f[n - 1], string[n])
    BY <1>4, <2>2
  <2> QED
    BY <2>1, <2>3
<1>6. PICK g : Loop(g) /\ Getlines(string) = g[N]
  <2> DEFINE g == CHOOSE x : Loop(x)
  <2>1. Loop(g)
    BY <1>5
  <2> QED
    BY <1>3, <2>1
<1>7. /\ g[0] = none
      /\ \A n \in 1 .. N : g[n] = Getline(g[n - 1], string[n])
  <2>1. \A n \in 0 .. N : g[n] = IF n = 0 THEN none ELSE Getline(g[n - 1], string[n])
    BY <1>6
  <2>2. 0 \in 0 .. N /\ \A n \in 1 .. N : n \in 0 .. N /\ n # 0
    BY <1>1
  <2> QED
    BY <2>1, <2>2
<1>8. \A n \in 0 .. N : g[n] \in V
  <2> DEFINE S == {n \in 0 .. N : g[n] \in V}
  <2>1. 0 \in S
    BY <1>1, <1>7
  <2>2. ASSUME NEW n \in 1 .. N, n - 1 \in S PROVE n \in S
    <3>1. n \in 0 .. N /\ g[n - 1] \in V
      BY <1>1, <2>2
    <3>2. g[n] = Getline(g[n - 1], string[n])
      BY <1>7
    <3> QED
      BY <1>2, <3>1, <3>2
  <2> HIDE DEF S
  <2>3. \A n \in 0 .. N : n \in S
    BY <1>1, <2>1, <2>2, UpTo
  <2> QED
    BY <2>3 DEF S
<1>9. g \in [0 .. N -> V]
  <2>1. g = [n \in 0 .. N |-> g[n]]
    BY <1>6
  <2> QED
    BY <1>8, <2>1
<1> QED
  BY <1>6, <1>7, <1>9 DEF N, V, none, GetlinesRun

\* What holds of the empty sequence, and of every sequence if it holds of the one
\* before, holds of all.
LEMMA EachSequence ==
  ASSUME NEW C, NEW S, <<>> \in S, \A s \in Seq(C), c \in C : s \in S => Append(s, c) \in S
  PROVE  \A s \in Seq(C) : s \in S
<1> TAKE s \in Seq(C)
<1> DEFINE T == {n \in 0 .. Len(s) : SubSeq(s, 1, n) \in S}
<1>1. Len(s) \in Nat /\ SubSeq(s, 1, 0) = <<>> /\ SubSeq(s, 1, Len(s)) = s
  OBVIOUS
<1>2. 0 \in T
  <2> HIDE DEF T
  <2>1. 0 \in 0 .. Len(s)
    BY <1>1
  <2>2. SubSeq(s, 1, 0) \in S
    BY <1>1, Zenon
  <2> QED
    BY <2>1, <2>2 DEF T
<1>3. ASSUME NEW n \in 1 .. Len(s), n - 1 \in T PROVE n \in T
  <2>1. /\ SubSeq(s, 1, n - 1) \in Seq(C) /\ s[n] \in C
        /\ SubSeq(s, 1, n) = Append(SubSeq(s, 1, n - 1), s[n])
    OBVIOUS
  <2>2. SubSeq(s, 1, n) \in S
    BY <1>3, <2>1
  <2> QED
    BY <1>1, <2>2
<1> HIDE DEF T
<1>4. \A n \in 0 .. Len(s) : n \in T
  BY <1>1, <1>2, <1>3, UpTo
<1>5. Len(s) \in T
  BY <1>1, <1>4
<1> QED
  BY <1>1, <1>5 DEF T

\* What Parser makes of a list with one string more (utils/parser.h:12-15).
LEMMA ParserSteps ==
  ASSUME NEW Char, Newline \in Char
  PROVE  /\ Parser(<<>>) = <<>>
         /\ \A list \in Seq(Seq(Char)) :
              /\ Parser(list) \in Seq(Char)
              /\ \A vec \in Seq(Char) :
                   Parser(Append(list, vec)) = Parser(list) \o vec \o <<Newline>>
<1>1. Parser(<<>>) = <<>>
  <2>1. <<>> \in Seq(Seq(Char)) /\ Len(<<>>) = 0
    OBVIOUS
  <2>2. PICK f : ParserRun(f, Char, <<>>)
    BY <2>1, ParserLoop
  <2> QED
    BY <2>1, <2>2 DEF ParserRun
<1>2. ASSUME NEW list \in Seq(Seq(Char))
      PROVE  Parser(list) \in Seq(Char)
  <2>1. Len(list) \in 0 .. Len(list)
    OBVIOUS
  <2>2. PICK f : ParserRun(f, Char, list)
    BY ParserLoop
  <2> QED
    BY <2>1, <2>2 DEF ParserRun
<1>3. ASSUME NEW list \in Seq(Seq(Char)), NEW vec \in Seq(Char)
      PROVE  Parser(Append(list, vec)) = Parser(list) \o vec \o <<Newline>>
  <2> DEFINE N == Len(list)
             more == Append(list, vec)
  <2>1. /\ N \in Nat /\ more \in Seq(Seq(Char)) /\ Len(more) = N + 1
        /\ \A n \in 1 .. N : more[n] = list[n]
        /\ more[N + 1] = vec
    OBVIOUS
  <2> HIDE DEF more
  <2>2. PICK f : ParserRun(f, Char, list)
    BY ParserLoop
  <2>3. PICK g : ParserRun(g, Char, more)
    BY <2>1, ParserLoop
  <2>4. /\ f[0] = <<>> /\ g[0] = <<>>
        /\ Parser(list) = f[N] /\ Parser(more) = g[N + 1]
        /\ \A n \in 1 .. N : f[n] = f[n - 1] \o list[n] \o <<Newline>>
        /\ \A n \in 1 .. (N + 1) : g[n] = g[n - 1] \o more[n] \o <<Newline>>
    BY <2>1, <2>2, <2>3 DEF ParserRun
  <2> HIDE DEF N
  <2>5. \A n \in 0 .. N : f[n] = g[n]
    <3> DEFINE S == {n \in 0 .. N : f[n] = g[n]}
    <3>1. 0 \in S
      BY <2>1, <2>4
    <3>2. ASSUME NEW n \in 1 .. N, n - 1 \in S PROVE n \in S
      <4>1. n \in 0 .. N /\ n \in 1 .. (N + 1) /\ f[n - 1] = g[n - 1] /\ list[n] = more[n]
        <5>1. n \in 0 .. N /\ n \in 1 .. (N + 1)
          BY <2>1
        <5> QED
          BY <2>1, <3>2, <5>1
      <4>2. f[n] = f[n - 1] \o list[n] \o <<Newline>>
        BY <2>4
      <4>3. g[n] = g[n - 1] \o more[n] \o <<Newline>>
        BY <2>4, <4>1
      <4> QED
        BY <4>1, <4>2, <4>3
    <3> HIDE DEF S
    <3>3. \A n \in 0 .. N : n \in S
      BY <2>1, <3>1, <3>2, UpTo
    <3> QED
      BY <3>3 DEF S
  <2>6. N + 1 \in 1 .. (N + 1) /\ (N + 1) - 1 = N /\ N \in 0 .. N
    BY <2>1
  <2>7. g[N + 1] = g[N] \o more[N + 1] \o <<Newline>>
    BY <2>4, <2>6
  <2> QED
    BY <2>1, <2>4, <2>5, <2>6, <2>7 DEF more
<1> QED
  BY <1>1, <1>2, <1>3

\* What std::getline makes of a string with one character more.
LEMMA GetlinesSteps ==
  ASSUME NEW Char
  PROVE  /\ Getlines(<<>>) = [vec |-> <<>>, token |-> <<>>]
         /\ \A string \in Seq(Char) :
              /\ Getlines(string) \in Got(Char)
              /\ \A char \in Char :
                   Getlines(Append(string, char)) = Getline(Getlines(string), char)
<1>1. Getlines(<<>>) = [vec |-> <<>>, token |-> <<>>]
  <2>1. <<>> \in Seq(Char) /\ Len(<<>>) = 0
    OBVIOUS
  <2>2. PICK f : GetlinesRun(f, Char, <<>>)
    BY <2>1, GetlinesLoop
  <2> QED
    BY <2>1, <2>2 DEF GetlinesRun
<1>2. ASSUME NEW string \in Seq(Char)
      PROVE  Getlines(string) \in Got(Char)
  <2>1. Len(string) \in 0 .. Len(string)
    OBVIOUS
  <2>2. PICK f : GetlinesRun(f, Char, string)
    BY GetlinesLoop
  <2> QED
    BY <2>1, <2>2 DEF GetlinesRun
<1>3. ASSUME NEW string \in Seq(Char), NEW char \in Char
      PROVE  Getlines(Append(string, char)) = Getline(Getlines(string), char)
  <2> DEFINE N == Len(string)
             more == Append(string, char)
  <2>1. /\ N \in Nat /\ more \in Seq(Char) /\ Len(more) = N + 1
        /\ \A n \in 1 .. N : more[n] = string[n]
        /\ more[N + 1] = char
    OBVIOUS
  <2> HIDE DEF more
  <2>2. PICK f : GetlinesRun(f, Char, string)
    BY GetlinesLoop
  <2>3. PICK g : GetlinesRun(g, Char, more)
    BY <2>1, GetlinesLoop
  <2>4. /\ f[0] = [vec |-> <<>>, token |-> <<>>] /\ g[0] = f[0]
        /\ Getlines(string) = f[N] /\ Getlines(more) = g[N + 1]
        /\ \A n \in 1 .. N : f[n] = Getline(f[n - 1], string[n])
        /\ \A n \in 1 .. (N + 1) : g[n] = Getline(g[n - 1], more[n])
    BY <2>1, <2>2, <2>3 DEF GetlinesRun
  <2> HIDE DEF N
  <2>5. \A n \in 0 .. N : f[n] = g[n]
    <3> DEFINE S == {n \in 0 .. N : f[n] = g[n]}
    <3>1. 0 \in S
      BY <2>1, <2>4
    <3>2. ASSUME NEW n \in 1 .. N, n - 1 \in S PROVE n \in S
      <4>1. n \in 0 .. N /\ n \in 1 .. (N + 1) /\ f[n - 1] = g[n - 1] /\ string[n] = more[n]
        BY <2>1, <3>2
      <4>2. f[n] = Getline(f[n - 1], string[n])
        BY <2>4
      <4>3. g[n] = Getline(g[n - 1], more[n])
        BY <2>4, <4>1
      <4> QED
        BY <4>1, <4>2, <4>3
    <3> HIDE DEF S
    <3>3. \A n \in 0 .. N : n \in S
      BY <2>1, <3>1, <3>2, UpTo
    <3> QED
      BY <3>3 DEF S
  <2>6. N + 1 \in 1 .. (N + 1) /\ (N + 1) - 1 = N /\ N \in 0 .. N
    BY <2>1
  <2>7. g[N + 1] = Getline(g[N], more[N + 1])
    BY <2>4, <2>6
  <2> QED
    BY <2>1, <2>4, <2>5, <2>6, <2>7 DEF more
<1> QED
  BY <1>1, <1>2, <1>3

Empty == [vec |-> <<>>, token |-> <<>>]

\* Appending and joining sequences commute.
LEMMA AppendConcat ==
  ASSUME NEW S, NEW v \in Seq(S), NEW w \in Seq(S), NEW t \in S
  PROVE  /\ v \o Append(w, t) = Append(v \o w, t)
         /\ v \o w \o <<t>> = v \o Append(w, t)
         /\ Append(w, t) \in Seq(S)
<1>1. v \o Append(w, t) = Append(v \o w, t) /\ Append(w, t) \in Seq(S) /\ v \o w \in Seq(S)
  OBVIOUS
<1>2. \A u \in Seq(S) : u \o <<t>> = Append(u, t)
  OBVIOUS
<1> QED
  BY <1>1, <1>2

\* got, after the lines of v.
After(v, got) == [vec |-> v \o got.vec, token |-> got.token]

\* Reading goes on in the same way whatever lines were read before.
LEMMA AfterSteps ==
  ASSUME NEW Char, NEW v \in Seq(Seq(Char))
  PROVE  /\ After(v, Empty) = [vec |-> v, token |-> <<>>]
         /\ \A got \in Got(Char), char \in Char :
              Getline(After(v, got), char) = After(v, Getline(got, char))
<1>1. After(v, Empty) = [vec |-> v, token |-> <<>>]
  <2>1. v \o <<>> = v
    OBVIOUS
  <2> QED
    BY <2>1 DEF After, Empty
<1>2. ASSUME NEW w \in Seq(Seq(Char)), NEW t \in Seq(Char), NEW char \in Char
      PROVE  Getline(After(v, [vec |-> w, token |-> t]), char)
               = After(v, Getline([vec |-> w, token |-> t], char))
  <2>1. v \o Append(w, t) = Append(v \o w, t)
    BY AppendConcat
  <2>2. CASE char = Newline
    BY <2>1, <2>2 DEF Getline, After
  <2>3. CASE char # Newline
    BY <2>3 DEF Getline, After
  <2> QED
    BY <2>2, <2>3
<1>3. \A got \in Got(Char) : /\ got = [vec |-> got.vec, token |-> got.token]
                             /\ got.vec \in Seq(Seq(Char)) /\ got.token \in Seq(Char)
  BY DEF Got
<1>4. ASSUME NEW got \in Got(Char), NEW char \in Char
      PROVE  Getline(After(v, got), char) = After(v, Getline(got, char))
  <2>1. PICK w \in Seq(Seq(Char)), t \in Seq(Char) : got = [vec |-> w, token |-> t]
    BY <1>3
  <2> QED
    BY <1>2, <2>1
<1> QED
  BY <1>1, <1>4

\* What follows a newline is read as if nothing came before it.
LEMMA ReadOn ==
  ASSUME NEW Char, NEW s \in Seq(Char), NEW v, Getlines(s) = [vec |-> v, token |-> <<>>],
         NEW e \in Seq(Char)
  PROVE  Getlines(s \o e) = After(v, Getlines(e))
<1> DEFINE S == {x \in Seq(Char) : Getlines(s \o x) = After(v, Getlines(x))}
<1>1. Getlines(<<>>) = Empty /\ v \in Seq(Seq(Char))
  BY GetlinesSteps DEF Empty, Got
<1>2. <<>> \in S
  <2>1. s \o <<>> = s /\ <<>> \in Seq(Char)
    OBVIOUS
  <2>2. After(v, Getlines(<<>>)) = [vec |-> v, token |-> <<>>]
    BY <1>1, AfterSteps
  <2>3. Getlines(s \o <<>>) = After(v, Getlines(<<>>))
    BY <2>1, <2>2, Zenon
  <2> QED
    BY <2>1, <2>3
<1>3. ASSUME NEW x \in Seq(Char), NEW c \in Char, x \in S PROVE Append(x, c) \in S
  <2>1. /\ s \o Append(x, c) = Append(s \o x, c)
        /\ s \o x \in Seq(Char) /\ Append(x, c) \in Seq(Char)
    OBVIOUS
  <2>2. Getlines(Append(s \o x, c)) = Getline(After(v, Getlines(x)), c)
    BY <1>3, <2>1, GetlinesSteps
  <2>3. Getlines(x) \in Got(Char) /\ Getlines(Append(x, c)) = Getline(Getlines(x), c)
    BY GetlinesSteps
  <2>4. Getline(After(v, Getlines(x)), c) = After(v, Getline(Getlines(x), c))
    BY <1>1, <2>3, AfterSteps
  <2>5. Getlines(s \o Append(x, c)) = After(v, Getlines(Append(x, c)))
    BY <2>1, <2>2, <2>3, <2>4, Zenon
  <2> QED
    BY <2>1, <2>5
<1> HIDE DEF S
<1>4. \A x \in Seq(Char) : x \in S
  BY <1>2, <1>3, EachSequence
<1> QED
  BY <1>4 DEF S

\* A string without a newline is one token.
LEMMA ReadPlain ==
  ASSUME NEW Char, NEW e \in Seq(Char), Plain(e)
  PROVE  Getlines(e) = [vec |-> <<>>, token |-> e]
<1> DEFINE S == {x \in Seq(Char) : Plain(x) => Getlines(x) = [vec |-> <<>>, token |-> x]}
<1>1. <<>> \in S
  <2>1. <<>> \in Seq(Char)
    OBVIOUS
  <2> QED
    BY <2>1, GetlinesSteps
<1>2. ASSUME NEW x \in Seq(Char), NEW c \in Char, x \in S PROVE Append(x, c) \in S
  <2>1. Append(x, c) \in Seq(Char)
    OBVIOUS
  <2>2. ASSUME Plain(Append(x, c)) PROVE Plain(x) /\ c # Newline
    <3>1. /\ DOMAIN Append(x, c) = 1 .. (Len(x) + 1) /\ DOMAIN x = 1 .. Len(x)
          /\ Len(x) \in Nat /\ Append(x, c)[Len(x) + 1] = c
          /\ \A n \in 1 .. Len(x) : Append(x, c)[n] = x[n]
      OBVIOUS
    <3>2. \A n \in 1 .. Len(x) : n \in 1 .. (Len(x) + 1)
      BY <3>1
    <3>3. Len(x) + 1 \in 1 .. (Len(x) + 1)
      BY <3>1
    <3> QED
      BY <2>2, <3>1, <3>2, <3>3 DEF Plain, Range
  <2>3. ASSUME Plain(Append(x, c))
        PROVE  Getlines(Append(x, c)) = [vec |-> <<>>, token |-> Append(x, c)]
    <3>1. Getlines(x) = [vec |-> <<>>, token |-> x]
      BY <1>2, <2>2, <2>3
    <3>2. Getlines(Append(x, c)) = Getline(Getlines(x), c)
      BY GetlinesSteps
    <3> QED
      BY <2>2, <2>3, <3>1, <3>2 DEF Getline
  <2> QED
    BY <2>1, <2>3
<1> HIDE DEF S
<1>3. \A x \in Seq(Char) : x \in S
  BY <1>1, <1>2, EachSequence
<1> QED
  BY <1>3 DEF S

\* What std::getline delivers has no newline in it.
LEMMA LinesArePlain ==
  ASSUME NEW Char, NEW string \in Seq(Char)
  PROVE  /\ \A n \in DOMAIN Getlines(string).vec : Plain(Getlines(string).vec[n])
         /\ Plain(Getlines(string).token)
<1> DEFINE P(x) == /\ \A n \in DOMAIN Getlines(x).vec : Plain(Getlines(x).vec[n])
                   /\ Plain(Getlines(x).token)
           S == {x \in Seq(Char) : P(x)}
<1>1. <<>> \in S
  <2>1. <<>> \in Seq(Char) /\ Getlines(<<>>) = Empty
    BY GetlinesSteps DEF Empty
  <2>2. P(<<>>)
    BY <2>1 DEF Empty, Plain, Range
  <2> QED
    BY <2>1, <2>2
<1>2. ASSUME NEW x \in Seq(Char), NEW c \in Char, x \in S PROVE Append(x, c) \in S
  <2> DEFINE vec == Getlines(x).vec
             token == Getlines(x).token
             got == Getlines(Append(x, c))
  <2>1. Append(x, c) \in Seq(Char)
    OBVIOUS
  <2>2. got = Getline(Getlines(x), c) /\ Getlines(x) \in Got(Char)
    BY GetlinesSteps
  <2>3. vec \in Seq(Seq(Char)) /\ token \in Seq(Char)
    BY <2>2 DEF Got
  <2>4. (\A n \in DOMAIN vec : Plain(vec[n])) /\ Plain(token)
    BY <1>2
  <2> HIDE DEF vec, token, got
  <2>5. CASE c = Newline
    <3>1. got = [vec |-> Append(vec, token), token |-> <<>>]
      BY <2>2, <2>5 DEF Getline, vec, token
    <3>2. /\ DOMAIN Append(vec, token) = 1 .. (Len(vec) + 1) /\ DOMAIN vec = 1 .. Len(vec)
          /\ Len(vec) \in Nat /\ Append(vec, token)[Len(vec) + 1] = token
          /\ \A n \in 1 .. Len(vec) : Append(vec, token)[n] = vec[n]
      BY <2>3
    <3>3. \A n \in 1 .. (Len(vec) + 1) : n = Len(vec) + 1 \/ n \in 1 .. Len(vec)
      BY <3>2
    <3>4. \A n \in DOMAIN Append(vec, token) : Plain(Append(vec, token)[n])
      BY <2>4, <3>2, <3>3
    <3>5. Plain(<<>>)
      BY DEF Plain, Range
    <3>6. P(Append(x, c))
      BY <3>1, <3>4, <3>5 DEF got
    <3> QED
      BY <2>1, <3>6
  <2>6. CASE c # Newline
    <3>1. got = [vec |-> vec, token |-> Append(token, c)]
      BY <2>2, <2>6 DEF Getline, vec, token
    <3>2. /\ DOMAIN Append(token, c) = 1 .. (Len(token) + 1) /\ DOMAIN token = 1 .. Len(token)
          /\ Len(token) \in Nat /\ Append(token, c)[Len(token) + 1] = c
          /\ \A n \in 1 .. Len(token) : Append(token, c)[n] = token[n]
      BY <2>3
    <3>3. \A n \in 1 .. (Len(token) + 1) : n = Len(token) + 1 \/ n \in 1 .. Len(token)
      BY <3>2
    <3>4. Plain(Append(token, c))
      BY <2>4, <2>6, <3>2, <3>3 DEF Plain, Range
    <3>5. P(Append(x, c))
      BY <2>4, <3>1, <3>4 DEF got
    <3> QED
      BY <2>1, <3>5
  <2> QED
    BY <2>5, <2>6
<1> HIDE DEF S
<1>3. \A x \in Seq(Char) : x \in S
  BY <1>1, <1>2, EachSequence
<1> QED
  BY <1>3 DEF S

\* A plain list comes back as it was; ...
LEMMA PlainListRead ==
  ASSUME NEW Char, Newline \in Char, NEW list \in Seq(Seq(Char)),
         \A n \in DOMAIN list : Plain(list[n])
  PROVE  Getlines(Parser(list)) = [vec |-> list, token |-> <<>>]
<1> DEFINE P(x) == \A n \in DOMAIN x : Plain(x[n])
           S == {x \in Seq(Seq(Char)) :
                   P(x) => Getlines(Parser(x)) = [vec |-> x, token |-> <<>>]}
<1>1. <<>> \in S
  <2>1. <<>> \in Seq(Seq(Char))
    OBVIOUS
  <2>2. Getlines(Parser(<<>>)) = [vec |-> <<>>, token |-> <<>>]
    BY ParserSteps, GetlinesSteps
  <2> QED
    BY <2>1, <2>2
<1>2. ASSUME NEW x \in Seq(Seq(Char)), NEW e \in Seq(Char), x \in S PROVE Append(x, e) \in S
  <2>1. Append(x, e) \in Seq(Seq(Char))
    OBVIOUS
  <2>2. ASSUME P(Append(x, e)) PROVE P(x) /\ Plain(e)
    <3>1. /\ DOMAIN Append(x, e) = 1 .. (Len(x) + 1) /\ DOMAIN x = 1 .. Len(x)
          /\ Len(x) \in Nat /\ Append(x, e)[Len(x) + 1] = e
          /\ \A n \in 1 .. Len(x) : Append(x, e)[n] = x[n]
      OBVIOUS
    <3>2. \A n \in 1 .. Len(x) : n \in 1 .. (Len(x) + 1)
      BY <3>1
    <3>3. Len(x) + 1 \in 1 .. (Len(x) + 1)
      BY <3>1
    <3> QED
      BY <2>2, <3>1, <3>2, <3>3
  <2>3. ASSUME P(Append(x, e))
        PROVE  Getlines(Parser(Append(x, e))) = [vec |-> Append(x, e), token |-> <<>>]
    <3>1. Getlines(Parser(x)) = [vec |-> x, token |-> <<>>] /\ Plain(e)
      BY <1>2, <2>2, <2>3
    <3>2. Parser(Append(x, e)) = Parser(x) \o e \o <<Newline>> /\ Parser(x) \in Seq(Char)
      BY ParserSteps
    <3>3. Parser(Append(x, e)) = Parser(x) \o Append(e, Newline) /\ Append(e, Newline) \in Seq(Char)
      BY <3>2, AppendConcat
    <3>4. Getlines(Append(e, Newline)) = [vec |-> <<e>>, token |-> <<>>]
      <4>1. Getlines(e) = [vec |-> <<>>, token |-> e]
        BY <3>1, ReadPlain
      <4>2. Getlines(Append(e, Newline)) = Getline(Getlines(e), Newline)
        BY GetlinesSteps
      <4>3. Append(<<>>, e) = <<e>>
        OBVIOUS
      <4> QED
        BY <4>1, <4>2, <4>3 DEF Getline
    <3>5. Getlines(Parser(x) \o Append(e, Newline)) = After(x, Getlines(Append(e, Newline)))
      BY <3>1, <3>2, <3>3, ReadOn
    <3>6. x \o <<e>> = Append(x, e)
      OBVIOUS
    <3>7. After(x, Getlines(Append(e, Newline))) = [vec |-> x \o <<e>>, token |-> <<>>]
      BY <3>4 DEF After
    <3> QED
      BY <3>3, <3>5, <3>6, <3>7, Zenon
  <2> QED
    BY <2>1, <2>3
<1> HIDE DEF S
<1>3. \A x \in Seq(Seq(Char)) : x \in S
  BY <1>1, <1>2, EachSequence
<1> QED
  BY <1>3 DEF S

\* ... and so its string is taken apart into the list it was made of.
LEMMA PlainList ==
  ASSUME NEW Char, Newline \in Char, NEW list \in Seq(Seq(Char)),
         \A n \in DOMAIN list : Plain(list[n])
  PROVE  Deparser(Parser(list)) = list
BY PlainListRead DEF Deparser

\* ... and what is appended to it as the lines it has.
LEMMA AppendedLines ==
  ASSUME NEW Char, Newline \in Char, NEW list \in Seq(Seq(Char)), NEW e \in Seq(Char),
         \A n \in DOMAIN list : Plain(list[n])
  PROVE  Deparser(Parser(Append(list, e))) = list \o Deparser(Parser(<<e>>))
<1>1. Getlines(Parser(list)) = [vec |-> list, token |-> <<>>] /\ Parser(list) \in Seq(Char)
  BY PlainListRead, ParserSteps
<1>2. Parser(Append(list, e)) = Parser(list) \o Append(e, Newline) /\ Append(e, Newline) \in Seq(Char)
  <2>1. Parser(Append(list, e)) = Parser(list) \o e \o <<Newline>>
    BY ParserSteps
  <2>2. /\ Parser(list) \o e \o <<Newline>> = Parser(list) \o Append(e, Newline)
        /\ Append(e, Newline) \in Seq(Char)
    <3>1. PICK p \in Seq(Char) : p = Parser(list)
      BY <1>1
    <3>2. p \o e \o <<Newline>> = p \o Append(e, Newline)
      <4>1. e \o <<Newline>> = Append(e, Newline)
        OBVIOUS
      <4>2. p \o e \o <<Newline>> = p \o (e \o <<Newline>>)
        OBVIOUS
      <4> QED
        BY <4>1, <4>2
    <3>3. Append(e, Newline) \in Seq(Char)
      BY AppendConcat
    <3> QED
      BY <3>1, <3>2, <3>3
  <2> QED
    BY <2>1, <2>2
<1>3. Parser(<<e>>) = Append(e, Newline)
  <2>1. <<>> \in Seq(Seq(Char)) /\ Append(<<>>, e) = <<e>>
    OBVIOUS
  <2>2. Parser(Append(<<>>, e)) = Parser(<<>>) \o e \o <<Newline>> /\ Parser(<<>>) = <<>>
    BY <2>1, ParserSteps
  <2>3. <<>> \o e \o <<Newline>> = Append(e, Newline)
    OBVIOUS
  <2> QED
    BY <2>1, <2>2, <2>3, Zenon
<1>4. PICK lines : Getlines(Append(e, Newline)) = [vec |-> lines, token |-> <<>>]
  <2>1. Getlines(Append(e, Newline)) = Getline(Getlines(e), Newline)
    BY GetlinesSteps
  <2> QED
    BY <2>1 DEF Getline
<1>5. Getlines(Parser(Append(list, e))) = [vec |-> list \o lines, token |-> <<>>]
  <2>1. Getlines(Parser(list) \o Append(e, Newline)) = After(list, Getlines(Append(e, Newline)))
    BY <1>1, <1>2, ReadOn
  <2> QED
    BY <1>2, <1>4, <2>1 DEF After
<1>6. Deparser(Parser(Append(list, e))) = list \o lines
  BY <1>5 DEF Deparser
<1>7. Deparser(Append(e, Newline)) = lines
  BY <1>4 DEF Deparser
<1> QED
  BY <1>3, <1>6, <1>7, Zenon

\* Whatever the string is, a list of plain strings is made of it.
LEMMA DeparserType ==
  ASSUME NEW Char, NEW string \in Seq(Char)
  PROVE  /\ Deparser(string) \in Seq(Seq(Char))
         /\ \A n \in DOMAIN Deparser(string) : Plain(Deparser(string)[n])
<1> DEFINE vec == Getlines(string).vec
           token == Getlines(string).token
<1>1. Getlines(string) \in Got(Char)
  BY GetlinesSteps
<1>2. vec \in Seq(Seq(Char)) /\ token \in Seq(Char)
  BY <1>1 DEF Got
<1>3. (\A n \in DOMAIN vec : Plain(vec[n])) /\ Plain(token)
  BY LinesArePlain
<1>4. Deparser(string) = vec \/ Deparser(string) = Append(vec, token)
  BY DEF Deparser
<1> HIDE DEF vec, token
<1>5. /\ Append(vec, token) \in Seq(Seq(Char))
      /\ DOMAIN Append(vec, token) = 1 .. (Len(vec) + 1) /\ DOMAIN vec = 1 .. Len(vec)
      /\ Len(vec) \in Nat /\ Append(vec, token)[Len(vec) + 1] = token
      /\ \A n \in 1 .. Len(vec) : Append(vec, token)[n] = vec[n]
  BY <1>2
<1>6. \A n \in 1 .. (Len(vec) + 1) : n = Len(vec) + 1 \/ n \in 1 .. Len(vec)
  BY <1>5
<1>7. \A n \in DOMAIN Append(vec, token) : Plain(Append(vec, token)[n])
  BY <1>3, <1>5, <1>6
<1> QED
  BY <1>2, <1>3, <1>4, <1>5, <1>7

-----------------------------------------------------------------------------
(* The table.                                                               *)

\* The characters there are, in names and ids.
Chars == {Newline} \cup UNION {Range(string) : string \in Name \cup Id}

\* Names and ids are strings of such characters.
LEMMA StringsOfChars ==
  /\ Newline \in Chars
  /\ \A string \in Name \cup Id : string \in Seq(Chars)
<1> SUFFICES ASSUME NEW string \in Name \cup Id PROVE string \in Seq(Chars)
  BY DEF Chars
<1>1. string \in Seq(Range(string))
  BY StringsAssumption
<1>2. Range(string) \subseteq Chars
  BY DEF Chars
<1> HIDE DEF Chars
<1>3. PICK S : S = Range(string)
  OBVIOUS
<1> QED
  BY <1>1, <1>2, <1>3

\* A key that is written has its new value, all others what they had.
LEMMA Write ==
  ASSUME NEW t, NEW key, NEW value
  PROVE  LET u == AddOrUpdate(t, key, value)
         IN  /\ \A k : Has(u, k) <=> k = key \/ Has(t, k)
             /\ \A k : GetValue(u, k) = IF k = key THEN value ELSE GetValue(t, k)
BY DEF AddOrUpdate, Has, GetValue

\* Keys of two kinds differ.
LEMMA Keys ==
  /\ \A x, y : /\ USER_ID(x) # USER_FOLLOWED(y) /\ USER_ID(x) # ID_CHIRP(y)
               /\ USER_ID(x) # ID_REPLY(y) /\ USER_FOLLOWED(x) # ID_CHIRP(y)
               /\ USER_FOLLOWED(x) # ID_REPLY(y) /\ ID_CHIRP(x) # ID_REPLY(y)
  /\ \A x, y : /\ USER_ID(x) = USER_ID(y) <=> x = y
               /\ USER_FOLLOWED(x) = USER_FOLLOWED(y) <=> x = y
               /\ ID_CHIRP(x) = ID_CHIRP(y) <=> x = y
               /\ ID_REPLY(x) = ID_REPLY(y) <=> x = y
BY DEF USER_ID, USER_FOLLOWED, ID_CHIRP, ID_REPLY

\* Two tables that agree on a kind of keys.
Same(kind(_), t, u) == \A x : /\ Has(u, kind(x)) <=> Has(t, kind(x))
                              /\ GetValue(u, kind(x)) = GetValue(t, kind(x))

-----------------------------------------------------------------------------
(* What is kept in the table.                                               *)

\* The chirp a was posted before the chirp b.
Before(order, a, b) == \E m, n \in DOMAIN order : m < n /\ order[m] = a /\ order[n] = b

ChirpsOK ==
  /\ Stored = Range(issued)
  /\ \A id \in Stored : /\ GetValue(table_, ID_CHIRP(id)) \in Chirp
                        /\ GetValue(table_, ID_CHIRP(id)).id = id

Asked(c) == GetValue(table_, ID_CHIRP(c)).parent_id

\* The answers to the chirp p: those that name it as their parent, and came after it.
Answers(p) == {c \in Stored : Asked(c) = p /\ Before(issued, p, c)}

\* A chirp, and nothing else, has a list of replies: its answers, in the order in
\* which they were posted.
RepliesOK ==
  /\ \A p : Has(table_, ID_REPLY(p)) <=> p \in Stored
  /\ \A p \in Stored :
       LET list == GetIdReply(table_, p)
       IN  /\ list \in Seq(Stored) /\ IsInjective(list)
           /\ Range(list) = Answers(p)
           /\ \A m, n \in DOMAIN list : m < n => Before(issued, list[m], list[n])

UsersOK ==
  /\ \A name \in Name : Has(table_, USER_ID(name)) =>
       GetValue(table_, USER_ID(name)) \in Id \cup {<<>>}
  /\ \A name \in Name : Has(table_, USER_FOLLOWED(name)) =>
       GetValue(table_, USER_FOLLOWED(name)) \in Seq(Chars)

IssuedOK == issued \in Seq(Id) /\ IsInjective(issued)

TableInv == IssuedOK /\ ChirpsOK /\ RepliesOK /\ UsersOK /\ FollowedAreUsers

\* The empty string is the empty list.
LEMMA NothingListed == Deparser(<<>>) = <<>>
BY GetlinesSteps DEF Deparser

\* The empty list has nothing in it twice, and nothing in it.
LEMMA EmptyInjective == IsInjective(<<>>) /\ Range(<<>>) = {}
BY DEF IsInjective, Range

\* An id put at the end of a list in which it is not.
LEMMA AppendNew ==
  ASSUME NEW S, NEW s \in Seq(S), NEW e \in S, IsInjective(s), e \notin Range(s)
  PROVE  /\ Append(s, e) \in Seq(S) /\ IsInjective(Append(s, e))
         /\ Range(Append(s, e)) = Range(s) \cup {e}
<1>1. /\ DOMAIN Append(s, e) = 1 .. (Len(s) + 1) /\ DOMAIN s = 1 .. Len(s)
      /\ Len(s) \in Nat /\ Append(s, e)[Len(s) + 1] = e /\ Append(s, e) \in Seq(S)
      /\ \A n \in 1 .. Len(s) : Append(s, e)[n] = s[n]
  OBVIOUS
<1>2. /\ \A n \in 1 .. (Len(s) + 1) : n = Len(s) + 1 \/ n \in 1 .. Len(s)
      /\ \A n \in 1 .. Len(s) : n \in 1 .. (Len(s) + 1)
      /\ Len(s) + 1 \in 1 .. (Len(s) + 1)
  BY <1>1
<1>3. Range(Append(s, e)) = Range(s) \cup {e}
  BY <1>1, <1>2 DEF Range
<1>4. IsInjective(Append(s, e))
  BY <1>1, <1>2 DEF Range, IsInjective
<1> QED
  BY <1>1, <1>3, <1>4

-----------------------------------------------------------------------------
(* chirp: what it leaves in the table.                                      *)

\* A user who is registered posts a chirp: the keys it writes, and all it writes to them.
LEMMA ChirpTable ==
  ASSUME TableInv, NEW name \in Name, NEW parent \in Id \cup {DefaultReply},
         Has(table_, USER_ID(name)), chirp(name, parent)
  PROVE  \E id \in Id \ Range(issued) :
           LET new == [id |-> id, username |-> name, parent_id |-> parent]
           IN  /\ issued' = Append(issued, id)
               /\ Answer("OK", <<new>>)
               /\ \A x : Has(table_', USER_ID(x)) <=> Has(table_, USER_ID(x))
               /\ \A x : GetValue(table_', USER_ID(x))
                           = IF x = name THEN id ELSE GetValue(table_, USER_ID(x))
               /\ Same(USER_FOLLOWED, table_, table_')
               /\ \A x : Has(table_', ID_CHIRP(x)) <=> x = id \/ Has(table_, ID_CHIRP(x))
               /\ \A x : GetValue(table_', ID_CHIRP(x))
                           = IF x = id THEN new ELSE GetValue(table_, ID_CHIRP(x))
               /\ \A x : Has(table_', ID_REPLY(x)) <=> x = id \/ Has(table_, ID_REPLY(x))
               /\ \A x : GetValue(table_', ID_REPLY(x))
                           = IF x = id THEN <<>>
                             ELSE IF x = parent /\ Has(table_, ID_REPLY(x))
                             THEN Parser(Append(GetIdReply(table_, parent), id))
                             ELSE GetValue(table_, ID_REPLY(x))
<1>1. PICK id \in Id \ Range(issued) :
        LET new    == [id |-> id, username |-> name, parent_id |-> parent]
            stored == Put(table_, ID_CHIRP(id), new)
            latest == PutOrUpdate(stored, USER_ID(name), id)
        IN  /\ issued' = Append(issued, id)
            /\ IF PutAnswer(table_, ID_CHIRP(id))
               THEN /\ table_' = Listed(latest, parent, id)
                    /\ Answer("OK", <<new>>)
               ELSE UNCHANGED table_ /\ Answer("ALREADY_EXISTS", <<new>>)
  BY DEF chirp
<1> DEFINE new    == [id |-> id, username |-> name, parent_id |-> parent]
           stored == AddOrUpdate(table_, ID_CHIRP(id), new)
           latest == AddOrUpdate(stored, USER_ID(name), id)
           more   == Parser(Append(GetIdReply(latest, parent), id))
           linked == Linked(latest, parent, id)
<1>2. ~Has(table_, ID_CHIRP(id)) /\ ~Has(table_, ID_REPLY(id))
  BY DEF TableInv, ChirpsOK, RepliesOK, Stored
<1>3. table_' = AddOrUpdate(linked, ID_REPLY(id), <<>>) /\ Answer("OK", <<new>>)
  BY <1>1, <1>2 DEF PutAnswer, Put, Add, Listed, PutOrUpdate
<1>4. /\ \A k : Has(stored, k) <=> k = ID_CHIRP(id) \/ Has(table_, k)
      /\ \A k : GetValue(stored, k) = IF k = ID_CHIRP(id) THEN new ELSE GetValue(table_, k)
  BY Write
<1> HIDE DEF stored, new
<1>5. /\ \A k : Has(latest, k) <=> k = USER_ID(name) \/ Has(stored, k)
      /\ \A k : GetValue(latest, k) = IF k = USER_ID(name) THEN id ELSE GetValue(stored, k)
  BY Write
<1> HIDE DEF latest
<1>6. GetIdReply(latest, parent) = GetIdReply(table_, parent)
  BY <1>4, <1>5, Keys DEF GetIdReply
<1>7. Has(latest, ID_REPLY(parent)) <=> Has(table_, ID_REPLY(parent))
  BY <1>4, <1>5, Keys
<1>8. /\ \A k : Has(linked, k) <=> Has(latest, k)
      /\ \A k : GetValue(linked, k) = IF k = ID_REPLY(parent) /\ Has(table_, k) THEN more
                                      ELSE GetValue(latest, k)
  <2>1. CASE Has(table_, ID_REPLY(parent))
    <3>1. linked = AddOrUpdate(latest, ID_REPLY(parent), more)
      BY <1>7, <2>1 DEF Linked, PutOrUpdate
    <3> HIDE DEF linked, more
    <3>2. /\ \A k : Has(linked, k) <=> k = ID_REPLY(parent) \/ Has(latest, k)
          /\ \A k : GetValue(linked, k) = IF k = ID_REPLY(parent) THEN more
                                          ELSE GetValue(latest, k)
      BY <3>1, Write
    <3> QED
      BY <1>7, <2>1, <3>2
  <2>2. CASE ~Has(table_, ID_REPLY(parent))
    <3>1. linked = latest
      BY <1>7, <2>2 DEF Linked
    <3> QED
      BY <2>2, <3>1
  <2> QED
    BY <2>1, <2>2
<1>9. more = Parser(Append(GetIdReply(table_, parent), id))
  BY <1>6
<1> HIDE DEF linked, more
<1>10. /\ \A k : Has(table_', k) <=> k = ID_REPLY(id) \/ Has(linked, k)
       /\ \A k : GetValue(table_', k) = IF k = ID_REPLY(id) THEN <<>> ELSE GetValue(linked, k)
  BY <1>3, Write
<1>11. /\ \A x : Has(table_', USER_ID(x)) <=> Has(table_, USER_ID(x))
       /\ \A x : GetValue(table_', USER_ID(x))
                   = IF x = name THEN id ELSE GetValue(table_, USER_ID(x))
  BY <1>4, <1>5, <1>8, <1>10, Keys
<1>12. Same(USER_FOLLOWED, table_, table_')
  BY <1>4, <1>5, <1>8, <1>10, Keys DEF Same
<1>13. /\ \A x : Has(table_', ID_CHIRP(x)) <=> x = id \/ Has(table_, ID_CHIRP(x))
       /\ \A x : GetValue(table_', ID_CHIRP(x))
                   = IF x = id THEN new ELSE GetValue(table_, ID_CHIRP(x))
  BY <1>4, <1>5, <1>8, <1>10, Keys
<1>14. /\ \A x : Has(table_', ID_REPLY(x)) <=> x = id \/ Has(table_, ID_REPLY(x))
       /\ \A x : GetValue(table_', ID_REPLY(x))
                   = IF x = id THEN <<>>
                     ELSE IF x = parent /\ Has(table_, ID_REPLY(x)) THEN more
                     ELSE GetValue(table_, ID_REPLY(x))
  BY <1>4, <1>5, <1>8, <1>10, Keys
<1> QED
  BY <1>1, <1>3, <1>9, <1>11, <1>12, <1>13, <1>14 DEF new

-----------------------------------------------------------------------------
(* The table keeps what it keeps.                                           *)

\* An empty table keeps them all.
LEMMA TableInit == Init => TableInv
<1> SUFFICES ASSUME Init PROVE TableInv
  OBVIOUS
<1>1. table_ = <<>> /\ issued = <<>> /\ DOMAIN table_ = {}
  BY DEF Init
<1>2. \A k : ~Has(table_, k)
  BY <1>1 DEF Has
<1>3. IssuedOK
  BY <1>1, EmptyInjective DEF IssuedOK
<1>4. ChirpsOK
  BY <1>1, <1>2, EmptyInjective DEF ChirpsOK, Stored
<1>5. RepliesOK
  BY <1>2 DEF RepliesOK, Stored
<1>6. UsersOK
  BY <1>2 DEF UsersOK
<1>7. FollowedAreUsers
  BY <1>2 DEF FollowedAreUsers, Registered
<1> QED
  BY <1>3, <1>4, <1>5, <1>6, <1>7 DEF TableInv

\* The chirps stay as they are when their keys do.
LEMMA ChirpsStay ==
  ASSUME TableInv, UNCHANGED issued,
         Same(ID_CHIRP, table_, table_'), Same(ID_REPLY, table_, table_')
  PROVE  IssuedOK' /\ ChirpsOK' /\ RepliesOK'
<1>1. IssuedOK'
  BY DEF TableInv, IssuedOK
<1>2. Stored' = Stored
  BY DEF Stored, Same
<1>3. ChirpsOK'
  BY <1>2 DEF TableInv, ChirpsOK, Same
<1>4. \A a, b : Before(issued', a, b) <=> Before(issued, a, b)
  BY DEF Before
<1>5. \A p : GetIdReply(table_', p) = GetIdReply(table_, p)
  BY DEF GetIdReply, Same
<1>6. ASSUME NEW p \in Stored
      PROVE  LET list == GetIdReply(table_', p)
             IN  /\ list \in Seq(Stored) /\ IsInjective(list)
                 /\ Range(list) = Answers(p)'
                 /\ \A m, n \in DOMAIN list : m < n => Before(issued', list[m], list[n])
  <2>1. Answers(p)' = Answers(p)
    BY <1>2, <1>4 DEF Answers, Asked, Same
  <2> QED
    BY <1>4, <1>5, <1>6, <2>1 DEF TableInv, RepliesOK
<1>7. \A p : Has(table_', ID_REPLY(p)) <=> p \in Stored'
  BY <1>2 DEF TableInv, RepliesOK, Same
<1>8. RepliesOK'
  BY <1>2, <1>6, <1>7 DEF RepliesOK
<1> QED
  BY <1>1, <1>3, <1>8

\* A list is a list of plain strings.
LEMMA FollowedList ==
  ASSUME UsersOK, NEW name \in Registered
  PROVE  /\ GetUserFollowed(table_, name) \in Seq(Seq(Chars))
         /\ \A n \in DOMAIN GetUserFollowed(table_, name) :
              Plain(GetUserFollowed(table_, name)[n])
<1>1. GetValue(table_, USER_FOLLOWED(name)) \in Seq(Chars)
  BY DEF UsersOK, Registered
<1> QED
  BY <1>1, DeparserType DEF GetUserFollowed

-----------------------------------------------------------------------------
(* registeruser                                                            *)

\* A name that is new gets its two keys, and no other key is written.
LEMMA RegisterTable ==
  ASSUME NEW name \in Name, registeruser(name)
  PROVE  /\ issued' = issued
         /\ Same(ID_CHIRP, table_, table_') /\ Same(ID_REPLY, table_, table_')
         /\ \A x : Has(table_', USER_ID(x)) <=> x = name \/ Has(table_, USER_ID(x))
         /\ \A x : GetValue(table_', USER_ID(x))
                     = IF x = name /\ ~Has(table_, USER_ID(x)) THEN <<>>
                       ELSE GetValue(table_, USER_ID(x))
         /\ \A x : Has(table_, USER_FOLLOWED(x)) =>
              /\ Has(table_', USER_FOLLOWED(x))
              /\ GetValue(table_', USER_FOLLOWED(x)) = GetValue(table_, USER_FOLLOWED(x))
         /\ \A x : Has(table_', USER_FOLLOWED(x)) /\ ~Has(table_, USER_FOLLOWED(x)) =>
              /\ x = name
              /\ GetValue(table_', USER_FOLLOWED(x)) = <<>>
<1>0. issued' = issued
  BY DEF registeruser
<1>1. CASE Has(table_, USER_ID(name))
  <2>1. table_' = table_
    BY <1>1 DEF registeruser
  <2> QED
    BY <1>0, <1>1, <2>1 DEF Same
<1>2. CASE ~Has(table_, USER_ID(name))
  <2> DEFINE named == AddOrUpdate(table_, USER_ID(name), <<>>)
  <2>1. table_' = Add(named, USER_FOLLOWED(name), <<>>)
    BY <1>2 DEF registeruser, Put, Add
  <2>2. /\ \A k : Has(named, k) <=> k = USER_ID(name) \/ Has(table_, k)
        /\ \A k : GetValue(named, k) = IF k = USER_ID(name) THEN <<>> ELSE GetValue(table_, k)
    BY Write
  <2> HIDE DEF named
  <2>3. /\ \A k : Has(table_', k) <=> k = USER_FOLLOWED(name) \/ Has(named, k)
        /\ \A k : GetValue(table_', k)
                    = IF k = USER_FOLLOWED(name) /\ ~Has(named, k) THEN <<>>
                      ELSE GetValue(named, k)
    <3>1. CASE Has(named, USER_FOLLOWED(name))
      BY <2>1, <3>1 DEF Add
    <3>2. CASE ~Has(named, USER_FOLLOWED(name))
      <4>1. table_' = AddOrUpdate(named, USER_FOLLOWED(name), <<>>)
        BY <2>1, <3>2 DEF Add
      <4>2. /\ \A k : Has(table_', k) <=> k = USER_FOLLOWED(name) \/ Has(named, k)
            /\ \A k : GetValue(table_', k) = IF k = USER_FOLLOWED(name) THEN <<>>
                                             ELSE GetValue(named, k)
        BY <4>1, Write
      <4> QED
        BY <3>2, <4>2
    <3> QED
      BY <3>1, <3>2
  <2>4. Same(ID_CHIRP, table_, table_') /\ Same(ID_REPLY, table_, table_')
    BY <2>2, <2>3, Keys DEF Same
  <2>5. /\ \A x : Has(table_', USER_ID(x)) <=> x = name \/ Has(table_, USER_ID(x))
        /\ \A x : GetValue(table_', USER_ID(x))
                    = IF x = name THEN <<>> ELSE GetValue(table_, USER_ID(x))
    BY <2>2, <2>3, Keys
  <2>6. /\ \A x : Has(table_', USER_FOLLOWED(x)) <=> x = name \/ Has(table_, USER_FOLLOWED(x))
        /\ \A x : GetValue(table_', USER_FOLLOWED(x))
                    = IF x = name /\ ~Has(table_, USER_FOLLOWED(x)) THEN <<>>
                      ELSE GetValue(table_, USER_FOLLOWED(x))
    BY <2>2, <2>3, Keys
  <2> QED
    BY <1>0, <1>2, <2>4, <2>5, <2>6
<1> QED
  BY <1>1, <1>2

\* Lists that stay, or are new and empty, hold what they held.
LEMMA ListsStay ==
  ASSUME TableInv,
         \A x \in Name : Has(table_, USER_FOLLOWED(x)) =>
           /\ Has(table_', USER_FOLLOWED(x))
           /\ GetValue(table_', USER_FOLLOWED(x)) = GetValue(table_, USER_FOLLOWED(x)),
         \A x \in Name : Has(table_', USER_FOLLOWED(x)) /\ ~Has(table_, USER_FOLLOWED(x)) =>
           GetValue(table_', USER_FOLLOWED(x)) = <<>>
  PROVE  FollowedAreUsers'
<1>1. Registered \subseteq Registered'
  BY DEF Registered
<1> SUFFICES ASSUME NEW name \in Registered'
             PROVE  LET list == GetUserFollowed(table_', name)
                    IN  /\ Range(list) \subseteq
                             UNION {Lines(other) : other \in Registered' \ {name}}
                        /\ (\A other \in Registered' : Plain(other)) =>
                             IsInjective(list) /\ Range(list) \subseteq Registered' \ {name}
  BY DEF FollowedAreUsers, Lines
<1>2. CASE name \in Registered
  <2>1. GetUserFollowed(table_', name) = GetUserFollowed(table_, name)
    BY <1>2 DEF Registered, GetUserFollowed
  <2>2. LET list == GetUserFollowed(table_, name)
        IN  /\ Range(list) \subseteq UNION {Lines(other) : other \in Registered \ {name}}
            /\ (\A other \in Registered : Plain(other)) =>
                 IsInjective(list) /\ Range(list) \subseteq Registered \ {name}
    BY <1>2 DEF TableInv, FollowedAreUsers
  <2> QED
    BY <1>1, <2>1, <2>2
<1>3. CASE name \notin Registered
  <2>1. GetUserFollowed(table_', name) = <<>>
    BY <1>3, NothingListed DEF Registered, GetUserFollowed
  <2> QED
    BY <2>1, EmptyInjective
<1> QED
  BY <1>2, <1>3

\* A registration keeps what the table keeps.
LEMMA RegisterStep ==
  ASSUME TableInv, NEW name \in Name, registeruser(name)
  PROVE  TableInv'
<1>1. IssuedOK' /\ ChirpsOK' /\ RepliesOK'
  BY RegisterTable, ChirpsStay
<1>2. UsersOK'
  <2>1. <<>> \in Seq(Chars)
    OBVIOUS
  <2> QED
    BY <2>1, RegisterTable DEF UsersOK, TableInv
<1>3. FollowedAreUsers'
  BY RegisterTable, ListsStay
<1> QED
  BY <1>1, <1>2, <1>3 DEF TableInv

-----------------------------------------------------------------------------
(* follow                                                                  *)

\* At most the list of the one who follows is written.
LEMMA FollowTable ==
  ASSUME NEW name \in Name, NEW to_follow \in Name, follow(name, to_follow)
  PROVE  /\ issued' = issued
         /\ Same(ID_CHIRP, table_, table_') /\ Same(ID_REPLY, table_, table_')
         /\ Same(USER_ID, table_, table_')
         /\ \/ table_' = table_
            \/ /\ MayFollow(name, to_follow)
               /\ \A x : Has(table_', USER_FOLLOWED(x)) <=> Has(table_, USER_FOLLOWED(x))
               /\ \A x : GetValue(table_', USER_FOLLOWED(x))
                           = IF x = name
                             THEN Parser(Followed(GetUserFollowed(table_, name), to_follow))
                             ELSE GetValue(table_, USER_FOLLOWED(x))
<1>1. CASE table_' = table_
  BY <1>1 DEF follow, Same
<1>2. CASE /\ MayFollow(name, to_follow)
           /\ table_' = PutOrUpdate(table_, USER_FOLLOWED(name),
                                   Parser(Followed(GetUserFollowed(table_, name), to_follow)))
  <2> DEFINE string == Parser(Followed(GetUserFollowed(table_, name), to_follow))
  <2>1. table_' = AddOrUpdate(table_, USER_FOLLOWED(name), string)
    BY <1>2 DEF PutOrUpdate
  <2>2. Has(table_, USER_FOLLOWED(name))
    BY <1>2 DEF MayFollow
  <2> HIDE DEF string
  <2>3. /\ \A k : Has(table_', k) <=> k = USER_FOLLOWED(name) \/ Has(table_, k)
        /\ \A k : GetValue(table_', k) = IF k = USER_FOLLOWED(name) THEN string
                                         ELSE GetValue(table_, k)
    BY <2>1, Write
  <2>4. /\ Same(ID_CHIRP, table_, table_') /\ Same(ID_REPLY, table_, table_')
        /\ Same(USER_ID, table_, table_')
    BY <2>3, Keys DEF Same
  <2>5. /\ \A x : Has(table_', USER_FOLLOWED(x)) <=> Has(table_, USER_FOLLOWED(x))
        /\ \A x : GetValue(table_', USER_FOLLOWED(x))
                    = IF x = name THEN string ELSE GetValue(table_, USER_FOLLOWED(x))
    BY <2>2, <2>3, Keys
  <2>6. issued' = issued
    BY DEF follow
  <2> QED
    BY <1>2, <2>4, <2>5, <2>6 DEF string
<1> QED
  BY <1>1, <1>2 DEF follow

\* A name, followed: the lines it has are in the list, and no others are new.
LEMMA FollowedLines ==
  ASSUME NEW list \in Seq(Seq(Chars)), \A n \in DOMAIN list : Plain(list[n]),
         NEW to_follow \in Name
  PROVE  LET then == Deparser(Parser(Followed(list, to_follow)))
         IN  /\ Parser(Followed(list, to_follow)) \in Seq(Chars)
             /\ Range(then) \subseteq Range(list) \cup Lines(to_follow)
             /\ Plain(to_follow) /\ IsInjective(list) =>
                  IsInjective(then) /\ Range(then) \subseteq Range(list) \cup {to_follow}
<1>1. to_follow \in Seq(Chars) /\ Newline \in Chars
  BY StringsOfChars
<1>2. CASE to_follow \in Range(list)
  <2>1. Followed(list, to_follow) = list
    BY <1>2 DEF Followed
  <2>2. Deparser(Parser(list)) = list
    BY <1>1, PlainList
  <2>3. Parser(list) \in Seq(Chars)
    BY <1>1, ParserSteps
  <2> QED
    BY <2>1, <2>2, <2>3
<1>3. CASE to_follow \notin Range(list)
  <2> DEFINE more == Deparser(Parser(<<to_follow>>))
  <2>1. Followed(list, to_follow) = Append(list, to_follow)
    BY <1>3 DEF Followed
  <2>2. Deparser(Parser(Append(list, to_follow))) = list \o more
    BY <1>1, AppendedLines
  <2>3. Append(list, to_follow) \in Seq(Seq(Chars))
    BY <1>1
  <2>4. Parser(Append(list, to_follow)) \in Seq(Chars)
    BY <1>1, <2>3, ParserSteps
  <2>5. more \in Seq(Seq(Chars))
    <3>1. <<to_follow>> \in Seq(Seq(Chars))
      BY <1>1
    <3>2. Parser(<<to_follow>>) \in Seq(Chars)
      BY <1>1, <3>1, ParserSteps
    <3> QED
      BY <3>2, DeparserType
  <2>6. Lines(to_follow) = Range(more)
    BY DEF Lines
  <2> HIDE DEF more
  <2>7. Range(list \o more) \subseteq Range(list) \cup Range(more)
    <3>1. /\ DOMAIN (list \o more) = 1 .. (Len(list) + Len(more))
          /\ \A n \in 1 .. (Len(list) + Len(more)) :
               (list \o more)[n] = IF n <= Len(list) THEN list[n] ELSE more[n - Len(list)]
          /\ DOMAIN list = 1 .. Len(list) /\ DOMAIN more = 1 .. Len(more)
          /\ Len(list) \in Nat /\ Len(more) \in Nat
      BY <2>5
    <3>2. \A n \in 1 .. (Len(list) + Len(more)) :
            (n <= Len(list) /\ n \in 1 .. Len(list))
            \/ (~(n <= Len(list)) /\ n - Len(list) \in 1 .. Len(more))
      BY <3>1
    <3> QED
      BY <3>1, <3>2 DEF Range
  <2>8. ASSUME Plain(to_follow), IsInjective(list)
        PROVE  /\ IsInjective(list \o more)
               /\ Range(list \o more) \subseteq Range(list) \cup {to_follow}
    <3>1. Deparser(Parser(Append(list, to_follow))) = Append(list, to_follow)
      <4>1. \A n \in DOMAIN Append(list, to_follow) : Plain(Append(list, to_follow)[n])
        BY <1>1, <2>8
      <4> QED
        BY <1>1, <2>3, <4>1, PlainList
    <3>2. list \o more = Append(list, to_follow)
      BY <2>2, <3>1
    <3>3. /\ IsInjective(Append(list, to_follow))
          /\ Range(Append(list, to_follow)) = Range(list) \cup {to_follow}
      BY <1>1, <1>3, <2>8, AppendNew
    <3> QED
      BY <3>2, <3>3
  <2> QED
    BY <2>1, <2>2, <2>4, <2>6, <2>7, <2>8
<1> QED
  BY <1>2, <1>3

\* To follow keeps what the table keeps.
LEMMA FollowStep ==
  ASSUME TableInv, NEW name \in Name, NEW to_follow \in Name, follow(name, to_follow)
  PROVE  TableInv'
<1>1. IssuedOK' /\ ChirpsOK' /\ RepliesOK'
  BY FollowTable, ChirpsStay
<1>2. CASE table_' = table_
  <2>1. UsersOK'
    BY <1>2 DEF TableInv, UsersOK
  <2>2. FollowedAreUsers'
    BY <1>2, ListsStay
  <2> QED
    BY <1>1, <2>1, <2>2 DEF TableInv
<1>3. CASE table_' # table_
  <2> DEFINE list == GetUserFollowed(table_, name)
             then == Deparser(Parser(Followed(list, to_follow)))
  <2>1. /\ MayFollow(name, to_follow)
        /\ \A x : Has(table_', USER_FOLLOWED(x)) <=> Has(table_, USER_FOLLOWED(x))
        /\ \A x : GetValue(table_', USER_FOLLOWED(x))
                    = IF x = name THEN Parser(Followed(list, to_follow))
                      ELSE GetValue(table_, USER_FOLLOWED(x))
    BY <1>3, FollowTable
  <2>2. name \in Registered /\ to_follow \in Registered \ {name}
    BY <2>1 DEF MayFollow, Registered
  <2>3. list \in Seq(Seq(Chars)) /\ \A n \in DOMAIN list : Plain(list[n])
    BY <2>2, FollowedList DEF TableInv
  <2>4. /\ Parser(Followed(list, to_follow)) \in Seq(Chars)
        /\ Range(then) \subseteq Range(list) \cup Lines(to_follow)
        /\ Plain(to_follow) /\ IsInjective(list) =>
             IsInjective(then) /\ Range(then) \subseteq Range(list) \cup {to_follow}
    <3> HIDE DEF list
    <3> QED
      BY <2>3, FollowedLines
  <2>5. UsersOK'
    <3>1. Same(USER_ID, table_, table_')
      BY FollowTable
    <3> QED
      BY <2>1, <2>4, <3>1 DEF UsersOK, TableInv, Same
  <2>6. Registered' = Registered
    BY <2>1 DEF Registered
  <2>7. FollowedAreUsers'
    <3> SUFFICES ASSUME NEW x \in Registered
                 PROVE  LET l == GetUserFollowed(table_', x)
                        IN  /\ Range(l) \subseteq
                                 UNION {Lines(other) : other \in Registered \ {x}}
                            /\ (\A other \in Registered : Plain(other)) =>
                                 IsInjective(l) /\ Range(l) \subseteq Registered \ {x}
      BY <2>6 DEF FollowedAreUsers, Lines
    <3>1. LET l == GetUserFollowed(table_, x)
          IN  /\ Range(l) \subseteq UNION {Lines(other) : other \in Registered \ {x}}
              /\ (\A other \in Registered : Plain(other)) =>
                   IsInjective(l) /\ Range(l) \subseteq Registered \ {x}
      BY DEF TableInv, FollowedAreUsers
    <3>2. CASE x = name
      <4>1. GetUserFollowed(table_', x) = then
        BY <2>1, <3>2 DEF GetUserFollowed
      <4> HIDE DEF list, then
      <4>2. GetUserFollowed(table_, x) = list
        BY <3>2 DEF list
      <4> QED
        BY <2>2, <2>4, <3>1, <3>2, <4>1, <4>2
    <3>3. CASE x # name
      <4>1. GetUserFollowed(table_', x) = GetUserFollowed(table_, x)
        BY <2>1, <3>3 DEF GetUserFollowed
      <4> QED
        BY <3>1, <4>1
    <3> QED
      BY <3>2, <3>3
  <2> QED
    BY <1>1, <2>5, <2>7 DEF TableInv
<1> QED
  BY <1>2, <1>3

-----------------------------------------------------------------------------
(* chirp                                                                   *)

\* A chirp keeps what the table keeps.
LEMMA ChirpStep ==
  ASSUME TableInv, NEW name \in Name, NEW parent \in Id \cup {DefaultReply},
         chirp(name, parent)
  PROVE  TableInv'
<1>1. CASE ~Has(table_, USER_ID(name))
  <2>1. UNCHANGED <<table_, issued>>
    BY <1>1 DEF chirp
  <2>2. IssuedOK' /\ ChirpsOK' /\ RepliesOK'
    BY <2>1, ChirpsStay DEF Same
  <2>3. UsersOK'
    BY <2>1 DEF TableInv, UsersOK
  <2>4. FollowedAreUsers'
    BY <2>1, ListsStay
  <2> QED
    BY <2>2, <2>3, <2>4 DEF TableInv
<1>2. CASE Has(table_, USER_ID(name))
  <2>1. PICK id \in Id \ Range(issued) :
          LET new == [id |-> id, username |-> name, parent_id |-> parent]
          IN  /\ issued' = Append(issued, id)
              /\ Answer("OK", <<new>>)
              /\ \A x : Has(table_', USER_ID(x)) <=> Has(table_, USER_ID(x))
              /\ \A x : GetValue(table_', USER_ID(x))
                          = IF x = name THEN id ELSE GetValue(table_, USER_ID(x))
              /\ Same(USER_FOLLOWED, table_, table_')
              /\ \A x : Has(table_', ID_CHIRP(x)) <=> x = id \/ Has(table_, ID_CHIRP(x))
              /\ \A x : GetValue(table_', ID_CHIRP(x))
                          = IF x = id THEN new ELSE GetValue(table_, ID_CHIRP(x))
              /\ \A x : Has(table_', ID_REPLY(x)) <=> x = id \/ Has(table_, ID_REPLY(x))
              /\ \A x : GetValue(table_', ID_REPLY(x))
                          = IF x = id THEN <<>>
                            ELSE IF x = parent /\ Has(table_, ID_REPLY(x))
                            THEN Parser(Append(GetIdReply(table_, parent), id))
                            ELSE GetValue(table_, ID_REPLY(x))
    BY <1>2, ChirpTable
  <2> DEFINE new == [id |-> id, username |-> name, parent_id |-> parent]
  <2>2. new \in Chirp /\ new.id = id /\ new.parent_id = parent
    BY DEF Chirp
  <2>3. /\ \A x : GetValue(table_', ID_CHIRP(x))
                    = IF x = id THEN new ELSE GetValue(table_, ID_CHIRP(x))
    BY <2>1
  <2> HIDE DEF new
  <2>4. /\ IssuedOK' /\ Range(issued') = Range(issued) \cup {id}
    BY <2>1, AppendNew DEF TableInv, IssuedOK
  <2>5. Stored' = Stored \cup {id} /\ id \notin Stored
    BY <2>1 DEF Stored, TableInv, ChirpsOK
  <2>6. ChirpsOK'
    BY <2>2, <2>3, <2>4, <2>5 DEF TableInv, ChirpsOK
  <2>7. \A a, b : Before(issued', a, b) <=> Before(issued, a, b) \/ (a \in Stored /\ b = id)
    <3>1. /\ DOMAIN issued' = 1 .. (Len(issued) + 1) /\ DOMAIN issued = 1 .. Len(issued)
          /\ Len(issued) \in Nat /\ issued'[Len(issued) + 1] = id
          /\ \A n \in 1 .. Len(issued) : issued'[n] = issued[n]
      BY <2>1 DEF TableInv, IssuedOK
    <3>2. \A n \in 1 .. Len(issued) : n \in 1 .. (Len(issued) + 1) /\ n < Len(issued) + 1
      BY <3>1
    <3>3. Len(issued) + 1 \in 1 .. (Len(issued) + 1)
      BY <3>1
    <3>4. \A m, n \in 1 .. (Len(issued) + 1) : m < n =>
            /\ m \in 1 .. Len(issued)
            /\ n \in 1 .. Len(issued) \/ n = Len(issued) + 1
      BY <3>1
    <3>5. \A a : a \in Stored <=> \E n \in 1 .. Len(issued) : issued[n] = a
      BY <3>1 DEF TableInv, ChirpsOK, Range
    <3>6. ASSUME NEW a, NEW b, Before(issued, a, b) PROVE Before(issued', a, b)
      BY <3>1, <3>2, <3>6 DEF Before
    <3>7. ASSUME NEW a \in Stored PROVE Before(issued', a, id)
      BY <3>1, <3>2, <3>3, <3>5 DEF Before
    <3>8. ASSUME NEW a, NEW b, Before(issued', a, b), ~Before(issued, a, b) PROVE a \in Stored /\ b = id
      <4>1. PICK m, n \in 1 .. (Len(issued) + 1) :
              m < n /\ issued'[m] = a /\ issued'[n] = b
        BY <3>1, <3>8 DEF Before
      <4>2. m \in 1 .. Len(issued) /\ issued[m] = a
        BY <3>1, <3>4, <4>1
      <4>3. n \notin 1 .. Len(issued)
        BY <3>1, <3>8, <4>1, <4>2 DEF Before
      <4> QED
        BY <3>1, <3>4, <3>5, <4>1, <4>2, <4>3
    <3> QED
      BY <3>6, <3>7, <3>8
  <2>8. RepliesOK'
    <3>1. \A p : Has(table_', ID_REPLY(p)) <=> p \in Stored'
      BY <2>1, <2>5 DEF TableInv, RepliesOK
    <3>2. \A c : Asked(c)' = IF c = id THEN parent ELSE Asked(c)
      BY <2>2, <2>3 DEF Asked
    <3>3. \A p : Answers(p)' = IF p \in Stored /\ p = parent THEN Answers(p) \cup {id}
                               ELSE Answers(p)
      <4>1. \A p, c : Before(issued, p, c) => c # id
        BY <2>5 DEF Before, TableInv, ChirpsOK, Range
      <4> QED
        BY <2>5, <2>7, <3>2, <4>1 DEF Answers
    <3>4. ASSUME NEW p \in Stored'
          PROVE  LET list == GetIdReply(table_', p)
                 IN  /\ list \in Seq(Stored') /\ IsInjective(list)
                     /\ Range(list) = Answers(p)'
                     /\ \A m, n \in DOMAIN list : m < n => Before(issued', list[m], list[n])
      <4>1. CASE p = id
        <5>1. GetIdReply(table_', p) = <<>>
          BY <2>1, <4>1, NothingListed DEF GetIdReply
        <5>2. Answers(p)' = {}
          <6>1. \A c : ~Before(issued, id, c)
            BY <2>5 DEF Before, TableInv, ChirpsOK, Range
          <6> QED
            BY <2>5, <3>3, <4>1, <6>1 DEF Answers
        <5> QED
          BY <5>1, <5>2, EmptyInjective
      <4> DEFINE old == GetIdReply(table_, p)
      <4>2. ASSUME p # id
            PROVE  /\ old \in Seq(Stored) /\ IsInjective(old) /\ p \in Stored
                   /\ Range(old) = Answers(p)
                   /\ \A m, n \in DOMAIN old : m < n => Before(issued, old[m], old[n])
        <5>1. p \in Stored
          BY <2>5, <4>2
        <5> QED
          BY <5>1 DEF TableInv, RepliesOK
      <4>3. CASE p # id /\ p = parent
        <5>1. GetValue(table_', ID_REPLY(p)) = Parser(Append(old, id))
          BY <2>1, <4>2, <4>3 DEF TableInv, RepliesOK
        <5>2. Deparser(Parser(Append(old, id))) = Append(old, id)
          <6>1. \A i \in Id : i \in Seq(Chars) /\ Plain(i)
            BY StringsOfChars, StringsAssumption
          <6>2. Append(old, id) \in Seq(Id)
            <7>1. Stored \subseteq Id
              BY DEF Stored
            <7> HIDE DEF old
            <7>2. old \in Seq(Id)
              BY <4>2, <4>3, <7>1
            <7> QED
              BY <7>2
          <6> DEFINE l == Append(old, id)
          <6> HIDE DEF old, l
          <6>3. l \in Seq(Id)
            BY <6>2 DEF l
          <6>4. l \in Seq(Seq(Chars)) /\ \A n \in DOMAIN l : Plain(l[n])
            BY <6>1, <6>3
          <6>5. Newline \in Chars
            BY StringsOfChars
          <6>6. Deparser(Parser(l)) = l
            BY <6>4, <6>5, PlainList
          <6> QED
            BY <6>6 DEF l
        <5>3. GetIdReply(table_', p) = Append(old, id)
          BY <5>1, <5>2 DEF GetIdReply
        <5> HIDE DEF old
        <5>4. id \notin Range(old)
          BY <2>5, <4>2, <4>3 DEF Answers
        <5>5. old \in Seq(Stored') /\ id \in Stored'
          BY <2>5, <4>2, <4>3
        <5>6. /\ Append(old, id) \in Seq(Stored') /\ IsInjective(Append(old, id))
              /\ Range(Append(old, id)) = Range(old) \cup {id}
          BY <4>2, <4>3, <5>4, <5>5, AppendNew
        <5>7. Range(Append(old, id)) = Answers(p)'
          BY <3>3, <4>2, <4>3, <5>6
        <5>8. ASSUME NEW m \in DOMAIN Append(old, id), NEW n \in DOMAIN Append(old, id), m < n
              PROVE  Before(issued', Append(old, id)[m], Append(old, id)[n])
          <6>1. m \in DOMAIN old /\ Append(old, id)[m] = old[m] /\ old[m] \in Stored
            BY <4>2, <4>3, <5>8
          <6>2. CASE n \in DOMAIN old
            <7>1. Append(old, id)[n] = old[n]
              BY <4>2, <4>3, <6>2
            <7> QED
              BY <2>7, <4>2, <4>3, <5>8, <6>1, <6>2, <7>1
          <6>3. CASE n \notin DOMAIN old
            <7>1. Append(old, id)[n] = id
              BY <4>2, <4>3, <5>8, <6>3
            <7> QED
              BY <2>7, <6>1, <7>1
          <6> QED
            BY <6>2, <6>3
        <5> QED
          BY <5>3, <5>6, <5>7, <5>8
      <4>4. CASE p # id /\ p # parent
        <5>1. GetIdReply(table_', p) = old
          BY <2>1, <4>4 DEF GetIdReply
        <5> HIDE DEF old
        <5>2. old \in Seq(Stored')
          BY <2>5, <4>2, <4>4
        <5>3. Answers(p)' = Answers(p)
          BY <3>3, <4>4
        <5> QED
          BY <2>7, <4>2, <4>4, <5>1, <5>2, <5>3
      <4> QED
        BY <4>1, <4>3, <4>4
    <3> QED
      BY <3>1, <3>4 DEF RepliesOK
  <2>9. UsersOK'
    BY <2>1 DEF UsersOK, TableInv, Same
  <2>10. FollowedAreUsers'
    BY <2>1, ListsStay DEF Same
  <2> QED
    BY <2>4, <2>6, <2>8, <2>9, <2>10 DEF TableInv
<1> QED
  BY <1>1, <1>2

-----------------------------------------------------------------------------
(* read: the ids of the chirps that the loop has in hand, of which the first k  *)
(* are answered and the others queued.                                      *)

Visit(ids, k) ==
  [chirps |-> [n \in 1 .. k |-> GetIdChirp(table_, ids[n])],
   queue  |-> [n \in 1 .. (Len(ids) - k) |-> GetIdChirp(table_, ids[k + n])]]

\* Every chirp but the first is an answer to one that is answered; all answers to one
\* that is answered are there; and they are in the order of their parents, the
\* answers to one parent in the order in which they were posted.
InLevels(root, ids, k) ==
  /\ ids \in Seq(Stored) /\ k \in 0 .. Len(ids)
  /\ IsInjective(ids)
  /\ ids # <<>> /\ ids[1] = root
  /\ \A n \in 2 .. Len(ids) : Before(issued, root, ids[n])
  /\ \A n \in 2 .. Len(ids) : \E m \in 1 .. k : ids[n] \in Answers(ids[m])
  /\ \A m \in 1 .. k : \A c \in Answers(ids[m]) : \E n \in 2 .. Len(ids) : ids[n] = c
  /\ \A m, n \in 2 .. Len(ids), i, j \in 1 .. k :
       m < n /\ ids[i] = Asked(ids[m]) /\ ids[j] = Asked(ids[n]) =>
         i < j \/ (i = j /\ Before(issued, ids[m], ids[n]))

\* A chirp that is stored is read as it was stored.
LEMMA StoredChirps ==
  ASSUME TableInv, NEW c \in Stored
  PROVE  /\ GetIdChirp(table_, c) \in Chirp
         /\ GetIdChirp(table_, c).id = c /\ GetIdChirp(table_, c).parent_id = Asked(c)
<1>1. GetIdChirp(table_, c) = GetValue(table_, ID_CHIRP(c))
  BY DEF GetIdChirp, GetValue, Has, Stored
<1> QED
  BY <1>1 DEF TableInv, ChirpsOK, Asked

\* The order of posting is one.
LEMMA BeforeOrder ==
  ASSUME IssuedOK
  PROVE  /\ \A a : ~Before(issued, a, a)
         /\ \A a, b, c : Before(issued, a, b) /\ Before(issued, b, c) => Before(issued, a, c)
<1>1. DOMAIN issued = 1 .. Len(issued) /\ Len(issued) \in Nat
  BY DEF IssuedOK
<1>2. \A m, n \in DOMAIN issued : issued[m] = issued[n] => m = n
  BY DEF IssuedOK, IsInjective
<1>3. ASSUME NEW a, Before(issued, a, a) PROVE FALSE
  BY <1>1, <1>2, <1>3 DEF Before
<1>4. ASSUME NEW a, NEW b, NEW c, Before(issued, a, b), Before(issued, b, c)
      PROVE  Before(issued, a, c)
  <2>1. PICK l, m \in DOMAIN issued : l < m /\ issued[l] = a /\ issued[m] = b
    BY <1>4 DEF Before
  <2>2. PICK n, o \in DOMAIN issued : n < o /\ issued[n] = b /\ issued[o] = c
    BY <1>4 DEF Before
  <2>3. l < o
    BY <1>1, <1>2, <2>1, <2>2
  <2> QED
    BY <2>1, <2>2, <2>3 DEF Before
<1> QED
  BY <1>3, <1>4

\* Two sequences, one after the other.
LEMMA Joined ==
  ASSUME NEW S, NEW s \in Seq(S), NEW t \in Seq(S)
  PROVE  /\ s \o t \in Seq(S) /\ Len(s \o t) = Len(s) + Len(t)
         /\ \A n \in 1 .. Len(s) : (s \o t)[n] = s[n]
         /\ \A n \in 1 .. Len(t) : (s \o t)[Len(s) + n] = t[n]
         /\ \A n \in 1 .. Len(s \o t) :
              n \in 1 .. Len(s) \/ \E m \in 1 .. Len(t) : n = Len(s) + m
<1>1. /\ s \o t \in Seq(S) /\ Len(s \o t) = Len(s) + Len(t)
      /\ \A n \in 1 .. Len(s) : (s \o t)[n] = s[n]
      /\ \A n \in 1 .. Len(t) : (s \o t)[Len(s) + n] = t[n]
  OBVIOUS
<1>2. ASSUME NEW n \in 1 .. Len(s \o t), n \notin 1 .. Len(s)
      PROVE  \E m \in 1 .. Len(t) : n = Len(s) + m
  <2>1. n - Len(s) \in 1 .. Len(t) /\ n = Len(s) + (n - Len(s))
    BY <1>1, <1>2
  <2> QED
    BY <2>1
<1> QED
  BY <1>1, <1>2

\* A sequence is the function it is.
LEMMA SequenceIsFunction ==
  ASSUME NEW S, NEW s \in Seq(S)
  PROVE  s = [n \in 1 .. Len(s) |-> s[n]]
OBVIOUS

\* Nothing is queued when all are answered.
LEMMA VisitQueue ==
  ASSUME NEW ids \in Seq(Stored), NEW k \in 0 .. Len(ids)
  PROVE  Visit(ids, k).queue = <<>> <=> k = Len(ids)
<1> DEFINE g[n \in 1 .. (Len(ids) - k)] == GetIdChirp(table_, ids[k + n])
<1>1. Visit(ids, k).queue = g
  BY DEF Visit
<1>2. DOMAIN g = 1 .. (Len(ids) - k)
  OBVIOUS
<1> HIDE DEF g
<1>3. CASE k = Len(ids)
  <2>1. Visit(ids, k).queue = [n \in 1 .. 0 |-> GetIdChirp(table_, ids[k + n])]
    BY <1>3 DEF Visit
  <2> QED
    BY <1>3, <2>1
<1>4. CASE k # Len(ids)
  <2>1. 1 \in DOMAIN g
    BY <1>2, <1>4
  <2>2. DOMAIN <<>> = {}
    OBVIOUS
  <2> QED
    BY <1>1, <1>4, <2>1, <2>2
<1> QED
  BY <1>3, <1>4

\* A round of the loop: one more is answered, and its list of replies is queued.
LEMMA VisitStep ==
  ASSUME TableInv, NEW ids \in Seq(Stored), NEW k \in Nat, k < Len(ids)
  PROVE  Visited(table_, Visit(ids, k)) = Visit(ids \o GetIdReply(table_, ids[k + 1]), k + 1)
<1> DEFINE G(c)    == GetIdChirp(table_, c)
           kids    == GetIdReply(table_, ids[k + 1])
           more    == ids \o kids
           chirps  == [n \in 1 .. k |-> G(ids[n])]
           queue   == [n \in 1 .. (Len(ids) - k) |-> G(ids[k + n])]
           replies == [n \in DOMAIN kids |-> G(kids[n])]
<1>1. k + 1 \in 1 .. Len(ids) /\ ids[k + 1] \in Stored
  OBVIOUS
<1>2. kids \in Seq(Stored)
  BY <1>1 DEF TableInv, RepliesOK
<1>3. Head(queue) = G(ids[k + 1])
  <2>1. 1 \in 1 .. (Len(ids) - k)
    OBVIOUS
  <2> QED
    BY <2>1
<1>4. G(ids[k + 1]).id = ids[k + 1]
  BY <1>1, StoredChirps
<1>5. Visited(table_, Visit(ids, k))
        = [chirps |-> Append(chirps, G(ids[k + 1])), queue |-> Tail(queue) \o replies]
  <2>1. Visit(ids, k).chirps = chirps /\ Visit(ids, k).queue = queue
    BY DEF Visit
  <2> HIDE DEF G, chirps, queue
  <2>2. Head(queue).id = ids[k + 1] /\ Head(queue) = G(ids[k + 1])
    BY <1>3, <1>4
  <2> QED
    BY <2>1, <2>2 DEF Visited, G
<1> HIDE DEF G, kids
<1>6. /\ more \in Seq(Stored) /\ Len(more) = Len(ids) + Len(kids) /\ Len(kids) \in Nat
      /\ DOMAIN kids = 1 .. Len(kids)
      /\ \A n \in 1 .. Len(ids) : more[n] = ids[n]
      /\ \A n \in 1 .. Len(kids) : more[Len(ids) + n] = kids[n]
  BY <1>2, Joined
<1> HIDE DEF more
<1> DEFINE C == {G(c) : c \in Stored}
<1>7. chirps \in Seq(C) /\ Len(chirps) = k
  <2>1. \A n \in 1 .. k : ids[n] \in Stored
    OBVIOUS
  <2> QED
    BY <2>1
<1>8. queue \in Seq(C) /\ Len(queue) = Len(ids) - k
  <2>1. \A n \in 1 .. (Len(ids) - k) : ids[k + n] \in Stored
    OBVIOUS
  <2>2. queue \in [1 .. (Len(ids) - k) -> C]
    BY <2>1
  <2> QED
    BY <2>2
<1>9. replies \in Seq(C) /\ Len(replies) = Len(kids)
  BY <1>2, <1>6
<1>10. Append(chirps, G(ids[k + 1])) = [n \in 1 .. (k + 1) |-> G(more[n])]
  <2>1. /\ DOMAIN Append(chirps, G(ids[k + 1])) = 1 .. (k + 1)
        /\ Append(chirps, G(ids[k + 1])) = [n \in 1 .. (k + 1) |->
                                              Append(chirps, G(ids[k + 1]))[n]]
    BY <1>7
  <2>2. ASSUME NEW n \in 1 .. (k + 1)
        PROVE  Append(chirps, G(ids[k + 1]))[n] = G(more[n])
    <3>1. more[n] = ids[n]
      BY <1>6
    <3>2. CASE n = k + 1
      BY <1>7, <3>1, <3>2
    <3>3. CASE n \in 1 .. k
      <4>1. Append(chirps, G(ids[k + 1]))[n] = chirps[n]
        BY <1>7, <3>3
      <4> QED
        BY <3>1, <3>3, <4>1
    <3> QED
      BY <3>2, <3>3
  <2> QED
    BY <2>1, <2>2
<1>11. Tail(queue) \o replies = [n \in 1 .. (Len(more) - (k + 1)) |-> G(more[k + 1 + n])]
  <2> HIDE DEF C
  <2>1. /\ Tail(queue) \in Seq(C) /\ Len(Tail(queue)) = Len(ids) - (k + 1)
        /\ \A n \in 1 .. (Len(ids) - (k + 1)) : Tail(queue)[n] = queue[n + 1]
    <3> HIDE DEF queue
    <3>1. queue # <<>> /\ Len(queue) \in Nat
      BY <1>8
    <3> QED
      BY <1>8, <3>1
  <2>2. \A n \in 1 .. (Len(ids) - (k + 1)) : queue[n + 1] = G(ids[k + (n + 1)])
    <3>1. \A n \in 1 .. (Len(ids) - (k + 1)) : n + 1 \in 1 .. (Len(ids) - k)
      OBVIOUS
    <3> QED
      BY <3>1
  <2> DEFINE tail == Tail(queue)
  <2> HIDE DEF queue, tail
  <2>0. /\ tail \in Seq(C) /\ Len(tail) = Len(ids) - (k + 1) /\ Len(tail) \in Nat
        /\ Len(ids) \in Nat
        /\ \A n \in 1 .. Len(tail) : tail[n] = queue[n + 1]
    BY <2>1 DEF tail
  <2>3. /\ tail \o replies \in Seq(C) /\ Len(tail \o replies) = Len(tail) + Len(replies)
        /\ \A n \in 1 .. Len(tail) : (tail \o replies)[n] = tail[n]
        /\ \A n \in 1 .. Len(replies) : (tail \o replies)[Len(tail) + n] = replies[n]
        /\ \A n \in 1 .. Len(tail \o replies) :
             n \in 1 .. Len(tail) \/ \E m \in 1 .. Len(replies) : n = Len(tail) + m
    BY <1>9, <2>0, Joined
  <2>4. Len(tail \o replies) = Len(more) - (k + 1)
    BY <1>6, <1>9, <2>0, <2>3
  <2>5. ASSUME NEW n \in 1 .. (Len(more) - (k + 1))
        PROVE  (tail \o replies)[n] = G(more[k + 1 + n])
    <3>1. CASE n \in 1 .. Len(tail)
      <4>1. (tail \o replies)[n] = G(ids[k + (n + 1)])
        BY <2>0, <2>2, <2>3, <3>1
      <4>2. k + (n + 1) = k + 1 + n /\ k + 1 + n \in 1 .. Len(ids)
        <5>1. n \in Nat /\ 1 <= n /\ n <= Len(ids) - (k + 1) /\ Len(ids) \in Nat
          BY <2>0, <3>1
        <5> QED
          BY <5>1
      <4> QED
        BY <1>6, <4>1, <4>2
    <3>2. CASE \E m \in 1 .. Len(replies) : n = Len(tail) + m
      <4>1. PICK m \in 1 .. Len(replies) : n = Len(tail) + m
        BY <3>2
      <4>2. (tail \o replies)[n] = G(kids[m])
        BY <1>6, <1>9, <2>3, <4>1
      <4>3. k + 1 + n = Len(ids) + m
        BY <1>9, <2>0, <4>1
      <4> QED
        BY <1>6, <1>9, <4>1, <4>2, <4>3
    <3> QED
      BY <2>3, <2>4, <3>1, <3>2
  <2>6. tail \o replies = [n \in 1 .. Len(tail \o replies) |-> (tail \o replies)[n]]
    BY <2>3, SequenceIsFunction
  <2> QED
    BY <2>4, <2>5, <2>6 DEF tail
<1> QED
  BY <1>5, <1>10, <1>11 DEF Visit, G, more, kids

\* The loop starts with the chirp that was asked for, ...
LEMMA LevelsFirst ==
  ASSUME TableInv, NEW root \in Stored
  PROVE  /\ InLevels(root, <<root>>, 0)
         /\ Visit(<<root>>, 0) = [chirps |-> <<>>, queue |-> <<GetIdChirp(table_, root)>>]
<1>1. /\ <<root>> \in Seq(Stored) /\ Len(<<root>>) = 1 /\ <<root>>[1] = root
      /\ <<root>> # <<>> /\ DOMAIN <<root>> = 1 .. 1
  OBVIOUS
<1>2. IsInjective(<<root>>)
  BY <1>1 DEF IsInjective
<1>3. InLevels(root, <<root>>, 0)
  BY <1>1, <1>2 DEF InLevels
<1>4. [n \in 1 .. 0 |-> GetIdChirp(table_, <<root>>[n])] = <<>>
  OBVIOUS
<1>5. [n \in 1 .. 1 |-> GetIdChirp(table_, <<root>>[0 + n])] = <<GetIdChirp(table_, root)>>
  <2> DEFINE c == GetIdChirp(table_, root)
  <2>1. \A n \in 1 .. 1 : GetIdChirp(table_, <<root>>[0 + n]) = c
    BY <1>1
  <2>2. [n \in 1 .. 1 |-> GetIdChirp(table_, <<root>>[0 + n])] = [n \in 1 .. 1 |-> c]
    BY <2>1
  <2> HIDE DEF c
  <2>3. <<c>> = [n \in 1 .. 1 |-> c]
    OBVIOUS
  <2> QED
    BY <2>2, <2>3 DEF c
<1> QED
  BY <1>1, <1>3, <1>4, <1>5 DEF Visit

\* ... and queues the answers to the one it answers.
LEMMA LevelsStep ==
  ASSUME TableInv, NEW root, NEW ids, NEW k, InLevels(root, ids, k), k < Len(ids)
  PROVE  InLevels(root, ids \o GetIdReply(table_, ids[k + 1]), k + 1)
<1> DEFINE kids == GetIdReply(table_, ids[k + 1])
           more == ids \o kids
           L == Len(ids)
           K == Len(kids)
<1>1. /\ ids \in Seq(Stored) /\ k \in Nat /\ L \in Nat /\ k + 1 \in 1 .. L
      /\ \A n \in 1 .. L : ids[n] \in Stored
  BY DEF InLevels
<1>2. /\ kids \in Seq(Stored) /\ IsInjective(kids)
      /\ Range(kids) = Answers(ids[k + 1])
      /\ \A m, n \in DOMAIN kids : m < n => Before(issued, kids[m], kids[n])
  BY <1>1 DEF TableInv, RepliesOK
<1> HIDE DEF kids
<1>3. /\ more \in Seq(Stored) /\ Len(more) = L + K /\ K \in Nat
      /\ \A n \in 1 .. L : more[n] = ids[n]
      /\ \A n \in 1 .. K : more[L + n] = kids[n]
      /\ \A n \in 1 .. Len(more) : n \in 1 .. L \/ \E m \in 1 .. K : n = L + m
  BY <1>1, <1>2, Joined
<1> HIDE DEF more, L, K
<1>4. /\ \A n \in 1 .. K : kids[n] \in Answers(ids[k + 1])
      /\ \A c \in Answers(ids[k + 1]) : \E n \in 1 .. K : kids[n] = c
      /\ DOMAIN kids = 1 .. K
  BY <1>2 DEF Range, K
<1>5. /\ \A m, n \in 1 .. L : ids[m] = ids[n] => m = n
      /\ \A m, n \in 1 .. K : kids[m] = kids[n] => m = n
  <2>1. DOMAIN ids = 1 .. L
    BY <1>1 DEF L
  <2> QED
    BY <1>2, <1>4, <2>1 DEF InLevels, IsInjective
<1>6. /\ ids[1] = root
      /\ \A n \in 2 .. L : Before(issued, root, ids[n])
      /\ \A n \in 2 .. L : \E m \in 1 .. k : ids[n] \in Answers(ids[m])
      /\ \A m \in 1 .. k : \A c \in Answers(ids[m]) : \E n \in 2 .. L : ids[n] = c
      /\ \A m, n \in 2 .. L, i, j \in 1 .. k :
           m < n /\ ids[i] = Asked(ids[m]) /\ ids[j] = Asked(ids[n]) =>
             i < j \/ (i = j /\ Before(issued, ids[m], ids[n]))
  BY DEF InLevels, L
<1>7. /\ \A c : c \in Answers(ids[k + 1]) => Asked(c) = ids[k + 1] /\ Before(issued, ids[k + 1], c)
      /\ \A c, p : c \in Answers(p) => Asked(c) = p
  BY DEF Answers
<1>8. \A n \in 1 .. K : Before(issued, root, kids[n])
  <2>1. k + 1 = 1 \/ k + 1 \in 2 .. L
    BY <1>1
  <2>2. ids[k + 1] = root \/ Before(issued, root, ids[k + 1])
    BY <1>6, <2>1
  <2> QED
    BY <1>4, <1>7, <2>2, BeforeOrder DEF TableInv
<1>9. \A m \in 1 .. L, n \in 1 .. K : ids[m] # kids[n]
  <2> SUFFICES ASSUME NEW m \in 1 .. L, NEW n \in 1 .. K, ids[m] = kids[n] PROVE FALSE
    OBVIOUS
  <2>1. CASE m = 1
    BY <1>6, <1>8, <2>1, BeforeOrder DEF TableInv
  <2>2. CASE m # 1
    <3>1. m \in 2 .. L
      BY <1>1, <2>2
    <3>2. PICK j \in 1 .. k : ids[m] \in Answers(ids[j])
      BY <1>6, <3>1
    <3>3. ids[j] = ids[k + 1]
      BY <1>4, <1>7, <3>2
    <3> QED
      BY <1>1, <1>5, <3>3
  <2> QED
    BY <2>1, <2>2
<1>10. IsInjective(more)
  <2>1. DOMAIN more = 1 .. Len(more)
    BY <1>3
  <2> SUFFICES ASSUME NEW m \in 1 .. Len(more), NEW n \in 1 .. Len(more), more[m] = more[n]
               PROVE  m = n
    BY <2>1 DEF IsInjective
  <2>2. CASE m \in 1 .. L /\ n \in 1 .. L
    BY <1>3, <1>5, <2>2
  <2>3. CASE m \in 1 .. L /\ n \notin 1 .. L
    BY <1>3, <1>9, <2>3
  <2>4. CASE m \notin 1 .. L /\ n \in 1 .. L
    BY <1>3, <1>9, <2>4
  <2>5. CASE m \notin 1 .. L /\ n \notin 1 .. L
    BY <1>3, <1>5, <2>5
  <2> QED
    BY <2>2, <2>3, <2>4, <2>5
<1>11. k + 1 \in 0 .. Len(more) /\ more # <<>> /\ more[1] = root
  <2>1. Len(more) > 0 /\ 1 \in 1 .. L
    BY <1>1, <1>3
  <2>2. more # <<>>
    BY <2>1
  <2> QED
    BY <1>1, <1>3, <1>6, <2>1, <2>2
\* Each but the first, wherever it comes from.
<1>12. /\ \A n \in 2 .. Len(more) : n \in 2 .. L \/ \E o \in 1 .. K : n = L + o
       /\ \A n \in 2 .. L : n \in 1 .. L /\ n \in 2 .. Len(more)
       /\ \A n \in 1 .. K : L + n \in 2 .. Len(more)
       /\ \A n \in 1 .. (k + 1) : n \in 1 .. L /\ (n \in 1 .. k \/ n = k + 1)
       /\ \A n \in 1 .. k : n \in 1 .. (k + 1) /\ n \in 1 .. L
       /\ k + 1 \in 1 .. (k + 1)
  <2>1. ASSUME NEW n \in 2 .. Len(more) PROVE n \in 2 .. L \/ \E o \in 1 .. K : n = L + o
    <3>1. n \in 1 .. Len(more)
      BY <1>3
    <3> QED
      BY <1>1, <1>3, <3>1
  <2> QED
    BY <1>1, <1>3, <2>1
<1>13. \A n \in 2 .. Len(more) : Before(issued, root, more[n])
  <2> SUFFICES ASSUME NEW n \in 2 .. Len(more) PROVE Before(issued, root, more[n])
    OBVIOUS
  <2>1. CASE n \in 2 .. L
    <3>1. more[n] = ids[n]
      BY <1>3, <1>12, <2>1
    <3> QED
      BY <1>6, <2>1, <3>1
  <2>2. CASE \E o \in 1 .. K : n = L + o
    <3>1. PICK o \in 1 .. K : n = L + o
      BY <2>2
    <3> QED
      BY <1>3, <1>8, <3>1
  <2> QED
    BY <1>12, <2>1, <2>2
<1>14. \A n \in 2 .. Len(more) : \E m \in 1 .. (k + 1) : more[n] \in Answers(more[m])
  <2> SUFFICES ASSUME NEW n \in 2 .. Len(more)
               PROVE  \E m \in 1 .. (k + 1) : more[n] \in Answers(more[m])
    OBVIOUS
  <2>1. CASE n \in 2 .. L
    <3>1. PICK m \in 1 .. k : ids[n] \in Answers(ids[m])
      BY <1>6, <2>1
    <3> QED
      BY <1>3, <1>12, <2>1, <3>1
  <2>2. CASE \E o \in 1 .. K : n = L + o
    BY <1>3, <1>4, <1>12, <2>2
  <2> QED
    BY <1>12, <2>1, <2>2
<1>15. \A m \in 1 .. (k + 1) : \A c \in Answers(more[m]) :
         \E n \in 2 .. Len(more) : more[n] = c
  <2> SUFFICES ASSUME NEW m \in 1 .. (k + 1), NEW c \in Answers(more[m])
               PROVE  \E n \in 2 .. Len(more) : more[n] = c
    OBVIOUS
  <2>1. more[m] = ids[m]
    BY <1>3, <1>12
  <2>2. CASE m \in 1 .. k
    <3>1. PICK n \in 2 .. L : ids[n] = c
      BY <1>6, <2>1, <2>2
    <3> QED
      BY <1>3, <1>12, <3>1
  <2>3. CASE m = k + 1
    <3>1. PICK n \in 1 .. K : kids[n] = c
      BY <1>4, <2>1, <2>3
    <3> QED
      BY <1>3, <1>12, <3>1
  <2> QED
    BY <1>12, <2>2, <2>3
\* The parents, and where they are.
<1>16. \A n \in 2 .. L, j \in 1 .. (k + 1) : ids[j] = Asked(ids[n]) => j \in 1 .. k
  <2> SUFFICES ASSUME NEW n \in 2 .. L, NEW j \in 1 .. (k + 1), ids[j] = Asked(ids[n])
               PROVE  j \in 1 .. k
    OBVIOUS
  <2>1. PICK m \in 1 .. k : ids[n] \in Answers(ids[m])
    BY <1>6
  <2>2. ids[j] = ids[m]
    BY <1>7, <2>1
  <2> QED
    BY <1>5, <1>12, <2>2
<1>17. \A n \in 1 .. K, j \in 1 .. (k + 1) : ids[j] = Asked(kids[n]) => j = k + 1
  BY <1>1, <1>4, <1>5, <1>7, <1>12
<1>18. \A m, n \in 2 .. Len(more), i, j \in 1 .. (k + 1) :
         m < n /\ more[i] = Asked(more[m]) /\ more[j] = Asked(more[n]) =>
           i < j \/ (i = j /\ Before(issued, more[m], more[n]))
  <2> SUFFICES ASSUME NEW m \in 2 .. Len(more), NEW n \in 2 .. Len(more),
                      NEW i \in 1 .. (k + 1), NEW j \in 1 .. (k + 1), m < n,
                      more[i] = Asked(more[m]), more[j] = Asked(more[n])
               PROVE  i < j \/ (i = j /\ Before(issued, more[m], more[n]))
    OBVIOUS
  <2>1. more[i] = ids[i] /\ more[j] = ids[j]
    BY <1>3, <1>12
  <2>2. CASE n \in 2 .. L
    <3>1. m \in 2 .. L
      BY <1>1, <2>2
    <3>2. more[m] = ids[m] /\ more[n] = ids[n]
      BY <1>3, <1>12, <2>2, <3>1
    <3>3. i \in 1 .. k /\ j \in 1 .. k
      BY <1>16, <2>1, <2>2, <3>1, <3>2
    <3>4. ids[i] = Asked(ids[m]) /\ ids[j] = Asked(ids[n])
      BY <2>1, <3>2
    <3>5. i < j \/ (i = j /\ Before(issued, ids[m], ids[n]))
      BY <1>6, <2>2, <3>1, <3>3, <3>4
    <3> QED
      BY <3>2, <3>5
  <2>3. CASE \E o \in 1 .. K : n = L + o
    <3>1. PICK o \in 1 .. K : n = L + o
      BY <2>3
    <3>2. more[n] = kids[o]
      BY <1>3, <3>1
    <3>3. j = k + 1
      BY <1>17, <2>1, <3>2
    <3>4. CASE m \in 2 .. L
      <4>1. more[m] = ids[m]
        BY <1>3, <1>12, <3>4
      <4>2. i \in 1 .. k
        BY <1>16, <2>1, <3>4, <4>1
      <4> QED
        BY <1>1, <3>3, <4>2
    <3>5. CASE \E p \in 1 .. K : m = L + p
      <4>1. PICK p \in 1 .. K : m = L + p
        BY <3>5
      <4>2. more[m] = kids[p]
        BY <1>3, <4>1
      <4>3. i = k + 1
        BY <1>17, <2>1, <4>2
      <4>4. p < o
        BY <1>1, <3>1, <4>1
      <4> QED
        BY <1>2, <1>4, <3>2, <3>3, <4>2, <4>3, <4>4
    <3> QED
      BY <1>12, <3>4, <3>5
  <2> QED
    BY <1>12, <2>2, <2>3
<1> QED
  BY <1>3, <1>10, <1>11, <1>13, <1>14, <1>15, <1>18 DEF InLevels, more, kids

-----------------------------------------------------------------------------
(* read: the loop.                                                          *)

Round(visit) == IF visit.queue = <<>> THEN visit ELSE Visited(table_, visit)

Visits == {Visit(v[1], v[2]) : v \in {w \in Seq(Stored) \X Nat : w[2] \in 0 .. Len(w[1])}}

\* Whatever the ids, there is such a visit.
LEMMA VisitIn ==
  ASSUME NEW ids \in Seq(Stored), NEW k \in Nat, k \in 0 .. Len(ids)
  PROVE  Visit(ids, k) \in Visits
<1> DEFINE v == <<ids, k>>
<1>1. v \in Seq(Stored) \X Nat /\ v[1] = ids /\ v[2] = k
  OBVIOUS
<1> HIDE DEF v
<1>2. Visit(ids, k) = Visit(v[1], v[2])
  BY <1>1
<1> QED
  BY <1>1, <1>2 DEF Visits

\* A round leads from one to the next.
LEMMA RoundVisits ==
  ASSUME TableInv, NEW visit \in Visits
  PROVE  Round(visit) \in Visits
<1>1. PICK ids \in Seq(Stored), k \in Nat : k \in 0 .. Len(ids) /\ visit = Visit(ids, k)
  BY DEF Visits
<1>2. CASE k = Len(ids)
  BY <1>1, <1>2, VisitQueue DEF Round
<1>3. CASE k # Len(ids)
  <2> DEFINE kids == GetIdReply(table_, ids[k + 1])
             more == ids \o kids
  <2>1. Round(visit) = Visited(table_, visit) /\ k < Len(ids)
    BY <1>1, <1>3, VisitQueue DEF Round
  <2>2. Round(visit) = Visit(more, k + 1)
    BY <1>1, <2>1, VisitStep
  <2>3. ids[k + 1] \in Stored
    BY <1>1, <2>1
  <2>4. kids \in Seq(Stored)
    BY <2>3 DEF TableInv, RepliesOK
  <2> HIDE DEF kids
  <2>5. more \in Seq(Stored) /\ k + 1 \in 0 .. Len(more) /\ k + 1 \in Nat
    BY <1>1, <2>1, <2>4
  <2> HIDE DEF more
  <2> QED
    BY <2>2, <2>5, VisitIn
<1> QED
  BY <1>2, <1>3

\* The loop, round by round.
ReadRun(f, root, N) ==
  /\ f[0] = [chirps |-> <<>>, queue |-> <<GetIdChirp(table_, root)>>]
  /\ \A n \in 1 .. N : f[n] = Round(f[n - 1])
  /\ ReadLoop(table_, root, N) = f[N]

\* There is such a function.
LEMMA ReadLoopRun ==
  ASSUME TableInv, NEW root \in Stored, NEW N \in Nat
  PROVE  \E f : ReadRun(f, root, N)
<1> DEFINE first == [chirps |-> <<>>, queue |-> <<GetIdChirp(table_, root)>>]
           Loop(f) == f = [n \in 0 .. N |->
                             IF n = 0 THEN first
                             ELSE LET visit == f[n - 1]
                                  IN  IF visit.queue = <<>> THEN visit
                                      ELSE Visited(table_, visit)]
<1>1. first \in Visits
  <2>1. first = Visit(<<root>>, 0) /\ <<root>> \in Seq(Stored) /\ 0 \in 0 .. Len(<<root>>)
    BY LevelsFirst
  <2> QED
    BY <2>1, VisitIn
<1>2. \A visit \in Visits : Round(visit) \in Visits
  BY RoundVisits
<1>3. ReadLoop(table_, root, N) = (CHOOSE f : Loop(f))[N]
  BY DEF ReadLoop
<1> HIDE DEF first
<1>4. PICK f : /\ f \in [0 .. N -> Visits] /\ f[0] = first
               /\ \A n \in 1 .. N : f[n] = Round(f[n - 1])
  <2> DEFINE step == [n \in 1 .. N |-> [visit \in Visits |-> Round(visit)]]
  <2>1. step \in [1 .. N -> [Visits -> Visits]]
    BY <1>2
  <2>2. \A n \in 1 .. N : \A visit \in Visits : step[n][visit] = Round(visit)
    OBVIOUS
  <2> HIDE DEF step
  <2>3. PICK f : Recurs(f, N, Visits, first, step)
    BY <1>1, <2>1, Recursion
  <2>4. \A n \in 1 .. N : n - 1 \in 0 .. N
    OBVIOUS
  <2>5. \A n \in 1 .. N : f[n - 1] \in Visits
    BY <2>3, <2>4 DEF Recurs
  <2>6. \A n \in 1 .. N : f[n] = Round(f[n - 1])
    BY <2>2, <2>3, <2>5 DEF Recurs
  <2> QED
    BY <2>3, <2>6 DEF Recurs
<1>5. Loop(f)
  <2>1. f = [n \in 0 .. N |-> f[n]]
    BY <1>4
  <2>2. \A n \in 0 .. N : n = 0 \/ n \in 1 .. N
    OBVIOUS
  <2>3. \A n \in 0 .. N : f[n] = IF n = 0 THEN first ELSE Round(f[n - 1])
    BY <1>4, <2>2
  <2> QED
    BY <2>1, <2>3 DEF Round
<1>6. PICK g : Loop(g) /\ ReadLoop(table_, root, N) = g[N]
  <2> DEFINE g == CHOOSE x : Loop(x)
  <2>1. Loop(g)
    BY <1>5
  <2> QED
    BY <1>3, <2>1
<1>7. \A n \in 0 .. N : g[n] = IF n = 0 THEN first ELSE Round(g[n - 1])
  BY <1>6 DEF Round
<1>8. /\ 0 \in 0 .. N
      /\ \A n \in 1 .. N : n \in 0 .. N /\ n # 0
  OBVIOUS
<1>9. g[0] = first /\ \A n \in 1 .. N : g[n] = Round(g[n - 1])
  BY <1>7, <1>8
<1> QED
  BY <1>6, <1>9 DEF ReadRun, first

\* After as many rounds as there are ids nothing is queued: every round but idle ones
\* answers one chirp more, and no chirp twice.
LEMMA LoopReads ==
  ASSUME TableInv, NEW root \in Stored
  PROVE  \E ids : /\ InLevels(root, ids, Len(ids))
                  /\ ReadLoop(table_, root, Cardinality(Id)) = Visit(ids, Len(ids))
<1> DEFINE N == Cardinality(Id)
<1>1. N \in Nat
  BY IdsAssumption, FS_CardinalityType
<1> HIDE DEF N
<1>2. PICK f : ReadRun(f, root, N)
  BY <1>1, ReadLoopRun
<1> DEFINE Reached(n) == \E ids, k : /\ InLevels(root, ids, k) /\ f[n] = Visit(ids, k)
                                     /\ k = n \/ k = Len(ids)
           S == {n \in 0 .. N : Reached(n)}
<1>3. 0 \in S
  <2>1. Reached(0)
    BY <1>2, LevelsFirst DEF ReadRun
  <2> QED
    BY <1>1, <2>1
<1>4. ASSUME NEW n \in 1 .. N, n - 1 \in S PROVE n \in S
  <2>1. PICK ids, k : /\ InLevels(root, ids, k) /\ f[n - 1] = Visit(ids, k)
                      /\ k = n - 1 \/ k = Len(ids)
    BY <1>4
  <2>2. ids \in Seq(Stored) /\ k \in 0 .. Len(ids)
    BY <2>1 DEF InLevels
  <2>3. f[n] = Round(f[n - 1])
    BY <1>2 DEF ReadRun
  <2>4. CASE k = Len(ids)
    <3>1. f[n] = Visit(ids, k)
      BY <2>1, <2>2, <2>3, <2>4, VisitQueue DEF Round
    <3>2. Reached(n)
      BY <2>1, <2>4, <3>1
    <3> QED
      BY <1>1, <3>2
  <2>5. CASE k # Len(ids)
    <3> DEFINE more == ids \o GetIdReply(table_, ids[k + 1])
    <3>1. k < Len(ids) /\ k \in Nat /\ k + 1 = n
      BY <1>1, <2>1, <2>2, <2>5
    <3>2. Visit(ids, k).queue # <<>>
      BY <2>2, <2>5, VisitQueue
    <3>3. f[n] = Visit(more, k + 1)
      BY <2>1, <2>2, <2>3, <3>1, <3>2, VisitStep DEF Round
    <3>4. InLevels(root, more, k + 1)
      BY <2>1, <3>1, LevelsStep
    <3> HIDE DEF more
    <3>5. Reached(n)
      BY <3>1, <3>3, <3>4
    <3> QED
      BY <1>1, <3>5
  <2> QED
    BY <2>4, <2>5
<1>5. \A n \in 0 .. N : n \in S
  <2> HIDE DEF S
  <2> QED
    BY <1>1, <1>3, <1>4, UpTo
<1>6. N \in 0 .. N
  BY <1>1
<1>7. PICK ids, k : /\ InLevels(root, ids, k) /\ f[N] = Visit(ids, k)
                    /\ k = N \/ k = Len(ids)
  BY <1>5, <1>6
<1>8. k = Len(ids)
  <2>1. ids \in Seq(Stored) /\ k \in 0 .. Len(ids) /\ IsInjective(ids) /\ Len(ids) \in Nat
    BY <1>7 DEF InLevels
  <2>2. ids \in [1 .. Len(ids) -> Id]
    BY <2>1 DEF Stored
  <2>3. ids \in Injection(1 .. Len(ids), Id)
    BY <2>1, <2>2 DEF IsInjective, Injection
  <2>4. Cardinality(1 .. Len(ids)) <= Cardinality(Id)
    BY <2>3, IdsAssumption, FS_Injection
  <2>5. Cardinality(1 .. Len(ids)) = Len(ids)
    <3> DEFINE l == Len(ids)
    <3>1. l \in Nat
      BY <2>1
    <3> HIDE DEF l
    <3>2. Cardinality(1 .. l) = IF 1 > l THEN 0 ELSE l - 1 + 1
      BY <3>1, FS_Interval
    <3> QED
      BY <3>1, <3>2 DEF l
  <2> QED
    BY <1>1, <1>7, <2>1, <2>4, <2>5 DEF N
<1> QED
  BY <1>2, <1>7, <1>8 DEF ReadRun, N

-----------------------------------------------------------------------------
(* A thread.                                                               *)

\* A set of chirps that holds the first of a thread, with each other one the one
\* before it that it answers, and with each one all answers to it, is the thread.
LEMMA ThreadIs ==
  ASSUME NEW t, NEW S, NEW order \in Seq(S), IsInjective(order), NEW root,
         NEW X \in SUBSET Range(order), root \in X,
         \A x \in X : \/ x = root
                      \/ LET p == GetIdChirp(t, x).parent_id
                         IN  p \in X /\ Before(order, p, x),
         \A x \in Range(order) :
           LET p == GetIdChirp(t, x).parent_id
           IN  p \in X /\ Before(order, p, x) => x \in X
  PROVE  Thread(t, order, root) = X
<1> DEFINE N       == Len(order)
           P(x)    == GetIdChirp(t, x).parent_id
           Loop(f) == f = [n \in 0 .. N |->
                             IF n = 0 THEN {}
                             ELSE LET next == order[n]
                                  IN  IF next = root \/ GetIdChirp(t, next).parent_id \in f[n - 1]
                                      THEN f[n - 1] \cup {next} ELSE f[n - 1]]
           Seen(n) == X \cap {order[m] : m \in 1 .. n}
<1>1. N \in Nat /\ DOMAIN order = 1 .. N
  OBVIOUS
<1>2. Thread(t, order, root) = (CHOOSE f : Loop(f))[N]
  BY DEF Thread
<1> HIDE DEF N
<1>3. Seen(0) = {}
  OBVIOUS
<1>4. ASSUME NEW n \in 1 .. N
      PROVE  Seen(n) = IF order[n] = root \/ P(order[n]) \in Seen(n - 1)
                       THEN Seen(n - 1) \cup {order[n]} ELSE Seen(n - 1)
  <2> DEFINE next == order[n]
  <2>1. {order[m] : m \in 1 .. n} = {order[m] : m \in 1 .. (n - 1)} \cup {next}
    <3>1. \A m : m \in 1 .. n <=> m \in 1 .. (n - 1) \/ m = n
      OBVIOUS
    <3> QED
      BY <3>1
  <2>2. \A m \in 1 .. N : order[m] = next => m = n
    BY <1>1 DEF IsInjective
  <2>3. \A p : p \in {order[m] : m \in 1 .. (n - 1)} <=> Before(order, p, next)
    <3>1. ASSUME NEW m \in 1 .. (n - 1) PROVE Before(order, order[m], next)
      <4>1. m \in 1 .. N /\ m < n
        BY <1>1
      <4> QED
        BY <1>1, <4>1 DEF Before
    <3>2. ASSUME NEW p, Before(order, p, next) PROVE p \in {order[m] : m \in 1 .. (n - 1)}
      <4>1. PICK l, m \in 1 .. N : l < m /\ order[l] = p /\ order[m] = next
        BY <1>1, <3>2 DEF Before
      <4>2. l \in 1 .. (n - 1)
        BY <2>2, <4>1
      <4> QED
        BY <4>1, <4>2
    <3> QED
      BY <3>1, <3>2
  <2>4. next \in Range(order)
    BY <1>1 DEF Range
  <2>5. next \in X <=> next = root \/ P(next) \in Seen(n - 1)
    <3> DEFINE p == P(next)
    <3>1. p \in Seen(n - 1) <=> p \in X /\ Before(order, p, next)
      BY <2>3
    <3>2. next \in X => next = root \/ (p \in X /\ Before(order, p, next))
      OBVIOUS
    <3>3. p \in X /\ Before(order, p, next) => next \in X
      BY <2>4
    <3> QED
      BY <3>1, <3>2, <3>3
  <2> QED
    BY <2>1, <2>5
<1> HIDE DEF Seen
<1>5. PICK f : Loop(f)
  <2> DEFINE f == [n \in 0 .. N |-> Seen(n)]
  <2>1. \A n \in 1 .. N : n - 1 \in 0 .. N
    BY <1>1
  <2>2. \A n \in 1 .. N : f[n - 1] = Seen(n - 1)
    BY <2>1
  <2>3. \A n \in 0 .. N : n = 0 \/ n \in 1 .. N
    BY <1>1
  <2>4. \A n \in 0 .. N :
          Seen(n) = IF n = 0 THEN {}
                    ELSE LET next == order[n]
                         IN  IF next = root \/ GetIdChirp(t, next).parent_id \in f[n - 1]
                             THEN f[n - 1] \cup {next} ELSE f[n - 1]
    BY <1>3, <1>4, <2>2, <2>3
  <2>5. f = [n \in 0 .. N |-> Seen(n)]
    OBVIOUS
  <2> HIDE DEF f
  <2>6. Loop(f)
    BY <2>4, <2>5
  <2> QED
    BY <2>6
<1>6. PICK g : Loop(g) /\ Thread(t, order, root) = g[N]
  <2> DEFINE g == CHOOSE x : Loop(x)
  <2>1. Loop(g)
    BY <1>5
  <2> QED
    BY <1>2, <2>1
<1>7. /\ g[0] = {}
      /\ \A n \in 1 .. N : g[n] = IF order[n] = root \/ P(order[n]) \in g[n - 1]
                                  THEN g[n - 1] \cup {order[n]} ELSE g[n - 1]
  <2>1. \A n \in 0 .. N :
          g[n] = IF n = 0 THEN {}
                 ELSE LET next == order[n]
                      IN  IF next = root \/ GetIdChirp(t, next).parent_id \in g[n - 1]
                          THEN g[n - 1] \cup {next} ELSE g[n - 1]
    BY <1>6
  <2>2. 0 \in 0 .. N /\ \A n \in 1 .. N : n \in 0 .. N /\ n # 0
    BY <1>1
  <2> QED
    BY <2>1, <2>2
<1> DEFINE Alike == {n \in 0 .. N : g[n] = Seen(n)}
<1>8. 0 \in Alike
  <2>1. 0 \in 0 .. N
    BY <1>1
  <2>2. g[0] = Seen(0)
    BY <1>3, <1>7
  <2> QED
    BY <2>1, <2>2
<1>9. ASSUME NEW n \in 1 .. N, n - 1 \in Alike PROVE n \in Alike
  <2>1. n \in 0 .. N /\ g[n - 1] = Seen(n - 1)
    BY <1>1, <1>9
  <2>2. g[n] = Seen(n)
    BY <1>4, <1>7, <2>1
  <2> QED
    BY <2>1, <2>2
<1>10. \A n \in 0 .. N : n \in Alike
  <2> HIDE DEF Alike
  <2> QED
    BY <1>1, <1>8, <1>9, UpTo
<1>11. g[N] = Seen(N)
  BY <1>1, <1>10
<1>12. Seen(N) = X
  <2>1. X \subseteq {order[m] : m \in 1 .. N}
    BY <1>1 DEF Range
  <2> QED
    BY <2>1 DEF Seen
<1> QED
  BY <1>6, <1>11, <1>12

\* The position of an element that is in a list once.
LEMMA PositionIs ==
  ASSUME NEW list, IsInjective(list), NEW n \in DOMAIN list
  PROVE  Position(list, list[n]) = n
<1> DEFINE At(m) == m \in DOMAIN list /\ list[m] = list[n]
<1>1. \A m : At(m) => m = n
  BY DEF IsInjective
<1>2. Position(list, list[n]) = CHOOSE m \in DOMAIN list : list[m] = list[n]
  BY DEF Position
<1> QED
  BY <1>1, <1>2

-----------------------------------------------------------------------------
(* Every step.                                                             *)

ReplyOK ==
  /\ reply.status \in {"none", "OK", "NOT_FOUND", "ALREADY_EXISTS"}
  /\ \A n \in DOMAIN reply.chirps : reply.chirps[n] \in Chirp

Inv == TableInv /\ ReplyOK

\* What read answers.
LEMMA ReadAnswers ==
  ASSUME TableInv, NEW root \in Id, read(root), Has(table_, ID_CHIRP(root))
  PROVE  \E ids : /\ InLevels(root, ids, Len(ids))
                  /\ Answer("OK", [n \in 1 .. Len(ids) |-> GetIdChirp(table_, ids[n])])
<1>1. root \in Stored
  BY DEF Stored
<1>2. PICK ids : /\ InLevels(root, ids, Len(ids))
                 /\ ReadLoop(table_, root, Cardinality(Id)) = Visit(ids, Len(ids))
  BY <1>1, LoopReads
<1>3. Visit(ids, Len(ids)).chirps = [n \in 1 .. Len(ids) |-> GetIdChirp(table_, ids[n])]
  BY DEF Visit
<1>4. Answer("OK", Visit(ids, Len(ids)).chirps)
  BY <1>2 DEF read
<1> QED
  BY <1>2, <1>3, <1>4

\* To read keeps what the table keeps.
LEMMA ReadStep ==
  ASSUME TableInv, UNCHANGED <<table_, issued>>
  PROVE  TableInv'
<1>1. IssuedOK' /\ ChirpsOK' /\ RepliesOK'
  BY ChirpsStay DEF Same
<1>2. UsersOK'
  BY DEF TableInv, UsersOK
<1>3. FollowedAreUsers'
  BY ListsStay
<1> QED
  BY <1>1, <1>2, <1>3 DEF TableInv

\* An answer is one if the chirps in it are.
LEMMA AnswerOK ==
  ASSUME NEW code \in {"OK", "NOT_FOUND", "ALREADY_EXISTS"}, NEW chirps,
         \A n \in DOMAIN chirps : chirps[n] \in Chirp, Answer(code, chirps)
  PROVE  ReplyOK'
BY DEF Answer, ReplyOK

\* An answer may be without chirps.
LEMMA NoChirps == \A n \in DOMAIN <<>> : <<>>[n] \in Chirp
OBVIOUS

\* Nothing is in the table, and nothing has been answered.
LEMMA InvInit == Init => Inv
BY TableInit, NoChirps DEF Init, NoAnswer, Inv, ReplyOK

\* Every step keeps the invariant.
LEMMA InvNext == Inv /\ [Next]_vars => Inv'
<1> SUFFICES ASSUME Inv, [Next]_vars PROVE Inv'
  OBVIOUS
<1>1. ASSUME NEW name \in Name, registeruser(name) PROVE Inv'
  <2>1. ReplyOK'
    <3>1. \E code \in {"OK", "NOT_FOUND", "ALREADY_EXISTS"} : Answer(code, <<>>)
      BY <1>1 DEF registeruser
    <3> QED
      BY <3>1, AnswerOK, NoChirps
  <2> QED
    BY <1>1, <2>1, RegisterStep DEF Inv
<1>2. ASSUME NEW name \in Name, NEW parent \in Id \cup {DefaultReply}, chirp(name, parent)
      PROVE  Inv'
  <2>1. ReplyOK'
    <3>1. CASE ~Has(table_, USER_ID(name))
      <4>1. Answer("NOT_FOUND", <<>>)
        BY <1>2, <3>1 DEF chirp
      <4> QED
        BY <4>1, AnswerOK, NoChirps
    <3>2. CASE Has(table_, USER_ID(name))
      <4>1. PICK id \in Id :
              Answer("OK", <<[id |-> id, username |-> name, parent_id |-> parent]>>)
        BY <1>2, <3>2, ChirpTable DEF Inv
      <4> DEFINE new == [id |-> id, username |-> name, parent_id |-> parent]
      <4>2. new \in Chirp
        BY DEF Chirp
      <4> HIDE DEF new
      <4>3. \A n \in DOMAIN <<new>> : <<new>>[n] \in Chirp
        BY <4>2
      <4>4. Answer("OK", <<new>>)
        BY <4>1 DEF new
      <4> QED
        BY <4>3, <4>4, AnswerOK
    <3> QED
      BY <3>1, <3>2
  <2> QED
    BY <1>2, <2>1, ChirpStep DEF Inv
<1>3. ASSUME NEW name \in Name, NEW to_follow \in Name, follow(name, to_follow) PROVE Inv'
  <2>1. ReplyOK'
    <3>1. \E code \in {"OK", "NOT_FOUND", "ALREADY_EXISTS"} : Answer(code, <<>>)
      BY <1>3 DEF follow
    <3> QED
      BY <3>1, AnswerOK, NoChirps
  <2> QED
    BY <1>3, <2>1, FollowStep DEF Inv
<1>4. ASSUME NEW id \in Id, read(id) PROVE Inv'
  <2>1. ReplyOK'
    <3>1. CASE ~Has(table_, ID_CHIRP(id))
      <4>1. Answer("NOT_FOUND", <<>>)
        BY <1>4, <3>1 DEF read
      <4> QED
        BY <4>1, AnswerOK, NoChirps
    <3>2. CASE Has(table_, ID_CHIRP(id))
      <4>1. PICK ids : /\ InLevels(id, ids, Len(ids))
                       /\ Answer("OK", [n \in 1 .. Len(ids) |-> GetIdChirp(table_, ids[n])])
        BY <1>4, <3>2, ReadAnswers DEF Inv
      <4>2. \A n \in 1 .. Len(ids) : ids[n] \in Stored
        BY <4>1 DEF InLevels
      <4>3. \A n \in 1 .. Len(ids) : GetIdChirp(table_, ids[n]) \in Chirp
        BY <4>2, StoredChirps DEF Inv
      <4> DEFINE chirps == [n \in 1 .. Len(ids) |-> GetIdChirp(table_, ids[n])]
      <4>4. \A n \in DOMAIN chirps : chirps[n] \in Chirp
        BY <4>3
      <4> HIDE DEF chirps
      <4>5. Answer("OK", chirps)
        BY <4>1 DEF chirps
      <4> QED
        BY <4>4, <4>5, AnswerOK
    <3> QED
      BY <3>1, <3>2
  <2>2. UNCHANGED <<table_, issued>>
    BY <1>4 DEF read
  <2> QED
    BY <2>1, <2>2, ReadStep DEF Inv
<1>5. CASE UNCHANGED vars
  <2>1. TableInv'
    BY <1>5, ReadStep DEF vars, Inv
  <2> QED
    BY <1>5, <2>1 DEF vars, Inv, ReplyOK
<1> QED
  BY <1>1, <1>2, <1>3, <1>4, <1>5 DEF Next

\* In every state the table keeps what it keeps and the answer is one.
THEOREM FakeServiceInv == Spec => []Inv
BY InvInit, InvNext, PTL DEF Spec

\* The table holds what each kind of key is for, no id is issued twice, and an answer
\* holds chirps (service_string.cc:62-169).
THEOREM TypeCorrect == Spec => []TypeOK
<1>1. ASSUME Inv PROVE TypeOK
  <2>1. \A id \in Stored : table_[ID_CHIRP(id)] \in Chirp
    <3>1. \A id \in Stored : GetValue(table_, ID_CHIRP(id)) = table_[ID_CHIRP(id)]
      BY DEF Stored, GetValue
    <3> QED
      BY <1>1, <3>1 DEF Inv, TableInv, ChirpsOK
  <2>2. IsInjective(issued) /\ Range(issued) \subseteq Id
    BY <1>1 DEF Inv, TableInv, IssuedOK, Range
  <2> QED
    BY <1>1, <2>1, <2>2 DEF TypeOK, Inv, TableInv, UsersOK, ReplyOK
<1> QED
  BY <1>1, FakeServiceInv, PTL

\* read asks the table for no key that is missing, though it does not check: every chirp
\* has a list of replies, and what the list is taken apart into are ids of chirps
\* (service_string.cc:155-166, utils/cchash.h:58).
THEOREM ReadsAreThere == Spec => []ReadsWhatIsThere
<1>1. Inv => ReadsWhatIsThere
  BY DEF Inv, TableInv, RepliesOK, Answers, ReadsWhatIsThere
<1> QED
  BY <1>1, FakeServiceInv, PTL

\* The loop of read ends (service_string.cc:154), after no more rounds than there are
\* ids, whatever chirps name as their parents.
THEOREM ReadsEnd == Spec => []ReadEnds
<1>1. ASSUME Inv, NEW id \in Stored
      PROVE  ReadLoop(table_, id, Cardinality(Id)).queue = <<>>
  <2>1. PICK ids : /\ InLevels(id, ids, Len(ids))
                   /\ ReadLoop(table_, id, Cardinality(Id)) = Visit(ids, Len(ids))
    BY <1>1, LoopReads DEF Inv
  <2> QED
    BY <2>1, VisitQueue DEF InLevels
<1>2. Inv => ReadEnds
  BY <1>1 DEF ReadEnds
<1> QED
  BY <1>2, FakeServiceInv, PTL

\* A list of followed names holds lines of registered names other than its owner's;
\* it holds such names, each once, if no name has a newline in it
\* (service_string.cc:116-137, utils/parser.h:10-29).
THEOREM FollowsCorrect == Spec => []FollowedAreUsers
<1>1. Inv => FollowedAreUsers
  BY DEF Inv, TableInv
<1> QED
  BY <1>1, FakeServiceInv, PTL

-----------------------------------------------------------------------------
(* What is answered is a thread.                                           *)

\* A chirp that is posted is a thread of its own.
LEMMA NewThread ==
  ASSUME IssuedOK, Range(issued) = Stored, NEW id \in Id \ Range(issued), NEW t
  PROVE  Thread(t, Append(issued, id), id) = {id}
<1> DEFINE order == Append(issued, id)
<1>1. order \in Seq(Id) /\ IsInjective(order) /\ Range(order) = Range(issued) \cup {id}
  BY AppendNew DEF IssuedOK
<1>2. /\ DOMAIN order = 1 .. (Len(issued) + 1) /\ order[Len(issued) + 1] = id
      /\ Len(issued) \in Nat
  BY DEF IssuedOK
<1> HIDE DEF order
<1>3. \A x : ~Before(order, id, x)
  <2> SUFFICES ASSUME NEW x, Before(order, id, x) PROVE FALSE
    OBVIOUS
  <2>1. PICK m, n \in 1 .. (Len(issued) + 1) : m < n /\ order[m] = id /\ order[n] = x
    BY <1>2 DEF Before
  <2>2. m = Len(issued) + 1
    BY <1>1, <1>2, <2>1 DEF IsInjective
  <2> QED
    BY <1>2, <2>1, <2>2
<1> DEFINE X == {id}
<1>4. /\ X \in SUBSET Range(order) /\ id \in X /\ \A x \in X : x = id
  BY <1>1
<1>5. \A x \in Range(order) :
        LET p == GetIdChirp(t, x).parent_id
        IN  p \in X /\ Before(order, p, x) => x \in X
  BY <1>3
<1> HIDE DEF X
<1>6. Thread(t, order, id) = X
  BY <1>1, <1>4, <1>5, ThreadIs
<1> QED
  BY <1>6 DEF X, order

\* The ids that the loop of read ends with are those of the thread.
LEMMA ReadThread ==
  ASSUME TableInv, NEW root, NEW ids, InLevels(root, ids, Len(ids))
  PROVE  Thread(table_, issued, root) = Range(ids)
<1> DEFINE X == Range(ids)
           P(x) == GetIdChirp(table_, x).parent_id
<1>1. /\ ids \in Seq(Stored) /\ DOMAIN ids = 1 .. Len(ids) /\ Len(ids) \in Nat
      /\ 1 \in 1 .. Len(ids) /\ ids[1] = root
  BY DEF InLevels
<1>2. \A x : x \in X <=> \E n \in 1 .. Len(ids) : ids[n] = x
  BY <1>1 DEF Range
<1>3. Range(issued) = Stored /\ issued \in Seq(Id) /\ IsInjective(issued)
  BY DEF TableInv, ChirpsOK, IssuedOK
<1>4. X \in SUBSET Range(issued) /\ root \in X
  BY <1>1, <1>2, <1>3
<1>5. \A x \in Stored : P(x) = Asked(x)
  BY StoredChirps
<1> HIDE DEF X, P
<1>6. ASSUME NEW x \in X, x # root PROVE P(x) \in X /\ Before(issued, P(x), x)
  <2>1. PICK n \in 1 .. Len(ids) : ids[n] = x
    BY <1>2
  <2>2. n \in 2 .. Len(ids)
    BY <1>1, <1>6, <2>1
  <2>3. PICK m \in 1 .. Len(ids) : x \in Answers(ids[m])
    BY <2>1, <2>2 DEF InLevels
  <2>4. x \in Stored /\ Asked(x) = ids[m] /\ Before(issued, ids[m], x)
    BY <2>3 DEF Answers
  <2>5. ids[m] \in X
    BY <1>2
  <2> QED
    BY <1>5, <2>4, <2>5
<1>7. ASSUME NEW x \in Range(issued), P(x) \in X, Before(issued, P(x), x) PROVE x \in X
  <2>1. PICK m \in 1 .. Len(ids) : ids[m] = P(x)
    BY <1>2, <1>7
  <2>2. x \in Answers(ids[m])
    BY <1>3, <1>5, <1>7, <2>1 DEF Answers
  <2>3. PICK n \in 2 .. Len(ids) : ids[n] = x
    BY <2>2 DEF InLevels
  <2>4. n \in 1 .. Len(ids)
    OBVIOUS
  <2> QED
    BY <1>2, <2>3, <2>4
<1>8. Thread(table_, issued, root) = X
  BY <1>3, <1>4, <1>6, <1>7, ThreadIs DEF P
<1> QED
  BY <1>8 DEF X

\* The positions of two of them, and of the parents of the two.
LEMMA ReadOrder ==
  ASSUME TableInv, NEW root, NEW ids, InLevels(root, ids, Len(ids)),
         NEW m \in 2 .. Len(ids), NEW n \in 2 .. Len(ids), m < n
  PROVE  \/ Position(ids, Asked(ids[m])) < Position(ids, Asked(ids[n]))
         \/ /\ Position(ids, Asked(ids[m])) = Position(ids, Asked(ids[n]))
            /\ Position(issued, ids[m]) < Position(issued, ids[n])
<1>1. IsInjective(ids) /\ DOMAIN ids = 1 .. Len(ids)
  BY DEF InLevels
<1>2. \A x \in 2 .. Len(ids) : \E i \in 1 .. Len(ids) : ids[x] \in Answers(ids[i])
  BY DEF InLevels
<1>3. PICK i \in 1 .. Len(ids) : ids[i] = Asked(ids[m])
  BY <1>2 DEF Answers
<1>4. PICK j \in 1 .. Len(ids) : ids[j] = Asked(ids[n])
  BY <1>2 DEF Answers
<1>5. Position(ids, Asked(ids[m])) = i /\ Position(ids, Asked(ids[n])) = j
  BY <1>1, <1>3, <1>4, PositionIs
<1>6. i < j \/ (i = j /\ Before(issued, ids[m], ids[n]))
  BY <1>3, <1>4 DEF InLevels
<1>7. ASSUME Before(issued, ids[m], ids[n])
      PROVE  Position(issued, ids[m]) < Position(issued, ids[n])
  <2>1. PICK a, b \in DOMAIN issued : a < b /\ issued[a] = ids[m] /\ issued[b] = ids[n]
    BY <1>7 DEF Before
  <2>2. Position(issued, ids[m]) = a /\ Position(issued, ids[n]) = b
    BY <2>1, PositionIs DEF TableInv, IssuedOK
  <2> QED
    BY <2>1, <2>2
<1> QED
  BY <1>5, <1>6, <1>7

\* What read answers is the whole thread of the chirp it was asked for and nothing else:
\* each chirp once, parents before the replies to them, in the order of the parents,
\* and the replies to one parent in the order of posting (service_string.cc:143-169).
THEOREM ReadIsWholeThread == Spec => ReadIsThread
<1> DEFINE ids       == [n \in DOMAIN reply'.chirps |-> reply'.chirps[n].id]
           Parent(n) == Position(ids, reply'.chirps[n].parent_id)
           Good      == /\ IsInjective(ids) /\ Range(ids) = Thread(table_', issued', ids[1])
                        /\ \A m, n \in 2 .. Len(ids) : m < n =>
                             \/ Parent(m) < Parent(n)
                             \/ /\ Parent(m) = Parent(n)
                                /\ Position(issued', ids[m]) < Position(issued', ids[n])
<1>1. ASSUME TableInv, Next, reply'.status = "OK", reply'.chirps # <<>> PROVE Good
  <2>1. ASSUME NEW name \in Name, NEW parent \in Id \cup {DefaultReply}, chirp(name, parent)
        PROVE  Good
    <3>1. Has(table_, USER_ID(name))
      BY <1>1, <2>1 DEF chirp, Answer
    <3>2. PICK id \in Id \ Range(issued) :
            /\ issued' = Append(issued, id)
            /\ Answer("OK", <<[id |-> id, username |-> name, parent_id |-> parent]>>)
      BY <1>1, <2>1, <3>1, ChirpTable
    <3> DEFINE new == [id |-> id, username |-> name, parent_id |-> parent]
    <3>3. reply'.chirps = <<new>> /\ new.id = id
      BY <3>2 DEF Answer
    <3> HIDE DEF new
    <3>4. ids = [n \in 1 .. 1 |-> id]
      BY <3>3
    <3>5. ids = <<id>> /\ Len(ids) = 1 /\ ids[1] = id /\ DOMAIN ids = 1 .. 1
      BY <3>4
    <3> HIDE DEF ids
    <3>6. Range(ids) = {id} /\ IsInjective(ids)
      BY <3>5 DEF Range, IsInjective
    <3>7. Thread(table_', issued', ids[1]) = {id}
      BY <1>1, <3>2, <3>5, NewThread DEF TableInv, ChirpsOK
    <3> QED
      BY <3>5, <3>6, <3>7
  <2>2. ASSUME NEW root \in Id, read(root) PROVE Good
    <3>1. Has(table_, ID_CHIRP(root))
      BY <1>1, <2>2 DEF read, Answer
    <3>2. PICK all : /\ InLevels(root, all, Len(all))
                     /\ Answer("OK", [n \in 1 .. Len(all) |-> GetIdChirp(table_, all[n])])
      BY <1>1, <2>2, <3>1, ReadAnswers
    <3> DEFINE chirps == [n \in 1 .. Len(all) |-> GetIdChirp(table_, all[n])]
    <3>3. reply'.chirps = chirps
      BY <3>2 DEF Answer
    <3>4. all \in Seq(Stored) /\ IsInjective(all) /\ all[1] = root
      BY <3>2 DEF InLevels
    <3>5. \A n \in 1 .. Len(all) : /\ chirps[n].id = all[n]
                                   /\ chirps[n].parent_id = Asked(all[n])
      BY <1>1, <3>4, StoredChirps
    <3>6. DOMAIN chirps = 1 .. Len(all)
      OBVIOUS
    <3> HIDE DEF chirps
    <3>7. ids = [n \in 1 .. Len(all) |-> all[n]]
      BY <3>3, <3>5, <3>6
    <3>8. ids = all
      BY <3>4, <3>7, SequenceIsFunction
    <3> HIDE DEF ids
    <3>9. \A n \in 2 .. Len(ids) : Parent(n) = Position(all, Asked(all[n]))
      <4>1. \A n \in 2 .. Len(all) : n \in 1 .. Len(all)
        OBVIOUS
      <4> QED
        BY <3>3, <3>5, <3>8, <4>1
    <3>10. table_' = table_ /\ issued' = issued
      BY <2>2 DEF read
    <3>11. Range(ids) = Thread(table_', issued', ids[1])
      BY <1>1, <3>2, <3>4, <3>8, <3>10, ReadThread
    <3> HIDE DEF Parent
    <3>12. ASSUME NEW m \in 2 .. Len(ids), NEW n \in 2 .. Len(ids), m < n
           PROVE  \/ Parent(m) < Parent(n)
                  \/ /\ Parent(m) = Parent(n)
                     /\ Position(issued', ids[m]) < Position(issued', ids[n])
      BY <1>1, <3>2, <3>8, <3>9, <3>10, <3>12, ReadOrder
    <3> QED
      BY <3>4, <3>8, <3>11, <3>12
  <2>3. ASSUME NEW name \in Name, registeruser(name) PROVE FALSE
    BY <1>1, <2>3 DEF registeruser, Answer
  <2>4. ASSUME NEW name \in Name, NEW to_follow \in Name, follow(name, to_follow) PROVE FALSE
    BY <1>1, <2>4 DEF follow, Answer
  <2> HIDE DEF Good
  <2> QED
    BY <1>1, <2>1, <2>2, <2>3, <2>4 DEF Next
<1>2. Inv /\ [Next]_vars => [reply'.status = "OK" /\ reply'.chirps # <<>> => Good]_vars
  <2> HIDE DEF Good
  <2> QED
    BY <1>1 DEF Inv
<1> QED
  BY <1>2, FakeServiceInv, PTL DEF Spec, ReadIsThread
==============================================================================
