----------------------------- MODULE Answers_proofs -----------------------------
(***************************************************************************)
(* From the bytes of the console to what is read of an answer, in two      *)
(* parts.                                                                  *)
(*                                                                         *)
(* read_console_exchange(), for every stream, every limit and every way    *)
(* the bytes can be cut: what is found in a prefix of the stream is what   *)
(* the whole stream holds.                                                 *)
(*                                                                         *)
(* The parsers, for every number of positions, cells and fields and any    *)
(* amount of damage: what is accepted of an answer is what the module      *)
(* said.                                                                   *)
(***************************************************************************)
EXTENDS Framing, Parsers, SequenceTheorems, FiniteSetTheorems, WellFoundedInduction, TLAPS

(***************************************************************************)
(* Least and greatest.                                                     *)
(***************************************************************************)

LEMMA MinOf ==
  ASSUME NEW S \in SUBSET Nat, S # {}
  PROVE  Min(S) \in S /\ \A x \in S : Min(S) <= x
<1>1. PICK a \in S : \A b \in S : <<b, a>> \notin OpToRel(<, Nat)
  BY WFMin, NatLessThanWellFounded
<1>2. \A b \in S : ~(b < a)
  BY <1>1, Zenon DEF OpToRel
<1>3. \A b \in S : a <= b
  BY <1>2
<1> QED
  BY <1>3 DEF Min

LEMMA MaxOf ==
  ASSUME NEW n \in Nat, NEW S \in SUBSET (1..n), S # {}
  PROVE  Max(S) \in S /\ \A x \in S : x <= Max(S)
<1> DEFINE T == {n - x : x \in S}
<1>1. T \subseteq Nat /\ T # {}
  <2>1. \A x \in S : n - x \in Nat
    OBVIOUS
  <2>2. \E x \in S : n - x \in T
    OBVIOUS
  <2> QED
    BY <2>1, <2>2
<1>2. PICK x \in S : Min(T) = n - x
  BY <1>1, MinOf
<1>3. \A y \in S : n - x <= n - y
  <2>1. \A y \in S : n - y \in T
    OBVIOUS
  <2>2. \A z \in T : Min(T) <= z
    BY <1>1, MinOf
  <2> QED
    BY <1>2, <2>1, <2>2
<1>4. \A y \in S : x >= y
  BY <1>3
<1> QED
  BY <1>4 DEF Max

LEMMA FirstOfIsLeast ==
  ASSUME NEW S \in SUBSET (Nat \ {0})
  PROVE  /\ FirstOf(S) = 0 => S = {}
         /\ FirstOf(S) # 0 => FirstOf(S) \in S
         /\ FirstOf(S) \in Nat
         /\ \A x \in S : FirstOf(S) <= x
         /\ \A x \in S : (\A y \in S : x <= y) => FirstOf(S) = x
<1>1. CASE S = {}
  BY <1>1 DEF FirstOf
<1>2. CASE S # {}
  <2>1. Min(S) \in S /\ \A x \in S : Min(S) <= x
    BY <1>2, MinOf
  <2>2. FirstOf(S) = Min(S)
    BY <1>2 DEF FirstOf
  <2>3. ASSUME NEW x \in S, \A y \in S : x <= y PROVE FirstOf(S) = x
    <3>1. x <= Min(S) /\ Min(S) <= x /\ x \in Nat /\ Min(S) \in Nat
      BY <2>1, <2>3
    <3> QED
      BY <2>1, <2>2, <3>1
  <2> QED
    BY <2>1, <2>2, <2>3
<1> QED
  BY <1>1, <1>2

(***************************************************************************)
(* Prefixes.                                                               *)
(***************************************************************************)

LEMMA PartOf ==
  ASSUME NEW s \in Seq(Bytes), NEW m \in Nat, NEW n \in Nat, m >= 1, n <= Len(s)
  PROVE  /\ SubSeq(s, m, n) \in Seq(Bytes)
         /\ Len(SubSeq(s, m, n)) = IF m <= n THEN n - m + 1 ELSE 0
         /\ DOMAIN SubSeq(s, m, n) = 1..Len(SubSeq(s, m, n))
         /\ \A i \in 1..(n - m + 1) : SubSeq(s, m, n)[i] = s[m + i - 1]
<1>1. \A i \in m..n : s[i] \in Bytes
  BY ElementOfSeq
<1>2. /\ SubSeq(s, m, n) \in Seq(Bytes)
      /\ Len(SubSeq(s, m, n)) = IF m <= n THEN n - m + 1 ELSE 0
      /\ \A i \in 1..(n - m + 1) : SubSeq(s, m, n)[i] = s[m + i - 1]
  BY <1>1, SubSeqProperties
<1> QED
  BY <1>2, LenProperties

LEMMA PrefixOf ==
  ASSUME NEW s \in Seq(Bytes), NEW g \in 0..Len(s)
  PROVE  /\ SubSeq(s, 1, g) \in Seq(Bytes)
         /\ Len(SubSeq(s, 1, g)) = g
         /\ \A i \in 1..g : SubSeq(s, 1, g)[i] = s[i]
BY PartOf

LEMMA TailOf ==
  ASSUME NEW s \in Seq(Bytes), NEW m \in Nat, NEW n \in Nat, m >= 1, m <= n + 1, n <= Len(s)
  PROVE  /\ SubSeq(s, m, n) \in Seq(Bytes)
         /\ Len(SubSeq(s, m, n)) = n - m + 1
         /\ \A i \in 1..(n - m + 1) : SubSeq(s, m, n)[i] = s[m + i - 1]
<1>1. m <= n \/ n - m + 1 = 0
  OBVIOUS
<1> QED
  BY <1>1, PartOf

\* The same bytes, cut from the stream or from a prefix of it.
LEMMA PartOfPrefix ==
  ASSUME NEW s \in Seq(Bytes), NEW g \in 0..Len(s),
         NEW m \in Nat, NEW n \in Nat, m >= 1, n <= g
  PROVE  SubSeq(SubSeq(s, 1, g), m, n) = SubSeq(s, m, n)
<1> DEFINE p == SubSeq(s, 1, g)
           a == SubSeq(p, m, n)
           b == SubSeq(s, m, n)
<1>1. /\ p \in Seq(Bytes) /\ Len(p) = g /\ \A i \in 1..g : p[i] = s[i]
  BY PartOf
<1> HIDE DEF p
<1>2. /\ a \in Seq(Bytes) /\ Len(a) = (IF m <= n THEN n - m + 1 ELSE 0)
      /\ \A i \in 1..(n - m + 1) : a[i] = p[m + i - 1]
  BY <1>1, PartOf
<1>3. /\ b \in Seq(Bytes) /\ Len(b) = (IF m <= n THEN n - m + 1 ELSE 0)
      /\ \A i \in 1..(n - m + 1) : b[i] = s[m + i - 1]
  BY PartOf
<1>4. \A i \in 1..Len(a) : a[i] = b[i]
  BY <1>1, <1>2, <1>3
<1> QED
  BY <1>2, <1>3, <1>4, SeqEqual DEF p

(***************************************************************************)
(* The markers.                                                            *)
(***************************************************************************)

\* A start marker in the bytes received, and in a whole stream.
StartHere(p, i) ==
  /\ p[i] = "@"
  /\ i > 1 => /\ p[i - 1] \in LineEnds
              /\ i < Len(p) => p[i + 1] \in LineEnds

StartInStream(s, i) ==
  s[i] = "@" /\ (i = 1 \/ (/\ s[i - 1] \in LineEnds
                           /\ i < Len(s) /\ s[i + 1] \in LineEnds))

EndHere(p, start, i) == i > start /\ i < Len(p) /\ p[i] = "$" /\ p[i + 1] = "$"

\* What the searches return: the first place, or 0 for none.
LEMMA Searches ==
  ASSUME NEW s \in Seq(Bytes)
  PROVE  /\ FindResponseStart(s) \in Nat /\ StartOf(s) \in Nat /\ EndOf(s) \in Nat
         /\ FindResponseStart(s) # 0 =>
              FindResponseStart(s) \in 1..Len(s) /\ StartHere(s, FindResponseStart(s))
         /\ \A i \in 1..Len(s) : StartHere(s, i) =>
              FindResponseStart(s) # 0 /\ FindResponseStart(s) <= i
         /\ StartOf(s) # 0 => StartOf(s) \in 1..Len(s) /\ StartInStream(s, StartOf(s))
         /\ \A i \in 1..Len(s) : StartInStream(s, i) => StartOf(s) # 0 /\ StartOf(s) <= i
         /\ EndOf(s) # 0 => /\ StartOf(s) # 0 /\ EndOf(s) \in 1..Len(s)
                            /\ EndHere(s, StartOf(s), EndOf(s))
         /\ \A i \in 1..Len(s) : StartOf(s) # 0 /\ EndHere(s, StartOf(s), i)
                                   => EndOf(s) # 0 /\ EndOf(s) <= i
<1> DEFINE n == Len(s)
           A == {i \in DOMAIN s : StartHere(s, i)}
           B == {i \in DOMAIN s : StartInStream(s, i)}
           C == {i \in 1..Len(s) - 1 : StartOf(s) # 0 /\ i > StartOf(s)
                                       /\ s[i] = "$" /\ s[i + 1] = "$"}
<1>1. n \in Nat /\ DOMAIN s = 1..n
  BY LenProperties
<1>2. FindResponseStart(s) = FirstOf(A) /\ StartOf(s) = FirstOf(B) /\ EndOf(s) = FirstOf(C)
  BY DEF FindResponseStart, StartHere, StartOf, StartInStream, EndOf
<1>3. A \in SUBSET (Nat \ {0}) /\ B \in SUBSET (Nat \ {0}) /\ C \in SUBSET (Nat \ {0})
  BY <1>1
<1>4. ASSUME NEW S \in SUBSET (Nat \ {0})
      PROVE  /\ FirstOf(S) \in Nat
             /\ FirstOf(S) # 0 => FirstOf(S) \in S
             /\ \A x \in S : FirstOf(S) # 0 /\ FirstOf(S) <= x
  BY FirstOfIsLeast
<1>5. \A i \in 1..n : (i \in A <=> StartHere(s, i)) /\ (i \in B <=> StartInStream(s, i))
  BY <1>1
<1>6. \A i \in 1..n : i \in C <=> StartOf(s) # 0 /\ EndHere(s, StartOf(s), i)
  BY <1>1 DEF EndHere
<1>7. A \subseteq 1..n /\ B \subseteq 1..n /\ C \subseteq 1..n
  BY <1>1
<1> HIDE DEF A, B, C, n
<1>8. /\ FindResponseStart(s) \in Nat
      /\ FindResponseStart(s) # 0 => FindResponseStart(s) \in A
      /\ \A x \in A : FindResponseStart(s) # 0 /\ FindResponseStart(s) <= x
  BY <1>2, <1>3, <1>4
<1>9. /\ StartOf(s) \in Nat /\ StartOf(s) # 0 => StartOf(s) \in B
      /\ \A x \in B : StartOf(s) # 0 /\ StartOf(s) <= x
  BY <1>2, <1>3, <1>4
<1>10. /\ EndOf(s) \in Nat /\ EndOf(s) # 0 => EndOf(s) \in C
       /\ \A x \in C : EndOf(s) # 0 /\ EndOf(s) <= x
  BY <1>2, <1>3, <1>4
<1>11. StartOf(s) \in Nat /\ EndOf(s) \in Nat
  BY <1>2, <1>3, <1>4
<1>12. /\ FindResponseStart(s) # 0 =>
             FindResponseStart(s) \in 1..n /\ StartHere(s, FindResponseStart(s))
       /\ \A i \in 1..n : StartHere(s, i) =>
             FindResponseStart(s) # 0 /\ FindResponseStart(s) <= i
  BY <1>5, <1>7, <1>8
<1>13. /\ StartOf(s) # 0 => StartOf(s) \in 1..n /\ StartInStream(s, StartOf(s))
       /\ \A i \in 1..n : StartInStream(s, i) => StartOf(s) # 0 /\ StartOf(s) <= i
  BY <1>5, <1>7, <1>9, <1>11
<1>14. /\ EndOf(s) # 0 => /\ StartOf(s) # 0 /\ EndOf(s) \in 1..n
                          /\ EndHere(s, StartOf(s), EndOf(s))
       /\ \A i \in 1..n : StartOf(s) # 0 /\ EndHere(s, StartOf(s), i)
                            => EndOf(s) # 0 /\ EndOf(s) <= i
  BY <1>6, <1>7, <1>10, <1>11
<1> QED
  BY <1>8, <1>11, <1>12, <1>13, <1>14 DEF n

LEMMA EndSearch ==
  ASSUME NEW p \in Seq(Bytes), NEW start \in Nat
  PROVE  /\ FindEnd(p, start) \in Nat
         /\ FindEnd(p, start) # 0 =>
              FindEnd(p, start) \in 1..Len(p) /\ EndHere(p, start, FindEnd(p, start))
         /\ \A i \in 1..Len(p) : EndHere(p, start, i) =>
              FindEnd(p, start) # 0 /\ FindEnd(p, start) <= i
<1> DEFINE A == {i \in DOMAIN p : EndHere(p, start, i)}
<1>1. Len(p) \in Nat /\ DOMAIN p = 1..Len(p)
  BY LenProperties
<1>2. FindEnd(p, start) = FirstOf(A)
  BY DEF FindEnd, EndHere
<1>3. A \in SUBSET (Nat \ {0})
  BY <1>1
<1>4. \A i \in 1..Len(p) : i \in A <=> EndHere(p, start, i)
  BY <1>1
<1>5. A \subseteq 1..Len(p)
  BY <1>1
<1> HIDE DEF A
<1>6. /\ FirstOf(A) \in Nat /\ FirstOf(A) # 0 => FirstOf(A) \in A
      /\ \A x \in A : FirstOf(A) # 0 /\ FirstOf(A) <= x
  BY <1>3, FirstOfIsLeast
<1>7. FirstOf(A) \in Nat
  BY <1>3, FirstOfIsLeast
<1> QED
  BY <1>2, <1>4, <1>5, <1>6, <1>7

\* A start marker of a prefix is one of the stream if it is not at its end,
\* and the other way round.
LEMMA StartInPrefix ==
  ASSUME NEW s \in Seq(Bytes), NEW g \in 0..Len(s), NEW i \in 1..g, i < g
  PROVE  StartHere(SubSeq(s, 1, g), i) <=> StartInStream(s, i)
<1> DEFINE p == SubSeq(s, 1, g)
<1>1. g \in Nat /\ Len(s) \in Nat /\ Len(p) = g /\ \A j \in 1..g : p[j] = s[j]
  BY PartOf, LenProperties
<1> HIDE DEF p
<1>2. p[i] = s[i] /\ p[i + 1] = s[i + 1] /\ (i > 1 => p[i - 1] = s[i - 1])
  BY <1>1
<1>3. StartHere(p, i) <=> StartInStream(s, i)
  BY <1>1, <1>2 DEF StartHere, StartInStream
<1> QED
  BY <1>3 DEF p

LEMMA EndInPrefix ==
  ASSUME NEW s \in Seq(Bytes), NEW g \in 0..Len(s), NEW start \in Nat, NEW i \in 1..g
  PROVE  EndHere(SubSeq(s, 1, g), start, i) <=> EndHere(s, start, i) /\ i < g
<1> DEFINE p == SubSeq(s, 1, g)
<1>1. g \in Nat /\ Len(s) \in Nat /\ Len(p) = g /\ \A j \in 1..g : p[j] = s[j]
  BY PartOf, LenProperties
<1> HIDE DEF p
<1>2. p[i] = s[i] /\ (i < g => p[i + 1] = s[i + 1])
  BY <1>1
<1>3. EndHere(p, start, i) <=> EndHere(s, start, i) /\ i < g
  BY <1>1, <1>2 DEF EndHere
<1> QED
  BY <1>3 DEF p

\* Markers found in a prefix are those of the whole stream: a start marker
\* that the cut only feigns has no end marker behind it.
LEMMA FoundIsTheFirst ==
  ASSUME NEW s \in Seq(Bytes), NEW g \in 0..Len(s), NEW start,
         start = FindResponseStart(SubSeq(s, 1, g)),
         start # 0, FindEnd(SubSeq(s, 1, g), start) # 0
  PROVE  /\ StartOf(s) = start /\ EndOf(s) = FindEnd(SubSeq(s, 1, g), start)
         /\ EndOf(s) + 1 <= g
<1> DEFINE p == SubSeq(s, 1, g)
           last == FindEnd(p, start)
<1>1. g \in Nat /\ Len(s) \in Nat /\ g <= Len(s) /\ p \in Seq(Bytes) /\ Len(p) = g
  BY PartOf, LenProperties
<1>2. start \in 1..g /\ StartHere(p, start)
      /\ \A i \in 1..g : StartHere(p, i) => start <= i
  BY <1>1, Searches
<1>3. last \in 1..g /\ EndHere(p, start, last)
      /\ \A i \in 1..g : EndHere(p, start, i) => last <= i
  <2>1. start \in Nat /\ last # 0
    BY <1>1, <1>2
  <2> HIDE DEF p
  <2> QED
    BY <1>1, <2>1, EndSearch
<1>4. start < last /\ last < g
  BY <1>1, <1>2, <1>3 DEF EndHere
<1>5. StartInStream(s, start)
  <2>1. start \in 1..g /\ start < g /\ StartHere(SubSeq(s, 1, g), start)
    BY <1>1, <1>2, <1>3, <1>4
  <2> QED
    BY <2>1, StartInPrefix
<1>6. StartOf(s) # 0 /\ StartOf(s) <= start /\ StartOf(s) \in 1..Len(s)
      /\ StartInStream(s, StartOf(s))
  BY <1>1, <1>2, <1>5, Searches
<1>7. StartOf(s) = start
  <2>1. StartOf(s) \in 1..g /\ StartOf(s) < g
    <3> HIDE DEF last
    <3> QED
      BY <1>1, <1>2, <1>3, <1>4, <1>6
  <2>2. StartHere(p, StartOf(s))
    BY <1>6, <2>1, StartInPrefix
  <2>3. start <= StartOf(s)
    BY <1>2, <2>1, <2>2
  <2> QED
    BY <1>2, <1>6, <2>1, <2>3
<1>8. EndHere(s, start, last)
  BY <1>2, <1>3, EndInPrefix
<1>9. EndOf(s) # 0 /\ EndOf(s) <= last /\ EndOf(s) \in 1..Len(s) /\ EndHere(s, start, EndOf(s))
  BY <1>1, <1>3, <1>6, <1>7, <1>8, Searches
<1>10. EndOf(s) = last
  <2>1. EndOf(s) \in 1..g /\ EndOf(s) < g
    BY <1>1, <1>3, <1>4, <1>9
  <2>2. EndHere(p, start, EndOf(s))
    BY <1>2, <1>9, <2>1, EndInPrefix
  <2>3. last <= EndOf(s)
    BY <1>3, <2>1, <2>2
  <2> QED
    BY <1>3, <1>9, <2>1, <2>3
<1> QED
  BY <1>1, <1>3, <1>4, <1>7, <1>10

\* Once both markers of the stream are in the prefix, they are found there.
LEMMA FirstIsFound ==
  ASSUME NEW s \in Seq(Bytes), NEW g \in 0..Len(s), EndOf(s) # 0, EndOf(s) + 1 <= g
  PROVE  /\ StartOf(s) # 0 /\ StartOf(s) < EndOf(s)
         /\ FindResponseStart(SubSeq(s, 1, g)) = StartOf(s)
         /\ FindEnd(SubSeq(s, 1, g), StartOf(s)) = EndOf(s)
<1> DEFINE p == SubSeq(s, 1, g)
           start == FindResponseStart(p)
           last == FindEnd(p, StartOf(s))
<1>1. g \in Nat /\ Len(s) \in Nat /\ g <= Len(s) /\ p \in Seq(Bytes) /\ Len(p) = g
  BY PartOf, LenProperties
<1>2. /\ StartOf(s) # 0 /\ StartOf(s) \in 1..Len(s) /\ StartInStream(s, StartOf(s))
      /\ EndOf(s) \in 1..Len(s) /\ EndHere(s, StartOf(s), EndOf(s))
  BY Searches
<1>3. StartOf(s) < EndOf(s) /\ EndOf(s) < g /\ StartOf(s) \in 1..g /\ EndOf(s) \in 1..g
  BY <1>1, <1>2 DEF EndHere
<1>4. StartHere(p, StartOf(s))
  BY <1>1, <1>2, <1>3, StartInPrefix
<1>5. start # 0 /\ start <= StartOf(s) /\ start \in 1..g /\ StartHere(p, start)
  BY <1>1, <1>3, <1>4, Searches
<1>6. start = StartOf(s)
  <2>1. start < g /\ start \in 1..Len(s)
    BY <1>1, <1>3, <1>5
  <2>2. StartInStream(s, start)
    BY <1>5, <2>1, StartInPrefix
  <2>3. StartOf(s) <= start
    BY <2>1, <2>2, Searches
  <2> QED
    BY <1>2, <1>5, <2>1, <2>3
<1>7. EndHere(p, StartOf(s), EndOf(s))
  BY <1>2, <1>3, EndInPrefix
<1>8. last # 0 /\ last <= EndOf(s) /\ last \in 1..g /\ EndHere(p, StartOf(s), last)
  <2>1. StartOf(s) \in Nat /\ EndOf(s) \in 1..Len(p)
    BY <1>1, <1>2, <1>3
  <2> HIDE DEF p
  <2> QED
    BY <1>1, <1>7, <2>1, EndSearch
<1>9. last = EndOf(s)
  <2>1. EndHere(s, StartOf(s), last) /\ last \in 1..Len(s)
    BY <1>1, <1>2, <1>8, EndInPrefix
  <2>2. EndOf(s) <= last
    BY <1>2, <2>1, Searches
  <2> QED
    BY <1>2, <1>8, <2>1, <2>2
<1> QED
  BY <1>2, <1>3, <1>6, <1>9

(***************************************************************************)
(* The prompt.                                                             *)
(***************************************************************************)
PromptOf(mode) == IF mode = "user" THEN <<"pylon", ">">> ELSE <<"pylon", "_debug", ">">>

LEMMA PromptParts ==
  ASSUME NEW mode \in {"user", "debug"}
  PROVE  /\ PromptOf(mode) \in Seq(Bytes) /\ Len(PromptOf(mode)) \in {2, 3}
         /\ \A m \in 1..Len(PromptOf(mode)) : PromptOf(mode)[m] \notin LineEnds
         /\ PromptMode(PromptOf(mode)) = mode
<1>1. CASE mode = "user"
  <2>1. PromptOf(mode) = <<"pylon", ">">>
    BY <1>1 DEF PromptOf
  <2>2. <<"pylon", ">">> # <<"pylon", "_debug", ">">>
    <3>1. Len(<<"pylon", ">">>) = 2 /\ Len(<<"pylon", "_debug", ">">>) = 3
      OBVIOUS
    <3> QED
      BY <3>1
  <2> DEFINE p == <<"pylon", ">">>
  <2>3. p \in Seq(Bytes) /\ Len(p) = 2
    BY DEF Bytes
  <2>4. p[1] = "pylon" /\ p[2] = ">"
    OBVIOUS
  <2>5. \A m \in 1..2 : p[m] \notin LineEnds
    BY <2>4 DEF LineEnds
  <2>6. PromptMode(p) = "user"
    BY <2>2 DEF PromptMode
  <2> HIDE DEF p
  <2> QED
    BY <1>1, <2>1, <2>3, <2>5, <2>6 DEF p
<1>2. CASE mode = "debug"
  <2>1. PromptOf(mode) = <<"pylon", "_debug", ">">>
    BY <1>2 DEF PromptOf
  <2> DEFINE p == <<"pylon", "_debug", ">">>
  <2>3. p \in Seq(Bytes) /\ Len(p) = 3
    BY DEF Bytes
  <2>4. p[1] = "pylon" /\ p[2] = "_debug" /\ p[3] = ">"
    OBVIOUS
  <2>5. \A m \in 1..3 : p[m] \notin LineEnds
    BY <2>4 DEF LineEnds
  <2>6. PromptMode(p) = "debug"
    BY DEF PromptMode
  <2> HIDE DEF p
  <2> QED
    BY <1>2, <2>1, <2>3, <2>5, <2>6 DEF p
<1> QED
  BY <1>1, <1>2

\* What is left without the line ends starts and ends with another byte.
LEMMA StrippedParts ==
  ASSUME NEW t \in Seq(Bytes)
  PROVE  \/ Stripped(t) = <<>>
         \/ \E a, b \in 1..Len(t) :
              /\ a <= b /\ Stripped(t) = SubSeq(t, a, b)
              /\ t[a] \notin LineEnds /\ t[b] \notin LineEnds
              /\ \A k \in 1..Len(t) : k < a \/ k > b => t[k] \in LineEnds
<1> DEFINE content == {i \in DOMAIN t : t[i] \notin LineEnds}
<1>1. Len(t) \in Nat /\ DOMAIN t = 1..Len(t)
  BY LenProperties
<1>2. CASE content = {}
  BY <1>2 DEF Stripped
<1>3. CASE content # {}
  <2>1. content \in SUBSET (1..Len(t)) /\ content \in SUBSET Nat
    BY <1>1
  <2>2. \A k \in 1..Len(t) : t[k] \notin LineEnds => k \in content
    BY <1>1
  <2>3. \A k \in content : t[k] \notin LineEnds
    OBVIOUS
  <2>4. Stripped(t) = SubSeq(t, Min(content), Max(content))
    BY <1>3 DEF Stripped
  <2> HIDE DEF content
  <2>5. Min(content) \in content /\ \A k \in content : Min(content) <= k
    BY <1>3, <2>1, MinOf
  <2>6. Max(content) \in content /\ \A k \in content : k <= Max(content)
    BY <1>1, <1>3, <2>1, MaxOf
  <2>7. PICK a, b \in 1..Len(t) : a = Min(content) /\ b = Max(content)
    BY <2>1, <2>5, <2>6
  <2>8. a <= b /\ t[a] \notin LineEnds /\ t[b] \notin LineEnds
    BY <2>3, <2>5, <2>6, <2>7
  <2>9. \A k \in 1..Len(t) : k < a \/ k > b => t[k] \in LineEnds
    BY <1>1, <2>2, <2>5, <2>6, <2>7
  <2> QED
    BY <2>4, <2>7, <2>8, <2>9
<1> QED
  BY <1>2, <1>3

\* A prompt that is taken for one stands behind line ends only.
LEMMA PromptFound ==
  ASSUME NEW t \in Seq(Bytes), NEW mode, mode = PromptMode(Stripped(t)), mode # "none"
  PROVE  /\ mode \in {"user", "debug"}
         /\ \E i \in 0..Len(t) :
              /\ i + Len(PromptOf(mode)) <= Len(t)
              /\ \A j \in 1..i : t[j] \in LineEnds
              /\ \A m \in 1..Len(PromptOf(mode)) : t[i + m] = PromptOf(mode)[m]
<1>1. mode \in {"user", "debug"} /\ Stripped(t) = PromptOf(mode)
  BY DEF PromptMode, PromptOf
<1>2. Len(t) \in Nat /\ Len(PromptOf(mode)) \in {2, 3}
  BY <1>1, PromptParts, LenProperties
<1>3. Stripped(t) # <<>>
  <2>1. Len(<<>>) = 0
    OBVIOUS
  <2>0. \A x \in {2, 3} : x # 0
    OBVIOUS
  <2>2. Len(PromptOf(mode)) # 0
    BY <1>2, <2>0, Zenon
  <2>3. PromptOf(mode) # <<>>
    BY <2>1, <2>2
  <2> QED
    BY <1>1, <2>3
<1>4. PICK a, b \in 1..Len(t) :
        /\ a <= b /\ Stripped(t) = SubSeq(t, a, b)
        /\ \A k \in 1..Len(t) : k < a \/ k > b => t[k] \in LineEnds
  BY <1>3, StrippedParts
<1>5. /\ Len(SubSeq(t, a, b)) = b - a + 1
      /\ \A m \in 1..(b - a + 1) : SubSeq(t, a, b)[m] = t[a + m - 1]
  BY <1>2, <1>4, PartOf
<1>6. Len(PromptOf(mode)) = b - a + 1
      /\ \A m \in 1..(b - a + 1) : PromptOf(mode)[m] = t[a + m - 1]
  BY <1>1, <1>4, <1>5
<1> DEFINE i == a - 1
<1>7. i \in 0..Len(t) /\ i + Len(PromptOf(mode)) <= Len(t)
  BY <1>2, <1>4, <1>6
<1>8. \A j \in 1..i : t[j] \in LineEnds
  BY <1>2, <1>4
<1>9. \A m \in 1..Len(PromptOf(mode)) : t[i + m] = PromptOf(mode)[m]
  <2> TAKE m \in 1..Len(PromptOf(mode))
  <2>1. m \in 1..(b - a + 1) /\ i + m = a + m - 1
    BY <1>2, <1>6
  <2> QED
    BY <1>6, <2>1
<1> QED
  BY <1>1, <1>7, <1>8, <1>9

\* A prompt among line ends is not missed.
LEMMA PromptNotMissed ==
  ASSUME NEW t \in Seq(Bytes), NEW mode \in {"user", "debug"},
         NEW i \in 1..Len(t), NEW j \in 1..Len(t),
         SubSeq(t, i, j) = PromptOf(mode),
         \A k \in (1..Len(t)) \ (i..j) : t[k] \in LineEnds
  PROVE  PromptMode(Stripped(t)) = mode
<1>1. /\ Len(t) \in Nat /\ Len(PromptOf(mode)) \in {2, 3}
      /\ \A m \in 1..Len(PromptOf(mode)) : PromptOf(mode)[m] \notin LineEnds
      /\ PromptMode(PromptOf(mode)) = mode
  BY PromptParts, LenProperties
<1>2. /\ Len(SubSeq(t, i, j)) = IF i <= j THEN j - i + 1 ELSE 0
      /\ \A m \in 1..(j - i + 1) : SubSeq(t, i, j)[m] = t[i + m - 1]
  <2>1. i \in Nat /\ j \in Nat /\ i >= 1 /\ j <= Len(t)
    BY <1>1
  <2> QED
    BY <2>1, PartOf
<1>3. i <= j /\ Len(PromptOf(mode)) = j - i + 1
  BY <1>1, <1>2
<1>4. \A k \in i..j : t[k] \notin LineEnds
  <2> TAKE k \in i..j
  <2>1. k - i + 1 \in 1..(j - i + 1) /\ i + (k - i + 1) - 1 = k
    BY <1>1, <1>3
  <2>2. PromptOf(mode)[k - i + 1] = t[k]
    BY <1>2, <2>1
  <2> QED
    BY <1>1, <1>3, <2>1, <2>2
<1>5. Stripped(t) = SubSeq(t, i, j)
  <2> DEFINE content == {k \in DOMAIN t : t[k] \notin LineEnds}
  <2>1. content = i..j
    <3>1. DOMAIN t = 1..Len(t)
      BY LenProperties
    <3>2. \A k \in 1..Len(t) : t[k] \notin LineEnds <=> k \in i..j
      BY <1>4
    <3>3. i..j \subseteq 1..Len(t)
      BY <1>1
    <3> QED
      BY <3>1, <3>2, <3>3
  <2>2. Stripped(t) = IF content = {} THEN <<>> ELSE SubSeq(t, Min(content), Max(content))
    BY DEF Stripped
  <2> HIDE DEF content
  <2>3. content # {} /\ content \subseteq Nat /\ content \subseteq 1..Len(t)
        /\ i \in content /\ j \in content
        /\ \A k \in content : i <= k /\ k <= j
    <3>1. \A k \in i..j : k \in Nat /\ k \in 1..Len(t) /\ i <= k /\ k <= j
      BY <1>1
    <3>2. i \in i..j /\ j \in i..j
      BY <1>1, <1>3
    <3>3. content # {} /\ i \in content /\ j \in content
      BY <2>1, <3>2
    <3>4. \A k \in content : k \in Nat /\ k \in 1..Len(t) /\ i <= k /\ k <= j
      BY <2>1, <3>1
    <3> QED
      BY <3>3, <3>4
  <2>4. Min(content) \in content /\ Min(content) <= i
    BY <2>3, MinOf
  <2>5. Max(content) \in content /\ j <= Max(content)
    BY <1>1, <2>3, MaxOf
  <2>6. Min(content) = i /\ Max(content) = j
    <3>1. i <= Min(content) /\ Max(content) <= j
      BY <2>3, <2>4, <2>5
    <3>2. Min(content) \in Nat /\ Max(content) \in Nat /\ i \in Nat /\ j \in Nat
      BY <2>3, <2>4, <2>5
    <3> QED
      BY <2>4, <2>5, <3>1, <3>2
  <2> QED
    BY <2>2, <2>3, <2>6
<1> QED
  BY <1>1, <1>5

LEMMA TrimmedType ==
  ASSUME NEW bytes \in Seq(Bytes)
  PROVE  Trimmed(bytes) \in Seq(Bytes)
<1> DEFINE lead == Leading(bytes)
           rest == SubSeq(bytes, 1 + lead, Len(bytes))
           trail == Trailing(rest)
<1>1. Len(bytes) \in Nat /\ lead \in Nat
  BY LenProperties DEF Leading
<1> HIDE DEF lead
<1>2. rest \in Seq(Bytes)
  BY <1>1, PartOf
<1> HIDE DEF rest
<1>3. Len(rest) \in Nat /\ trail \in Nat /\ trail <= Len(rest)
  BY <1>2, LenProperties DEF Trailing
<1> HIDE DEF trail
<1>4. Len(rest) - trail \in Nat /\ Len(rest) - trail <= Len(rest)
  BY <1>3
<1>5. SubSeq(rest, 1, Len(rest) - trail) \in Seq(Bytes)
  BY <1>2, <1>4, PartOf
<1> QED
  BY <1>5 DEF Trimmed, trail, rest, lead

(***************************************************************************)
(* The inductive invariant: an end marker that has been found is that of   *)
(* the whole stream, although it is never looked for again.                *)
(***************************************************************************)
MarkersOK ==
  end # 0 => end = EndOf(stream) /\ end + 1 <= got

FramingInv ==
  /\ TypeOK
  /\ MarkersOK
  /\ AnswerIsTheFirstResponse
  /\ CompleteIsAccepted

\* The markers that a pass works with.
LEMMA MarkersOfPass ==
  ASSUME TypeOK, MarkersOK, NEW n \in 1..MaxChunk, Receive(n)
  PROVE  /\ got' \in 1..Len(stream) /\ end' \in Nat /\ stream' = stream
         /\ MarkersOK'
         /\ end' # 0 => /\ FindResponseStart(SubSeq(stream, 1, got')) = StartOf(stream)
                        /\ StartOf(stream) # 0 /\ StartOf(stream) < EndOf(stream)
         /\ EndOf(stream) # 0 /\ EndOf(stream) + 1 <= got' => end' # 0
<1> DEFINE s == stream
           g == got'
           p == SubSeq(s, 1, g)
           start == FindResponseStart(p)
<1>1. /\ s \in Seq(Bytes) /\ Len(s) \in Nat /\ got \in Nat /\ end \in Nat /\ n \in Nat /\ n >= 1
  <2>1. s \in Seq(Bytes) /\ got \in 0..Len(s) /\ end \in 0..got
    BY DEF TypeOK
  <2>2. Len(s) \in Nat
    BY <2>1, LenProperties
  <2> QED
    BY <2>1, <2>2, SizesAssumption
<1>2. /\ g = got + n /\ g <= Len(s) /\ stream' = s
      /\ end' = IF end = 0 /\ start > 0 THEN FindEnd(p, start) ELSE end
  BY DEF Receive
<1>3. g \in 1..Len(s) /\ g \in 0..Len(s) /\ p \in Seq(Bytes)
  BY <1>1, <1>2, PartOf
<1> HIDE DEF p
<1>4. start \in Nat
  BY <1>3, Searches
<1>5. StartOf(s) \in Nat /\ EndOf(s) \in Nat
  BY <1>1, Searches
<1>6. FindEnd(p, start) \in Nat
  BY <1>3, <1>4, EndSearch
<1>7. ASSUME EndOf(s) # 0, EndOf(s) + 1 <= g
      PROVE  /\ start = StartOf(s) /\ StartOf(s) # 0 /\ StartOf(s) < EndOf(s)
             /\ FindEnd(p, start) = EndOf(s)
  BY <1>1, <1>3, <1>7, FirstIsFound DEF p
<1>8. ASSUME end' # 0
      PROVE  end' = EndOf(s) /\ end' + 1 <= g
  <2>1. CASE end = 0 /\ start > 0
    <3>1. start # 0 /\ FindEnd(p, start) # 0 /\ end' = FindEnd(p, start)
      BY <1>2, <1>4, <1>8, <2>1
    <3> QED
      BY <1>1, <1>3, <3>1, FoundIsTheFirst DEF p
  <2>2. CASE ~(end = 0 /\ start > 0)
    <3>1. end' = end /\ end = EndOf(s) /\ end + 1 <= got
      BY <1>2, <1>8, <2>2 DEF MarkersOK
    <3> QED
      BY <1>1, <1>2, <3>1
  <2> QED
    BY <2>1, <2>2
<1>9. end' \in Nat
  BY <1>1, <1>2, <1>6
<1>10. ASSUME EndOf(s) # 0, EndOf(s) + 1 <= g PROVE end' # 0
  BY <1>2, <1>4, <1>5, <1>7, <1>10
<1>11. end' # 0 => start = StartOf(s) /\ StartOf(s) # 0 /\ StartOf(s) < EndOf(s)
  BY <1>7, <1>8
<1>12. MarkersOK'
  BY <1>2, <1>8 DEF MarkersOK
<1> QED
  BY <1>2, <1>3, <1>9, <1>10, <1>11, <1>12 DEF p

\* What a pass returns.
ModeOf(bytes, last) == PromptMode(Stripped(SubSeq(bytes, last + 2, Len(bytes))))

AnswerOf(bytes, start, last) ==
  LET payload == Trimmed(SubSeq(bytes, start + 1, last - 1))
  IN  [kind |-> "exchange", payload |-> payload, mode |-> ModeOf(bytes, last),
       succeeded |-> Succeeded(payload)]

LEMMA PassOutcome ==
  ASSUME NEW bytes, NEW start, NEW last \in Nat, NEW fresh \in BOOLEAN
  PROVE  LET r      == Pass(bytes, start, last, fresh)
             answer == AnswerOf(bytes, start, last)
         IN  /\ r \in {Raised("too large"), Raised("encoding"), Waiting, answer}
             /\ r.kind = "exchange" => r = answer /\ last > 0 /\ ModeOf(bytes, last) # "none"
             /\ (fresh => last + 1 <= MaxBytes /\ IsAscii(SubSeq(bytes, 1, last + 1)))
                  => /\ Len(bytes) \in Nat /\ Len(bytes) <= MaxBytes => r \in {Waiting, answer}
                     /\ last > 0 /\ ModeOf(bytes, last) # "none" => r = answer
<1> DEFINE r == Pass(bytes, start, last, fresh)
           mode == ModeOf(bytes, last)
           answer == AnswerOf(bytes, start, last)
           large == last + 1 > MaxBytes
           fits == last + 1 <= MaxBytes
           ascii == IsAscii(SubSeq(bytes, 1, last + 1))
           found == last > 0 /\ mode # "none"
           over == Len(bytes) > MaxBytes
<1>1. r = CASE fresh /\ large -> Raised("too large")
            [] fresh /\ fits /\ ~ascii -> Raised("encoding")
            [] OTHER -> IF found THEN answer
                        ELSE IF over THEN Raised("too large")
                        ELSE Waiting
  BY DEF Pass, AnswerOf, ModeOf
<1>2. answer.kind = "exchange" /\ Waiting.kind # "exchange"
      /\ \A e : Raised(e).kind = e
  BY DEF Waiting, Raised, AnswerOf
<1>3. (fits <=> ~large) /\ (over \in BOOLEAN) /\ (found \in BOOLEAN) /\ (ascii \in BOOLEAN)
  BY SizesAssumption DEF IsAscii
<1>4. /\ fresh /\ fits => last + 1 <= MaxBytes
      /\ Len(bytes) <= MaxBytes /\ Len(bytes) \in Nat => ~over
  BY SizesAssumption
<1> HIDE DEF r, mode, answer, large, fits, ascii, found, over
<1>5. CASE fresh /\ large
  <2>1. r = Raised("too large")
    BY <1>1, <1>3, <1>5
  <2> QED
    BY <1>2, <1>3, <1>5, <2>1 DEF fits, ascii, r, mode, answer
<1>6. CASE fresh /\ fits /\ ~ascii
  <2>1. r = Raised("encoding")
    BY <1>1, <1>3, <1>6
  <2> QED
    BY <1>2, <1>6, <2>1 DEF fits, ascii, r, mode, answer
<1>7. CASE ~(fresh /\ large) /\ ~(fresh /\ fits /\ ~ascii)
  <2>1. r = IF found THEN answer ELSE IF over THEN Raised("too large") ELSE Waiting
    BY <1>1, <1>7
  <2>2. r \in {Raised("too large"), Waiting, answer} /\ (r.kind = "exchange" => found)
        /\ (found => r = answer) /\ (~over => r \in {Waiting, answer})
        /\ (r = answer \/ r.kind # "exchange")
    BY <1>2, <2>1
  <2> QED
    BY <1>4, <2>2 DEF found, r, mode, answer
<1> QED
  BY <1>3, <1>5, <1>6, <1>7

\* What a pass cuts out of its bytes, once the markers are those of the stream.
After(bytes, last) == SubSeq(bytes, last + 2, Len(bytes))

PartsAgree(s, g, start, last) ==
  LET p      == SubSeq(s, 1, g)
      t      == After(p, last)
      behind == After(s, last)
  IN  /\ SubSeq(p, start + 1, last - 1) = SubSeq(s, start + 1, last - 1)
      /\ SubSeq(p, start + 1, last - 1) \in Seq(Bytes)
      /\ t \in Seq(Bytes) /\ Len(t) = g - last - 1
      /\ behind \in Seq(Bytes) /\ Len(behind) = Len(s) - last - 1
      /\ \A i \in 1..Len(t) : behind[i] = t[i]
      /\ g = Len(s) => t = behind

LEMMA PartsOfPass ==
  ASSUME NEW s \in Seq(Bytes), NEW g \in 1..Len(s),
         NEW start \in Nat, NEW last \in Nat,
         start >= 1, start < last, last + 1 <= g
  PROVE  PartsAgree(s, g, start, last)
<1> DEFINE p == SubSeq(s, 1, g)
           t == After(p, last)
           behind == After(s, last)
           m == last + 2
<1>1. /\ Len(s) \in Nat /\ g \in Nat /\ g <= Len(s) /\ g \in 0..Len(s)
      /\ start + 1 \in Nat /\ start + 1 >= 1
      /\ last - 1 \in Nat /\ last - 1 <= g /\ last - 1 <= Len(s)
      /\ m \in Nat /\ m >= 1 /\ m <= g + 1
  BY LenProperties
<1>2. p \in Seq(Bytes) /\ Len(p) = g
  BY <1>1, PrefixOf
<1>3. SubSeq(p, start + 1, last - 1) = SubSeq(s, start + 1, last - 1)
  BY <1>1, PartOfPrefix
<1>4. SubSeq(s, start + 1, last - 1) \in Seq(Bytes)
  BY <1>1, PartOf
<1>5. t = SubSeq(p, m, g) /\ behind = SubSeq(s, m, Len(s)) /\ m = last + 2
  BY <1>2 DEF After
<1> HIDE DEF m, t, behind
<1>6. t = SubSeq(s, m, g)
  BY <1>1, <1>5, PartOfPrefix
<1>7. /\ t \in Seq(Bytes) /\ Len(t) = g - m + 1
      /\ \A i \in 1..(g - m + 1) : t[i] = s[m + i - 1]
  <2>1. m \in Nat /\ g \in Nat /\ m >= 1 /\ m <= g + 1 /\ g <= Len(s)
    BY <1>1
  <2>2. /\ SubSeq(s, m, g) \in Seq(Bytes) /\ Len(SubSeq(s, m, g)) = g - m + 1
        /\ \A i \in 1..(g - m + 1) : SubSeq(s, m, g)[i] = s[m + i - 1]
    BY <2>1, TailOf, Zenon
  <2> QED
    BY <1>6, <2>2, Zenon
<1>8. /\ behind \in Seq(Bytes) /\ Len(behind) = Len(s) - m + 1
      /\ \A i \in 1..(Len(s) - m + 1) : behind[i] = s[m + i - 1]
  <2>1. m <= Len(s) + 1
    BY <1>1
  <2> QED
    BY <1>1, <1>5, <2>1, TailOf
<1>9. \A i \in 1..Len(t) : behind[i] = t[i]
  <2> TAKE i \in 1..Len(t)
  <2>1. i \in 1..(g - m + 1) /\ i \in 1..(Len(s) - m + 1)
    BY <1>1, <1>7
  <2> QED
    BY <1>7, <1>8, <2>1
<1>10. g - m + 1 = g - last - 1 /\ Len(s) - m + 1 = Len(s) - last - 1
  BY <1>1, <1>5
<1> QED
  BY <1>3, <1>4, <1>5, <1>6, <1>7, <1>8, <1>9, <1>10 DEF t, behind, PartsAgree

\* The prompt in the bytes received is the prompt in the stream.
LEMMA PromptInStream ==
  ASSUME NEW t \in Seq(Bytes), NEW b \in Seq(Bytes), Len(t) <= Len(b),
         \A j \in 1..Len(t) : b[j] = t[j],
         NEW q \in Seq(Bytes), Len(q) \in {2, 3},
         NEW i \in 0..Len(t), i + Len(q) <= Len(t),
         \A j \in 1..i : t[j] \in LineEnds,
         \A m \in 1..Len(q) : t[i + m] = q[m]
  PROVE  /\ i \in 0..Len(b)
         /\ \A j \in 1..i : b[j] \in LineEnds
         /\ SubSeq(b, i + 1, i + Len(q)) = q
<1> DEFINE l == Len(q)
           first == i + 1
           last == i + l
           c == SubSeq(b, first, last)
<1>1. /\ Len(t) \in Nat /\ Len(b) \in Nat /\ i \in Nat /\ l \in Nat /\ l >= 1
      /\ i \in 0..Len(b) /\ i <= Len(t) /\ l = Len(q)
  <2>1. Len(t) \in Nat /\ Len(b) \in Nat /\ l \in Nat
    BY LenProperties
  <2>2. i \in Nat /\ i <= Len(t)
    BY <2>1
  <2>3. i \in 0..Len(b)
    BY <2>1, <2>2
  <2>4. l = 2 \/ l = 3
    OBVIOUS
  <2>5. l = Len(q)
    OBVIOUS
  <2> HIDE DEF l
  <2>6. l >= 1
    BY <2>4
  <2> QED
    BY <2>1, <2>2, <2>3, <2>5, <2>6
<1>2. \A j \in 1..i : b[j] \in LineEnds
  <2> TAKE j \in 1..i
  <2>1. j \in 1..Len(t)
    BY <1>1
  <2> QED
    BY <2>1
<1>3. /\ first \in Nat /\ last \in Nat /\ first >= 1 /\ first <= last
      /\ last <= Len(b) /\ last <= Len(t) /\ last - first + 1 = l
      /\ \A m \in 1..l : first + m - 1 = i + m /\ i + m \in 1..Len(t)
  BY <1>1
<1>4. \A m \in 1..l : b[i + m] = q[m]
  BY <1>1, <1>3
<1>5. c = SubSeq(b, i + 1, i + Len(q))
  OBVIOUS
<1> HIDE DEF first, last
<1>6. /\ c \in Seq(Bytes) /\ Len(c) = (IF first <= last THEN last - first + 1 ELSE 0)
      /\ \A m \in 1..(last - first + 1) : c[m] = b[first + m - 1]
  BY <1>3, PartOf
<1> HIDE DEF c, l
<1>7. Len(c) = l /\ \A m \in 1..l : c[m] = q[m]
  BY <1>3, <1>4, <1>6
<1>8. c = q
  BY <1>1, <1>6, <1>7, SeqEqual
<1> QED
  BY <1>1, <1>2, <1>5, <1>8

\* What the two properties say of one outcome.
FirstResponse(s, r) ==
  r.kind = "exchange" =>
    /\ EndOf(s) # 0
    /\ r.payload = Trimmed(SubSeq(s, StartOf(s) + 1, EndOf(s) - 1))
    /\ \E i \in 0..Len(Behind(s)) :
         /\ \A j \in 1..i : Behind(s)[j] \in LineEnds
         /\ SubSeq(Behind(s), i + 1, i + Len(PromptOf(r.mode))) = PromptOf(r.mode)

AcceptedInTime(s, g, r) ==
  IsExchange(s) =>
    /\ r.kind \in {"waiting", "exchange"}
    /\ g = Len(s) => r.kind = "exchange"

\* What a pass returns, the markers being those of the stream: s of the stream,
\* g bytes of it received.
LEMMA OutcomeOfPass ==
  ASSUME NEW s \in Seq(Bytes), NEW g \in 1..Len(s), NEW p, p = SubSeq(s, 1, g),
         NEW start, start = FindResponseStart(p), NEW last \in Nat, NEW fresh \in BOOLEAN,
         fresh => last # 0,
         last # 0 => /\ last = EndOf(s) /\ last + 1 <= g
                     /\ start = StartOf(s) /\ StartOf(s) # 0 /\ StartOf(s) < EndOf(s),
         EndOf(s) # 0 /\ EndOf(s) + 1 <= g => last # 0,
         NEW r, r = Pass(p, start, last, fresh)
  PROVE  /\ r \in Exchange \cup {Waiting} \cup
               {Raised(e) : e \in {"too large", "encoding", "incomplete", "timeout"}}
         /\ FirstResponse(s, r)
         /\ AcceptedInTime(s, g, r)
<1> DEFINE t == SubSeq(p, last + 2, Len(p))
           mode == PromptMode(Stripped(t))
           payload == Trimmed(SubSeq(p, start + 1, last - 1))
           answer == [kind |-> "exchange", payload |-> payload, mode |-> mode,
                      succeeded |-> Succeeded(payload)]
<1>1. /\ Len(s) \in Nat /\ g \in Nat /\ g <= Len(s) /\ g >= 1 /\ p \in Seq(Bytes) /\ Len(p) = g
      /\ \A i \in 1..g : p[i] = s[i]
  <2>1. g \in 0..Len(s) /\ Len(s) \in Nat
    BY LenProperties
  <2> QED
    BY <2>1, PrefixOf
<1>2. start \in Nat /\ StartOf(s) \in Nat /\ EndOf(s) \in Nat
  BY <1>1, Searches
<1>3. /\ r \in {Raised("too large"), Raised("encoding"), Waiting, answer}
      /\ r.kind = "exchange" => r = answer /\ last > 0 /\ mode # "none"
      /\ (fresh => last + 1 <= MaxBytes /\ IsAscii(SubSeq(p, 1, last + 1)))
           => /\ Len(p) \in Nat /\ Len(p) <= MaxBytes => r \in {Waiting, answer}
              /\ last > 0 /\ mode # "none" => r = answer
  <2>1. mode = ModeOf(p, last) /\ answer = AnswerOf(p, start, last)
    BY DEF ModeOf, AnswerOf
  <2> HIDE DEF t, mode, payload, answer
  <2> QED
    BY <2>1, PassOutcome
<1>4. ASSUME last # 0
      PROVE  /\ SubSeq(p, start + 1, last - 1) = SubSeq(s, StartOf(s) + 1, EndOf(s) - 1)
             /\ SubSeq(p, start + 1, last - 1) \in Seq(Bytes)
             /\ t \in Seq(Bytes) /\ Len(t) = g - EndOf(s) - 1
             /\ g = Len(s) => t = Behind(s)
             /\ Behind(s) \in Seq(Bytes) /\ Len(Behind(s)) = Len(s) - EndOf(s) - 1
             /\ \A i \in 1..Len(t) : Behind(s)[i] = t[i]
  <2>1. /\ last = EndOf(s) /\ start = StartOf(s) /\ EndOf(s) + 1 <= g
        /\ StartOf(s) < EndOf(s) /\ StartOf(s) >= 1
    BY <1>2, <1>4
  <2> HIDE DEF t
  <2>2. /\ SubSeq(p, start + 1, last - 1) = SubSeq(s, start + 1, last - 1)
        /\ SubSeq(p, start + 1, last - 1) \in Seq(Bytes)
        /\ t \in Seq(Bytes) /\ Len(t) = g - last - 1
        /\ Behind(s) \in Seq(Bytes) /\ Len(Behind(s)) = Len(s) - last - 1
        /\ \A i \in 1..Len(t) : Behind(s)[i] = t[i]
        /\ g = Len(s) => t = Behind(s)
    <3>1. start \in Nat /\ start >= 1 /\ start < last /\ last + 1 <= g
      BY <1>2, <2>1
    <3>2. t = After(SubSeq(s, 1, g), last) /\ Behind(s) = After(s, last)
      BY <2>1 DEF t, Behind, After
    <3> DEFINE P == SubSeq(s, 1, g)
               T == After(P, last)
               B == After(s, last)
    <3>3. /\ SubSeq(P, start + 1, last - 1) = SubSeq(s, start + 1, last - 1)
          /\ SubSeq(P, start + 1, last - 1) \in Seq(Bytes)
          /\ T \in Seq(Bytes) /\ Len(T) = g - last - 1
          /\ B \in Seq(Bytes) /\ Len(B) = Len(s) - last - 1
          /\ \A i \in 1..Len(T) : B[i] = T[i]
          /\ g = Len(s) => T = B
      <4>1. PartsAgree(s, g, start, last)
        BY <3>1, PartsOfPass
      <4> QED
        BY <4>1, Zenon DEF PartsAgree
    <3>4. p = P /\ t = T /\ Behind(s) = B
      BY <3>2
    <3> HIDE DEF P, T, B
    <3> QED
      BY <3>3, <3>4, Zenon
  <2> QED
    BY <2>1, <2>2
<1> HIDE DEF t, mode, payload, answer
<1>5. ASSUME r.kind = "exchange"
      PROVE  /\ r = answer /\ last # 0 /\ mode \in {"user", "debug"}
             /\ payload = Trimmed(SubSeq(s, StartOf(s) + 1, EndOf(s) - 1))
             /\ \E i \in 0..Len(t) :
                  /\ i + Len(PromptOf(mode)) <= Len(t)
                  /\ \A j \in 1..i : t[j] \in LineEnds
                  /\ \A m \in 1..Len(PromptOf(mode)) : t[i + m] = PromptOf(mode)[m]
  <2>1. r = answer /\ last # 0 /\ mode # "none"
    <3>1. r = answer /\ last > 0 /\ mode # "none"
      BY <1>3, <1>5, Zenon
    <3>2. last # 0
      BY <3>1
    <3> QED
      BY <3>1, <3>2
  <2>2. t \in Seq(Bytes) /\ mode = PromptMode(Stripped(t))
    BY <1>4, <2>1 DEF mode
  <2> QED
    BY <1>4, <2>1, <2>2, PromptFound DEF payload
<1>6. FirstResponse(s, r)
  <2> SUFFICES ASSUME r.kind = "exchange"
               PROVE  /\ EndOf(s) # 0
                      /\ r.payload = Trimmed(SubSeq(s, StartOf(s) + 1, EndOf(s) - 1))
                      /\ \E i \in 0..Len(Behind(s)) :
                           /\ \A j \in 1..i : Behind(s)[j] \in LineEnds
                           /\ SubSeq(Behind(s), i + 1, i + Len(PromptOf(r.mode)))
                                = PromptOf(r.mode)
    BY DEF FirstResponse
  <2>1. r.payload = payload /\ r.mode = mode
    BY <1>5 DEF answer
  <2>2. last # 0 /\ EndOf(s) # 0
    BY <1>2, <1>5
  <2>3. PICK i \in 0..Len(t) :
          /\ i + Len(PromptOf(mode)) <= Len(t)
          /\ \A j \in 1..i : t[j] \in LineEnds
          /\ \A m \in 1..Len(PromptOf(mode)) : t[i + m] = PromptOf(mode)[m]
    BY <1>5
  <2>4. /\ t \in Seq(Bytes) /\ Behind(s) \in Seq(Bytes)
        /\ \A j \in 1..Len(t) : Behind(s)[j] = t[j]
    BY <1>4, <2>2
  <2>5. Len(t) <= Len(Behind(s))
    <3>1. Len(t) = g - EndOf(s) - 1 /\ Len(Behind(s)) = Len(s) - EndOf(s) - 1
      BY <1>4, <2>2
    <3>2. g \in Nat /\ Len(s) \in Nat /\ EndOf(s) \in Nat /\ g <= Len(s)
      BY <1>1, <1>2
    <3>3. g - EndOf(s) - 1 <= Len(s) - EndOf(s) - 1
      BY <3>2
    <3> QED
      BY <3>1, <3>3
  <2>6. PromptOf(mode) \in Seq(Bytes) /\ Len(PromptOf(mode)) \in {2, 3}
    BY <1>5, PromptParts
  <2>7. /\ i \in 0..Len(Behind(s)) /\ \A j \in 1..i : Behind(s)[j] \in LineEnds
        /\ SubSeq(Behind(s), i + 1, i + Len(PromptOf(mode))) = PromptOf(mode)
    BY <2>3, <2>4, <2>5, <2>6, PromptInStream
  <2> QED
    BY <1>5, <2>1, <2>2, <2>7
<1>7. AcceptedInTime(s, g, r)
  <2> SUFFICES ASSUME IsExchange(s)
               PROVE  /\ r.kind \in {"waiting", "exchange"}
                      /\ g = Len(s) => r.kind = "exchange"
    BY DEF AcceptedInTime
  <2>1. /\ EndOf(s) # 0 /\ Len(s) <= MaxBytes
        /\ \A i \in 1..Len(s) : s[i] # "non-ASCII"
    BY <1>1, LenProperties DEF IsExchange
  <2>2. fresh => last + 1 <= MaxBytes /\ IsAscii(SubSeq(p, 1, last + 1))
    <3> SUFFICES ASSUME fresh PROVE last + 1 <= MaxBytes /\ IsAscii(SubSeq(p, 1, last + 1))
      OBVIOUS
    <3>1. last # 0
      OBVIOUS
    <3>2. last + 1 <= g /\ last + 1 \in Nat /\ g \in Nat /\ g <= Len(s)
      BY <1>1, <3>1
    <3>3. last + 1 <= MaxBytes
      BY <1>1, <2>1, <3>2, SizesAssumption
    <3> DEFINE upto == last + 1
               a == SubSeq(p, 1, upto)
    <3>4. upto \in Nat /\ upto <= g /\ upto <= Len(p) /\ upto - 1 + 1 = upto /\ 1 <= upto
          /\ \A i \in 1..upto : 1 + i - 1 = i /\ i \in 1..g /\ i \in 1..Len(s)
      BY <1>1, <3>2
    <3>5. a = SubSeq(p, 1, last + 1)
      OBVIOUS
    <3> HIDE DEF upto
    <3>6. /\ DOMAIN a = 1..Len(a)
          /\ Len(a) = (IF 1 <= upto THEN upto - 1 + 1 ELSE 0)
          /\ \A i \in 1..(upto - 1 + 1) : a[i] = p[1 + i - 1]
      BY <1>1, <3>4, PartOf
    <3> HIDE DEF a
    <3>7. DOMAIN a = 1..upto /\ \A i \in 1..upto : a[i] = s[i]
      BY <1>1, <3>4, <3>6
    <3> QED
      BY <2>1, <3>3, <3>4, <3>5, <3>7 DEF IsAscii
  <2>3. Len(p) \in Nat /\ Len(p) <= MaxBytes
    BY <1>1, <2>1, SizesAssumption
  <2>4. r \in {Waiting, answer}
    BY <1>3, <2>2, <2>3
  <2>5. ASSUME g = Len(s) PROVE r = answer
    <3>1. EndOf(s) + 1 <= g
      <4>1. EndHere(s, StartOf(s), EndOf(s)) /\ EndOf(s) \in 1..Len(s)
        BY <1>1, <2>1, Searches
      <4> QED
        BY <1>1, <2>5, <4>1 DEF EndHere
    <3>2. last # 0 /\ last > 0
      BY <2>1, <3>1
    <3>3. t = Behind(s) /\ t \in Seq(Bytes)
      BY <1>4, <2>5, <3>2 DEF Behind
    <3>4. \E i, j \in DOMAIN t :
            /\ SubSeq(t, i, j) \in {<<"pylon", ">">>, <<"pylon", "_debug", ">">>}
            /\ \A k \in DOMAIN t \ (i..j) : t[k] \in LineEnds
      BY <3>3 DEF IsExchange
    <3>5. PICK m \in {"user", "debug"} :
            \E i, j \in 1..Len(t) :
              /\ SubSeq(t, i, j) = PromptOf(m)
              /\ \A k \in (1..Len(t)) \ (i..j) : t[k] \in LineEnds
      <4>1. DOMAIN t = 1..Len(t)
        BY <3>3, LenProperties
      <4>2. PromptOf("user") = <<"pylon", ">">> /\ PromptOf("debug") = <<"pylon", "_debug", ">">>
        BY DEF PromptOf
      <4> QED
        BY <3>4, <4>1, <4>2
    <3>6. mode = m
      BY <3>3, <3>5, PromptNotMissed DEF mode
    <3> QED
      BY <1>3, <2>2, <3>2, <3>5, <3>6
  <2> QED
    BY <2>4, <2>5 DEF Waiting, answer
<1>8. r \in Exchange \cup {Waiting} \cup
             {Raised(e) : e \in {"too large", "encoding", "incomplete", "timeout"}}
  <2>1. CASE r.kind = "exchange"
    <3>1. payload \in Seq(Bytes)
      <4>1. last # 0
        BY <1>5, <2>1
      <4>2. SubSeq(p, start + 1, last - 1) \in Seq(Bytes)
        BY <1>4, <4>1
      <4> QED
        BY <4>2, TrimmedType DEF payload
    <3>2. Succeeded(payload) \in BOOLEAN
      BY DEF Succeeded
    <3>3. answer \in Exchange
      BY <1>5, <2>1, <3>1, <3>2 DEF answer, Exchange
    <3> QED
      BY <1>5, <2>1, <3>3
  <2>2. CASE r.kind # "exchange"
    <3>1. answer.kind = "exchange"
      BY DEF answer
    <3> QED
      BY <1>3, <2>2, <3>1
  <2> QED
    BY <2>1, <2>2
<1> QED
  BY <1>6, <1>7, <1>8

LEMMA ReceiveStep ==
  ASSUME FramingInv, NEW n \in 1..MaxChunk, Receive(n)
  PROVE  FramingInv'
<1>1. PICK g, last, r : g = got' /\ last = end' /\ r = result'
  OBVIOUS
<1> DEFINE s == stream
           p == SubSeq(s, 1, g)
           start == FindResponseStart(p)
           fresh == end = 0 /\ last > 0
<1>2. /\ g \in 1..Len(s) /\ last \in Nat /\ stream' = s
      /\ MarkersOK'
      /\ last # 0 => start = StartOf(s) /\ StartOf(s) # 0 /\ StartOf(s) < EndOf(s)
      /\ EndOf(s) # 0 /\ EndOf(s) + 1 <= g => last # 0
  BY <1>1, MarkersOfPass DEF FramingInv
<1>3. last # 0 => last = EndOf(s) /\ last + 1 <= g
  BY <1>1, <1>2 DEF MarkersOK
<1>4. s \in Seq(Bytes) /\ Len(s) \in Nat
  BY LenProperties DEF FramingInv, TypeOK
<1>5. r = Pass(p, start, last, fresh)
  BY <1>1 DEF Receive
<1>6. fresh \in BOOLEAN /\ (fresh => last # 0)
  BY <1>2
<1> HIDE DEF s, p, start, fresh
<1>7. /\ r \in Exchange \cup {Waiting} \cup
               {Raised(e) : e \in {"too large", "encoding", "incomplete", "timeout"}}
      /\ FirstResponse(s, r) /\ AcceptedInTime(s, g, r)
  BY <1>2, <1>3, <1>4, <1>5, <1>6, OutcomeOfPass DEF p, start
<1>8. last \in 0..g /\ g \in 0..Len(s)
  BY <1>2, <1>3, <1>4
<1>9. TypeOK'
  BY <1>1, <1>2, <1>4, <1>7, <1>8 DEF TypeOK
<1>10. AnswerIsTheFirstResponse'
  BY <1>1, <1>2, <1>7 DEF AnswerIsTheFirstResponse, FirstResponse, PromptOf
<1>11. CompleteIsAccepted'
  BY <1>1, <1>2, <1>7 DEF CompleteIsAccepted, AcceptedInTime
<1> QED
  BY <1>2, <1>9, <1>10, <1>11 DEF FramingInv

LEMMA FramingInit == Init => FramingInv
<1> SUFFICES ASSUME Init PROVE FramingInv
  OBVIOUS
<1>1. /\ stream \in Seq(Bytes) /\ got = 0 /\ end = 0 /\ result = Waiting
      /\ Len(stream) \in Nat
  BY StreamsAssumption, LenProperties DEF Init
<1>2. result.kind = "waiting"
  BY <1>1 DEF Waiting
<1>3. IsExchange(stream) => got # Len(stream)
  <2>1. EndOf(stream) # 0 => EndOf(stream) \in 1..Len(stream)
    BY <1>1, Searches
  <2> QED
    BY <1>1, <2>1 DEF IsExchange
<1> QED
  BY <1>1, <1>2, <1>3
     DEF FramingInv, TypeOK, MarkersOK, AnswerIsTheFirstResponse, CompleteIsAccepted

LEMMA FramingNext == FramingInv /\ [Next]_vars => FramingInv'
<1> SUFFICES ASSUME FramingInv, [Next]_vars PROVE FramingInv'
  OBVIOUS
<1>1. CASE \E n \in 1..MaxChunk : Receive(n)
  BY <1>1, ReceiveStep
<1>2. CASE GivesUp
  <2>1. /\ result = Waiting /\ got = Len(stream)
        /\ result' \in {Raised("incomplete"), Raised("timeout")}
        /\ stream' = stream /\ got' = got /\ end' = end
    BY <1>2 DEF GivesUp
  <2>2. result.kind = "waiting" /\ result'.kind \in {"incomplete", "timeout"}
    BY <2>1 DEF Waiting, Raised
  <2>3. ~IsExchange(stream)
    BY <2>1, <2>2 DEF FramingInv, CompleteIsAccepted
  <2>4. TypeOK' /\ MarkersOK'
    BY <2>1 DEF FramingInv, TypeOK, MarkersOK
  <2>5. AnswerIsTheFirstResponse' /\ CompleteIsAccepted'
    BY <2>1, <2>2, <2>3 DEF AnswerIsTheFirstResponse, CompleteIsAccepted
  <2> QED
    BY <2>4, <2>5 DEF FramingInv
<1>3. CASE UNCHANGED vars
  BY <1>3 DEF vars, FramingInv, TypeOK, MarkersOK, AnswerIsTheFirstResponse, CompleteIsAccepted
<1> QED
  BY <1>1, <1>2, <1>3 DEF Next, Terminated

THEOREM FramingInvariant == Spec => []FramingInv
BY FramingInit, FramingNext, PTL DEF Spec

\* Types: what is received, found and returned.
THEOREM FramingTypeCorrect == Spec => []TypeOK
<1>1. FramingInv => TypeOK
  BY DEF FramingInv
<1> QED
  BY <1>1, FramingInvariant, PTL

\* For every stream and every way its bytes are cut, an exchange that is
\* returned is the first response of the whole stream, with its own prompt.
THEOREM ExchangeIsTheFirstResponse == Spec => []AnswerIsTheFirstResponse
<1>1. FramingInv => AnswerIsTheFirstResponse
  BY DEF FramingInv
<1> QED
  BY <1>1, FramingInvariant, PTL

\* For every way its bytes are cut, a stream that is one exchange within the
\* limit is neither refused nor waited for in vain.
THEOREM ExchangeIsAccepted == Spec => []CompleteIsAccepted
<1>1. FramingInv => CompleteIsAccepted
  BY DEF FramingInv
<1> QED
  BY <1>1, FramingInvariant, PTL

(***************************************************************************)
(* Lines and answers.                                                      *)
(***************************************************************************)
LineKinds ==
  {"header", "heading", "dashes", "state", "confirmation", "row", "field", "garbled"}

LineKeys == Nat \cup {""} \cup Required \cup Optional

LineType == [kind: LineKinds, key: LineKeys, said: Nat \X LineKeys]

\* An answer is data between some lines before it and some behind it.
DataKind(name) == IF name \in {"pwr", "bat"} THEN "row" ELSE "field"

Opening(name, module) ==
  CASE name \in {"pwr", "bat"} -> Header
    [] name = "info"           -> <<>>
    [] name = "detail"         -> Dashes \o Heading(module)
    [] name = "pwrsys"         -> Heading(Rack) \o Dashes \o State

Closing(name) == IF name = "detail" THEN Dashes \o Confirmation ELSE Confirmation

DataKeys(name, module, optional) ==
  CASE name = "pwr"              -> Positions
    [] name = "bat"              -> Cells(module)
    [] name \in {"info", "detail"} -> Required \cup optional
    [] name = "pwrsys"           -> Required

InOrder(name, module, optional) ==
  IF name = "bat" THEN [i \in 1..CellCount[module] |-> i - 1]
  ELSE SetToSeq(DataKeys(name, module, optional))

Names == {"pwr", "bat", "info", "detail", "pwrsys"}

IsListing(f, m, S) ==
  /\ f \in [1..m -> S]
  /\ \A i, j \in 1..m : f[i] = f[j] => i = j
  /\ \A x \in S : \E i \in 1..m : f[i] = x

LEMMA Listing ==
  ASSUME NEW S, IsFiniteSet(S)
  PROVE  Cardinality(S) \in Nat /\ IsListing(SetToSeq(S), Cardinality(S), S)
<1> DEFINE n == Cardinality(S)
<1>1. n \in Nat /\ ExistsBijection(1..n, S)
  BY FS_CardinalityType
<1>2. PICK g \in [1..n -> S] : IsInjective(g)
  BY <1>1 DEF ExistsBijection, Bijection, Injection, IsInjective
<1>3. SetToSeq(S) = CHOOSE f \in [1..n -> S] : IsInjective(f)
  BY DEF SetToSeq
<1>4. PICK f : f = SetToSeq(S)
  OBVIOUS
<1>5. f \in [1..n -> S] /\ IsInjective(f)
  BY <1>2, <1>3, <1>4
<1>6. \A i, j \in 1..n : f[i] = f[j] => i = j
  BY <1>5 DEF IsInjective
<1>7. f \in Injection(1..n, S)
  BY <1>5, <1>6 DEF Injection, IsInjective
<1>8. IsFiniteSet(1..n) /\ Cardinality(1..n) = n
  <2>1. 1 \in Int /\ n \in Int /\ (IF 1 > n THEN 0 ELSE n - 1 + 1) = n
    BY <1>1
  <2> HIDE DEF n
  <2> QED
    BY <2>1, FS_Interval
<1>9. f \in Surjection(1..n, S)
  <2> DEFINE T == 1..n
  <2>1. f \in Injection(T, S) /\ IsFiniteSet(S) /\ Cardinality(T) = Cardinality(S)
    BY <1>7, <1>8
  <2> HIDE DEF T
  <2>2. f \in Surjection(T, S)
    BY <2>1, FS_Injection
  <2> QED
    BY <2>2 DEF T
<1>10. \A x \in S : \E i \in 1..n : f[i] = x
  BY <1>9 DEF Surjection
<1> QED
  BY <1>1, <1>4, <1>5, <1>6, <1>10 DEF IsListing

LEMMA Concat3 ==
  ASSUME NEW T, NEW a \in Seq(T), NEW b \in Seq(T), NEW c \in Seq(T),
         NEW s, s = (a \o b) \o c
  PROVE  /\ s \in Seq(T)
         /\ Len(s) = Len(a) + Len(b) + Len(c)
         /\ \A i \in 1..Len(a) : s[i] = a[i]
         /\ \A i \in 1..Len(b) : s[Len(a) + i] = b[i]
         /\ \A i \in 1..Len(c) : s[Len(a) + Len(b) + i] = c[i]
<1>1. Len(a) \in Nat /\ Len(b) \in Nat /\ Len(c) \in Nat
  BY LenProperties
<1>2. PICK d : d = a \o b
  OBVIOUS
<1>3. /\ d \in Seq(T) /\ Len(d) = Len(a) + Len(b)
      /\ \A i \in 1..Len(a) + Len(b) : d[i] = IF i <= Len(a) THEN a[i] ELSE b[i - Len(a)]
  BY <1>2, ConcatProperties
<1>4. s = d \o c
  BY <1>2
<1>5. /\ s \in Seq(T) /\ Len(s) = Len(d) + Len(c)
      /\ \A i \in 1..Len(d) + Len(c) : s[i] = IF i <= Len(d) THEN d[i] ELSE c[i - Len(d)]
  <2>1. d \in Seq(T)
    BY <1>3
  <2> QED
    BY <1>4, <2>1, ConcatProperties
<1>6. \A i \in 1..Len(a) : s[i] = a[i]
  BY <1>1, <1>3, <1>5
<1>7. ASSUME NEW i \in 1..Len(b) PROVE s[Len(a) + i] = b[i]
  <2>1. Len(a) + i \in 1..Len(d) + Len(c) /\ Len(a) + i <= Len(d)
        /\ Len(a) + i \in 1..Len(a) + Len(b) /\ ~(Len(a) + i <= Len(a))
        /\ Len(a) + i - Len(a) = i
    BY <1>1, <1>3
  <2> QED
    BY <2>1, <1>3, <1>5
<1>8. ASSUME NEW i \in 1..Len(c) PROVE s[Len(a) + Len(b) + i] = c[i]
  <2> DEFINE j == Len(a) + Len(b) + i
  <2>1. j \in 1..Len(d) + Len(c) /\ ~(j <= Len(d)) /\ j - Len(d) = i
    BY <1>1, <1>3
  <2> HIDE DEF j
  <2>2. s[j] = c[j - Len(d)]
    BY <2>1, <1>5
  <2> QED
    BY <2>1, <2>2 DEF j
<1> QED
  BY <1>1, <1>2, <1>3, <1>4, <1>5, <1>6, <1>7, <1>8

\* A module and the optional fields of an answer to command name.
Asked(name, module, optional) ==
  /\ name \in Names
  /\ module \in IF name \in {"pwr", "pwrsys"} THEN {Rack} ELSE Positions
  /\ optional \in SUBSET Optional

LEMMA Tuples ==
  ASSUME NEW x \in LineType, NEW y \in LineType, NEW z \in LineType
  PROVE  /\ <<x>> \in Seq(LineType) /\ Len(<<x>>) = 1 /\ <<x>>[1] = x
         /\ <<x, y>> \in Seq(LineType) /\ Len(<<x, y>>) = 2
         /\ <<x, y>>[1] = x /\ <<x, y>>[2] = y
         /\ <<x, y, z>> \in Seq(LineType) /\ Len(<<x, y, z>>) = 3
         /\ <<x, y, z>>[1] = x /\ <<x, y, z>>[2] = y /\ <<x, y, z>>[3] = z
OBVIOUS

LEMMA Joined ==
  ASSUME NEW x \in LineType, NEW y \in LineType, NEW z \in LineType
  PROVE  /\ <<x>> \o <<y>> = <<x, y>>
         /\ <<x, y>> \o <<z>> = <<x, y, z>>
<1>1. PICK a, b, c, ab, abc \in Seq(LineType) :
        /\ a = <<x>> /\ b = <<y>> /\ c = <<z>> /\ ab = <<x, y>> /\ abc = <<x, y, z>>
  BY Tuples
<1>2. /\ Len(a) = 1 /\ a[1] = x /\ Len(b) = 1 /\ b[1] = y /\ Len(c) = 1 /\ c[1] = z
      /\ Len(ab) = 2 /\ ab[1] = x /\ ab[2] = y
      /\ Len(abc) = 3 /\ abc[1] = x /\ abc[2] = y /\ abc[3] = z
  BY <1>1, Tuples
<1>3. PICK d, e : d = a \o b /\ e = ab \o c
  OBVIOUS
<1>4. /\ d \in Seq(LineType) /\ Len(d) = Len(a) + Len(b)
      /\ \A i \in 1..Len(a) + Len(b) : d[i] = IF i <= Len(a) THEN a[i] ELSE b[i - Len(a)]
  BY <1>3, ConcatProperties
<1>5. /\ e \in Seq(LineType) /\ Len(e) = Len(ab) + Len(c)
      /\ \A i \in 1..Len(ab) + Len(c) : e[i] = IF i <= Len(ab) THEN ab[i] ELSE c[i - Len(ab)]
  BY <1>3, ConcatProperties
<1>6. d = ab
  <2>1. Len(d) = 2 /\ d[1] = x /\ d[2] = y
    BY <1>2, <1>4
  <2>2. \A i \in 1..Len(d) : d[i] = ab[i]
    BY <2>1, <1>2
  <2> QED
    BY <1>2, <1>4, <2>1, <2>2, SeqEqual
<1>7. e = abc
  <2>1. Len(e) = 3 /\ e[1] = x /\ e[2] = y /\ e[3] = z
    BY <1>2, <1>5
  <2>2. \A i \in 1..Len(e) : e[i] = abc[i]
    BY <2>1, <1>2
  <2> QED
    BY <1>2, <1>5, <2>1, <2>2, SeqEqual
<1> QED
  BY <1>1, <1>3, <1>6, <1>7

LEMMA OneLine ==
  ASSUME NEW kind \in LineKinds, NEW key \in LineKeys, NEW module \in Nat
  PROVE  /\ Line(kind, key, module) \in LineType
         /\ Line(kind, key, module).kind = kind
         /\ Line(kind, key, module).key = key
         /\ Line(kind, key, module).said = <<module, key>>
BY DEF Line, LineType

LEMMA Modules ==
  ASSUME NEW name, NEW module, NEW optional, Asked(name, module, optional)
  PROVE  module \in Nat /\ module \in LineKeys /\ "" \in LineKeys /\ Rack \in LineKeys
<1>1. 0 \in Nat /\ \A p \in 1..16 : p \in Nat
  OBVIOUS
<1>2. module = 0 \/ module \in Positions
  BY DEF Asked, Rack
<1>3. module \in Nat
  BY <1>1, <1>2, PositionsAssumption
<1>4. Nat \subseteq LineKeys /\ "" \in LineKeys
  BY DEF LineKeys
<1> QED
  BY <1>1, <1>3, <1>4 DEF Rack

\* The lines around the data.
LEMMA Around ==
  ASSUME NEW name, NEW module, NEW optional, Asked(name, module, optional)
  PROVE  LET b == Opening(name, module)
             c == Closing(name)
         IN  /\ b \in Seq(LineType) /\ c \in Seq(LineType)
             /\ Len(b) = (CASE name \in {"pwr", "bat"} -> 1 [] name = "info" -> 0
                            [] name = "detail" -> 2 [] name = "pwrsys" -> 3)
             /\ name \in {"pwr", "bat"} => b[1] = Line("header", "", Rack)
             /\ name = "detail" => /\ b[1] = Line("dashes", "", Rack)
                                   /\ b[2] = Line("heading", module, module)
             /\ name = "pwrsys" => /\ b[1] = Line("heading", Rack, Rack)
                                   /\ b[2] = Line("dashes", "", Rack)
                                   /\ b[3] = Line("state", "", Rack)
             /\ Len(c) = (IF name = "detail" THEN 2 ELSE 1)
             /\ name = "detail" => c[1] = Line("dashes", "", Rack)
             /\ c[Len(c)] = Line("confirmation", "", Rack)
<1> USE Modules, OneLine
<1>1. /\ Line("header", "", Rack) \in LineType
      /\ Line("dashes", "", Rack) \in LineType
      /\ Line("state", "", Rack) \in LineType
      /\ Line("confirmation", "", Rack) \in LineType
      /\ Line("heading", Rack, Rack) \in LineType
      /\ Line("heading", module, module) \in LineType
  BY DEF LineKinds, Rack
<1>2. PICK h, d, st, c, r, m \in LineType :
        /\ h = Line("header", "", Rack) /\ d = Line("dashes", "", Rack)
        /\ st = Line("state", "", Rack) /\ c = Line("confirmation", "", Rack)
        /\ r = Line("heading", Rack, Rack) /\ m = Line("heading", module, module)
  BY <1>1
<1> DEFINE b == Opening(name, module)
           k == Closing(name)
<1>7. Len(<<c>>) = 1 /\ <<c>>[1] = c /\ <<c>> \in Seq(LineType)
  BY Tuples
<1>3. CASE name \in {"pwr", "bat"}
  <2>1. b = <<h>> /\ k = <<c>>
    BY <1>2, <1>3 DEF Opening, Closing, Header, Confirmation
  <2>2. /\ b \in Seq(LineType) /\ Len(b) = 1 /\ b[1] = h
        /\ k \in Seq(LineType) /\ Len(k) = 1 /\ k[1] = c
    <3>1. <<h>> \in Seq(LineType) /\ Len(<<h>>) = 1 /\ <<h>>[1] = h
      BY Tuples
    <3> QED
      BY <1>7, <2>1, <3>1, Zenon
  <2> HIDE DEF b, k
  <2>3. name \notin {"info", "detail", "pwrsys"}
    BY <1>3
  <2> QED
    BY <1>2, <1>3, <2>2, <2>3 DEF b, k
<1>4. CASE name = "info"
  <2>1. b = <<>> /\ k = <<c>>
    BY <1>2, <1>4 DEF Opening, Closing, Confirmation
  <2>2. /\ b \in Seq(LineType) /\ Len(b) = 0
        /\ k \in Seq(LineType) /\ Len(k) = 1 /\ k[1] = c
    BY <1>7, <2>1, EmptySeq
  <2> HIDE DEF b, k
  <2>3. name \notin {"pwr", "bat", "detail", "pwrsys"}
    BY <1>4
  <2> QED
    BY <1>2, <1>4, <2>2, <2>3 DEF b, k
<1>5. CASE name = "detail"
  <2>1. b = <<d>> \o <<m>> /\ k = <<d>> \o <<c>>
    BY <1>2, <1>5 DEF Opening, Closing, Dashes, Heading, Confirmation
  <2>2. b = <<d, m>> /\ k = <<d, c>>
    BY <2>1, Joined
  <2>3. /\ b \in Seq(LineType) /\ Len(b) = 2 /\ b[1] = d /\ b[2] = m
        /\ k \in Seq(LineType) /\ Len(k) = 2 /\ k[1] = d /\ k[2] = c
    <3>1. /\ <<d, m>> \in Seq(LineType) /\ Len(<<d, m>>) = 2
          /\ <<d, m>>[1] = d /\ <<d, m>>[2] = m
      BY Tuples
    <3>2. /\ <<d, c>> \in Seq(LineType) /\ Len(<<d, c>>) = 2
          /\ <<d, c>>[1] = d /\ <<d, c>>[2] = c
      BY Tuples
    <3> QED
      BY <2>2, <3>1, <3>2, Zenon
  <2> HIDE DEF b, k
  <2>4. name \notin {"pwr", "bat", "info", "pwrsys"}
    BY <1>5
  <2> QED
    BY <1>2, <1>5, <2>3, <2>4 DEF b, k
<1>6. CASE name = "pwrsys"
  <2>1. b = (<<r>> \o <<d>>) \o <<st>> /\ k = <<c>>
    BY <1>2, <1>6 DEF Opening, Closing, Heading, Dashes, State, Confirmation
  <2>2. <<r>> \o <<d>> = <<r, d>>
    BY Joined
  <2>3. b = <<r, d, st>>
    <3>1. <<r, d>> \o <<st>> = <<r, d, st>>
      BY Joined
    <3> QED
      BY <2>1, <2>2, <3>1, Zenon
  <2>4. /\ b \in Seq(LineType) /\ Len(b) = 3 /\ b[1] = r /\ b[2] = d /\ b[3] = st
        /\ k \in Seq(LineType) /\ Len(k) = 1 /\ k[1] = c
    <3>1. /\ <<r, d, st>> \in Seq(LineType) /\ Len(<<r, d, st>>) = 3
          /\ <<r, d, st>>[1] = r /\ <<r, d, st>>[2] = d /\ <<r, d, st>>[3] = st
      BY Tuples
    <3> QED
      BY <1>7, <2>1, <2>3, <3>1, Zenon
  <2> HIDE DEF b, k
  <2>5. name \notin {"pwr", "bat", "info", "detail"}
    BY <1>6
  <2> QED
    BY <1>2, <1>6, <2>4, <2>5 DEF b, k
<1> QED
  BY <1>3, <1>4, <1>5, <1>6 DEF Asked, Names

LEMMA DataListed ==
  ASSUME NEW name, NEW module, NEW optional, Asked(name, module, optional)
  PROVE  /\ DataKeys(name, module, optional) \subseteq LineKeys
         /\ \E m \in Nat : IsListing(InOrder(name, module, optional), m,
                                     DataKeys(name, module, optional))
<1>1. CASE name = "bat"
  <2>1. module \in Positions /\ CellCount[module] \in Nat \ {0}
    BY <1>1, CellCountAssumption DEF Asked
  <2> DEFINE n == CellCount[module]
             f == [i \in 1..n |-> i - 1]
  <2>2. InOrder(name, module, optional) = f /\ DataKeys(name, module, optional) = 0..n - 1
    BY <1>1 DEF InOrder, DataKeys, Cells
  <2>3. n \in Nat
    BY <2>1
  <2> HIDE DEF n
  <2>4. \A i \in 1..n : i - 1 \in 0..n - 1
    BY <2>3
  <2>5. \A x \in 0..n - 1 : x + 1 \in 1..n /\ f[x + 1] = x
    BY <2>3
  <2>6. IsListing(f, n, 0..n - 1)
    BY <2>3, <2>4, <2>5 DEF IsListing
  <2>7. 0..n - 1 \subseteq LineKeys
    <3>1. \A x \in 0..n - 1 : x \in Nat
      BY <2>3
    <3> QED
      BY <3>1 DEF LineKeys
  <2> QED
    BY <2>2, <2>3, <2>6, <2>7
<1>2. CASE name # "bat"
  <2> DEFINE S == DataKeys(name, module, optional)
  <2>1. InOrder(name, module, optional) = SetToSeq(S)
    BY <1>2 DEF InOrder
  <2>2. IsFiniteSet(S) /\ S \subseteq LineKeys
    <3>1. IsFiniteSet(Positions) /\ Positions \subseteq LineKeys
      <4>1. IsFiniteSet(1..16)
        <5>1. 1 \in Int /\ 16 \in Int
          OBVIOUS
        <5> QED
          BY <5>1, FS_Interval
      <4>2. \A p \in 1..16 : p \in Nat
        OBVIOUS
      <4>3. IsFiniteSet(Positions)
        BY <4>1, PositionsAssumption, FS_Subset
      <4>4. Positions \subseteq Nat
        BY <4>2, PositionsAssumption
      <4> QED
        BY <4>3, <4>4 DEF LineKeys
    <3>2. CASE name = "pwr"
      BY <3>1, <3>2 DEF DataKeys
    <3>3. CASE name = "pwrsys"
      BY <3>3, FieldsAssumption DEF DataKeys, LineKeys
    <3>4. CASE name \in {"info", "detail"}
      <4>1. S = Required \cup optional /\ optional \in SUBSET Optional
        BY <3>4 DEF DataKeys, Asked
      <4>2. IsFiniteSet(optional)
        BY <4>1, FieldsAssumption, FS_Subset
      <4>3. IsFiniteSet(Required \cup optional)
        BY <4>2, FieldsAssumption, FS_Union
      <4> QED
        BY <4>1, <4>3 DEF LineKeys
    <3> QED
      BY <1>2, <3>2, <3>3, <3>4 DEF Asked, Names
  <2> HIDE DEF S
  <2>3. Cardinality(S) \in Nat /\ IsListing(SetToSeq(S), Cardinality(S), S)
    BY <2>2, Listing
  <2> QED
    BY <2>1, <2>2, <2>3 DEF S
<1> QED
  BY <1>1, <1>2

\* How the lines of an answer lie: a lines, then m lines of data, in the order
\* of f, then the rest.
LinesBefore(name) ==
  CASE name \in {"pwr", "bat"} -> 1
    [] name = "info"           -> 0
    [] name = "detail"         -> 2
    [] name = "pwrsys"         -> 3

LinesAfter(name) == IF name = "detail" THEN 2 ELSE 1

Shape(s, name, module, optional, a, m, f) ==
  /\ s \in Seq(LineType)
  /\ m \in Nat /\ a = LinesBefore(name)
  /\ Len(s) = a + m + LinesAfter(name)
  /\ IsListing(f, m, DataKeys(name, module, optional))
  /\ name = "bat" => m = CellCount[module] /\ \A i \in 1..m : f[i] = i - 1
  /\ name \in {"pwr", "bat"} => s[1] = Line("header", "", Rack)
  /\ name = "detail" => /\ s[1] = Line("dashes", "", Rack)
                        /\ s[2] = Line("heading", module, module)
                        /\ s[m + 3] = Line("dashes", "", Rack)
  /\ name = "pwrsys" => /\ s[1] = Line("heading", Rack, Rack)
                        /\ s[2] = Line("dashes", "", Rack)
                        /\ s[3] = Line("state", "", Rack)
  /\ \A i \in 1..m : s[a + i] = Line(DataKind(name), f[i], module)
  /\ s[Len(s)] = Line("confirmation", "", Rack)

DataLines(name, module, optional) ==
  LET f == InOrder(name, module, optional)
  IN  [i \in DOMAIN f |-> Line(DataKind(name), f[i], module)]

LEMMA DataTyped ==
  ASSUME NEW name, NEW module, NEW optional, Asked(name, module, optional),
         NEW m \in Nat,
         IsListing(InOrder(name, module, optional), m, DataKeys(name, module, optional))
  PROVE  LET d == DataLines(name, module, optional)
         IN  /\ d \in Seq(LineType) /\ Len(d) = m
             /\ \A i \in 1..m :
                  d[i] = Line(DataKind(name), InOrder(name, module, optional)[i], module)
<1> DEFINE f == InOrder(name, module, optional)
           d == [i \in 1..m |-> Line(DataKind(name), f[i], module)]
<1>1. DOMAIN f = 1..m
  BY DEF IsListing
<1>2. \A i \in 1..m : Line(DataKind(name), f[i], module) \in LineType
  <2> TAKE i \in 1..m
  <2>1. f[i] \in LineKeys
    BY DataListed DEF IsListing
  <2>2. DataKind(name) \in LineKinds
    BY DEF DataKind, LineKinds
  <2> QED
    BY <2>1, <2>2, OneLine, Modules
<1>3. DataLines(name, module, optional) = d
  BY <1>1 DEF DataLines
<1> HIDE DEF f
<1>4. d \in Seq(LineType) /\ Len(d) = m
  BY <1>2
<1> QED
  BY <1>3, <1>4 DEF f

LEMMA AnswerParts ==
  ASSUME NEW name, NEW module, NEW optional, Asked(name, module, optional)
  PROVE  Answer(name, module, optional) =
           (Opening(name, module) \o DataLines(name, module, optional)) \o Closing(name)
<1> DEFINE d == DataLines(name, module, optional)
           b == Opening(name, module)
<1>1. d \in Seq(LineType)
  BY DataListed, DataTyped
<1>2. CASE name = "pwr"
  <2>1. module = Rack /\ d = Rows(SetToSeq(Positions), Rack)
    BY <1>2 DEF Asked, DataLines, InOrder, DataKeys, DataKind, Rows
  <2>2. b = Header /\ Closing(name) = Confirmation
    BY <1>2 DEF Opening, Closing
  <2>3. Answer(name, module, optional) = (Header \o Rows(SetToSeq(Positions), Rack)) \o Confirmation
    BY <1>2 DEF Answer
  <2> QED
    BY <2>1, <2>2, <2>3, Zenon
<1>3. CASE name = "bat"
  <2>1. d = Rows([i \in 1..CellCount[module] |-> i - 1], module)
    BY <1>3 DEF DataLines, InOrder, DataKind, Rows
  <2>2. b = Header /\ Closing(name) = Confirmation
    BY <1>3 DEF Opening, Closing
  <2>3. Answer(name, module, optional)
          = (Header \o Rows([i \in 1..CellCount[module] |-> i - 1], module)) \o Confirmation
    BY <1>3 DEF Answer
  <2> QED
    BY <2>1, <2>2, <2>3, Zenon
<1>4. CASE name = "info"
  <2>1. d = Fields(Required \cup optional, module)
    BY <1>4 DEF DataLines, InOrder, DataKeys, DataKind, Fields
  <2>2. b = <<>> /\ Closing(name) = Confirmation
    BY <1>4 DEF Opening, Closing
  <2>3. Answer(name, module, optional) = Fields(Required \cup optional, module) \o Confirmation
    BY <1>4 DEF Answer
  <2>4. <<>> \o d = d
    BY <1>1, ConcatEmptySeq
  <2> QED
    BY <2>1, <2>2, <2>3, <2>4, Zenon
<1>5. CASE name = "detail"
  <2>1. d = Fields(Required \cup optional, module)
    BY <1>5 DEF DataLines, InOrder, DataKeys, DataKind, Fields
  <2>2. b = Dashes \o Heading(module) /\ Closing(name) = Dashes \o Confirmation
    BY <1>5 DEF Opening, Closing
  <2>3. Answer(name, module, optional)
          = (((Dashes \o Heading(module)) \o Fields(Required \cup optional, module)) \o Dashes)
              \o Confirmation
    BY <1>5 DEF Answer
  <2>4. Dashes \in Seq(LineType) /\ Confirmation \in Seq(LineType)
    <3>1. /\ Line("dashes", "", Rack) \in LineType
          /\ Line("confirmation", "", Rack) \in LineType
      BY Modules, OneLine DEF LineKinds, Rack
    <3> QED
      BY <3>1, Tuples DEF Dashes, Confirmation
  <2>5. b \o d \in Seq(LineType)
    BY <1>1, Around, ConcatProperties
  <2>6. ((b \o d) \o Dashes) \o Confirmation = (b \o d) \o (Dashes \o Confirmation)
    BY <2>4, <2>5, ConcatAssociative
  <2> QED
    BY <2>1, <2>2, <2>3, <2>6, Zenon
<1>6. CASE name = "pwrsys"
  <2>1. module = Rack /\ d = Fields(Required, Rack)
    BY <1>6 DEF Asked, DataLines, InOrder, DataKeys, DataKind, Fields
  <2>2. b = (Heading(Rack) \o Dashes) \o State /\ Closing(name) = Confirmation
    BY <1>6 DEF Opening, Closing
  <2>3. Answer(name, module, optional)
          = (((Heading(Rack) \o Dashes) \o State) \o Fields(Required, Rack)) \o Confirmation
    BY <1>6 DEF Answer
  <2> QED
    BY <2>1, <2>2, <2>3, Zenon
<1> QED
  BY <1>2, <1>3, <1>4, <1>5, <1>6 DEF Asked, Names

LEMMA AnswerShape ==
  ASSUME NEW name, NEW module, NEW optional, Asked(name, module, optional)
  PROVE  \E m, f :
           Shape(Answer(name, module, optional), name, module, optional,
                 LinesBefore(name), m, f)
<1>1. PICK m \in Nat : IsListing(InOrder(name, module, optional), m,
                                 DataKeys(name, module, optional))
  BY DataListed
<1>2. PICK f : f = InOrder(name, module, optional)
  OBVIOUS
<1>3. PICK a, b, d, c : /\ a = LinesBefore(name)
                        /\ b = Opening(name, module) /\ c = Closing(name)
                        /\ d = DataLines(name, module, optional)
  OBVIOUS
<1>4. PICK s : s = Answer(name, module, optional)
  OBVIOUS
<1>5. /\ b \in Seq(LineType) /\ c \in Seq(LineType)
      /\ Len(b) = a /\ Len(c) = LinesAfter(name) /\ a \in Nat
      /\ name \in {"pwr", "bat"} => b[1] = Line("header", "", Rack) /\ a = 1
      /\ name = "detail" => /\ b[1] = Line("dashes", "", Rack)
                            /\ b[2] = Line("heading", module, module)
                            /\ c[1] = Line("dashes", "", Rack) /\ a = 2 /\ Len(c) = 2
      /\ name = "pwrsys" => /\ b[1] = Line("heading", Rack, Rack)
                            /\ b[2] = Line("dashes", "", Rack)
                            /\ b[3] = Line("state", "", Rack) /\ a = 3
      /\ c[Len(c)] = Line("confirmation", "", Rack)
      /\ Len(c) \in {1, 2}
  <2>1. /\ b \in Seq(LineType) /\ c \in Seq(LineType)
        /\ Len(b) = LinesBefore(name) /\ Len(c) = LinesAfter(name)
    BY <1>3, Around DEF LinesBefore, LinesAfter
  <2>2. /\ name \in {"pwr", "bat"} => b[1] = Line("header", "", Rack)
        /\ name = "detail" => /\ b[1] = Line("dashes", "", Rack)
                              /\ b[2] = Line("heading", module, module)
                              /\ c[1] = Line("dashes", "", Rack)
        /\ name = "pwrsys" => /\ b[1] = Line("heading", Rack, Rack)
                              /\ b[2] = Line("dashes", "", Rack)
                              /\ b[3] = Line("state", "", Rack)
        /\ c[Len(c)] = Line("confirmation", "", Rack)
    <3>2. c[Len(c)] = Line("confirmation", "", Rack)
      BY <1>3, Around
    <3>3. name \in {"pwr", "bat"} => b[1] = Line("header", "", Rack)
      BY <1>3, Around
    <3>4. name = "detail" => /\ b[1] = Line("dashes", "", Rack)
                             /\ b[2] = Line("heading", module, module)
                             /\ c[1] = Line("dashes", "", Rack)
      <4>1. name = "detail" => b[1] = Line("dashes", "", Rack)
        BY <1>3, Around
      <4>2. name = "detail" => b[2] = Line("heading", module, module)
        BY <1>3, Around
      <4>3. name = "detail" => c[1] = Line("dashes", "", Rack)
        BY <1>3, Around
      <4> QED
        BY <4>1, <4>2, <4>3
    <3>5. name = "pwrsys" => /\ b[1] = Line("heading", Rack, Rack)
                             /\ b[2] = Line("dashes", "", Rack)
                             /\ b[3] = Line("state", "", Rack)
      <4>1. name = "pwrsys" => b[1] = Line("heading", Rack, Rack)
        BY <1>3, Around
      <4>2. name = "pwrsys" => b[2] = Line("dashes", "", Rack)
        BY <1>3, Around
      <4>3. name = "pwrsys" => b[3] = Line("state", "", Rack)
        BY <1>3, Around
      <4> QED
        BY <4>1, <4>2, <4>3
    <3> QED
      BY <3>2, <3>3, <3>4, <3>5
  <2>3. /\ name \in {"pwr", "bat"} => LinesBefore(name) = 1
        /\ name = "info" => LinesBefore(name) = 0
        /\ name = "detail" => LinesBefore(name) = 2 /\ LinesAfter(name) = 2
        /\ name = "pwrsys" => LinesBefore(name) = 3
        /\ LinesAfter(name) \in {1, 2}
    BY DEF LinesBefore, LinesAfter
  <2>4. LinesBefore(name) \in Nat
    BY <2>3 DEF Asked, Names
  <2> QED
    BY <1>3, <2>1, <2>2, <2>3, <2>4
<1>6. /\ d \in Seq(LineType) /\ Len(d) = m
      /\ \A i \in 1..m : d[i] = Line(DataKind(name), f[i], module)
  BY <1>1, <1>2, <1>3, DataTyped
<1>7. /\ s \in Seq(LineType)
      /\ Len(s) = a + m + Len(c)
      /\ \A i \in 1..a : s[i] = b[i]
      /\ \A i \in 1..m : s[a + i] = d[i]
      /\ \A i \in 1..Len(c) : s[a + m + i] = c[i]
  <2>1. s = (b \o d) \o c
    BY <1>3, <1>4, AnswerParts
  <2>2. /\ s \in Seq(LineType)
        /\ Len(s) = Len(b) + Len(d) + Len(c)
        /\ \A i \in 1..Len(b) : s[i] = b[i]
        /\ \A i \in 1..Len(d) : s[Len(b) + i] = d[i]
        /\ \A i \in 1..Len(c) : s[Len(b) + Len(d) + i] = c[i]
    <3>1. b \in Seq(LineType) /\ d \in Seq(LineType) /\ c \in Seq(LineType)
      BY <1>5, <1>6
    <3> QED
      BY <2>1, <3>1, Concat3
  <2> QED
    BY <1>5, <1>6, <2>2
<1>8. s[Len(s)] = Line("confirmation", "", Rack)
  <2>1. Len(c) \in 1..Len(c)
    <3>1. Len(c) = 1 \/ Len(c) = 2
      BY <1>5
    <3> QED
      BY <3>1
  <2>2. Len(s) = a + m + Len(c)
    BY <1>7
  <2> QED
    BY <1>5, <1>7, <2>1, <2>2, Zenon
<1>9. name = "bat" => m = CellCount[module] /\ \A i \in 1..m : f[i] = i - 1
  <2> SUFFICES ASSUME name = "bat"
               PROVE  m = CellCount[module] /\ \A i \in 1..m : f[i] = i - 1
    OBVIOUS
  <2>1. f = [i \in 1..CellCount[module] |-> i - 1]
    BY <1>2 DEF InOrder
  <2>2. CellCount[module] \in Nat
    BY CellCountAssumption DEF Asked
  <2>3. DOMAIN f = 1..m /\ DOMAIN f = 1..CellCount[module]
    BY <1>1, <1>2, <2>1 DEF IsListing
  <2>4. m = CellCount[module]
    BY <2>2, <2>3
  <2> QED
    BY <2>1, <2>4
<1>10. /\ name \in {"pwr", "bat"} => s[1] = Line("header", "", Rack)
       /\ name = "detail" => /\ s[1] = Line("dashes", "", Rack)
                             /\ s[2] = Line("heading", module, module)
                             /\ s[m + 3] = Line("dashes", "", Rack)
       /\ name = "pwrsys" => /\ s[1] = Line("heading", Rack, Rack)
                             /\ s[2] = Line("dashes", "", Rack)
                             /\ s[3] = Line("state", "", Rack)
  <2>1. a = 2 => a + m + 1 = m + 3
    OBVIOUS
  <2>2. a = 2 => 1 \in 1..a /\ 2 \in 1..a
    OBVIOUS
  <2>3. a = 3 => 1 \in 1..a /\ 2 \in 1..a /\ 3 \in 1..a
    OBVIOUS
  <2>4. a = 1 => 1 \in 1..a
    OBVIOUS
  <2>5. Len(c) = 2 => 1 \in 1..Len(c)
    OBVIOUS
  <2> QED
    BY <1>5, <1>7, <2>1, <2>2, <2>3, <2>4, <2>5
<1>11. Shape(s, name, module, optional, a, m, f)
  BY <1>1, <1>2, <1>3, <1>5, <1>6, <1>7, <1>8, <1>9, <1>10 DEF Shape
<1> QED
  BY <1>3, <1>4, <1>11

(***************************************************************************)
(* What damage does to a sequence of lines.                                *)
(***************************************************************************)

\* Every line of t is one of s, or cannot be read.
From(t, s) ==
  \A j \in DOMAIN t : t[j].kind = "garbled" \/ \E i \in DOMAIN s : t[j] = s[i]

LEMMA Parts ==
  ASSUME NEW T, NEW s \in Seq(T), NEW i \in 1..Len(s), NEW k \in i..i + 1
  PROVE  LET u == SubSeq(s, 1, i - 1)
             v == SubSeq(s, k, Len(s))
         IN  /\ u \in Seq(T) /\ Len(u) = i - 1 /\ \A j \in 1..i - 1 : u[j] = s[j]
             /\ v \in Seq(T) /\ Len(v) = Len(s) - k + 1
             /\ \A j \in 1..Len(s) - k + 1 : v[j] = s[k + j - 1]
<1> DEFINE u == SubSeq(s, 1, i - 1)
           v == SubSeq(s, k, Len(s))
<1>1. Len(s) \in Nat /\ i \in Nat /\ k \in Nat /\ k >= 1 /\ k <= Len(s) + 1
  BY LenProperties
<1>2. /\ u \in Seq(T) /\ Len(u) = (IF 1 <= i - 1 THEN i - 1 - 1 + 1 ELSE 0)
      /\ \A j \in 1..i - 1 - 1 + 1 : u[j] = s[1 + j - 1]
  <2>1. 1 \in Int /\ i - 1 \in Int /\ \A j \in 1..i - 1 : s[j] \in T
    BY <1>1, ElementOfSeq
  <2> QED
    BY <2>1, SubSeqProperties
<1>3. /\ v \in Seq(T) /\ Len(v) = (IF k <= Len(s) THEN Len(s) - k + 1 ELSE 0)
      /\ \A j \in 1..Len(s) - k + 1 : v[j] = s[k + j - 1]
  <2>1. k \in Int /\ Len(s) \in Int /\ \A j \in k..Len(s) : s[j] \in T
    BY <1>1, ElementOfSeq
  <2> QED
    BY <2>1, SubSeqProperties
<1>4. \A j \in 1..i - 1 : j \in 1..i - 1 - 1 + 1 /\ 1 + j - 1 = j
  BY <1>1
<1>5. Len(u) = i - 1 /\ Len(v) = Len(s) - k + 1
  BY <1>1, <1>2, <1>3
<1> HIDE DEF u, v
<1>6. \A j \in 1..i - 1 : u[j] = s[j]
  BY <1>2, <1>4
<1>7. /\ u \in Seq(T) /\ v \in Seq(T)
      /\ \A j \in 1..Len(s) - k + 1 : v[j] = s[k + j - 1]
  BY <1>2, <1>3
<1> QED
  BY <1>5, <1>6, <1>7 DEF u, v

LEMMA Removing ==
  ASSUME NEW s \in Seq(LineType), NEW i \in DOMAIN s
  PROVE  /\ RemoveAt(s, i) \in Seq(LineType)
         /\ Len(RemoveAt(s, i)) = Len(s) - 1
         /\ From(RemoveAt(s, i), s)
<1>1. Len(s) \in Nat /\ DOMAIN s = 1..Len(s) /\ i \in 1..Len(s) /\ i + 1 \in i..i + 1
  BY LenProperties
<1>2. PICK u, v : u = SubSeq(s, 1, i - 1) /\ v = SubSeq(s, i + 1, Len(s))
  OBVIOUS
<1>3. /\ u \in Seq(LineType) /\ Len(u) = i - 1 /\ \A j \in 1..i - 1 : u[j] = s[j]
      /\ v \in Seq(LineType) /\ Len(v) = Len(s) - (i + 1) + 1
      /\ \A j \in 1..Len(s) - (i + 1) + 1 : v[j] = s[i + 1 + j - 1]
  BY <1>1, <1>2, Parts
<1>4. PICK t : t = u \o v
  OBVIOUS
<1>5. /\ t \in Seq(LineType) /\ Len(t) = Len(u) + Len(v)
      /\ \A j \in 1..Len(u) + Len(v) : t[j] = IF j <= Len(u) THEN u[j] ELSE v[j - Len(u)]
  BY <1>3, <1>4, ConcatProperties
<1>6. RemoveAt(s, i) = t
  BY <1>2, <1>4 DEF RemoveAt
<1>7. Len(t) = Len(s) - 1
  BY <1>1, <1>3, <1>5
<1>8. \A j \in DOMAIN t : \E h \in DOMAIN s : t[j] = s[h]
  <2> TAKE j \in DOMAIN t
  <2>1. j \in 1..Len(s) - 1
    BY <1>5, <1>7, LenProperties
  <2>2. CASE j <= i - 1
    <3>1. j \in 1..Len(u) + Len(v) /\ j <= Len(u) /\ j \in 1..i - 1 /\ j \in 1..Len(s)
      BY <1>1, <1>3, <2>1, <2>2
    <3>2. t[j] = s[j]
      BY <1>3, <1>5, <3>1
    <3> QED
      BY <1>1, <3>1, <3>2
  <2>3. CASE ~(j <= i - 1)
    <3>4. j \in 1..Len(u) + Len(v) /\ ~(j <= Len(u)) /\ Len(u) = i - 1
      BY <1>1, <1>3, <2>1, <2>3
    <3>5. t[j] = v[j - (i - 1)]
      BY <1>5, <3>4
    <3>6. j - (i - 1) \in 1..Len(s) - (i + 1) + 1
      BY <1>1, <2>1, <2>3
    <3>1. t[j] = v[j - (i - 1)] /\ j - (i - 1) \in 1..Len(s) - (i + 1) + 1
      BY <3>5, <3>6
    <3>2. t[j] = s[i + 1 + (j - (i - 1)) - 1]
      BY <1>3, <3>1
    <3>3. i + 1 + (j - (i - 1)) - 1 \in 1..Len(s)
      BY <1>1, <2>1, <2>3
    <3> QED
      BY <1>1, <3>2, <3>3
  <2> QED
    BY <2>2, <2>3
<1> QED
  BY <1>5, <1>6, <1>7, <1>8 DEF From

LEMMA Inserting ==
  ASSUME NEW s \in Seq(LineType), NEW i \in DOMAIN s
  PROVE  LET t == InsertAt(s, i, s[i])
         IN  t \in Seq(LineType) /\ Len(t) = Len(s) + 1 /\ From(t, s)
<1>1. Len(s) \in Nat /\ DOMAIN s = 1..Len(s) /\ i \in 1..Len(s) /\ i \in i..i + 1
  BY LenProperties
<1>2. PICK u, v : u = SubSeq(s, 1, i - 1) /\ v = SubSeq(s, i, Len(s))
  OBVIOUS
<1>3. /\ u \in Seq(LineType) /\ Len(u) = i - 1 /\ \A j \in 1..i - 1 : u[j] = s[j]
      /\ v \in Seq(LineType) /\ Len(v) = Len(s) - i + 1
      /\ \A j \in 1..Len(s) - i + 1 : v[j] = s[i + j - 1]
  BY <1>1, <1>2, Parts
<1>4. PICK w \in Seq(LineType) : w = <<s[i]>> /\ Len(w) = 1 /\ w[1] = s[i]
  <2>1. s[i] \in LineType
    BY <1>1, ElementOfSeq
  <2>2. <<s[i]>> \in Seq(LineType) /\ Len(<<s[i]>>) = 1 /\ <<s[i]>>[1] = s[i]
    BY <2>1, Tuples
  <2> QED
    BY <2>2, Zenon
<1>5. PICK t : t = (u \o w) \o v
  OBVIOUS
<1>6. /\ t \in Seq(LineType)
      /\ Len(t) = Len(u) + Len(w) + Len(v)
      /\ \A j \in 1..Len(u) : t[j] = u[j]
      /\ \A j \in 1..Len(w) : t[Len(u) + j] = w[j]
      /\ \A j \in 1..Len(v) : t[Len(u) + Len(w) + j] = v[j]
  <2>1. u \in Seq(LineType) /\ w \in Seq(LineType) /\ v \in Seq(LineType)
    BY <1>3
  <2> QED
    BY <1>5, <2>1, Concat3
<1>7. InsertAt(s, i, s[i]) = t
  BY <1>2, <1>4, <1>5, Zenon DEF InsertAt
<1>8. Len(t) = Len(s) + 1
  BY <1>1, <1>3, <1>4, <1>6
<1>9. \A j \in DOMAIN t : \E h \in DOMAIN s : t[j] = s[h]
  <2> TAKE j \in DOMAIN t
  <2>1. j \in 1..Len(s) + 1
    BY <1>6, <1>8, LenProperties
  <2>2. CASE j <= i - 1
    <3>1. j \in 1..Len(u) /\ j \in 1..i - 1 /\ j \in 1..Len(s)
      BY <1>1, <1>3, <2>1, <2>2
    <3> QED
      BY <1>1, <1>3, <1>6, <3>1
  <2>3. CASE j = i
    <3>1. j = Len(u) + 1 /\ 1 \in 1..Len(w)
      BY <1>1, <1>3, <1>4, <2>3
    <3>2. t[Len(u) + 1] = w[1]
      BY <1>6, <3>1
    <3> QED
      BY <1>1, <1>4, <2>3, <3>1, <3>2
  <2>4. CASE j > i
    <3> DEFINE h == j - i
    <3>1. h \in 1..Len(v) /\ h \in 1..Len(s) - i + 1 /\ j = Len(u) + Len(w) + h
          /\ i + h - 1 \in 1..Len(s)
      BY <1>1, <1>3, <1>4, <2>1, <2>4
    <3> HIDE DEF h
    <3>2. t[j] = v[h] /\ v[h] = s[i + h - 1]
      BY <1>3, <1>6, <3>1
    <3> QED
      BY <1>1, <3>1, <3>2
  <2>5. j \in Int /\ i \in Int
    BY <1>1, <2>1
  <2> QED
    BY <2>2, <2>3, <2>4, <2>5
<1> QED
  BY <1>6, <1>7, <1>8, <1>9 DEF From

LEMMA Exchanging ==
  ASSUME NEW s \in Seq(LineType), NEW i \in 1..Len(s) - 1
  PROVE  LET t == [s EXCEPT ![i] = s[i + 1], ![i + 1] = s[i]]
         IN  /\ t \in Seq(LineType) /\ Len(t) = Len(s) /\ From(t, s)
             /\ t[i] = s[i + 1] /\ t[i + 1] = s[i]
             /\ \A j \in 1..Len(s) \ {i, i + 1} : t[j] = s[j]
<1>1. Len(s) \in Nat /\ DOMAIN s = 1..Len(s) /\ i \in 1..Len(s) /\ i + 1 \in 1..Len(s)
      /\ i # i + 1
  BY LenProperties
<1>2. s[i] \in LineType /\ s[i + 1] \in LineType
  BY <1>1, ElementOfSeq
<1>3. PICK u : u = [s EXCEPT ![i] = s[i + 1]]
  OBVIOUS
<1>4. /\ u \in Seq(LineType) /\ Len(u) = Len(s)
      /\ \A j \in 1..Len(s) : u[j] = IF j = i THEN s[i + 1] ELSE s[j]
  BY <1>1, <1>2, <1>3, ExceptSeq
<1>5. PICK t : t = [u EXCEPT ![i + 1] = s[i]]
  OBVIOUS
<1>6. /\ t \in Seq(LineType) /\ Len(t) = Len(s)
      /\ \A j \in 1..Len(s) : t[j] = IF j = i + 1 THEN s[i] ELSE u[j]
  <2>1. i + 1 \in 1..Len(u)
    BY <1>1, <1>4
  <2>2. /\ t \in Seq(LineType) /\ Len(t) = Len(u)
        /\ \A j \in 1..Len(u) : t[j] = IF j = i + 1 THEN s[i] ELSE u[j]
    BY <1>2, <1>4, <1>5, <2>1, ExceptSeq
  <2> QED
    BY <1>4, <2>2
<1>7. [s EXCEPT ![i] = s[i + 1], ![i + 1] = s[i]] = t
  BY <1>3, <1>5
<1>8. t[i] = s[i + 1] /\ t[i + 1] = s[i] /\ \A j \in 1..Len(s) \ {i, i + 1} : t[j] = s[j]
  BY <1>1, <1>4, <1>6
<1>9. DOMAIN t = 1..Len(s)
  BY <1>6, LenProperties
<1>10. From(t, s)
  BY <1>1, <1>8, <1>9 DEF From
<1> QED
  BY <1>6, <1>7, <1>8, <1>10

LEMMA Garbling ==
  ASSUME NEW s \in Seq(LineType), NEW i \in DOMAIN s
  PROVE  LET t == [s EXCEPT ![i].kind = "garbled"]
         IN  /\ t \in Seq(LineType) /\ Len(t) = Len(s) /\ From(t, s)
             /\ \A j \in 1..Len(s) : t[j].said = s[j].said
<1>1. Len(s) \in Nat /\ DOMAIN s = 1..Len(s) /\ i \in 1..Len(s)
  BY LenProperties
<1>2. s[i] \in LineType
  BY <1>1, ElementOfSeq
<1>3. PICK e : e = [s[i] EXCEPT !.kind = "garbled"]
  OBVIOUS
<1>4. e \in LineType /\ e.kind = "garbled" /\ e.said = s[i].said
  BY <1>2, <1>3 DEF LineType, LineKinds
<1>5. PICK t : t = [s EXCEPT ![i] = e]
  OBVIOUS
<1>6. /\ t \in Seq(LineType) /\ Len(t) = Len(s)
      /\ \A j \in 1..Len(s) : t[j] = IF j = i THEN e ELSE s[j]
  BY <1>1, <1>4, <1>5, ExceptSeq
<1>7. [s EXCEPT ![i].kind = "garbled"] = t
  BY <1>1, <1>3, <1>5
<1>8. DOMAIN t = 1..Len(s)
  BY <1>6, LenProperties
<1>9. From(t, s)
  BY <1>1, <1>4, <1>6, <1>8 DEF From
<1>10. \A j \in 1..Len(s) : t[j].said = s[j].said
  BY <1>4, <1>6
<1> QED
  BY <1>6, <1>7, <1>9, <1>10

LEMMA Misreading ==
  ASSUME NEW s \in Seq(LineType), NEW i \in DOMAIN s, NEW k \in LineKeys
  PROVE  LET t == [s EXCEPT ![i].key = k]
         IN  /\ t \in Seq(LineType) /\ Len(t) = Len(s)
             /\ t[i].key = k
             /\ \A j \in 1..Len(s) : t[j].said = s[j].said /\ t[j].kind = s[j].kind
             /\ \A j \in 1..Len(s) \ {i} : t[j] = s[j]
<1>1. Len(s) \in Nat /\ DOMAIN s = 1..Len(s) /\ i \in 1..Len(s)
  BY LenProperties
<1>2. s[i] \in LineType
  BY <1>1, ElementOfSeq
<1>3. PICK e : e = [s[i] EXCEPT !.key = k]
  OBVIOUS
<1>4. e \in LineType /\ e.key = k /\ e.kind = s[i].kind /\ e.said = s[i].said
  BY <1>2, <1>3 DEF LineType
<1>5. PICK t : t = [s EXCEPT ![i] = e]
  OBVIOUS
<1>6. /\ t \in Seq(LineType) /\ Len(t) = Len(s)
      /\ \A j \in 1..Len(s) : t[j] = IF j = i THEN e ELSE s[j]
  BY <1>1, <1>4, <1>5, ExceptSeq
<1>7. [s EXCEPT ![i].key = k] = t
  BY <1>1, <1>3, <1>5
<1>8. t[i].key = k
  BY <1>1, <1>4, <1>6
<1>9. \A j \in 1..Len(s) : t[j].said = s[j].said /\ t[j].kind = s[j].kind
  BY <1>4, <1>6
<1>10. \A j \in 1..Len(s) \ {i} : t[j] = s[j]
  BY <1>6
<1> QED
  BY <1>6, <1>7, <1>8, <1>9, <1>10

(***************************************************************************)
(* Where the data of an answer is.                                         *)
(***************************************************************************)
Data(s, name) == LinesBefore(name) + 1..Len(s) - LinesAfter(name)

AroundKinds(name) ==
  CASE name \in {"pwr", "bat"} -> {"header"}
    [] name = "info"           -> {}
    [] name = "detail"         -> Skipped
    [] name = "pwrsys"         -> Skipped \cup {"state"}

LEMMA ShapeLines ==
  ASSUME NEW s, NEW name, NEW module, NEW optional, NEW a, NEW m, NEW f,
         Asked(name, module, optional),
         Shape(s, name, module, optional, a, m, f)
  PROVE  LET I == Data(s, name)
             K == DataKeys(name, module, optional)
         IN  /\ Len(s) \in Nat /\ DOMAIN s = 1..Len(s) /\ Len(s) = a + m + LinesAfter(name)
             /\ Len(s) >= 1 /\ I \subseteq 1..Len(s) - 1
             /\ \A i \in I : /\ s[i].kind = DataKind(name)
                             /\ s[i].key = f[i - a] /\ s[i].key \in K
                             /\ s[i].said = <<module, s[i].key>>
             /\ \A i \in 1..Len(s) - 1 : i \notin I => s[i].kind \in AroundKinds(name)
             /\ \A i \in DOMAIN s : s[i].kind = "heading" => s[i].key = module
             /\ s[Len(s)].kind = "confirmation"
             /\ Distinct(s, I) /\ Keys(s, I) = K
<1> DEFINE I == Data(s, name)
           K == DataKeys(name, module, optional)
<1>1. /\ s \in Seq(LineType) /\ m \in Nat /\ a = LinesBefore(name)
      /\ Len(s) = a + m + LinesAfter(name)
      /\ IsListing(f, m, K)
      /\ \A i \in 1..m : s[a + i] = Line(DataKind(name), f[i], module)
      /\ s[Len(s)] = Line("confirmation", "", Rack)
  BY DEF Shape
<1>2. /\ name \in {"pwr", "bat"} => a = 1 /\ LinesAfter(name) = 1
      /\ name = "info" => a = 0 /\ LinesAfter(name) = 1
      /\ name = "detail" => a = 2 /\ LinesAfter(name) = 2
      /\ name = "pwrsys" => a = 3 /\ LinesAfter(name) = 1
  BY <1>1 DEF LinesBefore, LinesAfter
<1>3. a \in 0..3 /\ LinesAfter(name) \in 1..2
  BY <1>2 DEF Asked, Names
<1>21. PICK n, c : n = Len(s) /\ c = LinesAfter(name)
  OBVIOUS
<1>22. m \in Nat /\ a \in Nat /\ a <= 3 /\ c \in Nat /\ 1 <= c /\ c <= 2 /\ n = a + m + c
  <2>1. m \in Nat /\ n = a + m + c
    BY <1>1, <1>21
  <2>2. a \in 0..3 /\ c \in 1..2
    BY <1>3, <1>21
  <2> QED
    BY <2>1, <2>2
<1>4. /\ Len(s) \in Nat /\ DOMAIN s = 1..Len(s) /\ Len(s) >= 1
  <2>1. n \in Nat /\ n >= 1
    BY <1>22
  <2>2. DOMAIN s = 1..Len(s)
    BY <1>1, LenProperties
  <2> QED
    BY <1>21, <2>1, <2>2
<1>5. I = a + 1..a + m
  <2>1. n - c = a + m
    BY <1>22
  <2>2. Data(s, name) = a + 1..n - c
    BY <1>1, <1>21 DEF Data
  <2> QED
    BY <2>1, <2>2
<1>6. I \subseteq 1..Len(s) - 1
  <2>1. a + 1..a + m \subseteq 1..n - 1
    BY <1>22
  <2> QED
    BY <1>5, <1>21, <2>1
<1> HIDE DEF I, K
<1>10. ASSUME NEW i \in I
       PROVE  /\ i - a \in 1..m /\ i = a + (i - a)
              /\ s[i].kind = DataKind(name) /\ s[i].key = f[i - a] /\ s[i].key \in K
              /\ s[i].said = <<module, s[i].key>>
  <2>5. i \in a + 1..a + m
    BY <1>5
  <2>1. i - a \in 1..m /\ i = a + (i - a)
    BY <1>22, <2>5
  <2>2. f[i - a] \in K
    BY <1>1, <2>1 DEF IsListing
  <2>3. s[i] = Line(DataKind(name), f[i - a], module)
    BY <1>1, <2>1
  <2>6. /\ Line(DataKind(name), f[i - a], module).kind = DataKind(name)
        /\ Line(DataKind(name), f[i - a], module).key = f[i - a]
        /\ Line(DataKind(name), f[i - a], module).said = <<module, f[i - a]>>
    BY DEF Line
  <2>7. s[i].kind = DataKind(name) /\ s[i].key = f[i - a] /\ s[i].said = <<module, f[i - a]>>
    BY <2>3, <2>6, Zenon
  <2> QED
    BY <2>1, <2>2, <2>7
<1>11. ASSUME NEW i, NEW j, i \in I, j \in I, s[i].key = s[j].key
       PROVE  i = j
  <2>1. i - a \in 1..m /\ j - a \in 1..m /\ f[i - a] = f[j - a]
    BY <1>10, <1>11
  <2>2. i - a = j - a
    BY <1>1, <2>1 DEF IsListing
  <2>3. i \in Int /\ j \in Int
    BY <1>4, <1>6, <1>11
  <2> QED
    BY <1>3, <2>2, <2>3
<1>12. Keys(s, I) = K
  <2>1. Keys(s, I) \subseteq K
    BY <1>10 DEF Keys
  <2>2. ASSUME NEW k \in K PROVE k \in Keys(s, I)
    <3>1. PICK h \in 1..m : f[h] = k
      BY <1>1, <2>2 DEF IsListing
    <3>4. a + h \in a + 1..a + m /\ (a + h) - a = h
      BY <1>22
    <3>2. a + h \in I /\ (a + h) - a = h
      BY <1>5, <3>4
    <3>3. PICK j, g : j = a + h /\ g = j - a
      OBVIOUS
    <3>5. j \in I /\ g = h
      BY <3>2, <3>3
    <3>6. s[j].key = f[g]
      BY <1>10, <3>3, <3>5
    <3> QED
      BY <3>1, <3>5, <3>6 DEF Keys
  <2> QED
    BY <2>1, <2>2
<1>13. Line("confirmation", "", Rack).kind = "confirmation"
       /\ Line("header", "", Rack).kind = "header"
       /\ Line("dashes", "", Rack).kind = "dashes"
       /\ Line("state", "", Rack).kind = "state"
       /\ Line("heading", Rack, Rack).kind = "heading" /\ Line("heading", Rack, Rack).key = Rack
       /\ Line("heading", module, module).kind = "heading"
       /\ Line("heading", module, module).key = module
  BY DEF Line
<1>14. s[Len(s)].kind = "confirmation"
  BY <1>1, <1>13
<1>15. ASSUME NEW i \in 1..Len(s) - 1, i \notin I
       PROVE  s[i].kind \in AroundKinds(name) /\ (s[i].kind = "heading" => s[i].key = module)
  <2>6. i \in Int /\ 1 <= i /\ i <= n - 1
    BY <1>21, <1>22, <1>15
  <2>7. i \notin a + 1..a + m
    BY <1>5, <1>15
  <2>1. i <= a \/ i > a + m
    BY <1>22, <2>6, <2>7
  <2>2. CASE name \in {"pwr", "bat"}
    <3>1. i = 1
      BY <1>2, <1>21, <1>22, <2>6, <2>1, <2>2
    <3>2. s[1] = Line("header", "", Rack)
      BY <2>2 DEF Shape
    <3> QED
      BY <1>13, <2>2, <3>1, <3>2 DEF AroundKinds, Skipped
  <2>3. CASE name = "info"
    BY <1>2, <1>21, <1>22, <2>6, <2>1, <2>3
  <2>4. CASE name = "detail"
    <3>1. i = 1 \/ i = 2 \/ i = m + 3
      BY <1>2, <1>21, <1>22, <2>6, <2>1, <2>4
    <3>2. /\ s[1] = Line("dashes", "", Rack)
          /\ s[2] = Line("heading", module, module)
          /\ s[m + 3] = Line("dashes", "", Rack)
      BY <2>4 DEF Shape
    <3> QED
      BY <1>13, <2>4, <3>1, <3>2 DEF AroundKinds, Skipped
  <2>5. CASE name = "pwrsys"
    <3>1. i = 1 \/ i = 2 \/ i = 3
      BY <1>2, <1>21, <1>22, <2>6, <2>1, <2>5
    <3>2. /\ s[1] = Line("heading", Rack, Rack)
          /\ s[2] = Line("dashes", "", Rack)
          /\ s[3] = Line("state", "", Rack)
      BY <2>5 DEF Shape
    <3>3. module = Rack
      BY <2>5 DEF Asked
    <3> QED
      BY <1>13, <2>5, <3>1, <3>2, <3>3 DEF AroundKinds, Skipped
  <2> QED
    BY <2>2, <2>3, <2>4, <2>5 DEF Asked, Names
<1>16. ASSUME NEW i \in DOMAIN s, s[i].kind = "heading" PROVE s[i].key = module
  <2>1. i # Len(s)
    BY <1>14, <1>16
  <2>2. i \notin I
    BY <1>10, <1>16 DEF DataKind
  <2>3. i \in 1..Len(s) - 1
    BY <1>4, <2>1
  <2> QED
    BY <1>15, <1>16, <2>2, <2>3
<1>17. Distinct(s, I)
  BY <1>11 DEF Distinct
<1>18. \A i \in 1..Len(s) - 1 : i \notin I => s[i].kind \in AroundKinds(name)
  BY <1>15
<1>19. \A i \in I : /\ s[i].kind = DataKind(name)
                    /\ s[i].key = f[i - a] /\ s[i].key \in K
                    /\ s[i].said = <<module, s[i].key>>
  BY <1>10
<1>20. \A i \in DOMAIN s : s[i].kind = "heading" => s[i].key = module
  BY <1>16
<1> QED
  BY <1>1, <1>4, <1>6, <1>12, <1>14, <1>17, <1>18, <1>19, <1>20 DEF I, K

LEMMA ReadBack ==
  ASSUME NEW s, NEW I, I \subseteq Nat, Distinct(s, I)
  PROVE  /\ DOMAIN ByKey(s, I) = Keys(s, I)
         /\ \A i \in I : ByKey(s, I)[s[i].key] = s[i].said
<1>1. DOMAIN ByKey(s, I) = Keys(s, I)
  BY DEF ByKey
<1>2. ASSUME NEW i \in I PROVE ByKey(s, I)[s[i].key] = s[i].said
  <2> DEFINE k == s[i].key
             last(h) == h \in I /\ s[h].key = k /\ \A j \in I : s[j].key = k => j <= h
  <2>1. k \in Keys(s, I)
    BY DEF Keys
  <2>2. \A h : h \in I /\ s[h].key = k => h = i
    BY DEF Distinct
  <2>3. i <= i
    OBVIOUS
  <2>4. last(i)
    BY <2>2, <2>3
  <2>5. (CHOOSE h \in I : s[h].key = k /\ \A j \in I : s[j].key = k => j <= h) = i
    BY <2>2, <2>4
  <2>6. ByKey(s, I)[k]
          = s[CHOOSE h \in I : s[h].key = k /\ \A j \in I : s[j].key = k => j <= h].said
    BY <2>1 DEF ByKey
  <2> QED
    BY <2>5, <2>6
<1> QED
  BY <1>1, <1>2

\* An answer as the module sent it is accepted with everything it said.
LEMMA ShapeAccepted ==
  ASSUME NEW s, NEW name, NEW module, NEW optional, NEW a, NEW m, NEW f,
         Asked(name, module, optional),
         Shape(s, name, module, optional, a, m, f)
  PROVE  LET r == Parse(s, name, module)
         IN  /\ r.accepted
             /\ \A i \in DOMAIN s :
                  s[i].kind \in {"row", "field"} =>
                    s[i].key \in DOMAIN r.values /\ r.values[s[i].key] = <<module, s[i].key>>
<1> DEFINE I == Data(s, name)
           K == DataKeys(name, module, optional)
           r == Parse(s, name, module)
<1>1. /\ Len(s) \in Nat /\ DOMAIN s = 1..Len(s) /\ Len(s) = a + m + LinesAfter(name)
      /\ Len(s) >= 1 /\ I \subseteq 1..Len(s) - 1
      /\ \A i \in I : /\ s[i].kind = DataKind(name)
                      /\ s[i].key = f[i - a] /\ s[i].key \in K
                      /\ s[i].said = <<module, s[i].key>>
      /\ \A i \in 1..Len(s) - 1 : i \notin I => s[i].kind \in AroundKinds(name)
      /\ s[Len(s)].kind = "confirmation"
      /\ Distinct(s, I) /\ Keys(s, I) = K
  BY ShapeLines
<1>2. Len(s) \in 1..Len(s) /\ \A i \in 1..Len(s) : i = Len(s) \/ i \in 1..Len(s) - 1
  BY <1>1
<1>3. "confirmation" \notin AroundKinds(name) /\ DataKind(name) # "confirmation"
  BY DEF AroundKinds, Skipped, DataKind, Asked, Names
<1>4. I \subseteq Nat
  <2>1. \A i \in 1..Len(s) - 1 : i \in Nat
    BY <1>1
  <2> QED
    BY <1>1, <2>1
<1>5. DOMAIN ByKey(s, I) = K /\ \A i \in I : ByKey(s, I)[s[i].key] = s[i].said
  BY <1>1, <1>4, ReadBack
<1> HIDE DEF I, K
<1>6. Confirmed(s)
  <2>1. OnlyAt(s, "confirmation", Len(s))
    BY <1>1, <1>2, <1>3 DEF OnlyAt
  <2>2. s # <<>>
    BY <1>1, EmptySeq
  <2> QED
    BY <2>1, <2>2 DEF Confirmed
<1>7. ASSUME NEW i \in DOMAIN s, s[i].kind \in {"row", "field"} PROVE i \in I
  <2>1. "row" \notin AroundKinds(name) /\ "field" \notin AroundKinds(name)
    BY DEF AroundKinds, Skipped, Asked, Names
  <2>2. i # Len(s)
    BY <1>1, <1>7
  <2> QED
    BY <1>1, <1>2, <1>7, <2>1, <2>2
<1>8. SUFFICES r = Accepted(ByKey(s, I))
  <2>1. Accepted(ByKey(s, I)).accepted /\ Accepted(ByKey(s, I)).values = ByKey(s, I)
    BY DEF Accepted
  <2> HIDE DEF r
  <2>2. r.accepted /\ r.values = ByKey(s, I)
    BY <1>8, <2>1
  <2>3. ASSUME NEW i \in DOMAIN s, s[i].kind \in {"row", "field"}
        PROVE  s[i].key \in DOMAIN r.values /\ r.values[s[i].key] = <<module, s[i].key>>
    BY <1>1, <1>5, <1>7, <2>2, <2>3
  <2> QED
    BY <2>2, <2>3 DEF r
<1>11. Line("header", "", Rack).kind = "header"
       /\ Line("dashes", "", Rack).kind = "dashes"
       /\ Line("state", "", Rack).kind = "state"
       /\ Line("heading", Rack, Rack).kind = "heading"
       /\ Line("heading", module, module).kind = "heading"
       /\ Line("heading", module, module).key = module
  BY DEF Line
<1>9. CASE name \in {"pwr", "bat"}
  <2>1. TableRows(s) = I
    <3>1. Data(s, name) = 1 + 1..Len(s) - 1
      BY <1>9 DEF Data, LinesBefore, LinesAfter
    <3> QED
      BY <3>1 DEF TableRows, I
  <2>2. AllOf(s, I, "row")
    BY <1>1, <1>9 DEF AllOf, DataKind
  <2>3. s[1].kind = "header"
    <3>1. s[1] = Line("header", "", Rack)
      BY <1>9 DEF Shape
    <3> QED
      BY <1>11, <3>1
  <2>4. a = 1 /\ LinesAfter(name) = 1 /\ m \in Nat
    BY <1>9 DEF Shape, LinesBefore, LinesAfter
  <2>5. \E k : k \in K
    <3>1. CASE name = "pwr"
      BY <3>1, PositionsAssumption DEF K, DataKeys
    <3>2. CASE name = "bat"
      <4>1. CellCount[module] \in Nat \ {0}
        BY <3>2, CellCountAssumption DEF Asked
      <4>2. 0 \in 0..CellCount[module] - 1
        BY <4>1
      <4> QED
        BY <3>2, <4>2 DEF K, DataKeys, Cells
    <3> QED
      BY <1>9, <3>1, <3>2
  <2>6. Len(s) > 2
    <3>1. \E i : i \in I
      BY <1>1, <2>5 DEF Keys
    <3>2. \E i : i \in 2..Len(s) - 1
      BY <2>1, <3>1 DEF TableRows
    <3> QED
      BY <1>1, <3>2
  <2>7. IsTable(s)
    BY <1>6, <2>1, <2>2, <2>3, <2>6 DEF IsTable
  <2>8. CASE name = "pwr"
    <3>1. r = ParsePwr(s)
      BY <2>8 DEF Parse
    <3> QED
      BY <1>1, <2>1, <2>7, <3>1 DEF ParsePwr
  <2>9. CASE name = "bat"
    <3>1. r = ParseBat(s, module)
      BY <2>9 DEF Parse
    <3>2. m = CellCount[module] /\ \A i \in 1..m : f[i] = i - 1
      BY <2>9 DEF Shape
    <3>3. Len(s) - 2 = CellCount[module]
      BY <1>1, <2>4, <3>2
    <3>4. ASSUME NEW i \in TableRows(s) PROVE s[i].key = i - 2
      <4>1. i \in I /\ i \in 2..Len(s) - 1
        BY <2>1, <3>4 DEF TableRows
      <4>2. s[i].key = f[i - 1]
        BY <1>1, <2>4, <4>1
      <4>3. i - 1 \in 1..m /\ i - 1 - 1 = i - 2
        BY <1>1, <2>4, <4>1
      <4>4. f[i - 1] = i - 1 - 1
        BY <3>2, <4>3
      <4> QED
        BY <4>2, <4>3, <4>4
    <3> QED
      BY <2>1, <2>7, <3>1, <3>3, <3>4 DEF ParseBat
  <2> QED
    BY <1>9, <2>8, <2>9
<1>10. CASE name \in {"info", "detail", "pwrsys"}
  <2>1. Without(s, AroundKinds(name)) = I
    <3>1. "field" \notin AroundKinds(name)
      BY DEF AroundKinds, Skipped, Asked, Names
    <3>2. \A i \in I : s[i].kind = "field"
      BY <1>1, <1>10 DEF DataKind
    <3> QED
      BY <1>1, <3>1, <3>2 DEF Without
  <2>2. FieldsOk(s, I)
    <3>1. AllOf(s, I, "field")
      BY <1>1, <1>10 DEF AllOf, DataKind
    <3>2. Required \subseteq K
      BY <1>10 DEF K, DataKeys
    <3> QED
      BY <1>1, <3>1, <3>2 DEF FieldsOk
  <2>3. CASE name = "info"
    <3>1. r = ParseInfo(s, module)
      BY <2>3 DEF Parse
    <3>2. Without(s, {}) = I
      BY <2>1, <2>3 DEF AroundKinds
    <3>3. ByKey(s, I)["address"][1] = module
      <4>1. PICK i \in I : s[i].key = "address"
        BY <2>2, FieldsAssumption DEF FieldsOk, Keys
      <4>2. ByKey(s, I)["address"] = <<module, "address">>
        BY <1>1, <1>5, <4>1
      <4> QED
        BY <4>2
    <3> QED
      BY <1>6, <2>2, <3>1, <3>2, <3>3 DEF ParseInfo
  <2>4. CASE name = "detail"
    <3>1. r = ParseDetail(s, module)
      BY <2>4 DEF Parse
    <3>2. Without(s, Skipped) = I
      BY <2>1, <2>4 DEF AroundKinds
    <3>3. 2 \in DOMAIN s /\ OnlyAt(s, "heading", 2) /\ s[2].key = module
      <4>1. a = 2 /\ m \in Nat /\ LinesAfter(name) = 2
        BY <2>4 DEF Shape, LinesBefore, LinesAfter
      <4>2. /\ s[1] = Line("dashes", "", Rack)
            /\ s[2] = Line("heading", module, module)
            /\ s[m + 3] = Line("dashes", "", Rack)
        BY <2>4 DEF Shape
      <4>3. s[1].kind = "dashes" /\ s[2].kind = "heading" /\ s[m + 3].kind = "dashes"
            /\ s[2].key = module
        BY <1>11, <4>2
      <4>4. I = 2 + 1..Len(s) - 2
        BY <2>4 DEF I, Data, LinesBefore, LinesAfter
      <4>5. \A i \in DOMAIN s : i \in I \/ i = 1 \/ i = 2 \/ i = m + 3 \/ i = Len(s)
        BY <1>1, <4>1, <4>4
      <4>6. \A i \in I : s[i].kind = "field"
        BY <1>1, <2>4 DEF DataKind
      <4>7. 2 \in DOMAIN s
        BY <1>1, <4>1
      <4>8. \A i \in DOMAIN s : s[i].kind = "heading" => i = 2
        BY <1>1, <4>3, <4>5, <4>6
      <4> QED
        BY <4>3, <4>7, <4>8 DEF OnlyAt
    <3> QED
      BY <1>6, <2>2, <3>1, <3>2, <3>3 DEF ParseDetail
  <2>5. CASE name = "pwrsys"
    <3>1. r = ParsePwrsys(s)
      BY <2>5 DEF Parse
    <3>2. Without(s, Skipped \cup {"state"}) = I
      BY <2>1, <2>5 DEF AroundKinds
    <3>3. 3 \in DOMAIN s /\ OnlyAt(s, "state", 3)
      <4>1. a = 3 /\ m \in Nat /\ LinesAfter(name) = 1
        BY <2>5 DEF Shape, LinesBefore, LinesAfter
      <4>2. /\ s[1] = Line("heading", Rack, Rack)
            /\ s[2] = Line("dashes", "", Rack)
            /\ s[3] = Line("state", "", Rack)
        BY <2>5 DEF Shape
      <4>3. s[1].kind = "heading" /\ s[2].kind = "dashes" /\ s[3].kind = "state"
        BY <1>11, <4>2
      <4>4. I = 3 + 1..Len(s) - 1
        BY <2>5 DEF I, Data, LinesBefore, LinesAfter
      <4>5. \A i \in DOMAIN s : i \in I \/ i = 1 \/ i = 2 \/ i = 3 \/ i = Len(s)
        BY <1>1, <4>1, <4>4
      <4>6. \A i \in I : s[i].kind = "field"
        BY <1>1, <2>5 DEF DataKind
      <4>7. 3 \in DOMAIN s
        BY <1>1, <4>1
      <4>8. \A i \in DOMAIN s : s[i].kind = "state" => i = 3
        BY <1>1, <4>3, <4>5, <4>6
      <4> QED
        BY <4>3, <4>7, <4>8 DEF OnlyAt
    <3> QED
      BY <1>6, <2>2, <3>1, <3>2, <3>3 DEF ParsePwrsys
  <2> QED
    BY <1>10, <2>3, <2>4, <2>5
<1> QED
  BY <1>9, <1>10 DEF Asked, Names

(***************************************************************************)
(* The inductive invariant.  Of the damage some is misreading, which       *)
(* changes keys, and the rest moves lines, which keeps what each says      *)
(* under its key.  A line that was misread lies.                           *)
(***************************************************************************)
IsData(l) == l.kind \in {"row", "field"}

Lies(l) == IsData(l) /\ l.said[2] # l.key

Honest(s) == \A i \in DOMAIN s : ~Lies(s[i])

OneLie(s) == \A i, j \in DOMAIN s : Lies(s[i]) /\ Lies(s[j]) => s[i] = s[j]

\* The keys an answer has in any case; the cells of `bat' count by their place.
Must(name) ==
  CASE name = "pwr" -> Positions
    [] name = "bat" -> {}
    [] name \in {"info", "detail", "pwrsys"} -> Required

Told(s, name) == \A k \in Must(name) : \E i \in DOMAIN s : IsData(s[i]) /\ s[i].said[2] = k

InPlace(s, n) == Len(s) = n + 2 /\ \A i \in 2..n + 1 : s[i].said[2] = i - 2

Broken(s, n) == Len(s) = n + 2 => s[1].kind # "header" \/ s[n + 2].kind # "confirmation"

Displaced(s, n) ==
  \E i, j \in 2..n + 1 : i # j /\ s[i].said[2] # i - 2 /\ s[j].said[2] # j - 2

\* No line was moved, lost, repeated or garbled.
Unmoved(s, name, module) ==
  /\ Told(s, name)
  /\ name = "bat" => /\ InPlace(s, CellCount[module])
                     /\ \A i \in 2..CellCount[module] + 1 : s[i].kind = "row"

\* No more than one was.
MovedOnce(s, name, module) ==
  name = "bat" => LET n == CellCount[module]
                  IN  InPlace(s, n) \/ Broken(s, n) \/ Displaced(s, n)

Named(s, module) ==
  \A i \in DOMAIN s :
    /\ IsData(s[i]) => s[i].said[1] = module
    /\ s[i].kind = "heading" => s[i].key = module
    /\ s[i].kind = "row" /\ module = Rack => s[i].key \in Positions

\* The command, the source, the answer and the damage have the right types.
ParserTypeInv ==
  /\ command \in Commands
  /\ source \in IF command.position = Rack THEN {Rack} ELSE Positions
  /\ lines \in Seq(LineType)
  /\ damage \in Nat

CountsInv ==
  \E misread, moved \in Nat :
    /\ misread + moved = damage
    /\ misread = 0 => Honest(lines)
    /\ misread <= 1 => OneLie(lines)
    /\ moved = 0 => Unmoved(lines, command.name, source)
    /\ moved <= 1 => MovedOnce(lines, command.name, source)

IntactInv ==
  damage = 0 => \E optional \in SUBSET Optional :
                  lines = Answer(command.name, source, optional)

ParsedInv ==
  parsed = IF parsed.done THEN Parse(lines, command.name, command.position) ELSE Pending

ParserInv == ParserTypeInv /\ Named(lines, source) /\ CountsInv /\ IntactInv /\ ParsedInv

LEMMA Asking ==
  ASSUME ParserTypeInv
  PROVE  /\ command.name \in Names
         /\ command.name \in {"pwr", "pwrsys"} => command.position = Rack /\ source = Rack
         /\ command.name \in {"bat", "info", "detail"} =>
              command.position \in Positions /\ source \in Positions
         /\ Rack \notin Positions
         /\ \A optional \in SUBSET Optional : Asked(command.name, source, optional)
<1>1. Rack \notin Positions
  <2>1. 0 \notin 1..16
    OBVIOUS
  <2> QED
    BY <2>1, PositionsAssumption DEF Rack
<1>2. \/ command.name \in {"pwr", "pwrsys"} /\ command.position = Rack
      \/ command.name \in {"bat", "info", "detail"} /\ command.position \in Positions
  BY DEF ParserTypeInv, Commands
<1>3. CASE command.name \in {"pwr", "pwrsys"}
  <2>1. command.position = Rack /\ source = Rack
    BY <1>2, <1>3 DEF ParserTypeInv
  <2>2. command.name \notin {"bat", "info", "detail"}
    BY <1>3
  <2> QED
    BY <1>1, <1>3, <2>1, <2>2 DEF Asked, Names
<1>4. CASE command.name \in {"bat", "info", "detail"}
  <2>1. command.name \notin {"pwr", "pwrsys"}
    BY <1>4
  <2>2. command.position \in Positions /\ command.position # Rack
    BY <1>1, <1>2, <2>1
  <2>3. source \in Positions
    BY <2>2 DEF ParserTypeInv
  <2> QED
    BY <1>1, <1>4, <2>1, <2>2, <2>3 DEF Asked, Names
<1> QED
  BY <1>2, <1>3, <1>4

LEMMA ParseIsDone ==
  ASSUME NEW s, NEW name \in Names, NEW position
  PROVE  Parse(s, name, position).done
<1>1. Refused.done /\ \A v : Accepted(v).done
  BY DEF Refused, Accepted
<1>2. CASE name = "pwr"
  <2>1. Parse(s, name, position) = ParsePwr(s)
    BY <1>2 DEF Parse
  <2> QED
    BY <1>1, <2>1 DEF ParsePwr
<1>3. CASE name = "bat"
  <2>1. Parse(s, name, position) = ParseBat(s, position)
    BY <1>3 DEF Parse
  <2> QED
    BY <1>1, <2>1 DEF ParseBat
<1>4. CASE name = "info"
  <2>1. Parse(s, name, position) = ParseInfo(s, position)
    BY <1>4 DEF Parse
  <2> QED
    BY <1>1, <2>1 DEF ParseInfo
<1>5. CASE name = "detail"
  <2>1. Parse(s, name, position) = ParseDetail(s, position)
    BY <1>5 DEF Parse
  <2> QED
    BY <1>1, <2>1 DEF ParseDetail
<1>6. CASE name = "pwrsys"
  <2>1. Parse(s, name, position) = ParsePwrsys(s)
    BY <1>6 DEF Parse
  <2> QED
    BY <1>1, <2>1 DEF ParsePwrsys
<1> QED
  BY <1>2, <1>3, <1>4, <1>5, <1>6 DEF Names

\* An answer as the module sent it.
LEMMA ShapeSound ==
  ASSUME NEW s, NEW name, NEW module, NEW optional, NEW a, NEW m, NEW f,
         Asked(name, module, optional),
         Shape(s, name, module, optional, a, m, f)
  PROVE  /\ Named(s, module) /\ Honest(s) /\ OneLie(s)
         /\ Unmoved(s, name, module) /\ MovedOnce(s, name, module)
<1> DEFINE I == Data(s, name)
           K == DataKeys(name, module, optional)
<1>1. /\ Len(s) \in Nat /\ DOMAIN s = 1..Len(s) /\ Len(s) = a + m + LinesAfter(name)
      /\ I \subseteq 1..Len(s) - 1
      /\ \A i \in I : /\ s[i].kind = DataKind(name)
                      /\ s[i].key = f[i - a] /\ s[i].key \in K
                      /\ s[i].said = <<module, s[i].key>>
      /\ \A i \in 1..Len(s) - 1 : i \notin I => s[i].kind \in AroundKinds(name)
      /\ \A i \in DOMAIN s : s[i].kind = "heading" => s[i].key = module
      /\ s[Len(s)].kind = "confirmation"
      /\ Keys(s, I) = K
  BY ShapeLines
<1>2. ASSUME NEW i \in DOMAIN s, IsData(s[i]) PROVE i \in I
  <2>1. "row" \notin AroundKinds(name) /\ "field" \notin AroundKinds(name)
    BY DEF AroundKinds, Skipped, Asked, Names
  <2>2. i # Len(s)
    BY <1>1, <1>2 DEF IsData
  <2>3. i \in 1..Len(s) - 1
    BY <1>1, <2>2
  <2> QED
    BY <1>1, <1>2, <2>1, <2>3 DEF IsData
<1> HIDE DEF I, K
<1>3. \A i \in I : s[i].said[1] = module /\ s[i].said[2] = s[i].key
  BY <1>1
<1>4. Honest(s)
  BY <1>2, <1>3 DEF Honest, Lies
<1>5. OneLie(s)
  BY <1>4 DEF Honest, OneLie
<1>6. Told(s, name)
  <2>1. Must(name) \subseteq K
    BY DEF Must, K, DataKeys, Asked, Names
  <2>2. \A i \in I : i \in DOMAIN s /\ IsData(s[i])
    BY <1>1 DEF IsData, DataKind
  <2> QED
    BY <1>1, <1>3, <2>1, <2>2 DEF Told, Keys
<1>7. ASSUME name = "bat"
      PROVE  /\ InPlace(s, CellCount[module])
             /\ \A i \in 2..CellCount[module] + 1 : s[i].kind = "row"
  <2>1. a = 1 /\ LinesAfter(name) = 1 /\ m \in Nat /\ m = CellCount[module]
        /\ \A i \in 1..m : f[i] = i - 1
    BY <1>7 DEF Shape, LinesBefore, LinesAfter
  <2>2. I = 1 + 1..Len(s) - 1 /\ DataKind(name) = "row"
    BY <1>7 DEF I, Data, LinesBefore, LinesAfter, DataKind
  <2>3. Len(s) = m + 2 /\ I = 2..m + 1
    BY <1>1, <2>1, <2>2
  <2>4. ASSUME NEW i \in 2..m + 1 PROVE s[i].said[2] = i - 2 /\ s[i].kind = "row"
    <3>1. i \in I /\ i - 1 \in 1..m /\ i - 1 - 1 = i - 2
      BY <2>1, <2>3
    <3>2. s[i].said[2] = f[i - 1] /\ s[i].kind = "row"
      BY <1>1, <1>3, <2>1, <2>2, <3>1
    <3>3. f[i - 1] = i - 1 - 1
      BY <2>1, <3>1
    <3> QED
      BY <3>1, <3>2, <3>3
  <2> QED
    BY <2>1, <2>3, <2>4 DEF InPlace
<1>8. Named(s, module)
  <2>1. Rack \notin Positions
    <3>1. 0 \notin 1..16
      OBVIOUS
    <3> QED
      BY <3>1, PositionsAssumption DEF Rack
  <2>2. ASSUME NEW i \in DOMAIN s, s[i].kind = "row", module = Rack PROVE s[i].key \in Positions
    <3>1. i \in I
      BY <1>2, <2>2 DEF IsData
    <3>2. name \in {"pwr", "bat"}
      BY <1>1, <2>2, <3>1 DEF DataKind
    <3>3. name = "pwr"
      BY <2>1, <2>2, <3>2 DEF Asked
    <3>4. K = Positions
      BY <3>3 DEF K, DataKeys
    <3> QED
      BY <1>1, <3>1, <3>4
  <2> QED
    BY <1>1, <1>2, <1>3, <2>2 DEF Named
<1> QED
  BY <1>4, <1>5, <1>6, <1>7, <1>8 DEF Unmoved, MovedOnce

LEMMA ParserInitInv == ParserInit => ParserInv
<1> SUFFICES ASSUME ParserInit PROVE ParserInv
  OBVIOUS
<1>1. PICK optional \in SUBSET Optional : lines = Answer(command.name, source, optional)
  BY DEF ParserInit
<1>2. Asked(command.name, source, optional)
  <2>1. Rack \notin Positions
    <3>1. 0 \notin 1..16
      OBVIOUS
    <3> QED
      BY <3>1, PositionsAssumption DEF Rack
  <2>2. \/ command.name \in {"pwr", "pwrsys"} /\ command.position = Rack
        \/ command.name \in {"bat", "info", "detail"} /\ command.position \in Positions
    BY DEF ParserInit, Commands
  <2>3. source \in IF command.position = Rack THEN {Rack} ELSE Positions
    BY DEF ParserInit
  <2>4. CASE command.name \in {"pwr", "pwrsys"}
    <3>1. command.name \notin {"bat", "info", "detail"} /\ command.name \in Names
      BY <2>4 DEF Names
    <3>2. source = Rack
      BY <2>2, <2>3, <3>1
    <3> QED
      BY <2>4, <3>1, <3>2 DEF Asked
  <2>5. CASE command.name \in {"bat", "info", "detail"}
    <3>1. command.name \notin {"pwr", "pwrsys"} /\ command.name \in Names
      BY <2>5 DEF Names
    <3>2. source \in Positions
      BY <2>1, <2>2, <2>3, <3>1
    <3> QED
      BY <3>1, <3>2 DEF Asked
  <2> QED
    BY <2>2, <2>4, <2>5
<1>3. PICK m, f : Shape(lines, command.name, source, optional,
                       LinesBefore(command.name), m, f)
  BY <1>1, <1>2, AnswerShape
<1>4. /\ Named(lines, source) /\ Honest(lines) /\ OneLie(lines)
      /\ Unmoved(lines, command.name, source) /\ MovedOnce(lines, command.name, source)
  BY <1>2, <1>3, ShapeSound
<1>5. damage = 0
  BY DEF ParserInit
<1>6. CountsInv
  <2>1. 0 \in Nat /\ 0 + 0 = damage
    BY <1>5
  <2> QED
    BY <1>4, <2>1 DEF CountsInv
<1>7. ParserTypeInv
  <2>1. lines \in Seq(LineType)
    BY <1>3 DEF Shape
  <2> QED
    BY <1>5, <2>1 DEF ParserTypeInv, ParserInit
<1>8. IntactInv
  BY <1>1 DEF IntactInv
<1>9. ParsedInv
  BY DEF ParsedInv, ParserInit, Pending
<1> QED
  BY <1>4, <1>6, <1>7, <1>8, <1>9 DEF ParserInv

LEMMA Spread ==
  ASSUME NEW s, NEW t, From(t, s)
  PROVE  /\ Honest(s) => Honest(t)
         /\ OneLie(s) => OneLie(t)
         /\ \A module : Named(s, module) => Named(t, module)
<1>1. ASSUME NEW j \in DOMAIN t, t[j].kind # "garbled" PROVE \E i \in DOMAIN s : t[j] = s[i]
  BY <1>1 DEF From
<1>2. Honest(s) => Honest(t)
  BY <1>1 DEF Honest, Lies, IsData
<1>3. OneLie(s) => OneLie(t)
  BY <1>1 DEF OneLie, Lies, IsData
<1>4. ASSUME NEW module, Named(s, module) PROVE Named(t, module)
  BY <1>1, <1>4 DEF Named, IsData
<1> QED
  BY <1>2, <1>3, <1>4

\* What one move does to the cells of `bat'.
LEMMA ExchangeMoves ==
  ASSUME NEW s \in Seq(LineType), NEW n \in Nat \ {0}, NEW i \in 1..Len(s) - 1,
         InPlace(s, n), \A j \in 2..n + 1 : s[j].kind = "row"
  PROVE  LET t == [s EXCEPT ![i] = s[i + 1], ![i + 1] = s[i]]
         IN  Broken(t, n) \/ Displaced(t, n)
<1>1. PICK t : t = [s EXCEPT ![i] = s[i + 1], ![i + 1] = s[i]]
  OBVIOUS
<1>2. Len(t) = Len(s) /\ t[i] = s[i + 1] /\ t[i + 1] = s[i]
  BY <1>1, Exchanging
<1>3. Len(s) = n + 2 /\ \A j \in 2..n + 1 : s[j].said[2] = j - 2
  BY DEF InPlace
<1>4. i \in 1..n + 1 /\ i \in Nat
  BY <1>3
<1>5. CASE i = 1
  <2>1. 2 \in 2..n + 1 /\ i + 1 = 2
    BY <1>5
  <2>2. t[1] = s[2]
    BY <1>2, <1>5, <2>1
  <2>3. t[1].kind = "row"
    BY <2>1, <2>2
  <2> QED
    BY <1>1, <2>3 DEF Broken
<1>6. CASE i = n + 1
  <2>1. n + 1 \in 2..n + 1 /\ i + 1 = n + 2
    BY <1>6
  <2>2. t[n + 2] = s[n + 1]
    BY <1>2, <1>6, <2>1
  <2>3. t[n + 2].kind = "row"
    BY <2>1, <2>2
  <2> QED
    BY <1>1, <2>3 DEF Broken
<1>7. CASE i \in 2..n
  <2>1. PICK j : j = i + 1
    OBVIOUS
  <2>2. i \in 2..n + 1 /\ j \in 2..n + 1 /\ i # j /\ j - 2 # i - 2
    BY <1>7, <2>1
  <2>3. t[i] = s[j] /\ t[j] = s[i]
    BY <1>2, <2>1
  <2>4. t[i].said[2] = j - 2 /\ t[j].said[2] = i - 2
    BY <1>3, <2>2, <2>3
  <2> QED
    BY <1>1, <2>2, <2>4 DEF Displaced
<1> QED
  BY <1>4, <1>5, <1>6, <1>7

\* A step that moves a line, in the widest sense.
LEMMA MovedStep ==
  ASSUME ParserInv, NEW t \in Seq(LineType), From(t, lines), Damaged(t),
         Unmoved(lines, command.name, source) => MovedOnce(t, command.name, source)
  PROVE  ParserInv'
<1>1. /\ lines' = t /\ damage' = damage + 1 /\ command' = command
      /\ source' = source /\ parsed' = parsed /\ ~parsed.done
  BY DEF Damaged
<1>2. ParserTypeInv'
  BY <1>1 DEF ParserInv, ParserTypeInv
<1>3. Named(lines, source)'
  BY <1>1, Spread DEF ParserInv
<1>4. CountsInv'
  <2>1. PICK misread, moved \in Nat :
          /\ misread + moved = damage
          /\ misread = 0 => Honest(lines)
          /\ misread <= 1 => OneLie(lines)
          /\ moved = 0 => Unmoved(lines, command.name, source)
          /\ moved <= 1 => MovedOnce(lines, command.name, source)
    BY DEF ParserInv, CountsInv
  <2>2. PICK more, total : more = moved + 1 /\ total = damage + 1
    OBVIOUS
  <2>3. more \in Nat /\ misread + more = total /\ more # 0 /\ (more <= 1 => moved = 0)
    BY <2>1, <2>2
  <2>4. /\ misread = 0 => Honest(t)
        /\ misread <= 1 => OneLie(t)
        /\ more <= 1 => MovedOnce(t, command.name, source)
    BY <2>1, <2>3, Spread
  <2>5. lines' = t /\ damage' = total /\ command' = command /\ source' = source
    BY <1>1, <2>2
  <2> QED
    BY <2>3, <2>4, <2>5 DEF CountsInv
<1>5. IntactInv'
  <2>1. damage' # 0
    BY <1>1 DEF ParserInv, ParserTypeInv
  <2> QED
    BY <2>1 DEF IntactInv
<1>6. ParsedInv'
  BY <1>1 DEF ParserInv, ParsedInv
<1> QED
  BY <1>2, <1>3, <1>4, <1>5, <1>6 DEF ParserInv

\* The parts of Unmoved for `bat'.
LEMMA UnmovedCells ==
  ASSUME ParserTypeInv, Unmoved(lines, command.name, source), command.name = "bat",
         NEW n, n = CellCount[source]
  PROVE  /\ n \in Nat \ {0} /\ InPlace(lines, n) /\ Len(lines) = n + 2
         /\ \A i \in 2..n + 1 : lines[i].kind = "row"
<1>1. source \in Positions
  BY Asking
<1>2. n \in Nat \ {0}
  BY <1>1, CellCountAssumption
<1> QED
  BY <1>2 DEF Unmoved, InPlace

LEMMA OtherLength ==
  ASSUME ParserTypeInv, NEW t, Len(t) # Len(lines)
  PROVE  Unmoved(lines, command.name, source) => MovedOnce(t, command.name, source)
<1> SUFFICES ASSUME Unmoved(lines, command.name, source), command.name = "bat"
             PROVE  Broken(t, CellCount[source])
  BY DEF MovedOnce
<1>1. Len(lines) = CellCount[source] + 2
  BY UnmovedCells
<1> QED
  BY <1>1 DEF Broken

LEMMA LostStep == ParserInv /\ Lost => ParserInv'
<1> SUFFICES ASSUME ParserInv, NEW i \in DOMAIN lines, Damaged(RemoveAt(lines, i))
             PROVE  ParserInv'
  BY DEF Lost
<1>1. PICK t : t = RemoveAt(lines, i)
  OBVIOUS
<1>2. lines \in Seq(LineType) /\ ParserTypeInv
  BY DEF ParserInv, ParserTypeInv
<1>3. t \in Seq(LineType) /\ Len(t) = Len(lines) - 1 /\ From(t, lines)
  BY <1>1, <1>2, Removing
<1>4. Len(t) # Len(lines)
  BY <1>2, <1>3, LenProperties
<1> QED
  BY <1>1, <1>2, <1>3, <1>4, OtherLength, MovedStep

LEMMA RepeatedStep == ParserInv /\ Repeated => ParserInv'
<1> SUFFICES ASSUME ParserInv, NEW i \in DOMAIN lines, Damaged(InsertAt(lines, i, lines[i]))
             PROVE  ParserInv'
  BY DEF Repeated
<1>1. PICK t : t = InsertAt(lines, i, lines[i])
  OBVIOUS
<1>2. lines \in Seq(LineType) /\ ParserTypeInv
  BY DEF ParserInv, ParserTypeInv
<1>3. t \in Seq(LineType) /\ Len(t) = Len(lines) + 1 /\ From(t, lines)
  BY <1>1, <1>2, Inserting
<1>4. Len(t) # Len(lines)
  BY <1>2, <1>3, LenProperties
<1> QED
  BY <1>1, <1>2, <1>3, <1>4, OtherLength, MovedStep

LEMMA ExchangedStep == ParserInv /\ Exchanged => ParserInv'
<1> SUFFICES ASSUME ParserInv, NEW i \in 1..Len(lines) - 1,
                    Damaged([lines EXCEPT ![i] = lines[i + 1], ![i + 1] = lines[i]])
             PROVE  ParserInv'
  BY DEF Exchanged
<1>1. PICK t : t = [lines EXCEPT ![i] = lines[i + 1], ![i + 1] = lines[i]]
  OBVIOUS
<1>2. lines \in Seq(LineType) /\ ParserTypeInv
  BY DEF ParserInv, ParserTypeInv
<1>3. t \in Seq(LineType) /\ From(t, lines)
  BY <1>1, <1>2, Exchanging
<1>4. ASSUME Unmoved(lines, command.name, source) PROVE MovedOnce(t, command.name, source)
  <2> SUFFICES ASSUME command.name = "bat"
               PROVE  Broken(t, CellCount[source]) \/ Displaced(t, CellCount[source])
    BY DEF MovedOnce
  <2>1. PICK n : n = CellCount[source]
    OBVIOUS
  <2>2. n \in Nat \ {0} /\ InPlace(lines, n) /\ \A j \in 2..n + 1 : lines[j].kind = "row"
    BY <1>2, <1>4, <2>1, UnmovedCells
  <2>3. Broken(t, n) \/ Displaced(t, n)
    BY <1>1, <1>2, <2>2, ExchangeMoves
  <2> QED
    BY <2>1, <2>3
<1> QED
  BY <1>1, <1>3, <1>4, MovedStep

LEMMA GarbledStep == ParserInv /\ Garbled => ParserInv'
<1> SUFFICES ASSUME ParserInv, NEW i \in DOMAIN lines,
                    Damaged([lines EXCEPT ![i].kind = "garbled"])
             PROVE  ParserInv'
  BY DEF Garbled
<1>1. PICK t : t = [lines EXCEPT ![i].kind = "garbled"]
  OBVIOUS
<1>2. lines \in Seq(LineType) /\ ParserTypeInv
  BY DEF ParserInv, ParserTypeInv
<1>3. /\ t \in Seq(LineType) /\ Len(t) = Len(lines) /\ From(t, lines)
      /\ \A j \in 1..Len(lines) : t[j].said = lines[j].said
  BY <1>1, <1>2, Garbling
<1>4. ASSUME Unmoved(lines, command.name, source) PROVE MovedOnce(t, command.name, source)
  <2> SUFFICES ASSUME command.name = "bat" PROVE InPlace(t, CellCount[source])
    BY DEF MovedOnce
  <2>1. PICK n : n = CellCount[source]
    OBVIOUS
  <2>2. n \in Nat \ {0} /\ InPlace(lines, n) /\ Len(lines) = n + 2
    BY <1>2, <1>4, <2>1, UnmovedCells
  <2>3. \A j \in 2..n + 1 : j \in 1..Len(lines)
    BY <2>2
  <2> QED
    BY <1>3, <2>1, <2>2, <2>3 DEF InPlace
<1> QED
  BY <1>1, <1>3, <1>4, MovedStep

LEMMA MisreadStep == ParserInv /\ Misread => ParserInv'
<1> SUFFICES ASSUME ParserInv, NEW i \in DOMAIN lines,
                    NEW k \in KeysLike(lines[i]) \ {lines[i].key},
                    Damaged([lines EXCEPT ![i].key = k])
             PROVE  ParserInv'
  BY DEF Misread
<1>1. PICK t : t = [lines EXCEPT ![i].key = k]
  OBVIOUS
<1>2. lines \in Seq(LineType) /\ ParserTypeInv /\ damage \in Nat
      /\ DOMAIN lines = 1..Len(lines)
  BY LenProperties DEF ParserInv, ParserTypeInv
<1>3. /\ lines' = t /\ damage' = damage + 1 /\ command' = command
      /\ source' = source /\ parsed' = parsed /\ ~parsed.done
  BY <1>1 DEF Damaged
<1>4. /\ lines[i].kind \in {"row", "field"} /\ k \in LineKeys
      /\ lines[i].kind = "row" /\ source = Rack => k \in Positions
  <2>1. CASE lines[i].kind = "field"
    <3>1. k \in Required \cup Optional
      BY <2>1 DEF KeysLike
    <3> QED
      BY <2>1, <3>1 DEF LineKeys
  <2>2. CASE lines[i].kind = "row" /\ source = Rack
    <3>4. source \notin Positions
      BY <1>2, <2>2, Asking
    <3>1. k \in Positions
      BY <2>2, <3>4 DEF KeysLike
    <3>2. \A p \in 1..16 : p \in Nat
      OBVIOUS
    <3>3. k \in Nat
      BY <3>1, <3>2, PositionsAssumption
    <3> QED
      BY <2>2, <3>1, <3>3 DEF LineKeys
  <2>3. CASE lines[i].kind = "row" /\ source # Rack
    <3>1. source \in Positions
      BY <1>2, <2>3 DEF ParserTypeInv
    <3>2. k \in Cells(source)
      BY <2>3, <3>1 DEF KeysLike
    <3>3. k \in Nat
      BY <3>1, <3>2, CellCountAssumption DEF Cells
    <3> QED
      BY <2>3, <3>3 DEF LineKeys
  <2> QED
    <3>1. lines[i].kind \in {"row", "field"}
      <4>1. ASSUME lines[i].kind \notin {"row", "field"} PROVE FALSE
        <5>1. KeysLike(lines[i]) = {}
          BY <4>1 DEF KeysLike
        <5> QED
          BY <5>1
      <4> QED
        BY <4>1
    <3> QED
      BY <2>1, <2>2, <2>3, <3>1
<1>5. /\ t \in Seq(LineType) /\ Len(t) = Len(lines) /\ DOMAIN t = 1..Len(lines)
      /\ t[i].key = k
      /\ \A j \in 1..Len(lines) : t[j].said = lines[j].said /\ t[j].kind = lines[j].kind
      /\ \A j \in 1..Len(lines) \ {i} : t[j] = lines[j]
  <2>1. /\ t \in Seq(LineType) /\ Len(t) = Len(lines)
        /\ t[i].key = k
        /\ \A j \in 1..Len(lines) : t[j].said = lines[j].said /\ t[j].kind = lines[j].kind
        /\ \A j \in 1..Len(lines) \ {i} : t[j] = lines[j]
    BY <1>1, <1>2, <1>4, Misreading
  <2>2. DOMAIN t = 1..Len(t)
    BY <2>1, LenProperties
  <2> QED
    BY <2>1, <2>2
<1>6. Named(t, source)
  <2>1. Named(lines, source)
    BY DEF ParserInv
  <2>2. ASSUME NEW j \in DOMAIN t
        PROVE  /\ IsData(t[j]) => t[j].said[1] = source
               /\ t[j].kind = "heading" => t[j].key = source
               /\ t[j].kind = "row" /\ source = Rack => t[j].key \in Positions
    <3>1. j \in DOMAIN lines /\ t[j].said = lines[j].said /\ t[j].kind = lines[j].kind
      BY <1>2, <1>5
    <3>2. CASE j = i
      BY <1>4, <1>5, <2>1, <3>1, <3>2 DEF Named, IsData
    <3>3. CASE j # i
      <4>1. t[j] = lines[j]
        BY <1>5, <2>2, <3>3
      <4> QED
        BY <2>1, <3>1, <4>1 DEF Named
    <3> QED
      BY <3>2, <3>3
  <2> QED
    BY <2>2 DEF Named
<1>7. Honest(lines) => OneLie(t)
  <2> SUFFICES ASSUME Honest(lines) PROVE \A j \in DOMAIN t : Lies(t[j]) => j = i
    BY DEF OneLie
  <2>1. \A j \in DOMAIN t : j # i => t[j] = lines[j] /\ j \in DOMAIN lines
    BY <1>2, <1>5
  <2> QED
    BY <2>1 DEF Honest
<1>8. Unmoved(lines, command.name, source) => Unmoved(t, command.name, source)
  <2> SUFFICES ASSUME Unmoved(lines, command.name, source)
               PROVE  Unmoved(t, command.name, source)
    OBVIOUS
  <2>1. Told(t, command.name)
    BY <1>2, <1>5 DEF Unmoved, Told, IsData
  <2>2. ASSUME command.name = "bat"
        PROVE  InPlace(t, CellCount[source]) /\ \A j \in 2..CellCount[source] + 1 : t[j].kind = "row"
    <3>1. PICK n : n = CellCount[source]
      OBVIOUS
    <3>2. /\ n \in Nat \ {0} /\ InPlace(lines, n) /\ Len(lines) = n + 2
          /\ \A j \in 2..n + 1 : lines[j].kind = "row"
      BY <1>2, <2>2, <3>1, UnmovedCells
    <3>3. \A j \in 2..n + 1 : j \in 1..Len(lines)
      BY <3>2
    <3>4. InPlace(t, n) /\ \A j \in 2..n + 1 : t[j].kind = "row"
      BY <1>5, <3>2, <3>3 DEF InPlace
    <3> QED
      BY <3>1, <3>4
  <2> QED
    BY <2>1, <2>2 DEF Unmoved
<1>9. MovedOnce(lines, command.name, source) => MovedOnce(t, command.name, source)
  <2> SUFFICES ASSUME MovedOnce(lines, command.name, source), command.name = "bat", 
                      NEW n, n = CellCount[source]
               PROVE  InPlace(t, n) \/ Broken(t, n) \/ Displaced(t, n)
    BY DEF MovedOnce
  <2>1. n \in Nat
    BY <1>2, Asking, CellCountAssumption
  <2>2. CASE Len(lines) # n + 2
    BY <1>5, <2>2 DEF Broken
  <2>3. CASE Len(lines) = n + 2
    <3>1. /\ 1 \in 1..Len(lines) /\ n + 2 \in 1..Len(lines)
          /\ \A j \in 2..n + 1 : j \in 1..Len(lines)
      BY <2>1, <2>3
    <3>2. CASE InPlace(lines, n)
      BY <1>5, <3>1, <3>2 DEF InPlace
    <3>3. CASE Broken(lines, n)
      BY <1>5, <2>3, <3>1, <3>3 DEF Broken
    <3>4. CASE Displaced(lines, n)
      BY <1>5, <3>1, <3>4 DEF Displaced
    <3> QED
      BY <3>2, <3>3, <3>4 DEF MovedOnce
  <2> QED
    BY <2>2, <2>3
<1>10. CountsInv'
  <2>1. PICK misread, moved \in Nat :
          /\ misread + moved = damage
          /\ misread = 0 => Honest(lines)
          /\ misread <= 1 => OneLie(lines)
          /\ moved = 0 => Unmoved(lines, command.name, source)
          /\ moved <= 1 => MovedOnce(lines, command.name, source)
    BY DEF ParserInv, CountsInv
  <2>2. PICK more, total : more = misread + 1 /\ total = damage + 1
    OBVIOUS
  <2>3. more \in Nat /\ more + moved = total /\ more # 0 /\ (more <= 1 => misread = 0)
    BY <2>1, <2>2
  <2>4. /\ more <= 1 => OneLie(t)
        /\ moved = 0 => Unmoved(t, command.name, source)
        /\ moved <= 1 => MovedOnce(t, command.name, source)
    BY <1>7, <1>8, <1>9, <2>1, <2>3
  <2>5. lines' = t /\ damage' = total /\ command' = command /\ source' = source
    BY <1>3, <2>2
  <2> QED
    BY <2>1, <2>3, <2>4, <2>5 DEF CountsInv
<1>11. ParserTypeInv'
  BY <1>2, <1>3, <1>5 DEF ParserTypeInv
<1>12. Named(lines, source)'
  BY <1>3, <1>6
<1>13. IntactInv'
  <2>1. damage' # 0
    BY <1>2, <1>3
  <2> QED
    BY <2>1 DEF IntactInv
<1>14. ParsedInv'
  BY <1>3 DEF ParserInv, ParsedInv
<1> QED
  BY <1>10, <1>11, <1>12, <1>13, <1>14 DEF ParserInv

LEMMA ParsesStep == ParserInv /\ Parses => ParserInv'
<1> SUFFICES ASSUME ParserInv, Parses PROVE ParserInv'
  OBVIOUS
<1>1. /\ parsed' = Parse(lines, command.name, command.position)
      /\ lines' = lines /\ damage' = damage /\ command' = command /\ source' = source
  BY DEF Parses
<1>2. command.name \in Names
  BY Asking DEF ParserInv
<1>3. parsed'.done
  BY <1>1, <1>2, ParseIsDone
<1>4. ParsedInv'
  BY <1>1, <1>3 DEF ParsedInv
<1>5. ParserTypeInv' /\ Named(lines, source)' /\ CountsInv' /\ IntactInv'
  BY <1>1 DEF ParserInv, ParserTypeInv, CountsInv, IntactInv
<1> QED
  BY <1>4, <1>5 DEF ParserInv

LEMMA ParserStutter == ParserInv /\ UNCHANGED parserVars => ParserInv'
<1> SUFFICES ASSUME ParserInv, UNCHANGED parserVars PROVE ParserInv'
  OBVIOUS
<1>1. /\ lines' = lines /\ damage' = damage /\ command' = command
      /\ source' = source /\ parsed' = parsed
  BY DEF parserVars
<1> QED
  BY <1>1 DEF ParserInv, ParserTypeInv, CountsInv, IntactInv, ParsedInv

\* The inductive invariant holds whatever happens to an answer.
THEOREM ParserInvariant == ParserSpec => []ParserInv
<1>1. ParserInv /\ [ParserNext]_parserVars => ParserInv'
  <2> SUFFICES ASSUME ParserInv, [ParserNext]_parserVars PROVE ParserInv'
    OBVIOUS
  <2>1. CASE Lost
    BY <2>1, LostStep
  <2>2. CASE Repeated
    BY <2>2, RepeatedStep
  <2>3. CASE Exchanged
    BY <2>3, ExchangedStep
  <2>4. CASE Garbled
    BY <2>4, GarbledStep
  <2>5. CASE Misread
    BY <2>5, MisreadStep
  <2>6. CASE Parses
    BY <2>6, ParsesStep
  <2>7. CASE Parsed
    BY <2>7, ParserStutter DEF Parsed
  <2>8. CASE UNCHANGED parserVars
    BY <2>8, ParserStutter
  <2> QED
    BY <2>1, <2>2, <2>3, <2>4, <2>5, <2>6, <2>7, <2>8 DEF ParserNext
<1> QED
  BY <1>1, ParserInitInv, PTL DEF ParserSpec

\* Types of the state of a parser and its answer.
THEOREM ParserTypeCorrect == ParserSpec => []ParserTypeInv
BY ParserInvariant, PTL DEF ParserInv

(***************************************************************************)
(* What a parser accepts.                                                  *)
(***************************************************************************)

LEMMA FieldsAccepted ==
  ASSUME ParserTypeInv, Named(lines, source), CountsInv,
         command.name \in {"info", "detail", "pwrsys"},
         NEW I, I \subseteq DOMAIN lines, FieldsOk(lines, I),
         \A i \in DOMAIN lines : IsData(lines[i]) => i \in I
  PROVE  /\ Required \subseteq DOMAIN ByKey(lines, I)
         /\ damage <= 1 => \A k \in Required : ByKey(lines, I)[k] = <<source, k>>
<1>1. AllOf(lines, I, "field") /\ Distinct(lines, I) /\ Required \subseteq Keys(lines, I)
  BY DEF FieldsOk
<1>2. lines \in Seq(LineType) /\ DOMAIN lines = 1..Len(lines) /\ Len(lines) \in Nat
  BY LenProperties DEF ParserTypeInv
<1>3. I \subseteq Nat
  BY <1>2
<1>4. DOMAIN ByKey(lines, I) = Keys(lines, I)
      /\ \A i \in I : ByKey(lines, I)[lines[i].key] = lines[i].said
  BY <1>1, <1>3, ReadBack
<1>5. ASSUME damage <= 1, NEW k \in Required PROVE ByKey(lines, I)[k] = <<source, k>>
  <2>1. PICK i \in I : lines[i].key = k
    BY <1>1 DEF Keys
  <2>2. lines[i].kind = "field" /\ i \in DOMAIN lines /\ IsData(lines[i])
    BY <1>1 DEF AllOf, IsData
  <2>3. lines[i].said[1] = source
    BY <2>2 DEF Named
  <2>4. ~Lies(lines[i])
    <3> SUFFICES ASSUME Lies(lines[i]) PROVE FALSE
      OBVIOUS
    <3>1. OneLie(lines) /\ Unmoved(lines, command.name, source)
      <4>1. PICK misread, moved \in Nat :
              /\ misread + moved = damage
              /\ misread = 0 => Honest(lines)
              /\ misread <= 1 => OneLie(lines)
              /\ moved = 0 => Unmoved(lines, command.name, source)
        BY DEF CountsInv
      <4>2. misread # 0
        BY <2>2, <4>1 DEF Honest
      <4>3. misread <= 1 /\ moved = 0
        BY <1>5, <4>1, <4>2
      <4> QED
        BY <4>1, <4>3
    <3>2. Must(command.name) = Required
      BY DEF Must
    <3>3. PICK j \in DOMAIN lines : IsData(lines[j]) /\ lines[j].said[2] = k
      BY <3>1, <3>2 DEF Unmoved, Told
    <3>4. lines[i].said[2] # k
      BY <2>1 DEF Lies
    <3>5. ~Lies(lines[j])
      BY <2>2, <3>1, <3>3, <3>4 DEF OneLie
    <3>6. lines[j].key = k
      BY <3>3, <3>5 DEF Lies
    <3> QED
      BY <1>1, <2>1, <3>3, <3>4, <3>6 DEF Distinct
  <2>5. lines[i].said[2] = k
    BY <2>1, <2>2, <2>4 DEF Lies
  <2>6. lines[i].said \in Nat \X LineKeys
    <3>1. lines[i] \in LineType
      BY <1>2, <2>2, ElementOfSeq
    <3> QED
      BY <3>1 DEF LineType
  <2>7. lines[i].said = <<source, k>>
    BY <2>3, <2>5, <2>6
  <2> QED
    BY <1>4, <2>1, <2>7
<1> QED
  BY <1>1, <1>4, <1>5

\* The lines Without skips are no data.
LEMMA DataIsKept ==
  ASSUME lines \in Seq(LineType), Confirmed(lines), NEW kinds,
         "row" \notin kinds, "field" \notin kinds
  PROVE  /\ Without(lines, kinds) \subseteq DOMAIN lines
         /\ \A i \in DOMAIN lines : IsData(lines[i]) => i \in Without(lines, kinds)
<1>1. DOMAIN lines = 1..Len(lines) /\ Len(lines) \in Nat
  BY LenProperties
<1>2. ASSUME NEW i \in DOMAIN lines, IsData(lines[i]) PROVE i \in Without(lines, kinds)
  <2>1. Len(lines) \in DOMAIN lines
    BY <1>1, <1>2
  <2>2. lines[Len(lines)].kind = "confirmation"
    BY <2>1 DEF Confirmed, OnlyAt
  <2>3. i # Len(lines)
    BY <1>2, <2>2 DEF IsData
  <2>4. i \in 1..Len(lines) - 1
    BY <1>1, <2>3
  <2>5. lines[i].kind \notin kinds
    BY <1>2 DEF IsData
  <2> QED
    BY <2>4, <2>5 DEF Without
<1>3. \A i \in 1..Len(lines) - 1 : i \in 1..Len(lines)
  BY <1>1
<1> QED
  BY <1>1, <1>2, <1>3 DEF Without

\* What is read of the field answers.
LEMMA OfFields ==
  ASSUME ParserTypeInv, Named(lines, source), CountsInv,
         command.name \in {"info", "detail", "pwrsys"},
         NEW kinds, "row" \notin kinds, "field" \notin kinds,
         Confirmed(lines), FieldsOk(lines, Without(lines, kinds)),
         parsed = Accepted(ByKey(lines, Without(lines, kinds)))
  PROVE  Required \subseteq DOMAIN parsed.values /\ (damage <= 1 => Says(Required))
<1>1. PICK I : I = Without(lines, kinds)
  OBVIOUS
<1>2. lines \in Seq(LineType)
  BY DEF ParserTypeInv
<1>3. I \subseteq DOMAIN lines /\ \A i \in DOMAIN lines : IsData(lines[i]) => i \in I
  BY <1>1, <1>2, DataIsKept
<1>4. /\ Required \subseteq DOMAIN ByKey(lines, I)
      /\ damage <= 1 => \A k \in Required : ByKey(lines, I)[k] = <<source, k>>
  BY <1>1, <1>3, FieldsAccepted
<1>5. parsed.values = ByKey(lines, I)
  BY <1>1 DEF Accepted
<1> QED
  BY <1>4, <1>5 DEF Says

\* The rows of a table are all its data.
LEMMA OfTable ==
  ASSUME lines \in Seq(LineType), IsTable(lines)
  PROVE  LET I == TableRows(lines)
         IN  /\ I \subseteq DOMAIN lines /\ I \subseteq Nat
             /\ \A i \in I : lines[i].kind = "row"
             /\ \A i \in DOMAIN lines : IsData(lines[i]) => i \in I
             /\ lines[1].kind = "header" /\ lines[Len(lines)].kind = "confirmation"
             /\ Len(lines) \in Nat /\ DOMAIN lines = 1..Len(lines)
<1>1. DOMAIN lines = 1..Len(lines) /\ Len(lines) \in Nat /\ Len(lines) > 2
  BY LenProperties DEF IsTable
<1>2. Len(lines) \in DOMAIN lines
  BY <1>1
<1>3. lines[1].kind = "header" /\ lines[Len(lines)].kind = "confirmation"
  BY <1>2 DEF IsTable, Confirmed, OnlyAt
<1>4. ASSUME NEW i \in DOMAIN lines, IsData(lines[i]) PROVE i \in TableRows(lines)
  <2>1. i # 1 /\ i # Len(lines)
    BY <1>3, <1>4 DEF IsData
  <2> QED
    BY <1>1, <2>1 DEF TableRows
<1>5. TableRows(lines) \subseteq DOMAIN lines /\ TableRows(lines) \subseteq Nat
  BY <1>1 DEF TableRows
<1>6. \A i \in TableRows(lines) : lines[i].kind = "row"
  BY DEF IsTable, AllOf
<1> QED
  BY <1>1, <1>3, <1>4, <1>5, <1>6

\* What is read of `pwr'.
LEMMA OfPositions ==
  ASSUME ParserTypeInv, Named(lines, source), CountsInv, command.name = "pwr",
         IsTable(lines), Distinct(lines, TableRows(lines)),
         parsed = Accepted(ByKey(lines, TableRows(lines))), damage <= 1
  PROVE  Says(DOMAIN parsed.values)
<1>1. PICK I : I = TableRows(lines)
  OBVIOUS
<1>2. lines \in Seq(LineType)
  BY DEF ParserTypeInv
<1>3. /\ I \subseteq DOMAIN lines /\ I \subseteq Nat
      /\ \A i \in I : lines[i].kind = "row"
      /\ \A i \in DOMAIN lines : IsData(lines[i]) => i \in I
      /\ Len(lines) \in Nat /\ DOMAIN lines = 1..Len(lines)
  BY <1>1, <1>2, OfTable
<1>4. DOMAIN ByKey(lines, I) = Keys(lines, I)
      /\ \A i \in I : ByKey(lines, I)[lines[i].key] = lines[i].said
  BY <1>1, <1>3, ReadBack
<1>5. parsed.values = ByKey(lines, I)
  BY <1>1 DEF Accepted
<1>6. source = Rack
  BY Asking
<1>7. ASSUME NEW k \in Keys(lines, I) PROVE ByKey(lines, I)[k] = <<source, k>>
  <2>1. PICK i \in I : lines[i].key = k
    BY DEF Keys
  <2>2. lines[i].kind = "row" /\ i \in DOMAIN lines /\ IsData(lines[i])
    BY <1>3 DEF IsData
  <2>3. lines[i].said[1] = source /\ k \in Positions
    BY <1>6, <2>1, <2>2 DEF Named
  <2>4. ~Lies(lines[i])
    <3> SUFFICES ASSUME Lies(lines[i]) PROVE FALSE
      OBVIOUS
    <3>1. OneLie(lines) /\ Unmoved(lines, command.name, source)
      <4>1. PICK misread, moved \in Nat :
              /\ misread + moved = damage
              /\ misread = 0 => Honest(lines)
              /\ misread <= 1 => OneLie(lines)
              /\ moved = 0 => Unmoved(lines, command.name, source)
        BY DEF CountsInv
      <4>2. misread # 0
        BY <2>2, <4>1 DEF Honest
      <4>3. misread <= 1 /\ moved = 0
        BY <4>1, <4>2
      <4> QED
        BY <4>1, <4>3
    <3>2. Must(command.name) = Positions
      BY DEF Must
    <3>3. PICK j \in DOMAIN lines : IsData(lines[j]) /\ lines[j].said[2] = k
      BY <2>3, <3>1, <3>2 DEF Unmoved, Told
    <3>4. lines[i].said[2] # k
      BY <2>1 DEF Lies
    <3>5. ~Lies(lines[j])
      BY <2>2, <3>1, <3>3, <3>4 DEF OneLie
    <3>6. lines[j].key = k
      BY <3>3, <3>5 DEF Lies
    <3> QED
      BY <1>1, <1>3, <2>1, <3>3, <3>4, <3>6 DEF Distinct
  <2>5. lines[i].said[2] = k
    BY <2>1, <2>2, <2>4 DEF Lies
  <2>6. lines[i].said \in Nat \X LineKeys
    <3>1. lines[i] \in LineType
      BY <1>2, <1>3, <2>2, ElementOfSeq
    <3> QED
      BY <3>1 DEF LineType
  <2>7. lines[i].said = <<source, k>>
    BY <2>3, <2>5, <2>6
  <2> QED
    BY <1>4, <2>1, <2>7
<1> QED
  BY <1>4, <1>5, <1>7 DEF Says

\* What is read of `bat'.
LEMMA OfCells ==
  ASSUME ParserTypeInv, Named(lines, source), CountsInv, command.name = "bat",
         IsTable(lines), \A i \in TableRows(lines) : lines[i].key = i - 2,
         Len(lines) - 2 = CellCount[source],
         parsed = Accepted(ByKey(lines, TableRows(lines))), damage <= 2
  PROVE  DOMAIN parsed.values = Cells(source) /\ Says(Cells(source))
<1>1. PICK I, n : I = TableRows(lines) /\ n = CellCount[source]
  OBVIOUS
<1>2. lines \in Seq(LineType)
  BY DEF ParserTypeInv
<1>3. /\ I \subseteq DOMAIN lines /\ I \subseteq Nat
      /\ \A i \in I : lines[i].kind = "row"
      /\ lines[1].kind = "header" /\ lines[Len(lines)].kind = "confirmation"
      /\ Len(lines) \in Nat /\ DOMAIN lines = 1..Len(lines)
  BY <1>1, <1>2, OfTable
<1>4. n \in Nat \ {0}
  BY <1>1, Asking, CellCountAssumption
<1>5. Len(lines) = n + 2 /\ I = 2..n + 1 /\ \A i \in I : lines[i].key = i - 2
  <2>1. Len(lines) = n + 2
    BY <1>1, <1>3, <1>4
  <2>2. Len(lines) - 1 = n + 1
    BY <1>4, <2>1
  <2> QED
    BY <1>1, <2>1, <2>2 DEF TableRows
<1>6. Distinct(lines, I)
  <2>1. \A i, j \in I : i - 2 = j - 2 => i = j
    BY <1>3
  <2> QED
    BY <1>5, <2>1 DEF Distinct
<1>7. DOMAIN ByKey(lines, I) = Keys(lines, I)
      /\ \A i \in I : ByKey(lines, I)[lines[i].key] = lines[i].said
  BY <1>3, <1>6, ReadBack
<1>8. parsed.values = ByKey(lines, I)
  BY <1>1 DEF Accepted
<1>9. Cells(source) = 0..n - 1
  BY <1>1 DEF Cells
<1>10. \A k \in 0..n - 1 : k + 2 \in I /\ lines[k + 2].key = k
  <2>1. \A k \in 0..n - 1 : k + 2 \in 2..n + 1 /\ (k + 2) - 2 = k
    BY <1>4
  <2> QED
    BY <1>5, <2>1
<1>11. Keys(lines, I) = 0..n - 1
  <2>1. \A i \in I : i - 2 \in 0..n - 1
    BY <1>4, <1>5
  <2>2. Keys(lines, I) \subseteq 0..n - 1
    BY <1>5, <2>1 DEF Keys
  <2>3. 0..n - 1 \subseteq Keys(lines, I)
    BY <1>10 DEF Keys
  <2> QED
    BY <2>2, <2>3
<1>12. \A i \in I : lines[i].said[2] = lines[i].key
  <2>1. PICK misread, moved \in Nat :
          /\ misread + moved = damage
          /\ misread = 0 => Honest(lines)
          /\ misread <= 1 => OneLie(lines)
          /\ moved = 0 => Unmoved(lines, command.name, source)
          /\ moved <= 1 => MovedOnce(lines, command.name, source)
    BY DEF CountsInv
  <2>2. \A i \in I : i \in DOMAIN lines /\ IsData(lines[i])
    BY <1>3 DEF IsData
  <2>3. CASE misread = 0
    BY <2>1, <2>2, <2>3 DEF Honest, Lies
  <2>4. CASE InPlace(lines, n)
    BY <1>5, <2>4 DEF InPlace
  <2>5. CASE misread # 0 /\ ~InPlace(lines, n)
    <3>1. moved <= 1
      BY <2>1, <2>5
    <3>2. moved # 0
      BY <1>1, <2>1, <2>5 DEF Unmoved
    <3>3. misread <= 1
      BY <2>1, <3>2
    <3>4. ~Broken(lines, n)
      BY <1>3, <1>5 DEF Broken
    <3>5. Displaced(lines, n)
      BY <1>1, <2>1, <2>5, <3>1, <3>4 DEF MovedOnce
    <3>6. PICK i, j \in I : i # j /\ lines[i].said[2] # i - 2 /\ lines[j].said[2] # j - 2
      BY <1>5, <3>5 DEF Displaced
    <3>7. Lies(lines[i]) /\ Lies(lines[j])
      BY <1>5, <2>2, <3>6 DEF Lies
    <3>8. lines[i] = lines[j]
      BY <2>1, <2>2, <3>3, <3>7 DEF OneLie
    <3> QED
      BY <1>6, <3>6, <3>8 DEF Distinct
  <2> QED
    BY <2>3, <2>4, <2>5
<1>13. ASSUME NEW k \in 0..n - 1 PROVE ByKey(lines, I)[k] = <<source, k>>
  <2>1. PICK i \in I : lines[i].key = k
    BY <1>11 DEF Keys
  <2>2. lines[i].kind = "row" /\ i \in DOMAIN lines /\ IsData(lines[i])
    BY <1>3 DEF IsData
  <2>3. lines[i].said[1] = source /\ lines[i].said[2] = k
    BY <1>12, <2>1, <2>2 DEF Named
  <2>4. lines[i].said \in Nat \X LineKeys
    <3>1. lines[i] \in LineType
      BY <1>2, <1>3, <2>2, ElementOfSeq
    <3> QED
      BY <3>1 DEF LineType
  <2>5. lines[i].said = <<source, k>>
    BY <2>3, <2>4
  <2> QED
    BY <1>7, <2>1, <2>5
<1> QED
  BY <1>7, <1>8, <1>9, <1>11, <1>13 DEF Says

LEMMA NoticedIfInv == ParserInv => DamageIsNoticed
<1> SUFFICES ASSUME ParserInv, parsed.accepted
             PROVE  /\ IsOneModules => source = command.position
                    /\ IsOneModules \/ command.name = "pwrsys" =>
                         Required \subseteq DOMAIN parsed.values /\ (damage <= 1 => Says(Required))
                    /\ command.name = "bat" /\ source = command.position /\ damage <= 2 =>
                         DOMAIN parsed.values = Cells(source) /\ Says(Cells(source))
                    /\ command.name = "pwr" /\ damage <= 1 => Says(DOMAIN parsed.values)
  BY DEF DamageIsNoticed
<1>1. parsed = Parse(lines, command.name, command.position)
  <2>1. ~Pending.accepted
    BY DEF Pending
  <2>2. parsed.done
    BY <2>1 DEF ParserInv, ParsedInv
  <2> QED
    BY <2>2 DEF ParserInv, ParsedInv
<1>2. ParserTypeInv /\ Named(lines, source) /\ CountsInv /\ lines \in Seq(LineType)
  BY DEF ParserInv, ParserTypeInv
<1>3. ~Refused.accepted
  BY DEF Refused
<1>4. CASE command.name = "pwr"
  <2>1. parsed = ParsePwr(lines)
    BY <1>1, <1>4 DEF Parse
  <2>2. IsTable(lines) /\ Distinct(lines, TableRows(lines))
        /\ parsed = Accepted(ByKey(lines, TableRows(lines)))
    BY <1>3, <2>1 DEF ParsePwr
  <2>3. damage <= 1 => Says(DOMAIN parsed.values)
    BY <1>2, <1>4, <2>2, OfPositions
  <2> QED
    BY <1>4, <2>3 DEF IsOneModules
<1>5. CASE command.name = "bat"
  <2>1. parsed = ParseBat(lines, command.position)
    BY <1>1, <1>5 DEF Parse
  <2>2. /\ IsTable(lines) /\ \A i \in TableRows(lines) : lines[i].key = i - 2
        /\ Len(lines) - 2 = CellCount[command.position]
        /\ parsed = Accepted(ByKey(lines, TableRows(lines)))
    BY <1>3, <2>1 DEF ParseBat
  <2>3. ASSUME source = command.position, damage <= 2
        PROVE  DOMAIN parsed.values = Cells(source) /\ Says(Cells(source))
    BY <1>2, <1>5, <2>2, <2>3, OfCells
  <2> QED
    BY <1>5, <2>3 DEF IsOneModules
<1>6. CASE command.name = "info"
  <2>1. parsed = ParseInfo(lines, command.position)
    BY <1>1, <1>6 DEF Parse
  <2>2. PICK I : I = Without(lines, {})
    OBVIOUS
  <2>3. /\ Confirmed(lines) /\ FieldsOk(lines, I)
        /\ ByKey(lines, I)["address"][1] = command.position
        /\ parsed = Accepted(ByKey(lines, I))
    BY <1>3, <2>1, <2>2 DEF ParseInfo
  <2>4. Required \subseteq DOMAIN parsed.values /\ (damage <= 1 => Says(Required))
    BY <1>2, <1>6, <2>2, <2>3, OfFields
  <2>5. source = command.position
    <3>1. I \subseteq DOMAIN lines /\ Len(lines) \in Nat /\ DOMAIN lines = 1..Len(lines)
      BY <1>2, <2>2, <2>3, DataIsKept, LenProperties
    <3>2. I \subseteq Nat
      BY <3>1
    <3>3. Distinct(lines, I) /\ AllOf(lines, I, "field")
      BY <2>3 DEF FieldsOk
    <3>4. PICK i \in I : lines[i].key = "address"
      BY <2>3, FieldsAssumption DEF FieldsOk, Keys
    <3>5. ByKey(lines, I)["address"] = lines[i].said
      <4>1. \A h \in I : ByKey(lines, I)[lines[h].key] = lines[h].said
        BY <3>2, <3>3, ReadBack
      <4> QED
        BY <3>4, <4>1
    <3>6. IsData(lines[i]) /\ i \in DOMAIN lines
      BY <3>1, <3>3 DEF AllOf, IsData
    <3>7. lines[i].said[1] = source
      BY <1>2, <3>6 DEF Named
    <3> QED
      BY <2>3, <3>5, <3>7
  <2> QED
    BY <1>6, <2>4, <2>5
<1>7. CASE command.name = "detail"
  <2>1. parsed = ParseDetail(lines, command.position)
    BY <1>1, <1>7 DEF Parse
  <2>2. /\ Confirmed(lines) /\ FieldsOk(lines, Without(lines, Skipped))
        /\ \E i \in DOMAIN lines : OnlyAt(lines, "heading", i) /\ lines[i].key = command.position
        /\ parsed = Accepted(ByKey(lines, Without(lines, Skipped)))
    BY <1>3, <2>1 DEF ParseDetail
  <2>3. Required \subseteq DOMAIN parsed.values /\ (damage <= 1 => Says(Required))
    <3>1. "row" \notin Skipped /\ "field" \notin Skipped
      BY DEF Skipped
    <3> QED
      BY <1>2, <1>7, <2>2, <3>1, OfFields
  <2>4. source = command.position
    <3>1. PICK i \in DOMAIN lines :
            OnlyAt(lines, "heading", i) /\ lines[i].key = command.position
      BY <2>2
    <3>2. lines[i].kind = "heading"
      BY <3>1 DEF OnlyAt
    <3> QED
      BY <1>2, <3>1, <3>2 DEF Named
  <2> QED
    BY <1>7, <2>3, <2>4
<1>8. CASE command.name = "pwrsys"
  <2>1. parsed = ParsePwrsys(lines)
    BY <1>1, <1>8 DEF Parse
  <2>2. PICK kinds : kinds = Skipped \cup {"state"}
    OBVIOUS
  <2>3. /\ Confirmed(lines) /\ FieldsOk(lines, Without(lines, kinds))
        /\ parsed = Accepted(ByKey(lines, Without(lines, kinds)))
    BY <1>3, <2>1, <2>2 DEF ParsePwrsys
  <2>4. "row" \notin kinds /\ "field" \notin kinds
    BY <2>2 DEF Skipped
  <2>5. Required \subseteq DOMAIN parsed.values /\ (damage <= 1 => Says(Required))
    BY <1>2, <1>8, <2>3, <2>4, OfFields
  <2> QED
    BY <1>8, <2>5 DEF IsOneModules
<1>9. command.name \in Names
  BY <1>2, Asking
<1> QED
  BY <1>4, <1>5, <1>6, <1>7, <1>8, <1>9 DEF Names

LEMMA IntactIfInv == ParserInv => IntactIsAccepted
<1> SUFFICES ASSUME ParserInv, parsed.done, damage = 0, source = command.position
             PROVE  parsed.accepted
                    /\ Says({lines[i].key : i \in {j \in DOMAIN lines : lines[j].kind \in {"row", "field"}}})
  BY DEF IntactIsAccepted
<1>1. parsed = Parse(lines, command.name, source)
  BY DEF ParserInv, ParsedInv
<1>2. PICK optional \in SUBSET Optional : lines = Answer(command.name, source, optional)
  BY DEF ParserInv, IntactInv
<1>3. Asked(command.name, source, optional)
  BY Asking DEF ParserInv
<1>4. PICK m, f : Shape(lines, command.name, source, optional, LinesBefore(command.name), m, f)
  BY <1>2, <1>3, AnswerShape
<1>5. /\ parsed.accepted
      /\ \A i \in DOMAIN lines :
           lines[i].kind \in {"row", "field"} =>
             lines[i].key \in DOMAIN parsed.values
             /\ parsed.values[lines[i].key] = <<source, lines[i].key>>
  BY <1>1, <1>3, <1>4, ShapeAccepted
<1> QED
  BY <1>5 DEF Says

\* Whatever fields, cells and positions there are, and however often an answer
\* is damaged, what a parser accepts is what the module said, as far as the
\* property promises.
THEOREM DamageNoticed == ParserSpec => []DamageIsNoticed
BY ParserInvariant, NoticedIfInv, PTL

\* No parser refuses an answer that arrives as the module asked has sent it,
\* whichever of the optional fields it has.
THEOREM IntactAccepted == ParserSpec => []IntactIsAccepted
BY ParserInvariant, IntactIfInv, PTL
=============================================================================
