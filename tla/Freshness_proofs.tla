--------------------------- MODULE Freshness_proofs ---------------------------
(***************************************************************************)
(* How old a valid value gets, for any rack, any intervals that leave room *)
(* for a round of the lock, and any number of failed commands.             *)
(*                                                                         *)
(* The argument counts what is left: a value's age and the most time that  *)
(* can pass until its loop publishes again never exceed the interval and   *)
(* the lag together.                                                       *)
(***************************************************************************)
EXTENDS Freshness, FiniteSetTheorems, SequenceTheorems, WellFoundedInduction, TLAPS

Command == {"pwr", "info", "rack", "cells", "detail"} \X (Positions \cup {0})

\* The longest n commands take.
Cost(n) == n * MaxCommand

\* A whole round of the lock.
Round == Cost(Length("rack")) + Cost(Length("module")) + Cost(Length("inventory"))

\* Commands that a cycle still waits for at most: one identity for each
\* position may follow `pwr'.
Left(commands) ==
  IF commands = <<>> THEN 0
  ELSE IF commands[1][1] = "pwr" THEN N + 1 ELSE Len(commands)

\* The most time that the cycle can still take.
Remaining == IF holder = Nobody THEN 0 ELSE Cost(Left(todo)) - elapsed

\* What waiter l waits for waiter k at most.
Before(k, l) ==
  \E i, j \in DOMAIN queue : i < j /\ queue[i] = k /\ queue[j] = l
Ahead(k, l) == IF Before(k, l) THEN Cost(Length(k)) ELSE 0

\* The most time until loop l publishes next.
UntilPublished(l) ==
  CASE status[l] = "sleeping" -> timer[l] + Round
    [] status[l] = "waiting"  ->
         Remaining + Ahead("rack", l) + Ahead("module", l) + Ahead("inventory", l)
           + Cost(Length(l))
    [] OTHER                  -> Remaining

(***************************************************************************)
(* The inductive invariant.                                                *)
(***************************************************************************)
\* The lock: one loop runs, the waiters are queued once each.  Before the
\* loops exist the inventory cycle of initialize() has the lock for itself.
LockOK ==
  /\ \A k, l \in Loops : status[l] = "none" => status[k] = "none"
  /\ \A l \in Loops : status[l] = "none" => holder = "inventory" /\ queue = <<>>
  /\ \A l \in Loops : status[l] # "none" => (status[l] = "running" <=> holder = l)
  /\ \A l \in Loops : status[l] = "waiting" <=> \E i \in DOMAIN queue : queue[i] = l
  /\ \A i, j \in DOMAIN queue : queue[i] = queue[j] => i = j

\* The commands of the cycle are those of its loop.
TodoOK(l, commands, new) ==
  /\ Left(commands) <= Length(l)
  /\ \A i \in DOMAIN commands : LoopOf(Key(commands[i])) = l /\ Key(commands[i]) \in AllKeys
  /\ l = "inventory" => \/ commands = <<<<"pwr", 0>>>>
                        \/ /\ \A i \in DOMAIN commands :
                                \E p \in Positions : commands[i] = <<"info", p>>
                           /\ <<"inventory", 0>> \in DOMAIN new

\* Every value of the loop is read, has failed or is still to be read.
Covered(l, commands, new, bad) ==
  \A k \in Keys(l, mapped) :
    \/ k \in DOMAIN new \cup bad
    \/ \E i \in DOMAIN commands : Key(commands[i]) = k

\* What the cycle has read is no older than its commands, the first excepted,
\* can have taken, and not older than the last success.
TakenOK(l, commands, new) ==
  \A k \in DOMAIN new :
    /\ k \in AllKeys /\ LoopOf(k) = l
    /\ new[k] \in Nat
    /\ new[k] + Cost(Left(commands)) <= Cost(Length(l)) - MaxCommand + elapsed
    /\ success # Never => new[k] <= success

CycleOK ==
  /\ holder = Nobody => /\ todo = <<>> /\ elapsed = 0
                        /\ DOMAIN taken = {} /\ failed = {}
  /\ holder # Nobody => /\ todo # <<>>
                        /\ TodoOK(holder, todo, taken)
                        /\ Covered(holder, todo, taken, failed)
                        /\ TakenOK(holder, todo, taken)

\* A valid value belongs to a module that is still there, and its age and the
\* time until it is read again leave it fresh.
AgeOK ==
  \A k \in AllKeys : store[k].valid =>
    /\ \E l \in Loops : status[l] # "none"
    /\ k \in Keys(LoopOf(k), mapped)
    /\ store[k].age \in Nat
    /\ store[k].age + UntilPublished(LoopOf(k))
         <= Interval[LoopOf(k)] + Lag(LoopOf(k))

TypesOK ==
  /\ TypeOK
  /\ DOMAIN taken \subseteq AllKeys
  /\ store \in [AllKeys -> [age : Nat \cup {Never}, valid : BOOLEAN]]
  /\ success \in Nat \cup {Never}

FreshnessInv == TypesOK /\ LockOK /\ CycleOK /\ AgeOK

(***************************************************************************)
(* Commands and time.                                                      *)
(***************************************************************************)
LEMMA SizesAreNat ==
  /\ N \in Nat /\ MaxCommand \in Nat
  /\ \A l \in Loops : Length(l) \in Nat
  /\ Length("rack") = N + 1 /\ Length("module") = N /\ Length("inventory") = N + 1
<1>1. N \in Nat
  BY FS_CardinalityType, PositionsAssumption DEF N
<1> QED
  BY <1>1, BoundsAssumption DEF Length, Loops

LEMMA CostNat ==
  ASSUME NEW n \in Nat
  PROVE  Cost(n) \in Nat /\ Cost(n + 1) = Cost(n) + MaxCommand /\ Cost(0) = 0
BY SizesAreNat DEF Cost

LEMMA CostMonotonic ==
  ASSUME NEW m \in Nat, NEW n \in Nat, m <= n
  PROVE  Cost(m) <= Cost(n)
<1>1. PICK d \in Nat : n = m + d
  BY n - m \in Nat
<1>2. Cost(n) = Cost(m) + Cost(d)
  BY <1>1, SizesAreNat DEF Cost
<1> QED
  BY <1>2, CostNat

\* The lag in terms of rounds.
LEMMA LagCost ==
  ASSUME NEW l \in Loops
  PROVE  /\ Lag(l) = Cost(Length(l)) - MaxCommand + Round
         /\ Round \in Nat /\ Cost(Length(l)) \in Nat
         /\ Lag(l) \in Int
<1> DEFINE n == Length(l)
           a == Length("rack")
           b == Length("module")
           c == Length("inventory")
<1>1. n \in Nat /\ a \in Nat /\ b \in Nat /\ c \in Nat /\ MaxCommand \in Nat
  BY SizesAreNat DEF Loops
<1>2. Lag(l) = (2 * n - 1 + a + b + c - n) * MaxCommand
  BY DEF Lag
<1>3. Round = a * MaxCommand + b * MaxCommand + c * MaxCommand /\ Cost(n) = n * MaxCommand
  BY DEF Round, Cost
<1> HIDE DEF n, a, b, c
<1>4. (2 * n - 1 + a + b + c - n) * MaxCommand
        = n * MaxCommand - MaxCommand + (a * MaxCommand + b * MaxCommand + c * MaxCommand)
  BY <1>1
<1>5. a * MaxCommand \in Nat /\ b * MaxCommand \in Nat /\ c * MaxCommand \in Nat
      /\ n * MaxCommand \in Nat
  BY <1>1
<1> QED
  BY <1>1, <1>2, <1>3, <1>4, <1>5 DEF n

\* The rank of an element among the others is a position in Ascending, and
\* every such position has its element.
LEMMA AscendingIsOnto ==
  ASSUME NEW P \in SUBSET Nat, IsFiniteSet(P)
  PROVE  /\ Cardinality(P) \in Nat
         /\ \A i \in 1..Cardinality(P) : Ascending(P)[i] \in P
         /\ \A p \in P : \E i \in 1..Cardinality(P) : Ascending(P)[i] = p
<1> DEFINE n == Cardinality(P)
           below(p) == {q \in P : q < p}
           rank == [p \in P |-> Cardinality(below(p))]
<1>1. n \in Nat
  BY FS_CardinalityType
<1>2. \A p \in P : IsFiniteSet(below(p)) /\ rank[p] \in 0..(n - 1)
  <2> TAKE p \in P
  <2>1. below(p) \in SUBSET P /\ p \notin below(p)
    OBVIOUS
  <2>2. /\ IsFiniteSet(below(p)) /\ Cardinality(below(p)) <= n
        /\ n = Cardinality(below(p)) => P = below(p)
    BY <2>1, FS_Subset
  <2>3. Cardinality(below(p)) \in Nat
    BY <2>2, FS_CardinalityType
  <2> QED
    BY <2>1, <2>2, <2>3, <1>1
<1>3. \A p, q \in P : p < q => rank[p] < rank[q]
  <2> SUFFICES ASSUME NEW p \in P, NEW q \in P, p < q PROVE rank[p] < rank[q]
    OBVIOUS
  <2>0. \A r \in P : r < p => r < q
    OBVIOUS
  <2>1. below(p) \in SUBSET below(q) /\ p \in below(q) /\ p \notin below(p)
    <3>1. \A r \in below(p) : r \in below(q)
      BY <2>0
    <3>2. p \in below(q) /\ p \notin below(p)
      OBVIOUS
    <3> HIDE DEF below
    <3> QED
      BY <3>1, <3>2
  <2>2. /\ Cardinality(below(p)) <= Cardinality(below(q))
        /\ Cardinality(below(q)) = Cardinality(below(p)) => below(q) = below(p)
    BY <2>1, <1>2, FS_Subset
  <2> QED
    BY <2>1, <2>2, <1>2
<1>4. \A p, q \in P : rank[p] = rank[q] => p = q
  <2> SUFFICES ASSUME NEW p \in P, NEW q \in P, rank[p] = rank[q] PROVE p = q
    OBVIOUS
  <2>1. ~(p < q) /\ ~(q < p)
    BY <1>3, <1>2
  <2> QED
    BY <2>1
<1>5. rank \in Injection(P, 0..(n - 1))
  BY <1>2, <1>4 DEF Injection, IsInjective
<1>6. IsFiniteSet(0..(n - 1)) /\ Cardinality(0..(n - 1)) = n
  <2>1. 0 \in Int /\ n - 1 \in Int /\ (IF 0 > n - 1 THEN 0 ELSE n - 1 - 0 + 1) = n
    BY <1>1
  <2> HIDE DEF n
  <2> QED
    BY <2>1, FS_Interval
<1>7. rank \in Surjection(P, 0..(n - 1))
  <2> DEFINE T == 0..(n - 1)
  <2>1. rank \in Injection(P, T) /\ IsFiniteSet(T) /\ Cardinality(P) = Cardinality(T)
    BY <1>5, <1>6
  <2> HIDE DEF rank, T
  <2>2. rank \in Surjection(P, T)
    BY <2>1, FS_Injection
  <2> QED
    BY <2>2 DEF T
<1>8. \A p \in P : rank[p] = Cardinality({q \in P : q < p})
  OBVIOUS
<1>12. \A p \in P : rank[p] \in 0..(n - 1)
  BY <1>2
<1> HIDE DEF rank, n
<1>9. \A i \in 1..n : \E p \in P : rank[p] = i - 1
  BY <1>1, <1>7 DEF Surjection
<1>10. \A i \in 1..n : Ascending(P)[i] \in P /\ rank[Ascending(P)[i]] = i - 1
  <2> TAKE i \in 1..n
  <2>1. \E p \in P : Cardinality({q \in P : q < p}) = i - 1
    BY <1>8, <1>9
  <2>2. Ascending(P)[i] = CHOOSE p \in P : Cardinality({q \in P : q < p}) = i - 1
    BY DEF Ascending, n
  <2>3. Ascending(P)[i] \in P /\ Cardinality({q \in P : q < Ascending(P)[i]}) = i - 1
    BY <2>1, <2>2
  <2> QED
    BY <2>3, <1>8
<1>11. ASSUME NEW p \in P PROVE \E i \in 1..n : Ascending(P)[i] = p
  <2> DEFINE i == rank[p] + 1
  <2>1. i \in 1..n /\ rank[p] = i - 1
    BY <1>1, <1>12
  <2>2. Ascending(P)[i] \in P /\ rank[Ascending(P)[i]] = rank[p]
    BY <2>1, <1>10
  <2> QED
    BY <2>1, <2>2, <1>4
<1> QED
  BY <1>1, <1>10, <1>11 DEF n

\* One command for each position.
LEMMA EachCommand ==
  ASSUME NEW P \in SUBSET Positions, NEW kind \in {"info", "cells", "detail"}
  PROVE  /\ Each(kind, P) \in Seq(Command)
         /\ Len(Each(kind, P)) <= N /\ Len(Each(kind, P)) \in Nat
         /\ DOMAIN Each(kind, P) = 1..Len(Each(kind, P))
         /\ P # {} => Each(kind, P) # <<>>
         /\ \A i \in DOMAIN Each(kind, P) :
              \E p \in P : Each(kind, P)[i] = <<kind, p>>
         /\ \A p \in P : \E i \in DOMAIN Each(kind, P) : Each(kind, P)[i] = <<kind, p>>
<1> DEFINE n == Cardinality(P)
           A == Ascending(P)
           s == [i \in 1..n |-> <<kind, A[i]>>]
<1>1. IsFiniteSet(P) /\ n <= N /\ P \subseteq Nat
  BY PositionsAssumption, FS_Subset DEF N
<1>2. /\ n \in Nat /\ \A i \in 1..n : A[i] \in P
      /\ \A p \in P : \E i \in 1..n : A[i] = p
  BY <1>1, AscendingIsOnto
<1>3. Each(kind, P) = s
  BY DEF Each
<1> HIDE DEF A, n
<1>4. s \in Seq(Command) /\ Len(s) = n /\ DOMAIN s = 1..n
  BY <1>2 DEF Command
<1>5. \A i \in 1..n : s[i] = <<kind, A[i]>>
  OBVIOUS
<1>6. \A p \in P : \E i \in 1..n : s[i] = <<kind, p>>
  BY <1>2, <1>5
<1>7. P # {} => s # <<>>
  BY <1>6, <1>4, <1>2
<1>8. \A i \in DOMAIN s : \E p \in P : s[i] = <<kind, p>>
  BY <1>2, <1>4, <1>5
<1>9. \A p \in P : \E i \in DOMAIN s : s[i] = <<kind, p>>
  BY <1>4, <1>6
<1> HIDE DEF s
<1> QED
  BY <1>1, <1>2, <1>3, <1>4, <1>7, <1>8, <1>9

\* The values of the three loops.
LEMMA KeysOfLoops ==
  /\ \A k \in AllKeys : LoopOf(k) \in Loops
  /\ \A P \in SUBSET Positions : \A l \in Loops : \A k \in Keys(l, P) :
       k \in AllKeys /\ LoopOf(k) = l
  /\ \A P \in SUBSET Positions : \A k \in AllKeys :
       k \in Keys(LoopOf(k), P) <=> (k[1] \in {"cells", "detail"} => k[2] \in P)
<1>1. ASSUME NEW P \in SUBSET Positions, NEW l \in Loops, NEW k \in Keys(l, P)
      PROVE  k \in Keys(l, Positions) /\ LoopOf(k) = l
  BY DEF Loops, Keys, LoopOf
<1>2. ASSUME NEW P \in SUBSET Positions, NEW l \in Loops, NEW k \in Keys(l, P)
      PROVE  k \in AllKeys /\ LoopOf(k) = l
  BY <1>1 DEF AllKeys
<1>3. \A k \in AllKeys : \E l \in Loops : k \in Keys(l, Positions)
  BY DEF AllKeys
<1>4. \A k \in AllKeys : LoopOf(k) \in Loops /\ k \in Keys(LoopOf(k), Positions)
  BY <1>1, <1>3
<1>5. ASSUME NEW P \in SUBSET Positions, NEW k \in AllKeys
      PROVE  k \in Keys(LoopOf(k), P) <=> (k[1] \in {"cells", "detail"} => k[2] \in P)
  <2>1. PICK l \in Loops : k \in Keys(l, Positions) /\ LoopOf(k) = l
    BY <1>4
  <2>2. CASE l = "rack"
    BY <2>1, <2>2 DEF Keys
  <2>3. CASE l = "module"
    BY <2>1, <2>3 DEF Keys
  <2>4. CASE l = "inventory"
    BY <2>1, <2>4 DEF Keys
  <2> QED
    BY <2>2, <2>3, <2>4 DEF Loops
<1> QED
  BY <1>2, <1>4, <1>5

\* The commands of a cycle read every value of its loop; only a module cycle
\* may have none.
LEMMA CommandsOK ==
  ASSUME mapped \subseteq Positions, NEW l \in Loops
  PROVE  /\ Commands(l) \in Seq(Command)
         /\ \A new : TodoOK(l, Commands(l), new)
         /\ \A k \in Keys(l, mapped) :
              \E i \in DOMAIN Commands(l) : Key(Commands(l)[i]) = k
         /\ Commands(l) = <<>> => Keys(l, mapped) = {}
<1>1. CASE l = "inventory"
  <2> DEFINE s == <<<<"pwr", 0>>>>
  <2>1. Commands(l) = s /\ s \in Seq(Command) /\ Len(s) = 1 /\ s[1] = <<"pwr", 0>>
        /\ DOMAIN s = {1}
    BY <1>1 DEF Commands, Command
  <2>2. Left(s) <= Length(l)
    BY <1>1, <2>1, SizesAreNat DEF Left
  <2>3. Key(s[1]) = <<"inventory", 0>> /\ LoopOf(<<"inventory", 0>>) = l
        /\ <<"inventory", 0>> \in AllKeys /\ Keys(l, mapped) = {<<"inventory", 0>>}
    BY <1>1, <2>1 DEF Key, LoopOf, AllKeys, Keys, Loops
  <2> HIDE DEF s
  <2> QED
    BY <2>1, <2>2, <2>3 DEF TodoOK, s
<1>2. CASE l = "module"
  <2> DEFINE s == Each("detail", mapped)
  <2>1. Commands(l) = s
    BY <1>2 DEF Commands
  <2>2. /\ s \in Seq(Command) /\ Len(s) <= N /\ Len(s) \in Nat /\ DOMAIN s = 1..Len(s)
        /\ mapped # {} => s # <<>>
        /\ \A i \in DOMAIN s : \E p \in mapped : s[i] = <<"detail", p>>
        /\ \A p \in mapped : \E i \in DOMAIN s : s[i] = <<"detail", p>>
    BY EachCommand
  <2> HIDE DEF s
  <2>3. ASSUME NEW i \in DOMAIN s
        PROVE  s[i][1] = "detail" /\ Key(s[i]) = s[i] /\ s[i] \in Keys(l, mapped)
    <3>1. PICK p \in mapped : s[i] = <<"detail", p>>
      BY <2>2
    <3> QED
      BY <1>2, <3>1 DEF Key, Keys
  <2>4. Left(s) <= Length(l)
    BY <1>2, <2>2, <2>3, SizesAreNat DEF Left
  <2>5. \A k \in Keys(l, mapped) : \E i \in DOMAIN s : Key(s[i]) = k
    BY <1>2, <2>2, <2>3 DEF Keys
  <2>6. mapped = {} => Keys(l, mapped) = {}
    BY <1>2 DEF Keys
  <2> QED
    BY <1>2, <2>1, <2>2, <2>3, <2>4, <2>5, <2>6, KeysOfLoops DEF TodoOK
<1>3. CASE l = "rack"
  <2> DEFINE e == Each("cells", mapped)
             h == <<<<"rack", 0>>>>
             s == h \o e
  <2>1. Commands(l) = s
    BY <1>3 DEF Commands
  <2>2. /\ e \in Seq(Command) /\ Len(e) <= N /\ Len(e) \in Nat /\ DOMAIN e = 1..Len(e)
        /\ \A i \in DOMAIN e : \E p \in mapped : e[i] = <<"cells", p>>
        /\ \A p \in mapped : \E i \in DOMAIN e : e[i] = <<"cells", p>>
    BY EachCommand
  <2>3. h \in Seq(Command) /\ Len(h) = 1 /\ h[1] = <<"rack", 0>>
    BY DEF Command
  <2> HIDE DEF e, h
  <2>4. s \in Seq(Command) /\ Len(s) = Len(e) + 1
        /\ \A i \in 1..(1 + Len(e)) : s[i] = IF i <= 1 THEN h[i] ELSE e[i - 1]
    <3>1. /\ h \o e \in Seq(Command) /\ Len(h \o e) = Len(h) + Len(e)
          /\ \A i \in 1..Len(h) + Len(e) :
               (h \o e)[i] = IF i <= Len(h) THEN h[i] ELSE e[i - Len(h)]
      BY <2>2, <2>3, ConcatProperties
    <3> QED
      BY <3>1, <2>2, <2>3
  <2>5. DOMAIN s = 1..(1 + Len(e))
    BY <2>2, <2>4, LenProperties
  <2>6. s[1] = <<"rack", 0>> /\ \A i \in DOMAIN e : i + 1 \in DOMAIN s /\ s[i + 1] = e[i]
    BY <2>2, <2>3, <2>4, <2>5
  <2>7. \A i \in DOMAIN s : i = 1 \/ (i - 1 \in DOMAIN e /\ s[i] = e[i - 1])
    BY <2>2, <2>4, <2>5
  <2> HIDE DEF s
  <2>8. \A i \in DOMAIN s : s[i] \in Keys(l, mapped) /\ s[i][1] \in {"rack", "cells"}
    <3> TAKE i \in DOMAIN s
    <3>1. CASE i = 1
      BY <1>3, <2>6, <3>1 DEF Keys
    <3>2. CASE i # 1
      <4>1. PICK p \in mapped : s[i] = <<"cells", p>>
        BY <2>2, <2>7, <3>2
      <4> QED
        BY <1>3, <4>1 DEF Keys
    <3> QED
      BY <3>1, <3>2
  <2>9. \A i \in DOMAIN s : Key(s[i]) = s[i]
    BY <2>8 DEF Key
  <2>10. Left(s) <= Length(l)
    <3>1. s # <<>> /\ 1 \in DOMAIN s
      BY <2>2, <2>4, <2>5
    <3> QED
      BY <1>3, <2>2, <2>4, <2>8, <3>1, SizesAreNat DEF Left
  <2>11. \A k \in Keys(l, mapped) : \E i \in DOMAIN s : Key(s[i]) = k
    <3> TAKE k \in Keys(l, mapped)
    <3>1. CASE k = <<"rack", 0>>
      BY <2>2, <2>5, <2>6, <2>9, <3>1
    <3>2. CASE k # <<"rack", 0>>
      <4>1. PICK p \in mapped : k = <<"cells", p>>
        BY <1>3, <3>2 DEF Keys
      <4>2. PICK i \in DOMAIN e : e[i] = k
        BY <2>2, <4>1
      <4> QED
        BY <2>6, <2>9, <4>2
    <3> QED
      BY <3>1, <3>2
  <2>12. s # <<>>
    BY <2>2, <2>4
  <2>13. \A i \in DOMAIN s : s[i] \in AllKeys /\ LoopOf(s[i]) = l
    BY <2>8, KeysOfLoops
  <2>14. \A new : TodoOK(l, s, new)
    BY <1>3, <2>9, <2>10, <2>13 DEF TodoOK
  <2> QED
    BY <2>1, <2>4, <2>11, <2>12, <2>14
<1> QED
  BY <1>1, <1>2, <1>3 DEF Loops

(***************************************************************************)
(* What is left of the cycle, and what waiters wait for.                   *)
(***************************************************************************)
LEMMA LeftOfCommands ==
  ASSUME NEW commands \in Seq(Command)
  PROVE  /\ Left(commands) \in Nat
         /\ commands # <<>> => Left(commands) >= 1
BY SizesAreNat DEF Left

LEMMA RemainingBounds ==
  ASSUME TypesOK, CycleOK
  PROVE  /\ Remaining \in Nat
         /\ holder # Nobody =>
              /\ holder \in Loops
              /\ Left(todo) \in Nat /\ Left(todo) >= 1
              /\ Remaining = Cost(Left(todo)) - elapsed
              /\ Remaining <= Cost(Length(holder))
         /\ holder = Nobody => Remaining = 0
<1>1. CASE holder = Nobody
  BY <1>1 DEF Remaining
<1>2. CASE holder # Nobody
  <2>1. holder \in Loops /\ todo \in Seq(Command) /\ todo # <<>> /\ elapsed \in 0..MaxCommand
        /\ Left(todo) <= Length(holder)
    BY <1>2 DEF TypesOK, TypeOK, Command, CycleOK, TodoOK
  <2>2. Left(todo) \in Nat /\ Left(todo) >= 1 /\ Length(holder) \in Nat
    BY <2>1, LeftOfCommands, SizesAreNat
  <2>3. Cost(1) <= Cost(Left(todo)) /\ Cost(Left(todo)) <= Cost(Length(holder))
    BY <2>1, <2>2, CostMonotonic
  <2>4. Cost(1) = MaxCommand /\ Cost(Left(todo)) \in Nat /\ Cost(Length(holder)) \in Nat
        /\ MaxCommand \in Nat
    BY <2>2, CostNat, SizesAreNat DEF Cost
  <2> QED
    BY <1>2, <2>1, <2>2, <2>3, <2>4 DEF Remaining
<1> QED
  BY <1>1, <1>2

LEMMA LoopCosts ==
  /\ Cost(Length("rack")) \in Nat /\ Cost(Length("module")) \in Nat
  /\ Cost(Length("inventory")) \in Nat
  /\ \A l \in Loops : Cost(Length(l)) \in Nat
  /\ Round = Cost(Length("rack")) + Cost(Length("module")) + Cost(Length("inventory"))
  /\ Round \in Nat
BY LagCost DEF Loops, Round

LEMMA AheadBounds ==
  /\ \A k \in Loops : \A l : Ahead(k, l) \in Nat /\ Ahead(k, l) <= Cost(Length(k))
  /\ \A k \in Loops : \A l : Ahead(k, l) # 0 => Before(k, l)
BY LoopCosts DEF Ahead

LEMMA UntilPublishedIsNat ==
  TypesOK /\ CycleOK => \A l \in Loops : UntilPublished(l) \in Nat
<1> SUFFICES ASSUME TypesOK, CycleOK, NEW l \in Loops
             PROVE  UntilPublished(l) \in Nat
  OBVIOUS
<1>1. timer[l] \in Nat /\ Remaining \in Nat
  BY RemainingBounds DEF TypesOK, TypeOK
<1>2. Ahead("rack", l) \in Nat /\ Ahead("module", l) \in Nat /\ Ahead("inventory", l) \in Nat
  BY AheadBounds DEF Loops
<1> QED
  BY <1>1, <1>2, LoopCosts DEF UntilPublished

\* Waiters in a queue that grows or shrinks.
LEMMA QueueGrows ==
  ASSUME LockOK, queue \in Seq(Loops), NEW l \in Loops, status[l] # "waiting",
         queue' = Append(queue, l)
  PROVE  /\ queue' \in Seq(Loops)
         /\ \A k : (\E i \in DOMAIN queue' : queue'[i] = k)
                     <=> (k = l \/ \E i \in DOMAIN queue : queue[i] = k)
         /\ \A i, j \in DOMAIN queue' : queue'[i] = queue'[j] => i = j
         /\ \A k : Before(k, l)' => \E i \in DOMAIN queue : queue[i] = k
         /\ \A k, m : m # l => (Before(k, m)' <=> Before(k, m))
<1> DEFINE n == Len(queue)
<1>1. n \in Nat /\ DOMAIN queue = 1..n /\ \A i \in DOMAIN queue : queue[i] # l
  BY DEF LockOK
<1>2. /\ queue' \in Seq(Loops) /\ DOMAIN queue' = 1..(n + 1)
      /\ \A i \in 1..n : queue'[i] = queue[i]
      /\ queue'[n + 1] = l
  BY AppendProperties, LenProperties
<1>3. \A i, j \in DOMAIN queue : queue[i] = queue[j] => i = j
  BY DEF LockOK
<1> HIDE DEF n
<1>4. \A i \in DOMAIN queue' : i = n + 1 \/ (i \in DOMAIN queue /\ queue'[i] = queue[i])
  BY <1>1, <1>2
<1>5. \A i \in DOMAIN queue : i \in DOMAIN queue' /\ queue'[i] = queue[i] /\ i < n + 1
  BY <1>1, <1>2
<1>6. n + 1 \in DOMAIN queue'
  BY <1>1, <1>2
<1>7. \A i, j \in DOMAIN queue' : queue'[i] = queue'[j] => i = j
  BY <1>1, <1>2, <1>3, <1>4, <1>5
<1>8. \A k : Before(k, l)' => \E i \in DOMAIN queue : queue[i] = k
  BY <1>1, <1>2, <1>4 DEF Before
<1>9. \A k, m : m # l => (Before(k, m)' <=> Before(k, m))
  BY <1>1, <1>2, <1>4, <1>5 DEF Before
<1> QED
  BY <1>2, <1>4, <1>5, <1>6, <1>7, <1>8, <1>9

LEMMA QueueShrinks ==
  ASSUME LockOK, queue \in Seq(Loops), queue # <<>>, queue' = Tail(queue)
  PROVE  /\ queue' \in Seq(Loops) /\ Head(queue) \in Loops
         /\ \E i \in DOMAIN queue : queue[i] = Head(queue)
         /\ \A k : (\E i \in DOMAIN queue' : queue'[i] = k)
                     <=> (k # Head(queue) /\ \E i \in DOMAIN queue : queue[i] = k)
         /\ \A i, j \in DOMAIN queue' : queue'[i] = queue'[j] => i = j
         /\ \A m : (\E i \in DOMAIN queue' : queue'[i] = m) => Before(Head(queue), m)
         /\ \A k, m : Before(k, m)' => k # Head(queue)
         /\ \A k, m : Before(k, m)' => Before(k, m)
<1> DEFINE n == Len(queue)
           h == Head(queue)
<1>1. n \in Nat /\ n >= 1 /\ DOMAIN queue = 1..n /\ queue[1] = h /\ h \in Loops
  OBVIOUS
<1>2. /\ queue' \in Seq(Loops) /\ DOMAIN queue' = 1..(n - 1)
      /\ \A i \in 1..(n - 1) : queue'[i] = queue[i + 1]
  BY HeadTailProperties, LenProperties
<1>3. \A i, j \in DOMAIN queue : queue[i] = queue[j] => i = j
  BY DEF LockOK
<1> HIDE DEF n, h
<1>4. \A i \in DOMAIN queue' : i + 1 \in DOMAIN queue /\ queue'[i] = queue[i + 1] /\ 1 < i + 1
  BY <1>1, <1>2
<1>5. \A i \in DOMAIN queue : i = 1 \/ (i - 1 \in DOMAIN queue' /\ queue'[i - 1] = queue[i])
  BY <1>1, <1>2
<1>6. 1 \in DOMAIN queue
  BY <1>1
<1>7. \A i \in DOMAIN queue' : queue'[i] # h
  BY <1>1, <1>3, <1>4, <1>6
<1>8. \A i, j \in DOMAIN queue' : queue'[i] = queue'[j] => i = j
  <2> TAKE i, j \in DOMAIN queue'
  <2>1. queue'[i] = queue'[j] => i + 1 = j + 1
    BY <1>3, <1>4
  <2> QED
    BY <1>2, <1>1, <2>1
<1>9. \A k : (\E i \in DOMAIN queue' : queue'[i] = k)
               <=> (k # h /\ \E i \in DOMAIN queue : queue[i] = k)
  <2> TAKE k
  <2>1. (\E i \in DOMAIN queue' : queue'[i] = k) => k # h /\ \E i \in DOMAIN queue : queue[i] = k
    BY <1>4, <1>7
  <2>2. ASSUME k # h, NEW i \in DOMAIN queue, queue[i] = k
        PROVE  \E j \in DOMAIN queue' : queue'[j] = k
    BY <1>1, <1>5, <2>2
  <2> QED
    BY <2>1, <2>2
<1>10. \A m : (\E i \in DOMAIN queue' : queue'[i] = m) => Before(h, m)
  BY <1>1, <1>4, <1>6 DEF Before
<1>11. \A k, m : Before(k, m)' => k # h
  BY <1>7 DEF Before
<1>12. \A k, m : Before(k, m)' => Before(k, m)
  <2> SUFFICES ASSUME NEW k, NEW m, Before(k, m)' PROVE Before(k, m)
    OBVIOUS
  <2>1. PICK i, j \in DOMAIN queue' : i < j /\ queue'[i] = k /\ queue'[j] = m
    BY DEF Before
  <2>2. i + 1 < j + 1
    BY <1>1, <1>2, <2>1
  <2> QED
    BY <1>4, <2>1, <2>2 DEF Before
<1> QED
  BY <1>1, <1>2, <1>6, <1>8, <1>9, <1>10, <1>11, <1>12 DEF h

(***************************************************************************)
(* The steps.                                                              *)
(***************************************************************************)
\* A step that publishes nothing keeps the ages' invariant if it brings no
\* loop with a valid value further from its next publication.
LEMMA AgeKept ==
  ASSUME TypesOK, CycleOK, AgeOK, TypesOK', CycleOK',
         store' = store, mapped' = mapped,
         \A l \in Loops : status[l] # "none" => status'[l] # "none",
         \A l \in Loops : \/ Keys(l, mapped) = {}
                          \/ UntilPublished(l)' <= UntilPublished(l)
  PROVE  AgeOK'
<1>1. (TypesOK /\ CycleOK => \A l \in Loops : UntilPublished(l) \in Nat)'
  BY UntilPublishedIsNat, PTL
<1>2. \A l \in Loops : UntilPublished(l)' \in Nat /\ UntilPublished(l) \in Nat
  BY <1>1, UntilPublishedIsNat
<1> SUFFICES ASSUME NEW k \in AllKeys, store'[k].valid
             PROVE  /\ \E l \in Loops : status'[l] # "none"
                    /\ k \in Keys(LoopOf(k), mapped')
                    /\ store'[k].age \in Nat
                    /\ store'[k].age + UntilPublished(LoopOf(k))'
                         <= Interval[LoopOf(k)] + Lag(LoopOf(k))
  BY DEF AgeOK
<1> DEFINE l == LoopOf(k)
<1>3. l \in Loops /\ Interval[l] \in Nat /\ Lag(l) \in Int
  BY KeysOfLoops, LagCost, IntervalAssumption
<1>4. /\ \E m \in Loops : status[m] # "none"
      /\ k \in Keys(l, mapped)
      /\ store[k].age \in Nat
      /\ store[k].age + UntilPublished(l) <= Interval[l] + Lag(l)
  BY DEF AgeOK
<1>5. UntilPublished(l)' <= UntilPublished(l)
  BY <1>3, <1>4
<1> HIDE DEF l
<1>6. store[k].age + UntilPublished(l)' <= Interval[l] + Lag(l)
  BY <1>2, <1>3, <1>4, <1>5
<1> QED
  BY <1>4, <1>6 DEF l

LEMMA WakesStep ==
  ASSUME FreshnessInv, NEW l \in Loops, Wakes(l)
  PROVE  FreshnessInv'
<1>1. /\ TypesOK /\ LockOK /\ CycleOK /\ AgeOK
      /\ status[l] = "sleeping" /\ timer[l] = 0
      /\ status' = [status EXCEPT ![l] = "waiting"] /\ queue' = Append(queue, l)
      /\ queue \in Seq(Loops)
      /\ timer' = timer /\ holder' = holder /\ todo' = todo /\ elapsed' = elapsed
      /\ taken' = taken /\ failed' = failed /\ mapped' = mapped /\ store' = store
      /\ success' = success /\ faults' = faults
  BY DEF FreshnessInv, Wakes, TypesOK, TypeOK, cycleVars
<1>2. \A k \in Loops : status'[k] = IF k = l THEN "waiting" ELSE status[k]
  BY <1>1 DEF TypesOK, TypeOK
<1>3. /\ queue' \in Seq(Loops)
      /\ \A k : (\E i \in DOMAIN queue' : queue'[i] = k)
                  <=> (k = l \/ \E i \in DOMAIN queue : queue[i] = k)
      /\ \A i, j \in DOMAIN queue' : queue'[i] = queue'[j] => i = j
      /\ \A k : Before(k, l)' => \E i \in DOMAIN queue : queue[i] = k
      /\ \A k, m : m # l => (Before(k, m)' <=> Before(k, m))
  BY <1>1, QueueGrows
<1>4. TypesOK'
  BY <1>1, <1>3 DEF TypesOK, TypeOK
<1>5. LockOK'
  BY <1>1, <1>2, <1>3 DEF LockOK
<1>6. CycleOK'
  BY <1>1 DEF CycleOK, TodoOK, Covered, TakenOK
<1>7. Remaining' = Remaining
  BY <1>1 DEF Remaining
<1>8. ASSUME NEW m \in Loops, m # l
      PROVE  UntilPublished(m)' <= UntilPublished(m)
  <2>1. \A k \in Loops : Ahead(k, m)' = Ahead(k, m)
    BY <1>3, <1>8 DEF Ahead
  <2>2. status'[m] = status[m] /\ timer'[m] = timer[m]
    BY <1>1, <1>2, <1>8
  <2>3. UntilPublished(m)' = UntilPublished(m)
    BY <1>7, <2>1, <2>2 DEF UntilPublished, Loops
  <2>4. UntilPublished(m) \in Nat
    BY <1>1, UntilPublishedIsNat
  <2> QED
    BY <2>3, <2>4
<1>9. UntilPublished(l)' <= UntilPublished(l)
  <2> DEFINE a == Ahead("rack", l)'
             b == Ahead("module", l)'
             c == Ahead("inventory", l)'
             ca == Cost(Length("rack"))
             cb == Cost(Length("module"))
             cc == Cost(Length("inventory"))
             r == Remaining
  <2>1. UntilPublished(l) = Round
    BY <1>1, LoopCosts DEF UntilPublished
  <2>2. UntilPublished(l)' = r + a + b + c + Cost(Length(l))
    BY <1>1, <1>2, <1>7 DEF UntilPublished
  <2>3. a \in {0, ca} /\ b \in {0, cb} /\ c \in {0, cc}
    BY DEF Ahead
  <2>4. \A k \in Loops : Ahead(k, l)' # 0 => status[k] = "waiting"
    BY <1>1, <1>3 DEF Ahead, LockOK
  <2>5. /\ status["rack"] # "waiting" => a = 0
        /\ status["module"] # "waiting" => b = 0
        /\ status["inventory"] # "waiting" => c = 0
    BY <2>4 DEF Loops
  <2>6. holder # Nobody => holder \in Loops /\ status[holder] = "running"
    <3>1. holder # Nobody => holder \in Loops
      BY <1>1 DEF TypesOK, TypeOK
    <3> QED
      BY <1>1, <3>1 DEF LockOK
  <2>7. /\ holder = Nobody => r = 0
        /\ holder # Nobody => r <= Cost(Length(holder))
        /\ r \in Nat
    BY <1>1, RemainingBounds
  <2>8. ca \in Nat /\ cb \in Nat /\ cc \in Nat /\ Round = ca + cb + cc
    BY LoopCosts
  <2> HIDE DEF a, b, c, r
  <2>9. a \in Nat /\ b \in Nat /\ c \in Nat /\ a <= ca /\ b <= cb /\ c <= cc
    BY <2>3, <2>8
  <2>10. CASE l = "rack"
    <3>1. a = 0 /\ Cost(Length(l)) = ca /\ holder \in {Nobody, "module", "inventory"}
      BY <1>1, <2>5, <2>6, <2>10 DEF Loops
    <3>2. /\ holder = "module" => b = 0 /\ r <= cb
          /\ holder = "inventory" => c = 0 /\ r <= cc
          /\ holder = Nobody => r = 0
      BY <2>5, <2>6, <2>7 DEF Nobody
    <3> HIDE DEF ca, cb, cc
    <3> QED
      BY <2>1, <2>2, <2>7, <2>8, <2>9, <3>1, <3>2
  <2>11. CASE l = "module"
    <3>1. b = 0 /\ Cost(Length(l)) = cb /\ holder \in {Nobody, "rack", "inventory"}
      BY <1>1, <2>5, <2>6, <2>11 DEF Loops
    <3>2. /\ holder = "rack" => a = 0 /\ r <= ca
          /\ holder = "inventory" => c = 0 /\ r <= cc
          /\ holder = Nobody => r = 0
      BY <2>5, <2>6, <2>7 DEF Nobody
    <3> HIDE DEF ca, cb, cc
    <3> QED
      BY <2>1, <2>2, <2>7, <2>8, <2>9, <3>1, <3>2
  <2>12. CASE l = "inventory"
    <3>1. c = 0 /\ Cost(Length(l)) = cc /\ holder \in {Nobody, "rack", "module"}
      BY <1>1, <2>5, <2>6, <2>12 DEF Loops
    <3>2. /\ holder = "rack" => a = 0 /\ r <= ca
          /\ holder = "module" => b = 0 /\ r <= cb
          /\ holder = Nobody => r = 0
      BY <2>5, <2>6, <2>7 DEF Nobody
    <3> HIDE DEF ca, cb, cc
    <3> QED
      BY <2>1, <2>2, <2>7, <2>8, <2>9, <3>1, <3>2
  <2> QED
    BY <2>10, <2>11, <2>12 DEF Loops
<1>10. \A m \in Loops : UntilPublished(m)' <= UntilPublished(m)
  BY <1>8, <1>9
<1>11. \A m \in Loops : status[m] # "none" => status'[m] # "none"
  BY <1>1, <1>2
<1>12. AgeOK'
  BY <1>1, <1>4, <1>6, <1>10, <1>11, AgeKept
<1> QED
  BY <1>4, <1>5, <1>6, <1>12 DEF FreshnessInv

LEMMA AcquiresStep ==
  ASSUME FreshnessInv, NEW h \in Loops, h = Head(queue), Acquires
  PROVE  FreshnessInv'
<1> DEFINE empty == Commands(h) = <<>>
<1>1. /\ TypesOK /\ LockOK /\ CycleOK /\ AgeOK
      /\ holder = Nobody /\ queue # <<>> /\ queue' = Tail(queue) /\ queue \in Seq(Loops)
      /\ elapsed' = elapsed /\ taken' = taken /\ failed' = failed /\ mapped' = mapped
      /\ store' = store /\ success' = success /\ faults' = faults
      /\ elapsed = 0 /\ DOMAIN taken = {} /\ failed = {} /\ todo = <<>>
      /\ mapped \subseteq Positions
  BY DEF FreshnessInv, Acquires, TypesOK, TypeOK, CycleOK
<1>2. \/ /\ empty
         /\ status' = [status EXCEPT ![h] = "sleeping"]
         /\ timer' = [timer EXCEPT ![h] = Interval[h]]
         /\ holder' = holder /\ todo' = todo
      \/ /\ ~empty
         /\ status' = [status EXCEPT ![h] = "running"]
         /\ holder' = h /\ todo' = Commands(h)
         /\ timer' = timer
  BY DEF Acquires
<1>3. /\ queue' \in Seq(Loops)
      /\ \E i \in DOMAIN queue : queue[i] = h
      /\ \A k : (\E i \in DOMAIN queue' : queue'[i] = k)
                  <=> (k # h /\ \E i \in DOMAIN queue : queue[i] = k)
      /\ \A i, j \in DOMAIN queue' : queue'[i] = queue'[j] => i = j
      /\ \A m : (\E i \in DOMAIN queue' : queue'[i] = m) => Before(h, m)
      /\ \A k, m : Before(k, m)' => k # h
      /\ \A k, m : Before(k, m)' => Before(k, m)
  BY <1>1, QueueShrinks
<1>4. status[h] = "waiting" /\ \A l \in Loops : status[l] \notin {"none", "running"}
  <2>1. status[h] = "waiting"
    BY <1>1, <1>3 DEF LockOK
  <2> QED
    BY <1>1, <1>3, <2>1 DEF LockOK, Nobody, Loops
<1>5. /\ Commands(h) \in Seq(Command)
      /\ \A new : TodoOK(h, Commands(h), new)
      /\ \A k \in Keys(h, mapped) : \E i \in DOMAIN Commands(h) : Key(Commands(h)[i]) = k
      /\ empty => Keys(h, mapped) = {}
  BY <1>1, <1>3, CommandsOK
<1>6. Left(Commands(h)) \in Nat /\ Left(Commands(h)) <= Length(h)
  BY <1>5, LeftOfCommands DEF TodoOK
<1>7. Interval[h] \in Nat
  BY <1>3, IntervalAssumption
<1>8. TypesOK'
  BY <1>1, <1>2, <1>3, <1>5, <1>7 DEF TypesOK, TypeOK, Command
<1>9. \A k \in Loops : status'[k] = IF k # h THEN status[k]
                                    ELSE IF empty THEN "sleeping" ELSE "running"
  BY <1>1, <1>2 DEF TypesOK, TypeOK
<1>10. \A k \in Loops : k # h => timer'[k] = timer[k]
  BY <1>1, <1>2 DEF TypesOK, TypeOK
<1>11. LockOK'
  <2>1. h # Nobody /\ "inventory" # Nobody
    BY <1>3 DEF Loops, Nobody
  <2>2. \A k \in Loops : status'[k] # "none" /\ (status'[k] = "running" <=> holder' = k)
    BY <1>1, <1>2, <1>3, <1>4, <1>9, <2>1 DEF Loops, Nobody
  <2>3. \A k \in Loops : status'[k] = "waiting" <=> \E i \in DOMAIN queue' : queue'[i] = k
    <3> TAKE k \in Loops
    <3>1. CASE k = h
      BY <1>3, <1>9, <3>1
    <3>2. CASE k # h
      <4>1. status'[k] = status[k]
        BY <1>9, <3>2
      <4>2. (\E i \in DOMAIN queue' : queue'[i] = k) <=> (\E i \in DOMAIN queue : queue[i] = k)
        BY <1>3, <3>2
      <4> QED
        BY <1>1, <4>1, <4>2 DEF LockOK
    <3> QED
      BY <3>1, <3>2
  <2> QED
    BY <1>3, <2>2, <2>3 DEF LockOK
<1>12. CycleOK'
  <2>1. CASE empty
    BY <1>1, <1>2, <2>1 DEF CycleOK
  <2>2. CASE ~empty
    <3>1. holder' = h /\ todo' = Commands(h) /\ todo' # <<>> /\ h # Nobody
      BY <1>2, <1>3, <2>2 DEF Loops, Nobody
    <3>2. TodoOK(h, Commands(h), taken)
      BY <1>5
    <3>3. TodoOK(holder, todo, taken)'
      BY <1>1, <3>1, <3>2 DEF TodoOK
    <3>4. Covered(holder, todo, taken, failed)'
      BY <1>1, <1>5, <3>1 DEF Covered
    <3>5. TakenOK(holder, todo, taken)'
      BY <1>1, <3>1 DEF TakenOK
    <3> QED
      BY <3>1, <3>3, <3>4, <3>5 DEF CycleOK
  <2> QED
    BY <2>1, <2>2
<1>13. /\ empty => Remaining' = 0
       /\ ~empty => Remaining' = Cost(Left(Commands(h)))
       /\ Cost(Left(Commands(h))) \in Nat /\ Cost(Left(Commands(h))) <= Cost(Length(h))
       /\ Remaining = 0 /\ Cost(Length(h)) \in Nat
  <2>1. Cost(Left(Commands(h))) \in Nat /\ Cost(Left(Commands(h))) <= Cost(Length(h))
        /\ Cost(Length(h)) \in Nat
    BY <1>3, <1>6, CostNat, CostMonotonic, SizesAreNat
  <2> QED
    BY <1>1, <1>2, <1>3, <2>1 DEF Remaining, Nobody, Loops
<1>14. ASSUME NEW m \in Loops, m # h
       PROVE  UntilPublished(m)' <= UntilPublished(m)
  <2>1. status'[m] = status[m] /\ timer'[m] = timer[m] /\ timer[m] \in Nat
    BY <1>1, <1>9, <1>10, <1>14 DEF TypesOK, TypeOK
  <2>2. CASE status[m] = "sleeping"
    <3>1. UntilPublished(m)' = UntilPublished(m) /\ UntilPublished(m) \in Nat
      BY <2>1, <2>2, LoopCosts DEF UntilPublished
    <3> QED
      BY <3>1
  <2>3. CASE status[m] = "waiting"
    <3>1. \A k \in Loops : Ahead(k, m)' <= Ahead(k, m)
      BY <1>3, LoopCosts DEF Ahead
    <3>2. Ahead(h, m) = Cost(Length(h)) /\ Ahead(h, m)' = 0
      <4>1. Before(h, m)
        BY <1>1, <1>3, <1>14, <2>3 DEF LockOK
      <4>2. ~Before(h, m)'
        BY <1>3
      <4> QED
        BY <4>1, <4>2 DEF Ahead
    <3>3. Remaining' + Ahead(h, m)' <= Ahead(h, m) /\ Remaining' \in Nat
      BY <1>13, <3>2
    <3>4. \A k \in Loops : Ahead(k, m)' \in Nat /\ Ahead(k, m) \in Nat
      BY LoopCosts DEF Ahead
    <3>5. Remaining' + Ahead("rack", m)' + Ahead("module", m)' + Ahead("inventory", m)'
            <= Ahead("rack", m) + Ahead("module", m) + Ahead("inventory", m)
      <4>1. CASE h = "rack"
        BY <3>1, <3>3, <3>4, <4>1 DEF Loops
      <4>2. CASE h = "module"
        BY <3>1, <3>3, <3>4, <4>2 DEF Loops
      <4>3. CASE h = "inventory"
        BY <3>1, <3>3, <3>4, <4>3 DEF Loops
      <4> QED
        BY <4>1, <4>2, <4>3 DEF Loops
    <3>6. /\ UntilPublished(m) = Remaining + Ahead("rack", m) + Ahead("module", m)
                                   + Ahead("inventory", m) + Cost(Length(m))
          /\ UntilPublished(m)' = Remaining' + Ahead("rack", m)' + Ahead("module", m)'
                                    + Ahead("inventory", m)' + Cost(Length(m))
      BY <2>1, <2>3 DEF UntilPublished
    <3>7. /\ Ahead("rack", m)' \in Nat /\ Ahead("module", m)' \in Nat
          /\ Ahead("inventory", m)' \in Nat
          /\ Ahead("rack", m) \in Nat /\ Ahead("module", m) \in Nat
          /\ Ahead("inventory", m) \in Nat
          /\ Cost(Length(m)) \in Nat
      BY <3>4, LoopCosts DEF Loops
    <3>8. /\ UntilPublished(m) = Ahead("rack", m) + Ahead("module", m)
                                   + Ahead("inventory", m) + Cost(Length(m))
      BY <1>13, <3>6, <3>7
    <3> DEFINE a1 == Ahead("rack", m)'
               b1 == Ahead("module", m)'
               c1 == Ahead("inventory", m)'
               a0 == Ahead("rack", m)
               b0 == Ahead("module", m)
               c0 == Ahead("inventory", m)
               r1 == Remaining'
               u1 == UntilPublished(m)'
    <3>9. /\ r1 \in Nat /\ a1 \in Nat /\ b1 \in Nat /\ c1 \in Nat
          /\ a0 \in Nat /\ b0 \in Nat /\ c0 \in Nat
          /\ r1 + a1 + b1 + c1 <= a0 + b0 + c0
          /\ u1 = r1 + a1 + b1 + c1 + Cost(Length(m))
          /\ UntilPublished(m) = a0 + b0 + c0 + Cost(Length(m))
      BY <3>3, <3>5, <3>6, <3>7, <3>8
    <3> HIDE DEF a1, b1, c1, a0, b0, c0, r1, u1
    <3>10. u1 <= UntilPublished(m)
      BY <3>7, <3>9
    <3> QED
      BY <3>10 DEF u1
  <2> QED
    BY <1>1, <1>4, <2>2, <2>3 DEF TypesOK, TypeOK
<1>15. Keys(h, mapped) = {} \/ UntilPublished(h)' <= UntilPublished(h)
  <2> SUFFICES ASSUME ~empty PROVE UntilPublished(h)' <= UntilPublished(h)
    BY <1>5
  <2>1. UntilPublished(h)' = Cost(Left(Commands(h)))
    BY <1>9, <1>13 DEF UntilPublished
  <2>2. UntilPublished(h) = Ahead("rack", h) + Ahead("module", h) + Ahead("inventory", h)
                              + Cost(Length(h))
    BY <1>4, <1>13, AheadBounds DEF UntilPublished, Loops
  <2>3. Ahead("rack", h) \in Nat /\ Ahead("module", h) \in Nat /\ Ahead("inventory", h) \in Nat
    BY AheadBounds DEF Loops
  <2> QED
    BY <1>13, <2>1, <2>2, <2>3
<1>16. \A m \in Loops : Keys(m, mapped) = {} \/ UntilPublished(m)' <= UntilPublished(m)
  BY <1>14, <1>15
<1>17. \A m \in Loops : status[m] # "none" => status'[m] # "none"
  BY <1>9
<1>18. AgeOK'
  BY <1>1, <1>8, <1>12, <1>16, <1>17, AgeKept
<1> QED
  BY <1>8, <1>11, <1>12, <1>18 DEF FreshnessInv

\* Ages grow by one at most, and in their order.
LEMMA OlderAges ==
  /\ Older(Never) = Never
  /\ \A a \in Nat : Older(a) \in Nat /\ Older(a) <= a + 1 /\ a <= Older(a)
  /\ \A a, b \in Nat : a <= b => Older(a) <= Older(b)
<1>1. \A a \in Nat : a # Never /\ Older(a) = IF a = MaxAge THEN a ELSE a + 1
  BY DEF Older, Never
<1> QED
  BY <1>1 DEF Older

LEMMA TickStep ==
  ASSUME FreshnessInv, Tick
  PROVE  FreshnessInv'
<1>1. /\ TypesOK /\ LockOK /\ CycleOK /\ AgeOK
      /\ holder # Nobody => elapsed < MaxCommand
      /\ holder = Nobody => queue = <<>>
      /\ \A l \in Loops : status[l] = "sleeping" => timer[l] > 0
      /\ timer' = [l \in Loops |-> IF status[l] = "sleeping" THEN timer[l] - 1 ELSE timer[l]]
      /\ elapsed' = IF holder # Nobody THEN elapsed + 1 ELSE 0
      /\ taken' = [k \in DOMAIN taken |-> Older(taken[k])]
      /\ store' = [k \in AllKeys |-> [store[k] EXCEPT !.age = Older(@)]]
      /\ success' = Older(success)
      /\ status' = status /\ queue' = queue /\ holder' = holder /\ todo' = todo
      /\ failed' = failed /\ mapped' = mapped /\ faults' = faults
  BY DEF FreshnessInv, Tick
<1>2. /\ elapsed \in Nat /\ elapsed <= MaxCommand /\ MaxCommand \in Nat
      /\ timer \in [Loops -> Nat]
      /\ store \in [AllKeys -> [age : Nat \cup {Never}, valid : BOOLEAN]]
      /\ success \in Nat \cup {Never}
  BY <1>1, SizesAreNat DEF TypesOK, TypeOK
<1>3. \A k \in AllKeys : /\ store[k].age \in Nat \cup {Never}
                         /\ store'[k].age = Older(store[k].age)
                         /\ store'[k].valid = store[k].valid
                         /\ store[k].valid \in BOOLEAN
  BY <1>1, <1>2
<1>4. TypesOK'
  <2>1. timer' \in [Loops -> Nat]
    BY <1>1, <1>2
  <2>2. elapsed' \in 0..MaxCommand
    BY <1>1, <1>2
  <2>3. \A k \in AllKeys : Older(store[k].age) \in Nat \cup {Never}
    BY <1>3, OlderAges
  <2>4. store' \in [AllKeys -> [age : Nat \cup {Never}, valid : BOOLEAN]]
    <3>1. ASSUME NEW k \in AllKeys
          PROVE  [store[k] EXCEPT !.age = Older(@)] \in [age : Nat \cup {Never}, valid : BOOLEAN]
      BY <1>2, <2>3
    <3> QED
      BY <1>1, <3>1
  <2>5. success' \in Nat \cup {Never}
    BY <1>1, <1>2, OlderAges
  <2>6. DOMAIN taken' = DOMAIN taken
    BY <1>1
  <2> QED
    BY <1>1, <1>3, <2>1, <2>2, <2>4, <2>5, <2>6 DEF TypesOK, TypeOK
<1>5. LockOK'
  BY <1>1 DEF LockOK
<1>6. CycleOK'
  <2>1. CASE holder = Nobody
    BY <1>1, <2>1 DEF CycleOK
  <2>2. CASE holder # Nobody
    <3>1. todo # <<>> /\ TodoOK(holder, todo, taken) /\ Covered(holder, todo, taken, failed)
          /\ TakenOK(holder, todo, taken)
      BY <1>1, <2>2 DEF CycleOK
    <3>2. DOMAIN taken' = DOMAIN taken /\ \A k \in DOMAIN taken : taken'[k] = Older(taken[k])
      BY <1>1
    <3>3. TodoOK(holder, todo, taken)' /\ Covered(holder, todo, taken, failed)'
      BY <1>1, <3>1, <3>2 DEF TodoOK, Covered
    <3>4. TakenOK(holder, todo, taken)'
      <4> SUFFICES ASSUME NEW k \in DOMAIN taken
                   PROVE  /\ k \in AllKeys /\ LoopOf(k) = holder
                          /\ taken'[k] \in Nat
                          /\ taken'[k] + Cost(Left(todo))
                               <= Cost(Length(holder)) - MaxCommand + elapsed'
                          /\ success' # Never => taken'[k] <= success'
        BY <1>1, <3>2 DEF TakenOK
      <4>1. /\ k \in AllKeys /\ LoopOf(k) = holder
            /\ taken[k] \in Nat
            /\ taken[k] + Cost(Left(todo)) <= Cost(Length(holder)) - MaxCommand + elapsed
            /\ success # Never => taken[k] <= success
        BY <3>1 DEF TakenOK
      <4>2. taken'[k] \in Nat /\ taken'[k] <= taken[k] + 1
        BY <3>2, <4>1, OlderAges
      <4>3. success' # Never => taken'[k] <= success'
        BY <1>1, <1>2, <3>2, <4>1, OlderAges
      <4>4. Cost(Left(todo)) \in Nat /\ Cost(Length(holder)) \in Nat
        BY <1>1, <2>2, RemainingBounds, CostNat, LoopCosts
      <4>5. elapsed' = elapsed + 1
        BY <1>1, <2>2
      <4> QED
        BY <1>2, <4>1, <4>2, <4>3, <4>4, <4>5
    <3> QED
      BY <1>1, <2>2, <3>1, <3>3, <3>4 DEF CycleOK
  <2> QED
    BY <2>1, <2>2
<1>7. AgeOK'
  <2> SUFFICES ASSUME NEW k \in AllKeys, store[k].valid
               PROVE  /\ \E l \in Loops : status[l] # "none"
                      /\ k \in Keys(LoopOf(k), mapped)
                      /\ store'[k].age \in Nat
                      /\ store'[k].age + UntilPublished(LoopOf(k))'
                           <= Interval[LoopOf(k)] + Lag(LoopOf(k))
    BY <1>1, <1>3 DEF AgeOK
  <2>1. PICK l \in Loops : l = LoopOf(k)
    BY KeysOfLoops
  <2>2. /\ \E m \in Loops : status[m] # "none"
        /\ k \in Keys(l, mapped)
        /\ store[k].age \in Nat
        /\ store[k].age + UntilPublished(l) <= Interval[l] + Lag(l)
    BY <1>1, <2>1 DEF AgeOK
  <2>3. store'[k].age \in Nat /\ store'[k].age <= store[k].age + 1
    BY <1>3, <2>2, OlderAges
  <2>4. UntilPublished(l)' = UntilPublished(l) - 1
    <3>1. Remaining \in Nat /\ (holder # Nobody => Remaining' = Remaining - 1)
      <4>1. Remaining \in Nat
        BY <1>1, RemainingBounds
      <4>2. ASSUME holder # Nobody PROVE Remaining' = Remaining - 1
        <5>1. Cost(Left(todo)) \in Nat
          BY <1>1, <4>2, RemainingBounds, CostNat
        <5>2. Remaining = Cost(Left(todo)) - elapsed
              /\ Remaining' = Cost(Left(todo)) - (elapsed + 1)
          BY <1>1, <4>2 DEF Remaining
        <5> QED
          BY <1>2, <5>1, <5>2
      <4> QED
        BY <4>1, <4>2
    <3>2. \A m : Ahead(m, l)' = Ahead(m, l)
      BY <1>1 DEF Ahead, Before
    <3>3. status[l] # "none"
      BY <1>1, <2>2 DEF LockOK
    <3>4. CASE status[l] = "sleeping"
      <4>1. UntilPublished(l) = timer[l] + Round /\ UntilPublished(l)' = timer[l] - 1 + Round
        BY <1>1, <3>4 DEF UntilPublished
      <4> QED
        BY <1>2, <4>1, LoopCosts
    <3>5. CASE status[l] = "waiting"
      <4>1. holder # Nobody
        BY <1>1, <3>5 DEF LockOK
      <4> DEFINE a == Ahead("rack", l)
                 b == Ahead("module", l)
                 c == Ahead("inventory", l)
      <4>2. UntilPublished(l) = Remaining + a + b + c + Cost(Length(l))
            /\ UntilPublished(l)' = Remaining' + a + b + c + Cost(Length(l))
        BY <1>1, <3>2, <3>5 DEF UntilPublished
      <4>3. a \in Nat /\ b \in Nat /\ c \in Nat /\ Cost(Length(l)) \in Nat
        BY AheadBounds, LoopCosts DEF Loops
      <4> HIDE DEF a, b, c
      <4> QED
        BY <3>1, <4>1, <4>2, <4>3
    <3>6. CASE status[l] = "running"
      <4>1. holder # Nobody
        BY <1>1, <2>1, <3>6 DEF LockOK, Loops, Nobody
      <4>2. UntilPublished(l) = Remaining /\ UntilPublished(l)' = Remaining'
        BY <1>1, <3>6 DEF UntilPublished
      <4> QED
        BY <3>1, <4>1, <4>2
    <3> QED
      BY <1>1, <3>3, <3>4, <3>5, <3>6 DEF TypesOK, TypeOK
  <2>5. UntilPublished(l) \in Nat /\ Interval[l] \in Nat /\ Lag(l) \in Int
    BY <1>1, UntilPublishedIsNat, IntervalAssumption, LagCost
  <2>6. store'[k].age + UntilPublished(l)' <= Interval[l] + Lag(l)
    BY <2>2, <2>3, <2>4, <2>5
  <2> QED
    BY <2>1, <2>2, <2>3, <2>6
<1> QED
  BY <1>4, <1>5, <1>6, <1>7 DEF FreshnessInv

\* last_success_at is the stamp of a value just read, or stays.
LEMMA SuccessAgeOK ==
  ASSUME NEW l, NEW new, NEW bad, \A k \in DOMAIN new : new[k] \in Nat
  PROVE  \/ SuccessAge(l, new, bad) = success
         \/ \E k \in DOMAIN new : SuccessAge(l, new, bad) = new[k]
<1> DEFINE S == {new[k] : k \in DOMAIN new \ Keys("rack", Positions)}
<1>1. CASE l = "rack" /\ <<"rack", 0>> \in DOMAIN new
  BY <1>1 DEF SuccessAge
<1>2. CASE l # "rack" /\ S # {}
  <2>1. S \subseteq Nat
    OBVIOUS
  <2>2. PICK a \in S : \A b \in S : <<b, a>> \notin OpToRel(<, Nat)
    BY <1>2, <2>1, WFMin, NatLessThanWellFounded
  <2>3. \A b \in S : ~(b < a)
    BY <2>1, <2>2, Zenon DEF OpToRel
  <2>4. \A b \in S : a <= b
    BY <2>1, <2>3
  <2>5. SuccessAge(l, new, bad) = CHOOSE x \in S : \A b \in S : x <= b
    BY <1>2 DEF SuccessAge
  <2>6. SuccessAge(l, new, bad) \in S
    BY <2>4, <2>5
  <2> QED
    BY <2>6
<1>3. CASE ~(l = "rack" /\ <<"rack", 0>> \in DOMAIN new) /\ ~(l # "rack" /\ S # {})
  BY <1>3 DEF SuccessAge
<1> QED
  BY <1>1, <1>2, <1>3

\* The outstanding command has ended: the cycle goes on with the rest, or
\* publishes what it has read and has failed to read.
LEMMA GoesStep ==
  ASSUME FreshnessInv, holder # Nobody,
         NEW new, NEW bad, NEW rest \in Seq(Command), NEW positions \in SUBSET Positions,
         Left(rest) + 1 <= Left(todo),
         rest # <<>> => TodoOK(holder, rest, new),
         Covered(holder, rest, new, bad),
         \A k \in DOMAIN new :
           /\ k \in AllKeys /\ LoopOf(k) = holder
           /\ new[k] \in Nat
           /\ new[k] + Cost(Left(rest)) <= Cost(Length(holder)) - MaxCommand
           /\ success # Never => new[k] <= success,
         bad \subseteq AllKeys \cup {<<"info", p>> : p \in Positions},
         holder # "inventory" => positions = mapped,
         faults' \in 0..MaxFaults,
         Goes(new, bad, rest, positions)
  PROVE  /\ FreshnessInv'
         /\ success # Never => success' # Never /\ success' <= success
<1>1. /\ TypesOK /\ LockOK /\ CycleOK /\ AgeOK /\ holder \in Loops
      /\ success \in Nat \cup {Never} /\ MaxCommand \in Nat
      /\ mapped \subseteq Positions /\ IntervalAssumption
      /\ elapsed \in Nat /\ elapsed <= MaxCommand
  <2>1. TypesOK /\ LockOK /\ CycleOK /\ AgeOK
    BY DEF FreshnessInv
  <2> QED
    BY <2>1, SizesAreNat, IntervalAssumption DEF TypesOK, TypeOK
<1>2. /\ Left(rest) \in Nat /\ Cost(Left(rest)) \in Nat
      /\ Cost(Length(holder)) \in Nat
  BY <1>1, LeftOfCommands, CostNat, LoopCosts
<1>3. CASE rest # <<>>
  <2>1. /\ todo' = rest /\ elapsed' = 0 /\ taken' = new /\ failed' = bad
        /\ status' = status /\ timer' = timer /\ queue' = queue /\ holder' = holder
        /\ mapped' = mapped /\ store' = store /\ success' = success
    BY <1>3 DEF Goes, loopVars
  <2>2. TypesOK'
    BY <1>1, <2>1 DEF TypesOK, TypeOK, Command
  <2>3. LockOK'
    BY <1>1, <2>1 DEF LockOK
  <2>4. CycleOK'
    <3>1. TakenOK(holder, todo, taken)'
      BY <1>1, <1>2, <2>1 DEF TakenOK
    <3>2. TodoOK(holder, todo, taken)' /\ Covered(holder, todo, taken, failed)'
      BY <1>3, <2>1 DEF TodoOK, Covered
    <3> QED
      BY <1>3, <2>1, <3>1, <3>2 DEF CycleOK
  <2>5. Remaining' <= Remaining /\ Remaining' \in Nat /\ Remaining \in Nat
    <3>1. Left(todo) \in Nat /\ Remaining = Cost(Left(todo)) - elapsed /\ Remaining \in Nat
      BY <1>1, RemainingBounds
    <3>2. Remaining' = Cost(Left(rest))
      BY <1>2, <2>1 DEF Remaining
    <3>3. Cost(Left(rest) + 1) <= Cost(Left(todo)) /\ Cost(Left(todo)) \in Nat
      BY <1>2, <3>1, CostMonotonic, CostNat
    <3>4. Cost(Left(rest) + 1) = Cost(Left(rest)) + MaxCommand
      BY <1>2, CostNat
    <3> QED
      BY <1>1, <1>2, <3>1, <3>2, <3>3, <3>4
  <2>6. ASSUME NEW l \in Loops PROVE UntilPublished(l)' <= UntilPublished(l)
    <3> DEFINE a == Ahead("rack", l)
               b == Ahead("module", l)
               c == Ahead("inventory", l)
    <3>1. a' = a /\ b' = b /\ c' = c
      BY <2>1 DEF Ahead, Before
    <3>2. a \in Nat /\ b \in Nat /\ c \in Nat /\ Cost(Length(l)) \in Nat
      BY AheadBounds, LoopCosts DEF Loops
    <3>3. CASE status[l] = "sleeping"
      <4>1. UntilPublished(l)' = UntilPublished(l)
        BY <2>1, <3>3, LoopCosts DEF UntilPublished
      <4> QED
        BY <1>1, <4>1, UntilPublishedIsNat
    <3>4. CASE status[l] = "waiting"
      <4>1. UntilPublished(l) = Remaining + a + b + c + Cost(Length(l))
            /\ UntilPublished(l)' = Remaining' + a + b + c + Cost(Length(l))
        BY <2>1, <3>1, <3>4 DEF UntilPublished
      <4> HIDE DEF a, b, c
      <4> QED
        BY <2>5, <3>2, <4>1
    <3>5. CASE status[l] \notin {"sleeping", "waiting"}
      BY <2>1, <2>5, <3>5 DEF UntilPublished
    <3> QED
      BY <3>3, <3>4, <3>5
  <2>7. AgeOK'
    BY <1>1, <2>1, <2>2, <2>4, <2>6, AgeKept
  <2> QED
    BY <1>1, <2>1, <2>2, <2>3, <2>4, <2>7 DEF FreshnessInv
<1>4. CASE rest = <<>>
  <2>1. /\ Published(holder, new, bad, positions)
        /\ holder' = Nobody /\ todo' = <<>> /\ elapsed' = 0
        /\ taken' = [k \in {} |-> 0] /\ failed' = {}
    BY <1>4 DEF Goes, Released
  <2>2. \/ /\ status[holder] = "none"
           /\ status' = [k \in Loops |-> "waiting"]
           /\ queue' = <<"rack", "module", "inventory">>
           /\ timer' = timer
        \/ /\ status[holder] # "none"
           /\ status' = [status EXCEPT ![holder] = "sleeping"]
           /\ timer' = [timer EXCEPT ![holder] = Interval[holder]]
           /\ queue' = queue
    BY <1>4 DEF Goes, Released
  <2>3. /\ store' = [k \in AllKeys |->
                 IF k[1] \in {"cells", "detail"} /\ k[2] \notin positions
                   THEN Empty ELSE NewValue(k, new, bad)]
        /\ success' = SuccessAge(holder, new, bad)
        /\ mapped' = positions
    BY <2>1 DEF Published
  <2>4. \/ success' = success
        \/ \E k \in DOMAIN new : success' = new[k]
    BY <2>3, SuccessAgeOK
  <2>5. success' \in Nat \cup {Never}
        /\ (success # Never => success' # Never /\ success' <= success)
    BY <1>1, <2>4 DEF Never
  <2>6. store' \in [AllKeys -> [age : Nat \cup {Never}, valid : BOOLEAN]]
    <3>1. ASSUME NEW k \in AllKeys
          PROVE  NewValue(k, new, bad) \in [age : Nat \cup {Never}, valid : BOOLEAN]
      <4>1. store[k] \in [age : Nat \cup {Never}, valid : BOOLEAN]
        BY <1>1 DEF TypesOK
      <4>2. CASE k \in DOMAIN new
        <5>1. (k \notin bad) \in BOOLEAN /\ new[k] \in Nat
          BY <4>2
        <5> QED
          BY <4>2, <5>1 DEF NewValue
      <4>3. CASE k \notin DOMAIN new
        BY <4>1, <4>3 DEF NewValue
      <4> QED
        BY <4>2, <4>3
    <3>2. Empty \in [age : Nat \cup {Never}, valid : BOOLEAN]
      BY DEF Empty
    <3> QED
      BY <2>3, <3>1, <3>2
  <2>7. TypesOK'
    <3>1. status' \in [Loops -> {"none", "sleeping", "waiting", "running"}]
          /\ timer' \in [Loops -> Nat] /\ queue' \in Seq(Loops)
      <4>1. CASE status[holder] = "none"
        <5>1. <<"rack", "module", "inventory">> \in Seq(Loops)
          BY DEF Loops
        <5> QED
          BY <1>1, <2>2, <4>1, <5>1 DEF TypesOK, TypeOK
      <4>2. CASE status[holder] # "none"
        <5>1. Interval[holder] \in Nat
          BY <1>1 DEF IntervalAssumption
        <5> QED
          BY <1>1, <2>2, <4>2, <5>1 DEF TypesOK, TypeOK
      <4> QED
        BY <4>1, <4>2
    <3>2. \A k \in AllKeys : store'[k].valid \in BOOLEAN
      BY <2>6
    <3>3. DOMAIN taken' = {}
      BY <2>1
    <3> QED
      BY <1>1, <2>1, <2>3, <2>5, <2>6, <3>1, <3>2, <3>3 DEF TypesOK, TypeOK
  <2>8. CycleOK'
    BY <2>1, <2>7 DEF CycleOK, TypesOK, TypeOK
  <2>9. Remaining' = 0
    BY <2>1 DEF Remaining
  <2>10. \A k \in DOMAIN new : new[k] <= Cost(Length(holder)) - MaxCommand
    <3>1. Cost(Left(rest)) = 0
      BY <1>4, CostNat DEF Left
    <3> QED
      BY <1>1, <1>2, <3>1
  <2>11. CASE status[holder] = "none"
    <3>1. /\ status' = [k \in Loops |-> "waiting"] /\ queue' = <<"rack", "module", "inventory">>
          /\ \A l \in Loops : status[l] = "none" /\ status'[l] = "waiting"
          /\ holder = "inventory"
      BY <1>1, <2>2, <2>11 DEF LockOK
    <3>2. /\ DOMAIN queue' = 1..3 /\ queue'[1] = "rack" /\ queue'[2] = "module"
          /\ queue'[3] = "inventory"
      BY <3>1
    <3>3. \A i, j \in DOMAIN queue' : queue'[i] = queue'[j] => i = j
      BY <3>2
    <3>4. \A l \in Loops : \E i \in DOMAIN queue' : queue'[i] = l
      BY <3>2 DEF Loops
    <3>5. LockOK'
      <4>1. \A l \in Loops : status'[l] = "waiting" /\ holder' # l
        BY <2>1, <3>1 DEF Loops, Nobody
      <4> QED
        BY <3>3, <3>4, <4>1 DEF LockOK
    <3>6. UntilPublished("inventory")' <= Round /\ UntilPublished("inventory")' \in Nat
      <4> DEFINE a == Ahead("rack", "inventory")'
                 b == Ahead("module", "inventory")'
                 c == Ahead("inventory", "inventory")'
                 u == UntilPublished("inventory")'
      <4>1. c = 0
        <5>1. ~Before("inventory", "inventory")'
          BY <3>2 DEF Before
        <5> QED
          BY <5>1 DEF Ahead
      <4>2. /\ a \in Nat /\ a <= Cost(Length("rack"))
            /\ b \in Nat /\ b <= Cost(Length("module"))
        BY LoopCosts DEF Ahead
      <4>3. u = a + b + c + Cost(Length("inventory"))
        <5>1. status'["inventory"] = "waiting"
          BY <3>1 DEF Loops
        <5>2. u = Remaining' + a + b + c + Cost(Length("inventory"))
          BY <5>1 DEF UntilPublished
        <5>3. a \in Nat /\ b \in Nat /\ c \in Nat /\ Cost(Length("inventory")) \in Nat
          BY <4>1, <4>2, LoopCosts
        <5> HIDE DEF a, b, c, u
        <5> QED
          BY <2>9, <5>2, <5>3
      <4> HIDE DEF a, b, c, u
      <4>4. u <= Round /\ u \in Nat
        BY <4>1, <4>2, <4>3, LoopCosts
      <4> QED
        BY <4>4 DEF u
    <3>7. \A k \in AllKeys : ~store[k].valid
      BY <1>1, <3>1 DEF AgeOK
    <3>8. AgeOK'
      <4> SUFFICES ASSUME NEW k \in AllKeys, store'[k].valid
                   PROVE  /\ \E l \in Loops : status'[l] # "none"
                          /\ k \in Keys(LoopOf(k), positions)
                          /\ store'[k].age \in Nat
                          /\ store'[k].age + UntilPublished(LoopOf(k))'
                               <= Interval[LoopOf(k)] + Lag(LoopOf(k))
        BY <2>3 DEF AgeOK
      <4>1. /\ ~(k[1] \in {"cells", "detail"} /\ k[2] \notin positions)
            /\ store'[k] = NewValue(k, new, bad)
        BY <2>3 DEF Empty
      <4>2. k \in DOMAIN new
        BY <3>7, <4>1, <2>6 DEF NewValue, TypesOK
      <4>3. store'[k].age = new[k] /\ new[k] \in Nat /\ LoopOf(k) = "inventory"
            /\ new[k] <= Cost(Length("inventory")) - MaxCommand
        BY <2>10, <3>1, <4>1, <4>2 DEF NewValue
      <4>4. k \in Keys(LoopOf(k), positions)
        BY <4>1, KeysOfLoops
      <4>5. "inventory" \in Loops /\ Interval["inventory"] \in Nat
        BY <1>1 DEF Loops, IntervalAssumption
      <4>6. Lag("inventory") = Cost(Length("inventory")) - MaxCommand + Round /\ Round \in Nat
            /\ Cost(Length("inventory")) \in Nat
        BY <4>5, LagCost
      <4>7. new[k] + UntilPublished("inventory")' <= Interval["inventory"] + Lag("inventory")
        BY <1>1, <3>6, <4>3, <4>5, <4>6
      <4>8. status'["inventory"] # "none"
        BY <3>1, <4>5
      <4> QED
        BY <4>3, <4>4, <4>5, <4>7, <4>8
    <3> QED
      BY <2>5, <2>7, <2>8, <3>5, <3>8 DEF FreshnessInv
  <2>12. CASE status[holder] # "none"
    <3>1. /\ queue' = queue
          /\ \A l \in Loops : status'[l] = IF l = holder THEN "sleeping" ELSE status[l]
          /\ \A l \in Loops : timer'[l] = IF l = holder THEN Interval[l] ELSE timer[l]
          /\ status[holder] = "running"
      BY <1>1, <2>2, <2>12 DEF LockOK, TypesOK, TypeOK
    <3>2. \A l \in Loops : status[l] # "none"
      BY <1>1, <2>12 DEF LockOK
    <3>3. LockOK'
      <4>1. \A l \in Loops : status'[l] \notin {"none", "running"} /\ holder' # l
        BY <1>1, <2>1, <3>1, <3>2 DEF LockOK, Loops, Nobody
      <4>2. \A l \in Loops : status'[l] = "waiting" <=> \E i \in DOMAIN queue' : queue'[i] = l
        <5> TAKE l \in Loops
        <5>1. status'[l] = "waiting" <=> status[l] = "waiting"
          BY <3>1
        <5> QED
          BY <1>1, <3>1, <5>1 DEF LockOK
      <4>3. \A i, j \in DOMAIN queue' : queue'[i] = queue'[j] => i = j
        BY <1>1, <3>1 DEF LockOK
      <4> QED
        BY <4>1, <4>2, <4>3 DEF LockOK
    <3>4. ASSUME NEW l \in Loops, l # holder
          PROVE  UntilPublished(l)' <= UntilPublished(l) /\ UntilPublished(l)' \in Nat
                 /\ UntilPublished(l) \in Nat
      <4> DEFINE a == Ahead("rack", l)
                 b == Ahead("module", l)
                 c == Ahead("inventory", l)
      <4>1. a' = a /\ b' = b /\ c' = c
        BY <3>1 DEF Ahead, Before
      <4>2. a \in Nat /\ b \in Nat /\ c \in Nat /\ Cost(Length(l)) \in Nat /\ Remaining \in Nat
        BY <1>1, AheadBounds, LoopCosts, RemainingBounds DEF Loops
      <4>3. status'[l] = status[l] /\ timer'[l] = timer[l] /\ status[l] # "running"
        BY <1>1, <3>1, <3>2, <3>4 DEF LockOK
      <4>4. UntilPublished(l) \in Nat
        BY <1>1, UntilPublishedIsNat
      <4>5. CASE status[l] = "sleeping"
        <5>1. UntilPublished(l)' = UntilPublished(l)
          BY <4>3, <4>5, LoopCosts DEF UntilPublished
        <5> QED
          BY <4>4, <5>1
      <4>6. CASE status[l] = "waiting"
        <5>1. UntilPublished(l) = Remaining + a + b + c + Cost(Length(l))
              /\ UntilPublished(l)' = Remaining' + a + b + c + Cost(Length(l))
          BY <4>1, <4>3, <4>6 DEF UntilPublished
        <5> HIDE DEF a, b, c
        <5> QED
          BY <2>9, <4>2, <5>1
      <4> QED
        BY <1>1, <3>2, <4>3, <4>5, <4>6 DEF TypesOK, TypeOK
    <3>6. \A l \in Loops : l = holder => UntilPublished(l)' = Interval[l] + Round
      BY <3>1 DEF UntilPublished
    <3>7. AgeOK'
      <4> SUFFICES ASSUME NEW k \in AllKeys, store'[k].valid
                   PROVE  /\ \E l \in Loops : status'[l] # "none"
                          /\ k \in Keys(LoopOf(k), positions)
                          /\ store'[k].age \in Nat
                          /\ store'[k].age + UntilPublished(LoopOf(k))'
                               <= Interval[LoopOf(k)] + Lag(LoopOf(k))
        BY <2>3 DEF AgeOK
      <4>1. PICK l \in Loops : l = LoopOf(k)
        BY KeysOfLoops
      <4>2. /\ ~(k[1] \in {"cells", "detail"} /\ k[2] \notin positions)
            /\ store'[k] = NewValue(k, new, bad)
        BY <2>3 DEF Empty
      <4>3. k \in Keys(LoopOf(k), positions)
        BY <4>2, KeysOfLoops
      <4>4. Interval[l] \in Nat
        BY <1>1 DEF IntervalAssumption
      <4>5. Lag(l) = Cost(Length(l)) - MaxCommand + Round /\ Round \in Nat
            /\ Cost(Length(l)) \in Nat /\ Lag(l) \in Int
        BY LagCost
      <4>6. \E m \in Loops : status'[m] # "none"
        BY <3>1, <3>2
      <4>7. CASE k \in DOMAIN new
        <5>1. store'[k].age = new[k] /\ new[k] \in Nat /\ l = holder
              /\ new[k] <= Cost(Length(l)) - MaxCommand
          BY <2>10, <4>1, <4>2, <4>7 DEF NewValue
        <5>2. new[k] + UntilPublished(l)' <= Interval[l] + Lag(l)
          BY <1>1, <3>6, <4>4, <4>5, <5>1
        <5> QED
          BY <4>1, <4>3, <4>6, <5>1, <5>2
      <4>8. CASE k \notin DOMAIN new
        <5>1. store[k] \in [age : Nat \cup {Never}, valid : BOOLEAN]
          BY <1>1 DEF TypesOK
        <5>2. k \notin bad /\ store'[k] = store[k]
          BY <4>2, <4>8, <5>1 DEF NewValue
        <5>3. /\ k \in Keys(l, mapped) /\ store[k].age \in Nat
              /\ store[k].age + UntilPublished(l) <= Interval[l] + Lag(l)
          BY <1>1, <4>1, <5>2 DEF AgeOK
        <5>4. l # holder
          BY <1>4, <4>8, <5>2, <5>3 DEF Covered
        <5>5. store'[k].age + UntilPublished(l)' <= Interval[l] + Lag(l)
          BY <3>4, <4>4, <4>5, <5>2, <5>3, <5>4
        <5> QED
          BY <4>1, <4>3, <4>6, <5>2, <5>3, <5>5
      <4> QED
        BY <4>7, <4>8
    <3> QED
      BY <2>5, <2>7, <2>8, <3>3, <3>7 DEF FreshnessInv
  <2> QED
    BY <2>11, <2>12
<1> QED
  BY <1>3, <1>4

\* The commands after the outstanding one, and the value it reads.
LEMMA TodoGoesOn ==
  ASSUME FreshnessInv, holder # Nobody, NEW command, command = Head(todo)
  PROVE  /\ todo # <<>> /\ todo \in Seq(Command)
         /\ command \in Command
         /\ Key(command) \in AllKeys /\ LoopOf(Key(command)) = holder
         /\ Tail(todo) \in Seq(Command)
         /\ command[1] = "pwr" => holder = "inventory" /\ Left(todo) = N + 1
         /\ command[1] # "pwr" =>
              /\ Left(Tail(todo)) + 1 <= Left(todo)
              /\ \A new : DOMAIN taken \subseteq DOMAIN new
                            => TodoOK(holder, Tail(todo), new)
         /\ command[1] = "info" => /\ holder = "inventory"
                                   /\ <<"inventory", 0>> \in DOMAIN taken
                                   /\ \E p \in Positions : command = <<"info", p>>
         /\ command[1] \notin {"pwr", "info"} => holder # "inventory"
         /\ \A i \in DOMAIN todo :
              todo[i] = command \/ \E j \in DOMAIN Tail(todo) : Tail(todo)[j] = todo[i]
<1>1. /\ todo # <<>> /\ todo \in Seq(Command) /\ holder \in Loops
      /\ TodoOK(holder, todo, taken)
  BY DEF FreshnessInv, TypesOK, TypeOK, CycleOK, Command
<1> DEFINE n == Len(todo)
           t == Tail(todo)
<1>2. n \in Nat /\ n >= 1 /\ DOMAIN todo = 1..n /\ 1 \in DOMAIN todo /\ todo[1] = command
  BY <1>1
<1>3. /\ t \in Seq(Command) /\ Len(t) = n - 1 /\ DOMAIN t = 1..(n - 1)
      /\ \A i \in 1..(n - 1) : t[i] = todo[i + 1]
  BY <1>1, HeadTailProperties, LenProperties
<1>4. command \in Command
  BY <1>1, HeadTailProperties
<1>5. Key(command) \in AllKeys /\ LoopOf(Key(command)) = holder
  BY <1>1, <1>2 DEF TodoOK
<1>6. command[1] = "pwr" => holder = "inventory" /\ Left(todo) = N + 1
  BY <1>1, <1>2, <1>5 DEF Left, Key, LoopOf
<1> HIDE DEF n, t
<1>7. \A i \in DOMAIN t : i + 1 \in DOMAIN todo /\ t[i] = todo[i + 1]
  BY <1>2, <1>3
<1>8. ASSUME command[1] # "pwr"
      PROVE  /\ Left(t) + 1 <= Left(todo)
             /\ \A new : DOMAIN taken \subseteq DOMAIN new => TodoOK(holder, t, new)
             /\ command[1] = "info" => <<"inventory", 0>> \in DOMAIN taken
  <2>1. Left(todo) = n
    BY <1>1, <1>2, <1>8 DEF Left, n
  <2>2. todo # <<<<"pwr", 0>>>>
    BY <1>2, <1>8
  <2>3. \A i \in DOMAIN t : t[i][1] # "pwr"
    <3>1. CASE holder = "inventory"
      BY <1>1, <1>7, <2>2, <3>1 DEF TodoOK
    <3>2. CASE holder # "inventory"
      <4>1. \A i \in DOMAIN todo : LoopOf(Key(todo[i])) # "inventory"
        BY <1>1, <3>2 DEF TodoOK
      <4>2. \A c : c[1] = "pwr" => LoopOf(Key(c)) = "inventory"
        BY DEF LoopOf, Key
      <4> QED
        BY <1>7, <4>1, <4>2
    <3> QED
      BY <3>1, <3>2
  <2>4. Left(t) = n - 1
    <3>1. CASE t = <<>>
      BY <1>3, <1>2, <3>1 DEF Left
    <3>2. CASE t # <<>>
      <4>1. 1 \in DOMAIN t
        BY <1>2, <1>3, <3>2
      <4> QED
        BY <1>3, <2>3, <3>2, <4>1 DEF Left
    <3> QED
      BY <3>1, <3>2
  <2>5. Left(t) <= Length(holder)
    BY <1>1, <1>2, <2>1, <2>4, SizesAreNat DEF TodoOK
  <2>6. \A i \in DOMAIN t : LoopOf(Key(t[i])) = holder /\ Key(t[i]) \in AllKeys
    BY <1>1, <1>7 DEF TodoOK
  <2>7. ASSUME holder = "inventory"
        PROVE  /\ \A i \in DOMAIN t : \E p \in Positions : t[i] = <<"info", p>>
               /\ <<"inventory", 0>> \in DOMAIN taken
    BY <1>1, <1>7, <2>2, <2>7 DEF TodoOK
  <2>8. command[1] = "info" => holder = "inventory"
    BY <1>5 DEF LoopOf, Key
  <2> QED
    BY <1>2, <2>1, <2>4, <2>5, <2>6, <2>7, <2>8 DEF TodoOK
<1>9. command[1] = "info" => /\ holder = "inventory"
                             /\ \E p \in Positions : command = <<"info", p>>
  <2> SUFFICES ASSUME command[1] = "info"
               PROVE  holder = "inventory" /\ \E p \in Positions : command = <<"info", p>>
    OBVIOUS
  <2>1. holder = "inventory"
    BY <1>5 DEF LoopOf, Key
  <2> QED
    BY <1>1, <1>2, <2>1 DEF TodoOK
<1>10. command[1] \notin {"pwr", "info"} => holder # "inventory"
  <2> SUFFICES ASSUME holder = "inventory" PROVE command[1] \in {"pwr", "info"}
    OBVIOUS
  <2>1. \/ todo = <<<<"pwr", 0>>>>
        \/ \A i \in DOMAIN todo : \E p \in Positions : todo[i] = <<"info", p>>
    BY <1>1 DEF TodoOK
  <2> QED
    BY <1>2, <2>1
<1>11. \A i \in DOMAIN todo : todo[i] = command \/ \E j \in DOMAIN t : t[j] = todo[i]
  <2> TAKE i \in DOMAIN todo
  <2>1. i = 1 \/ (i - 1 \in DOMAIN t /\ t[i - 1] = todo[i])
    BY <1>2, <1>3
  <2> QED
    BY <1>2, <2>1
<1> QED
  BY <1>1, <1>3, <1>4, <1>5, <1>6, <1>8, <1>9, <1>10, <1>11 DEF t

\* A command that has ended leaves every value of its loop covered.
LEMMA StillCovered ==
  ASSUME FreshnessInv, holder # Nobody, NEW command, command = Head(todo),
         NEW new, NEW bad,
         DOMAIN taken \subseteq DOMAIN new, failed \subseteq bad,
         Key(command) \in DOMAIN new \cup bad
  PROVE  Covered(holder, Tail(todo), new, bad)
<1>1. Covered(holder, todo, taken, failed)
  BY DEF FreshnessInv, CycleOK
<1>2. \A i \in DOMAIN todo :
        todo[i] = command \/ \E j \in DOMAIN Tail(todo) : Tail(todo)[j] = todo[i]
  BY TodoGoesOn
<1> SUFFICES ASSUME NEW k \in Keys(holder, mapped), k \notin DOMAIN new \cup bad
             PROVE  \E i \in DOMAIN Tail(todo) : Key(Tail(todo)[i]) = k
  BY DEF Covered
<1>3. PICK i \in DOMAIN todo : Key(todo[i]) = k
  BY <1>1 DEF Covered
<1> QED
  BY <1>2, <1>3

\* What has been read stays within its bounds when the command ends.
LEMMA TakenGoesOn ==
  ASSUME FreshnessInv, holder # Nobody,
         NEW rest \in Seq(Command), Left(rest) + 1 <= Left(todo)
  PROVE  /\ Cost(Left(rest)) <= Cost(Length(holder)) - MaxCommand
         /\ \A k \in DOMAIN taken :
              /\ k \in AllKeys /\ LoopOf(k) = holder
              /\ taken[k] \in Nat
              /\ taken[k] + Cost(Left(rest)) <= Cost(Length(holder)) - MaxCommand
              /\ success # Never => taken[k] <= success
<1>1. /\ TypesOK /\ CycleOK /\ holder \in Loops /\ Left(todo) <= Length(holder)
      /\ elapsed \in Nat /\ elapsed <= MaxCommand /\ MaxCommand \in Nat
      /\ TakenOK(holder, todo, taken)
  BY SizesAreNat DEF FreshnessInv, TypesOK, TypeOK, CycleOK, TodoOK
<1>2. Left(rest) \in Nat /\ Left(todo) \in Nat /\ Length(holder) \in Nat
  BY <1>1, LeftOfCommands, RemainingBounds, SizesAreNat
<1>3. /\ Cost(Left(rest)) \in Nat /\ Cost(Left(todo)) \in Nat /\ Cost(Length(holder)) \in Nat
      /\ Cost(Left(rest)) + MaxCommand <= Cost(Left(todo))
      /\ Cost(Left(todo)) <= Cost(Length(holder))
  <2>1. Cost(Left(rest) + 1) <= Cost(Left(todo)) /\ Cost(Left(todo)) <= Cost(Length(holder))
    BY <1>1, <1>2, CostMonotonic
  <2> QED
    BY <1>2, <2>1, CostNat
<1>4. ASSUME NEW k \in DOMAIN taken
      PROVE  /\ k \in AllKeys /\ LoopOf(k) = holder
             /\ taken[k] \in Nat
             /\ taken[k] + Cost(Left(rest)) <= Cost(Length(holder)) - MaxCommand
             /\ success # Never => taken[k] <= success
  <2>1. /\ k \in AllKeys /\ LoopOf(k) = holder
        /\ taken[k] \in Nat
        /\ taken[k] + Cost(Left(todo)) <= Cost(Length(holder)) - MaxCommand + elapsed
        /\ success # Never => taken[k] <= success
    BY <1>1 DEF TakenOK
  <2> QED
    BY <1>1, <1>3, <2>1
<1> QED
  BY <1>1, <1>3, <1>4

\* The stamp of the command that has ended is new, the others have not moved.
LEMMA StampedOK ==
  ASSUME FreshnessInv, holder # Nobody, NEW command, command = Head(todo),
         NEW rest \in Seq(Command), Left(rest) + 1 <= Left(todo)
  PROVE  /\ DOMAIN Stamped(command) = DOMAIN taken \cup {Key(command)}
         /\ \A k \in DOMAIN Stamped(command) :
              /\ k \in AllKeys /\ LoopOf(k) = holder
              /\ Stamped(command)[k] \in Nat
              /\ Stamped(command)[k] + Cost(Left(rest)) <= Cost(Length(holder)) - MaxCommand
              /\ success # Never => Stamped(command)[k] <= success
<1> DEFINE new == Stamped(command)
<1>1. /\ DOMAIN new = DOMAIN taken \cup {Key(command)}
      /\ \A k \in DOMAIN new :
           new[k] = IF k = Key(command) /\ command[1] # "info" THEN 0 ELSE taken[k]
  BY DEF Stamped
<1>2. success \in Nat \cup {Never}
  BY DEF FreshnessInv, TypesOK
<1>3. Key(command) \in AllKeys /\ LoopOf(Key(command)) = holder
      /\ (command[1] = "info" => <<"inventory", 0>> \in DOMAIN taken)
  BY TodoGoesOn
<1>4. command[1] = "info" => Key(command) \in DOMAIN taken
  BY <1>3 DEF Key
<1>5. /\ Cost(Left(rest)) <= Cost(Length(holder)) - MaxCommand
      /\ Cost(Left(rest)) \in Nat
      /\ \A k \in DOMAIN taken :
           /\ k \in AllKeys /\ LoopOf(k) = holder
           /\ taken[k] \in Nat
           /\ taken[k] + Cost(Left(rest)) <= Cost(Length(holder)) - MaxCommand
           /\ success # Never => taken[k] <= success
  BY TakenGoesOn, LeftOfCommands, CostNat
<1> HIDE DEF new
<1>6. ASSUME NEW k \in DOMAIN new
      PROVE  /\ k \in AllKeys /\ LoopOf(k) = holder
             /\ new[k] \in Nat
             /\ new[k] + Cost(Left(rest)) <= Cost(Length(holder)) - MaxCommand
             /\ success # Never => new[k] <= success
  <2>1. CASE k = Key(command) /\ command[1] # "info"
    <3>1. new[k] = 0
      BY <1>1, <2>1
    <3> QED
      BY <1>2, <1>3, <1>5, <2>1, <3>1
  <2>2. CASE ~(k = Key(command) /\ command[1] # "info")
    <3>1. new[k] = taken[k] /\ k \in DOMAIN taken
      BY <1>1, <1>4, <2>2
    <3> QED
      BY <1>5, <3>1
  <2> QED
    BY <2>1, <2>2
<1> QED
  BY <1>1, <1>6 DEF new

LEMMA AnsweredStep ==
  ASSUME FreshnessInv, Answered
  PROVE  /\ FreshnessInv'
         /\ success # Never => success' # Never /\ success' <= success
<1>1. holder # Nobody /\ faults' = faults /\ faults \in 0..MaxFaults
      /\ mapped \subseteq Positions
      /\ failed \subseteq AllKeys \cup {<<"info", p>> : p \in Positions}
  BY DEF Answered, FreshnessInv, TypesOK, TypeOK
<1>2. PICK command : command = Head(todo)
  OBVIOUS
<1> DEFINE new == Stamped(command)
<1>3. /\ Key(command) \in DOMAIN new /\ DOMAIN taken \subseteq DOMAIN new
  BY DEF Stamped
<1>4. CASE command[1] = "pwr"
  <2> DEFINE rest == Each("info", Positions)
  <2>1. Goes(new, failed, rest, {})
    BY <1>2, <1>4 DEF Answered
  <2>2. /\ rest \in Seq(Command) /\ Len(rest) <= N /\ Len(rest) \in Nat
        /\ DOMAIN rest = 1..Len(rest)
        /\ \A i \in DOMAIN rest : \E p \in Positions : rest[i] = <<"info", p>>
    BY EachCommand
  <2>3. holder = "inventory" /\ Left(todo) = N + 1 /\ Key(command) = <<"inventory", 0>>
    BY <1>1, <1>2, <1>4, TodoGoesOn DEF Key
  <2> HIDE DEF rest
  <2>4. Left(rest) = Len(rest)
    <3>1. CASE rest = <<>>
      BY <3>1 DEF Left
    <3>2. CASE rest # <<>>
      <4>1. 1 \in DOMAIN rest
        BY <2>2, <3>2
      <4>2. rest[1][1] = "info"
        BY <2>2, <4>1
      <4> QED
        BY <3>2, <4>2 DEF Left
    <3> QED
      BY <3>1, <3>2
  <2>5. Left(rest) + 1 <= Left(todo)
    BY <2>2, <2>3, <2>4, SizesAreNat
  <2>6. TodoOK(holder, rest, new)
    <3>1. ASSUME NEW i \in DOMAIN rest
          PROVE  /\ \E p \in Positions : rest[i] = <<"info", p>>
                 /\ Key(rest[i]) = <<"inventory", 0>>
      BY <2>2 DEF Key
    <3>2. LoopOf(<<"inventory", 0>>) = "inventory" /\ <<"inventory", 0>> \in AllKeys
      BY <1>1, <1>2, <2>3, TodoGoesOn
    <3>3. Left(rest) <= Length("inventory")
      BY <2>2, <2>4, SizesAreNat
    <3> QED
      BY <1>3, <2>3, <3>1, <3>2, <3>3 DEF TodoOK
  <2>7. Covered(holder, rest, new, failed)
    BY <1>3, <2>3 DEF Covered, Keys
  <2> HIDE DEF new
  <2>8. \A k \in DOMAIN new :
           /\ k \in AllKeys /\ LoopOf(k) = holder
           /\ new[k] \in Nat
           /\ new[k] + Cost(Left(rest)) <= Cost(Length(holder)) - MaxCommand
           /\ success # Never => new[k] <= success
    BY <1>1, <1>2, <2>2, <2>5, StampedOK DEF new
  <2> QED
    BY <1>1, <2>1, <2>2, <2>3, <2>5, <2>6, <2>7, <2>8, GoesStep
<1>5. CASE command[1] # "pwr"
  <2> DEFINE rest == Tail(todo)
  <2>1. /\ rest \in Seq(Command) /\ Left(rest) + 1 <= Left(todo)
        /\ TodoOK(holder, rest, new)
        /\ command[1] = "info" => holder = "inventory"
    BY <1>1, <1>2, <1>3, <1>5, TodoGoesOn
  <2>2. Covered(holder, rest, new, failed)
    BY <1>1, <1>2, <1>3, StillCovered
  <2> HIDE DEF new, rest
  <2>3. \A k \in DOMAIN new :
           /\ k \in AllKeys /\ LoopOf(k) = holder
           /\ new[k] \in Nat
           /\ new[k] + Cost(Left(rest)) <= Cost(Length(holder)) - MaxCommand
           /\ success # Never => new[k] <= success
    BY <1>1, <1>2, <2>1, StampedOK DEF new
  <2>4. \/ Goes(new, failed, rest, Identified(failed)) /\ command[1] = "info"
        \/ Goes(new, failed, rest, mapped)
    BY <1>2, <1>5 DEF Answered, new, rest
  <2>5. Identified(failed) \in SUBSET Positions
    BY DEF Identified
  <2>6. CASE Goes(new, failed, rest, Identified(failed)) /\ command[1] = "info"
    BY <1>1, <2>1, <2>2, <2>3, <2>5, <2>6, GoesStep
  <2>7. CASE Goes(new, failed, rest, mapped)
    BY <1>1, <2>1, <2>2, <2>3, <2>7, GoesStep
  <2> QED
    BY <2>4, <2>6, <2>7
<1> QED
  BY <1>4, <1>5

LEMMA FailsStep ==
  ASSUME FreshnessInv, Fails
  PROVE  /\ FreshnessInv'
         /\ success # Never => success' # Never /\ success' <= success
<1>1. holder # Nobody /\ faults' \in 0..MaxFaults /\ mapped \subseteq Positions
      /\ failed \subseteq AllKeys \cup {<<"info", p>> : p \in Positions}
  BY BoundsAssumption DEF Fails, FreshnessInv, TypesOK, TypeOK
<1>2. PICK command : command = Head(todo)
  OBVIOUS
<1>3. command \in Command /\ LoopOf(Key(command)) = holder /\ Key(command) \in AllKeys
  BY <1>1, <1>2, TodoGoesOn
<1>4. CASE command[1] = "pwr"
  <2>1. Goes(taken, {<<"inventory", 0>>}, <<>>, mapped)
    BY <1>2, <1>4 DEF Fails
  <2>2. holder = "inventory" /\ Left(todo) = N + 1 /\ <<"inventory", 0>> \in AllKeys
    BY <1>1, <1>2, <1>3, <1>4, TodoGoesOn DEF Key
  <2> DEFINE rest == <<>>
  <2>3. rest \in Seq(Command) /\ Left(rest) = 0 /\ DOMAIN rest = {}
    BY DEF Left
  <2>4. Left(rest) + 1 <= Left(todo)
    BY <2>2, <2>3, SizesAreNat
  <2>5. \A k \in DOMAIN taken :
           /\ k \in AllKeys /\ LoopOf(k) = holder
           /\ taken[k] \in Nat
           /\ taken[k] + Cost(Left(rest)) <= Cost(Length(holder)) - MaxCommand
           /\ success # Never => taken[k] <= success
    BY <1>1, <2>3, <2>4, TakenGoesOn
  <2>6. Covered(holder, rest, taken, {<<"inventory", 0>>})
    BY <2>2 DEF Covered, Keys
  <2> HIDE DEF rest
  <2>7. Goes(taken, {<<"inventory", 0>>}, rest, mapped) /\ rest = <<>>
    BY <2>1 DEF rest
  <2> QED
    BY <1>1, <2>2, <2>3, <2>4, <2>5, <2>6, <2>7, GoesStep
<1>5. CASE command[1] # "pwr"
  <2> DEFINE rest == Tail(todo)
  <2>1. /\ rest \in Seq(Command) /\ Left(rest) + 1 <= Left(todo)
        /\ TodoOK(holder, rest, taken)
        /\ command[1] = "info" => holder = "inventory"
    BY <1>1, <1>2, <1>5, TodoGoesOn
  <2>2. \A k \in DOMAIN taken :
           /\ k \in AllKeys /\ LoopOf(k) = holder
           /\ taken[k] \in Nat
           /\ taken[k] + Cost(Left(rest)) <= Cost(Length(holder)) - MaxCommand
           /\ success # Never => taken[k] <= success
    BY <1>1, <2>1, TakenGoesOn
  <2>3. CASE command[1] = "info"
    <3> DEFINE bad == failed \cup {command, <<"inventory", 0>>}
               positions == Identified(failed \cup {command})
    <3>1. Goes(taken, bad, rest, positions)
      BY <1>2, <2>3 DEF Fails
    <3>2. Key(command) = <<"inventory", 0>>
      BY <2>3 DEF Key
    <3>3. Covered(holder, rest, taken, bad)
      BY <1>1, <1>2, <3>2, StillCovered
    <3>4. holder = "inventory" /\ \E p \in Positions : command = <<"info", p>>
      BY <1>1, <1>2, <2>3, TodoGoesOn
    <3>5. bad \subseteq AllKeys \cup {<<"info", p>> : p \in Positions}
      BY <1>1, <1>3, <3>2, <3>4
    <3>6. positions \in SUBSET Positions
      BY DEF Identified
    <3> HIDE DEF bad, rest, positions
    <3> QED
      BY <1>1, <2>1, <2>2, <3>1, <3>3, <3>4, <3>5, <3>6, GoesStep
  <2>4. CASE command[1] # "info"
    <3> DEFINE bad == failed \cup {command}
    <3>1. Goes(taken, bad, rest, mapped)
      BY <1>2, <1>5, <2>4 DEF Fails
    <3>2. Key(command) = command
      BY <1>5, <2>4 DEF Key
    <3>3. Covered(holder, rest, taken, bad)
      BY <1>1, <1>2, <3>2, StillCovered
    <3>4. bad \subseteq AllKeys \cup {<<"info", p>> : p \in Positions}
      BY <1>1, <1>3, <3>2
    <3> HIDE DEF bad, rest
    <3> QED
      BY <1>1, <2>1, <2>2, <3>1, <3>3, <3>4, GoesStep
  <2> QED
    BY <2>3, <2>4
<1> QED
  BY <1>4, <1>5

(***************************************************************************)
(* The theorems.                                                           *)
(***************************************************************************)
LEMMA FreshnessInit == Init => FreshnessInv
<1> SUFFICES ASSUME Init PROVE FreshnessInv
  OBVIOUS
<1> DEFINE pwr == <<<<"pwr", 0>>>>
<1>1. /\ status = [l \in Loops |-> "none"] /\ timer = [l \in Loops |-> 0] /\ queue = <<>>
      /\ holder = "inventory" /\ todo = pwr /\ elapsed = 0 /\ mapped = {}
      /\ taken = [k \in {} |-> 0] /\ failed = {}
      /\ store = [k \in AllKeys |-> Empty] /\ success = Never /\ faults = 0
  BY DEF Init
<1>2. "inventory" \in Loops /\ "inventory" # Nobody /\ Commands("inventory") = pwr
  BY DEF Loops, Nobody, Commands
<1>3. /\ pwr \in Seq(Command) /\ TodoOK("inventory", pwr, taken) /\ pwr # <<>>
      /\ \A k \in Keys("inventory", mapped) : \E i \in DOMAIN pwr : Key(pwr[i]) = k
  BY <1>1, <1>2, CommandsOK
<1>4. DOMAIN taken = {}
  BY <1>1
<1>5. TypesOK
  <2>1. store \in [AllKeys -> [age : Nat \cup {Never}, valid : BOOLEAN]]
    BY <1>1 DEF Empty
  <2>2. \A k \in AllKeys : store[k].valid \in BOOLEAN
    BY <2>1
  <2>3. /\ status \in [Loops -> {"none", "sleeping", "waiting", "running"}]
        /\ timer \in [Loops -> Nat] /\ queue \in Seq(Loops)
    BY <1>1
  <2> HIDE DEF pwr
  <2> QED
    BY <1>1, <1>2, <1>3, <1>4, <2>1, <2>2, <2>3, BoundsAssumption
       DEF TypesOK, TypeOK, Command
<1>6. LockOK
  BY <1>1, <1>2 DEF LockOK
<1>7. CycleOK
  <2> HIDE DEF pwr
  <2> QED
    BY <1>1, <1>2, <1>3, <1>4 DEF CycleOK, Covered, TakenOK
<1>8. AgeOK
  BY <1>1 DEF AgeOK, Empty
<1> QED
  BY <1>5, <1>6, <1>7, <1>8 DEF FreshnessInv

LEMMA FreshnessNext == FreshnessInv /\ [Next]_vars => FreshnessInv'
<1> SUFFICES ASSUME FreshnessInv, [Next]_vars PROVE FreshnessInv'
  OBVIOUS
<1>1. CASE \E l \in Loops : Wakes(l)
  BY <1>1, WakesStep
<1>2. CASE Acquires
  <2>1. queue \in Seq(Loops) /\ queue # <<>>
    BY <1>2 DEF Acquires, FreshnessInv, TypesOK, TypeOK
  <2>2. PICK h \in Loops : h = Head(queue)
    BY <2>1, HeadTailProperties
  <2> QED
    BY <1>2, <2>2, AcquiresStep
<1>3. CASE Answered
  BY <1>3, AnsweredStep
<1>4. CASE Fails
  BY <1>4, FailsStep
<1>5. CASE Tick
  BY <1>5, TickStep
<1>6. CASE UNCHANGED vars
  <2>1. /\ TypesOK' /\ LockOK'
    BY <1>6 DEF FreshnessInv, vars, loopVars, cycleVars, TypesOK, TypeOK, LockOK
  <2>2. CycleOK'
    BY <1>6 DEF FreshnessInv, vars, loopVars, cycleVars, CycleOK, TodoOK, Covered, TakenOK
  <2>3. \A l \in Loops : UntilPublished(l)' = UntilPublished(l)
    BY <1>6 DEF vars, loopVars, cycleVars, UntilPublished, Remaining, Ahead, Before
  <2>4. AgeOK'
    BY <1>6, <2>3, KeysOfLoops DEF FreshnessInv, vars, loopVars, cycleVars, AgeOK
  <2> QED
    BY <2>1, <2>2, <2>4 DEF FreshnessInv
<1> QED
  BY <1>1, <1>2, <1>3, <1>4, <1>5, <1>6 DEF Next

THEOREM FreshnessInvariant == Spec => []FreshnessInv
BY FreshnessInit, FreshnessNext, PTL DEF Spec

\* Types: loops, commands, ages and validity keep their sets.
THEOREM FreshnessTypeCorrect == Spec => []TypeOK
<1>1. FreshnessInv => TypeOK
  BY DEF FreshnessInv, TypesOK
<1> QED
  BY <1>1, FreshnessInvariant, PTL

\* With room for a round of the lock in the settings, is_stale() is only ever
\* true of a value that is already invalid: for any rack, any intervals, any
\* number of failed commands and whatever time each of them takes.
THEOREM ValidValuesAreFresh == Spec => []ValidIsFresh
<1>1. FreshnessInv => ValidIsFresh
  <2> SUFFICES ASSUME FreshnessInv, NEW k \in AllKeys, store[k].valid
               PROVE  ~IsStale(k, store[k].age)
    BY DEF ValidIsFresh
  <2>1. PICK l \in Loops : l = LoopOf(k)
    BY KeysOfLoops
  <2>2. store[k].age \in Nat /\ store[k].age + UntilPublished(l) <= Interval[l] + Lag(l)
    BY <2>1 DEF FreshnessInv, AgeOK
  <2>3. UntilPublished(l) \in Nat /\ Interval[l] \in Nat /\ Lag(l) \in Int /\ Multiplier \in Nat
    BY UntilPublishedIsNat, IntervalAssumption, LagCost, MultiplierAssumption DEF FreshnessInv
  <2>4. Interval[l] * Multiplier > Interval[l] + Lag(l) /\ Interval[l] * Multiplier \in Nat
    BY <2>3, RoomAssumption
  <2>5. store[k].age # Never /\ ~(store[k].age >= Interval[l] * Multiplier)
    BY <2>2, <2>3, <2>4 DEF Never
  <2> QED
    BY <2>1, <2>5 DEF IsStale, Limit
<1> QED
  BY <1>1, FreshnessInvariant, PTL

\* A cycle never publishes a success older than the last one: the stamp of a
\* cycle that started earlier but waited is still behind the one published.
THEOREM SuccessNeverGoesBack == Spec => SuccessAdvances
<1>1. ASSUME FreshnessInv, [Next]_vars, success # Never
      PROVE  success' # Never /\ (success' <= success \/ success' = Older(success))
  <2>1. success \in Nat
    BY <1>1 DEF FreshnessInv, TypesOK
  <2>2. CASE Answered
    BY <1>1, <2>2, AnsweredStep
  <2>3. CASE Fails
    BY <1>1, <2>3, FailsStep
  <2>4. CASE Tick
    <3>1. success' = Older(success)
      BY <2>4 DEF Tick
    <3>2. Older(success) \in Nat
      BY <2>1, OlderAges
    <3> QED
      BY <3>1, <3>2 DEF Never
  <2>5. CASE success' = success
    BY <1>1, <2>1, <2>5
  <2> QED
    BY <1>1, <2>2, <2>3, <2>4, <2>5 DEF Next, Wakes, Acquires, vars
<1>2. FreshnessInv /\ [Next]_vars
        => [success # Never =>
              success' # Never /\ (success' <= success \/ success' = Older(success))]_vars
  BY <1>1
<1> QED
  BY <1>2, FreshnessInvariant, PTL DEF Spec, SuccessAdvances
=============================================================================
