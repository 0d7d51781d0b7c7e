----------------------------- MODULE Mqtt_proofs -----------------------------
(***************************************************************************)
(* What MqttPublisher's health and `online' say about the connection, that *)
(* `online' stands for a complete snapshot of one state, that no event is  *)
(* published twice or before an older one, and that no topic of a module   *)
(* that is gone is left behind while the connection holds: for any finite  *)
(* set of positions, any number of states and of lost connections.         *)
(***************************************************************************)
EXTENDS Mqtt, SequenceTheorems, FiniteSetTheorems, TLAPS

(***************************************************************************)
(* The inductive invariant.                                                *)
(***************************************************************************)
\* What the network thread is about to report has happened.
NetInv ==
  /\ net = "accepted" => link = "up"
  /\ net \in {"lost", "refused"} => link = "down"

\* The task exists while the publisher runs.
TaskInv == phase # "running" => task = "none"

BrokerInv ==
  /\ "online" \in DOMAIN broker
  /\ phase \in {"new", "off"} => ~broker.online

\* With a reconnect that is slower than a snapshot: a snapshot that fails has
\* no connection to be confused with, so the health is right about every
\* connection that `online' was published on.
OnlineInv ==
  /\ task = "failing" => link = "down"
  /\ task = "publishing" /\ link = "up" => health = "connected"
  /\ broker.online /\ phase # "stopped" => link = "up" /\ health = "connected"
  /\ phase = "parting" => ~broker.online

LinkInv ==
  /\ NetInv /\ TaskInv /\ BrokerInv
  /\ HealthFollowsLink
  /\ SlowReconnect => OnlineInv

(***************************************************************************)
(* The steps.                                                              *)
(***************************************************************************)
\* A publication leaves `online' alone or sets it.
LEMMA StoredOnline ==
  ASSUME NEW publication, "online" \in DOMAIN broker
  PROVE  LET stored == Stored(broker, publication)
         IN  /\ "online" \in DOMAIN stored
             /\ stored.online = broker.online \/ stored.online = TRUE
<1> DEFINE kind == publication.kind
<1>1. CASE kind = "status"
  BY <1>1 DEF Stored
<1>2. CASE kind = "values"
  BY <1>2 DEF Stored
<1>3. CASE kind = "clear"
  BY <1>3 DEF Stored
<1>4. CASE kind = "position"
  BY <1>4 DEF Stored
<1>5. CASE kind = "online"
  BY <1>5 DEF Stored
<1>6. CASE kind \notin {"status", "values", "clear", "position", "online"}
  BY <1>6 DEF Stored
<1>7. QED
  BY <1>1, <1>2, <1>3, <1>4, <1>5, <1>6

LEMMA InitInv == Init => LinkInv
BY DEF Init, LinkInv, NetInv, TaskInv, BrokerInv, HealthFollowsLink, OnlineInv

LEMMA StepInv == LinkInv /\ [Next]_vars => LinkInv'
<1>1. SUFFICES ASSUME LinkInv, [Next]_vars
               PROVE  LinkInv'
  OBVIOUS
<1> USE <1>1, SlowReconnectAssumption
        DEF LinkInv, NetInv, TaskInv, BrokerInv, HealthFollowsLink, OnlineInv,
        publisherVars, brokerVars, Connected, Connecting, Disconnected
<1>2. CASE Start \/ StartFails
  BY <1>2 DEF Start, StartFails
<1>3. CASE Publish
  BY <1>3 DEF Publish
<1>4. CASE Publishes
  <2>1. /\ "online" \in DOMAIN broker'
        /\ broker'.online = broker.online \/ broker'.online = TRUE
    BY <1>4, StoredOnline DEF Publishes
  <2>2. phase = "running" /\ link = "up"
    BY <1>4 DEF Publishes
  <2>3. QED
    BY <1>4, <2>1, <2>2 DEF Publishes
<1>5. CASE PublishFails \/ ReportsFailure
  BY <1>5 DEF PublishFails, ReportsFailure
<1>6. CASE Stop
  BY <1>6 DEF Stop
<1>7. CASE SaysOffline \/ WaitTimesOut
  BY <1>7 DEF SaysOffline, WaitTimesOut
<1>8. CASE Disconnects
  BY <1>8 DEF Disconnects
<1>16. CASE OfflineSent
  <2>1. "online" \in DOMAIN broker' /\ ~broker'.online
    BY <1>16 DEF OfflineSent
  <2>2. QED
    BY <1>16, <2>1 DEF OfflineSent
<1>9. CASE OnConnect \/ OnConnectFail
  BY <1>9 DEF OnConnect, OnConnectFail
<1>10. CASE OnDisconnect
  BY <1>10 DEF OnDisconnect
<1>11. CASE LinkUp \/ LinkRefused
  BY <1>11 DEF LinkUp, LinkRefused, Networking
<1>12. CASE LinkLost
  BY <1>12 DEF LinkLost, Networking
<1>13. ASSUME NEW positions \in SUBSET Positions, StateChanges(positions)
       PROVE  LinkInv'
  BY <1>13 DEF StateChanges
<1>14. CASE UNCHANGED vars
  BY <1>14 DEF vars
<1>15. QED
  BY <1>2, <1>3, <1>4, <1>5, <1>6, <1>7, <1>8, <1>9, <1>10, <1>11, <1>12,
     <1>13, <1>14, <1>16 DEF Next, Task, Stopping, Callback, Terminated

(***************************************************************************)
(* The theorems.                                                           *)
(***************************************************************************)
\* The inductive invariant of the connection holds in every reachable state.
THEOREM LinkInvariant == Spec => []LinkInv
BY InitInv, StepInv, PTL DEF Spec

\* The health never says connected without a connection, except until the
\* callback that reports its loss.
THEOREM HealthIsTheLink == Spec => []HealthFollowsLink
<1>1. LinkInv => HealthFollowsLink
  BY DEF LinkInv
<1>2. QED
  BY <1>1, LinkInvariant, PTL

\* If a reconnect takes longer than a snapshot, stop() disconnects behind
\* online=false unless it gave up waiting for it: where it skips the message
\* because the health says disconnected, the Last Will has said so before.
THEOREM OfflineAfterStop == Spec => [](SlowReconnect => OfflineUnlessUnsent)
<1>1. LinkInv => (SlowReconnect => OfflineUnlessUnsent)
  BY DEF LinkInv, OnlineInv, OfflineUnlessUnsent
<1>2. QED
  BY <1>1, LinkInvariant, PTL

(***************************************************************************)
(* The publications of a snapshot.                                         *)
(***************************************************************************)
LEMMA AscendingOrder ==
  ASSUME NEW P \in SUBSET Nat, IsFiniteSet(P)
  PROVE  /\ Cardinality(P) \in Nat
         /\ \A i \in 1..Cardinality(P) : Ascending(P)[i] \in P
         /\ \A p \in P : \E i \in 1..Cardinality(P) : Ascending(P)[i] = p
         /\ \A i, j \in 1..Cardinality(P) : i < j => Ascending(P)[i] < Ascending(P)[j]
<1> DEFINE n == Cardinality(P)
           below(p) == {q \in P : q < p}
           rank == [p \in P |-> Cardinality(below(p))]
<1>1. n \in Nat
  BY FS_CardinalityType
<1>2. \A p \in P : IsFiniteSet(below(p)) /\ rank[p] \in 0..(n - 1)
  <2> TAKE p \in P
  <2>1. below(p) \in SUBSET P /\ p \notin below(p)
    OBVIOUS
  <2>2. /\ IsFiniteSet(below(p)) /\ Cardinality(below(p)) <= n
        /\ n = Cardinality(below(p)) => P = below(p)
    BY <2>1, FS_Subset
  <2>3. Cardinality(below(p)) \in Nat
    BY <2>2, FS_CardinalityType
  <2> QED
    BY <2>1, <2>2, <2>3, <1>1
<1>3. \A p, q \in P : p < q => rank[p] < rank[q]
  <2> SUFFICES ASSUME NEW p \in P, NEW q \in P, p < q PROVE rank[p] < rank[q]
    OBVIOUS
  <2>0. \A r \in P : r < p => r < q
    OBVIOUS
  <2>1. below(p) \in SUBSET below(q) /\ p \in below(q) /\ p \notin below(p)
    <3>1. \A r \in below(p) : r \in below(q)
      BY <2>0
    <3>2. p \in below(q) /\ p \notin below(p)
      OBVIOUS
    <3> HIDE DEF below
    <3> QED
      BY <3>1, <3>2
  <2>2. /\ Cardinality(below(p)) <= Cardinality(below(q))
        /\ Cardinality(below(q)) = Cardinality(below(p)) => below(q) = below(p)
    BY <2>1, <1>2, FS_Subset
  <2> QED
    BY <2>1, <2>2, <1>2
<1>4. \A p, q \in P : rank[p] = rank[q] => p = q
  <2> SUFFICES ASSUME NEW p \in P, NEW q \in P, rank[p] = rank[q] PROVE p = q
    OBVIOUS
  <2>1. ~(p < q) /\ ~(q < p)
    BY <1>3, <1>2
  <2> QED
    BY <2>1
<1>5. rank \in Injection(P, 0..(n - 1))
  BY <1>2, <1>4 DEF Injection, IsInjective
<1>6. IsFiniteSet(0..(n - 1)) /\ Cardinality(0..(n - 1)) = n
  <2>1. 0 \in Int /\ n - 1 \in Int /\ (IF 0 > n - 1 THEN 0 ELSE n - 1 - 0 + 1) = n
    BY <1>1
  <2> HIDE DEF n
  <2> QED
    BY <2>1, FS_Interval
<1>7. rank \in Surjection(P, 0..(n - 1))
  <2> DEFINE T == 0..(n - 1)
  <2>1. rank \in Injection(P, T) /\ IsFiniteSet(T) /\ Cardinality(P) = Cardinality(T)
    BY <1>5, <1>6
  <2> HIDE DEF rank, T
  <2>2. rank \in Surjection(P, T)
    BY <2>1, FS_Injection
  <2> QED
    BY <2>2 DEF T
<1>8. \A p \in P : rank[p] = Cardinality({q \in P : q < p})
  OBVIOUS
<1>13. \A p \in P : rank[p] \in 0..(n - 1)
  BY <1>2
<1> HIDE DEF rank, n
<1>9. \A i \in 1..n : \E p \in P : rank[p] = i - 1
  BY <1>1, <1>7 DEF Surjection
<1>10. \A i \in 1..n : Ascending(P)[i] \in P /\ rank[Ascending(P)[i]] = i - 1
  <2> TAKE i \in 1..n
  <2>1. \E p \in P : Cardinality({q \in P : q < p}) = i - 1
    BY <1>8, <1>9
  <2>2. Ascending(P)[i] = CHOOSE p \in P : Cardinality({q \in P : q < p}) = i - 1
    BY DEF Ascending, n
  <2>3. Ascending(P)[i] \in P /\ Cardinality({q \in P : q < Ascending(P)[i]}) = i - 1
    BY <2>1, <2>2
  <2> QED
    BY <2>3, <1>8
<1>11. ASSUME NEW p \in P PROVE \E i \in 1..n : Ascending(P)[i] = p
  <2> DEFINE i == rank[p] + 1
  <2>1. i \in 1..n /\ rank[p] = i - 1
    BY <1>1, <1>13
  <2>2. Ascending(P)[i] \in P /\ rank[Ascending(P)[i]] = rank[p]
    BY <2>1, <1>10
  <2> QED
    BY <2>1, <2>2, <1>4
<1>12. ASSUME NEW i \in 1..n, NEW j \in 1..n, i < j
       PROVE  Ascending(P)[i] < Ascending(P)[j]
  <2>1. PICK a \in P, b \in P : a = Ascending(P)[i] /\ b = Ascending(P)[j]
    BY <1>10
  <2>2. rank[a] = i - 1 /\ rank[b] = j - 1
    BY <1>10, <2>1
  <2>3. rank[a] \in Nat /\ rank[b] \in Nat /\ rank[a] < rank[b]
    BY <1>1, <1>12, <1>13, <2>2
  <2>4. ~(b < a)
    BY <1>3, <2>3
  <2>5. a # b
    BY <2>3
  <2> QED
    BY <2>1, <2>4, <2>5
<1> QED
  BY <1>1, <1>10, <1>11, <1>12 DEF n

\* A part of a snapshot: publications of one kind and version, that are the
\* members of S.
PartOK(s, kind, S, v) ==
  /\ s \in Seq(Publication)
  /\ \A i \in 1..Len(s) : s[i].kind = kind /\ s[i].version = v /\ s[i].arg \in S
  /\ \A x \in S : \E i \in 1..Len(s) : s[i].arg = x

LEMMA EachPart ==
  ASSUME NEW kind \in {"clear", "position"}, NEW S \in SUBSET Positions, NEW v \in Nat
  PROVE  PartOK(Each(kind, S, v), kind, S, v)
<1> DEFINE n == Cardinality(S)
           A == Ascending(S)
           s == [i \in 1..n |-> [kind |-> kind, arg |-> A[i], version |-> v]]
<1>1. IsFiniteSet(S) /\ S \in SUBSET Nat
  BY PositionsAssumption, FS_Subset
<1>2. n \in Nat /\ \A i \in 1..n : A[i] \in S /\ A[i] \in Nat
  BY <1>1, AscendingOrder
<1>3. \A x \in S : \E i \in 1..n : A[i] = x
  BY <1>1, AscendingOrder
<1>4. Each(kind, S, v) = s
  BY DEF Each
<1> HIDE DEF n, A
<1>5. s \in Seq(Publication) /\ Len(s) = n
  BY <1>2 DEF Publication
<1>6. \A i \in 1..n : s[i].kind = kind /\ s[i].version = v /\ s[i].arg = A[i]
  OBVIOUS
<1> HIDE DEF s
<1> QED
  BY <1>2, <1>3, <1>4, <1>5, <1>6 DEF PartOK

LEMMA OnePart ==
  ASSUME NEW kind \in {"status", "values", "online"}, NEW v \in Nat
  PROVE  PartOK(One(kind, v), kind, {0}, v) /\ Len(One(kind, v)) = 1
BY DEF One, PartOK, Publication

\* The events, which are in ascending order if those of the state are.
LEMMA EventsPart ==
  ASSUME NEW state \in CurrentState, NEW old,
         \A i, j \in 1..Len(state.events) : i < j => state.events[i] < state.events[j]
  PROVE  LET s == NewEvents(state, old)
         IN  /\ PartOK(s, "event", EventIds(state) \ old, state.version)
             /\ \A i, j \in 1..Len(s) : i < j => s[i].arg < s[j].arg
<1> DEFINE e == state.events
           new == {i \in DOMAIN e : e[i] \notin old \cup {e[j] : j \in 1..i - 1}}
           n == Cardinality(new)
           A == Ascending(new)
           s == [i \in 1..n |-> [kind |-> "event", arg |-> e[A[i]], version |-> state.version]]
<1>1. e \in Seq(Nat) /\ state.version \in Nat
  BY DEF CurrentState
<1>2. Len(e) \in Nat /\ DOMAIN e = 1..Len(e) /\ \A i \in 1..Len(e) : e[i] \in Nat
  BY <1>1, LenProperties
<1>3. NewEvents(state, old) = s
  BY DEF NewEvents
<1>4. EventIds(state) = {e[i] : i \in 1..Len(e)}
  BY <1>2 DEF EventIds
<1>5. \A i, j \in 1..Len(e) : i < j => e[i] < e[j]
  OBVIOUS
<1> HIDE DEF e
<1>6. \A i \in 1..Len(e) : \A j \in 1..(i - 1) : e[i] # e[j]
  <2> TAKE i \in 1..Len(e)
  <2> TAKE j \in 1..(i - 1)
  <2>1. j \in 1..Len(e) /\ j < i
    BY <1>2
  <2>2. e[j] < e[i] /\ e[i] \in Nat /\ e[j] \in Nat
    BY <1>2, <1>5, <2>1
  <2> QED
    BY <2>2
<1>7. new = {i \in 1..Len(e) : e[i] \notin old}
  BY <1>2, <1>6
<1> HIDE DEF new
<1>8. IsFiniteSet(new) /\ new \in SUBSET Nat
  <2>1. IsFiniteSet(1..Len(e)) /\ new \subseteq 1..Len(e) /\ 1..Len(e) \subseteq Nat
    BY <1>2, <1>7, FS_Interval
  <2> QED
    BY <2>1, FS_Subset
<1>9. /\ n \in Nat /\ \A i \in 1..n : A[i] \in new
      /\ \A x \in new : \E i \in 1..n : A[i] = x
      /\ \A i, j \in 1..n : i < j => A[i] < A[j]
  BY <1>8, AscendingOrder
<1> HIDE DEF n, A
<1>10. \A i \in 1..n : A[i] \in 1..Len(e) /\ e[A[i]] \in Nat /\ e[A[i]] \notin old
  BY <1>2, <1>7, <1>9
<1>11. s \in Seq(Publication) /\ Len(s) = n
  BY <1>1, <1>9, <1>10 DEF Publication
<1>12. \A i \in 1..n : s[i].kind = "event" /\ s[i].version = state.version /\ s[i].arg = e[A[i]]
  OBVIOUS
<1>13. \A i, j \in 1..n : i < j => e[A[i]] < e[A[j]]
  BY <1>5, <1>9, <1>10
<1>14. \A x \in EventIds(state) \ old : \E i \in 1..n : e[A[i]] = x
  <2> TAKE x \in EventIds(state) \ old
  <2>1. PICK k \in 1..Len(e) : x = e[k]
    BY <1>4
  <2>2. k \in new
    BY <1>7, <2>1
  <2> QED
    BY <1>9, <2>1, <2>2
<1>15. \A i \in 1..n : e[A[i]] \in EventIds(state) \ old
  BY <1>4, <1>10
<1> HIDE DEF s
<1> QED
  BY <1>3, <1>11, <1>12, <1>13, <1>14, <1>15 DEF PartOK

\* Publications with kinds of K, one version, positions of P, deletions of
\* others and events of E, the events in ascending order.
Group(s, K, v, P, E) ==
  /\ s \in Seq(Publication)
  /\ \A i \in 1..Len(s) :
       /\ s[i].kind \in K /\ s[i].version = v
       /\ s[i].kind = "position" => s[i].arg \in P
       /\ s[i].kind = "clear" => s[i].arg \notin P
       /\ s[i].kind = "event" => s[i].arg \in E
  /\ \A i, j \in 1..Len(s) :
       i < j /\ s[i].kind = "event" /\ s[j].kind = "event" => s[i].arg < s[j].arg

Has(s, kind, x) == \E i \in 1..Len(s) : s[i].kind = kind /\ s[i].arg = x

LEMMA Joined ==
  ASSUME NEW s \in Seq(Publication), NEW t \in Seq(Publication)
  PROVE  /\ s \o t \in Seq(Publication) /\ Len(s \o t) = Len(s) + Len(t)
         /\ Len(s) \in Nat /\ Len(t) \in Nat
         /\ \A i \in 1..Len(s) : i \in 1..Len(s \o t) /\ (s \o t)[i] = s[i]
         /\ \A j \in 1..Len(t) : Len(s) + j \in 1..Len(s \o t) /\ (s \o t)[Len(s) + j] = t[j]
         /\ \A i \in 1..Len(s \o t) :
              i \in 1..Len(s) \/ \E j \in 1..Len(t) : i = Len(s) + j
<1> DEFINE m == Len(s)
           n == Len(t)
           u == s \o t
<1>1. m \in Nat /\ n \in Nat
  BY LenProperties
<1>2. /\ u \in Seq(Publication) /\ Len(u) = m + n
      /\ \A i \in 1..(m + n) : u[i] = IF i <= m THEN s[i] ELSE t[i - m]
  BY ConcatProperties
<1> HIDE DEF m, n, u
<1>3. \A i \in 1..m : i \in 1..(m + n) /\ i <= m
  BY <1>1
<1>4. \A j \in 1..n : m + j \in 1..(m + n) /\ ~(m + j <= m) /\ m + j - m = j
  BY <1>1
<1>5. \A i \in 1..(m + n) : i \in 1..m \/ (i - m \in 1..n /\ i = m + (i - m))
  BY <1>1
<1>6. \A i \in 1..m : u[i] = s[i]
  BY <1>2, <1>3
<1>7. \A j \in 1..n : u[m + j] = t[j]
  <2> TAKE j \in 1..n
  <2> DEFINE k == m + j
  <2>1. k \in 1..(m + n) /\ ~(k <= m) /\ k - m = j
    BY <1>1
  <2> HIDE DEF k
  <2>2. u[k] = t[k - m]
    BY <1>2, <2>1
  <2>3. u[k] = t[j]
    BY <2>1, <2>2
  <2> QED
    BY <2>3 DEF k
<1> QED
  BY <1>1, <1>2, <1>3, <1>4, <1>5, <1>6, <1>7 DEF m, n, u

LEMMA JoinedGroups ==
  ASSUME NEW s, NEW t, NEW K, NEW L, NEW v, NEW P, NEW E,
         Group(s, K, v, P, E), Group(t, L, v, P, E), "event" \notin K \/ "event" \notin L
  PROVE  /\ Group(s \o t, K \cup L, v, P, E)
         /\ \A kind, x : Has(s, kind, x) \/ Has(t, kind, x) => Has(s \o t, kind, x)
<1> DEFINE u == s \o t
           m == Len(s)
<1>1. s \in Seq(Publication) /\ t \in Seq(Publication)
  BY DEF Group
<1>2. /\ u \in Seq(Publication) /\ m \in Nat /\ Len(t) \in Nat
      /\ \A i \in 1..m : i \in 1..Len(u) /\ u[i] = s[i]
      /\ \A j \in 1..Len(t) : m + j \in 1..Len(u) /\ u[m + j] = t[j]
      /\ \A i \in 1..Len(u) : i \in 1..m \/ \E j \in 1..Len(t) : i = m + j
  BY <1>1, Joined
<1> HIDE DEF u
<1>3. \A i \in 1..Len(u) :
        /\ u[i].kind \in K \cup L /\ u[i].version = v
        /\ u[i].kind = "position" => u[i].arg \in P
        /\ u[i].kind = "clear" => u[i].arg \notin P
        /\ u[i].kind = "event" => u[i].arg \in E
  <2> TAKE i \in 1..Len(u)
  <2>1. CASE i \in 1..m
    BY <1>2, <2>1 DEF Group
  <2>2. ASSUME NEW j \in 1..Len(t), i = m + j
        PROVE  /\ u[i].kind \in K \cup L /\ u[i].version = v
               /\ u[i].kind = "position" => u[i].arg \in P
               /\ u[i].kind = "clear" => u[i].arg \notin P
               /\ u[i].kind = "event" => u[i].arg \in E
    BY <1>2, <2>2 DEF Group
  <2> QED
    BY <1>2, <2>1, <2>2
<1>4. ASSUME NEW i \in 1..Len(u), NEW j \in 1..Len(u),
             i < j, u[i].kind = "event", u[j].kind = "event"
      PROVE  u[i].arg < u[j].arg
  <2>1. CASE "event" \notin L
    <3>1. \A k \in 1..Len(t) : u[m + k].kind # "event"
      BY <1>2, <2>1 DEF Group
    <3>2. i \in 1..m /\ j \in 1..m
      BY <1>2, <1>4, <3>1
    <3> QED
      BY <1>2, <1>4, <3>2 DEF Group
  <2>2. CASE "event" \notin K
    <3>1. \A k \in 1..m : u[k].kind # "event"
      BY <1>2, <2>2 DEF Group
    <3>2. PICK k \in 1..Len(t) : i = m + k
      BY <1>2, <1>4, <3>1
    <3>3. PICK l \in 1..Len(t) : j = m + l
      BY <1>2, <1>4, <3>1
    <3>4. k < l
      BY <1>2, <1>4, <3>2, <3>3
    <3> QED
      BY <1>2, <1>4, <3>2, <3>3, <3>4 DEF Group
  <2> QED
    BY <2>1, <2>2
<1>5. Group(u, K \cup L, v, P, E)
  BY <1>2, <1>3, <1>4 DEF Group
<1>6. ASSUME NEW kind, NEW x, Has(s, kind, x) PROVE Has(u, kind, x)
  BY <1>2, <1>6 DEF Has
<1>7. ASSUME NEW kind, NEW x, Has(t, kind, x) PROVE Has(u, kind, x)
  BY <1>2, <1>7 DEF Has
<1> QED
  BY <1>5, <1>6, <1>7 DEF u

LEMMA PartIsGroup ==
  ASSUME NEW s, NEW kind, NEW S, NEW v, NEW P, NEW E, PartOK(s, kind, S, v),
         kind = "position" => S \subseteq P,
         kind = "clear" => S \cap P = {},
         kind = "event" => S \subseteq E /\ \A i, j \in 1..Len(s) : i < j => s[i].arg < s[j].arg
  PROVE  /\ Group(s, {kind}, v, P, E)
         /\ \A x \in S : Has(s, kind, x)
<1>1. \A i \in 1..Len(s) : s[i].kind = kind /\ s[i].version = v /\ s[i].arg \in S
  BY DEF PartOK
<1>2. \A i, j \in 1..Len(s) :
        i < j /\ s[i].kind = "event" /\ s[j].kind = "event" => s[i].arg < s[j].arg
  BY <1>1
<1>3. Group(s, {kind}, v, P, E)
  BY <1>1, <1>2 DEF Group, PartOK
<1> QED
  BY <1>1, <1>3 DEF PartOK, Has

\* A whole snapshot: `online' is its last publication and no other, there is
\* one of each group, and the deletions and new events are those it should have.
SnapshotOK(s, state, known, old) ==
  /\ Group(s, {"status", "clear", "position", "values", "event", "online"},
           state.version, state.positions, EventIds(state) \ old)
  /\ s # <<>>
  /\ s[Len(s)].kind = "online"
  /\ \A i \in 1..Len(s) - 1 : s[i].kind # "online"
  /\ Has(s, "status", 0) /\ Has(s, "values", 0)
  /\ \A p \in known \ state.positions : Has(s, "clear", p)
  /\ \A p \in state.positions : Has(s, "position", p)

LEMMA SnapshotIsOK ==
  ASSUME NEW state \in CurrentState, NEW known \in SUBSET Positions, NEW old,
         \A i, j \in 1..Len(state.events) : i < j => state.events[i] < state.events[j]
  PROVE  SnapshotOK(Snapshot(state, known, old), state, known, old)
<1> DEFINE v == state.version
           P == state.positions
           E == EventIds(state) \ old
           a == Service(state)
           b == Each("clear", known \ P, v)
           c == Each("position", P, v)
           d == Values(state)
           e == NewEvents(state, old)
           o == One("online", v)
<1>1. v \in Nat /\ (known \ P) \cap P = {} /\ P \in SUBSET Positions /\ known \ P \in SUBSET Positions
  BY DEF CurrentState
<1>2. Snapshot(state, known, old) = (((a \o (b \o c)) \o d) \o e) \o o
  BY DEF Snapshot, InventoryPublications
<1>3. /\ PartOK(a, "status", {0}, v) /\ PartOK(d, "values", {0}, v)
      /\ PartOK(o, "online", {0}, v) /\ Len(o) = 1
  BY <1>1, OnePart DEF Service, Values
<1>4. PartOK(b, "clear", known \ P, v) /\ PartOK(c, "position", P, v)
  BY <1>1, EachPart
<1>5. PartOK(e, "event", E, v) /\ \A i, j \in 1..Len(e) : i < j => e[i].arg < e[j].arg
  BY EventsPart
<1> HIDE DEF v, P, E, a, b, c, d, e, o
<1>6. Group(a, {"status"}, v, P, E) /\ Has(a, "status", 0)
  BY <1>3, PartIsGroup
<1>7. Group(b, {"clear"}, v, P, E) /\ \A p \in known \ P : Has(b, "clear", p)
  BY <1>1, <1>4, PartIsGroup
<1>8. Group(c, {"position"}, v, P, E) /\ \A p \in P : Has(c, "position", p)
  BY <1>4, PartIsGroup
<1>9. Group(d, {"values"}, v, P, E) /\ Has(d, "values", 0)
  BY <1>3, PartIsGroup
<1>10. Group(e, {"event"}, v, P, E)
  BY <1>5, PartIsGroup
<1>11. Group(o, {"online"}, v, P, E)
  BY <1>3, PartIsGroup
<1> DEFINE f == b \o c
           g == a \o f
           h == g \o d
           k == h \o e
           s == k \o o
<1>12. /\ Group(f, {"clear"} \cup {"position"}, v, P, E)
       /\ \A p \in known \ P : Has(f, "clear", p)
       /\ \A p \in P : Has(f, "position", p)
  BY <1>7, <1>8, JoinedGroups
<1> HIDE DEF f
<1>13. /\ Group(g, {"status"} \cup ({"clear"} \cup {"position"}), v, P, E)
       /\ Has(g, "status", 0)
       /\ \A p \in known \ P : Has(g, "clear", p)
       /\ \A p \in P : Has(g, "position", p)
  BY <1>6, <1>12, JoinedGroups
<1> HIDE DEF g
<1>14. /\ Group(h, {"status", "clear", "position", "values"}, v, P, E)
       /\ Has(h, "status", 0) /\ Has(h, "values", 0)
       /\ \A p \in known \ P : Has(h, "clear", p)
       /\ \A p \in P : Has(h, "position", p)
  <2>1. {"status"} \cup ({"clear"} \cup {"position"}) \cup {"values"}
          = {"status", "clear", "position", "values"}
    OBVIOUS
  <2> QED
    <3> DEFINE K == {"status"} \cup ({"clear"} \cup {"position"})
    <3>1. "event" \notin {"values"} /\ Group(g, K, v, P, E)
      BY <1>13
    <3> HIDE DEF K, h
    <3>2. /\ Group(g \o d, K \cup {"values"}, v, P, E)
          /\ \A kind, x : Has(g, kind, x) \/ Has(d, kind, x) => Has(g \o d, kind, x)
      BY <1>9, <3>1, JoinedGroups
    <3> QED
      BY <1>9, <1>13, <2>1, <3>2 DEF h, K
<1> HIDE DEF h
<1>15. /\ Group(k, {"status", "clear", "position", "values", "event"}, v, P, E)
       /\ Has(k, "status", 0) /\ Has(k, "values", 0)
       /\ \A p \in known \ P : Has(k, "clear", p)
       /\ \A p \in P : Has(k, "position", p)
  <2>1. {"status", "clear", "position", "values"} \cup {"event"}
          = {"status", "clear", "position", "values", "event"}
    OBVIOUS
  <2> QED
    <3> DEFINE K == {"status", "clear", "position", "values"}
    <3>1. "event" \notin K /\ Group(h, K, v, P, E)
      BY <1>14
    <3> HIDE DEF K, k
    <3>2. /\ Group(h \o e, K \cup {"event"}, v, P, E)
          /\ \A kind, x : Has(h, kind, x) \/ Has(e, kind, x) => Has(h \o e, kind, x)
      BY <1>10, <3>1, JoinedGroups
    <3> QED
      BY <1>14, <2>1, <3>2 DEF k, K
<1> HIDE DEF k
<1>16. /\ Group(s, {"status", "clear", "position", "values", "event", "online"}, v, P, E)
       /\ Has(s, "status", 0) /\ Has(s, "values", 0)
       /\ \A p \in known \ P : Has(s, "clear", p)
       /\ \A p \in P : Has(s, "position", p)
  <2>1. {"status", "clear", "position", "values", "event"} \cup {"online"}
          = {"status", "clear", "position", "values", "event", "online"}
    OBVIOUS
  <2> QED
    <3> DEFINE K == {"status", "clear", "position", "values", "event"}
    <3>1. "event" \notin {"online"} /\ Group(k, K, v, P, E)
      BY <1>15
    <3> HIDE DEF K, s
    <3>2. /\ Group(k \o o, K \cup {"online"}, v, P, E)
          /\ \A kind, x : Has(k, kind, x) \/ Has(o, kind, x) => Has(k \o o, kind, x)
      BY <1>11, <3>1, JoinedGroups
    <3> QED
      BY <1>15, <2>1, <3>2 DEF s, K
<1>17. k \in Seq(Publication) /\ o \in Seq(Publication)
  BY <1>11, <1>15 DEF Group
<1>18. /\ Len(s) = Len(k) + 1 /\ Len(k) \in Nat
       /\ \A i \in 1..Len(k) : s[i] = k[i]
       /\ s[Len(k) + 1] = o[1]
  <2>1. Len(o) = 1 /\ 1 \in 1..Len(o)
    BY <1>3
  <2>2. /\ Len(s) = Len(k) + Len(o) /\ Len(k) \in Nat
        /\ \A i \in 1..Len(k) : s[i] = k[i]
        /\ \A j \in 1..Len(o) : s[Len(k) + j] = o[j]
    BY <1>17, Joined
  <2> HIDE DEF s
  <2> QED
    BY <2>1, <2>2
<1>19. s[Len(s)].kind = "online"
  BY <1>3, <1>18 DEF PartOK
<1>20. \A i \in 1..Len(s) - 1 : s[i].kind # "online"
  <2>1. \A i \in 1..Len(k) : k[i].kind # "online"
    BY <1>15 DEF Group
  <2>2. Len(s) - 1 = Len(k)
    BY <1>18
  <2> HIDE DEF s
  <2> QED
    BY <1>18, <2>1, <2>2
<1>21. s # <<>>
  <2>1. Len(s) # 0
    BY <1>18
  <2> HIDE DEF s
  <2> QED
    BY <2>1
<1>22. Snapshot(state, known, old) = s
  BY <1>2 DEF f, g, h, k
<1> HIDE DEF s
<1> QED
  BY <1>16, <1>19, <1>20, <1>21, <1>22 DEF SnapshotOK, v, P, E

(***************************************************************************)
(* One publication after the other.                                        *)
(***************************************************************************)
LEMMA FirstAndRest ==
  ASSUME NEW s \in Seq(Publication), s # <<>>
  PROVE  /\ Head(s) \in Publication /\ Head(s) = s[1]
         /\ Tail(s) \in Seq(Publication)
         /\ Len(s) \in Nat /\ Len(s) >= 1 /\ Len(Tail(s)) = Len(s) - 1
         /\ \A i \in 1..Len(Tail(s)) : i + 1 \in 1..Len(s) /\ Tail(s)[i] = s[i + 1]
         /\ Tail(s) # <<>> => Tail(s)[Len(Tail(s))] = s[Len(s)]
         /\ \A kind, x : Has(s, kind, x) =>
              (Head(s).kind = kind /\ Head(s).arg = x) \/ Has(Tail(s), kind, x)
<1> DEFINE n == Len(s)
           t == Tail(s)
<1>1. n \in Nat /\ n >= 1
  BY EmptySeq
<1>2. /\ Head(s) \in Publication /\ t \in Seq(Publication) /\ Len(t) = n - 1
      /\ \A i \in 1..Len(t) : t[i] = s[i + 1]
  BY HeadTailProperties
<1>3. Head(s) = s[1]
  OBVIOUS
<1> HIDE DEF n, t
<1>4. \A i \in 1..Len(t) : i + 1 \in 1..n
  BY <1>1, <1>2
<1>5. ASSUME t # <<>> PROVE t[Len(t)] = s[n]
  <2>1. Len(t) # 0
    BY <1>2, <1>5, EmptySeq
  <2>2. Len(t) \in 1..Len(t) /\ Len(t) + 1 = n
    BY <1>1, <1>2, <2>1
  <2> QED
    BY <1>2, <2>2
<1>6. ASSUME NEW kind, NEW x, Has(s, kind, x)
      PROVE  (Head(s).kind = kind /\ Head(s).arg = x) \/ Has(t, kind, x)
  <2>1. PICK i \in 1..n : s[i].kind = kind /\ s[i].arg = x
    BY <1>6 DEF Has, n
  <2>2. CASE i = 1
    BY <1>3, <2>1, <2>2
  <2>3. CASE i # 1
    <3>1. i - 1 \in 1..Len(t) /\ (i - 1) + 1 = i
      BY <1>1, <1>2, <2>3
    <3>2. t[i - 1] = s[i]
      BY <1>2, <3>1
    <3> QED
      BY <2>1, <3>1, <3>2 DEF Has
  <2> QED
    BY <2>2, <2>3
<1> QED
  BY <1>1, <1>2, <1>3, <1>4, <1>5, <1>6 DEF n, t

LEMMA StoredFields ==
  ASSUME NEW b \in Retained, NEW p \in Publication
  PROVE  LET r == Stored(b, p)
         IN  /\ r \in Retained
             /\ r.status = IF p.kind = "status" THEN p.version ELSE b.status
             /\ r.values = IF p.kind = "values" THEN p.version ELSE b.values
             /\ r.online = IF p.kind = "online" THEN TRUE ELSE b.online
             /\ \A x \in Positions :
                  r.positions[x] = IF p.kind = "clear" /\ p.arg = x THEN NoVersion
                                   ELSE IF p.kind = "position" /\ p.arg = x THEN p.version
                                   ELSE b.positions[x]
<1>1. p.version \in Nat /\ NoVersion \in Nat
  BY DEF Publication, NoVersion
<1>2. p.kind \in {"status", "clear", "position", "values", "event", "online"}
  BY DEF Publication
<1>3. CASE p.kind = "status"
  BY <1>1, <1>3 DEF Stored, Retained
<1>4. CASE p.kind = "values"
  BY <1>1, <1>4 DEF Stored, Retained
<1>5. CASE p.kind = "clear"
  BY <1>1, <1>5 DEF Stored, Retained
<1>6. CASE p.kind = "position"
  BY <1>1, <1>6 DEF Stored, Retained
<1>7. CASE p.kind = "online"
  BY <1>1, <1>7 DEF Stored, Retained
<1>8. CASE p.kind = "event"
  BY <1>1, <1>8 DEF Stored, Retained
<1> QED
  BY <1>2, <1>3, <1>4, <1>5, <1>6, <1>7, <1>8

\* What is left of a snapshot is of one version; the groups that are no longer
\* in it are on the broker in that version, and so are the topics of the known
\* positions, none of which it deletes; `online' is the last.
OutboxOK(o, b, known) ==
  o # <<>> =>
    LET v == o[Len(o)].version
    IN  /\ v # NoVersion
        /\ o[Len(o)].kind = "online"
        /\ \A i \in 1..Len(o) - 1 : o[i].kind # "online"
        /\ \A i \in 1..Len(o) : o[i].version = v
        /\ b.status = v \/ Has(o, "status", 0)
        /\ b.values = v \/ Has(o, "values", 0)
        /\ \A p \in known : b.positions[p] = v \/ Has(o, "position", p)
        /\ \A i \in 1..Len(o) : o[i].kind = "clear" => o[i].arg \notin known

\* Events are passed on, waiting in the snapshot, seen, or younger than all of
\* those.
EventsOK(o, l, old, state) ==
  /\ \A i, j \in 1..Len(l) : i < j => l[i] < l[j]
  /\ \A i \in 1..Len(l) : l[i] \in old
  /\ \A i \in 1..Len(o) :
       o[i].kind = "event" => o[i].arg \in old /\ \A j \in 1..Len(l) : l[j] < o[i].arg
  /\ \A i, j \in 1..Len(o) :
       i < j /\ o[i].kind = "event" /\ o[j].kind = "event" => o[i].arg < o[j].arg
  /\ \A e \in old : e <= state.version
  /\ \A i, j \in 1..Len(state.events) : i < j => state.events[i] < state.events[j]
  /\ \A i \in 1..Len(state.events) :
       /\ state.events[i] <= state.version
       /\ state.events[i] \notin old => \A e \in old : e < state.events[i]

\* A retained topic is remembered, or its deletion is still to come.
TopicsOK(o, b, known) ==
  /\ \A p \in Positions : b.positions[p] # NoVersion => p \in known \/ Has(o, "clear", p)
  /\ \A i \in 1..Len(o) : o[i].kind = "position" => o[i].arg \in known

LEMMA SnapshotBegins ==
  ASSUME NEW state \in CurrentState, NEW known \in SUBSET Positions, NEW old \in SUBSET Nat,
         NEW b \in Retained, NEW l \in Seq(Nat),
         EventsOK(<<>>, l, old, state)
  PROVE  LET s == Snapshot(state, known, old)
         IN  /\ s \in Seq(Publication) /\ s # <<>>
             /\ OutboxOK(s, b, state.positions)
             /\ EventsOK(s, l, old \cup EventIds(state), state)
             /\ TopicsOK(<<>>, b, known) => TopicsOK(s, b, state.positions)
<1> DEFINE s == Snapshot(state, known, old)
<1>1. SnapshotOK(s, state, known, old)
  BY SnapshotIsOK DEF EventsOK
<1> HIDE DEF s
<1>2. /\ s \in Seq(Publication) /\ Len(s) \in Nat /\ s # <<>>
      /\ Group(s, {"status", "clear", "position", "values", "event", "online"},
               state.version, state.positions, EventIds(state) \ old)
  BY <1>1, LenProperties DEF SnapshotOK, Group
<1>3. Len(s) \in 1..Len(s)
  BY <1>2, EmptySeq
<1>4. OutboxOK(s, b, state.positions)
  <2>1. state.version # NoVersion
    BY DEF CurrentState
  <2> QED
    BY <1>1, <1>2, <1>3, <2>1 DEF OutboxOK, SnapshotOK, Group
<1>5. ASSUME TopicsOK(<<>>, b, known) PROVE TopicsOK(s, b, state.positions)
  <2>1. \A p \in Positions : b.positions[p] # NoVersion => p \in known
    BY <1>5 DEF TopicsOK, Has
  <2> QED
    BY <1>1, <1>2, <2>1 DEF TopicsOK, SnapshotOK, Group
<1> DEFINE e == state.events
<1>6. /\ Len(e) \in Nat /\ EventIds(state) = {e[i] : i \in 1..Len(e)}
      /\ \A i \in 1..Len(e) : e[i] \in Nat
  BY LenProperties DEF CurrentState, EventIds
<1>7. Len(l) \in Nat /\ \A j \in 1..Len(l) : l[j] \in Nat /\ l[j] \in old
  BY LenProperties DEF EventsOK
<1>8. EventsOK(s, l, old \cup EventIds(state), state)
  <2>1. ASSUME NEW i \in 1..Len(s), s[i].kind = "event"
        PROVE  /\ s[i].arg \in EventIds(state)
               /\ \A j \in 1..Len(l) : l[j] < s[i].arg
    <3>1. s[i].arg \in EventIds(state) /\ s[i].arg \notin old
      BY <1>2, <2>1 DEF Group
    <3>2. PICK k \in 1..Len(e) : s[i].arg = e[k]
      BY <1>6, <3>1
    <3>3. \A x \in old : x < e[k]
      BY <3>1, <3>2 DEF EventsOK
    <3> QED
      BY <1>7, <3>1, <3>2, <3>3
  <2>2. \A i, j \in 1..Len(s) :
          i < j /\ s[i].kind = "event" /\ s[j].kind = "event" => s[i].arg < s[j].arg
    BY <1>2 DEF Group
  <2>3. \A x \in old \cup EventIds(state) : x <= state.version
    BY <1>6 DEF EventsOK
  <2>4. \A i \in 1..Len(e) : e[i] \in EventIds(state)
    BY <1>6
  <2> QED
    BY <1>7, <2>1, <2>2, <2>3, <2>4 DEF EventsOK
<1> QED
  BY <1>2, <1>4, <1>5, <1>8 DEF s

\* A publication that turns `online' true is the last of its snapshot, whose
\* groups are on the broker.
LEMMA GroupsSent ==
  ASSUME NEW o \in Seq(Publication), o # <<>>, NEW b \in Retained,
         NEW known \in SUBSET Positions, OutboxOK(o, b, known)
  PROVE  LET r == Stored(b, Head(o))
         IN  /\ OutboxOK(Tail(o), r, known)
             /\ r.online /\ ~b.online =>
                  /\ r.status # NoVersion /\ r.values = r.status
                  /\ \A x \in known : r.positions[x] = r.status
<1> DEFINE t == Tail(o)
           p == Head(o)
           r == Stored(b, p)
           v == o[Len(o)].version
           n == Len(o)
<1>1. /\ p \in Publication /\ p = o[1] /\ t \in Seq(Publication)
      /\ n \in Nat /\ n >= 1 /\ Len(t) = n - 1
      /\ \A i \in 1..Len(t) : i + 1 \in 1..n /\ t[i] = o[i + 1]
      /\ t # <<>> => t[Len(t)] = o[n]
      /\ \A kind, x : Has(o, kind, x) => (p.kind = kind /\ p.arg = x) \/ Has(t, kind, x)
  BY FirstAndRest
<1>2. /\ r.status = IF p.kind = "status" THEN p.version ELSE b.status
      /\ r.values = IF p.kind = "values" THEN p.version ELSE b.values
      /\ r.online = IF p.kind = "online" THEN TRUE ELSE b.online
      /\ \A x \in known :
           r.positions[x] = IF p.kind = "clear" /\ p.arg = x THEN NoVersion
                            ELSE IF p.kind = "position" /\ p.arg = x THEN p.version
                            ELSE b.positions[x]
  BY <1>1, StoredFields
<1>3. /\ v # NoVersion
      /\ o[n].kind = "online"
      /\ \A i \in 1..(n - 1) : o[i].kind # "online"
      /\ \A i \in 1..n : o[i].version = v
      /\ b.status = v \/ Has(o, "status", 0)
      /\ b.values = v \/ Has(o, "values", 0)
      /\ \A x \in known : b.positions[x] = v \/ Has(o, "position", x)
      /\ \A i \in 1..n : o[i].kind = "clear" => o[i].arg \notin known
  BY DEF OutboxOK
<1> HIDE DEF t, p, r, v, n
<1>4. 1 \in 1..n /\ p.version = v
  <2>1. 1 \in 1..n
    BY <1>1
  <2> QED
    BY <1>1, <1>3, <2>1
<1>5. r.status = v \/ Has(t, "status", 0)
  BY <1>1, <1>2, <1>3, <1>4
<1>6. r.values = v \/ Has(t, "values", 0)
  BY <1>1, <1>2, <1>3, <1>4
<1>10. ASSUME NEW x \in known PROVE r.positions[x] = v \/ Has(t, "position", x)
  <2>1. ~(p.kind = "clear" /\ p.arg = x)
    BY <1>1, <1>3, <1>4
  <2>2. CASE p.kind = "position" /\ p.arg = x
    BY <1>2, <1>4, <2>1, <2>2
  <2>3. CASE ~(p.kind = "position" /\ p.arg = x)
    <3>1. r.positions[x] = b.positions[x]
      BY <1>2, <2>1, <2>3
    <3> QED
      BY <1>1, <1>3, <2>3, <3>1
  <2> QED
    BY <2>2, <2>3
<1>7. ASSUME t # <<>> PROVE OutboxOK(t, r, known)
  <2>1. t[Len(t)] = o[n]
    BY <1>1, <1>7
  <2>2. \A i \in 1..(Len(t) - 1) : t[i].kind # "online"
    <3> TAKE i \in 1..(Len(t) - 1)
    <3>1. i \in 1..Len(t) /\ i + 1 \in 1..(n - 1)
      BY <1>1
    <3> QED
      BY <1>1, <1>3, <3>1
  <2>3. \A i \in 1..Len(t) : t[i].version = v
    BY <1>1, <1>3
  <2>4. \A i \in 1..Len(t) : t[i].kind = "clear" => t[i].arg \notin known
    BY <1>1, <1>3
  <2> QED
    BY <1>3, <1>5, <1>6, <1>10, <2>1, <2>2, <2>3, <2>4 DEF OutboxOK, v, n
<1>8. ASSUME r.online, ~b.online
      PROVE  /\ r.status # NoVersion /\ r.values = r.status
             /\ \A x \in known : r.positions[x] = r.status
  <2>1. p.kind = "online"
    BY <1>2, <1>8
  <2>2. ~(1 \in 1..(n - 1))
    BY <1>1, <1>3, <2>1
  <2>3. Len(t) = 0
    BY <1>1, <2>2
  <2>4. \A kind, x : ~Has(t, kind, x)
    BY <2>3 DEF Has
  <2> QED
    BY <1>3, <1>5, <1>6, <1>10, <2>4
<1>9. OutboxOK(t, r, known)
  BY <1>7 DEF OutboxOK
<1> QED
  BY <1>8, <1>9 DEF t, p, r

LEMMA EventSent ==
  ASSUME NEW o \in Seq(Publication), o # <<>>, NEW l \in Seq(Nat), NEW old, NEW state,
         EventsOK(o, l, old, state),
         NEW m, m = IF Head(o).kind = "event" THEN Append(l, Head(o).arg) ELSE l
  PROVE  m \in Seq(Nat) /\ EventsOK(Tail(o), m, old, state)
<1> DEFINE t == Tail(o)
           p == Head(o)
<1>1. /\ p \in Publication /\ p = o[1] /\ t \in Seq(Publication)
      /\ Len(o) \in Nat /\ Len(o) >= 1 /\ Len(t) = Len(o) - 1
      /\ \A i \in 1..Len(t) : i + 1 \in 1..Len(o) /\ t[i] = o[i + 1]
  BY FirstAndRest
<1>2. m = IF p.kind = "event" THEN Append(l, p.arg) ELSE l
  OBVIOUS
<1> HIDE DEF t, p
<1>3. p.arg \in Nat /\ Len(l) \in Nat /\ 1 \in 1..Len(o)
  BY <1>1, LenProperties DEF Publication
<1>4. \A i, j \in 1..Len(t) :
        i < j /\ t[i].kind = "event" /\ t[j].kind = "event" => t[i].arg < t[j].arg
  <2> SUFFICES ASSUME NEW i \in 1..Len(t), NEW j \in 1..Len(t), i < j,
                      t[i].kind = "event", t[j].kind = "event"
               PROVE  t[i].arg < t[j].arg
    OBVIOUS
  <2>1. i + 1 \in 1..Len(o) /\ j + 1 \in 1..Len(o) /\ i + 1 < j + 1
    BY <1>1
  <2> QED
    BY <1>1, <2>1 DEF EventsOK
<1>5. CASE p.kind # "event"
  <2>1. m = l
    BY <1>2, <1>5
  <2> QED
    BY <1>1, <1>4, <2>1 DEF EventsOK, t
<1>6. CASE p.kind = "event"
  <2>1. /\ m \in Seq(Nat) /\ Len(m) = Len(l) + 1 /\ m[Len(l) + 1] = p.arg
        /\ \A i \in 1..Len(l) : m[i] = l[i]
    BY <1>2, <1>3, <1>6, AppendProperties
  <2>2. p.arg \in old /\ \A j \in 1..Len(l) : l[j] < p.arg
    BY <1>1, <1>3, <1>6 DEF EventsOK
  <2>3. \A i \in 1..Len(m) : i \in 1..Len(l) \/ i = Len(l) + 1
    BY <1>3, <2>1
  <2>4. \A i \in 1..Len(m) : m[i] \in old
    BY <2>1, <2>2, <2>3 DEF EventsOK
  <2>5. ASSUME NEW i \in 1..Len(m), NEW j \in 1..Len(m), i < j PROVE m[i] < m[j]
    <3>1. i \in 1..Len(l)
      BY <1>3, <2>1, <2>5
    <3>2. CASE j \in 1..Len(l)
      BY <2>1, <2>5, <3>1, <3>2 DEF EventsOK
    <3>3. CASE j = Len(l) + 1
      BY <2>1, <2>2, <3>1, <3>3
    <3> QED
      BY <2>3, <3>2, <3>3
  <2>6. ASSUME NEW i \in 1..Len(t), t[i].kind = "event"
        PROVE  t[i].arg \in old /\ \A j \in 1..Len(m) : m[j] < t[i].arg
    <3>1. i + 1 \in 1..Len(o) /\ t[i] = o[i + 1] /\ 1 < i + 1
      BY <1>1
    <3>2. /\ t[i].arg \in old /\ p.arg < t[i].arg
          /\ \A j \in 1..Len(l) : l[j] < t[i].arg
      BY <1>1, <1>3, <1>6, <2>6, <3>1 DEF EventsOK
    <3> QED
      BY <2>1, <2>3, <3>2
  <2> QED
    BY <1>4, <2>1, <2>4, <2>5, <2>6 DEF EventsOK, t
<1> QED
  BY <1>5, <1>6

LEMMA TopicSent ==
  ASSUME NEW o \in Seq(Publication), o # <<>>, NEW b \in Retained, NEW known,
         TopicsOK(o, b, known)
  PROVE  TopicsOK(Tail(o), Stored(b, Head(o)), known)
<1> DEFINE t == Tail(o)
           p == Head(o)
           r == Stored(b, p)
<1>1. /\ p \in Publication /\ p = o[1] /\ t \in Seq(Publication)
      /\ Len(o) \in Nat /\ Len(o) >= 1
      /\ \A i \in 1..Len(t) : i + 1 \in 1..Len(o) /\ t[i] = o[i + 1]
      /\ \A kind, x : Has(o, kind, x) => (p.kind = kind /\ p.arg = x) \/ Has(t, kind, x)
  BY FirstAndRest
<1>2. \A x \in Positions :
        r.positions[x] = IF p.kind = "clear" /\ p.arg = x THEN NoVersion
                         ELSE IF p.kind = "position" /\ p.arg = x THEN p.version
                         ELSE b.positions[x]
  BY <1>1, StoredFields
<1> HIDE DEF t, p, r
<1>3. p.kind = "position" => p.arg \in known
  <2>1. 1 \in 1..Len(o)
    BY <1>1
  <2> QED
    BY <1>1, <2>1 DEF TopicsOK
<1>4. ASSUME NEW x \in Positions, r.positions[x] # NoVersion
      PROVE  x \in known \/ Has(t, "clear", x)
  <2>1. ~(p.kind = "clear" /\ p.arg = x)
    BY <1>2, <1>4
  <2>2. CASE p.kind = "position" /\ p.arg = x
    BY <1>3, <2>2
  <2>3. CASE ~(p.kind = "position" /\ p.arg = x)
    <3>1. b.positions[x] # NoVersion
      BY <1>2, <1>4, <2>1, <2>3
    <3>2. x \in known \/ Has(o, "clear", x)
      BY <3>1 DEF TopicsOK
    <3> QED
      BY <1>1, <2>1, <3>2
  <2> QED
    BY <2>2, <2>3
<1>5. \A i \in 1..Len(t) : t[i].kind = "position" => t[i].arg \in known
  BY <1>1 DEF TopicsOK
<1> QED
  BY <1>4, <1>5 DEF TopicsOK, t, p, r

\* A new state: its event, if there is one, is younger than all before.
LEMMA NewState ==
  ASSUME NEW state \in CurrentState, NEW positions \in SUBSET Positions,
         NEW o, NEW l, NEW old \in SUBSET Nat, EventsOK(o, l, old, state),
         NEW new,
         new = [version   |-> state.version + 1,
                positions |-> positions,
                events    |-> IF positions = state.positions THEN state.events
                              ELSE LastEvents(Append(state.events, state.version + 1))]
  PROVE  new \in CurrentState /\ EventsOK(o, l, old, new)
<1> DEFINE e == state.events
           v == state.version
           a == Append(e, v + 1)
           f == new.events
<1>1. /\ e \in Seq(Nat) /\ v \in Nat /\ v + 1 \in Nat /\ Len(e) \in Nat
      /\ \A i \in 1..Len(e) : e[i] \in Nat
  BY LenProperties DEF CurrentState
<1>2. /\ \A i, j \in 1..Len(e) : i < j => e[i] < e[j]
      /\ \A i \in 1..Len(e) : e[i] <= v /\ (e[i] \notin old => \A x \in old : x < e[i])
      /\ \A x \in old : x \in Nat /\ x <= v
  BY DEF EventsOK
<1>3. /\ f = e \/ f = LastEvents(a)
      /\ new.version = v + 1 /\ new.positions = positions
      /\ new = [version |-> new.version, positions |-> new.positions, events |-> f]
  OBVIOUS
<1>4. /\ a \in Seq(Nat) /\ Len(a) = Len(e) + 1 /\ a[Len(e) + 1] = v + 1
      /\ \A i \in 1..Len(e) : a[i] = e[i]
  BY <1>1, AppendProperties
<1> HIDE DEF e, v, a, f
<1>5. \A x \in old : x <= v + 1 /\ x < v + 1
  BY <1>1, <1>2
<1>6. /\ \A i, j \in 1..Len(a) : i < j => a[i] < a[j]
      /\ \A i \in 1..Len(a) : a[i] <= v + 1 /\ (a[i] \notin old => \A x \in old : x < a[i])
  <2>1. \A i \in 1..Len(a) : i \in 1..Len(e) \/ i = Len(e) + 1
    BY <1>1, <1>4
  <2>2. ASSUME NEW i \in 1..Len(a), NEW j \in 1..Len(a), i < j PROVE a[i] < a[j]
    <3>1. i \in 1..Len(e) /\ a[i] = e[i] /\ e[i] \in Nat /\ e[i] <= v
      BY <1>1, <1>2, <1>4, <2>2
    <3>2. CASE j \in 1..Len(e)
      BY <1>2, <1>4, <2>2, <3>1, <3>2
    <3>3. CASE j = Len(e) + 1
      BY <1>1, <1>4, <3>1, <3>3
    <3> QED
      BY <2>1, <3>2, <3>3
  <2>3. ASSUME NEW i \in 1..Len(a)
        PROVE  a[i] <= v + 1 /\ (a[i] \notin old => \A x \in old : x < a[i])
    <3>1. CASE i \in 1..Len(e)
      <4>1. a[i] = e[i] /\ e[i] \in Nat /\ e[i] <= v
        BY <1>1, <1>2, <1>4, <3>1
      <4> QED
        BY <1>1, <1>2, <3>1, <4>1
    <3>2. CASE i = Len(e) + 1
      BY <1>1, <1>4, <1>5, <3>2
    <3> QED
      BY <2>1, <3>1, <3>2
  <2> QED
    BY <2>2, <2>3
<1>7. /\ f \in Seq(Nat)
      /\ \A i, j \in 1..Len(f) : i < j => f[i] < f[j]
      /\ \A i \in 1..Len(f) : f[i] <= v + 1 /\ (f[i] \notin old => \A x \in old : x < f[i])
  <2>1. CASE f = e
    BY <1>1, <1>2, <2>1
  <2>2. CASE f = a
    BY <1>4, <1>6, <2>2
  <2>3. CASE f = LastEvents(a) /\ ~(Len(a) <= KeptEvents)
    <3> DEFINE k == Len(a) - KeptEvents
               g == SubSeq(a, k + 1, Len(a))
    <3>1. /\ Len(a) \in Nat /\ KeptEvents \in Nat /\ KeptEvents >= 1 /\ k \in Nat
          /\ k + 1 \in Int /\ Len(a) \in Int /\ k + 1 <= Len(a)
          /\ Len(a) - (k + 1) + 1 = KeptEvents
      <4>1. Len(a) \in Nat /\ KeptEvents \in Nat /\ KeptEvents >= 1
        BY <1>1, <1>4, KeptAssumption
      <4>2. KeptEvents < Len(a)
        BY <2>3, <4>1
      <4> QED
        BY <4>1, <4>2
    <3>2. f = g
      BY <2>3 DEF LastEvents
    <3>3. \A i \in (k + 1)..Len(a) : a[i] \in Nat
      BY <1>4, <3>1, ElementOfSeq
    <3>4. \A i \in 1..KeptEvents : k + 1 + i - 1 = k + i /\ k + i \in 1..Len(a)
      BY <3>1
    <3> HIDE DEF k
    <3>5. /\ g \in Seq(Nat)
          /\ Len(g) = IF k + 1 <= Len(a) THEN Len(a) - (k + 1) + 1 ELSE 0
          /\ \A i \in 1..(Len(a) - (k + 1) + 1) : g[i] = a[k + 1 + i - 1]
      BY <3>1, <3>3, SubSeqProperties
    <3> HIDE DEF g
    <3>6. Len(g) = KeptEvents /\ \A i \in 1..KeptEvents : g[i] = a[k + i]
      BY <3>1, <3>4, <3>5
    <3>7. \A i, j \in 1..KeptEvents : i < j => k + i < k + j
      BY <3>1
    <3> QED
      BY <1>6, <3>2, <3>4, <3>5, <3>6, <3>7
  <2> QED
    BY <1>3, <2>1, <2>2, <2>3 DEF LastEvents
<1>8. new \in CurrentState
  <2>1. v + 1 \in Nat \ {NoVersion}
    BY <1>1 DEF NoVersion
  <2> QED
    BY <1>3, <1>7, <2>1 DEF CurrentState
<1>9. new.events = f
  BY DEF f
<1> QED
  BY <1>3, <1>5, <1>7, <1>8, <1>9 DEF EventsOK

(***************************************************************************)
(* The inductive invariant of the publications.                            *)
(***************************************************************************)
\* As long as no connection was lost, no snapshot has been given up.
KeptInv ==
  losses = 0 =>
    /\ net \notin {"lost", "refused"}
    /\ task # "failing"
    /\ task = "publishing" => link = "up"
    /\ TopicsOK(outbox, broker, topics)

SnapshotInv ==
  /\ task = "publishing" <=> outbox # <<>>
  /\ OutboxOK(outbox, broker, topics)
  /\ EventsOK(outbox, log, seen, current)
  /\ KeptInv

MqttInv == TypeOK /\ LinkInv /\ SnapshotInv

LEMMA MqttInit == Init => MqttInv
<1> SUFFICES ASSUME Init PROVE MqttInv
  OBVIOUS
<1>1. TypeOK
  BY EmptySeq DEF Init, TypeOK, CurrentState, Retained, HealthStates, NoVersion
<1>2. OutboxOK(outbox, broker, topics) /\ (task = "publishing" <=> outbox # <<>>)
  BY DEF Init, OutboxOK
<1>3. EventsOK(outbox, log, seen, current)
  <2>1. outbox = <<>> /\ log = <<>> /\ seen = {} /\ current.events = <<>>
    BY DEF Init
  <2>2. Len(<<>>) = 0
    BY EmptySeq
  <2> QED
    BY <2>1, <2>2 DEF EventsOK
<1>4. KeptInv
  BY EmptySeq DEF Init, KeptInv, TopicsOK
<1> QED
  BY <1>1, <1>2, <1>3, <1>4, InitInv DEF MqttInv, SnapshotInv

LEMMA PublishStep ==
  ASSUME MqttInv, Publish
  PROVE  TypeOK' /\ SnapshotInv'
<1>1. /\ task = "waiting" /\ task' = "publishing" /\ phase = "running" /\ health = "connected"
      /\ outbox' = Snapshot(current, topics, seen)
      /\ topics' = current.positions /\ seen' = seen \cup EventIds(current)
      /\ phase' = phase /\ health' = health /\ current' = current /\ link' = link
      /\ net' = net /\ losses' = losses /\ broker' = broker /\ log' = log
  BY DEF Publish, brokerVars
<1>2. /\ current \in CurrentState /\ topics \in SUBSET Positions /\ seen \in SUBSET Nat
      /\ broker \in Retained /\ log \in Seq(Nat) /\ outbox = <<>>
  BY <1>1 DEF MqttInv, TypeOK, SnapshotInv
<1>3. EventsOK(<<>>, log, seen, current)
  BY <1>2 DEF MqttInv, SnapshotInv
<1>4. PICK s : s = Snapshot(current, topics, seen)
  OBVIOUS
<1>5. /\ s \in Seq(Publication) /\ s # <<>>
      /\ OutboxOK(s, broker, current.positions)
      /\ EventsOK(s, log, seen \cup EventIds(current), current)
      /\ TopicsOK(<<>>, broker, topics) => TopicsOK(s, broker, current.positions)
  BY <1>2, <1>3, <1>4, SnapshotBegins
<1>6. outbox' = s
  BY <1>1, <1>4
<1>7. EventIds(current) \subseteq Nat /\ current.positions \subseteq Positions
  BY <1>2, LenProperties DEF EventIds, CurrentState
<1>8. TypeOK'
  BY <1>1, <1>5, <1>6, <1>7 DEF MqttInv, TypeOK
<1>9. KeptInv'
  <2> SUFFICES ASSUME losses = 0
               PROVE  /\ net \notin {"lost", "refused"} /\ link = "up"
                      /\ TopicsOK(s, broker, current.positions)
    BY <1>1, <1>6 DEF KeptInv
  <2>1. net \notin {"lost", "refused"} /\ TopicsOK(<<>>, broker, topics)
    BY <1>2 DEF MqttInv, SnapshotInv, KeptInv
  <2>2. link = "up"
    BY <1>1, <2>1 DEF MqttInv, LinkInv, HealthFollowsLink
  <2> QED
    BY <1>5, <2>1, <2>2
<1> QED
  BY <1>1, <1>5, <1>6, <1>8, <1>9 DEF SnapshotInv

LEMMA PublishesStep ==
  ASSUME MqttInv, Publishes
  PROVE  /\ TypeOK' /\ SnapshotInv'
         /\ broker'.online /\ ~broker.online => Complete(broker')
<1>1. /\ task = "publishing" /\ link = "up"
      /\ broker' = Stored(broker, Head(outbox))
      /\ log' = IF Head(outbox).kind = "event" THEN Append(log, Head(outbox).arg) ELSE log
      /\ outbox' = Tail(outbox)
      /\ task' = IF Tail(outbox) = <<>> THEN "waiting" ELSE "publishing"
      /\ phase' = phase /\ health' = health /\ current' = current /\ link' = link
      /\ net' = net /\ losses' = losses /\ topics' = topics /\ seen' = seen
  BY DEF Publishes
<1>2. /\ outbox \in Seq(Publication) /\ outbox # <<>>
      /\ broker \in Retained /\ log \in Seq(Nat)
      /\ topics \in SUBSET Positions
      /\ OutboxOK(outbox, broker, topics) /\ EventsOK(outbox, log, seen, current)
  BY <1>1 DEF MqttInv, TypeOK, SnapshotInv
<1>3. PICK b, m, t : b = broker' /\ m = log' /\ t = outbox'
  OBVIOUS
<1>4. Head(outbox) \in Publication /\ t \in Seq(Publication)
  BY <1>1, <1>2, <1>3, FirstAndRest
<1>5. b \in Retained
  BY <1>1, <1>2, <1>3, <1>4, StoredFields
<1>6. OutboxOK(t, b, topics) /\ (b.online /\ ~broker.online => Complete(b))
  BY <1>1, <1>2, <1>3, GroupsSent DEF Complete
<1>7. m \in Seq(Nat) /\ EventsOK(t, m, seen, current)
  BY <1>1, <1>2, <1>3, EventSent
<1>8. losses = 0 => TopicsOK(t, b, topics)
  BY <1>1, <1>2, <1>3, TopicSent DEF MqttInv, SnapshotInv, KeptInv
<1>9. TypeOK'
  BY <1>1, <1>3, <1>4, <1>5, <1>7 DEF MqttInv, TypeOK
<1>10. task' = "publishing" <=> t # <<>>
  BY <1>1, <1>3
<1>11. KeptInv'
  BY <1>1, <1>3, <1>8 DEF MqttInv, SnapshotInv, KeptInv
<1> QED
  BY <1>1, <1>3, <1>6, <1>7, <1>9, <1>10, <1>11 DEF SnapshotInv

\* The steps that leave the snapshot and the broker's groups alone.
LEMMA OtherStep ==
  ASSUME MqttInv,
         Start \/ StartFails \/ ReportsFailure \/ Stop \/ Stopping
           \/ OnConnect \/ OnConnectFail \/ OnDisconnect
           \/ LinkUp \/ LinkRefused \/ LinkLost \/ UNCHANGED vars
  PROVE  /\ TypeOK' /\ SnapshotInv'
         /\ broker'.online => broker.online
<1> DEFINE offline == [broker EXCEPT !.online = FALSE]
<1>1. /\ outbox' = outbox /\ topics' = topics /\ seen' = seen /\ current' = current
      /\ log' = log
      /\ broker' = broker \/ broker' = offline
      /\ task' = "publishing" <=> task = "publishing"
  <2>1. CASE Start \/ StartFails \/ ReportsFailure
    BY <2>1 DEF Start, StartFails, ReportsFailure, brokerVars, MqttInv, LinkInv, TaskInv
  <2>2. CASE Stop \/ SaysOffline \/ WaitTimesOut
    BY <2>2 DEF Stop, SaysOffline, WaitTimesOut, brokerVars
  <2>3. CASE OfflineSent \/ Disconnects
    BY <2>3 DEF OfflineSent, Disconnects, brokerVars
  <2>4. CASE OnConnect \/ OnConnectFail \/ OnDisconnect
    BY <2>4 DEF OnConnect, OnConnectFail, OnDisconnect, publisherVars, brokerVars
  <2>5. CASE LinkUp \/ LinkRefused \/ LinkLost
    BY <2>5 DEF LinkUp, LinkRefused, LinkLost, publisherVars, brokerVars
  <2>6. CASE UNCHANGED vars
    BY <2>6 DEF vars, publisherVars, brokerVars
  <2> QED
    BY <2>1, <2>2, <2>3, <2>4, <2>5, <2>6 DEF Stopping
<1>2. broker \in Retained /\ losses \in Nat
  BY DEF MqttInv, TypeOK
<1>3. /\ offline \in Retained
      /\ offline.status = broker.status /\ offline.values = broker.values
      /\ offline.positions = broker.positions /\ offline.online = FALSE
  BY <1>2 DEF Retained
<1> HIDE DEF offline
<1>4. PICK b : b = broker'
  OBVIOUS
<1>5. /\ b \in Retained /\ b.status = broker.status /\ b.values = broker.values
      /\ b.positions = broker.positions
      /\ b.online => broker.online
  BY <1>1, <1>2, <1>3, <1>4
<1>6. OutboxOK(outbox, b, topics) /\ EventsOK(outbox, log, seen, current)
  BY <1>5 DEF MqttInv, SnapshotInv, OutboxOK
<1>7. losses = 0 => TopicsOK(outbox, b, topics)
  BY <1>5 DEF MqttInv, SnapshotInv, KeptInv, TopicsOK
<1>8. /\ phase' \in {"new", "off", "running", "stopping", "telling", "parting", "unsent",
                 "stopped"}
      /\ task' \in {"none", "waiting", "publishing", "failing"}
      /\ health' \in HealthStates
      /\ link' \in {"down", "up"}
      /\ net' \in {"idle", "accepted", "refused", "lost"}
      /\ losses' \in Nat
  <2>1. /\ phase \in {"new", "off", "running", "stopping", "telling", "parting", "unsent",
                  "stopped"}
        /\ task \in {"none", "waiting", "publishing", "failing"}
        /\ health \in HealthStates
        /\ link \in {"down", "up"}
        /\ net \in {"idle", "accepted", "refused", "lost"}
        /\ losses \in Nat /\ losses + 1 \in Nat
    BY <1>2 DEF MqttInv, TypeOK
  <2>2. CASE Start \/ StartFails
    BY <2>1, <2>2 DEF Start, StartFails, HealthStates, brokerVars,
                      Connecting, Disconnected
  <2>3. CASE ReportsFailure \/ Stop
    BY <2>1, <2>3 DEF ReportsFailure, Stop, HealthStates, brokerVars, Disconnected
  <2>4. CASE Stopping
    BY <2>1, <2>4 DEF Stopping, SaysOffline, OfflineSent, WaitTimesOut, Disconnects,
                      HealthStates, brokerVars
  <2>5. CASE OnConnect \/ OnConnectFail \/ OnDisconnect
    BY <2>1, <2>5 DEF OnConnect, OnConnectFail, OnDisconnect, publisherVars, brokerVars,
                      Connected, Connecting, Disconnected, HealthStates
  <2>6. CASE LinkUp \/ LinkRefused \/ LinkLost
    BY <2>1, <2>6 DEF LinkUp, LinkRefused, LinkLost, publisherVars, brokerVars
  <2>7. CASE UNCHANGED vars
    BY <2>1, <2>7 DEF vars, publisherVars, brokerVars
  <2> QED
    BY <2>2, <2>3, <2>4, <2>5, <2>6, <2>7
<1>9. TypeOK'
  BY <1>1, <1>4, <1>5, <1>8 DEF MqttInv, TypeOK
<1>10. losses' = 0 =>
         /\ losses = 0
         /\ net' \notin {"lost", "refused"}
         /\ task' # "failing"
         /\ task' = "publishing" => link' = "up"
  <2>1. losses = 0 => /\ net \notin {"lost", "refused"} /\ task # "failing"
                      /\ task = "publishing" => link = "up"
    BY DEF MqttInv, SnapshotInv, KeptInv
  <2>2. losses + 1 # 0
    BY <1>2
  <2>3. CASE Start \/ StartFails \/ ReportsFailure \/ Stop
    BY <2>1, <2>3 DEF Start, StartFails, ReportsFailure, Stop
  <2>4. CASE Stopping
    <3>1. phase # "running" /\ task = "none"
      BY <2>4 DEF Stopping, SaysOffline, OfflineSent, WaitTimesOut, Disconnects,
                  MqttInv, LinkInv, TaskInv
    <3> QED
      BY <2>1, <2>4, <3>1 DEF Stopping, SaysOffline, OfflineSent, WaitTimesOut, Disconnects
  <2>5. CASE OnConnect \/ OnConnectFail \/ OnDisconnect
    BY <2>1, <2>5 DEF OnConnect, OnConnectFail, OnDisconnect, publisherVars
  <2>6. CASE LinkUp \/ LinkRefused \/ LinkLost
    BY <2>1, <2>2, <2>6 DEF LinkUp, LinkRefused, LinkLost, publisherVars
  <2>7. CASE UNCHANGED vars
    BY <2>1, <2>7 DEF vars, publisherVars
  <2> QED
    BY <2>3, <2>4, <2>5, <2>6, <2>7
<1>11. KeptInv'
  BY <1>1, <1>4, <1>7, <1>10 DEF KeptInv
<1>12. SnapshotInv'
  BY <1>1, <1>4, <1>6, <1>11 DEF MqttInv, SnapshotInv
<1> QED
  BY <1>4, <1>5, <1>9, <1>12

LEMMA PublishFailsStep ==
  ASSUME MqttInv, PublishFails
  PROVE  TypeOK' /\ SnapshotInv' /\ broker' = broker
<1>1. /\ task = "publishing" /\ link = "down" /\ task' = "failing" /\ outbox' = <<>>
      /\ phase' = phase /\ health' = health /\ topics' = topics /\ seen' = seen
      /\ current' = current /\ link' = link /\ net' = net /\ losses' = losses
      /\ broker' = broker /\ log' = log
  BY DEF PublishFails, brokerVars
<1>2. losses # 0
  BY <1>1 DEF MqttInv, SnapshotInv, KeptInv
<1>3. <<>> \in Seq(Publication) /\ Len(<<>>) = 0
  BY EmptySeq
<1>4. TypeOK'
  BY <1>1, <1>3 DEF MqttInv, TypeOK
<1>5. OutboxOK(<<>>, broker, topics)
  BY DEF OutboxOK
<1>6. EventsOK(<<>>, log, seen, current)
  BY <1>3 DEF MqttInv, SnapshotInv, EventsOK
<1> QED
  BY <1>1, <1>2, <1>4, <1>5, <1>6 DEF SnapshotInv, KeptInv

LEMMA StateChangesStep ==
  ASSUME MqttInv, NEW positions \in SUBSET Positions, StateChanges(positions)
  PROVE  TypeOK' /\ SnapshotInv' /\ broker' = broker
<1>1. /\ phase' = phase /\ task' = task /\ outbox' = outbox /\ topics' = topics
      /\ seen' = seen /\ health' = health /\ link' = link /\ net' = net
      /\ losses' = losses /\ broker' = broker /\ log' = log
      /\ current' = [version   |-> current.version + 1,
                     positions |-> positions,
                     events    |-> IF positions = current.positions THEN current.events
                                   ELSE LastEvents(Append(current.events,
                                                          current.version + 1))]
  BY DEF StateChanges, publisherVars, brokerVars
<1>2. PICK new : new = current'
  OBVIOUS
<1>3. /\ current \in CurrentState /\ seen \in SUBSET Nat
      /\ EventsOK(outbox, log, seen, current)
  BY DEF MqttInv, TypeOK, SnapshotInv
<1>4. new \in CurrentState /\ EventsOK(outbox, log, seen, new)
  BY <1>1, <1>2, <1>3, NewState
<1>5. TypeOK'
  BY <1>1, <1>2, <1>4 DEF MqttInv, TypeOK
<1> QED
  BY <1>1, <1>2, <1>4, <1>5 DEF MqttInv, SnapshotInv, KeptInv

LEMMA MqttNext ==
  ASSUME MqttInv, [Next]_vars
  PROVE  /\ MqttInv'
         /\ broker'.online /\ ~broker.online => Complete(broker')
<1>1. LinkInv'
  BY StepInv DEF MqttInv
<1>2. CASE Publish
  <2>1. broker' = broker
    BY <1>2 DEF Publish, brokerVars
  <2> QED
    BY <1>1, <1>2, <2>1, PublishStep DEF MqttInv
<1>3. CASE Publishes
  BY <1>1, <1>3, PublishesStep DEF MqttInv
<1>4. CASE PublishFails
  BY <1>1, <1>4, PublishFailsStep DEF MqttInv
<1>5. ASSUME NEW positions \in SUBSET Positions, StateChanges(positions)
      PROVE  TypeOK' /\ SnapshotInv' /\ broker' = broker
  BY <1>5, StateChangesStep
<1>6. CASE \/ Start \/ StartFails \/ ReportsFailure \/ Stop \/ Stopping
           \/ OnConnect \/ OnConnectFail \/ OnDisconnect
           \/ LinkUp \/ LinkRefused \/ LinkLost \/ UNCHANGED vars
  BY <1>1, <1>6, OtherStep DEF MqttInv
<1> QED
  BY <1>1, <1>2, <1>3, <1>4, <1>5, <1>6 DEF Next, Task, Callback, Terminated, MqttInv

(***************************************************************************)
(* The theorems about the publications.                                    *)
(***************************************************************************)
\* The inductive invariant of the publications holds in every reachable state.
THEOREM MqttInvariant == Spec => []MqttInv
<1>1. MqttInv /\ [Next]_vars => MqttInv'
  BY MqttNext
<1> QED
  BY <1>1, MqttInit, PTL DEF Spec

\* Types: what is published, remembered and retained.
THEOREM MqttTypeCorrect == Spec => []TypeOK
<1>1. MqttInv => TypeOK
  BY DEF MqttInv
<1> QED
  BY <1>1, MqttInvariant, PTL

\* Whatever was lost and however often the publisher began again, `online'
\* turns true only when the service, the measurements and the topics of all
\* remembered positions are on the broker, of one and the same version.
THEOREM OnlineMeansComplete == Spec => OnlineIsComplete
<1>1. MqttInv /\ [Next]_vars =>
        [broker'.online /\ ~broker.online => Complete(broker')]_vars
  BY MqttNext
<1> QED
  BY <1>1, MqttInvariant, PTL DEF Spec, OnlineIsComplete

\* No event is passed on twice or behind a younger one, across snapshots given
\* up and connections lost.
THEOREM EventsKeepOrder == Spec => []EventsInOrder
<1>1. MqttInv => EventsInOrder
  BY LenProperties DEF MqttInv, TypeOK, SnapshotInv, EventsOK, EventsInOrder
<1> QED
  BY <1>1, MqttInvariant, PTL

\* As long as no connection was lost, nothing is retained that the serializer
\* does not know of.
THEOREM NothingLeftBehind == Spec => []ObsoleteDeletedUnlessLost
<1>1. MqttInv => ObsoleteDeletedUnlessLost
  BY EmptySeq DEF MqttInv, SnapshotInv, KeptInv, TopicsOK, Has, ObsoleteDeletedUnlessLost
<1> QED
  BY <1>1, MqttInvariant, PTL
=============================================================================
