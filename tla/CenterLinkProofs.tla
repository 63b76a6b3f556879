--------------------------- MODULE CenterLinkProofs ---------------------------
(* What CenterLink guarantees for any set of vehicles and any bounds.      *)
EXTENDS CenterLink, FiniteSetTheorems, FunctionTheorems, TLAPS

(* ConsumerDriven needs only the types beside it.                          *)
LinkInv == TypeOK /\ ConsumerDriven

(* After init_rabbitmq the invariant holds.                                 *)
LEMMA InitEstablishes ==
    Init => LinkInv
BY DEF Init, LinkInv, TypeOK, ConsumerDriven, Conns, ProducerConns, NoRequests

(* Whether the attempt to connect succeeds or not, one driver is left.      *)
LEMMA RetryDrives ==
    ASSUME LinkInv, RetryInitConsuming
    PROVE  conn' \in Conns /\ fd' \in BOOLEAN /\ timer' \in BOOLEAN /\ ConsumerDriven'
BY DEF RetryInitConsuming, LinkInv, TypeOK, ConsumerDriven, Conns

(* What the center sends keeps the queue well formed.                       *)
LEMMA SendKeeps ==
    ASSUME LinkInv, NEW msg \in Messages, Send(msg)
    PROVE  queue' \in Seq(Messages)
<1>1. queue \in Seq(Messages)
  BY DEF LinkInv, TypeOK
<1>2. Append(queue, msg) \in Seq(Messages)
  BY ONLY <1>1, msg \in Messages
<1>3. queue' = Append(queue, msg) \/ queue' = queue
  BY Zenon DEF Send
<1> QED
  BY ONLY <1>1, <1>2, <1>3

(* Applying a message to the requests keeps their counts natural.           *)
LEMMA OnConsumingKeeps ==
    ASSUME LinkInv, OnConsuming
    PROVE  LinkInv'
<1>1. queue' \in Seq(Messages)
  BY DEF OnConsuming, LinkInv, TypeOK
<1>2. requests' \in [Vids -> Nat]
  <2>1. ASSUME NEW v \in Vids
        PROVE  AddRequestItem(v) \in Nat /\ RemoveRequestItem(v) \in Nat /\ requests[v] \in Nat
    BY DEF AddRequestItem, RemoveRequestItem, LinkInv, TypeOK
  <2> QED
    BY <2>1 DEF OnConsuming
<1> QED
  BY <1>1, <1>2 DEF OnConsuming, LinkInv, TypeOK, ConsumerDriven, consuming, producing

(* A cut leaves a connection that was half open as it is.                   *)
LEMMA CutKeeps ==
    ASSUME LinkInv
    PROVE  /\ Cut(conn) \in Conns
           /\ Cut(conn) = "none" <=> conn = "none"
           /\ Cut(pconn) \in ProducerConns
BY DEF Cut, Conns, ProducerConns, LinkInv, TypeOK

(* What the center sends changes neither connection.                        *)
LEMMA CenterKeeps ==
    ASSUME LinkInv, Center
    PROVE  LinkInv'
<1>1. UNCHANGED <<broker, consuming, producing, requests>>
  BY DEF Center, CenterSubscribe, CenterUnsubscribe, CenterSendsEmpty
<1>2. queue' \in Seq(Messages)
  <2>1. \A vs \in SUBSET Vids : /\ [kind |-> "sub", vins |-> vs] \in Messages
                                /\ [kind |-> "unsub", vins |-> vs] \in Messages
                                /\ [kind |-> "empty", vins |-> {}] \in Messages
    BY DEF Messages
  <2> QED
    BY <2>1, SendKeeps DEF Center, CenterSubscribe, CenterUnsubscribe, CenterSendsEmpty
<1>3. active' \in [Vids -> Nat]
  <2>1. CASE \E vs \in SUBSET Vids : CenterSubscribe(vs)
    BY <2>1 DEF CenterSubscribe, LinkInv, TypeOK
  <2>2. CASE \E vs \in SUBSET Vids : CenterUnsubscribe(vs)
    <3>1. PICK vs \in SUBSET Vids : CenterUnsubscribe(vs)
      BY <2>2
    <3>2. ASSUME NEW v \in vs PROVE active[v] - 1 \in Nat
      BY <3>1 DEF CenterUnsubscribe, LinkInv, TypeOK
    <3> QED
      BY <3>1, <3>2 DEF CenterUnsubscribe, LinkInv, TypeOK
  <2>3. CASE CenterSendsEmpty
    BY <2>3 DEF CenterSendsEmpty, LinkInv, TypeOK
  <2> QED
    BY <2>1, <2>2, <2>3 DEF Center
<1> QED
  BY <1>1, <1>2, <1>3 DEF LinkInv, TypeOK, ConsumerDriven, consuming, producing

(* Every step of the link, the broker and the center keeps the invariant.   *)
LEMMA NextKeeps ==
    ASSUME LinkInv, [Next]_vars
    PROVE  LinkInv'
<1> USE DEF LinkInv, consuming, producing
<1>1. CASE OnConsuming
  BY <1>1, OnConsumingKeeps
<1>2. CASE OnConsumeLost
  <2>1. requests' \in [Vids -> Nat]
    BY <1>2 DEF OnConsumeLost, RemoveAllRequest, NoRequests
  <2> QED
    BY <1>2, <2>1, RetryDrives DEF OnConsumeLost, TypeOK
<1>3. CASE OnConsumeChannelClosed
  <2>1. requests' \in [Vids -> Nat]
    BY <1>3 DEF OnConsumeChannelClosed, RemoveAllRequest, NoRequests
  <2>2. queue' \in Seq(Messages)
    BY <1>3 DEF OnConsumeChannelClosed
  <2> QED
    BY <1>3, <2>1, <2>2 DEF OnConsumeChannelClosed, TypeOK, ConsumerDriven, Conns
<1>4. CASE OnTimerConsuming
  BY <1>4, RetryDrives DEF OnTimerConsuming, TypeOK
<1>5. CASE OnTimerProducing
  BY <1>5 DEF OnTimerProducing, RetryInitProducing, TypeOK, ConsumerDriven, ProducerConns
<1>6. CASE \E v \in Vids : Publishing(v)
  BY <1>6 DEF Publishing, RetryInitProducing, TypeOK, ConsumerDriven, ProducerConns
<1>7. CASE ProcessRestart
  BY <1>7 DEF ProcessRestart, NoRequests, TypeOK, ConsumerDriven, Conns, ProducerConns
<1>8. CASE BrokerDown
  <2>1. queue' \in Seq(Messages)
    BY <1>8 DEF BrokerDown
  <2>2. /\ conn' \in Conns
        /\ pconn' \in ProducerConns
        /\ conn' = "none" <=> conn = "none"
    BY <1>8, CutKeeps DEF BrokerDown
  <2>3. ConsumerDriven'
    BY <1>8, <2>2 DEF BrokerDown, ConsumerDriven
  <2>4. TypeOK'
    BY <1>8, <2>1, <2>2 DEF BrokerDown, TypeOK
  <2> QED
    BY <2>3, <2>4
<1>9. CASE BrokerUp
  BY <1>9 DEF BrokerUp, TypeOK, ConsumerDriven
<1>10. CASE Disconnect
  <2>1. queue' \in Seq(Messages)
    <3>1. queue' = <<>> \/ queue' = queue
      BY <1>10 DEF Disconnect
    <3>2. queue \in Seq(Messages)
      BY DEF TypeOK
    <3>3. <<>> \in Seq(Messages)
      OBVIOUS
    <3> QED
      BY ONLY <3>1, <3>2, <3>3, Zenon
  <2> QED
    BY <1>10, <2>1 DEF Disconnect, TypeOK, ConsumerDriven, Conns, ProducerConns
<1>11. CASE Center
  BY <1>11, CenterKeeps
<1>12. CASE UNCHANGED vars
  BY <1>12 DEF vars, TypeOK, ConsumerDriven
<1> QED
  BY <1>1, <1>2, <1>3, <1>4, <1>5, <1>6, <1>7, <1>8, <1>9, <1>10, <1>11, <1>12 DEF Next

--------------------------------------------------------------------------------
(* The variables of the link keep their types.                              *)
THEOREM TypeCorrect == Spec => []TypeOK
<1>1. LinkInv => TypeOK
  BY DEF LinkInv
<1> QED
  BY <1>1, InitEstablishes, NextKeeps, PTL DEF Spec

(* After every outcome of init, on_timer and on_consume, exactly one of the *)
(* poll set and the retry timer drives the consuming side.                  *)
THEOREM ConsumerAlwaysDriven == Spec => []ConsumerDriven
<1>1. LinkInv => ConsumerDriven
  BY DEF LinkInv
<1> QED
  BY <1>1, InitEstablishes, NextKeeps, PTL DEF Spec

--------------------------------------------------------------------------------
(* The messages of one kind for vehicle v from position k of a queue on.    *)
From(q, kind, v, k) ==
    {i \in Nat : k <= i /\ i <= Len(q) /\ q[i].kind = kind /\ v \in q[i].vins}

Count(q, kind, v, k) == Cardinality(From(q, kind, v, k))

(* For vehicle v: r requests, a subscribers, and the messages of q that     *)
(* separate them.  Balanced at k says that the center never unsubscribed    *)
(* what was not subscribed when it sent message k - 1: without it, an       *)
(* unsubscribe that finds no request could leave a later one behind.        *)
Balanced(q, v, k, r, a) ==
    r + Count(q, "sub", v, k) <= a + Count(q, "unsub", v, k)

BacklogIn(q, r, a) ==
    \A v \in Vids :
        /\ Balanced(q, v, 1, r[v], a[v])
        /\ \A k \in 1..(Len(q) + 1) : Balanced(q, v, k, 0, a[v])

(* A message without a body lists no vehicle.                               *)
BodilessIn(q) == \A i \in 1..Len(q) : q[i].kind = "empty" => q[i].vins = {}

(* The invariant behind NoStaleRequest: there is a queue only behind an     *)
(* open connection, and a side that waits for its retry timer has dropped   *)
(* its requests.                                                            *)
RequestInv ==
    /\ conn # "open" => queue = <<>>
    /\ conn = "none" => requests = NoRequests
    /\ conn = "open" => BacklogIn(queue, requests, active)
    /\ BodilessIn(queue)

(* The part of a queue from a position on is finite.                        *)
LEMMA CountType ==
    ASSUME NEW q \in Seq(Messages), NEW kind, NEW v, NEW k \in Nat
    PROVE  IsFiniteSet(From(q, kind, v, k)) /\ Count(q, kind, v, k) \in Nat
<1>1. IsFiniteSet(k..Len(q))
  BY FS_Interval
<1>2. From(q, kind, v, k) \in SUBSET (k..Len(q))
  BY DEF From
<1>3. IsFiniteSet(From(q, kind, v, k))
  BY <1>1, <1>2, FS_Subset
<1> QED
  BY <1>3, FS_CardinalityType DEF Count

(* Behind the end of a queue there is nothing.                              *)
LEMMA CountPastEnd ==
    ASSUME NEW q \in Seq(Messages), NEW kind, NEW v, NEW k \in Nat, k > Len(q)
    PROVE  Count(q, kind, v, k) = 0
<1>1. From(q, kind, v, k) = {}
  BY DEF From
<1> QED
  BY <1>1, FS_EmptySet DEF Count

(* Taking the message at k out of the part that starts there.               *)
LEMMA CountStep ==
    ASSUME NEW q \in Seq(Messages), NEW kind, NEW v, NEW k \in Nat \ {0}, k <= Len(q)
    PROVE  Count(q, kind, v, k) =
              IF q[k].kind = kind /\ v \in q[k].vins
              THEN Count(q, kind, v, k + 1) + 1 ELSE Count(q, kind, v, k + 1)
<1>1. IsFiniteSet(From(q, kind, v, k + 1)) /\ k \notin From(q, kind, v, k + 1)
  <2>1. k + 1 \in Nat /\ ~ (k + 1 <= k)
    OBVIOUS
  <2>2. IsFiniteSet(From(q, kind, v, k + 1))
    BY <2>1, CountType
  <2> QED
    BY <2>1, <2>2 DEF From
<1>2. CASE q[k].kind = kind /\ v \in q[k].vins
  <2>1. From(q, kind, v, k) = From(q, kind, v, k + 1) \cup {k}
    BY <1>2 DEF From
  <2> QED
    BY <1>1, <1>2, <2>1, FS_AddElement DEF Count
<1>3. CASE ~ (q[k].kind = kind /\ v \in q[k].vins)
  <2>1. From(q, kind, v, k) = From(q, kind, v, k + 1)
    <3>1. ASSUME NEW i \in Nat
          PROVE  i \in From(q, kind, v, k) <=> i \in From(q, kind, v, k + 1)
      <4>1. CASE i = k
        BY <1>3, <4>1 DEF From
      <4>2. CASE i # k
        BY <4>2 DEF From
      <4> QED
        BY <4>1, <4>2
    <3> QED
      BY <3>1 DEF From
  <2> QED
    BY <1>3, <2>1 DEF Count
<1> QED
  BY <1>2, <1>3

(* The same for the head of a queue.                                        *)
LEMMA HeadCount ==
    ASSUME NEW q \in Seq(Messages), NEW kind, NEW v, 1 <= Len(q)
    PROVE  Count(q, kind, v, 1) =
              IF q[1].kind = kind /\ v \in q[1].vins
              THEN Count(q, kind, v, 2) + 1 ELSE Count(q, kind, v, 2)
<1>1. PICK k \in Nat \ {0} : k = 1
  OBVIOUS
<1>2. k <= Len(q) /\ k + 1 = 2
  BY <1>1
<1>3. Count(q, kind, v, k) = IF q[k].kind = kind /\ v \in q[k].vins
                             THEN Count(q, kind, v, k + 1) + 1 ELSE Count(q, kind, v, k + 1)
  BY <1>2, CountStep
<1> QED
  BY <1>1, <1>2, <1>3

(* A message at the end is counted from every position up to its own.       *)
LEMMA CountAppend ==
    ASSUME NEW q \in Seq(Messages), NEW m \in Messages, NEW kind, NEW v,
           NEW k \in Nat \ {0}, k <= Len(q) + 1
    PROVE  Count(Append(q, m), kind, v, k) =
              IF m.kind = kind /\ v \in m.vins
              THEN Count(q, kind, v, k) + 1 ELSE Count(q, kind, v, k)
<1> DEFINE p == Append(q, m)
           n == Len(q) + 1
<1>1. /\ p \in Seq(Messages) /\ Len(p) = n /\ p[n] = m /\ n \in Nat
      /\ \A i \in 1..Len(q) : p[i] = q[i]
  OBVIOUS
<1>2. IsFiniteSet(From(q, kind, v, k)) /\ n \notin From(q, kind, v, k)
  <2>1. n \notin From(q, kind, v, k)
    BY DEF From
  <2> QED
    BY <2>1, CountType
<1> HIDE DEF p
<1>3. ASSUME NEW i \in Nat, i # n
      PROVE  i \in From(p, kind, v, k) <=> i \in From(q, kind, v, k)
  BY <1>1, <1>3 DEF From
<1>4. n \in From(p, kind, v, k) <=> m.kind = kind /\ v \in m.vins
  BY <1>1 DEF From
<1>5. From(p, kind, v, k) \subseteq Nat /\ From(q, kind, v, k) \subseteq Nat
  BY DEF From
<1> HIDE DEF n
<1>6. CASE m.kind = kind /\ v \in m.vins
  <2>1. From(p, kind, v, k) = From(q, kind, v, k) \cup {n}
    BY <1>1, <1>3, <1>4, <1>5, <1>6
  <2>2. Count(p, kind, v, k) = Count(q, kind, v, k) + 1
    BY <1>2, <2>1, FS_AddElement DEF Count
  <2> QED
    BY <1>6, <2>2 DEF p
<1>7. CASE ~ (m.kind = kind /\ v \in m.vins)
  <2>1. From(p, kind, v, k) = From(q, kind, v, k)
    <3>1. n \notin From(p, kind, v, k)
      BY <1>4, <1>7
    <3>2. \A i : i \in From(p, kind, v, k) <=> i \in From(q, kind, v, k)
      BY <1>2, <1>3, <1>5, <3>1
    <3> QED
      BY <3>2
  <2>2. Count(p, kind, v, k) = Count(q, kind, v, k)
    BY <2>1 DEF Count
  <2> QED
    BY <1>7, <2>2 DEF p
<1> QED
  BY <1>6, <1>7

(* Consuming the head moves every other message one place forward.          *)
LEMMA CountTail ==
    ASSUME NEW q \in Seq(Messages), q # <<>>, NEW kind, NEW v, NEW k \in Nat \ {0}
    PROVE  Count(Tail(q), kind, v, k) = Count(q, kind, v, k + 1)
<1> DEFINE p == Tail(q)
           S == From(q, kind, v, k + 1)
           T == From(p, kind, v, k)
           f == [i \in S |-> i - 1]
<1>1. /\ p \in Seq(Messages) /\ Len(q) \in Nat \ {0} /\ Len(p) = Len(q) - 1
      /\ \A i \in 1..Len(p) : p[i] = q[i + 1]
  OBVIOUS
<1> HIDE DEF p
<1>2. \A i \in Nat : i \in T <=> i + 1 \in S
  BY <1>1 DEF From
<1>3. \A i \in S : i \in Nat /\ i > 0 /\ i - 1 \in Nat
  BY DEF From
<1>4. T \subseteq Nat
  BY DEF From
<1>5. IsFiniteSet(S)
  BY CountType
<1> HIDE DEF S, T
<1>6. f \in Bijection(S, T)
  <2>1. f \in [S -> T]
    <3>1. ASSUME NEW i \in S PROVE i - 1 \in T
      <4>1. i \in Nat /\ i - 1 \in Nat /\ (i - 1) + 1 = i
        BY <1>3
      <4> QED
        BY <1>2, <4>1
    <3> QED
      BY <3>1
  <2>2. \A i, j \in S : f[i] = f[j] => i = j
    BY <1>3
  <2>3. ASSUME NEW j \in T PROVE \E i \in S : f[i] = j
    <3>1. j \in Nat /\ j + 1 \in S
      BY <1>2, <1>4
    <3>2. f[j + 1] = j
      BY <3>1
    <3> QED
      BY <3>1, <3>2
  <2> QED
    BY <2>1, <2>2, <2>3, Fun_IsBij, Zenon
<1>7. ExistsBijection(S, T)
  BY <1>6 DEF ExistsBijection
<1>8. Cardinality(T) = Cardinality(S)
  BY <1>5, <1>7, FS_Bijection
<1> QED
  BY <1>8 DEF S, T, p, Count

(* An empty queue with no requests is balanced.                             *)
LEMMA EmptyBacklog ==
    ASSUME NEW a \in [Vids -> Nat]
    PROVE  BacklogIn(<<>>, NoRequests, a)
<1>1. <<>> \in Seq(Messages) /\ Len(<<>>) = 0
  OBVIOUS
<1>2. \A kind, v, k : k \in Nat /\ k > 0 => Count(<<>>, kind, v, k) = 0
  BY <1>1, CountPastEnd
<1>3. \A v \in Vids : a[v] \in Nat /\ NoRequests[v] = 0
  BY DEF NoRequests
<1>4. \A k \in 1..(Len(<<>>) + 1) : k \in Nat /\ k > 0
  OBVIOUS
<1> QED
  BY <1>2, <1>3, <1>4 DEF BacklogIn, Balanced

(* What the center sends, with the change of its own count, keeps every     *)
(* part of the queue balanced.                                              *)
LEMMA SendBalanced ==
    ASSUME NEW q \in Seq(Messages), NEW m \in Messages,
           NEW r \in [Vids -> Nat], NEW a \in [Vids -> Nat], NEW b \in [Vids -> Nat],
           BacklogIn(q, r, a),
           \A v \in Vids : b[v] = IF v \notin m.vins \/ m.kind = "empty" THEN a[v]
                                  ELSE IF m.kind = "sub" THEN a[v] + 1 ELSE a[v] - 1
    PROVE  BacklogIn(Append(q, m), r, b)
<1> DEFINE p == Append(q, m)
<1>1. p \in Seq(Messages) /\ Len(p) = Len(q) + 1 /\ Len(q) \in Nat
  OBVIOUS
<1>2. ASSUME NEW v \in Vids, NEW k \in Nat \ {0}, k <= Len(q) + 1, NEW x \in Nat,
             Balanced(q, v, k, x, a[v])
      PROVE  Balanced(p, v, k, x, b[v])
  <2>1. /\ Count(p, "sub", v, k) =
              IF m.kind = "sub" /\ v \in m.vins
              THEN Count(q, "sub", v, k) + 1 ELSE Count(q, "sub", v, k)
        /\ Count(p, "unsub", v, k) =
              IF m.kind = "unsub" /\ v \in m.vins
              THEN Count(q, "unsub", v, k) + 1 ELSE Count(q, "unsub", v, k)
    BY <1>2, CountAppend
  <2>2. Count(q, "sub", v, k) \in Nat /\ Count(q, "unsub", v, k) \in Nat
    BY CountType
  <2>3. a[v] \in Nat /\ m.kind \in {"sub", "unsub", "empty"}
    BY DEF Messages
  <2>4. x + Count(q, "sub", v, k) <= a[v] + Count(q, "unsub", v, k)
    BY <1>2 DEF Balanced
  <2>5. x + Count(p, "sub", v, k) <= b[v] + Count(p, "unsub", v, k)
    <3> HIDE DEF p
    <3>1. CASE v \notin m.vins \/ m.kind = "empty"
      BY <2>1, <2>2, <2>3, <2>4, <3>1
    <3>2. CASE v \in m.vins /\ m.kind = "sub"
      BY <2>1, <2>2, <2>3, <2>4, <3>2
    <3>3. CASE v \in m.vins /\ m.kind = "unsub"
      BY <2>1, <2>2, <2>3, <2>4, <3>3
    <3> QED
      BY <2>3, <3>1, <3>2, <3>3
  <2> QED
    BY <2>5 DEF Balanced
<1>3. ASSUME NEW v \in Vids PROVE Balanced(p, v, Len(q) + 2, 0, b[v])
  <2>1. Count(p, "sub", v, Len(q) + 2) = 0 /\ Count(p, "unsub", v, Len(q) + 2) = 0
    <3>1. Len(q) + 2 \in Nat /\ Len(q) + 2 > Len(p)
      BY <1>1
    <3> HIDE DEF p
    <3> QED
      BY <1>1, <3>1, CountPastEnd
  <2> QED
    BY <2>1 DEF Balanced
<1> HIDE DEF p
<1> SUFFICES ASSUME NEW v \in Vids
             PROVE  /\ Balanced(p, v, 1, r[v], b[v])
                    /\ \A k \in 1..(Len(p) + 1) : Balanced(p, v, k, 0, b[v])
  BY DEF BacklogIn, p
<1>4. Balanced(p, v, 1, r[v], b[v])
  <2>1. 1 \in Nat \ {0} /\ 1 <= Len(q) + 1 /\ r[v] \in Nat
    BY <1>1
  <2>2. Balanced(q, v, 1, r[v], a[v])
    BY DEF BacklogIn
  <2> QED
    BY <1>2, <2>1, <2>2
<1>5. ASSUME NEW k \in 1..(Len(p) + 1) PROVE Balanced(p, v, k, 0, b[v])
  <2>1. CASE k = Len(q) + 2
    BY <1>3, <2>1
  <2>2. CASE k # Len(q) + 2
    <3>1. k \in Nat \ {0} /\ k <= Len(q) + 1 /\ k \in 1..(Len(q) + 1)
      BY <1>1, <2>2
    <3>2. Balanced(q, v, k, 0, a[v])
      BY <3>1 DEF BacklogIn
    <3> QED
      BY <1>2, <3>1, <3>2
  <2> QED
    BY <2>1, <2>2
<1> QED
  BY <1>4, <1>5

(* on_consuming applies the head to the requests and keeps the rest         *)
(* balanced; an unsubscribe without a request is where the balance of the   *)
(* later parts is needed.                                                   *)
LEMMA ConsumeBalanced ==
    ASSUME NEW q \in Seq(Messages), q # <<>>,
           NEW r \in [Vids -> Nat], NEW a \in [Vids -> Nat], NEW s \in [Vids -> Nat],
           BacklogIn(q, r, a), \A v \in Vids : q[1].kind = "empty" => v \notin q[1].vins,
           \A v \in Vids : s[v] = IF v \notin q[1].vins THEN r[v]
                                  ELSE IF q[1].kind = "sub" THEN r[v] + 1
                                  ELSE IF r[v] > 0 THEN r[v] - 1 ELSE 0
    PROVE  BacklogIn(Tail(q), s, a)
<1> DEFINE p == Tail(q)
<1>1. /\ p \in Seq(Messages) /\ Len(q) \in Nat \ {0} /\ Len(p) = Len(q) - 1
      /\ q[1] \in Messages
  OBVIOUS
<1>2. \A kind, v, k : k \in Nat \ {0} => Count(p, kind, v, k) = Count(q, kind, v, k + 1)
  BY CountTail
<1> HIDE DEF p
<1> SUFFICES ASSUME NEW v \in Vids
             PROVE  /\ Balanced(p, v, 1, s[v], a[v])
                    /\ \A k \in 1..(Len(p) + 1) : Balanced(p, v, k, 0, a[v])
  BY DEF BacklogIn, p
<1>3. ASSUME NEW k \in 1..(Len(p) + 1) PROVE Balanced(p, v, k, 0, a[v])
  <2>1. k \in Nat \ {0} /\ k + 1 \in 1..(Len(q) + 1)
    BY <1>1
  <2>2. Balanced(q, v, k + 1, 0, a[v])
    BY <2>1 DEF BacklogIn
  <2> QED
    BY <1>2, <2>1, <2>2 DEF Balanced
<1>4. Balanced(p, v, 1, s[v], a[v])
  <2> DEFINE cs == Count(q, "sub", v, 2)
             cu == Count(q, "unsub", v, 2)
  <2>1. cs \in Nat /\ cu \in Nat /\ a[v] \in Nat /\ r[v] \in Nat
    BY CountType
  <2>2. Count(p, "sub", v, 1) = cs /\ Count(p, "unsub", v, 1) = cu
    <3>1. 1 \in Nat \ {0} /\ 1 + 1 = 2
      OBVIOUS
    <3>2. /\ Count(p, "sub", v, 1) = Count(q, "sub", v, 1 + 1)
          /\ Count(p, "unsub", v, 1) = Count(q, "unsub", v, 1 + 1)
      BY <1>2, <3>1, Zenon
    <3> QED
      BY <3>1, <3>2
  <2>3. /\ Count(q, "sub", v, 1) = IF q[1].kind = "sub" /\ v \in q[1].vins THEN cs + 1 ELSE cs
        /\ Count(q, "unsub", v, 1) = IF q[1].kind = "unsub" /\ v \in q[1].vins THEN cu + 1 ELSE cu
    <3>1. 1 <= Len(q)
      BY <1>1
    <3>2. Count(q, "sub", v, 1) = IF q[1].kind = "sub" /\ v \in q[1].vins THEN cs + 1 ELSE cs
      BY <3>1, HeadCount
    <3>3. Count(q, "unsub", v, 1) = IF q[1].kind = "unsub" /\ v \in q[1].vins THEN cu + 1 ELSE cu
      BY <3>1, HeadCount
    <3> QED
      BY <3>2, <3>3
  <2>4. r[v] + Count(q, "sub", v, 1) <= a[v] + Count(q, "unsub", v, 1)
    BY DEF BacklogIn, Balanced
  <2>5. 0 + cs <= a[v] + cu
    <3>1. 2 \in 1..(Len(q) + 1)
      BY <1>1
    <3> QED
      BY <3>1 DEF BacklogIn, Balanced
  <2>6. q[1].kind \in {"sub", "unsub", "empty"}
    BY <1>1 DEF Messages
  <2> HIDE DEF cs, cu
  <2>7. s[v] + cs <= a[v] + cu
    <3>1. CASE v \notin q[1].vins
      BY <2>1, <2>3, <2>4, <3>1
    <3>2. CASE v \in q[1].vins /\ q[1].kind = "sub"
      BY <2>1, <2>3, <2>4, <3>2
    <3>3. CASE v \in q[1].vins /\ q[1].kind = "unsub"
      BY <2>1, <2>3, <2>4, <2>5, <3>3
    <3> QED
      BY <2>6, <3>1, <3>2, <3>3
  <2> QED
    BY <2>2, <2>7 DEF Balanced
<1> QED
  BY <1>3, <1>4

--------------------------------------------------------------------------------
(* The balance of the link after a message of the center.                   *)
LEMMA CenterBalanced ==
    ASSUME LinkInv, RequestInv, Center
    PROVE  RequestInv'
<1>1. UNCHANGED <<conn, requests>>
  BY DEF Center, CenterSubscribe, CenterUnsubscribe, CenterSendsEmpty, consuming
<1>2. /\ queue \in Seq(Messages) /\ requests \in [Vids -> Nat]
      /\ active \in [Vids -> Nat] /\ active' \in [Vids -> Nat]
  BY CenterKeeps DEF LinkInv, TypeOK
<1>3. PICK m \in Messages :
         /\ Send(m)
         /\ m.kind = "empty" => m.vins = {}
         /\ \A v \in Vids : active'[v] = IF v \notin m.vins \/ m.kind = "empty" THEN active[v]
                                         ELSE IF m.kind = "sub" THEN active[v] + 1
                                         ELSE active[v] - 1
  <2>1. CASE \E vs \in SUBSET Vids : CenterSubscribe(vs)
    <3>1. PICK vs \in SUBSET Vids : CenterSubscribe(vs)
      BY <2>1
    <3> DEFINE m == [kind |-> "sub", vins |-> vs]
    <3>2. m \in Messages /\ m.kind = "sub" /\ m.vins = vs
      BY DEF Messages
    <3>3. Send(m) /\ \A v \in Vids : active'[v] = IF v \in vs THEN active[v] + 1 ELSE active[v]
      BY <3>1 DEF CenterSubscribe
    <3> HIDE DEF m
    <3> QED
      BY <3>2, <3>3
  <2>2. CASE \E vs \in SUBSET Vids : CenterUnsubscribe(vs)
    <3>1. PICK vs \in SUBSET Vids : CenterUnsubscribe(vs)
      BY <2>2
    <3> DEFINE m == [kind |-> "unsub", vins |-> vs]
    <3>2. m \in Messages /\ m.kind = "unsub" /\ m.vins = vs
      BY DEF Messages
    <3>3. Send(m) /\ \A v \in Vids : active'[v] = IF v \in vs THEN active[v] - 1 ELSE active[v]
      BY <3>1 DEF CenterUnsubscribe
    <3> HIDE DEF m
    <3> QED
      BY <3>2, <3>3
  <2>3. CASE CenterSendsEmpty
    <3> DEFINE m == [kind |-> "empty", vins |-> {}]
    <3>1. m \in Messages /\ m.kind = "empty" /\ m.vins = {}
      BY DEF Messages
    <3>2. Send(m) /\ active' = active
      BY <2>3 DEF CenterSendsEmpty
    <3> HIDE DEF m
    <3> QED
      BY <3>1, <3>2
  <2> QED
    BY <2>1, <2>2, <2>3 DEF Center
<1>4. CASE conn # "open" /\ queue' = queue
  BY <1>1, <1>4 DEF RequestInv
<1>5. CASE conn = "open" /\ queue' = Append(queue, m)
  <2>1. BacklogIn(Append(queue, m), requests, active')
    BY <1>2, <1>3, <1>5, SendBalanced DEF RequestInv
  <2>2. BodilessIn(Append(queue, m))
    <3>1. /\ Len(Append(queue, m)) = Len(queue) + 1 /\ Len(queue) \in Nat
          /\ \A i \in 1..Len(queue) : Append(queue, m)[i] = queue[i]
          /\ Append(queue, m)[Len(queue) + 1] = m
      BY <1>2
    <3>2. \A i \in 1..(Len(queue) + 1) : i \in 1..Len(queue) \/ i = Len(queue) + 1
      BY <3>1
    <3> QED
      BY <1>3, <3>1, <3>2 DEF RequestInv, BodilessIn
  <2> QED
    BY <1>1, <1>5, <2>1, <2>2 DEF RequestInv
<1> QED
  BY <1>3, <1>4, <1>5 DEF Send

(* on_consuming keeps requests and queue balanced.                          *)
LEMMA OnConsumingBalanced ==
    ASSUME LinkInv, RequestInv, OnConsuming
    PROVE  RequestInv'
<1>1. /\ conn = "open" /\ conn' = conn /\ active' = active
      /\ queue # <<>> /\ queue' = Tail(queue)
  BY DEF OnConsuming, consuming
<1>2. /\ queue \in Seq(Messages) /\ requests \in [Vids -> Nat]
      /\ active \in [Vids -> Nat] /\ requests' \in [Vids -> Nat]
  BY OnConsumingKeeps DEF LinkInv, TypeOK
<1>3. \A v \in Vids : requests'[v] = IF v \notin queue[1].vins THEN requests[v]
                                  ELSE IF queue[1].kind = "sub" THEN requests[v] + 1
                                  ELSE IF requests[v] > 0 THEN requests[v] - 1 ELSE 0
  <2>1. Head(queue) = queue[1]
    BY <1>1, <1>2
  <2> QED
    BY <2>1 DEF OnConsuming, AddRequestItem, RemoveRequestItem
<1>4. /\ Len(queue) \in Nat \ {0} /\ Len(Tail(queue)) = Len(queue) - 1
      /\ \A i \in 1..Len(Tail(queue)) : i + 1 \in 1..Len(queue) /\ Tail(queue)[i] = queue[i + 1]
  BY <1>1, <1>2
<1>5. \A v \in Vids : queue[1].kind = "empty" => v \notin queue[1].vins
  <2>1. 1 \in 1..Len(queue)
    BY <1>4
  <2> QED
    BY <2>1 DEF RequestInv, BodilessIn
<1>6. BacklogIn(Tail(queue), requests', active)
  BY <1>1, <1>2, <1>3, <1>5, ConsumeBalanced DEF RequestInv
<1>7. BodilessIn(Tail(queue))
  BY <1>4 DEF RequestInv, BodilessIn
<1> QED
  BY <1>1, <1>6, <1>7 DEF RequestInv

(* A step that leaves no queue and either no requests or no open and no     *)
(* half-made connection.                                                    *)
LEMMA EmptiedBalanced ==
    ASSUME LinkInv, queue' = <<>>, active' = active,
           requests' = NoRequests \/ conn' \in {"lost", "mute"}
    PROVE  RequestInv'
<1>1. BacklogIn(<<>>, NoRequests, active)
  BY EmptyBacklog DEF LinkInv, TypeOK
<1>2. BodilessIn(<<>>)
  BY DEF BodilessIn
<1> QED
  BY <1>1, <1>2 DEF RequestInv

(* Every step of the link, the broker and the center keeps the balance.     *)
LEMMA NextBalanced ==
    ASSUME LinkInv, RequestInv, [Next]_vars
    PROVE  RequestInv'
<1> USE DEF consuming, producing
<1>1. CASE OnConsuming
  BY <1>1, OnConsumingBalanced
<1>2. CASE OnConsumeLost
  BY <1>2, EmptiedBalanced DEF OnConsumeLost, RemoveAllRequest, RequestInv
<1>3. CASE OnConsumeChannelClosed
  BY <1>3, EmptiedBalanced DEF OnConsumeChannelClosed
<1>4. CASE OnTimerConsuming
  <2>1. conn = "none"
    BY <1>4 DEF OnTimerConsuming, LinkInv, TypeOK, ConsumerDriven
  <2> QED
    BY <1>4, <2>1, EmptiedBalanced DEF OnTimerConsuming, RequestInv
<1>5. CASE UNCHANGED <<conn, queue, requests, active>>
  BY <1>5 DEF RequestInv
<1>6. CASE ProcessRestart
  BY <1>6, EmptiedBalanced DEF ProcessRestart
<1>7. CASE BrokerDown
  <2>1. queue' = <<>> /\ requests' = requests /\ active' = active /\ conn' = Cut(conn)
    BY <1>7 DEF BrokerDown
  <2>2. conn' \in {"lost", "none"} /\ (conn' = "none" => conn = "none")
    BY <2>1 DEF Cut, LinkInv, TypeOK, Conns
  <2> QED
    BY <2>1, <2>2, EmptiedBalanced DEF RequestInv
<1>8. CASE Disconnect
  BY <1>5, <1>8, EmptiedBalanced DEF Disconnect
<1>9. CASE Center
  BY <1>9, CenterBalanced
<1> QED
  BY <1>1, <1>2, <1>3, <1>4, <1>5, <1>6, <1>7, <1>8, <1>9
    DEF Next, vars, OnTimerProducing, Publishing, BrokerUp

(* No subscription of the center outlives its subscriber: unsubscribes lost *)
(* with a queue never leave a request behind, for any set of vehicles and   *)
(* any length of the queue.                                                 *)
THEOREM RequestsHaveSubscribers == Spec => []NoStaleRequest
<1>1. Init => LinkInv /\ RequestInv
  <2> SUFFICES ASSUME Init PROVE LinkInv /\ RequestInv
    OBVIOUS
  <2>1. LinkInv
    BY InitEstablishes
  <2>2. BacklogIn(<<>>, NoRequests, active)
    BY <2>1, EmptyBacklog DEF LinkInv, TypeOK
  <2>3. BodilessIn(<<>>)
    BY DEF BodilessIn
  <2> QED
    BY <2>1, <2>2, <2>3 DEF Init, RequestInv
<1>2. LinkInv /\ RequestInv /\ [Next]_vars => LinkInv' /\ RequestInv'
  BY NextKeeps, NextBalanced
<1>3. LinkInv /\ RequestInv => NoStaleRequest
  <2> SUFFICES ASSUME LinkInv, RequestInv, conn = "open", NEW v \in Vids
               PROVE  requests[v] + Waiting("sub", v) <= active[v] + Waiting("unsub", v)
    BY DEF NoStaleRequest
  <2>1. queue \in Seq(Messages)
    BY DEF LinkInv, TypeOK
  <2>2. \A kind : From(queue, kind, v, 1) =
                    {i \in DOMAIN queue : queue[i].kind = kind /\ v \in queue[i].vins}
    <3>1. \A i : i \in DOMAIN queue <=> i \in Nat /\ 1 <= i /\ i <= Len(queue)
      BY <2>1
    <3> QED
      BY <3>1 DEF From
  <2>3. /\ Waiting("sub", v) = Count(queue, "sub", v, 1)
        /\ Waiting("unsub", v) = Count(queue, "unsub", v, 1)
    BY <2>2 DEF Waiting, Count
  <2> QED
    BY <2>3 DEF RequestInv, BacklogIn, Balanced
<1> QED
  BY <1>1, <1>2, <1>3, PTL DEF Spec

===============================================================================
