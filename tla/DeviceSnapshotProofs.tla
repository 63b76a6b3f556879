------------------------- MODULE DeviceSnapshotProofs -------------------------
(***************************************************************************)
(* Proofs about the junction side of the snapshot service, for any number  *)
(* of junctions, vehicles and radars and any length of the packages.  The  *)
(* pointers are treated as plain functions: N stands for next, P for prev. *)
(***************************************************************************)
EXTENDS DeviceSnapshot, FiniteSetTheorems, TLAPS

--------------------------------------------------------------------------------
(* The pointers around head h are a ring through h and the nodes M, and     *)
(* through no others: the two directions agree, and a loop that starts at   *)
(* the head comes to every one of them and back.                            *)
Linked(N, P, C) ==
    \A x \in C : /\ N[x] \in C /\ P[x] \in C
                 /\ P[N[x]] = x /\ N[P[x]] = x

Connected(N, h, C) ==
    \A S \in SUBSET C : ClosedFrom(N, h, S) => C \subseteq S

Ring(N, P, h, M) ==
    /\ h \notin M
    /\ Linked(N, P, M \cup {h})
    /\ Connected(N, h, M \cup {h})

(* A ring is not disturbed by what happens to other nodes.                  *)
LEMMA RingElsewhere ==
  ASSUME NEW N, NEW P, NEW N1, NEW P1, NEW h, NEW M, Ring(N, P, h, M),
         \A x \in M \cup {h} : N1[x] = N[x] /\ P1[x] = P[x]
  PROVE  Ring(N1, P1, h, M)
<1> DEFINE C == M \cup {h}
<1>1. h \in C /\ h \notin M /\ Linked(N, P, C) /\ Connected(N, h, C)
  BY DEF Ring
<1>2. \A x \in C : N1[x] = N[x] /\ P1[x] = P[x]
  OBVIOUS
<1> HIDE DEF C
<1>3. Linked(N1, P1, C)
  BY <1>1, <1>2 DEF Linked
<1>4. ASSUME NEW S \in SUBSET C, ClosedFrom(N1, h, S) PROVE C \subseteq S
  <2>1. ClosedFrom(N, h, S)
    BY <1>1, <1>2, <1>4 DEF ClosedFrom
  <2> QED
    BY <1>1, <2>1 DEF Connected
<1> QED
  BY <1>1, <1>3, <1>4 DEF Ring, Connected, C

(* No member of a ring points at itself: the loop would never leave it, or  *)
(* never come to it.                                                        *)
LEMMA NotAlone ==
  ASSUME NEW N, NEW P, NEW h, NEW M, Ring(N, P, h, M), NEW v \in M
  PROVE  N[v] # v /\ P[v] # v
<1> DEFINE C == M \cup {h}
           S == C \ {v}
<1>1. h \in C /\ h # v /\ v \in C /\ Linked(N, P, C) /\ Connected(N, h, C)
  BY DEF Ring
<1> HIDE DEF C
<1>2. ASSUME N[v] = v PROVE FALSE
  <2>1. P[v] = v
    BY <1>1, <1>2 DEF Linked
  <2>2. \A x \in S : N[x] \in S
    BY <1>1, <2>1 DEF Linked
  <2>3. ClosedFrom(N, h, S)
    BY <1>1, <2>2 DEF ClosedFrom
  <2>4. C \subseteq S
    BY <1>1, <2>3 DEF Connected
  <2> QED
    BY <1>1, <2>4
<1>3. P[v] = v => N[v] = v
  BY <1>1 DEF Linked
<1> QED
  BY <1>2, <1>3

(* listnode_del takes a member out of its ring and leaves a ring.           *)
LEMMA RingDel ==
  ASSUME NEW N, NEW P, NEW N1, NEW P1, NEW h, NEW M, Ring(N, P, h, M), NEW v \in M,
         \A x \in M \cup {h} : N1[x] = IF x = v THEN v ELSE IF x = P[v] THEN N[v] ELSE N[x],
         \A x \in M \cup {h} : P1[x] = IF x = v THEN v ELSE IF x = N[v] THEN P[v] ELSE P[x]
  PROVE  Ring(N1, P1, h, M \ {v})
<1> DEFINE C == M \cup {h}
           D == C \ {v}
           p == P[v]
           n == N[v]
<1>1. /\ h \in C /\ h # v /\ v \in C /\ h \notin M
      /\ Linked(N, P, C) /\ Connected(N, h, C)
      /\ (M \ {v}) \cup {h} = D
  BY DEF Ring
<1>2. /\ \A x \in C : N1[x] = IF x = v THEN v ELSE IF x = p THEN n ELSE N[x]
      /\ \A x \in C : P1[x] = IF x = v THEN v ELSE IF x = n THEN p ELSE P[x]
  OBVIOUS
<1>3. p # v /\ n # v
  BY NotAlone
<1>4. p \in D /\ n \in D /\ N[p] = v /\ P[n] = v
  BY <1>1, <1>3 DEF Linked
<1>5. \A x \in C : /\ N[x] = v => x = p
                   /\ P[x] = v => x = n
  BY <1>1 DEF Linked
<1> HIDE DEF C, p, n
<1>6. Linked(N1, P1, D)
  BY <1>1, <1>2, <1>3, <1>4, <1>5 DEF Linked, p, n
<1>7. ASSUME NEW S \in SUBSET D, ClosedFrom(N1, h, S) PROVE D \subseteq S
  <2> DEFINE T == S \cup (IF p \in S \/ p = h THEN {v} ELSE {})
  <2>1. T \in SUBSET C
    BY <1>1
  <2>2. N1[h] \in S /\ \A x \in S : x # h => N1[x] \in S
    BY <1>7 DEF ClosedFrom
  <2>3. N[h] \in T
    BY <1>1, <1>2, <1>4, <2>2
  <2>4. ASSUME NEW x \in T, x # h PROVE N[x] \in T
    <3>1. CASE x = v
      <4>1. p \in S \/ p = h
        BY <2>4, <3>1
      <4>2. N1[p] = n /\ N1[p] \in S
        BY <1>1, <1>2, <1>3, <1>4, <2>2, <4>1
      <4> QED
        BY <3>1, <4>2 DEF n
    <3>2. CASE x # v /\ x = p
      BY <1>4, <2>4, <3>2
    <3>3. CASE x # v /\ x # p
      BY <1>2, <2>1, <2>2, <2>4, <3>3
    <3> QED
      BY <3>1, <3>2, <3>3
  <2>5. ClosedFrom(N, h, T)
    BY <2>3, <2>4 DEF ClosedFrom
  <2>6. C \subseteq T
    BY <1>1, <2>1, <2>5 DEF Connected
  <2> QED
    BY <2>6
<1> QED
  BY <1>1, <1>6, <1>7 DEF Ring, Connected

(* listnode_add puts a node that is elsewhere at the end of a ring.         *)
LEMMA RingAdd ==
  ASSUME NEW N, NEW P, NEW N1, NEW P1, NEW h, NEW M, Ring(N, P, h, M),
         NEW v, v \notin M \cup {h},
         \A x \in M \cup {h, v} :
            N1[x] = IF x = P[h] THEN v ELSE IF x = v THEN N[P[h]] ELSE N[x],
         \A x \in M \cup {h, v} :
            P1[x] = IF x = h THEN v ELSE IF x = v THEN P[h] ELSE P[x]
  PROVE  Ring(N1, P1, h, M \cup {v})
<1> DEFINE C == M \cup {h}
           D == C \cup {v}
           l == P[h]
<1>1. /\ h \in C /\ v \notin C /\ h # v /\ h \notin M
      /\ Linked(N, P, C) /\ Connected(N, h, C)
      /\ (M \cup {v}) \cup {h} = D /\ M \cup {h, v} = D
  BY DEF Ring
<1>2. l \in C /\ N[l] = h /\ l # v
  BY <1>1 DEF Linked
<1>3. /\ \A x \in D : N1[x] = IF x = l THEN v ELSE IF x = v THEN h ELSE N[x]
      /\ \A x \in D : P1[x] = IF x = h THEN v ELSE IF x = v THEN l ELSE P[x]
  BY <1>2
<1> HIDE DEF C, l
<1>4. \A x \in C : /\ N[x] = h => x = l
                   /\ N[x] \in C /\ P[x] \in C /\ P[N[x]] = x /\ N[P[x]] = x
                   /\ N[x] # v /\ P[x] # v
                   /\ P[x] = l => x = h
  <2>1. P[h] = l
    BY DEF l
  <2> QED
    BY <1>1, <1>2, <2>1 DEF Linked
<1>5. Linked(N1, P1, D)
  <2>1. ASSUME NEW x \in D
        PROVE  N1[x] \in D /\ P1[N1[x]] = x
    <3>1. CASE x = l
      BY <1>1, <1>2, <1>3, <3>1
    <3>2. CASE x = v
      BY <1>1, <1>2, <1>3, <3>2
    <3>3. CASE x # l /\ x # v
      <4>1. x \in C /\ N[x] # h /\ N[x] \in C /\ N[x] # v /\ P[N[x]] = x
        BY <1>4, <3>3
      <4> QED
        BY <1>3, <3>3, <4>1
    <3> QED
      BY <3>1, <3>2, <3>3
  <2>2. ASSUME NEW x \in D
        PROVE  P1[x] \in D /\ N1[P1[x]] = x
    <3>1. CASE x = h
      BY <1>1, <1>2, <1>3, <3>1
    <3>2. CASE x = v
      BY <1>1, <1>2, <1>3, <3>2
    <3>3. CASE x # h /\ x # v
      <4>1. x \in C /\ P[x] # l /\ P[x] \in C /\ P[x] # v /\ N[P[x]] = x
        BY <1>4, <3>3
      <4> QED
        BY <1>3, <3>3, <4>1
    <3> QED
      BY <3>1, <3>2, <3>3
  <2> QED
    BY <2>1, <2>2 DEF Linked
<1>6. ASSUME NEW S \in SUBSET D, ClosedFrom(N1, h, S) PROVE D \subseteq S
  <2> DEFINE T == (S \ {v}) \cup {h}
  <2>1. T \in SUBSET C
    BY <1>1
  <2>2. N1[h] \in S /\ \A x \in S : x # h => N1[x] \in S
    BY <1>6 DEF ClosedFrom
  <2>3. N[h] \in T
    BY <1>1, <1>2, <1>3, <1>4, <2>2
  <2>4. ASSUME NEW x \in T, x # h PROVE N[x] \in T
    <3>1. CASE x = l
      BY <1>2, <3>1
    <3>2. CASE x # l
      BY <1>3, <1>4, <2>1, <2>2, <2>4, <3>2
    <3> QED
      BY <3>1, <3>2
  <2>5. ClosedFrom(N, h, T)
    BY <2>3, <2>4 DEF ClosedFrom
  <2>6. C \subseteq T
    BY <1>1, <2>1, <2>5 DEF Connected
  <2>7. \A x \in C : x # h => x \in S
    BY <2>6
  <2>8. v \in S
    <3>1. N1[l] = v /\ (l = h \/ l \in S)
      BY <1>2, <1>3, <2>7
    <3> QED
      BY <2>2, <3>1
  <2>9. h \in S
    BY <1>1, <1>2, <1>3, <2>2, <2>8
  <2> QED
    BY <2>7, <2>8, <2>9
<1> QED
  BY <1>1, <1>5, <1>6 DEF Ring, Connected

(* listnode_init makes a ring of the head alone.                            *)
LEMMA RingInit ==
  ASSUME NEW N, NEW P, NEW h, N[h] = h, P[h] = h
  PROVE  Ring(N, P, h, {})
BY DEF Ring, Linked, Connected, ClosedFrom

(* What a loop from the head of a ring comes to is the ring.                *)
LEMMA RingReached ==
  ASSUME NEW L, NEW h, NEW M, Ring(L.next, L.prev, h, M), M \cup {h} \subseteq DOMAIN L.next
  PROVE  Reached(L, h) = M \cup {h}
<1> DEFINE N == L.next
           C == M \cup {h}
<1>1. h \in C /\ Linked(N, L.prev, C) /\ Connected(N, h, C) /\ C \subseteq DOMAIN N
  BY DEF Ring
<1> HIDE DEF N, C
<1>2. ClosedFrom(N, h, C)
  BY <1>1 DEF ClosedFrom, Linked
<1>3. ASSUME NEW S \in SUBSET DOMAIN N, ClosedFrom(N, h, S) PROVE C \subseteq S
  <2>1. S \cap C \in SUBSET C
    OBVIOUS
  <2>2. ClosedFrom(N, h, S \cap C)
    BY <1>1, <1>3 DEF ClosedFrom, Linked
  <2> QED
    BY <1>1, <2>1, <2>2 DEF Connected
<1>4. Reached(L, h) = {x \in DOMAIN N : \A S \in SUBSET DOMAIN N : ClosedFrom(N, h, S) => x \in S}
  BY DEF Reached, N
<1>5. Reached(L, h) = C
  BY <1>1, <1>2, <1>3, <1>4
<1> QED
  BY <1>5 DEF C

--------------------------------------------------------------------------------
(* The three macros, pointer by pointer.                                    *)
Pointers == [Nodes -> Nodes \cup {Null}]

Lists == [next : Pointers, prev : Pointers]

(* listnode_init.                                                           *)
LEMMA InitPointers ==
  ASSUME NEW N \in Pointers, NEW P \in Pointers, NEW L, L.next = N, L.prev = P, NEW h \in Nodes
  PROVE  /\ listnode_init(L, h) \in Lists
         /\ \A x \in Nodes :
               /\ listnode_init(L, h).next[x] = IF x = h THEN h ELSE N[x]
               /\ listnode_init(L, h).prev[x] = IF x = h THEN h ELSE P[x]
<1> DEFINE K == listnode_init(L, h)
           N1 == [N EXCEPT ![h] = h]
           P1 == [P EXCEPT ![h] = h]
<1>1. N1 \in Pointers /\ P1 \in Pointers
  BY DEF Pointers
<1>2. \A x \in Nodes : /\ N1[x] = IF x = h THEN h ELSE N[x]
                       /\ P1[x] = IF x = h THEN h ELSE P[x]
  BY DEF Pointers
<1>3. K = [next |-> N1, prev |-> P1]
  BY DEF listnode_init
<1> HIDE DEF N1, P1
<1>4. K \in Lists /\ K.next = N1 /\ K.prev = P1
  <2> HIDE DEF K
  <2> QED
    BY <1>1, <1>3 DEF Lists
<1> QED
  BY <1>2, <1>4

(* listnode_del.                                                            *)
LEMMA DelPointers ==
  ASSUME NEW N \in Pointers, NEW P \in Pointers, NEW L, L.next = N, L.prev = P,
         NEW v \in Nodes, N[v] \in Nodes, P[v] \in Nodes
  PROVE  /\ listnode_del(L, v) \in Lists
         /\ \A x \in Nodes :
               /\ listnode_del(L, v).next[x] =
                     IF x = v THEN v ELSE IF x = P[v] THEN N[v] ELSE N[x]
               /\ listnode_del(L, v).prev[x] =
                     IF x = v THEN v ELSE IF x = N[v] THEN P[v] ELSE P[x]
<1> DEFINE K == listnode_del(L, v)
           N0 == [N EXCEPT ![P[v]] = N[v]]
           P0 == [P EXCEPT ![N[v]] = P[v]]
           N1 == [N0 EXCEPT ![v] = v]
           P1 == [P0 EXCEPT ![v] = v]
<1>1. N0 \in Pointers /\ P0 \in Pointers
  BY DEF Pointers
<1>2. \A x \in Nodes : /\ N0[x] = IF x = P[v] THEN N[v] ELSE N[x]
                       /\ P0[x] = IF x = N[v] THEN P[v] ELSE P[x]
  BY DEF Pointers
<1>3. K = [next |-> N1, prev |-> P1]
  BY DEF listnode_del
<1> HIDE DEF N0, P0
<1>4. N1 \in Pointers /\ P1 \in Pointers
  BY <1>1 DEF Pointers
<1>5. \A x \in Nodes : /\ N1[x] = IF x = v THEN v ELSE N0[x]
                       /\ P1[x] = IF x = v THEN v ELSE P0[x]
  BY <1>1 DEF Pointers
<1> HIDE DEF N1, P1
<1>6. K \in Lists /\ K.next = N1 /\ K.prev = P1
  <2> HIDE DEF K
  <2> QED
    BY <1>3, <1>4 DEF Lists
<1> QED
  BY <1>2, <1>5, <1>6

(* listnode_add.                                                            *)
LEMMA AddPointers ==
  ASSUME NEW N \in Pointers, NEW P \in Pointers, NEW L, L.next = N, L.prev = P,
         NEW h \in Nodes, NEW v \in Nodes, P[h] \in Nodes
  PROVE  /\ listnode_add(L, h, v) \in Lists
         /\ \A x \in Nodes :
               /\ listnode_add(L, h, v).next[x] =
                     IF x = P[h] THEN v ELSE IF x = v THEN N[P[h]] ELSE N[x]
               /\ listnode_add(L, h, v).prev[x] =
                     IF x = h THEN v ELSE IF x = v THEN P[h] ELSE P[x]
<1> DEFINE K == listnode_add(L, h, v)
           N0 == [N EXCEPT ![v] = N[P[h]]]
           P0 == [P EXCEPT ![v] = P[h]]
           N1 == [N0 EXCEPT ![P[h]] = v]
           P1 == [P0 EXCEPT ![h] = v]
<1>1. N0 \in Pointers /\ P0 \in Pointers
  BY DEF Pointers
<1>2. \A x \in Nodes : /\ N0[x] = IF x = v THEN N[P[h]] ELSE N[x]
                       /\ P0[x] = IF x = v THEN P[h] ELSE P[x]
  BY DEF Pointers
<1>3. K = [next |-> N1, prev |-> P1]
  BY DEF listnode_add
<1> HIDE DEF N0, P0
<1>4. N1 \in Pointers /\ P1 \in Pointers
  BY <1>1 DEF Pointers
<1>5. \A x \in Nodes : /\ N1[x] = IF x = P[h] THEN v ELSE N0[x]
                       /\ P1[x] = IF x = h THEN v ELSE P0[x]
  BY <1>1 DEF Pointers
<1> HIDE DEF N1, P1
<1>6. K \in Lists /\ K.next = N1 /\ K.prev = P1
  <2> HIDE DEF K
  <2> QED
    BY <1>3, <1>4 DEF Lists
<1> QED
  BY <1>2, <1>5, <1>6

--------------------------------------------------------------------------------
(* What holds of the pointers with any number of radars, J being the        *)
(* junctions whose list has been initialized: no null pointer can be        *)
(* reached from a list or a vehicle.                                        *)
LiveIn(N, P, J) ==
    /\ \A x \in J \cup Vehicles : N[x] \in J \cup Vehicles /\ P[x] \in J \cup Vehicles
    /\ \A j \in Junctions \ J : P[j] = Null

(* What holds as long as no list is initialized twice, A being where the    *)
(* vehicles are: a ring for each junction, and the other vehicles alone.    *)
Members(A, j) == {v \in Vehicles : A[v] = j}

RingsIn(N, P, A, J) ==
    /\ \A j \in J : Ring(N, P, j, Members(A, j))
    /\ \A v \in Vehicles : A[v] = Nowhere => N[v] = v /\ P[v] = v
    /\ \A v \in Vehicles : A[v] \in J \cup {Nowhere}

(* A vehicle leaves its list.                                               *)
LEMMA DelKeepsLive ==
  ASSUME NEW N, NEW P, NEW N1, NEW P1, NEW J \in SUBSET Junctions, LiveIn(N, P, J),
         NEW v \in Vehicles,
         \A x \in Nodes :
            /\ N1[x] = IF x = v THEN v ELSE IF x = P[v] THEN N[v] ELSE N[x]
            /\ P1[x] = IF x = v THEN v ELSE IF x = N[v] THEN P[v] ELSE P[x]
  PROVE  LiveIn(N1, P1, J)
<1>1. \A x \in J \cup Vehicles : x \in Nodes
  BY DEF Nodes
<1>2. \A j \in Junctions \ J : j \in Nodes /\ j \notin J \cup Vehicles
  BY DeviceAssumption DEF Nodes
<1>3. N[v] \in J \cup Vehicles /\ P[v] \in J \cup Vehicles
  BY DEF LiveIn
<1> DEFINE Q == J \cup Vehicles
<1>4. /\ \A x \in Q : N[x] \in Q /\ P[x] \in Q
      /\ \A j \in Junctions \ J : P[j] = Null
      /\ v \in Q
  BY DEF LiveIn
<1> HIDE DEF Q
<1>5. \A x \in Q : N1[x] \in Q /\ P1[x] \in Q
  BY <1>1, <1>4 DEF Q
<1>6. \A j \in Junctions \ J : P1[j] = Null
  BY <1>2, <1>3, <1>4
<1> QED
  BY <1>5, <1>6 DEF LiveIn, Q

(* A vehicle joins a list that has been initialized.                        *)
LEMMA AddKeepsLive ==
  ASSUME NEW N, NEW P, NEW N1, NEW P1, NEW J \in SUBSET Junctions, LiveIn(N, P, J),
         NEW v \in Vehicles, NEW h \in J,
         \A x \in Nodes :
            /\ N1[x] = IF x = P[h] THEN v ELSE IF x = v THEN N[P[h]] ELSE N[x]
            /\ P1[x] = IF x = h THEN v ELSE IF x = v THEN P[h] ELSE P[x]
  PROVE  LiveIn(N1, P1, J)
<1>1. \A x \in J \cup Vehicles : x \in Nodes
  BY DEF Nodes
<1>2. \A j \in Junctions \ J : j \in Nodes /\ j \notin J \cup Vehicles
  BY DeviceAssumption DEF Nodes
<1> DEFINE Q == J \cup Vehicles
<1>4. /\ \A x \in Q : N[x] \in Q /\ P[x] \in Q
      /\ \A j \in Junctions \ J : P[j] = Null
      /\ v \in Q /\ h \in Q
  BY DEF LiveIn
<1>5. \A x \in Q : N1[x] \in Q /\ P1[x] \in Q
  <2> HIDE DEF Q
  <2> QED
    BY <1>1, <1>4 DEF Q
<1>6. \A j \in Junctions \ J : P1[j] = Null
  <2>1. \A j \in Junctions \ J : j \in Nodes /\ j # h /\ j # v
    BY <1>2
  <2> QED
    BY <1>4, <2>1
<1> QED
  BY <1>5, <1>6 DEF LiveIn

(* A list is initialized, for the first time or again.                      *)
LEMMA InitKeepsLive ==
  ASSUME NEW N, NEW P, NEW N1, NEW P1, NEW J \in SUBSET Junctions, LiveIn(N, P, J),
         NEW h \in Junctions,
         \A x \in Nodes : /\ N1[x] = IF x = h THEN h ELSE N[x]
                          /\ P1[x] = IF x = h THEN h ELSE P[x]
  PROVE  LiveIn(N1, P1, J \cup {h})
<1>1. \A x \in J \cup {h} \cup Vehicles : x \in Nodes
  BY DEF Nodes
<1>2. \A j \in Junctions \ J : j \in Nodes
  BY DEF Nodes
<1> QED
  BY <1>1, <1>2 DEF LiveIn

(* A vehicle leaves the ring it is in, or is alone already; all other rings *)
(* stay.                                                                    *)
LEMMA DelKeepsRings ==
  ASSUME NEW N, NEW P, NEW N1, NEW P1, NEW J \in SUBSET Junctions,
         NEW A \in [Vehicles -> Junctions \cup {Nowhere}], NEW v \in Vehicles,
         RingsIn(N, P, A, J), NEW B, \A u \in Vehicles : B[u] = IF u = v THEN Nowhere ELSE A[u],
         \A x \in Nodes :
            /\ N1[x] = IF x = v THEN v ELSE IF x = P[v] THEN N[v] ELSE N[x]
            /\ P1[x] = IF x = v THEN v ELSE IF x = N[v] THEN P[v] ELSE P[x]
  PROVE  RingsIn(N1, P1, B, J)
<1>1. \A u \in Vehicles : B[u] = IF u = v THEN Nowhere ELSE A[u]
  OBVIOUS
<1>2. \A x \in Junctions \cup Vehicles : x \in Nodes
  BY DEF Nodes
<1>3. Nowhere \notin J /\ J \cap Vehicles = {}
  BY DeviceAssumption
<1>4. /\ \A j \in J : Ring(N, P, j, Members(A, j))
      /\ \A u \in Vehicles : A[u] = Nowhere => N[u] = u /\ P[u] = u
      /\ \A u \in Vehicles : A[u] \in J \cup {Nowhere}
  BY DEF RingsIn
<1>5. \A j \in J : /\ Members(B, j) = Members(A, j) \ {v}
                   /\ A[v] # j => Members(B, j) = Members(A, j)
                   /\ Members(A, j) \cup {j} \subseteq Nodes
  BY <1>1, <1>2, <1>3 DEF Members
<1>6. CASE A[v] = Nowhere
  <2>1. \A x \in Nodes : N1[x] = N[x] /\ P1[x] = P[x]
    BY <1>4, <1>6
  <2>2. ASSUME NEW j \in J PROVE Ring(N1, P1, j, Members(B, j))
    <3>1. A[v] # j
      BY <1>3, <1>6
    <3>2. \A x \in Members(A, j) \cup {j} : N1[x] = N[x] /\ P1[x] = P[x]
      BY <1>5, <2>1
    <3> QED
      BY <1>4, <1>5, <3>1, <3>2, RingElsewhere
  <2>3. \A u \in Vehicles : /\ B[u] = Nowhere => N1[u] = u /\ P1[u] = u
                            /\ B[u] \in J \cup {Nowhere}
    BY <1>1, <1>2, <1>4, <2>1, <1>6
  <2> QED
    BY <2>2, <2>3 DEF RingsIn
<1>7. CASE A[v] # Nowhere
  <2> DEFINE i == A[v]
             C == Members(A, i) \cup {i}
  <2>1. i \in J /\ v \in Members(A, i) /\ v \in C
    BY <1>4, <1>7 DEF Members
  <2>2. N[v] \in C /\ P[v] \in C
    BY <1>4, <2>1 DEF Ring, Linked
  <2>3. Ring(N1, P1, i, Members(B, i))
    <3>1. Ring(N, P, i, Members(A, i))
      BY <1>4, <2>1
    <3>2. /\ \A x \in C : N1[x] = IF x = v THEN v ELSE IF x = P[v] THEN N[v] ELSE N[x]
          /\ \A x \in C : P1[x] = IF x = v THEN v ELSE IF x = N[v] THEN P[v] ELSE P[x]
      BY <1>5, <2>1
    <3>3. Ring(N1, P1, i, Members(A, i) \ {v})
      BY <2>1, <3>1, <3>2, RingDel
    <3> QED
      BY <1>5, <2>1, <3>3
  <2>4. ASSUME NEW j \in J, j # i PROVE Ring(N1, P1, j, Members(B, j))
    <3>1. \A x \in Members(A, j) \cup {j} : x \notin C
      BY <1>3, <2>1, <2>4 DEF Members
    <3>2. \A x \in Members(A, j) \cup {j} : N1[x] = N[x] /\ P1[x] = P[x]
      BY <1>5, <2>1, <2>2, <3>1
    <3> QED
      BY <1>4, <1>5, <2>4, <3>2, RingElsewhere
  <2>5. ASSUME NEW u \in Vehicles
        PROVE  /\ B[u] = Nowhere => N1[u] = u /\ P1[u] = u
               /\ B[u] \in J \cup {Nowhere}
    <3>1. CASE u = v
      BY <1>1, <1>2, <3>1
    <3>2. CASE u # v /\ A[u] = Nowhere
      <4>1. u \notin C
        BY <1>3, <2>1, <3>2 DEF Members
      <4> QED
        BY <1>1, <1>2, <1>4, <2>2, <3>2, <4>1
    <3>3. CASE u # v /\ A[u] # Nowhere
      BY <1>1, <1>4, <3>3
    <3> QED
      BY <3>1, <3>2, <3>3
  <2> QED
    BY <2>3, <2>4, <2>5 DEF RingsIn
<1> QED
  BY <1>6, <1>7

(* A vehicle that is alone joins the ring of a junction.                    *)
LEMMA AddKeepsRings ==
  ASSUME NEW N, NEW P, NEW N1, NEW P1, NEW J \in SUBSET Junctions,
         NEW A \in [Vehicles -> Junctions \cup {Nowhere}], NEW v \in Vehicles,
         A[v] = Nowhere, NEW h \in J, RingsIn(N, P, A, J),
         NEW B, \A u \in Vehicles : B[u] = IF u = v THEN h ELSE A[u],
         \A x \in Nodes :
            /\ N1[x] = IF x = P[h] THEN v ELSE IF x = v THEN N[P[h]] ELSE N[x]
            /\ P1[x] = IF x = h THEN v ELSE IF x = v THEN P[h] ELSE P[x]
  PROVE  RingsIn(N1, P1, B, J)
<1> DEFINE C == Members(A, h) \cup {h}
<1>1. \A u \in Vehicles : B[u] = IF u = v THEN h ELSE A[u]
  OBVIOUS
<1>2. \A x \in Junctions \cup Vehicles : x \in Nodes
  BY DEF Nodes
<1>3. Nowhere \notin J /\ J \cap Vehicles = {}
  BY DeviceAssumption
<1>4. /\ \A j \in J : Ring(N, P, j, Members(A, j))
      /\ \A u \in Vehicles : A[u] = Nowhere => N[u] = u /\ P[u] = u
      /\ \A u \in Vehicles : A[u] \in J \cup {Nowhere}
  BY DEF RingsIn
<1>5. /\ Members(B, h) = Members(A, h) \cup {v}
      /\ \A j \in J : /\ j # h => Members(B, j) = Members(A, j)
                      /\ Members(A, j) \cup {j, v} \subseteq Nodes
                      /\ v \notin Members(A, j) \cup {j}
  BY <1>1, <1>2, <1>3 DEF Members
<1>6. P[h] \in C
  BY <1>4 DEF Ring, Linked
<1>7. Ring(N1, P1, h, Members(B, h))
  <2>1. Ring(N, P, h, Members(A, h)) /\ v \notin Members(A, h) \cup {h}
    BY <1>4, <1>5
  <2>2. /\ \A x \in Members(A, h) \cup {h, v} :
              N1[x] = IF x = P[h] THEN v ELSE IF x = v THEN N[P[h]] ELSE N[x]
        /\ \A x \in Members(A, h) \cup {h, v} :
              P1[x] = IF x = h THEN v ELSE IF x = v THEN P[h] ELSE P[x]
    BY <1>5
  <2>3. Ring(N1, P1, h, Members(A, h) \cup {v})
    BY <2>1, <2>2, RingAdd
  <2> QED
    BY <1>5, <2>3
<1>8. ASSUME NEW j \in J, j # h PROVE Ring(N1, P1, j, Members(B, j))
  <2>1. \A x \in Members(A, j) \cup {j} : x \notin C /\ x # v
    BY <1>3, <1>5, <1>8 DEF Members
  <2>2. \A x \in Members(A, j) \cup {j} : N1[x] = N[x] /\ P1[x] = P[x]
    BY <1>5, <1>6, <2>1
  <2> QED
    BY <1>4, <1>5, <1>8, <2>2, RingElsewhere
<1>9. ASSUME NEW u \in Vehicles
      PROVE  /\ B[u] = Nowhere => N1[u] = u /\ P1[u] = u
             /\ B[u] \in J \cup {Nowhere}
  <2>1. CASE u = v
    BY <1>1, <1>3, <2>1
  <2>2. CASE u # v /\ A[u] = Nowhere
    <3>1. u \notin C
      BY <1>3, <2>2 DEF Members
    <3> QED
      BY <1>1, <1>2, <1>4, <1>6, <2>2, <3>1
  <2>3. CASE u # v /\ A[u] # Nowhere
    BY <1>1, <1>4, <2>3
  <2> QED
    BY <2>1, <2>2, <2>3
<1> QED
  BY <1>7, <1>8, <1>9 DEF RingsIn

(* The list of a junction is initialized for the first time.                *)
LEMMA InitKeepsRings ==
  ASSUME NEW N, NEW P, NEW N1, NEW P1, NEW J \in SUBSET Junctions,
         NEW A \in [Vehicles -> Junctions \cup {Nowhere}],
         NEW h \in Junctions \ J, RingsIn(N, P, A, J),
         \A x \in Nodes : /\ N1[x] = IF x = h THEN h ELSE N[x]
                          /\ P1[x] = IF x = h THEN h ELSE P[x]
  PROVE  RingsIn(N1, P1, A, J \cup {h})
<1>1. \A x \in Junctions \cup Vehicles : x \in Nodes
  BY DEF Nodes
<1>2. Nowhere \notin Junctions /\ Junctions \cap Vehicles = {}
  BY DeviceAssumption
<1>3. /\ \A j \in J : Ring(N, P, j, Members(A, j))
      /\ \A u \in Vehicles : A[u] = Nowhere => N[u] = u /\ P[u] = u
      /\ \A u \in Vehicles : A[u] \in J \cup {Nowhere}
  BY DEF RingsIn
<1>4. Members(A, h) = {}
  BY <1>2, <1>3 DEF Members
<1>5. Ring(N1, P1, h, Members(A, h))
  BY <1>1, <1>4, RingInit
<1>6. ASSUME NEW j \in J PROVE Ring(N1, P1, j, Members(A, j))
  <2>1. \A x \in Members(A, j) \cup {j} : N1[x] = N[x] /\ P1[x] = P[x]
    BY <1>1, <1>2 DEF Members
  <2> QED
    BY <1>3, <2>1, RingElsewhere
<1>7. \A u \in Vehicles : /\ A[u] = Nowhere => N1[u] = u /\ P1[u] = u
                          /\ A[u] \in (J \cup {h}) \cup {Nowhere}
  BY <1>1, <1>2, <1>3
<1> QED
  BY <1>5, <1>6, <1>7 DEF RingsIn

--------------------------------------------------------------------------------
(* What update_to_junction and check_create_device_item do to the lists.    *)
Live == LiveIn(list.next, list.prev, Listed)

Rings == RingsIn(list.next, list.prev, at, Listed)

Placed(v, w) == [at EXCEPT ![v] = IF w \in junctions THEN w ELSE Nowhere]

(* A vehicle that joins a list finds one that has been initialized, and     *)
(* neither leaving nor joining leaves a dangling pointer or breaks a ring.  *)
LEMMA MoveKeepsLists ==
  ASSUME TypeOK, Live, NEW v \in Vehicles, NEW w \in Junctions \cup {Nowhere},
         ~ (w \in junctions /\ list.prev[w] = Null)
  PROVE  /\ UpdateToJunction(v, w) \in Lists
         /\ LiveIn(UpdateToJunction(v, w).next, UpdateToJunction(v, w).prev, Listed)
         /\ Rings => RingsIn(UpdateToJunction(v, w).next, UpdateToJunction(v, w).prev,
                             Placed(v, w), Listed)
<1> DEFINE N == list.next
           P == list.prev
           K == listnode_del(list, v)
           M == listnode_add(K, w, v)
           A0 == [at EXCEPT ![v] = Nowhere]
<1>1. /\ N \in Pointers /\ P \in Pointers /\ v \in Nodes /\ Listed \in SUBSET Junctions
      /\ at \in [Vehicles -> Junctions \cup {Nowhere}]
  BY DEF TypeOK, Pointers, Nodes, Listed
<1>2. \A x \in Listed \cup Vehicles : x \in Nodes
  BY DEF Nodes, Listed
<1>3. N[v] \in Nodes /\ P[v] \in Nodes
  BY <1>2 DEF Live, LiveIn
<1>4. /\ K \in Lists
      /\ \A x \in Nodes :
            /\ K.next[x] = IF x = v THEN v ELSE IF x = P[v] THEN N[v] ELSE N[x]
            /\ K.prev[x] = IF x = v THEN v ELSE IF x = N[v] THEN P[v] ELSE P[x]
  BY <1>1, <1>3, DelPointers
<1> HIDE DEF K
<1>5. LiveIn(K.next, K.prev, Listed)
  BY <1>1, <1>4, DelKeepsLive DEF Live
<1>6. ASSUME Rings PROVE RingsIn(K.next, K.prev, A0, Listed)
  <2>1. RingsIn(N, P, at, Listed)
    BY <1>6 DEF Rings
  <2>2. \A u \in Vehicles : A0[u] = IF u = v THEN Nowhere ELSE at[u]
    BY <1>1
  <2> HIDE DEF N, P, A0
  <2> QED
    BY <1>1, <1>4, <2>1, <2>2, DelKeepsRings
<1>7. CASE w \notin junctions
  <2>1. UpdateToJunction(v, w) = K /\ Placed(v, w) = A0
    BY <1>7 DEF UpdateToJunction, K, Placed
  <2> QED
    BY <1>4, <1>5, <1>6, <2>1
<1>8. CASE w \in junctions
  <2>1. UpdateToJunction(v, w) = M /\ Placed(v, w) = [at EXCEPT ![v] = w]
    BY <1>8 DEF UpdateToJunction, K, Placed
  <2>2. w \in Listed /\ w \in Nodes
    BY <1>8 DEF TypeOK, Live, LiveIn, Nodes
  <2>3. K.next \in Pointers /\ K.prev \in Pointers /\ K.prev[w] \in Nodes
    BY <1>2, <1>4, <1>5, <2>2 DEF Lists, LiveIn
  <2>4. /\ M \in Lists
        /\ \A x \in Nodes :
              /\ M.next[x] = IF x = K.prev[w] THEN v
                             ELSE IF x = v THEN K.next[K.prev[w]] ELSE K.next[x]
              /\ M.prev[x] = IF x = w THEN v ELSE IF x = v THEN K.prev[w] ELSE K.prev[x]
    BY <1>1, <2>2, <2>3, AddPointers
  <2> HIDE DEF M
  <2>5. LiveIn(M.next, M.prev, Listed)
    BY <1>1, <1>5, <2>2, <2>4, AddKeepsLive
  <2> DEFINE B == [at EXCEPT ![v] = w]
  <2>6. /\ A0 \in [Vehicles -> Junctions \cup {Nowhere}] /\ A0[v] = Nowhere
        /\ \A u \in Vehicles : B[u] = IF u = v THEN w ELSE A0[u]
    BY <1>1
  <2> HIDE DEF A0, B
  <2>7. ASSUME Rings PROVE RingsIn(M.next, M.prev, B, Listed)
    <3>1. RingsIn(K.next, K.prev, A0, Listed)
      BY <1>6, <2>7
    <3> DEFINE N0 == K.next
               P0 == K.prev
               N1 == M.next
               P1 == M.prev
    <3>2. \A x \in Nodes :
             /\ N1[x] = IF x = P0[w] THEN v ELSE IF x = v THEN N0[P0[w]] ELSE N0[x]
             /\ P1[x] = IF x = w THEN v ELSE IF x = v THEN P0[w] ELSE P0[x]
      BY <2>4
    <3>3. RingsIn(N0, P0, A0, Listed)
      BY <3>1
    <3> HIDE DEF N0, P0, N1, P1
    <3>4. RingsIn(N1, P1, B, Listed)
      BY <1>1, <2>2, <2>6, <3>2, <3>3, AddKeepsRings
    <3> QED
      BY <3>4 DEF N1, P1
  <2> QED
    BY <2>1, <2>4, <2>5, <2>7 DEF B
<1> QED
  BY <1>7, <1>8

(* Initializing a list makes no pointer dangle; a ring breaks only if it    *)
(* is initialized again.                                                    *)
LEMMA NewKeepsLists ==
  ASSUME TypeOK, Live, NEW j \in Junctions
  PROVE  /\ NewDevice(j) \in Lists
         /\ LiveIn(NewDevice(j).next, NewDevice(j).prev, Listed \cup {j})
         /\ Rings /\ j \notin Listed =>
               RingsIn(NewDevice(j).next, NewDevice(j).prev, at, Listed \cup {j})
<1> DEFINE K == listnode_init(list, j)
<1>1. /\ list.next \in Pointers /\ list.prev \in Pointers /\ j \in Nodes
      /\ Listed \in SUBSET Junctions /\ at \in [Vehicles -> Junctions \cup {Nowhere}]
  BY DEF TypeOK, Pointers, Nodes, Listed
<1>2. /\ K \in Lists
      /\ \A x \in Nodes : /\ K.next[x] = IF x = j THEN j ELSE list.next[x]
                          /\ K.prev[x] = IF x = j THEN j ELSE list.prev[x]
  BY <1>1, InitPointers
<1>3. NewDevice(j) = K
  BY DEF NewDevice
<1> HIDE DEF K
<1>4. LiveIn(K.next, K.prev, Listed \cup {j})
  BY <1>1, <1>2, InitKeepsLive DEF Live
<1>5. Rings /\ j \notin Listed => RingsIn(K.next, K.prev, at, Listed \cup {j})
  BY <1>1, <1>2, InitKeepsRings DEF Rings
<1> QED
  BY <1>2, <1>3, <1>4, <1>5

--------------------------------------------------------------------------------
(* The invariant for any number of radars: the tables have their types, a   *)
(* junction knows of no radar but its own, the package in hand has a frame  *)
(* left, and the pointers of the lists in use are not null.                 *)
Frames(j) == Seq(DevicesOf[j] \X (1..MaxTime))

Requests == [junction : Junctions, stamp : Nat, vehicles : SUBSET Nodes]

PackageInHand ==
    \/ todo = <<>>
    \/ \E j \in Junctions : \E f \in Frames(j) : f # <<>> /\ todo = <<j, f>>

OwnDevices == \A j \in Junctions : devices[j] \subseteq DevicesOf[j]

TableInv ==
    /\ TypeOK
    /\ PackageInHand
    /\ OwnDevices
    /\ flight \in Seq(Requests)
    /\ Live
    /\ DiesOnlyWithoutList

(* A step of HandleFrame, in terms of the frame it handles.                 *)
Handled(j, d, t) ==
    /\ devices' = [devices EXCEPT ![j] = @ \cup {d}]
    /\ list' = IF d \in devices[j] THEN list ELSE NewDevice(j)
    /\ \/ /\ FrameIsNew(j, d, t)
          /\ last' = [last EXCEPT ![j][d] = t]
          /\ flight' = Append(flight, [junction |-> j, stamp |-> t,
                                       vehicles |-> Walk(list', j)])
       \/ last' = last /\ flight' = flight /\ out' = Nothing

(* Every step of HandleFrame handles a frame of one of the junction's own   *)
(* radars, and leaves the rest of the package in hand or nothing.           *)
LEMMA FrameHandled ==
  ASSUME PackageInHand, HandleFrame
  PROVE  /\ \E j \in Junctions : \E d \in DevicesOf[j] : \E t \in 1..MaxTime : Handled(j, d, t)
         /\ PackageInHand'
         /\ up' = up /\ junctions' = junctions /\ index' = index /\ info' = info
         /\ request' = request /\ at' = at /\ up
<1>0. PICK j \in Junctions : \E f \in Frames(j) : f # <<>> /\ todo = <<j, f>>
  BY DEF PackageInHand, HandleFrame
<1>1. PICK f \in Frames(j) : f # <<>> /\ todo = <<j, f>>
  BY <1>0
<1> DEFINE d == f[1][1]
           t == f[1][2]
           left == IF FrameIsNew(j, d, t) THEN Tail(f) ELSE <<>>
<1>2. todo[1] = j /\ todo[2] = f
  BY <1>1
<1>3. f[1] \in DevicesOf[j] \X (1..MaxTime) /\ Tail(f) \in Frames(j)
  BY <1>1 DEF Frames
<1>4. d \in DevicesOf[j] /\ t \in 1..MaxTime
  BY <1>3
<1>5. Handled(j, d, t) /\ todo' = IF left = <<>> THEN <<>> ELSE <<j, left>>
  BY <1>2 DEF HandleFrame, Handled
<1>6. left \in Frames(j)
  BY <1>3 DEF Frames
<1> HIDE DEF left, d, t
<1>7. PackageInHand'
  BY <1>5, <1>6 DEF PackageInHand
<1>8. /\ up' = up /\ junctions' = junctions /\ index' = index /\ info' = info
      /\ request' = request /\ at' = at /\ up
  BY DEF HandleFrame
<1> QED
  BY <1>4, <1>5, <1>7, <1>8

(* A radar that has sent a frame makes its junction one with a list.        *)
LEMMA ListedGrows ==
  ASSUME TypeOK, NEW j \in Junctions, NEW d \in Devices,
         devices' = [devices EXCEPT ![j] = @ \cup {d}]
  PROVE  /\ Listed' = Listed \cup {j}
         /\ d \in devices[j] => Listed' = Listed
         /\ devices' \in [Junctions -> SUBSET Devices]
<1>1. devices \in [Junctions -> SUBSET Devices]
  BY DEF TypeOK
<1>2. \A i \in Junctions : devices'[i] = IF i = j THEN devices[i] \cup {d} ELSE devices[i]
  BY <1>1
<1>3. \A i : i \in Listed' <=> i \in Listed \cup {j}
  BY <1>2 DEF Listed
<1>4. d \in devices[j] => j \in Listed
  BY DEF Listed
<1> QED
  BY <1>1, <1>3, <1>4

(* The tables of a process that has just started.                           *)
LEMMA StartTables ==
  /\ NoDevices \in [Junctions -> SUBSET Devices]
  /\ \A j \in Junctions : NoDevices[j] = {}
  /\ NoFrames \in [Junctions -> [Devices -> Nat]]
  /\ NoLists \in Lists
  /\ [j \in Junctions |-> 0] \in [Junctions -> 0..(Cacher - 1)]
  /\ NoInfo \in [Junctions -> [0..(Cacher - 1) -> Nat]]
  /\ LiveIn(NoLists.next, NoLists.prev, {})
  /\ RingsIn(NoLists.next, NoLists.prev, [v \in Vehicles |-> Nowhere], {})
<1>1. NoList \in Pointers
  BY DEF NoList, Pointers, Nodes
<1>2. NoLists \in Lists /\ NoLists.next = NoList /\ NoLists.prev = NoList
  BY <1>1 DEF NoLists, Lists
<1>3. \A x \in Vehicles : NoList[x] = x
  BY DeviceAssumption DEF NoList, Nodes
<1>4. \A x \in Junctions : NoList[x] = Null
  BY DEF NoList, Nodes
<1>5. LiveIn(NoLists.next, NoLists.prev, {})
  BY <1>2, <1>3, <1>4 DEF LiveIn
<1>6. RingsIn(NoLists.next, NoLists.prev, [v \in Vehicles |-> Nowhere], {})
  BY <1>2, <1>3 DEF RingsIn
<1>7. /\ NoDevices \in [Junctions -> SUBSET Devices]
      /\ \A j \in Junctions : NoDevices[j] = {}
      /\ NoFrames \in [Junctions -> [Devices -> Nat]]
      /\ NoInfo \in [Junctions -> [0..(Cacher - 1) -> Nat]]
  BY DEF NoDevices, NoFrames, NoInfo
<1>8. [j \in Junctions |-> 0] \in [Junctions -> 0..(Cacher - 1)]
  BY DeviceAssumption
<1> QED
  BY <1>2, <1>5, <1>6, <1>7, <1>8

(* The initial state satisfies the invariant.                               *)
LEMMA InitTables == Init => TableInv
<1> SUFFICES ASSUME Init PROVE TableInv
  OBVIOUS
<1>1. /\ Listed = {} /\ OwnDevices
      /\ devices \in [Junctions -> SUBSET Devices]
      /\ last \in [Junctions -> [Devices -> Nat]]
      /\ list \in Lists
      /\ index \in [Junctions -> 0..(Cacher - 1)]
      /\ info \in [Junctions -> [0..(Cacher - 1) -> Nat]]
      /\ Live
  <2>1. /\ devices = NoDevices /\ last = NoFrames /\ list = NoLists
        /\ index = [j \in Junctions |-> 0] /\ info = NoInfo
    BY DEF Init
  <2>2. Listed = {} /\ OwnDevices
    BY <2>1, StartTables DEF Listed, OwnDevices
  <2> QED
    BY <2>1, <2>2, StartTables DEF Live
<1>2. /\ up = TRUE /\ junctions = {} /\ todo = <<>> /\ flight = <<>>
      /\ request \in [Junctions \cup Devices -> Nat]
      /\ at \in [Vehicles -> Junctions \cup {Nowhere}]
  BY DEF Init
<1>3. TypeOK
  BY <1>1, <1>2 DEF TypeOK, Lists, Pointers
<1> QED
  BY <1>1, <1>2, <1>3 DEF TableInv, PackageInHand, DiesOnlyWithoutList

(* A vehicle update: the process goes down only over a junction without a   *)
(* list, and otherwise the lists stay in order.                             *)
LEMMA VehicleUpdateTables ==
  ASSUME TableInv, NEW v \in Vehicles, NEW w \in Junctions \cup {Nowhere},
         VehicleUpdate(v, w)
  PROVE  TableInv'
<1>1. TypeOK /\ Live /\ PackageInHand /\ OwnDevices /\ flight \in Seq(Requests)
  BY DEF TableInv
<1>2. /\ devices' = devices /\ junctions' = junctions /\ last' = last /\ todo' = todo
      /\ flight' = flight /\ index' = index /\ info' = info /\ request' = request
      /\ Listed' = Listed
  BY DEF VehicleUpdate, Dies, tables, fusion, Listed
<1>3. PackageInHand' /\ OwnDevices' /\ flight' \in Seq(Requests)
  BY <1>1, <1>2 DEF PackageInHand, OwnDevices
<1>4. CASE w \in junctions /\ list.prev[w] = Null
  <2>1. up' = FALSE /\ list' = list /\ at' = at
    BY <1>4 DEF VehicleUpdate, Dies
  <2>2. w \in Junctions /\ devices[w] = {}
    <3>1. w \in Junctions
      BY <1>1, <1>4 DEF TypeOK
    <3>2. w \notin Listed
      BY <1>1, <1>4, DeviceAssumption DEF Live, LiveIn, Listed
    <3> QED
      BY <3>1, <3>2 DEF Listed
  <2>3. TypeOK'
    BY <1>1, <1>2, <2>1 DEF TypeOK
  <2>4. Live'
    BY <1>1, <1>2, <2>1 DEF Live
  <2>5. DiesOnlyWithoutList'
    BY <1>2, <1>4, <2>2 DEF DiesOnlyWithoutList
  <2> QED
    BY <1>3, <2>3, <2>4, <2>5 DEF TableInv
<1>5. CASE ~ (w \in junctions /\ list.prev[w] = Null)
  <2>1. up' = up /\ up /\ list' = UpdateToJunction(v, w) /\ at' = Placed(v, w)
    BY <1>5 DEF VehicleUpdate, Idle, Placed
  <2>2. list' \in Lists /\ LiveIn(list'.next, list'.prev, Listed)
    BY <1>1, <1>5, <2>1, MoveKeepsLists
  <2>3. at' \in [Vehicles -> Junctions \cup {Nowhere}]
    BY <1>1, <2>1 DEF TypeOK, Placed
  <2>4. TypeOK'
    BY <1>1, <1>2, <2>1, <2>2, <2>3 DEF TypeOK, Lists, Pointers
  <2>5. Live'
    BY <1>2, <2>2 DEF Live
  <2> QED
    BY <1>3, <2>1, <2>4, <2>5 DEF TableInv, DiesOnlyWithoutList
<1> QED
  BY <1>4, <1>5

(* A frame.                                                                 *)
LEMMA HandleFrameTables ==
  ASSUME TableInv, HandleFrame
  PROVE  TableInv'
<1>1. TypeOK /\ Live /\ PackageInHand /\ OwnDevices /\ flight \in Seq(Requests)
  BY DEF TableInv
<1>2. /\ PackageInHand'
      /\ up' = up /\ junctions' = junctions /\ index' = index /\ info' = info
      /\ request' = request /\ at' = at /\ up
  BY <1>1, FrameHandled
<1>3. PICK j \in Junctions : \E d \in DevicesOf[j] : \E t \in 1..MaxTime : Handled(j, d, t)
  BY <1>1, FrameHandled
<1>4. PICK d \in DevicesOf[j] : \E t \in 1..MaxTime : Handled(j, d, t)
  BY <1>3
<1>5. PICK t \in 1..MaxTime : Handled(j, d, t)
  BY <1>4
<1>6. d \in Devices /\ t \in Nat
  BY DeviceAssumption
<1>7. /\ Listed' = Listed \cup {j}
      /\ d \in devices[j] => Listed' = Listed
      /\ devices' \in [Junctions -> SUBSET Devices]
  BY <1>1, <1>5, <1>6, ListedGrows DEF Handled
<1>8. OwnDevices'
  BY <1>1, <1>5 DEF OwnDevices, Handled, TypeOK
<1>9. list' \in Lists /\ LiveIn(list'.next, list'.prev, Listed')
  <2>1. CASE d \in devices[j]
    <3>1. list' = list
      BY <1>5, <2>1 DEF Handled
    <3> QED
      BY <1>1, <1>7, <2>1, <3>1 DEF TypeOK, Lists, Pointers, Live
  <2>2. CASE d \notin devices[j]
    <3>1. list' = NewDevice(j)
      BY <1>5, <2>2 DEF Handled
    <3> QED
      BY <1>1, <1>7, <3>1, NewKeepsLists
  <2> QED
    BY <2>1, <2>2
<1>10. last' \in [Junctions -> [Devices -> Nat]]
  <2>1. last \in [Junctions -> [Devices -> Nat]]
    BY <1>1 DEF TypeOK
  <2>2. [last EXCEPT ![j][d] = t] \in [Junctions -> [Devices -> Nat]]
    BY <1>6, <2>1
  <2> QED
    BY <1>5, <2>1, <2>2 DEF Handled
<1>11. flight' \in Seq(Requests)
  <2>1. Walk(list', j) \in SUBSET Nodes
    BY <1>9 DEF Walk, Reached, Lists, Pointers
  <2>2. [junction |-> j, stamp |-> t, vehicles |-> Walk(list', j)] \in Requests
    BY <1>6, <2>1 DEF Requests
  <2> QED
    BY <1>1, <1>5, <2>2 DEF Handled
<1>12. TypeOK'
  BY <1>1, <1>2, <1>7, <1>9, <1>10 DEF TypeOK, Lists, Pointers
<1>13. Live'
  BY <1>9 DEF Live
<1> QED
  BY <1>2, <1>8, <1>11, <1>12, <1>13 DEF TableInv, DiesOnlyWithoutList

(* The other handlers, which leave the lists alone.                         *)
LEMMA OtherStepsTables ==
  ASSUME TableInv,
         \/ \E j \in Junctions : \E frames \in Packages(j) : UpdateSnapshot(j, frames)
         \/ OnRequestReply
         \/ ReplyIsLost
         \/ \E x \in Junctions \cup Devices, s \in BOOLEAN : Request(x, s)
         \/ RemoveAllRequest
         \/ Restart
         \/ UNCHANGED vars
  PROVE  TableInv'
<1>1. TypeOK /\ Live /\ PackageInHand /\ OwnDevices /\ flight \in Seq(Requests)
  BY DEF TableInv
<1>2. ASSUME NEW j \in Junctions, NEW frames \in Packages(j), UpdateSnapshot(j, frames)
      PROVE  TableInv'
  <2>1. /\ devices' = devices /\ last' = last /\ list' = list /\ index' = index
        /\ flight' = flight /\ info' = info /\ request' = request /\ at' = at
        /\ up' = up /\ up /\ Listed' = Listed
    BY <1>2 DEF UpdateSnapshot, Idle, fusion, Listed
  <2>2. frames \in Frames(j)
    BY DEF Packages, Frames
  <2>3. PackageInHand'
    BY <1>2, <2>2 DEF UpdateSnapshot, PackageInHand
  <2>4. TypeOK'
    BY <1>1, <1>2, <2>1 DEF TypeOK, UpdateSnapshot
  <2>5. Live' /\ OwnDevices'
    BY <1>1, <2>1 DEF Live, OwnDevices
  <2> QED
    BY <1>1, <2>1, <2>3, <2>4, <2>5 DEF TableInv, DiesOnlyWithoutList
<1>3. ASSUME OnRequestReply PROVE TableInv'
  <2>1. /\ devices' = devices /\ last' = last /\ list' = list /\ junctions' = junctions
        /\ todo' = todo /\ request' = request /\ at' = at /\ up' = up /\ up
        /\ flight' = Tail(flight) /\ flight # <<>> /\ Listed' = Listed
    BY <1>3 DEF OnRequestReply, Idle, tables, Listed
  <2>2. Head(flight) \in Requests /\ flight' \in Seq(Requests)
    BY <1>1, <2>1
  <2> DEFINE j == Head(flight).junction
             t == Head(flight).stamp
  <2>3. j \in Junctions /\ t \in Nat
    BY <2>2 DEF Requests
  <2>4. /\ info' = [info EXCEPT ![j][index[j]] = t]
        /\ index' = [index EXCEPT ![j] = (@ + 1) % Cacher]
    BY <1>3 DEF OnRequestReply
  <2> HIDE DEF j, t
  <2>5. info' \in [Junctions -> [0..(Cacher - 1) -> Nat]]
    BY <1>1, <2>3, <2>4 DEF TypeOK
  <2>6. index' \in [Junctions -> 0..(Cacher - 1)]
    <3>1. \A i \in 0..(Cacher - 1) : (i + 1) % Cacher \in 0..(Cacher - 1)
      BY DeviceAssumption
    <3>2. index[j] \in 0..(Cacher - 1)
      BY <1>1, <2>3 DEF TypeOK
    <3> QED
      BY <1>1, <2>4, <3>1, <3>2 DEF TypeOK
  <2>7. TypeOK'
    BY <1>1, <2>1, <2>5, <2>6 DEF TypeOK
  <2>8. Live' /\ OwnDevices' /\ PackageInHand'
    BY <1>1, <2>1 DEF Live, OwnDevices, PackageInHand
  <2> QED
    BY <2>1, <2>2, <2>7, <2>8 DEF TableInv, DiesOnlyWithoutList
<1>4. ASSUME ReplyIsLost PROVE TableInv'
  <2>1. /\ devices' = devices /\ last' = last /\ list' = list /\ junctions' = junctions
        /\ todo' = todo /\ request' = request /\ at' = at /\ up' = up /\ up
        /\ index' = index /\ info' = info
        /\ flight' = Tail(flight) /\ flight # <<>> /\ Listed' = Listed
    BY <1>4 DEF ReplyIsLost, Idle, tables, Listed
  <2>2. flight' \in Seq(Requests)
    BY <1>1, <2>1
  <2>3. TypeOK' /\ Live' /\ OwnDevices' /\ PackageInHand'
    BY <1>1, <2>1 DEF TypeOK, Live, OwnDevices, PackageInHand
  <2> QED
    BY <2>1, <2>2, <2>3 DEF TableInv, DiesOnlyWithoutList
<1>5. ASSUME /\ \/ \E x \in Junctions \cup Devices, s \in BOOLEAN : Request(x, s)
                \/ RemoveAllRequest
      PROVE  TableInv'
  <2>1. /\ devices' = devices /\ last' = last /\ list' = list /\ junctions' = junctions
        /\ todo' = todo /\ at' = at /\ up' = up /\ up
        /\ index' = index /\ info' = info /\ flight' = flight /\ Listed' = Listed
    BY <1>5 DEF Request, RemoveAllRequest, Idle, tables, fusion, Listed
  <2>2. request' \in [Junctions \cup Devices -> Nat]
    <3>1. CASE RemoveAllRequest
      BY <1>1, <3>1 DEF RemoveAllRequest, TypeOK
    <3>2. ASSUME NEW x \in Junctions \cup Devices, NEW s \in BOOLEAN, Request(x, s)
          PROVE  request' \in [Junctions \cup Devices -> Nat]
      <4>1. request[x] \in Nat
        BY <1>1 DEF TypeOK
      <4>2. RemoveRequestItem(x) \in Nat
        BY <4>1 DEF RemoveRequestItem
      <4> QED
        BY <1>1, <3>2, <4>1, <4>2 DEF TypeOK, Request
    <3> QED
      BY <1>5, <3>1, <3>2
  <2>3. TypeOK' /\ Live' /\ OwnDevices' /\ PackageInHand'
    BY <1>1, <2>1, <2>2 DEF TypeOK, Live, OwnDevices, PackageInHand
  <2> QED
    BY <1>1, <2>1, <2>3 DEF TableInv, DiesOnlyWithoutList
<1>6. ASSUME Restart PROVE TableInv'
  <2>1. /\ devices' = NoDevices /\ last' = NoFrames /\ list' = NoLists
        /\ index' = [j \in Junctions |-> 0] /\ info' = NoInfo
        /\ up' = TRUE /\ junctions' = {} /\ todo' = <<>> /\ flight' = <<>>
        /\ at' = [v \in Vehicles |-> Nowhere]
        /\ request' = [x \in DOMAIN request |-> 0]
    BY <1>6 DEF Restart
  <2>2. /\ OwnDevices'
        /\ devices' \in [Junctions -> SUBSET Devices]
        /\ last' \in [Junctions -> [Devices -> Nat]]
        /\ list' \in Lists
        /\ index' \in [Junctions -> 0..(Cacher - 1)]
        /\ info' \in [Junctions -> [0..(Cacher - 1) -> Nat]]
        /\ Live'
    <3>1. Listed' = {} /\ OwnDevices'
      BY <2>1, StartTables DEF Listed, OwnDevices
    <3> QED
      BY <2>1, <3>1, StartTables DEF Live
  <2>3. /\ request' \in [Junctions \cup Devices -> Nat]
        /\ at' \in [Vehicles -> Junctions \cup {Nowhere}]
    BY <1>1, <2>1 DEF TypeOK
  <2>4. TypeOK'
    BY <2>1, <2>2, <2>3 DEF TypeOK, Lists, Pointers
  <2> QED
    BY <2>1, <2>2, <2>4 DEF TableInv, PackageInHand, DiesOnlyWithoutList
<1>7. ASSUME UNCHANGED vars PROVE TableInv'
  <2>1. /\ devices' = devices /\ last' = last /\ list' = list /\ junctions' = junctions
        /\ todo' = todo /\ request' = request /\ at' = at /\ up' = up
        /\ index' = index /\ info' = info /\ flight' = flight /\ Listed' = Listed
    BY <1>7 DEF vars, tables, fusion, Listed
  <2> QED
    BY <1>1, <2>1 DEF TableInv, TypeOK, Live, OwnDevices, PackageInHand, DiesOnlyWithoutList
<1> QED
  BY <1>2, <1>3, <1>4, <1>5, <1>6, <1>7

(* Every step.                                                              *)
LEMMA NextTables == TableInv /\ [Next]_vars => TableInv'
<1> SUFFICES ASSUME TableInv, [Next]_vars PROVE TableInv'
  OBVIOUS
<1>1. CASE \E v \in Vehicles, w \in Junctions \cup {Nowhere} : VehicleUpdate(v, w)
  BY <1>1, VehicleUpdateTables
<1>2. CASE HandleFrame
  BY <1>2, HandleFrameTables
<1>3. CASE \/ \E j \in Junctions : \E frames \in Packages(j) : UpdateSnapshot(j, frames)
           \/ OnRequestReply
           \/ ReplyIsLost
           \/ \E x \in Junctions \cup Devices, s \in BOOLEAN : Request(x, s)
           \/ RemoveAllRequest
           \/ Restart
           \/ UNCHANGED vars
  BY <1>3, OtherStepsTables
<1> QED
  BY <1>1, <1>2, <1>3 DEF Next

(* The tables keep their types and no null pointer is followed unnoticed,   *)
(* however many radars a junction has.                                      *)
THEOREM TableInvariant == Spec => []TableInv
<1>1. Init => TableInv
  BY InitTables
<1>2. TableInv /\ [Next]_vars => TableInv'
  BY NextTables
<1> QED
  BY <1>1, <1>2, PTL DEF Spec

(* The service dies on a null pointer only if some junction has announced   *)
(* itself with an empty package and has never sent a frame.                 *)
THEOREM DiesOnlyOnEmptyPackages == Spec => []DiesOnlyWithoutList
<1>1. TableInv => DiesOnlyWithoutList
  BY DEF TableInv
<1> QED
  BY <1>1, TableInvariant, PTL

--------------------------------------------------------------------------------
(* The requests of a junction with one radar, in flight F: their timestamps *)
(* grow, and none is beyond the newest frame of the radar.                  *)
Single(j) == \E d : DevicesOf[j] = {d}

Sent(F, D, T) ==
    \A i \in 1..Len(F) :
        Single(F[i].junction) =>
            \A d \in DevicesOf[F[i].junction] :
                d \in D[F[i].junction] /\ F[i].stamp <= T[F[i].junction][d]

Ordered(F) ==
    \A i, k \in 1..Len(F) :
        i < k /\ F[i].junction = F[k].junction /\ Single(F[i].junction)
            => F[i].stamp < F[k].stamp

OrderInv == Sent(flight, devices, last) /\ Ordered(flight)

(* The oldest request is answered or lost.                                  *)
LEMMA TailOrdered ==
  ASSUME NEW F \in Seq(Requests), F # <<>>, NEW D, NEW T, Sent(F, D, T), Ordered(F)
  PROVE  Sent(Tail(F), D, T) /\ Ordered(Tail(F))
<1> DEFINE G == Tail(F)
<1>1. /\ Len(F) \in Nat /\ Len(G) = Len(F) - 1
      /\ \A i \in 1..Len(G) : G[i] = F[i + 1] /\ i + 1 \in 1..Len(F) /\ i \in Nat
  OBVIOUS
<1> HIDE DEF G
<1>2. Sent(G, D, T)
  BY <1>1 DEF Sent
<1>3. ASSUME NEW i \in 1..Len(G), NEW k \in 1..Len(G),
             i < k /\ G[i].junction = G[k].junction /\ Single(G[i].junction)
      PROVE  G[i].stamp < G[k].stamp
  <2>1. i + 1 \in 1..Len(F) /\ k + 1 \in 1..Len(F) /\ i + 1 < k + 1
    BY <1>1, <1>3
  <2> QED
    BY <1>1, <1>3, <2>1 DEF Ordered
<1> QED
  BY <1>2, <1>3 DEF Ordered, G

(* Tables D1 and T1 are D and T with the frame of timestamp t of radar d.   *)
Recorded(D, T, D1, T1, j, d, t) ==
    /\ \A i \in Junctions : D1[i] = IF i = j THEN D[i] \cup {d} ELSE D[i]
    /\ \A i \in Junctions : \A e \in Devices :
          T1[i][e] = IF i = j /\ e = d THEN t ELSE T[i][e]

(* A frame that is new is sent.                                             *)
LEMMA AppendOrdered ==
  ASSUME NEW F \in Seq(Requests), NEW D, NEW T \in [Junctions -> [Devices -> Nat]],
         Sent(F, D, T), Ordered(F),
         NEW j \in Junctions, NEW d \in DevicesOf[j], NEW t \in Nat, NEW r \in Requests,
         r.junction = j, r.stamp = t, d \notin D[j] \/ t > T[j][d],
         NEW D1, NEW T1, Recorded(D, T, D1, T1, j, d, t)
  PROVE  Sent(Append(F, r), D1, T1) /\ Ordered(Append(F, r))
<1> DEFINE G == Append(F, r)
           n == Len(F)
<1>0. /\ \A i \in Junctions : D1[i] = IF i = j THEN D[i] \cup {d} ELSE D[i]
      /\ \A i \in Junctions : \A e \in Devices :
            T1[i][e] = IF i = j /\ e = d THEN t ELSE T[i][e]
  BY DEF Recorded
<1>1. /\ n \in Nat /\ Len(G) = n + 1 /\ G[n + 1] = r
      /\ \A i \in 1..n : G[i] = F[i] /\ F[i] \in Requests
      /\ \A i \in 1..(n + 1) : i \in 1..n \/ i = n + 1
  OBVIOUS
<1>2. \A i \in Junctions : \A e \in DevicesOf[i] : e \in Devices
  BY DeviceAssumption
<1>3. \A i \in 1..n : F[i].junction \in Junctions /\ F[i].stamp \in Nat
  BY <1>1 DEF Requests
<1>4. ASSUME NEW i \in 1..n, Single(F[i].junction), F[i].junction = j
      PROVE  DevicesOf[j] = {d} /\ d \in D[j] /\ F[i].stamp < t
  <2>1. DevicesOf[j] = {d}
    BY <1>4 DEF Single
  <2>2. d \in D[j] /\ F[i].stamp <= T[j][d]
    BY <1>4, <2>1 DEF Sent
  <2>3. T[j][d] \in Nat
    BY <1>2
  <2> QED
    BY <1>3, <2>1, <2>2, <2>3
<1> HIDE DEF G, n
<1>5. ASSUME NEW i \in 1..Len(G), Single(G[i].junction), NEW e \in DevicesOf[G[i].junction]
      PROVE  e \in D1[G[i].junction] /\ G[i].stamp <= T1[G[i].junction][e]
  <2>1. CASE i = n + 1
    <3>1. G[i].junction = j /\ G[i].stamp = t
      BY <1>1, <2>1
    <3>2. e = d
      BY <1>5, <3>1 DEF Single
    <3>3. T1[j][d] = t /\ d \in D1[j]
      BY <1>0, <1>2
    <3> QED
      BY <3>1, <3>2, <3>3
  <2>2. CASE i \in 1..n /\ F[i].junction = j
    <3>1. G[i].junction = j /\ G[i].stamp = F[i].stamp
      BY <1>1, <2>2
    <3>2. DevicesOf[j] = {d} /\ F[i].stamp < t
      BY <1>4, <1>5, <2>2, <3>1
    <3>3. T1[j][d] = t /\ d \in D1[j] /\ e = d
      BY <1>0, <1>2, <1>5, <3>1, <3>2
    <3> QED
      BY <1>3, <2>2, <3>1, <3>2, <3>3
  <2>3. CASE i \in 1..n /\ F[i].junction # j
    <3>1. G[i] = F[i] /\ F[i].junction \in Junctions
      BY <1>1, <1>3, <2>3
    <3>2. i \in 1..Len(F)
      BY <2>3 DEF n
    <3>3. e \in D[F[i].junction] /\ F[i].stamp <= T[F[i].junction][e]
      BY <1>5, <3>1, <3>2 DEF Sent
    <3>4. D1[F[i].junction] = D[F[i].junction] /\ T1[F[i].junction][e] = T[F[i].junction][e]
      BY <1>0, <1>2, <1>5, <2>3, <3>1
    <3> QED
      BY <3>1, <3>3, <3>4
  <2> QED
    BY <1>1, <2>1, <2>2, <2>3
<1>6. ASSUME NEW i \in 1..Len(G), NEW k \in 1..Len(G),
             i < k /\ G[i].junction = G[k].junction /\ Single(G[i].junction)
      PROVE  G[i].stamp < G[k].stamp
  <2>1. i \in 1..n
    BY <1>1, <1>6
  <2>2. CASE k = n + 1
    <3>1. G[i] = F[i] /\ F[i].junction = j /\ G[k].stamp = t
      BY <1>1, <1>6, <2>1, <2>2
    <3> QED
      BY <1>4, <1>6, <2>1, <3>1
  <2>3. CASE k \in 1..n
    <3>1. G[i] = F[i] /\ G[k] = F[k] /\ i \in 1..Len(F) /\ k \in 1..Len(F)
      BY <1>1, <2>1, <2>3 DEF n
    <3> QED
      BY <1>6, <3>1 DEF Ordered
  <2> QED
    BY <1>1, <2>2, <2>3
<1>7. Sent(G, D1, T1)
  BY <1>5 DEF Sent
<1>8. Ordered(G)
  BY <1>6 DEF Ordered
<1> QED
  BY <1>7, <1>8 DEF G

(* A frame keeps the requests in order, whether it is sent or not.          *)
LEMMA HandleFrameOrdered ==
  ASSUME TableInv, OrderInv, HandleFrame
  PROVE  OrderInv'
<1>1. TypeOK /\ PackageInHand /\ flight \in Seq(Requests)
  BY DEF TableInv
<1>2. /\ devices \in [Junctions -> SUBSET Devices]
      /\ last \in [Junctions -> [Devices -> Nat]]
  BY <1>1 DEF TypeOK
<1>3. PICK j \in Junctions : \E d \in DevicesOf[j] : \E t \in 1..MaxTime : Handled(j, d, t)
  BY <1>1, FrameHandled
<1>4. PICK d \in DevicesOf[j] : \E t \in 1..MaxTime : Handled(j, d, t)
  BY <1>3
<1>5. PICK t \in 1..MaxTime : Handled(j, d, t)
  BY <1>4
<1>6. d \in Devices /\ t \in Nat
  BY DeviceAssumption
<1>7. \A i \in Junctions : devices'[i] = IF i = j THEN devices[i] \cup {d} ELSE devices[i]
  BY <1>2, <1>5 DEF Handled
<1>8. CASE last' = last /\ flight' = flight
  <2>1. \A i \in 1..Len(flight) : flight[i].junction \in Junctions
    <3>1. \A i \in 1..Len(flight) : flight[i] \in Requests
      BY <1>1
    <3> QED
      BY <3>1 DEF Requests
  <2>2. Sent(flight, devices', last)
    BY <1>7, <2>1 DEF OrderInv, Sent
  <2> QED
    BY <1>8, <2>2 DEF OrderInv
<1>9. CASE /\ FrameIsNew(j, d, t)
           /\ last' = [last EXCEPT ![j][d] = t]
           /\ flight' = Append(flight, [junction |-> j, stamp |-> t,
                                        vehicles |-> Walk(list', j)])
  <2> DEFINE r == [junction |-> j, stamp |-> t, vehicles |-> Walk(list', j)]
  <2>1. flight' \in Seq(Requests)
    BY HandleFrameTables DEF TableInv
  <2>2. r \in Requests
    BY <1>1, <1>9, <2>1
  <2>3. r.junction = j /\ r.stamp = t
    OBVIOUS
  <2>4. \A i \in Junctions : \A e \in Devices :
           last'[i][e] = IF i = j /\ e = d THEN t ELSE last[i][e]
    BY <1>2, <1>9
  <2>5. flight' = Append(flight, r)
    BY <1>9
  <2> HIDE DEF r
  <2>6. d \notin devices[j] \/ t > last[j][d]
    BY <1>9 DEF FrameIsNew
  <2>7. Sent(Append(flight, r), devices', last') /\ Ordered(Append(flight, r))
    <3>1. Recorded(devices, last, devices', last', j, d, t)
      BY <1>7, <2>4 DEF Recorded
    <3>2. Sent(flight, devices, last) /\ Ordered(flight)
      BY DEF OrderInv
    <3> QED
      BY <1>1, <1>2, <1>6, <2>2, <2>3, <2>6, <3>1, <3>2, AppendOrdered
  <2> QED
    BY <2>5, <2>7 DEF OrderInv
<1> QED
  BY <1>5, <1>8, <1>9 DEF Handled

(* Every step keeps the requests in order.                                  *)
LEMMA NextOrdered == TableInv /\ OrderInv /\ [Next]_vars => OrderInv'
<1> SUFFICES ASSUME TableInv, OrderInv, [Next]_vars PROVE OrderInv'
  OBVIOUS
<1>1. flight \in Seq(Requests) /\ Sent(flight, devices, last) /\ Ordered(flight)
  BY DEF TableInv, OrderInv
<1>2. CASE HandleFrame
  BY <1>2, HandleFrameOrdered
<1>3. CASE OnRequestReply \/ ReplyIsLost
  <2>1. devices' = devices /\ last' = last /\ flight' = Tail(flight) /\ flight # <<>>
    BY <1>3 DEF OnRequestReply, ReplyIsLost, tables
  <2> QED
    BY <1>1, <2>1, TailOrdered DEF OrderInv
<1>4. CASE Restart
  BY <1>4 DEF Restart, OrderInv, Sent, Ordered
<1>5. CASE devices' = devices /\ last' = last /\ flight' = flight
  BY <1>1, <1>5 DEF OrderInv
<1>6. CASE \E v \in Vehicles, w \in Junctions \cup {Nowhere} : VehicleUpdate(v, w)
  BY <1>5, <1>6 DEF VehicleUpdate, Dies, tables, fusion
<1>7. CASE \E j \in Junctions : \E frames \in Packages(j) : UpdateSnapshot(j, frames)
  BY <1>5, <1>7 DEF UpdateSnapshot, fusion
<1>8. CASE \E x \in Junctions \cup Devices, s \in BOOLEAN : Request(x, s)
  BY <1>5, <1>8 DEF Request, tables, fusion
<1>9. CASE RemoveAllRequest \/ UNCHANGED vars
  BY <1>5, <1>9 DEF RemoveAllRequest, vars, tables, fusion
<1> QED
  BY <1>2, <1>3, <1>4, <1>6, <1>7, <1>8, <1>9 DEF Next

(* At a junction with one radar the requests at the fusion service have     *)
(* growing timestamps: add_device_info lets no frame pass that is not newer *)
(* than all that were sent before.                                          *)
THEOREM OrderIsKept == Spec => []RequestsInOrder
<1>1. Init => OrderInv
  BY DEF Init, OrderInv, Sent, Ordered
<1>2. TableInv /\ OrderInv /\ [Next]_vars => OrderInv'
  BY NextOrdered
<1>3. TableInv /\ OrderInv => RequestsInOrder
  <2> SUFFICES ASSUME TableInv, OrderInv PROVE RequestsInOrder
    OBVIOUS
  <2>1. flight \in Seq(Requests)
    BY DEF TableInv
  <2>2. DOMAIN flight = 1..Len(flight) /\ \A i \in DOMAIN flight : flight[i] \in Requests
    BY <2>1
  <2>3. \A i \in DOMAIN flight : flight[i].junction \in Junctions
    BY <2>2 DEF Requests
  <2>4. ASSUME NEW j \in Junctions, Cardinality(DevicesOf[j]) = 1 PROVE Single(j)
    <3>1. IsFiniteSet(DevicesOf[j])
      BY DeviceAssumption, FS_Subset
    <3> QED
      BY <2>4, <3>1, FS_Singleton DEF Single
  <2>5. Ordered(flight)
    BY DEF OrderInv
  <2> QED
    BY <2>2, <2>3, <2>4, <2>5 DEF RequestsInOrder, Ordered
<1> QED
  BY <1>1, <1>2, <1>3, TableInvariant, PTL DEF Spec

--------------------------------------------------------------------------------
(* The slot before the one the index has moved on to is the slot that was   *)
(* just written, at the end of the ring as well.                            *)
LEMMA SlotBefore ==
  ASSUME NEW n \in Nat \ {0}, NEW i \in 0..(n - 1)
  PROVE  (((i + 1) % n) + n - 1) % n = i
<1>1. CASE i + 1 < n
  <2>1. (i + 1) % n = i + 1
    BY <1>1
  <2>2. (i + n) % n = i
    BY <1>1
  <2> QED
    BY <2>1, <2>2
<1>2. CASE i + 1 = n
  <2>1. (i + 1) % n = 0
    BY <1>2
  <2>2. (n - 1) % n = n - 1
    OBVIOUS
  <2> QED
    BY <1>2, <2>1, <2>2
<1> QED
  BY <1>1, <1>2

(* What goes to the vehicles, to the center and to Kafka is the fusion      *)
(* result that has just arrived, for any length of the ring of results.     *)
THEOREM ResultsArePassedOn == Spec => SendsWhatArrived
<1>1. ASSUME TableInv, [Next]_vars, flight # <<>>, flight' = Tail(flight), out' # Nothing,
             vars' # vars
      PROVE  out'.stamp = Head(flight).stamp
  <2>1. TypeOK /\ PackageInHand /\ flight \in Seq(Requests)
    BY <1>1 DEF TableInv
  <2>2. Len(Tail(flight)) = Len(flight) - 1 /\ Len(flight) \in Nat /\ Tail(flight) # flight
    BY <1>1, <2>1
  <2>3. CASE OnRequestReply
    <3> DEFINE j == Head(flight).junction
               t == Head(flight).stamp
               i == index[j]
    <3>1. Head(flight) \in Requests
      BY <1>1, <2>1
    <3>2. j \in Junctions
      BY <3>1 DEF Requests
    <3>3. /\ info \in [Junctions -> [0..(Cacher - 1) -> Nat]]
          /\ index \in [Junctions -> 0..(Cacher - 1)]
      BY <2>1 DEF TypeOK
    <3>4. /\ info' = [info EXCEPT ![j][i] = t]
          /\ index' = [index EXCEPT ![j] = (@ + 1) % Cacher]
          /\ out'.stamp = info'[j][ResultIndex(j)]
      BY <2>3 DEF OnRequestReply
    <3> HIDE DEF j, t
    <3>5. index'[j] = (i + 1) % Cacher /\ i \in 0..(Cacher - 1)
      BY <3>2, <3>3, <3>4
    <3>6. info'[j][i] = t
      BY <3>2, <3>3, <3>4
    <3>7. ResultIndex(j) = i
      BY <3>5, SlotBefore, DeviceAssumption DEF ResultIndex
    <3> QED
      BY <3>4, <3>6, <3>7 DEF t
  <2>4. CASE HandleFrame
    <3>1. PICK j \in Junctions : \E d \in DevicesOf[j] : \E t \in 1..MaxTime : Handled(j, d, t)
      BY <2>1, <2>4, FrameHandled
    <3>2. PICK d \in DevicesOf[j], t \in 1..MaxTime : Handled(j, d, t)
      BY <3>1
    <3>3. PICK r : flight' = Append(flight, r)
      BY <1>1, <3>2 DEF Handled
    <3>4. Len(Append(flight, r)) = Len(flight) + 1
      BY <2>1
    <3>5. Append(flight, r) = Tail(flight)
      BY <1>1, <3>3
    <3>6. Len(flight) + 1 = Len(flight) - 1
      BY ONLY <2>2, <3>4, <3>5, Zenon
    <3> QED
      BY <2>2, <3>6
  <2>5. CASE \E v \in Vehicles, w \in Junctions \cup {Nowhere} : VehicleUpdate(v, w)
    <3>1. flight' = flight
      BY <2>5 DEF VehicleUpdate, Dies, fusion
    <3> QED
      BY <1>1, <2>2, <3>1
  <2>6. CASE ReplyIsLost \/ RemoveAllRequest \/ Restart
    BY <1>1, <2>6 DEF ReplyIsLost, RemoveAllRequest, Restart
  <2>7. CASE \/ \E j \in Junctions : \E frames \in Packages(j) : UpdateSnapshot(j, frames)
             \/ \E x \in Junctions \cup Devices, s \in BOOLEAN : Request(x, s)
    BY <1>1, <2>7 DEF UpdateSnapshot, Request
  <2> QED
    BY <1>1, <2>3, <2>4, <2>5, <2>6, <2>7 DEF Next
<1>2. TableInv /\ [Next]_vars =>
         [flight # <<>> /\ flight' = Tail(flight) /\ out' # Nothing
            => out'.stamp = Head(flight).stamp]_vars
  BY <1>1
<1> QED
  BY <1>2, TableInvariant, PTL DEF Spec, SendsWhatArrived

--------------------------------------------------------------------------------
(* The lists of a site where every junction has one radar at most, so that  *)
(* no list is initialized while it holds vehicles.                          *)
AtMostOneRadar == \A j \in Junctions : \A d, e \in DevicesOf[j] : d = e

(* Every step keeps a ring for each junction.                               *)
LEMMA NextRings ==
  ASSUME AtMostOneRadar, TableInv, Rings, [Next]_vars
  PROVE  Rings'
<1>1. TypeOK /\ Live /\ PackageInHand /\ OwnDevices
  BY DEF TableInv
<1>2. CASE list' = list /\ at' = at /\ devices' = devices
  BY <1>2 DEF Rings, Listed
<1>3. ASSUME NEW v \in Vehicles, NEW w \in Junctions \cup {Nowhere}, VehicleUpdate(v, w)
      PROVE  Rings'
  <2>1. CASE w \in junctions /\ list.prev[w] = Null
    BY <1>2, <1>3, <2>1 DEF VehicleUpdate, Dies, tables
  <2>2. CASE ~ (w \in junctions /\ list.prev[w] = Null)
    <3>1. list' = UpdateToJunction(v, w) /\ at' = Placed(v, w) /\ Listed' = Listed
      BY <1>3, <2>2 DEF VehicleUpdate, Placed, tables, Listed
    <3> QED
      BY <1>1, <2>2, <3>1, MoveKeepsLists DEF Rings
  <2> QED
    BY <2>1, <2>2
<1>4. CASE HandleFrame
  <2>1. at' = at
    BY <1>1, <1>4, FrameHandled
  <2>2. PICK j \in Junctions : \E d \in DevicesOf[j] : \E t \in 1..MaxTime : Handled(j, d, t)
    BY <1>1, <1>4, FrameHandled
  <2>3. PICK d \in DevicesOf[j], t \in 1..MaxTime : Handled(j, d, t)
    BY <2>2
  <2>4. Listed' = Listed \cup {j} /\ (d \in devices[j] => Listed' = Listed)
    BY <1>1, <2>3, ListedGrows, DeviceAssumption DEF Handled
  <2>5. CASE d \in devices[j]
    BY <2>1, <2>3, <2>4, <2>5 DEF Handled, Rings
  <2>6. CASE d \notin devices[j]
    <3>1. j \notin Listed
      BY <1>1, <2>6 DEF AtMostOneRadar, OwnDevices, Listed
    <3>2. list' = NewDevice(j)
      BY <2>3, <2>6 DEF Handled
    <3> QED
      BY <1>1, <2>1, <2>4, <3>1, <3>2, NewKeepsLists DEF Rings
  <2> QED
    BY <2>5, <2>6
<1>5. CASE Restart
  <2>1. /\ list' = NoLists /\ at' = [v \in Vehicles |-> Nowhere] /\ devices' = NoDevices
    BY <1>5 DEF Restart
  <2>2. Listed' = {}
    BY <2>1, StartTables DEF Listed
  <2> QED
    BY <2>1, <2>2, StartTables DEF Rings
<1>6. CASE \E j \in Junctions : \E frames \in Packages(j) : UpdateSnapshot(j, frames)
  BY <1>2, <1>6 DEF UpdateSnapshot
<1>7. CASE OnRequestReply \/ ReplyIsLost \/ RemoveAllRequest \/ UNCHANGED vars
  BY <1>2, <1>7 DEF OnRequestReply, ReplyIsLost, RemoveAllRequest, vars, tables
<1>8. CASE \E x \in Junctions \cup Devices, s \in BOOLEAN : Request(x, s)
  BY <1>2, <1>8 DEF Request, tables
<1> QED
  BY <1>3, <1>4, <1>5, <1>6, <1>7, <1>8 DEF Next

(* The rings are an invariant.                                              *)
LEMMA RingsInvariant ==
  ASSUME AtMostOneRadar
  PROVE  Spec => [](TableInv /\ Rings)
<1>1. Init => TableInv /\ Rings
  <2>1. Init => Rings
    <3> SUFFICES ASSUME Init PROVE Rings
      OBVIOUS
    <3>1. /\ list = NoLists /\ at = [v \in Vehicles |-> Nowhere] /\ devices = NoDevices
      BY DEF Init
    <3>2. Listed = {}
      BY <3>1, StartTables DEF Listed
    <3> QED
      BY <3>1, <3>2, StartTables DEF Rings
  <2> QED
    BY <2>1, InitTables
<1>2. TableInv /\ Rings /\ [Next]_vars => (TableInv /\ Rings)'
  BY NextTables, NextRings
<1> QED
  BY <1>1, <1>2, PTL DEF Spec

(* In a ring the loop over the list visits its members and ends.            *)
LEMMA RingsWalked ==
  ASSUME TableInv, Rings, NEW j \in Listed
  PROVE  WalkEnds(list, j) /\ Walk(list, j) = {v \in Vehicles : at[v] = j}
<1> DEFINE M == Members(at, j)
<1>1. Ring(list.next, list.prev, j, M) /\ j \notin M
  BY DEF Rings, RingsIn, Ring
<1>2. M \cup {j} \subseteq DOMAIN list.next
  BY DEF TableInv, TypeOK, Members, Listed, Nodes
<1>3. M = {v \in Vehicles : at[v] = j}
  BY DEF Members
<1> HIDE DEF M
<1>4. Reached(list, j) = M \cup {j}
  BY <1>1, <1>2, RingReached
<1> QED
  BY <1>1, <1>3, <1>4 DEF WalkEnds, Walk

(* With one radar at each junction the tables have their types, the two     *)
(* directions of every list agree, no vehicle is in two lists, and every    *)
(* loop over a list ends, for any number of junctions and vehicles.         *)
THEOREM ListsStayLinked ==
  ASSUME AtMostOneRadar
  PROVE  Spec => []ListsInv
<1>1. TableInv /\ Rings => ListsInv
  <2> SUFFICES ASSUME TableInv, Rings PROVE ListsInv
    OBVIOUS
  <2>1. TypeOK /\ \A j \in Listed : WalkEnds(list, j)
    BY RingsWalked DEF TableInv
  <2> DEFINE N == list.next
             P == list.prev
             Q == Listed \cup Vehicles
  <2>2. /\ \A j \in Listed : Ring(N, P, j, Members(at, j))
        /\ \A v \in Vehicles : at[v] = Nowhere => N[v] = v /\ P[v] = v
        /\ \A v \in Vehicles : at[v] \in Listed \cup {Nowhere}
    BY DEF Rings, RingsIn
  <2> HIDE DEF N, P
  <2>3. ASSUME NEW j \in Listed, NEW x \in Members(at, j) \cup {j}
        PROVE  N[x] \in Q /\ P[x] \in Q /\ P[N[x]] = x /\ N[P[x]] = x
    <3>1. Linked(N, P, Members(at, j) \cup {j})
      BY <2>2 DEF Ring
    <3>2. Members(at, j) \cup {j} \subseteq Q
      BY DEF Members
    <3> QED
      BY <3>1, <3>2 DEF Linked
  <2>4. ASSUME NEW x \in Q
        PROVE  N[x] \in Q /\ P[x] \in Q /\ P[N[x]] = x /\ N[P[x]] = x
    <3>1. CASE x \in Listed
      BY <2>3, <3>1
    <3>2. CASE x \in Vehicles /\ at[x] = Nowhere
      BY <2>2, <3>2
    <3>3. CASE x \in Vehicles /\ at[x] \in Listed
      <4>1. x \in Members(at, at[x])
        BY <3>3 DEF Members
      <4> QED
        BY <2>3, <3>3, <4>1
    <3> QED
      BY <2>2, <3>1, <3>2, <3>3
  <2>5. ListsWellLinked
    BY <2>4 DEF ListsWellLinked, WellLinked, N, P
  <2> QED
    BY <2>1, <2>5 DEF ListsInv, WalksEnd
<1> QED
  BY <1>1, RingsInvariant, PTL

(* With one radar at each junction the vehicles that are sent what the      *)
(* fusion service finds there are those whose last update placed them       *)
(* there, and no others.                                                    *)
THEOREM VehiclesAtJunctionAreReached ==
  ASSUME AtMostOneRadar
  PROVE  Spec => []ReachesVehiclesAtJunction
<1>1. TableInv /\ Rings => ReachesVehiclesAtJunction
  BY RingsWalked DEF ReachesVehiclesAtJunction
<1> QED
  BY <1>1, RingsInvariant, PTL

================================================================================
