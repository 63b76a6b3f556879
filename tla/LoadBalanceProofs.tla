--------------------------- MODULE LoadBalanceProofs ---------------------------
(* Proofs that the load-balance service keeps its dispatch invariant.       *)
EXTENDS LoadBalance, TLAPS

--------------------------------------------------------------------------------
(* The argument of BoundedBypass on plain functions: C[i] is the count of   *)
(* the i-th endpoint of a list of n, B[i][j] how often j passed i over, M   *)
(* the max-count; D and A are their values after a dispatch to the k-th.    *)
Typed(n, C, B) ==
    \A i, j \in 1..n : C[i] \in Nat /\ B[i][j] \in Nat

Below(n, M, C) == \A i \in 1..n : C[i] < M

Descends(n, C) == \A i, j \in 1..n : i < j => C[j] <= C[i]

AccountAt(i, j, M, C, B) ==
    /\ j < i => \/ B[i][j] = 0
                \/ B[i][j] = 1 /\ C[j] = C[i] + 1
                \/ C[i] = 0 /\ C[j] <= 1 /\ B[i][j] <= 1 + C[j]
    /\ i < j => \/ B[i][j] <= C[j]
                \/ C[i] = 0 /\ C[j] = 0 /\ B[i][j] <= M - 1
    /\ i = j => B[i][j] = 0

Account(n, M, C, B) == \A i, j \in 1..n : AccountAt(i, j, M, C, B)

FirstLeast(n, C, k) ==
    \A j \in 1..n : C[k] <= C[j] /\ (j < k => C[k] < C[j])

CountStep(n, M, C, D, k) ==
    \A i \in 1..n : D[i] = IF C[k] + 1 >= M THEN 0
                           ELSE IF i = k THEN C[k] + 1 ELSE C[i]

BypassStep(n, M, B, A, k) ==
    \A i, j \in 1..n :
        A[i][j] = IF i = k THEN 0
                  ELSE IF j = k /\ B[i][j] <= M + 1 THEN B[i][j] + 1
                  ELSE B[i][j]

(* Choosing the first smallest count keeps the list descending and the      *)
(* bypass account balanced, with or without a reset.                        *)
LEMMA AccountPreserved ==
  ASSUME NEW n \in Nat, NEW M \in Nat, M >= 2, NEW k \in 1..n,
         NEW C, NEW D, NEW B, NEW A,
         Typed(n, C, B), Below(n, M, C), Descends(n, C), Account(n, M, C, B),
         FirstLeast(n, C, k), CountStep(n, M, C, D, k), BypassStep(n, M, B, A, k)
  PROVE  Below(n, M, D) /\ Descends(n, D) /\ Account(n, M, D, A)
<1>1. \A i, j \in 1..n : B[i][j] <= M + 1
  BY DEF Typed, Below, Account, AccountAt
<1>2. \A i, j \in 1..n :
         A[i][j] = IF i = k THEN 0 ELSE IF j = k THEN B[i][j] + 1 ELSE B[i][j]
  BY <1>1 DEF BypassStep
<1>3. CASE C[k] + 1 >= M
  <2>1. \A i \in 1..n : C[i] = M - 1
    BY <1>3 DEF Typed, Below, FirstLeast
  <2>2. \A i \in 1..n : D[i] = 0
    BY <1>3 DEF CountStep
  <2>3. k = 1
    BY <2>1 DEF FirstLeast
  <2>4. ASSUME NEW i \in 1..n, NEW j \in 1..n
        PROVE  AccountAt(i, j, M, D, A)
    <3>1. AccountAt(i, j, M, C, B)
      BY DEF Account
    <3>2. B[i][j] \in Nat
      BY DEF Typed
    <3>3. C[i] = M - 1 /\ C[j] = M - 1 /\ D[i] = 0 /\ D[j] = 0
      BY <2>1, <2>2
    <3>4. A[i][j] = IF i = k THEN 0 ELSE IF j = k THEN B[i][j] + 1 ELSE B[i][j]
      BY <1>2
    <3> QED
      BY <2>3, <3>1, <3>2, <3>3, <3>4 DEF AccountAt
  <2> QED
    BY <2>2, <2>4 DEF Below, Descends, Account
<1>4. CASE ~ (C[k] + 1 >= M)
  <2>1. \A i \in 1..n : D[i] = IF i = k THEN C[k] + 1 ELSE C[i]
    BY <1>4 DEF CountStep
  <2>2. Below(n, M, D)
    BY <1>4, <2>1 DEF Typed, Below
  <2>3. Descends(n, D)
    <3> SUFFICES ASSUME NEW i \in 1..n, NEW j \in 1..n, i < j
                 PROVE  D[j] <= D[i]
      BY DEF Descends
    <3>1. C[j] <= C[i] /\ C[k] <= C[i] /\ (i < k => C[k] < C[i])
      BY DEF Descends, FirstLeast
    <3>2. C[i] \in Nat /\ C[j] \in Nat /\ C[k] \in Nat
      BY DEF Typed
    <3> QED
      BY <2>1, <3>1, <3>2
  <2>4. ASSUME NEW i \in 1..n, NEW j \in 1..n
        PROVE  AccountAt(i, j, M, D, A)
    <3>1. AccountAt(i, j, M, C, B)
      BY DEF Account
    <3>2. B[i][j] \in Nat /\ C[i] \in Nat /\ C[j] \in Nat
      BY DEF Typed
    <3>3. A[i][j] = IF i = k THEN 0 ELSE IF j = k THEN B[i][j] + 1 ELSE B[i][j]
      BY <1>2
    <3>4. /\ D[i] = IF i = k THEN C[i] + 1 ELSE C[i]
          /\ D[j] = IF j = k THEN C[j] + 1 ELSE C[j]
      BY <2>1
    <3>5. j = k => C[j] <= C[i] /\ (i < j => C[j] < C[i])
      BY DEF FirstLeast
    <3>6. j < i => C[i] <= C[j]
      BY DEF Descends
    <3> QED
      BY <3>1, <3>2, <3>3, <3>4, <3>5, <3>6 DEF AccountAt
  <2> QED
    BY <2>2, <2>3, <2>4 DEF Account
<1> QED
  BY <1>3, <1>4

--------------------------------------------------------------------------------
(* What TypeOK says of one service.                                         *)
LEMMA ServiceTypes ==
  ASSUME TypeOK, NEW s \in Services
  PROVE  /\ endpoints[s] \in Seq(Endpoints)
         /\ Len(endpoints[s]) \in Nat
         /\ DOMAIN endpoints[s] = 1..Len(endpoints[s])
         /\ \A i \in 1..Len(endpoints[s]) : endpoints[s][i] \in Endpoints
         /\ count[s] \in [Endpoints -> Nat]
         /\ bypass[s] \in [Endpoints -> [Endpoints -> Nat]]
<1>1. endpoints[s] \in Seq(Endpoints)
  BY DEF TypeOK
<1>2. count[s] \in [Endpoints -> Nat]
  BY DEF TypeOK
<1>3. bypass[s] \in [Endpoints -> [Endpoints -> Nat]]
  BY DEF TypeOK
<1> QED
  BY <1>1, <1>2, <1>3

(* get_service_endpoint, one dispatch of service s to the k-th endpoint:    *)
(* AccountPreserved read on the tables of the process.                      *)
LEMMA DispatchFairness ==
  ASSUME TypeOK,
         NEW s \in Configured, MaxCnt[s] >= 2, NoDuplicateEndpoint,
         \A e \in Endpoints : count[s][e] < MaxCnt[s],
         CountsDescend(s), BypassAccount(s),
         NEW k \in DOMAIN endpoints[s], LeastLoaded(s, k),
         endpoints' = endpoints,
         count'[s] = CountAfter(s, endpoints[s][k]),
         bypass'[s] = BypassAfter(s, endpoints[s][k])
  PROVE  /\ \A e \in Endpoints : count'[s][e] < MaxCnt[s]
         /\ CountsDescend(s)'
         /\ BypassAccount(s)'
<1> DEFINE n == Len(endpoints[s])
           C == [i \in 1..n |-> count[s][endpoints[s][i]]]
           D == [i \in 1..n |-> count'[s][endpoints[s][i]]]
           B == [i \in 1..n |-> [j \in 1..n |-> bypass[s][endpoints[s][i]][endpoints[s][j]]]]
           A == [i \in 1..n |-> [j \in 1..n |-> bypass'[s][endpoints[s][i]][endpoints[s][j]]]]
<1>0. s \in Services /\ MaxCnt[s] \in Nat
  BY ConfigAssumption
<1>1. /\ n \in Nat
      /\ DOMAIN endpoints[s] = 1..n
      /\ \A i \in 1..n : endpoints[s][i] \in Endpoints
      /\ k \in 1..n
  BY <1>0, ServiceTypes
<1>2. /\ count[s] \in [Endpoints -> Nat]
      /\ bypass[s] \in [Endpoints -> [Endpoints -> Nat]]
  BY <1>0, ServiceTypes
<1>3. Typed(n, C, B)
  BY <1>1, <1>2 DEF Typed
<1>4. Below(n, MaxCnt[s], C)
  BY <1>1 DEF Below
<1>5. Descends(n, C)
  BY <1>1 DEF Descends, CountsDescend
<1>6. Account(n, MaxCnt[s], C, B)
  BY <1>1 DEF Account, AccountAt, BypassAccount, PassedByEarlier, PassedByLater
<1>7. FirstLeast(n, C, k)
  BY <1>1 DEF FirstLeast, LeastLoaded
<1>8. \A i, j \in 1..n : endpoints[s][i] = endpoints[s][j] => i = j
  BY <1>0, <1>1 DEF NoDuplicateEndpoint
<1>9. CountStep(n, MaxCnt[s], C, D, k)
  BY <1>1, <1>2, <1>8 DEF CountStep, CountAfter
<1>10. BypassStep(n, MaxCnt[s], B, A, k)
  <2> SUFFICES ASSUME NEW i \in 1..n, NEW j \in 1..n
               PROVE  A[i][j] = IF i = k THEN 0
                                ELSE IF j = k /\ B[i][j] <= MaxCnt[s] + 1
                                     THEN B[i][j] + 1
                                     ELSE B[i][j]
    BY DEF BypassStep
  <2>1. /\ A[i][j] = BypassAfter(s, endpoints[s][k])[endpoints[s][i]][endpoints[s][j]]
        /\ B[i][j] = bypass[s][endpoints[s][i]][endpoints[s][j]]
    OBVIOUS
  <2>2. endpoints[s][i] \in Registered(s)
    BY <1>1 DEF Registered
  <2>3. /\ endpoints[s][i] \in Endpoints
        /\ endpoints[s][j] \in Endpoints
        /\ endpoints[s][i] = endpoints[s][k] <=> i = k
        /\ endpoints[s][j] = endpoints[s][k] <=> j = k
    BY <1>1, <1>8
  <2> HIDE DEF A, B
  <2> QED
    BY <2>1, <2>2, <2>3 DEF BypassAfter
<1>11. Below(n, MaxCnt[s], D) /\ Descends(n, D) /\ Account(n, MaxCnt[s], D, A)
  <2> HIDE DEF C, D, B, A
  <2> QED
    BY <1>0, <1>1, <1>3, <1>4, <1>5, <1>6, <1>7, <1>9, <1>10, AccountPreserved
<1>12. \A e \in Endpoints : count'[s][e] < MaxCnt[s]
  BY <1>0, <1>1, <1>2 DEF CountAfter
<1>13. CountsDescend(s)'
  BY <1>1, <1>11 DEF Descends, CountsDescend
<1>14. BypassAccount(s)'
  <2> SUFFICES ASSUME NEW i \in 1..n, NEW j \in 1..n
               PROVE  LET e == endpoints[s][i]
                          f == endpoints[s][j]
                      IN  /\ j < i => PassedByEarlier(s, e, f)'
                          /\ i < j => PassedByLater(s, e, f)'
                          /\ i = j => bypass'[s][e][f] = 0
    BY <1>1 DEF BypassAccount
  <2>1. AccountAt(i, j, MaxCnt[s], D, A)
    <3> HIDE DEF D, A
    <3> QED
      BY <1>11 DEF Account
  <2>2. /\ D[i] = count'[s][endpoints[s][i]]
        /\ D[j] = count'[s][endpoints[s][j]]
        /\ A[i][j] = bypass'[s][endpoints[s][i]][endpoints[s][j]]
    OBVIOUS
  <2> HIDE DEF A, D
  <2> QED
    BY <2>1, <2>2 DEF AccountAt, PassedByEarlier, PassedByLater
<1> QED
  BY <1>12, <1>13, <1>14

--------------------------------------------------------------------------------
(* The clauses of DispatchInv that speak of one service.                    *)
FairClause(s) ==
    MaxCnt[s] >= 2 =>
        /\ \A e \in Endpoints : count[s][e] < MaxCnt[s]
        /\ CountsDescend(s)
        /\ BypassAccount(s)

(* A dispatch keeps types, history and account of every service.            *)
LEMMA DispatchKeeps ==
  ASSUME IInv, NEW s \in items, Dispatch(s), UNCHANGED endpoints
  PROVE  /\ count' \in [Services -> [Endpoints -> Nat]]
         /\ bypass' \in [Services -> [Endpoints -> [Endpoints -> Nat]]]
         /\ out' \in Destinations
         /\ \A t \in Services : UnlistedUntouched(t)'
         /\ \A t \in Configured : FairClause(t)'
<1>1. s \in Services /\ s \in Configured
  BY ConfigAssumption DEF IInv, TypeOK
<1>2. PICK k \in DOMAIN endpoints[s] :
         /\ LeastLoaded(s, k)
         /\ count' = [count EXCEPT ![s] = CountAfter(s, endpoints[s][k])]
         /\ bypass' = [bypass EXCEPT ![s] = BypassAfter(s, endpoints[s][k])]
         /\ out' = <<"service", s, endpoints[s][k]>>
  BY DEF Dispatch
<1>3. /\ endpoints[s][k] \in Endpoints
      /\ count[s] \in [Endpoints -> Nat]
      /\ bypass[s] \in [Endpoints -> [Endpoints -> Nat]]
      /\ count \in [Services -> [Endpoints -> Nat]]
      /\ bypass \in [Services -> [Endpoints -> [Endpoints -> Nat]]]
  BY <1>1, <1>2, ServiceTypes DEF IInv, TypeOK
<1>4. CountAfter(s, endpoints[s][k]) \in [Endpoints -> Nat]
  BY <1>3 DEF CountAfter
<1>5. BypassAfter(s, endpoints[s][k]) \in [Endpoints -> [Endpoints -> Nat]]
  BY <1>3 DEF BypassAfter
<1>6. /\ count' \in [Services -> [Endpoints -> Nat]]
      /\ bypass' \in [Services -> [Endpoints -> [Endpoints -> Nat]]]
  BY <1>2, <1>3, <1>4, <1>5
<1>7. out' \in Destinations
  BY <1>1, <1>2, <1>3 DEF Destinations
<1>8. /\ count'[s] = CountAfter(s, endpoints[s][k])
      /\ bypass'[s] = BypassAfter(s, endpoints[s][k])
      /\ \A t \in Services : t # s => count'[t] = count[t] /\ bypass'[t] = bypass[t]
  BY <1>1, <1>2, <1>3
<1>9. endpoints[s][k] \in Registered(s)
  BY DEF Registered
<1>10. ASSUME NEW t \in Services PROVE UnlistedUntouched(t)'
  <2>1. UnlistedUntouched(t)
    BY DEF IInv, DispatchInv
  <2>2. CASE t # s
    BY <1>8, <2>1, <2>2 DEF UnlistedUntouched, Registered
  <2>3. CASE t = s
    <3> SUFFICES ASSUME NEW e \in Endpoints, NEW f \in Endpoints,
                        e \notin Registered(s) \/ f \notin Registered(s)
                 PROVE  BypassAfter(s, endpoints[s][k])[e][f] = 0
      BY <1>8, <2>3 DEF UnlistedUntouched, Registered
    <3>1. bypass[s][e][f] = 0
      BY <2>1, <2>3 DEF UnlistedUntouched
    <3> QED
      BY <1>9, <3>1 DEF BypassAfter
  <2> QED
    BY <2>2, <2>3
<1>11. ASSUME NEW t \in Configured PROVE FairClause(t)'
  <2>0. t \in Services
    BY ConfigAssumption
  <2>1. FairClause(t)
    BY DEF IInv, DispatchInv, FairClause
  <2>2. CASE t # s
    BY <1>8, <2>0, <2>1, <2>2 DEF FairClause, CountsDescend, BypassAccount,
                                  PassedByEarlier, PassedByLater
  <2>3. CASE t = s
    BY <1>2, <1>8, <2>1, <2>3, DispatchFairness DEF FairClause, IInv, DispatchInv
  <2> QED
    BY <2>2, <2>3
<1> QED
  BY <1>6, <1>7, <1>10, <1>11

(* listnode_add at the tail of a list.                                       *)
LEMMA AppendFacts ==
  ASSUME NEW S, NEW q \in Seq(S), NEW e \in S
  PROVE  /\ Append(q, e) \in Seq(S)
         /\ DOMAIN Append(q, e) = 1..(Len(q) + 1)
         /\ \A i \in 1..Len(q) : Append(q, e)[i] = q[i]
         /\ Append(q, e)[Len(q) + 1] = e
         /\ Append(q, e) # <<>>
OBVIOUS

(* Adding an endpoint at the tail with count zero and an untouched history. *)
LEMMA RegisterKeeps ==
  ASSUME IInv, NEW s \in Configured, NEW e \in Endpoints, ServiceRegister(s, e)
  PROVE  IInv'
<1>0. s \in Services /\ TypeOK /\ DispatchInv
  BY ConfigAssumption DEF IInv
<1>1. /\ items' = items \cup {s}
      /\ AddEndpoint(s, e)
      /\ out' = <<"ack", s, e>>
      /\ UNCHANGED <<up, bound, clients, bypass>>
  BY DEF ServiceRegister, AddServerItem
<1>2. out' \in Destinations
  BY <1>0, <1>1 DEF Destinations
<1>3. CASE e \in Registered(s)
  <2>1. UNCHANGED <<endpoints, count>>
    BY <1>1, <1>3 DEF AddEndpoint
  <2>2. s \in items
    <3>1. endpoints[s] # <<>>
      BY <1>3 DEF Registered
    <3> QED
      BY <1>0, <3>1 DEF DispatchInv
  <2>3. items' = items
    BY <1>1, <2>2
  <2>4. TypeOK'
    BY <1>0, <1>1, <1>2, <2>1, <2>3 DEF TypeOK
  <2>5. DispatchInv'
    BY <1>0, <1>1, <2>1, <2>3
    DEF DispatchInv, NoDuplicateEndpoint, BoundRuleRoutable, UnlistedUntouched,
        Registered, CountsDescend, BypassAccount, PassedByEarlier, PassedByLater
  <2> QED
    BY <2>4, <2>5 DEF IInv
<1>4. CASE e \notin Registered(s)
  <2> DEFINE n == Len(endpoints[s])
  <2>1. /\ endpoints' = [endpoints EXCEPT ![s] = Append(endpoints[s], e)]
        /\ count' = [count EXCEPT ![s][e] = 0]
    BY <1>1, <1>4 DEF AddEndpoint
  <2>2. /\ endpoints[s] \in Seq(Endpoints)
        /\ n \in Nat
        /\ DOMAIN endpoints[s] = 1..n
        /\ \A i \in 1..n : endpoints[s][i] \in Endpoints
        /\ count[s] \in [Endpoints -> Nat]
        /\ bypass[s] \in [Endpoints -> [Endpoints -> Nat]]
    BY <1>0, ServiceTypes
  <2>3. /\ endpoints \in [Services -> Seq(Endpoints)]
        /\ count \in [Services -> [Endpoints -> Nat]]
    BY <1>0 DEF TypeOK
  <2>4. /\ endpoints' \in [Services -> Seq(Endpoints)]
        /\ endpoints'[s] = Append(endpoints[s], e)
        /\ \A t \in Services : t # s => endpoints'[t] = endpoints[t]
    BY <1>0, <2>1, <2>2, <2>3, AppendFacts
  <2>5. /\ count' \in [Services -> [Endpoints -> Nat]]
        /\ count'[s] = [count[s] EXCEPT ![e] = 0]
        /\ \A t \in Services : t # s => count'[t] = count[t]
    BY <1>0, <2>1, <2>2, <2>3
  <2>6. /\ DOMAIN endpoints'[s] = 1..(n + 1)
        /\ \A i \in 1..n : endpoints'[s][i] = endpoints[s][i]
        /\ endpoints'[s][n + 1] = e
        /\ endpoints'[s] # <<>>
    <3> HIDE DEF n
    <3>1. /\ DOMAIN Append(endpoints[s], e) = 1..(n + 1)
          /\ \A i \in 1..n : Append(endpoints[s], e)[i] = endpoints[s][i]
          /\ Append(endpoints[s], e)[n + 1] = e
          /\ Append(endpoints[s], e) # <<>>
      <4>1. endpoints[s] \in Seq(Endpoints)
        BY <2>2
      <4> QED
        BY ONLY <4>1, e \in Endpoints, AppendFacts DEF n
    <3> QED
      BY <2>4, <3>1
  <2>a. /\ n \in Nat
        /\ DOMAIN endpoints[s] = 1..n
        /\ \A i \in 1..n : endpoints[s][i] \in Endpoints
    BY <2>2
  <2> HIDE DEF n
  <2>b. /\ \A f \in Endpoints : count[s][f] \in Nat
        /\ \A f \in Endpoints : count'[s][f] = IF f = e THEN 0 ELSE count[s][f]
    BY <2>2, <2>5
  <2>c. \A i \in 1..(n + 1) : i \in 1..n \/ i = n + 1
    BY <2>a
  <2>7. \A i \in 1..n : endpoints[s][i] # e
    BY <1>4, <2>2 DEF Registered
  <2>8. TypeOK'
    BY <1>0, <1>1, <1>2, <2>4, <2>5 DEF TypeOK
  <2>9. \A t \in Services : t \in items' <=> endpoints'[t] # <<>>
    BY <1>0, <1>1, <2>4, <2>6 DEF DispatchInv
  <2>10. NoDuplicateEndpoint'
    <3> SUFFICES ASSUME NEW t \in Services,
                        NEW i \in DOMAIN endpoints'[t], NEW j \in DOMAIN endpoints'[t],
                        endpoints'[t][i] = endpoints'[t][j]
                 PROVE  i = j
      BY DEF NoDuplicateEndpoint
    <3>1. CASE t # s
      BY <1>0, <2>4, <3>1 DEF DispatchInv, NoDuplicateEndpoint
    <3>2. CASE t = s
      <4>1. \A a, b \in 1..n : endpoints[s][a] = endpoints[s][b] => a = b
        BY <1>0, <2>2 DEF DispatchInv, NoDuplicateEndpoint
      <4> QED
        BY <2>c, <2>6, <2>7, <3>2, <4>1
    <3> QED
      BY <3>1, <3>2
  <2>11. BoundRuleRoutable'
    <3>1. BoundRuleRoutable
      BY <1>0 DEF DispatchInv
    <3>2. \A t \in items : t \in Services
      BY <1>0, ConfigAssumption DEF TypeOK
    <3> QED
      BY <1>1, <2>4, <2>6, <3>1, <3>2 DEF BoundRuleRoutable
  <2>12. ASSUME NEW t \in Services PROVE UnlistedUntouched(t)'
    <3>1. UnlistedUntouched(t)
      BY <1>0 DEF DispatchInv
    <3>2. Registered(t) \subseteq Registered(t)'
      <4>1. CASE t # s
        BY <2>4, <4>1 DEF Registered
      <4>2. CASE t = s
        <5>1. \A i \in 1..n : i \in 1..(n + 1)
          BY <2>a
        <5> QED
          BY <2>a, <2>6, <4>2, <5>1 DEF Registered
      <4> QED
        BY <4>1, <4>2
    <3> QED
      BY <1>1, <3>1, <3>2 DEF UnlistedUntouched
  <2>13. ASSUME NEW t \in Configured PROVE FairClause(t)'
    <3>0. t \in Services /\ MaxCnt[t] \in Nat
      BY ConfigAssumption
    <3>1. FairClause(t)
      BY <1>0 DEF DispatchInv, FairClause
    <3>2. CASE t # s
      <4>1. /\ endpoints'[t] = endpoints[t]
            /\ count'[t] = count[t]
            /\ bypass'[t] = bypass[t]
        BY <1>1, <2>4, <2>5, <3>0, <3>2
      <4> QED
        BY <3>1, <4>1
        DEF FairClause, CountsDescend, BypassAccount, PassedByEarlier, PassedByLater
    <3>3. CASE t = s /\ MaxCnt[s] >= 2
      <4>1. /\ \A f \in Endpoints : count[s][f] < MaxCnt[s]
            /\ CountsDescend(s)
            /\ BypassAccount(s)
        BY <3>1, <3>3 DEF FairClause
      <4>2. /\ \A i \in 1..n : count'[s][endpoints[s][i]] = count[s][endpoints[s][i]]
            /\ count'[s][e] = 0
            /\ \A f \in Endpoints : count'[s][f] < MaxCnt[s]
        BY <2>a, <2>b, <2>7, <3>0, <3>3, <4>1
      <4>3. CountsDescend(s)'
        <5> SUFFICES ASSUME NEW i \in 1..(n + 1), NEW j \in 1..(n + 1), i < j
                     PROVE  count'[s][endpoints'[s][j]] <= count'[s][endpoints'[s][i]]
          BY <2>6 DEF CountsDescend
        <5>1. i \in 1..n /\ count[s][endpoints[s][i]] \in Nat
          BY <2>a, <2>b
        <5>2. CASE j \in 1..n
          <6>1. count[s][endpoints[s][j]] <= count[s][endpoints[s][i]]
            BY <2>a, <4>1, <5>1, <5>2 DEF CountsDescend
          <6> QED
            BY <2>6, <4>2, <5>1, <5>2, <6>1
        <5>3. CASE j = n + 1
          BY <2>6, <4>2, <5>1, <5>3
        <5> QED
          BY <2>c, <5>2, <5>3
      <4>4. \A x \in Endpoints : bypass[s][e][x] = 0 /\ bypass[s][x][e] = 0
        BY <1>0, <1>4 DEF DispatchInv, UnlistedUntouched
      <4>5. BypassAccount(s)'
        <5> SUFFICES ASSUME NEW i \in 1..(n + 1), NEW j \in 1..(n + 1)
                     PROVE  /\ j < i => PassedByEarlier(s, endpoints[s][i], endpoints[s][j])'
                            /\ i < j => PassedByLater(s, endpoints[s][i], endpoints[s][j])'
                            /\ i = j => (bypass[s][endpoints[s][i]][endpoints[s][j]] = 0)'
          BY <2>6 DEF BypassAccount
        <5>1. CASE i \in 1..n /\ j \in 1..n
          <6>1. /\ j < i => PassedByEarlier(s, endpoints[s][i], endpoints[s][j])
                /\ i < j => PassedByLater(s, endpoints[s][i], endpoints[s][j])
                /\ i = j => bypass[s][endpoints[s][i]][endpoints[s][j]] = 0
            BY <2>a, <4>1, <5>1 DEF BypassAccount
          <6>2. /\ endpoints'[s][i] = endpoints[s][i]
                /\ endpoints'[s][j] = endpoints[s][j]
                /\ count'[s][endpoints[s][i]] = count[s][endpoints[s][i]]
                /\ count'[s][endpoints[s][j]] = count[s][endpoints[s][j]]
                /\ bypass' = bypass
            BY <1>1, <2>6, <4>2, <5>1
          <6> QED
            BY <6>1, <6>2 DEF PassedByEarlier, PassedByLater
        <5>2. CASE i = n + 1 \/ j = n + 1
          <6>1. endpoints'[s][i] \in Endpoints /\ endpoints'[s][j] \in Endpoints
            BY <2>a, <2>c, <2>6
          <6>2. bypass'[s][endpoints'[s][i]][endpoints'[s][j]] = 0
            BY <1>1, <2>6, <4>4, <5>2, <6>1
          <6>3. count'[s][endpoints'[s][j]] \in Nat
            BY <2>b, <6>1
          <6> QED
            BY <6>2, <6>3 DEF PassedByEarlier, PassedByLater
        <5> QED
          BY <2>c, <5>1, <5>2
      <4> QED
        BY <3>3, <4>2, <4>3, <4>5 DEF FairClause
    <3> QED
      BY <3>2, <3>3 DEF FairClause
  <2>14. DispatchInv'
    BY <2>9, <2>10, <2>11, <2>12, <2>13 DEF DispatchInv, FairClause
  <2> QED
    BY <2>8, <2>14 DEF IInv
<1> QED
  BY <1>3, <1>4

--------------------------------------------------------------------------------
(* Nothing DispatchInv speaks of has changed.                               *)
LEMMA TablesUnchanged ==
  ASSUME DispatchInv, UNCHANGED <<items, endpoints, count, bound, bypass>>
  PROVE  DispatchInv'
BY DEF DispatchInv, NoDuplicateEndpoint, BoundRuleRoutable, UnlistedUntouched,
       Registered, CountsDescend, BypassAccount, PassedByEarlier, PassedByLater

(* forward_to_service, for a message of a client or of a service.           *)
LEMMA ForwardKeeps ==
  ASSUME IInv, NEW u \in Urls, ForwardToService(u),
         up' = up, clients' \in SUBSET Clients
  PROVE  IInv'
<1>0. TypeOK /\ DispatchInv
  BY DEF IInv
<1>1. CASE HandledLocally
  <2>1. TypeOK'
    BY <1>0, <1>1 DEF TypeOK, HandledLocally, Destinations
  <2>2. DispatchInv'
    BY <1>0, <1>1, TablesUnchanged DEF HandledLocally
  <2> QED
    BY <2>1, <2>2 DEF IInv
<1>2. CASE /\ HasRule(u)
           /\ Bindable(u)
           /\ bound' = bound \cup {u}
           /\ SendToEndpoint(RuleName(u))
           /\ UNCHANGED <<items, endpoints>>
  <2>1. RuleName(u) \in items
    BY <1>0, <1>2 DEF Bindable, DispatchInv, BoundRuleRoutable
  <2>a. Dispatch(RuleName(u))
    <3>1. RuleName(u) \in Services
      BY <1>0, <2>1, ConfigAssumption DEF TypeOK
    <3> QED
      BY <1>0, <1>2, <2>1, <3>1 DEF SendToEndpoint, DispatchInv
  <2>2. /\ count' \in [Services -> [Endpoints -> Nat]]
        /\ bypass' \in [Services -> [Endpoints -> [Endpoints -> Nat]]]
        /\ out' \in Destinations
        /\ \A t \in Services : UnlistedUntouched(t)'
        /\ \A t \in Configured : FairClause(t)'
    BY <1>2, <2>1, <2>a, DispatchKeeps
  <2>3. TypeOK'
    BY <1>0, <1>2, <2>2 DEF TypeOK
  <2>4. RuleName(u) \in Services
    BY <1>0, <2>1, ConfigAssumption DEF TypeOK
  <2>5. BoundRuleRoutable'
    BY <1>0, <1>2, <2>1, <2>4 DEF DispatchInv, BoundRuleRoutable
  <2>6. /\ \A t \in Services : t \in items' <=> endpoints'[t] # <<>>
        /\ NoDuplicateEndpoint'
    BY <1>0, <1>2 DEF DispatchInv, NoDuplicateEndpoint
  <2>7. DispatchInv'
    BY <2>2, <2>5, <2>6 DEF DispatchInv, FairClause
  <2> QED
    BY <2>3, <2>7 DEF IInv
<1> QED
  BY <1>1, <1>2 DEF ForwardToService

(* An empty process, at start or after its memory is gone.                  *)
LEMMA EmptyTables ==
  ASSUME items = {}, endpoints = [s \in Services |-> <<>>], count = ZeroCount,
         bound = {}, bypass = NoBypass
  PROVE  DispatchInv
<1>1. \A s \in Services : DOMAIN endpoints[s] = {} /\ endpoints[s] = <<>>
  OBVIOUS
<1>2. \A s \in Configured : FairClause(s)
  BY <1>1, ConfigAssumption DEF FairClause, CountsDescend, BypassAccount, ZeroCount
<1>3. \A s \in Services : UnlistedUntouched(s)
  BY DEF UnlistedUntouched, NoBypass
<1>4. NoDuplicateEndpoint /\ BoundRuleRoutable
  BY <1>1 DEF NoDuplicateEndpoint, BoundRuleRoutable
<1> QED
  BY <1>1, <1>2, <1>3, <1>4 DEF DispatchInv, FairClause

(* The same for the next state, when the process dies.                      *)
LEMMA LoseMemoryKeeps ==
  ASSUME LoseMemory
  PROVE  IInv'
<1>1. TypeOK'
  <2>1. endpoints' \in [Services -> Seq(Endpoints)]
    BY DEF LoseMemory
  <2>2. count' \in [Services -> [Endpoints -> Nat]]
    BY DEF LoseMemory, ZeroCount
  <2>3. bypass' \in [Services -> [Endpoints -> [Endpoints -> Nat]]]
    BY DEF LoseMemory, NoBypass
  <2> QED
    BY <2>1, <2>2, <2>3 DEF LoseMemory, TypeOK, Destinations
<1>2. \A s \in Services : DOMAIN endpoints'[s] = {} /\ endpoints'[s] = <<>>
  BY DEF LoseMemory
<1>3. \A s \in Configured : FairClause(s)'
  BY <1>2, ConfigAssumption
  DEF LoseMemory, FairClause, CountsDescend, BypassAccount, ZeroCount
<1>4. \A s \in Services : UnlistedUntouched(s)'
  BY DEF LoseMemory, UnlistedUntouched, NoBypass
<1>5. NoDuplicateEndpoint' /\ BoundRuleRoutable'
  BY <1>2 DEF LoseMemory, NoDuplicateEndpoint, BoundRuleRoutable
<1>6. DispatchInv'
  BY <1>2, <1>3, <1>4, <1>5 DEF LoseMemory, DispatchInv, FairClause
<1> QED
  BY <1>1, <1>6 DEF IInv

(* Every handler, and the death and restart of the process, keeps the       *)
(* inductive invariant.                                                     *)
THEOREM DispatchInvariant == Spec => []IInv
<1>1. Init => IInv
  <2> SUFFICES ASSUME Init PROVE IInv
    OBVIOUS
  <2>1. TypeOK
    <3>1. endpoints \in [Services -> Seq(Endpoints)]
      BY DEF Init
    <3>2. count \in [Services -> [Endpoints -> Nat]]
      BY DEF Init, ZeroCount
    <3>3. bypass \in [Services -> [Endpoints -> [Endpoints -> Nat]]]
      BY DEF Init, NoBypass
    <3> QED
      BY <3>1, <3>2, <3>3 DEF Init, TypeOK, Destinations
  <2>2. DispatchInv
    BY EmptyTables DEF Init
  <2> QED
    BY <2>1, <2>2 DEF IInv
<1>2. IInv /\ [Next]_vars => IInv'
  <2> SUFFICES ASSUME IInv, [Next]_vars PROVE IInv'
    OBVIOUS
  <2>0. TypeOK /\ DispatchInv
    BY DEF IInv
  <2>1. ASSUME NEW c \in Clients, NEW u \in Urls, TransferToServer(c, u)
        PROVE  IInv'
    BY <2>0, <2>1, ForwardKeeps DEF TransferToServer, AddClient, TypeOK
  <2>2. ASSUME NEW c \in Clients, TransferMalformed(c)
        PROVE  IInv'
    <3>1. TypeOK'
      BY <2>0, <2>2 DEF TransferMalformed, AddClient, HandledLocally, TypeOK, Destinations
    <3>2. DispatchInv'
      BY <2>0, <2>2, TablesUnchanged DEF TransferMalformed, HandledLocally
    <3> QED
      BY <3>1, <3>2 DEF IInv
  <2>3. ASSUME NEW c \in Clients, RelayReply(c) \/ DistributeMsg(c)
        PROVE  IInv'
    <3>1. TypeOK'
      BY <2>0, <2>3 DEF RelayReply, DistributeMsg, tables, TypeOK, Destinations
    <3>2. DispatchInv'
      BY <2>0, <2>3, TablesUnchanged DEF RelayReply, DistributeMsg, tables
    <3> QED
      BY <3>1, <3>2 DEF IInv
  <2>4. ASSUME NEW u \in Urls, ServiceRequest(u)
        PROVE  IInv'
    BY <2>0, <2>4, ForwardKeeps DEF ServiceRequest, TypeOK
  <2>5. ASSUME NEW s \in Services, NEW e \in Endpoints, ServiceRegister(s, e)
        PROVE  IInv'
    BY <2>5, RegisterKeeps DEF ServiceRegister, AddServerItem
  <2>6. ASSUME NEW s \in Services, RegisterUnconfigured(s)
        PROVE  IInv'
    BY <2>6, LoseMemoryKeeps DEF RegisterUnconfigured
  <2>7. CASE Crash
    BY <2>7, LoseMemoryKeeps DEF Crash
  <2>8. CASE Restart
    <3>1. TypeOK'
      BY <2>0, <2>8 DEF Restart, tables, TypeOK
    <3>2. DispatchInv'
      BY <2>0, <2>8, TablesUnchanged DEF Restart, tables
    <3> QED
      BY <3>1, <3>2 DEF IInv
  <2>10. CASE ServiceMalformed
    <3>1. TypeOK'
      BY <2>0, <2>10 DEF ServiceMalformed, HandledLocally, TypeOK, Destinations
    <3>2. DispatchInv'
      BY <2>0, <2>10, TablesUnchanged DEF ServiceMalformed, HandledLocally
    <3> QED
      BY <3>1, <3>2 DEF IInv
  <2>11. ASSUME NEW e \in Endpoints, RegisterNameless(e)
         PROVE  IInv'
    <3>1. TypeOK'
      BY <2>0, <2>11 DEF RegisterNameless, tables, TypeOK, Destinations
    <3>2. DispatchInv'
      BY <2>0, <2>11, TablesUnchanged DEF RegisterNameless, tables
    <3> QED
      BY <3>1, <3>2 DEF IInv
  <2>9. CASE UNCHANGED vars
    <3>1. TypeOK'
      BY <2>0, <2>9 DEF vars, tables, TypeOK
    <3>2. DispatchInv'
      BY <2>0, <2>9, TablesUnchanged DEF vars, tables
    <3> QED
      BY <3>1, <3>2 DEF IInv
  <2> QED
    BY <2>1, <2>2, <2>3, <2>4, <2>5, <2>6, <2>7, <2>8, <2>9, <2>10, <2>11 DEF Next
<1> QED
  BY <1>1, <1>2, PTL DEF Spec

(* The tables of the process always have their types.                       *)
THEOREM TypeCorrect == Spec => []TypeOK
<1>1. IInv => TypeOK
  BY DEF IInv
<1> QED
  BY <1>1, DispatchInvariant, PTL

(* For every number of endpoints and every max-count of at least 2, no      *)
(* endpoint is passed over more often than BypassBound allows.              *)
THEOREM BypassIsBounded == Spec => []BoundedBypass
<1>1. IInv => BoundedBypass
  <2> SUFFICES ASSUME IInv, NEW s \in Configured, MaxCnt[s] >= 2,
                      NEW i \in DOMAIN endpoints[s], NEW j \in DOMAIN endpoints[s]
               PROVE  bypass[s][endpoints[s][i]][endpoints[s][j]] <= BypassBound(s, i, j)
    BY DEF BoundedBypass
  <2>0. TypeOK /\ DispatchInv /\ s \in Services /\ MaxCnt[s] \in Nat
    BY ConfigAssumption DEF IInv
  <2>1. /\ i \in 1..Len(endpoints[s]) /\ j \in 1..Len(endpoints[s])
        /\ Len(endpoints[s]) \in Nat
        /\ endpoints[s][i] \in Endpoints /\ endpoints[s][j] \in Endpoints
    BY <2>0, ServiceTypes
  <2>2. /\ count[s][endpoints[s][i]] \in Nat /\ count[s][endpoints[s][j]] \in Nat
        /\ bypass[s][endpoints[s][i]][endpoints[s][j]] \in Nat
    <3>1. /\ count[s] \in [Endpoints -> Nat]
          /\ bypass[s] \in [Endpoints -> [Endpoints -> Nat]]
      BY <2>0, ServiceTypes
    <3> QED
      BY ONLY <2>1, <3>1
  <2>3. /\ count[s][endpoints[s][j]] < MaxCnt[s]
        /\ j < i => PassedByEarlier(s, endpoints[s][i], endpoints[s][j])
        /\ i < j => PassedByLater(s, endpoints[s][i], endpoints[s][j])
        /\ i = j => bypass[s][endpoints[s][i]][endpoints[s][j]] = 0
    BY <2>0, <2>1 DEF DispatchInv, BypassAccount
  <2>4. i \in Nat /\ j \in Nat
    BY <2>1
  <2> QED
    BY <2>0, <2>2, <2>3, <2>4 DEF PassedByEarlier, PassedByLater, BypassBound
<1> QED
  BY <1>1, DispatchInvariant, PTL

(* However often it registers, an instance has one entry in the list of its *)
(* service, so add_server_endpoint never doubles its share.                 *)
THEOREM NeverListedTwice == Spec => []NoDuplicateEndpoint
<1>1. IInv => NoDuplicateEndpoint
  BY DEF IInv, DispatchInv
<1> QED
  BY <1>1, DispatchInvariant, PTL

(* A bound rule can always be routed, so no message is dropped behind a     *)
(* success code.                                                            *)
THEOREM BoundRulesRoute == Spec => []BoundRuleRoutable
<1>1. IInv => BoundRuleRoutable
  BY DEF IInv, DispatchInv
<1> QED
  BY <1>1, DispatchInvariant, PTL

(* Counts of two endpoints of service s, before and after a dispatch to the *)
(* k-th of its list.                                                        *)
LEMMA DispatchGap ==
  ASSUME TypeOK, NEW s \in Services, Dispatch(s), UNCHANGED endpoints,
         NEW t \in Services, NEW e \in Registered(t), NEW f \in Registered(t),
         count'[t][e] > count'[t][f] + 1
  PROVE  count'[t][e] + count[t][f] <= count[t][e] + count'[t][f]
<1>1. PICK k \in DOMAIN endpoints[s] :
         /\ LeastLoaded(s, k)
         /\ count' = [count EXCEPT ![s] = CountAfter(s, endpoints[s][k])]
  BY DEF Dispatch
<1>2. /\ count \in [Services -> [Endpoints -> Nat]]
      /\ e \in Endpoints /\ f \in Endpoints
      /\ endpoints[s][k] \in Endpoints
  BY ServiceTypes DEF TypeOK, Registered
<1>3. count[t][e] \in Nat /\ count[t][f] \in Nat /\ count[s][endpoints[s][k]] \in Nat
  BY <1>2
<1>4. CASE t # s
  BY <1>1, <1>2, <1>3, <1>4
<1>5. CASE t = s
  <2>1. count'[s] = CountAfter(s, endpoints[s][k])
    BY <1>1, <1>2
  <2>2. CASE count[s][endpoints[s][k]] + 1 >= MaxCnt[s]
    <3>1. count'[s][e] = 0 /\ count'[s][f] = 0
      BY <1>2, <2>1, <2>2 DEF CountAfter
    <3> QED
      BY <1>5, <3>1
  <2>3. CASE ~ (count[s][endpoints[s][k]] + 1 >= MaxCnt[s])
    <3>1. \A x \in Endpoints :
             count'[s][x] = IF x = endpoints[s][k] THEN count[s][x] + 1 ELSE count[s][x]
      BY <1>2, <2>1, <2>3 DEF CountAfter
    <3>2. count[s][endpoints[s][k]] <= count[s][f]
      BY <1>1, <1>5 DEF LeastLoaded, Registered
    <3> QED
      BY <1>2, <1>3, <1>5, <3>1, <3>2
  <2> QED
    BY <2>2, <2>3
<1> QED
  BY <1>4, <1>5

(* No step of the running process widens a gap of more than one message     *)
(* between two registered endpoints of a service.                           *)
THEOREM GapsNeverGrow == Spec => GapNeverGrows
<1> DEFINE Gap == \A s \in Services : \A e, f \in Registered(s) :
                     up' /\ count'[s][e] > count'[s][f] + 1
                       => count'[s][e] + count[s][f] <= count[s][e] + count'[s][f]
<1>1. IInv /\ [Next]_vars => [Gap]_vars
  <2> SUFFICES ASSUME IInv, Next,
                      NEW t \in Services, NEW e \in Registered(t), NEW f \in Registered(t),
                      up', count'[t][e] > count'[t][f] + 1
               PROVE  count'[t][e] + count[t][f] <= count[t][e] + count'[t][f]
    OBVIOUS
  <2>0. TypeOK /\ DispatchInv
    BY DEF IInv
  <2>1. /\ count \in [Services -> [Endpoints -> Nat]]
        /\ e \in Endpoints /\ f \in Endpoints
        /\ count[t][e] \in Nat /\ count[t][f] \in Nat
    BY <2>0, ServiceTypes DEF TypeOK, Registered
  <2>2. ASSUME NEW u \in Urls, ForwardToService(u)
        PROVE  count'[t][e] + count[t][f] <= count[t][e] + count'[t][f]
    <3>1. CASE HandledLocally
      BY <2>1, <3>1 DEF HandledLocally
    <3>0. CASE SendToNobody
      BY <2>1, <3>0 DEF SendToNobody
    <3>2. CASE Bindable(u) /\ Dispatch(RuleName(u)) /\ UNCHANGED endpoints
      <4>1. RuleName(u) \in Services
        BY <2>0, <3>2, ConfigAssumption
        DEF Bindable, DispatchInv, BoundRuleRoutable, TypeOK
      <4> QED
        BY <2>0, <3>2, <4>1, DispatchGap
    <3> QED
      BY <2>2, <3>0, <3>1, <3>2 DEF ForwardToService, SendToEndpoint
  <2>3. ASSUME NEW s \in Services, NEW g \in Endpoints, ServiceRegister(s, g)
        PROVE  count'[t][e] + count[t][f] <= count[t][e] + count'[t][f]
    <3>1. CASE g \in Registered(s)
      BY <2>1, <2>3, <3>1 DEF ServiceRegister, AddEndpoint
    <3>2. CASE g \notin Registered(s)
      <4>1. count' = [count EXCEPT ![s][g] = 0]
        BY <2>3, <3>2 DEF ServiceRegister, AddEndpoint
      <4>2. t = s => e # g /\ f # g
        BY <3>2
      <4>3. count'[t][e] = count[t][e] /\ count'[t][f] = count[t][f]
        BY <2>1, <4>1, <4>2
      <4> QED
        BY <2>1, <4>3
    <3> QED
      BY <3>1, <3>2
  <2>4. CASE UNCHANGED count
    BY <2>1, <2>4
  <2>5. ~ Crash /\ \A s \in Services : ~ RegisterUnconfigured(s)
    BY DEF Crash, RegisterUnconfigured, LoseMemory
  <2> QED
    BY <2>2, <2>3, <2>4, <2>5
    DEF Next, TransferToServer, TransferMalformed, ServiceMalformed, HandledLocally,
        RegisterNameless, RelayReply,
        DistributeMsg, ServiceRequest, Restart, tables
<1> QED
  BY <1>1, DispatchInvariant, PTL DEF Spec, GapNeverGrows

--------------------------------------------------------------------------------
(***************************************************************************)
(* LoadBalance implements Dispatcher: initial states map to initial states *)
(* and every handler maps to a step of Dispatcher or to a stutter, in the  *)
(* states of the inductive invariant above.                                *)
(***************************************************************************)
(* The abstract pool of a service depends on its list alone.                *)
Pool == [s \in Services |-> Registered(s)]

RuleSet == {r \in Urls \X Services : HasRule(r[1]) /\ r[2] = RuleName(r[1])}

(* A list is empty exactly when nobody is registered in it.                 *)
LEMMA EmptyList ==
  ASSUME TypeOK, NEW s \in Services
  PROVE  Registered(s) = {} <=> endpoints[s] = <<>>
<1>1. /\ endpoints[s] \in Seq(Endpoints)
      /\ Len(endpoints[s]) \in Nat
      /\ DOMAIN endpoints[s] = 1..Len(endpoints[s])
  BY ServiceTypes
<1>2. ASSUME endpoints[s] = <<>> PROVE Registered(s) = {}
  BY <1>1, <1>2 DEF Registered
<1>3. ASSUME endpoints[s] # <<>> PROVE Registered(s) # {}
  <2>1. 1 \in DOMAIN endpoints[s]
    BY <1>1, <1>3
  <2> QED
    BY <2>1 DEF Registered
<1> QED
  BY <1>2, <1>3

(* forward_to_service finds an instance exactly when one is eligible.       *)
LEMMA ForwardRefines ==
  ASSUME IInv, NEW u \in Urls, ForwardToService(u)
  PROVE  Promise!Forward(u) /\ UNCHANGED Pool
<1>0. TypeOK /\ DispatchInv
  BY DEF IInv
<1>1. endpoints' = endpoints
  BY DEF ForwardToService, HandledLocally
<1>2. UNCHANGED Pool
  BY <1>1 DEF Pool, Registered
<1>3. CASE HasRule(u) /\ Bindable(u)
  <2> DEFINE s == RuleName(u)
  <2>1. s \in items /\ endpoints[s] # <<>> /\ s \in Services
    <3>1. s \in items
      BY <1>0, <1>3 DEF Bindable, DispatchInv, BoundRuleRoutable
    <3>2. s \in Services
      BY <1>0, <3>1, ConfigAssumption DEF TypeOK
    <3> QED
      BY <1>0, <3>1, <3>2 DEF DispatchInv
  <2>2. Dispatch(s)
    BY <1>3, <2>1 DEF ForwardToService, SendToEndpoint
  <2>3. PICK k \in DOMAIN endpoints[s] : out' = <<"service", s, endpoints[s][k]>>
    BY <2>2 DEF Dispatch
  <2>4. endpoints[s][k] \in Endpoints /\ endpoints[s][k] \in Registered(s)
    BY <1>0, <2>1, <2>3, ServiceTypes DEF Registered
  <2>5. <<u, s>> \in RuleSet
    BY <1>3, <2>1 DEF RuleSet
  <2>6. <<s, endpoints[s][k]>> \in Promise!Eligible(u)
    BY <2>1, <2>4, <2>5 DEF Promise!Eligible, RuleSet
  <2> HIDE DEF s
  <2> QED
    BY <1>2, <2>3, <2>6 DEF Promise!Forward
<1>4. CASE ~ (HasRule(u) /\ Bindable(u))
  <2>1. out' = <<"local">>
    BY <1>4 DEF ForwardToService, HandledLocally
  <2>2. ASSUME NEW s \in Services, <<u, s>> \in RuleSet
        PROVE  Registered(s) = {}
    <3>1. HasRule(u) /\ s = RuleName(u)
      BY <2>2 DEF RuleSet
    <3>2. s \notin items
      BY <1>4, <3>1 DEF Bindable
    <3> QED
      BY <1>0, <3>2, EmptyList DEF DispatchInv
  <2>3. Promise!Eligible(u) = {}
    BY <2>2 DEF Promise!Eligible, RuleSet
  <2> QED
    BY <1>2, <2>1, <2>3 DEF Promise!Forward
<1> QED
  BY <1>3, <1>4

(* Losing the memory of the process is a crash of the dispatcher.           *)
LEMMA LoseMemoryRefines ==
  ASSUME up, LoseMemory
  PROVE  Promise!Crash
<1>1. \A s \in Services : Registered(s)' = {}
  BY DEF LoseMemory, Registered
<1> QED
  BY <1>1 DEF Promise!Crash, LoseMemory

(* Adding an endpoint to the tail of a list adds it to the pool.            *)
LEMMA RegisterRefines ==
  ASSUME IInv, NEW s \in Services, NEW e \in Endpoints, ServiceRegister(s, e)
  PROVE  Promise!ServiceRegister(s, e)
<1>0. TypeOK /\ s \in Configured
  BY DEF IInv, ServiceRegister, AddServerItem
<1>1. \A t \in Services : Registered(t)' = IF t = s THEN Registered(s) \cup {e}
                                           ELSE Registered(t)
  <2>1. CASE e \in Registered(s)
    <3>1. endpoints' = endpoints
      BY <2>1 DEF ServiceRegister, AddEndpoint
    <3> QED
      BY <2>1, <3>1 DEF Registered
  <2>2. CASE e \notin Registered(s)
    <3>1. endpoints' = [endpoints EXCEPT ![s] = Append(endpoints[s], e)]
      BY <2>2 DEF ServiceRegister, AddEndpoint
    <3>2. endpoints \in [Services -> Seq(Endpoints)]
      BY <1>0 DEF TypeOK
    <3>3. /\ endpoints'[s] = Append(endpoints[s], e)
          /\ \A t \in Services : t # s => endpoints'[t] = endpoints[t]
      BY <3>1, <3>2
    <3>4. /\ endpoints[s] \in Seq(Endpoints)
          /\ Len(endpoints[s]) \in Nat
          /\ DOMAIN endpoints[s] = 1..Len(endpoints[s])
      BY <1>0, ServiceTypes
    <3> DEFINE n == Len(endpoints[s])
               q == endpoints[s]
    <3>5. /\ DOMAIN Append(q, e) = 1..(n + 1)
          /\ \A i \in 1..n : Append(q, e)[i] = q[i]
          /\ Append(q, e)[n + 1] = e
      BY ONLY <3>4, e \in Endpoints, AppendFacts
    <3>6. {Append(q, e)[i] : i \in DOMAIN Append(q, e)} = {q[i] : i \in 1..n} \cup {e}
      <4> HIDE DEF n, q
      <4>1. n \in Nat
        BY <3>4 DEF n
      <4>2. 1..(n + 1) = (1..n) \cup {n + 1}
        BY <4>1
      <4> QED
        BY <3>5, <4>2
    <3> QED
      BY <3>3, <3>4, <3>6 DEF Registered
  <2> QED
    BY <2>1, <2>2
<1>2. Pool' = [Pool EXCEPT ![s] = Pool[s] \cup {e}]
  BY <1>1 DEF Pool
<1> QED
  BY <1>0, <1>2 DEF Promise!ServiceRegister, ServiceRegister, Pool

(* Every handler of the balancer is a step of Dispatcher or changes nothing *)
(* that Dispatcher sees.                                                    *)
LEMMA StepRefines ==
  ASSUME IInv, Next
  PROVE  Promise!Next
<1>1. ASSUME NEW c \in Clients, NEW u \in Urls, TransferToServer(c, u)
      PROVE  Promise!TransferToServer(c, u)
  BY <1>1, ForwardRefines DEF TransferToServer, AddClient, Promise!TransferToServer, Pool
<1>2. ASSUME NEW u \in Urls, ServiceRequest(u)
      PROVE  Promise!ServiceRequest(u)
  BY <1>2, ForwardRefines DEF ServiceRequest, Promise!ServiceRequest, Pool
<1>3. ASSUME NEW c \in Clients, TransferMalformed(c)
      PROVE  Promise!Malformed
  BY <1>3 DEF TransferMalformed, AddClient, HandledLocally, Promise!Malformed, Registered
<1>4. ASSUME ServiceMalformed
      PROVE  Promise!Malformed
  BY <1>4 DEF ServiceMalformed, HandledLocally, Promise!Malformed, Registered
<1>5. ASSUME NEW c \in Clients, RelayReply(c)
      PROVE  Promise!RelayReply(c)
  BY <1>5 DEF RelayReply, Promise!RelayReply, tables, Registered
<1>6. ASSUME NEW c \in Clients, DistributeMsg(c)
      PROVE  Promise!DistributeMsg(c)
  BY <1>6 DEF DistributeMsg, Promise!DistributeMsg, tables, Registered
<1>7. ASSUME NEW e \in Endpoints, RegisterNameless(e)
      PROVE  Promise!RegisterNameless(e)
  BY <1>7 DEF RegisterNameless, Promise!RegisterNameless, tables, Registered
<1>8. ASSUME NEW s \in Services, RegisterUnconfigured(s)
      PROVE  Promise!Crash
  BY <1>8, LoseMemoryRefines DEF RegisterUnconfigured
<1>9. ASSUME Crash
      PROVE  Promise!Crash
  BY <1>9, LoseMemoryRefines DEF Crash
<1>10. ASSUME Restart
       PROVE  Promise!Restart
  BY <1>10 DEF Restart, Promise!Restart, tables, Registered
<1>11. ASSUME NEW s \in Services, NEW e \in Endpoints, ServiceRegister(s, e)
       PROVE  Promise!ServiceRegister(s, e)
  BY <1>11, RegisterRefines
<1> QED
  BY <1>1, <1>2, <1>3, <1>4, <1>5, <1>6, <1>7, <1>8, <1>9, <1>10, <1>11
  DEF Next, Promise!Next

(* For every set of vehicles, instances, services and rules, the balancer   *)
(* implements Dispatcher: forward_to_service leaves a message unsent only   *)
(* when no instance is registered for the service of its rule.              *)
THEOREM DispatcherRefined == Spec => RefinesDispatcher
<1>1. Init => Promise!Init
  <2> SUFFICES ASSUME Init PROVE Promise!Init
    OBVIOUS
  <2>1. \A s \in Services : Registered(s) = {}
    BY DEF Init, Registered
  <2> QED
    BY <2>1 DEF Init, Promise!Init
<1>2. IInv /\ [Next]_vars => [Promise!Next]_(Promise!vars)
  <2>1. ASSUME IInv, Next PROVE Promise!Next
    BY <2>1, StepRefines
  <2>2. ASSUME UNCHANGED vars PROVE UNCHANGED Promise!vars
    BY <2>2 DEF vars, tables, Promise!vars, Registered
  <2> QED
    BY <2>1, <2>2
<1> QED
  BY <1>1, <1>2, DispatchInvariant, PTL DEF Spec, RefinesDispatcher, Promise!Spec

================================================================================
