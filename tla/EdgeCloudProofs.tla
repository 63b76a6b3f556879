---------------------------- MODULE EdgeCloudProofs ----------------------------
(***************************************************************************)
(* Proof that no vehicle is taken for another one, for any number of       *)
(* vehicles, instances and tokens and however often the processes die.     *)
(***************************************************************************)
EXTENDS EdgeCloud, TLAPS

--------------------------------------------------------------------------------
(* What the tokens have to do with the tables, on plain functions: T the    *)
(* tables, S the tokens handed out.                                         *)
OwnedIn(T, S, t, c) ==
    t # None => t \in S /\ \A e \in Endpoints, d \in Clients : T[e][d] = t => d = c

(* A token an instance hands out was its own for the vehicle or is new: in  *)
(* either case tokens belong to whom they belonged before.                  *)
LEMMA HandOutKeeps ==
  ASSUME NEW T \in [Endpoints -> [Clients -> Tokens \cup {None}]], NEW S \in SUBSET Tokens,
         NEW f \in Endpoints, NEW k \in Clients, NEW n \in Tokens,
         OwnedIn(T, S, T[f][k], k), 
         T[f][k] # None => n = T[f][k],
         T[f][k] = None => n \notin S,
         NEW t \in Tokens \cup {None}, NEW c \in Clients, OwnedIn(T, S, t, c)
  PROVE  OwnedIn([T EXCEPT ![f][k] = n], S \cup {n}, t, c)
<1> DEFINE U == [T EXCEPT ![f][k] = n]
<1> SUFFICES ASSUME t # None, NEW e \in Endpoints, NEW d \in Clients, U[e][d] = t
             PROVE  d = c
  BY DEF OwnedIn
<1>1. CASE e = f /\ d = k
  <2>1. n = t
    BY <1>1
  <2>2. n \in S
    BY <2>1 DEF OwnedIn
  <2>3. T[f][k] = t
    BY <2>1, <2>2
  <2> QED
    BY <1>1, <2>3 DEF OwnedIn
<1>2. CASE ~ (e = f /\ d = k)
  <2>1. T[e][d] = t
    BY <1>2
  <2> QED
    BY <2>1 DEF OwnedIn
<1> QED
  BY <1>1, <1>2

(* The token that is handed out belongs to the vehicle that gets it.        *)
LEMMA HandOutOwned ==
  ASSUME NEW T \in [Endpoints -> [Clients -> Tokens \cup {None}]], NEW S \in SUBSET Tokens,
         NEW f \in Endpoints, NEW k \in Clients, NEW n \in Tokens,
         \A e \in Endpoints, d \in Clients : OwnedIn(T, S, T[e][d], d),
         T[f][k] # None => n = T[f][k],
         T[f][k] = None => n \notin S
  PROVE  OwnedIn([T EXCEPT ![f][k] = n], S \cup {n}, n, k)
<1> DEFINE U == [T EXCEPT ![f][k] = n]
<1> SUFFICES ASSUME NEW e \in Endpoints, NEW d \in Clients, U[e][d] = n
             PROVE  d = k
  BY DEF OwnedIn
<1>1. CASE e = f /\ d = k
  BY <1>1
<1>2. CASE ~ (e = f /\ d = k)
  <2>1. T[e][d] = n
    BY <1>2
  <2>2. n # None
    BY EdgeAssumption
  <2>3. n \in S
    BY <2>1, <2>2 DEF OwnedIn
  <2>4. T[f][k] = n
    BY <2>3
  <2> QED
    BY <2>1, <2>2, <2>4 DEF OwnedIn
<1> QED
  BY <1>1, <1>2

--------------------------------------------------------------------------------
(* TokensBelong on plain functions, h what the vehicles hold, I and A the   *)
(* messages on their way.                                                   *)
BelongIn(T, S, h, I, A) ==
    /\ \A e \in Endpoints, c \in Clients : OwnedIn(T, S, T[e][c], c)
    /\ \A c \in Clients : OwnedIn(T, S, h[c], c)
    /\ \A m \in I : OwnedIn(T, S, m.token, m.client)
    /\ \A a \in A : OwnedIn(T, S, a.token, a.client)

(* The two forms of TokensBelong agree, now and after a step.               *)
LEMMA BelongForms ==
  /\ TokensBelong <=> BelongIn(table, issued, holds, inbox, answers)
  /\ TokensBelong' <=> BelongIn(table', issued', holds', inbox', answers')
BY DEF TokensBelong, BelongIn, Owned, OwnedIn

(* The empty tables satisfy the invariant.                                  *)
LEMMA InitIInv == Init => IInv
<1> SUFFICES ASSUME Init
             PROVE  IInv
  OBVIOUS
<1>1. TypeOK
  BY DEF Init, LB!Init, TypeOK, NoTable, Services
<1>2. BelongIn(table, issued, holds, inbox, answers)
  BY DEF Init, NoTable, BelongIn, OwnedIn
<1> QED
  BY <1>1, <1>2, BelongForms DEF IInv

(* A vehicle puts the token it holds into the message it sends.             *)
LEMMA SendKeeps ==
  ASSUME IInv, NEW c \in Clients, NEW u \in Urls, VehicleSends(c, u)
  PROVE  IInv'
<1> USE DEF IInv
<1>1. \/ inbox' = inbox
      \/ \E e \in alive :
            inbox' = inbox \cup {[to |-> e, client |-> c, url |-> u, token |-> holds[c]]}
  BY DEF VehicleSends, Arrives
<1>2. TypeOK'
  BY <1>1 DEF VehicleSends, LB!TransferToServer, TypeOK
<1>3. BelongIn(table, issued, holds, inbox', answers)
  BY <1>1, BelongForms DEF BelongIn
<1> QED
  BY <1>2, <1>3, BelongForms DEF VehicleSends

(* An instance hands out a token.                                           *)
LEMMA RegisterKeeps ==
  ASSUME IInv, NEW m \in inbox, HandleRegister(m)
  PROVE  IInv'
<1> USE DEF IInv
<1>1. PICK t \in Tokens :
         /\ TokenOf(m.client, m.to, t)
         /\ table' = [table EXCEPT ![m.to][m.client] = t]
         /\ issued' = issued \cup {t}
         /\ answers' = answers \cup {Answer(m, t)}
  BY DEF HandleRegister
<1>2. /\ m.to \in Endpoints /\ m.client \in Clients
      /\ inbox' \subseteq inbox /\ holds' = holds
      /\ table \in [Endpoints -> [Clients -> Tokens \cup {None}]]
      /\ issued \in SUBSET Tokens
      /\ inbox \subseteq [to : Endpoints, client : Clients, url : Urls,
                           token : Tokens \cup {None}]
      /\ answers \subseteq [client : Clients, token : Tokens]
      /\ holds \in [Clients -> Tokens \cup {None}]
  BY DEF HandleRegister, TypeOK
<1>3. TypeOK'
  <2>1. table' \in [Endpoints -> [Clients -> Tokens \cup {None}]]
    BY <1>1, <1>2
  <2>2. answers' \subseteq [client : Clients, token : Tokens]
    BY <1>1, <1>2 DEF Answer
  <2> QED
    BY <1>1, <2>1, <2>2 DEF HandleRegister, balancer, TypeOK
<1>4. /\ table[m.to][m.client] # None => t = table[m.to][m.client]
      /\ table[m.to][m.client] = None => t \notin issued
  BY <1>1 DEF TokenOf
<1>5. BelongIn(table, issued, holds, inbox, answers)
  BY BelongForms
<1> DEFINE T == table'  S == issued'
<1>6. ASSUME NEW x \in Tokens \cup {None}, NEW c \in Clients, OwnedIn(table, issued, x, c)
      PROVE  OwnedIn(T, S, x, c)
  <2>1. OwnedIn(table, issued, table[m.to][m.client], m.client)
    BY <1>2, <1>5 DEF BelongIn
  <2> QED
    BY <1>1, <1>2, <1>4, <1>6, <2>1, HandOutKeeps
<1>7. OwnedIn(T, S, t, m.client)
  <2>1. \A e \in Endpoints, d \in Clients : OwnedIn(table, issued, table[e][d], d)
    BY <1>5 DEF BelongIn
  <2> QED
    BY <1>1, <1>2, <1>4, <2>1, HandOutOwned
<1> HIDE DEF T, S
<1>8. BelongIn(T, S, holds, inbox', answers')
  <2>1. ASSUME NEW e \in Endpoints, NEW c \in Clients
        PROVE  OwnedIn(T, S, T[e][c], c)
    <3>1. OwnedIn(table, issued, table[e][c], c) /\ table[e][c] \in Tokens \cup {None}
      BY <1>2, <1>5 DEF BelongIn
    <3>2. OwnedIn(T, S, table[e][c], c)
      BY <3>1, <1>6
    <3>3. T[e][c] = table[e][c] \/ (T[e][c] = t /\ c = m.client)
      BY <1>1, <1>2 DEF T
    <3> QED
      BY <3>2, <3>3, <1>7
  <2>2. \A c \in Clients : OwnedIn(T, S, holds[c], c)
    BY <1>2, <1>5, <1>6 DEF BelongIn
  <2>3. ASSUME NEW n \in inbox'
        PROVE  OwnedIn(T, S, n.token, n.client)
    <3>1. n.token \in Tokens \cup {None} /\ n.client \in Clients
      BY <1>2
    <3> QED
      BY <3>1, <1>2, <1>5, <1>6 DEF BelongIn
  <2>4. ASSUME NEW a \in answers'
        PROVE  OwnedIn(T, S, a.token, a.client)
    <3>1. CASE a \in answers
      <4>1. a.token \in Tokens \cup {None} /\ a.client \in Clients
        BY <1>2, <3>1
      <4> QED
        BY <4>1, <3>1, <1>5, <1>6 DEF BelongIn
    <3>2. CASE a = Answer(m, t)
      BY <3>2, <1>7 DEF Answer
    <3> QED
      BY <1>1, <3>1, <3>2
  <2> QED
    BY <2>1, <2>2, <2>3, <2>4 DEF BelongIn
<1> QED
  BY <1>2, <1>3, <1>8, BelongForms DEF T, S

(* An instance dies and its tables with it; its tokens stay handed out.     *)
LEMMA DeathKeeps ==
  ASSUME IInv, NEW f \in Endpoints, InstanceDies(f)
  PROVE  IInv'
<1> USE DEF IInv
<1>1. table \in [Endpoints -> [Clients -> Tokens \cup {None}]]
  BY DEF TypeOK
<1>2. table' = [table EXCEPT ![f] = NoTable]
  BY DEF InstanceDies
<1>3. ASSUME NEW e \in Endpoints, NEW d \in Clients
      PROVE  table'[e][d] \in {table[e][d], None}
  BY <1>1, <1>2 DEF NoTable
<1>4. TypeOK'
  <2>1. table' \in [Endpoints -> [Clients -> Tokens \cup {None}]]
    BY <1>1, <1>2 DEF NoTable
  <2> QED
    BY <2>1 DEF InstanceDies, balancer, TypeOK
<1>5. ASSUME NEW x, NEW c, OwnedIn(table, issued, x, c)
      PROVE  OwnedIn(table', issued, x, c)
  BY <1>3, <1>5 DEF OwnedIn
<1>6. BelongIn(table, issued, holds, inbox, answers)
  BY BelongForms
<1>7. inbox' \subseteq inbox
  BY DEF InstanceDies
<1>8. BelongIn(table', issued, holds, inbox', answers)
  <2>1. ASSUME NEW e \in Endpoints, NEW c \in Clients
        PROVE  OwnedIn(table', issued, table'[e][c], c)
    <3>1. OwnedIn(table', issued, table[e][c], c)
      BY <1>5, <1>6 DEF BelongIn
    <3>2. OwnedIn(table', issued, None, c)
      BY DEF OwnedIn
    <3> QED
      BY <1>3, <3>1, <3>2
  <2> QED
    BY <2>1, <1>5, <1>6, <1>7 DEF BelongIn
<1> QED
  BY <1>4, <1>8, BelongForms DEF InstanceDies

(* Every other step moves tokens from one place to another, or loses them.  *)
LEMMA NextKeeps == IInv /\ [Next]_vars => IInv'
<1> SUFFICES ASSUME IInv, [Next]_vars
             PROVE  IInv'
  OBVIOUS
<1> USE DEF IInv
<1>0. BelongIn(table, issued, holds, inbox, answers)
  BY BelongForms
<1>1. CASE \E c \in Clients, u \in Urls : VehicleSends(c, u)
  BY <1>1, SendKeeps
<1>2. ASSUME NEW c \in Clients, Push(c)
      PROVE  IInv'
  <2>1. TypeOK'
    BY <1>2 DEF Push, LB!DistributeMsg, network, TypeOK
  <2> QED
    BY <1>2, <2>1, <1>0, BelongForms DEF Push, network
<1>3. ASSUME NEW m \in inbox, HandleRegister(m)
      PROVE  IInv'
  BY <1>3, RegisterKeeps
<1>4. ASSUME NEW m \in inbox, HandleUpdate(m)
      PROVE  IInv'
  <2>1. TypeOK'
    BY <1>4 DEF HandleUpdate, balancer, TypeOK
  <2>2. BelongIn(table, issued, holds, inbox', answers)
    BY <1>4, <1>0 DEF HandleUpdate, BelongIn
  <2> QED
    BY <1>4, <2>1, <2>2, BelongForms DEF HandleUpdate
<1>5. ASSUME NEW a \in answers, RelayAnswer(a)
      PROVE  IInv'
  <2>1. a \in [client : Clients, token : Tokens] /\ holds \in [Clients -> Tokens \cup {None}]
    BY DEF TypeOK
  <2>2. holds' = [holds EXCEPT ![a.client] = a.token] /\ answers' \subseteq answers
    BY <1>5 DEF RelayAnswer
  <2>3. TypeOK'
    BY <1>5, <2>1 DEF RelayAnswer, LB!RelayReply, TypeOK
  <2>4. BelongIn(table, issued, holds', inbox, answers')
    BY <2>1, <2>2, <1>0 DEF BelongIn
  <2> QED
    BY <1>5, <2>3, <2>4, BelongForms DEF RelayAnswer
<1>6. ASSUME NEW e \in Endpoints, InstanceStarts(e)
      PROVE  IInv'
  <2>1. TypeOK'
    BY <1>6 DEF InstanceStarts, balancer, TypeOK
  <2> QED
    BY <1>6, <2>1, <1>0, BelongForms DEF InstanceStarts
<1>7. ASSUME NEW e \in Endpoints, InstanceDies(e)
      PROVE  IInv'
  BY <1>7, DeathKeeps
<1>8. ASSUME NEW e \in Endpoints, BalancerRegisters(e)
      PROVE  IInv'
  <2>1. TypeOK'
    BY <1>8 DEF BalancerRegisters, LB!ServiceRegister, TypeOK, Services
  <2> QED
    BY <1>8, <2>1, <1>0, BelongForms DEF BalancerRegisters
<1>9. CASE BalancerDies
  <2>1. TypeOK'
    BY <1>9 DEF BalancerDies, LB!Crash, TypeOK, Services
  <2>2. answers' \subseteq answers
    BY <1>9 DEF BalancerDies
  <2>3. BelongIn(table, issued, holds, inbox, answers')
    BY <2>2, <1>0 DEF BelongIn
  <2> QED
    BY <1>9, <2>1, <2>3, BelongForms DEF BalancerDies
<1>10. CASE BalancerStarts
  <2>1. TypeOK'
    BY <1>10 DEF BalancerStarts, LB!Restart, network, TypeOK
  <2> QED
    BY <1>10, <2>1, <1>0, BelongForms DEF BalancerStarts, network
<1>11. ASSUME NEW e \in Endpoints, SnapshotJoins(e) \/ SnapshotFills(e)
       PROVE  IInv'
  <2>1. TypeOK'
    BY <1>11 DEF SnapshotJoins, SnapshotFills, balancer, network, TypeOK
  <2> QED
    BY <1>11, <2>1, <1>0, BelongForms DEF SnapshotJoins, SnapshotFills, network
<1>12. CASE UNCHANGED vars
  <2>1. TypeOK'
    BY <1>12 DEF vars, balancer, network, TypeOK
  <2> QED
    BY <1>12, <2>1, <1>0, BelongForms DEF vars, network
<1> QED
  BY <1>1, <1>2, <1>3, <1>4, <1>5, <1>6, <1>7, <1>8, <1>9, <1>10, <1>11, <1>12
  DEF Next, Handle

(* In every life of every process a token is the token of one vehicle: the  *)
(* tables of vehicle_mgr, the answers and the messages on their way and     *)
(* what the vehicles hold never disagree about it.                          *)
THEOREM TokensBelongToOne == Spec => []IInv
<1>1. Init => IInv
  BY InitIInv
<1>2. IInv /\ [Next]_vars => IInv'
  BY NextKeeps
<1> QED
  BY <1>1, <1>2, PTL DEF Spec

(* handle_internal_change looks a token up and finds its vehicle or nobody. *)
LEMMA LookupOwned ==
  ASSUME IInv, NEW m \in inbox
  PROVE  VidOf(m.to, m.token) \in {m.client, None}
<1>1. m.to \in Endpoints /\ m.client \in Clients
  BY DEF IInv, TypeOK
<1>2. CASE m.token # None /\ \E c \in Clients : table[m.to][c] = m.token
  <2> DEFINE v == CHOOSE c \in Clients : table[m.to][c] = m.token
  <2>1. v \in Clients /\ table[m.to][v] = m.token
    BY <1>2
  <2>2. v = m.client
    BY <1>1, <1>2, <2>1 DEF IInv, TokensBelong, Owned
  <2> QED
    BY <1>2, <2>2 DEF VidOf
<1>3. CASE ~ (m.token # None /\ \E c \in Clients : table[m.to][c] = m.token)
  BY <1>3 DEF VidOf
<1> QED
  BY <1>2, <1>3

(* No update is ever passed on in the name of another vehicle, for any      *)
(* number of vehicles and instances and any crashes and restarts.           *)
THEOREM UpdatesNeverMisattributed == Spec => []NeverMisattributed
<1>1. Init => NeverMisattributed
  BY DEF Init, NeverMisattributed
<1>2. IInv /\ NeverMisattributed /\ [Next]_vars => NeverMisattributed'
  <2> SUFFICES ASSUME IInv, NeverMisattributed, [Next]_vars
               PROVE  NeverMisattributed'
    OBVIOUS
  <2>1. ASSUME NEW m \in inbox, HandleUpdate(m)
        PROVE  NeverMisattributed'
    BY <2>1, LookupOwned DEF HandleUpdate, NeverMisattributed
  <2>2. CASE UNCHANGED forwarded
    BY <2>2 DEF NeverMisattributed
  <2>3. UNCHANGED forwarded \/ \E m \in inbox : HandleUpdate(m)
    BY DEF Next, vars, VehicleSends, Push, Handle, HandleRegister, RelayAnswer, InstanceStarts,
           InstanceDies, SnapshotJoins, SnapshotFills, BalancerRegisters, BalancerDies,
           BalancerStarts
  <2> QED
    BY <2>1, <2>2, <2>3
<1> QED
  BY <1>1, <1>2, TokensBelongToOne, PTL DEF Spec

================================================================================
