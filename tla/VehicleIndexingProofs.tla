------------------------ MODULE VehicleIndexingProofs ------------------------
(* What VehicleIndexing guarantees for any number of vehicles, snapshot    *)
(* instances and rules, and any max-vehicle-count.                         *)
EXTENDS VehicleIndexing, FiniteSetTheorems, TLAPS

(* The inductive invariant.  SlaveNeedsMaster is what makes the choice of  *)
(* a new pair safe: a node without a master has no slave to overwrite.     *)
IInv ==
    /\ TypeOK
    /\ TreesAgree
    /\ MasterIsNotSlave
    /\ SlaveNeedsMaster
    /\ CapacityRespected
    /\ SlaveUnlessFull

--------------------------------------------------------------------------------
(* What alloc_server_endpoint_to_vehicle returns: an instance with room     *)
(* other than the excluded one, or null when there is no such instance.     *)
LEMMA AllocatedFacts ==
    ASSUME NEW x, NEW cnt, NEW e, Allocated(x, cnt, e),
           servers \in Seq(Servers), None \notin Servers
    PROVE  /\ e # None => e \in Servers /\ e # x /\ cnt[e] < VehMax
           /\ e = None => \A r \in Registered : r # x => ~ (cnt[r] < VehMax)
<1>1. \A i \in DOMAIN servers : servers[i] \in Servers
  OBVIOUS
<1>2. CASE Candidates(x, cnt) = {} /\ e = None
  BY <1>2 DEF Candidates, Registered
<1>3. CASE \E i \in Candidates(x, cnt) : e = servers[i]
  BY <1>1, <1>3 DEF Candidates
<1> QED
  BY <1>2, <1>3 DEF Allocated

(* One more vehicle is counted for e and for nobody else; nothing is        *)
(* counted for the null endpoint.                                           *)
LEMMA CountUpFacts ==
    ASSUME NEW cnt \in [Servers -> Nat], NEW e
    PROVE  /\ CountUp(cnt, e) \in [Servers -> Nat]
           /\ \A x \in Servers :
                 CountUp(cnt, e)[x] = IF x = e THEN cnt[x] + 1 ELSE cnt[x]
           /\ e \notin Servers => CountUp(cnt, e) = cnt
BY DEF CountUp

--------------------------------------------------------------------------------
(* The effect of check_set_service_node on the node (i, t) and the counts,  *)
(* whichever of its branches runs.                                          *)
NodeStep(i, t, m, s) ==
    /\ m \in Servers
    /\ s \in Servers \cup {None}
    /\ s # m
    /\ master[i][t] # None => m = master[i][t]
    /\ slave[i][t] # None => s = slave[i][t]
    /\ master' = [master EXCEPT ![i][t] = m]
    /\ slave' = [slave EXCEPT ![i][t] = s]
    /\ vehCnt' \in [Servers -> Nat]
    /\ \A e \in Servers : vehCnt'[e] = vehCnt[e] \/ vehCnt'[e] <= VehMax
    /\ s = None => \A r \in Registered : r # m => vehCnt'[r] >= VehMax

(* A first update allocates a master and, with its count already raised, a  *)
(* slave: that is a NodeStep.                                               *)
LEMMA AssignBothStep ==
    ASSUME IInv, NEW i \in ForwardItems, NEW t \in Tokens,
           NEW m \in Servers, NEW s \in Servers \cup {None},
           AssignBoth(i, t, m, s)
    PROVE  NodeStep(i, t, m, s)
<1> DEFINE c == CountUp(vehCnt, m)
<1>1. /\ servers \in Seq(Servers) /\ None \notin Servers /\ VehMax \in Nat
      /\ vehCnt \in [Servers -> Nat]
  BY IndexingAssumption DEF IInv, TypeOK
<1>2. vehCnt[m] < VehMax
  BY <1>1, AllocatedFacts DEF AssignBoth
<1>3. /\ c \in [Servers -> Nat]
      /\ \A x \in Servers : c[x] = IF x = m THEN vehCnt[x] + 1 ELSE vehCnt[x]
  BY <1>1, CountUpFacts
<1>4. /\ s # None => s # m /\ c[s] < VehMax
      /\ s = None => \A r \in Registered : r # m => ~ (c[r] < VehMax)
  <2>1. Allocated(m, c, s)
    BY DEF AssignBoth
  <2> HIDE DEF c
  <2> QED
    BY <1>1, <2>1, AllocatedFacts
<1>5. /\ vehCnt' \in [Servers -> Nat]
      /\ \A x \in Servers : vehCnt'[x] = IF x = s THEN c[x] + 1 ELSE c[x]
  <2>1. vehCnt' = CountUp(c, s)
    BY DEF AssignBoth
  <2> HIDE DEF c
  <2> QED
    BY <1>3, <2>1, CountUpFacts
<1>6. slave[i][t] = None /\ master[i][t] = None
  BY DEF IInv, SlaveNeedsMaster, AssignBoth
<1>7. Registered \subseteq Servers
  BY <1>1 DEF Registered
<1> HIDE DEF c
<1>8. ASSUME NEW e \in Servers
      PROVE  vehCnt'[e] = vehCnt[e] \/ vehCnt'[e] <= VehMax
  <2>1. vehCnt[e] \in Nat /\ VehMax \in Nat
    BY <1>1
  <2>2. CASE e = s
    <3>1. s # None /\ s # m
      BY <1>1, <1>4, <2>2
    <3>2. vehCnt'[e] = vehCnt[e] + 1 /\ vehCnt[e] < VehMax
      BY <1>3, <1>4, <1>5, <2>2, <3>1
    <3> QED
      BY <2>1, <3>2
  <2>3. CASE e = m /\ e # s
    <3>1. vehCnt'[e] = vehCnt[e] + 1
      BY <1>3, <1>5, <2>3
    <3> QED
      BY <1>2, <2>1, <2>3, <3>1
  <2>4. CASE e # m /\ e # s
    BY <1>3, <1>5, <2>4
  <2> QED
    BY <2>2, <2>3, <2>4
<1>9. s = None => \A r \in Registered : r # m => vehCnt'[r] >= VehMax
  BY <1>1, <1>3, <1>4, <1>5, <1>7
<1>10. s # m
  BY <1>1, <1>4
<1> QED
  BY <1>5, <1>6, <1>8, <1>9, <1>10 DEF NodeStep, AssignBoth

(* A later update that only adds the missing slave is a NodeStep.           *)
LEMMA AssignSlaveStep ==
    ASSUME IInv, NEW i \in ForwardItems, NEW t \in Tokens,
           NEW m \in Servers, NEW s \in Servers \cup {None},
           AssignSlave(i, t, m, s)
    PROVE  NodeStep(i, t, m, s)
<1>1. /\ servers \in Seq(Servers) /\ None \notin Servers /\ VehMax \in Nat
      /\ vehCnt \in [Servers -> Nat]
  BY IndexingAssumption DEF IInv, TypeOK
<1>2. /\ s # None => s # m /\ vehCnt[s] < VehMax
      /\ s = None => \A r \in Registered : r # m => ~ (vehCnt[r] < VehMax)
  BY <1>1, AllocatedFacts DEF AssignSlave
<1>3. /\ vehCnt' \in [Servers -> Nat]
      /\ \A x \in Servers : vehCnt'[x] = IF x = s THEN vehCnt[x] + 1 ELSE vehCnt[x]
  BY <1>1, CountUpFacts DEF AssignSlave
<1>4. Registered \subseteq Servers
  BY <1>1 DEF Registered
<1>5. \A e \in Servers : vehCnt'[e] = vehCnt[e] \/ vehCnt'[e] <= VehMax
  BY <1>1, <1>2, <1>3
<1>6. s = None => \A r \in Registered : r # m => vehCnt'[r] >= VehMax
  BY <1>1, <1>2, <1>3, <1>4
<1>7. s # m
  BY <1>1, <1>2
<1>8. master' = [master EXCEPT ![i][t] = m]
  BY DEF AssignSlave, IInv, TypeOK
<1> QED
  BY <1>3, <1>5, <1>6, <1>7, <1>8 DEF NodeStep, AssignSlave

(* An update whose pair is complete is a NodeStep that changes nothing.     *)
LEMMA KeepNodeStep ==
    ASSUME IInv, NEW i \in ForwardItems, NEW t \in Tokens,
           NEW m \in Servers, NEW s \in Servers \cup {None},
           KeepNode(i, t, m, s)
    PROVE  NodeStep(i, t, m, s)
<1>1. /\ master' = [master EXCEPT ![i][t] = m]
      /\ slave' = [slave EXCEPT ![i][t] = s]
  BY DEF KeepNode, IInv, TypeOK
<1>2. s # m
  BY DEF KeepNode, IInv, MasterIsNotSlave
<1>3. vehCnt' = vehCnt /\ vehCnt \in [Servers -> Nat]
  BY DEF KeepNode, IInv, TypeOK
<1> QED
  BY <1>1, <1>2, <1>3 DEF NodeStep, KeepNode

(* A message with a token either finds no instance with room and changes no *)
(* node, or is a NodeStep and goes to the pair the step leaves.             *)
LEMMA UpdateStep ==
    ASSUME IInv, NEW i \in ForwardItems, NEW t \in Tokens, NEW body \in BOOLEAN,
           Update(i, t, body)
    PROVE  \/ /\ out'.kind = "unserved"
              /\ UNCHANGED <<master, slave, vehCnt>>
           \/ \E m \in Servers, s \in Servers \cup {None} :
                 NodeStep(i, t, m, s) /\ out' = Forwarded(i, t, m, s)
BY AssignBothStep, AssignSlaveStep, KeepNodeStep DEF Update

--------------------------------------------------------------------------------
(* Every step keeps the parts of the invariant that describe nodes and      *)
(* counts, given that it is a NodeStep.                                     *)
LEMMA NodeStepKeeps ==
    ASSUME IInv, NEW i \in ForwardItems, NEW t \in Tokens,
           NEW m \in Servers, NEW s \in Servers \cup {None},
           NodeStep(i, t, m, s), UNCHANGED <<servers, base>>
    PROVE  /\ master' \in [ForwardItems -> [Tokens -> Servers \cup {None}]]
           /\ slave' \in [ForwardItems -> [Tokens -> Servers \cup {None}]]
           /\ MasterIsNotSlave'
           /\ SlaveNeedsMaster'
           /\ CapacityRespected'
<1>1. /\ master \in [ForwardItems -> [Tokens -> Servers \cup {None}]]
      /\ slave \in [ForwardItems -> [Tokens -> Servers \cup {None}]]
      /\ vehCnt \in [Servers -> Nat] /\ VehMax \in Nat
      /\ servers \in Seq(Servers)
  BY IndexingAssumption DEF IInv, TypeOK
<1>2. /\ master' = [master EXCEPT ![i][t] = m]
      /\ slave' = [slave EXCEPT ![i][t] = s]
  BY DEF NodeStep
<1>3. /\ master' \in [ForwardItems -> [Tokens -> Servers \cup {None}]]
      /\ slave' \in [ForwardItems -> [Tokens -> Servers \cup {None}]]
  BY <1>1, <1>2
<1>4. ASSUME NEW j \in ForwardItems, NEW u \in Tokens
      PROVE  /\ master'[j][u] = IF j = i /\ u = t THEN m ELSE master[j][u]
             /\ slave'[j][u] = IF j = i /\ u = t THEN s ELSE slave[j][u]
  BY <1>1, <1>2
<1>5. MasterIsNotSlave'
  BY <1>4 DEF MasterIsNotSlave, IInv, NodeStep
<1>6. SlaveNeedsMaster'
  BY <1>4, IndexingAssumption DEF SlaveNeedsMaster, IInv, NodeStep
<1>7. CapacityRespected'
  <2>1. Registered \subseteq Servers /\ Registered' = Registered
    BY <1>1 DEF Registered
  <2> QED
    BY <2>1 DEF CapacityRespected, IInv, NodeStep
<1> QED
  BY <1>3, <1>5, <1>6, <1>7

(* add_vehicle with a fresh uid keeps the two trees consistent.             *)
LEMMA AddVehicleKeepsTrees ==
    ASSUME IInv, NEW v \in Vids, NEW t \in Tokens \ issued,
           vinTree[v] = None, AddVehicle(v, t)
    PROVE  TreesAgree'
<1>1. /\ vinTree \in [Vids -> Tokens \cup {None}]
      /\ uidTree \in [Tokens -> Vids \cup {None}]
      /\ None \notin Vids /\ None \notin Tokens
  BY IndexingAssumption DEF IInv, TypeOK
<1>2. ASSUME NEW w \in Vids PROVE vinTree'[w] = IF w = v THEN t ELSE vinTree[w]
  BY <1>1 DEF AddVehicle
<1>3. ASSUME NEW u \in Tokens PROVE uidTree'[u] = IF u = t THEN v ELSE uidTree[u]
  BY <1>1 DEF AddVehicle
<1>4. issued' = issued \cup {t}
  BY DEF AddVehicle
<1>5. ASSUME NEW w \in Vids, vinTree'[w] # None
      PROVE  uidTree'[vinTree'[w]] = w /\ vinTree'[w] \in issued'
  <2>1. CASE w = v
    BY <1>2, <1>3, <1>4, <2>1
  <2>2. CASE w # v
    <3>1. /\ vinTree'[w] = vinTree[w]
          /\ vinTree[w] \in Tokens
          /\ uidTree[vinTree[w]] = w
          /\ vinTree[w] \in issued
      BY <1>1, <1>2, <1>5, <2>2 DEF IInv, TreesAgree
    <3>2. vinTree[w] # t
      BY <3>1
    <3> QED
      BY <1>3, <1>4, <3>1, <3>2
  <2> QED
    BY <2>1, <2>2
<1>6. ASSUME NEW u \in Tokens, uidTree'[u] # None
      PROVE  vinTree'[uidTree'[u]] = u
  <2>1. CASE u = t
    BY <1>2, <1>3, <2>1
  <2>2. CASE u # t
    <3>1. /\ uidTree'[u] = uidTree[u]
          /\ uidTree[u] \in Vids
          /\ vinTree[uidTree[u]] = u
      BY <1>1, <1>3, <1>6, <2>2 DEF IInv, TreesAgree
    <3>2. uidTree[u] # v
      BY <1>1, <3>1
    <3> QED
      BY <1>2, <3>1, <3>2
  <2> QED
    BY <2>1, <2>2
<1> QED
  BY <1>5, <1>6 DEF TreesAgree

--------------------------------------------------------------------------------
(* The actions that leave nodes and counts alone, or only add an instance.  *)
LEMMA VehicleRegisterKeeps ==
    ASSUME IInv, NEW v \in Vids, VehicleRegister(v)
    PROVE  IInv'
<1>1. CASE UNCHANGED vehicles
  <2>1. UNCHANGED <<vehicles, routing>> /\ UNCHANGED snapshots /\ out'.kind # "forward"
    BY <1>1 DEF VehicleRegister
  <2> QED
    BY <2>1 DEF IInv, TypeOK, TreesAgree, MasterIsNotSlave, SlaveNeedsMaster,
                CapacityRespected, SlaveUnlessFull, Registered, vehicles, routing
<1>2. CASE vinTree[v] = None
  <2>1. PICK t \in Tokens \ issued :
            AddVehicle(v, t) /\ out' = [kind |-> "token", vid |-> v, token |-> t]
    BY <1>2 DEF VehicleRegister
  <2>2. TreesAgree'
    BY <1>2, <2>1, AddVehicleKeepsTrees
  <2>3. UNCHANGED routing /\ UNCHANGED snapshots /\ out'.kind # "forward"
    BY <2>1 DEF VehicleRegister
  <2>4. TypeOK'
    BY <2>1, <2>3 DEF IInv, TypeOK, AddVehicle, routing
  <2> QED
    BY <2>2, <2>3, <2>4 DEF IInv, MasterIsNotSlave, SlaveNeedsMaster,
                CapacityRespected, SlaveUnlessFull, Registered, routing
<1> QED
  BY <1>1, <1>2 DEF VehicleRegister

(* add_server_endpoint keeps the invariant, whatever count the instance     *)
(* reports and whether or not it is known.                                  *)
LEMMA SnapshotRegisterKeeps ==
    ASSUME IInv, NEW e \in Servers, NEW n \in ReportedCnt, SnapshotRegister(e, n)
    PROVE  IInv'
<1>1. UNCHANGED <<vehicles, master, slave, snapshots>> /\ out'.kind # "forward"
  BY DEF SnapshotRegister
<1>2. CASE UNCHANGED <<servers, vehCnt, base>>
  BY <1>1, <1>2 DEF IInv, TypeOK, TreesAgree, MasterIsNotSlave, SlaveNeedsMaster,
                CapacityRespected, SlaveUnlessFull, Registered, vehicles
<1>3. CASE /\ e \notin Registered
           /\ servers' = Append(servers, e)
           /\ vehCnt' = [vehCnt EXCEPT ![e] = n]
           /\ base' = [base EXCEPT ![e] = n]
  <2>1. n \in Nat
    BY IndexingAssumption
  <2>2. TypeOK'
    BY <1>1, <1>3, <2>1 DEF IInv, TypeOK, vehicles
  <2>3. Registered' = Registered \cup {e} /\ Registered \subseteq Servers
    <3>1. servers \in Seq(Servers)
      BY DEF IInv, TypeOK
    <3>2. /\ DOMAIN servers' = 1..(Len(servers) + 1)
          /\ DOMAIN servers = 1..Len(servers)
          /\ \A i \in DOMAIN servers : servers'[i] = servers[i]
          /\ servers'[Len(servers) + 1] = e
          /\ Len(servers) \in Nat
      BY <1>3, <3>1
    <3>3. \A i : i \in DOMAIN servers' <=> i \in DOMAIN servers \/ i = Len(servers) + 1
      BY <3>2
    <3> QED
      BY <3>1, <3>2, <3>3 DEF Registered
  <2>4. CapacityRespected'
    <3> SUFFICES ASSUME NEW x \in Registered'
                 PROVE  vehCnt'[x] <= VehMax \/ vehCnt'[x] = base'[x]
      BY DEF CapacityRespected
    <3>1. vehCnt \in [Servers -> Nat] /\ base \in [Servers -> Nat]
      BY DEF IInv, TypeOK
    <3>2. CASE x = e
      BY <1>3, <3>1, <3>2
    <3>3. CASE x # e
      BY <1>3, <2>3, <3>1, <3>3 DEF IInv, CapacityRespected
    <3> QED
      BY <3>2, <3>3
  <2> QED
    BY <1>1, <2>2, <2>4 DEF IInv, TreesAgree, MasterIsNotSlave, SlaveNeedsMaster,
                SlaveUnlessFull, vehicles
<1> QED
  BY <1>2, <1>3 DEF SnapshotRegister

(* An update keeps the invariant: it is a NodeStep, or it finds no instance *)
(* with room and leaves the nodes alone.                                    *)
LEMMA UpdateKeeps ==
    ASSUME IInv, NEW i \in ForwardItems, NEW t \in Tokens, NEW body \in BOOLEAN,
           Update(i, t, body)
    PROVE  IInv'
<1>1. UNCHANGED <<vehicles, servers, base>>
  BY DEF Update
<1>2. TreesAgree'
  BY <1>1 DEF IInv, TreesAgree, vehicles
<1>3. snapshots' \in SUBSET Vids
  BY DEF IInv, TypeOK, Update, KeepSnapshot
<1>4. CASE out'.kind = "unserved" /\ UNCHANGED <<master, slave, vehCnt>>
  BY <1>1, <1>2, <1>3, <1>4 DEF IInv, TypeOK, MasterIsNotSlave, SlaveNeedsMaster,
                CapacityRespected, SlaveUnlessFull, Registered, vehicles
<1>5. ASSUME NEW m \in Servers, NEW s \in Servers \cup {None},
             NodeStep(i, t, m, s), out' = Forwarded(i, t, m, s)
      PROVE  IInv'
  <2>1. /\ master' \in [ForwardItems -> [Tokens -> Servers \cup {None}]]
        /\ slave' \in [ForwardItems -> [Tokens -> Servers \cup {None}]]
        /\ MasterIsNotSlave'
        /\ SlaveNeedsMaster'
        /\ CapacityRespected'
    BY <1>1, <1>5, NodeStepKeeps
  <2>2. vehCnt' \in [Servers -> Nat]
    BY <1>5 DEF NodeStep
  <2>3. TypeOK'
    BY <1>1, <1>3, <2>1, <2>2 DEF IInv, TypeOK, vehicles
  <2>4. SlaveUnlessFull'
    <3>1. out'.slave = s /\ out'.master = m
      BY <1>5 DEF Forwarded
    <3>2. Registered' = Registered
      BY <1>1 DEF Registered
    <3>3. s = None => \A r \in Registered : r # m => vehCnt'[r] >= VehMax
      BY <1>5 DEF NodeStep
    <3> QED
      BY <3>1, <3>2, <3>3 DEF SlaveUnlessFull
  <2> QED
    BY <1>2, <2>1, <2>3, <2>4 DEF IInv
<1> QED
  BY <1>4, <1>5, UpdateStep

(* The empty tables of a new process satisfy the invariant; the uids issued *)
(* before stay issued.                                                      *)
LEMMA RestartKeeps ==
    ASSUME IInv, Restart
    PROVE  IInv'
<1>1. TypeOK'
  BY DEF Restart, NoNodes, IInv, TypeOK
<1>2. TreesAgree'
  BY DEF Restart, TreesAgree
<1>3. MasterIsNotSlave' /\ SlaveNeedsMaster'
  BY DEF Restart, NoNodes, MasterIsNotSlave, SlaveNeedsMaster
<1>4. CapacityRespected'
  BY DEF Restart, CapacityRespected, Registered
<1>5. SlaveUnlessFull'
  BY DEF Restart, SlaveUnlessFull
<1> QED
  BY <1>1, <1>2, <1>3, <1>4, <1>5 DEF IInv

(* The invariant holds when the service starts.                             *)
LEMMA InitEstablishes ==
    Init => IInv
<1> SUFFICES ASSUME Init PROVE IInv
  OBVIOUS
<1>1. TypeOK
  BY DEF Init, NoNodes, TypeOK
<1>2. TreesAgree
  BY DEF Init, TreesAgree
<1>3. MasterIsNotSlave /\ SlaveNeedsMaster
  BY DEF Init, NoNodes, MasterIsNotSlave, SlaveNeedsMaster
<1>4. CapacityRespected
  BY DEF Init, CapacityRespected, Registered
<1>5. SlaveUnlessFull
  BY DEF Init, SlaveUnlessFull
<1> QED
  BY <1>1, <1>2, <1>3, <1>4, <1>5 DEF IInv

(* A step that only answers somebody.                                       *)
LEMMA AnswerKeeps ==
    ASSUME IInv, UNCHANGED <<vehicles, routing, snapshots>>,
           out'.kind # "forward" \/ out' = out
    PROVE  IInv'
BY DEF IInv, TypeOK, TreesAgree, MasterIsNotSlave, SlaveNeedsMaster,
       CapacityRespected, SlaveUnlessFull, Registered, vehicles, routing

(* Every handler of the indexing service keeps the invariant.               *)
LEMMA NextKeeps ==
    ASSUME IInv, [Next]_vars
    PROVE  IInv'
<1>1. CASE \E v \in Vids : VehicleRegister(v)
  BY <1>1, VehicleRegisterKeeps
<1>2. CASE \E v \in Vids : VehicleRegisterBadType(v)
  BY <1>2, AnswerKeeps DEF VehicleRegisterBadType
<1>3. CASE \E e \in Servers, n \in ReportedCnt : SnapshotRegister(e, n)
  BY <1>3, SnapshotRegisterKeeps
<1>4. CASE \E i \in ForwardItems, t \in Tokens, body \in BOOLEAN : Update(i, t, body)
  BY <1>4, UpdateKeeps
<1>5. CASE UpdateUnroutable
  BY <1>5, AnswerKeeps DEF UpdateUnroutable
<1>6. CASE \E e \in Servers : RelayReply(e)
  BY <1>6, AnswerKeeps DEF RelayReply
<1>7. CASE Restart
  BY <1>7, RestartKeeps
<1>8. CASE UNCHANGED vars
  BY <1>8, AnswerKeeps DEF vars
<1> QED
  BY <1>1, <1>2, <1>3, <1>4, <1>5, <1>6, <1>7, <1>8 DEF Next

--------------------------------------------------------------------------------
(* Every reachable state of the indexing service satisfies the inductive    *)
(* invariant.                                                               *)
THEOREM IndexingInvariant == Spec => []IInv
BY InitEstablishes, NextKeeps, PTL DEF Spec

(* The variables of the indexing service keep their types.                  *)
THEOREM TypeCorrect == Spec => []TypeOK
<1>1. IInv => TypeOK
  BY DEF IInv
<1> QED
  BY <1>1, IndexingInvariant, PTL

(* The two trees of vehicle_mgr always describe the same vehicles.          *)
THEOREM TreesAlwaysAgree == Spec => []TreesAgree
<1>1. IInv => TreesAgree
  BY DEF IInv
<1> QED
  BY <1>1, IndexingInvariant, PTL

(* check_set_service_node never gives both copies of a vehicle to the same  *)
(* instance.                                                                *)
THEOREM CopiesAreApart == Spec => []MasterIsNotSlave
<1>1. IInv => MasterIsNotSlave
  BY DEF IInv
<1> QED
  BY <1>1, IndexingInvariant, PTL

(* The branch of check_set_service_node for a slave without a master is     *)
(* never taken.                                                             *)
THEOREM NoSlaveAlone == Spec => []SlaveNeedsMaster
<1>1. IInv => SlaveNeedsMaster
  BY DEF IInv
<1> QED
  BY <1>1, IndexingInvariant, PTL

(* alloc_server_endpoint_to_vehicle never overfills an instance.            *)
THEOREM CapacityHolds == Spec => []CapacityRespected
<1>1. IInv => CapacityRespected
  BY DEF IInv
<1> QED
  BY <1>1, IndexingInvariant, PTL

(* forward_to_service leaves out the slave copy only when every other       *)
(* instance is full.                                                        *)
THEOREM SlaveIfRoom == Spec => []SlaveUnlessFull
<1>1. IInv => SlaveUnlessFull
  BY DEF IInv
<1> QED
  BY <1>1, IndexingInvariant, PTL

(* The pair that serves a vehicle only changes from null to an instance.    *)
THEOREM AssignmentsStick == Spec => AssignmentSticks
<1> DEFINE Kept == \A i \in ForwardItems, t \in Tokens :
                      /\ master[i][t] # None => master'[i][t] = master[i][t]
                      /\ slave[i][t] # None => slave'[i][t] = slave[i][t]
<1>1. ASSUME IInv, [Next]_vars
      PROVE  [servers' = <<>> \/ Kept]_vars
  <2>1. CASE UNCHANGED <<master, slave>>
    BY <2>1
  <2>2. CASE \E i \in ForwardItems, t \in Tokens, body \in BOOLEAN : Update(i, t, body)
    <3>1. PICK i \in ForwardItems, t \in Tokens, body \in BOOLEAN : Update(i, t, body)
      BY <2>2
    <3>2. ASSUME NEW m \in Servers, NEW s \in Servers \cup {None}, NodeStep(i, t, m, s)
          PROVE  Kept
      <4>1. /\ master \in [ForwardItems -> [Tokens -> Servers \cup {None}]]
            /\ slave \in [ForwardItems -> [Tokens -> Servers \cup {None}]]
        BY <1>1 DEF IInv, TypeOK
      <4>2. ASSUME NEW j \in ForwardItems, NEW u \in Tokens
            PROVE  /\ master'[j][u] = IF j = i /\ u = t THEN m ELSE master[j][u]
                   /\ slave'[j][u] = IF j = i /\ u = t THEN s ELSE slave[j][u]
        BY <3>2, <4>1 DEF NodeStep
      <4> QED
        BY <3>2, <4>2 DEF NodeStep
    <3> HIDE DEF Kept
    <3> QED
      BY <1>1, <2>1, <3>1, <3>2, UpdateStep
  <2>3. CASE Restart
    BY <2>3 DEF Restart
  <2> QED
    BY <1>1, <2>1, <2>2, <2>3
      DEF Next, VehicleRegister, VehicleRegisterBadType, SnapshotRegister,
          UpdateUnroutable, RelayReply, routing, vars
<1> QED
  BY <1>1, IndexingInvariant, PTL DEF Spec, AssignmentSticks

--------------------------------------------------------------------------------
(* The nodes whose f, master or slave, is the instance e.                   *)
NamedIn(f, e) == {n \in ForwardItems \X Tokens : f[n[1]][n[2]] = e}

(* An instance e, with the registered instances R, is named by the nodes M  *)
(* as master and S as slave, has the count c and reported b.                *)
Counted(e, R, M, S, c, b) ==
    /\ IsFiniteSet(M)
    /\ IsFiniteSet(S)
    /\ e \notin R => M = {} /\ S = {}
    /\ c = b + Cardinality(M) + Cardinality(S)

(* The invariant behind CountMatchesNodes: only registered instances are    *)
(* named, each by finitely many nodes, and every instance, registered or    *)
(* not, is counted exactly.  Without the first part the registration of an  *)
(* instance, which sets its count, could forget nodes that name it already. *)
CountInv ==
    \A e \in Servers :
        Counted(e, Registered, MasterOf(e), SlaveOf(e), vehCnt[e], base[e])

(* The same for the next state, from the next values of the variables.      *)
LEMMA CountInvNext ==
    ASSUME \A e \in Servers : Counted(e, Registered', NamedIn(master', e),
                                      NamedIn(slave', e), vehCnt'[e], base'[e])
    PROVE  CountInv'
<1>1. \A e \in Servers : MasterOf(e)' = NamedIn(master', e) /\ SlaveOf(e)' = NamedIn(slave', e)
  BY DEF MasterOf, SlaveOf, NamedIn
<1>2. CountInv' = \A e \in Servers :
                     Counted(e, Registered', MasterOf(e)', SlaveOf(e)', vehCnt'[e], base'[e])
  BY DEF CountInv, Counted
<1> QED
  BY <1>1, <1>2

(* And for the present one.                                                 *)
LEMMA CountInvNow ==
    CountInv <=> \A e \in Servers : Counted(e, Registered, NamedIn(master, e),
                                            NamedIn(slave, e), vehCnt[e], base[e])
<1>1. \A e \in Servers : MasterOf(e) = NamedIn(master, e) /\ SlaveOf(e) = NamedIn(slave, e)
  BY DEF MasterOf, SlaveOf, NamedIn
<1> QED
  BY <1>1 DEF CountInv

(* alloc_server_endpoint_to_vehicle only returns registered instances.      *)
LEMMA AllocatedRegistered ==
    ASSUME NEW x, NEW cnt, NEW e, Allocated(x, cnt, e), e # None
    PROVE  e \in Registered
BY DEF Allocated, Candidates, Registered

(* g is f with the empty field of the node (i, t) set to v.                 *)
Filled(f, g, i, t, v) ==
    /\ f[i][t] = None
    /\ \A j \in ForwardItems, u \in Tokens :
          g[j][u] = IF j = i /\ u = t THEN v ELSE f[j][u]

(* Filling an empty field of one node adds that node to those that name the *)
(* new value, and changes nothing for the other instances.                  *)
LEMMA NamedAfterFill ==
    ASSUME NEW f, NEW g, NEW i \in ForwardItems, NEW t \in Tokens, NEW v,
           NEW e \in Servers, None \notin Servers, Filled(f, g, i, t, v),
           IsFiniteSet(NamedIn(f, e))
    PROVE  /\ IsFiniteSet(NamedIn(g, e))
           /\ e # v => NamedIn(g, e) = NamedIn(f, e)
           /\ Cardinality(NamedIn(g, e)) =
                 IF e = v THEN Cardinality(NamedIn(f, e)) + 1
                          ELSE Cardinality(NamedIn(f, e))
<1>1. /\ f[i][t] = None
      /\ \A j \in ForwardItems, u \in Tokens :
            g[j][u] = IF j = i /\ u = t THEN v ELSE f[j][u]
  BY DEF Filled
<1>2. CASE e = v
  <2>1. NamedIn(g, e) = NamedIn(f, e) \cup {<<i, t>>}
    BY <1>1, <1>2 DEF NamedIn
  <2>2. <<i, t>> \notin NamedIn(f, e)
    BY <1>1 DEF NamedIn
  <2>3. /\ IsFiniteSet(NamedIn(f, e) \cup {<<i, t>>})
        /\ Cardinality(NamedIn(f, e) \cup {<<i, t>>}) = Cardinality(NamedIn(f, e)) + 1
    BY ONLY <2>2, IsFiniteSet(NamedIn(f, e)), FS_AddElement
  <2> QED
    BY ONLY <1>2, <2>1, <2>3
<1>3. CASE e # v
  <2>1. NamedIn(g, e) = NamedIn(f, e)
    <3>1. ASSUME NEW n \in ForwardItems \X Tokens
          PROVE  g[n[1]][n[2]] = e <=> f[n[1]][n[2]] = e
      BY <1>1, <1>3
    <3> QED
      BY <3>1 DEF NamedIn
  <2> QED
    BY <1>3, <2>1
<1> QED
  BY <1>2, <1>3

(* A first update counts its master and its slave once each.                *)
LEMMA AssignBothCounts ==
    ASSUME IInv, CountInv, NEW i \in ForwardItems, NEW t \in Tokens,
           NEW m \in Servers, NEW s \in Servers \cup {None},
           AssignBoth(i, t, m, s), UNCHANGED <<servers, base>>
    PROVE  CountInv'
<1>1. /\ None \notin Servers
      /\ vehCnt \in [Servers -> Nat] /\ base \in [Servers -> Nat]
      /\ master \in [ForwardItems -> [Tokens -> Servers \cup {None}]]
      /\ slave \in [ForwardItems -> [Tokens -> Servers \cup {None}]]
  BY IndexingAssumption DEF IInv, TypeOK
<1>2. master[i][t] = None /\ slave[i][t] = None
  BY DEF IInv, SlaveNeedsMaster, AssignBoth
<1>3. m \in Registered /\ (s # None => s \in Registered)
  BY <1>1, AllocatedRegistered DEF AssignBoth
<1>4. \A e \in Servers : vehCnt'[e] = vehCnt[e] + (IF e = m THEN 1 ELSE 0)
                                                + (IF e = s THEN 1 ELSE 0)
  BY <1>1 DEF AssignBoth, CountUp
<1>5. Registered' = Registered /\ base' = base
  BY DEF Registered
<1> SUFFICES ASSUME NEW e \in Servers
             PROVE  Counted(e, Registered, NamedIn(master', e), NamedIn(slave', e),
                            vehCnt'[e], base[e])
  BY <1>5, CountInvNext
<1>6. /\ IsFiniteSet(NamedIn(master, e)) /\ IsFiniteSet(NamedIn(slave, e))
      /\ e \notin Registered => NamedIn(master, e) = {} /\ NamedIn(slave, e) = {}
      /\ vehCnt[e] = base[e] + Cardinality(NamedIn(master, e))
                             + Cardinality(NamedIn(slave, e))
  BY CountInvNow DEF Counted
<1>7. Filled(master, master', i, t, m) /\ Filled(slave, slave', i, t, s)
  BY <1>1, <1>2 DEF AssignBoth, Filled
<1>8. /\ IsFiniteSet(NamedIn(master', e))
      /\ e # m => NamedIn(master', e) = NamedIn(master, e)
      /\ Cardinality(NamedIn(master', e)) =
            IF e = m THEN Cardinality(NamedIn(master, e)) + 1
                     ELSE Cardinality(NamedIn(master, e))
  BY <1>1, <1>6, <1>7, NamedAfterFill
<1>9. /\ IsFiniteSet(NamedIn(slave', e))
      /\ e # s => NamedIn(slave', e) = NamedIn(slave, e)
      /\ Cardinality(NamedIn(slave', e)) =
            IF e = s THEN Cardinality(NamedIn(slave, e)) + 1
                     ELSE Cardinality(NamedIn(slave, e))
  BY <1>1, <1>6, <1>7, NamedAfterFill
<1>10. /\ Cardinality(NamedIn(master, e)) \in Nat
       /\ Cardinality(NamedIn(slave, e)) \in Nat
       /\ base[e] \in Nat
  BY <1>1, <1>6, FS_CardinalityType
<1>11. vehCnt'[e] = base[e] + Cardinality(NamedIn(master', e))
                            + Cardinality(NamedIn(slave', e))
  BY <1>4, <1>6, <1>8, <1>9, <1>10
<1>12. e \notin Registered => NamedIn(master', e) = {} /\ NamedIn(slave', e) = {}
  BY <1>1, <1>3, <1>6, <1>8, <1>9
<1> QED
  BY <1>8, <1>9, <1>11, <1>12 DEF Counted

(* A late slave is counted once; the master is not counted again.           *)
LEMMA AssignSlaveCounts ==
    ASSUME IInv, CountInv, NEW i \in ForwardItems, NEW t \in Tokens,
           NEW m \in Servers, NEW s \in Servers \cup {None},
           AssignSlave(i, t, m, s), UNCHANGED <<servers, base>>
    PROVE  CountInv'
<1>1. /\ None \notin Servers
      /\ vehCnt \in [Servers -> Nat] /\ base \in [Servers -> Nat]
      /\ slave \in [ForwardItems -> [Tokens -> Servers \cup {None}]]
  BY IndexingAssumption DEF IInv, TypeOK
<1>2. slave[i][t] = None /\ master' = master
  BY DEF AssignSlave
<1>3. s # None => s \in Registered
  BY <1>1, AllocatedRegistered DEF AssignSlave
<1>4. \A e \in Servers : vehCnt'[e] = vehCnt[e] + (IF e = s THEN 1 ELSE 0)
  BY <1>1 DEF AssignSlave, CountUp
<1>5. Registered' = Registered /\ base' = base
  BY DEF Registered
<1> SUFFICES ASSUME NEW e \in Servers
             PROVE  Counted(e, Registered, NamedIn(master, e), NamedIn(slave', e),
                            vehCnt'[e], base[e])
  BY <1>2, <1>5, CountInvNext
<1>6. /\ IsFiniteSet(NamedIn(master, e)) /\ IsFiniteSet(NamedIn(slave, e))
      /\ e \notin Registered => NamedIn(master, e) = {} /\ NamedIn(slave, e) = {}
      /\ vehCnt[e] = base[e] + Cardinality(NamedIn(master, e))
                             + Cardinality(NamedIn(slave, e))
  BY CountInvNow DEF Counted
<1>7. Filled(slave, slave', i, t, s)
  BY <1>1, <1>2 DEF AssignSlave, Filled
<1>9. /\ IsFiniteSet(NamedIn(slave', e))
      /\ e # s => NamedIn(slave', e) = NamedIn(slave, e)
      /\ Cardinality(NamedIn(slave', e)) =
            IF e = s THEN Cardinality(NamedIn(slave, e)) + 1
                     ELSE Cardinality(NamedIn(slave, e))
  BY <1>1, <1>6, <1>7, NamedAfterFill
<1>10. /\ Cardinality(NamedIn(master, e)) \in Nat
       /\ Cardinality(NamedIn(slave, e)) \in Nat
       /\ base[e] \in Nat
  BY <1>1, <1>6, FS_CardinalityType
<1>11. vehCnt'[e] = base[e] + Cardinality(NamedIn(master, e))
                            + Cardinality(NamedIn(slave', e))
  BY <1>4, <1>6, <1>9, <1>10
<1>12. e \notin Registered => NamedIn(slave', e) = {}
  BY <1>1, <1>3, <1>6, <1>9
<1> QED
  BY <1>6, <1>9, <1>11, <1>12 DEF Counted

(* A registration starts the count of a new instance, which no node names,  *)
(* at what it reports, and leaves the count of a known one alone.           *)
LEMMA SnapshotRegisterCounts ==
    ASSUME IInv, CountInv, NEW x \in Servers, NEW n \in ReportedCnt,
           SnapshotRegister(x, n)
    PROVE  CountInv'
<1>1. master' = master /\ slave' = slave
  BY DEF SnapshotRegister
<1>2. CASE UNCHANGED <<servers, vehCnt, base>>
  BY <1>1, <1>2, CountInvNow, CountInvNext DEF Registered
<1>3. CASE /\ x \notin Registered
           /\ servers' = Append(servers, x)
           /\ vehCnt' = [vehCnt EXCEPT ![x] = n]
           /\ base' = [base EXCEPT ![x] = n]
  <2>1. Registered \subseteq Registered'
    <3>1. servers \in Seq(Servers)
      BY DEF IInv, TypeOK
    <3>2. /\ DOMAIN servers \subseteq DOMAIN servers'
          /\ \A i \in DOMAIN servers : servers'[i] = servers[i]
      BY <1>3, <3>1
    <3> QED
      BY <3>2 DEF Registered
  <2>2. vehCnt \in [Servers -> Nat] /\ base \in [Servers -> Nat] /\ n \in Nat
    BY IndexingAssumption DEF IInv, TypeOK
  <2> SUFFICES ASSUME NEW e \in Servers
               PROVE  Counted(e, Registered', NamedIn(master, e), NamedIn(slave, e),
                              vehCnt'[e], base'[e])
    BY <1>1, CountInvNext
  <2>3. /\ IsFiniteSet(NamedIn(master, e)) /\ IsFiniteSet(NamedIn(slave, e))
        /\ e \notin Registered => NamedIn(master, e) = {} /\ NamedIn(slave, e) = {}
        /\ vehCnt[e] = base[e] + Cardinality(NamedIn(master, e))
                               + Cardinality(NamedIn(slave, e))
    BY CountInvNow DEF Counted
  <2>4. CASE e = x
    <3>1. vehCnt'[e] = n /\ base'[e] = n
      BY <1>3, <2>2, <2>4
    <3>2. Cardinality(NamedIn(master, e)) = 0 /\ Cardinality(NamedIn(slave, e)) = 0
      BY <1>3, <2>3, <2>4, FS_EmptySet
    <3> QED
      BY <1>3, <2>2, <2>3, <2>4, <3>1, <3>2 DEF Counted
  <2>5. CASE e # x
    <3>1. vehCnt'[e] = vehCnt[e] /\ base'[e] = base[e]
      BY <1>3, <2>2, <2>5
    <3> QED
      BY <2>1, <2>3, <3>1 DEF Counted
  <2> QED
    BY <2>4, <2>5
<1> QED
  BY <1>2, <1>3 DEF SnapshotRegister

(* With no nodes and no counts the invariant holds.                         *)
LEMMA EmptyCounts ==
    ASSUME None \notin Servers, NEW e \in Servers
    PROVE  NamedIn(NoNodes, e) = {} /\ IsFiniteSet({}) /\ Cardinality({}) = 0
<1>1. NamedIn(NoNodes, e) = {}
  BY DEF NamedIn, NoNodes
<1> QED
  BY <1>1, FS_EmptySet

(* Every handler keeps the counts exact.                                    *)
LEMMA NextKeepsCounts ==
    ASSUME IInv, CountInv, [Next]_vars
    PROVE  CountInv'
<1>1. CASE UNCHANGED routing
  BY <1>1, CountInvNow, CountInvNext DEF routing, Registered
<1>2. CASE \E e \in Servers, n \in ReportedCnt : SnapshotRegister(e, n)
  BY <1>2, SnapshotRegisterCounts
<1>3. CASE \E i \in ForwardItems, t \in Tokens, body \in BOOLEAN : Update(i, t, body)
  <2>1. PICK i \in ForwardItems, t \in Tokens, body \in BOOLEAN : Update(i, t, body)
    BY <1>3
  <2>2. UNCHANGED <<servers, base>>
    BY <2>1 DEF Update
  <2>3. CASE UNCHANGED <<master, slave, vehCnt>>
    BY <1>1, <2>2, <2>3 DEF routing
  <2> QED
    BY <2>1, <2>2, <2>3, AssignBothCounts, AssignSlaveCounts DEF Update, KeepNode
<1>4. CASE Restart
  <2>1. /\ master' = NoNodes /\ slave' = NoNodes
        /\ \A e \in Servers : vehCnt'[e] = 0 /\ base'[e] = 0
    BY <1>4 DEF Restart
  <2> QED
    BY <2>1, EmptyCounts, IndexingAssumption, CountInvNext DEF Counted
<1> QED
  BY <1>1, <1>2, <1>3, <1>4
    DEF Next, VehicleRegister, VehicleRegisterBadType, UpdateUnroutable, RelayReply,
        routing, vars

(* _veh_cnt of every instance is what it reported plus one for each node    *)
(* and role that names it, however updates, late slaves, repeated           *)
(* registrations and restarts follow each other.                            *)
THEOREM CountsAreExact == Spec => []CountMatchesNodes
<1>1. Init => CountInv
  <2> SUFFICES ASSUME Init PROVE CountInv
    OBVIOUS
  <2>1. /\ master = NoNodes /\ slave = NoNodes
        /\ \A e \in Servers : vehCnt[e] = 0 /\ base[e] = 0
    BY DEF Init
  <2> QED
    BY <2>1, EmptyCounts, IndexingAssumption, CountInvNow DEF Counted
<1>2. IInv /\ CountInv => CountMatchesNodes
  <2>1. IInv => Registered \subseteq Servers
    BY DEF IInv, TypeOK, Registered
  <2> QED
    BY <2>1 DEF CountInv, CountMatchesNodes, Counted
<1>3. IInv /\ CountInv /\ [Next]_vars => CountInv'
  BY NextKeepsCounts
<1> QED
  BY <1>1, <1>2, <1>3, IndexingInvariant, PTL DEF Spec

==============================================================================
