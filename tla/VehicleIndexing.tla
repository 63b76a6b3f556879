---------------------------- MODULE VehicleIndexing ----------------------------
(***************************************************************************)
(* One instance of the indexing service (src/mec/vehicle-indexing).  It    *)
(* gives each vehicle an access token, and forwards the updates that carry *)
(* a token to a master and, when there is one, a slave instance of the     *)
(* snapshot service, chosen on the first update and kept from then on.     *)
(* The process is single-threaded; each handler is one action and nothing  *)
(* survives the process.                                                   *)
(*                                                                         *)
(* _status of an endpoint is set to 1 by add_endpoint and never written    *)
(* again, so an endpoint is `invalid' in check_set_service_node only while *)
(* it is null.                                                             *)
(***************************************************************************)
EXTENDS Integers, Sequences, FiniteSets

CONSTANTS
    Vids,           \* vehicle identification numbers
    Tokens,         \* uids: the access tokens messages may carry
    Servers,        \* routing ids of snapshot-service instances
    VehMax,         \* max-vehicle-count of the snapshot service
    ForwardItems,   \* rule entries of type forward or all, one per url
    InternalItems,  \* those of type all, whose messages are also handled here
    ReportedCnt,    \* veh_cnt values a registration may carry
    None            \* a null pointer or an empty string

ASSUME IndexingAssumption ==
    /\ VehMax \in Nat
    /\ ReportedCnt \subseteq Nat
    /\ InternalItems \subseteq ForwardItems
    /\ None \notin Vids \cup Tokens \cup Servers

VARIABLES
    vinTree,      \* vehicle_mgr::_vehicle_vin_tree: the uid of each vid
    uidTree,      \* vehicle_mgr::_vehicle_uid_tree: the vid of each uid
    issued,       \* every uid ever generated: a uuid is never drawn twice
    servers,      \* server_item::_endpoints_list, in list order
    vehCnt,       \* server_endpoint::_veh_cnt
    master,       \* forward_service_node::master of each item and uid
    slave,        \* forward_service_node::slaver
    snapshots,    \* current_snapshot::_curr_snapshot_tree
    out,          \* what the last handler sent
    base          \* history: _veh_cnt when the endpoint was added

vehicles == <<vinTree, uidTree, issued>>
routing == <<servers, vehCnt, master, slave, base>>
vars == <<vehicles, routing, snapshots, out>>

Registered == {servers[i] : i \in DOMAIN servers}

NoNodes == [i \in ForwardItems |-> [t \in Tokens |-> None]]

Init ==
    /\ vinTree = [v \in Vids |-> None]
    /\ uidTree = [t \in Tokens |-> None]
    /\ issued = {}
    /\ servers = <<>>
    /\ vehCnt = [e \in Servers |-> 0]
    /\ master = NoNodes
    /\ slave = NoNodes
    /\ snapshots = {}
    /\ out = [kind |-> "none"]
    /\ base = [e \in Servers |-> 0]

--------------------------------------------------------------------------------
(* Plausible bugs of the indexing code, for mutation runs only.             *)
SnapshotRegisterOverwriting(e, n) ==
    /\ servers' = IF e \in Registered THEN servers ELSE Append(servers, e)
    /\ vehCnt' = [vehCnt EXCEPT ![e] = n]
    /\ base' = IF e \in Registered THEN base ELSE [base EXCEPT ![e] = n]
    /\ out' = [kind |-> "ack", server |-> e]
    /\ UNCHANGED <<vehicles, master, slave, snapshots>>

CandidatesKeepingMaster(excluded, cnt) ==
    {i \in DOMAIN servers : cnt[servers[i]] < VehMax}

CandidatesOnePast(excluded, cnt) ==
    {i \in DOMAIN servers : servers[i] # excluded /\ cnt[servers[i]] <= VehMax}

AssignBothAgain(i, t, m, s) ==
    /\ m \in Registered
    /\ s \in Registered \ {m}
    /\ master' = [master EXCEPT ![i][t] = m]
    /\ slave' = [slave EXCEPT ![i][t] = s]
    /\ UNCHANGED vehCnt

KeepNodeWithoutSlave(i, t, m, s) ==
    /\ master[i][t] = m
    /\ slave[i][t] = s
    /\ m # None
    /\ UNCHANGED <<master, slave, vehCnt>>

--------------------------------------------------------------------------------
(* add_vehicle: a new uid, entered in both trees.                           *)
AddVehicle(v, t) ==
    /\ vinTree' = [vinTree EXCEPT ![v] = t]
    /\ uidTree' = [uidTree EXCEPT ![t] = v]
    /\ issued' = issued \cup {t}

(* A plausible bug: the vin is not looked up first.                         *)
VehicleRegisterAnew(v) ==
    /\ \E t \in Tokens \ issued :
          /\ AddVehicle(v, t)
          /\ out' = [kind |-> "token", vid |-> v, token |-> t]
    /\ UNCHANGED <<routing, snapshots>>

(* vehicle_register: the uid of a known vin is handed out again.            *)
VehicleRegister(v) ==
    /\ \/ /\ vinTree[v] # None
          /\ out' = [kind |-> "token", vid |-> v, token |-> vinTree[v]]
          /\ UNCHANGED vehicles
       \/ /\ vinTree[v] = None
          /\ \E t \in Tokens \ issued :
                /\ AddVehicle(v, t)
                /\ out' = [kind |-> "token", vid |-> v, token |-> t]
    /\ UNCHANGED <<routing, snapshots>>

(* A registration with an unknown object type.                              *)
VehicleRegisterBadType(v) ==
    /\ out' = [kind |-> "error", vid |-> v]
    /\ UNCHANGED <<vehicles, routing, snapshots>>

--------------------------------------------------------------------------------
(* service_request of a snapshot-service instance: add_server_endpoint.     *)
SnapshotRegister(e, n) ==
    /\ \/ /\ e \in Registered
          /\ UNCHANGED <<servers, vehCnt, base>>
       \/ /\ e \notin Registered
          /\ servers' = Append(servers, e)
          /\ vehCnt' = [vehCnt EXCEPT ![e] = n]
          /\ base' = [base EXCEPT ![e] = n]
    /\ out' = [kind |-> "ack", server |-> e]
    /\ UNCHANGED <<vehicles, master, slave, snapshots>>

(* alloc_server_endpoint_to_vehicle: e is the first endpoint of the list    *)
(* with the smallest count below the maximum, other than the one excluded,  *)
(* or null when there is none.                                              *)
Candidates(excluded, cnt) ==
    {i \in DOMAIN servers : servers[i] # excluded /\ cnt[servers[i]] < VehMax}

Allocated(excluded, cnt, e) ==
    \/ /\ Candidates(excluded, cnt) = {}
       /\ e = None
    \/ \E i \in Candidates(excluded, cnt) :
          /\ e = servers[i]
          /\ \A j \in Candidates(excluded, cnt) :
                /\ cnt[servers[i]] <= cnt[servers[j]]
                /\ j < i => cnt[servers[i]] < cnt[servers[j]]

CountUp(cnt, e) == [x \in Servers |-> IF x = e THEN cnt[x] + 1 ELSE cnt[x]]

(* check_set_service_node.  Its last case, a slave without a master, never  *)
(* arises: see SlaveNeedsMaster.                                            *)
AssignBoth(i, t, m, s) ==
    /\ master[i][t] = None
    /\ Allocated(None, vehCnt, m)
    /\ m # None
    /\ Allocated(m, CountUp(vehCnt, m), s)
    /\ master' = [master EXCEPT ![i][t] = m]
    /\ slave' = [slave EXCEPT ![i][t] = s]
    /\ vehCnt' = CountUp(CountUp(vehCnt, m), s)

AssignSlave(i, t, m, s) ==
    /\ master[i][t] = m
    /\ m # None
    /\ slave[i][t] = None
    /\ Allocated(m, vehCnt, s)
    /\ slave' = [slave EXCEPT ![i][t] = s]
    /\ vehCnt' = CountUp(vehCnt, s)
    /\ UNCHANGED master

KeepNode(i, t, m, s) ==
    /\ master[i][t] = m
    /\ slave[i][t] = s
    /\ m # None
    /\ s # None
    /\ UNCHANGED <<master, slave, vehCnt>>

(* handle_internal_change puts the vin in the place of the token, the empty *)
(* string when the token is unknown here; the master gets the message and   *)
(* so does the slave when there is one.                                     *)
Forwarded(i, t, m, s) ==
    [kind |-> "forward", item |-> i, token |-> t, vid |-> uidTree[t],
     master |-> m, slave |-> s]

(* on_request of an entry of type all: current_snapshot::on_recv keeps the  *)
(* payload, when there is one, under the vin of a known token.              *)
KeepSnapshot(i, t, body) ==
    snapshots' = IF i \in InternalItems /\ uidTree[t] # None /\ body
                 THEN snapshots \cup {uidTree[t]}
                 ELSE snapshots

(* forward_to_service for an update that carries token t, from a vehicle or *)
(* from a snapshot service, then on_request: the value forward_to_service   *)
(* returns is never zero for a url with a rule.                             *)
Update(i, t, body) ==
    /\ \/ \E m \in Servers, s \in Servers \cup {None} :
             /\ AssignBoth(i, t, m, s) \/ AssignSlave(i, t, m, s) \/ KeepNode(i, t, m, s)
             /\ out' = Forwarded(i, t, m, s)
       \/ /\ master[i][t] = None
          /\ Allocated(None, vehCnt, None)
          /\ out' = [kind |-> "unserved", item |-> i, token |-> t]
          /\ UNCHANGED <<master, slave, vehCnt>>
    /\ KeepSnapshot(i, t, body)
    /\ UNCHANGED <<vehicles, servers, base>>

(* An update without a token, or a url without a rule: nothing is forwarded *)
(* and on_request finds no vehicle.                                         *)
UpdateUnroutable ==
    /\ out' = [kind |-> "dropped"]
    /\ UNCHANGED <<vehicles, routing, snapshots>>

(* transfer_to_client: an answer of a snapshot service, one that registered *)
(* with an earlier process included, goes back unread.                      *)
RelayReply(e) ==
    /\ out' = [kind |-> "relay", server |-> e]
    /\ UNCHANGED <<vehicles, routing, snapshots>>

(* The process dies, or aborts on the assertion of add_server_endpoint for  *)
(* a service name without configuration, and starts again.                  *)
Restart ==
    /\ vinTree' = [v \in Vids |-> None]
    /\ uidTree' = [t \in Tokens |-> None]
    /\ servers' = <<>>
    /\ vehCnt' = [e \in Servers |-> 0]
    /\ master' = NoNodes
    /\ slave' = NoNodes
    /\ snapshots' = {}
    /\ out' = [kind |-> "none"]
    /\ base' = [e \in Servers |-> 0]
    /\ UNCHANGED issued

Next ==
    \/ \E v \in Vids : VehicleRegister(v) \/ VehicleRegisterBadType(v)
    \/ \E e \in Servers, n \in ReportedCnt : SnapshotRegister(e, n)
    \/ \E i \in ForwardItems, t \in Tokens, body \in BOOLEAN : Update(i, t, body)
    \/ UpdateUnroutable
    \/ \E e \in Servers : RelayReply(e)
    \/ Restart

Spec == Init /\ [][Next]_vars

--------------------------------------------------------------------------------
(* The trees, lists and nodes hold identities of their kind or null.        *)
TypeOK ==
    /\ vinTree \in [Vids -> Tokens \cup {None}]
    /\ uidTree \in [Tokens -> Vids \cup {None}]
    /\ issued \in SUBSET Tokens
    /\ servers \in Seq(Servers)
    /\ vehCnt \in [Servers -> Nat]
    /\ base \in [Servers -> Nat]
    /\ master \in [ForwardItems -> [Tokens -> Servers \cup {None}]]
    /\ slave \in [ForwardItems -> [Tokens -> Servers \cup {None}]]
    /\ snapshots \in SUBSET Vids

(* The two trees of vehicle_mgr describe the same vehicles: the uid a vin   *)
(* maps to maps back to it, the other way round, and was issued here.       *)
TreesAgree ==
    /\ \A v \in Vids : vinTree[v] # None =>
          uidTree[vinTree[v]] = v /\ vinTree[v] \in issued
    /\ \A t \in Tokens : uidTree[t] # None => vinTree[uidTree[t]] = t

(* check_set_service_node never names the same instance twice, so the loss  *)
(* of one instance never takes both copies of a vehicle.                    *)
MasterIsNotSlave ==
    \A i \in ForwardItems, t \in Tokens :
        slave[i][t] # None => slave[i][t] # master[i][t]

(* There is no slave without a master: the branch of check_set_service_node *)
(* that would promote one is dead as long as nothing disables an endpoint.  *)
SlaveNeedsMaster ==
    \A i \in ForwardItems, t \in Tokens :
        slave[i][t] # None => master[i][t] # None

(* alloc_server_endpoint_to_vehicle never takes an instance past            *)
(* max-vehicle-count, two allocations within one message included, unless   *)
(* the instance reported more when it registered.                           *)
CapacityRespected ==
    \A e \in Registered : vehCnt[e] <= VehMax \/ vehCnt[e] = base[e]

(* The nodes, master and slave separately, that name an instance.           *)
MasterOf(e) == {n \in ForwardItems \X Tokens : master[n[1]][n[2]] = e}
SlaveOf(e) == {n \in ForwardItems \X Tokens : slave[n[1]][n[2]] = e}

(* _veh_cnt is exactly what was reported plus one per node and role that    *)
(* names the instance: no increment is lost or made twice across retries,   *)
(* late slaves and repeated registrations.                                  *)
CountMatchesNodes ==
    \A e \in Registered :
        vehCnt[e] = base[e] + Cardinality(MasterOf(e)) + Cardinality(SlaveOf(e))

(* A message goes out without a slave copy only when every other instance   *)
(* was full.                                                                *)
SlaveUnlessFull ==
    out.kind = "forward" /\ out.slave = None =>
        \A e \in Registered : e = out.master \/ vehCnt[e] >= VehMax

(* Once an instance is the master of a vehicle it stays so until the        *)
(* process restarts, and so does its slave.                                 *)
AssignmentSticks ==
    [][\/ servers' = <<>>
       \/ \A i \in ForwardItems, t \in Tokens :
            /\ master[i][t] # None => master'[i][t] = master[i][t]
            /\ slave[i][t] # None => slave'[i][t] = slave[i][t]]_vars

================================================================================
