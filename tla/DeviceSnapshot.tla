---------------------------- MODULE DeviceSnapshot ----------------------------
(***************************************************************************)
(* The junction side of the snapshot service (device-snapshot.cpp of       *)
(* src/mec/vehicle-snapshot-service).  Roadside units send packages of     *)
(* radar frames for a junction; every frame accepted is sent to the fusion *)
(* service together with the vehicles at the junction, and what the fusion *)
(* service answers goes to those vehicles, to the subscribers at the       *)
(* center and to Kafka.  The vehicles at a junction are an intrusive list, *)
(* junction_info::veh_list, that vehicle updates thread themselves into.   *)
(*                                                                         *)
(* One thread handles everything.  A package is handled frame by frame,    *)
(* and nothing else happens until it is through (todo).  The high          *)
(* definition map is loaded, so junctions can be searched.  veh_prev_list  *)
(* is initialized and walked along with veh_list but nothing is ever added *)
(* to it; it is left out.                                                  *)
(***************************************************************************)
EXTENDS Integers, Sequences, FiniteSets, ListNode

CONSTANTS
    Junctions,    \* junction ids: the uid of a package
    Vehicles,     \* vehicle_snapshot_item objects
    Devices,      \* radar ids
    DevicesOf,    \* the radars each junction's packages carry
    Nowhere,      \* farther than 100 m from every junction
    Null,         \* the null pointer
    MaxTime,      \* bound: timestamps
    MaxPackage,   \* bound: frames in a package
    MaxFlight,    \* bound: requests at the fusion service
    Cacher,       \* DEVICE_SNAPSHOT_CACHER: 4096
    MaxRef        \* bound: subscriptions of one id

ASSUME DeviceAssumption ==
    /\ Junctions \cap Vehicles = {}
    /\ DevicesOf \in [Junctions -> SUBSET Devices] /\ IsFiniteSet(Devices)
    /\ Nowhere \notin Junctions
    /\ Null \notin Junctions \cup Vehicles
    /\ Cacher \in Nat \ {0}
    /\ MaxTime \in Nat /\ MaxPackage \in Nat /\ MaxFlight \in Nat /\ MaxRef \in Nat

Nodes == Junctions \cup Vehicles

VARIABLES
    up,           \* the process has not died on a null pointer
    junctions,    \* _device_junction_tree
    devices,      \* device_tree of each junction
    last,         \* timestamp of the newest frame of each device, 0 for none
    list,         \* the pointers of veh_list and junctionownerlist nodes
    todo,         \* the package in hand: its junction and the frames left
    flight,       \* requests at the fusion service, oldest first
    index,        \* device_junction_item::index
    info,         \* device_junction_item::info: timestamps of fusion results
    request,      \* refcnt of the request items of junctions and devices
    at,           \* history: where the last update of a vehicle placed it
    out           \* what the last handler sent

tables == <<junctions, devices, last>>
fusion == <<flight, index, info>>
vars == <<up, tables, list, todo, fusion, request, at, out>>

Idle == up /\ todo = <<>>
Nothing == [to |-> {}, stamp |-> 0]

NoDevices == [j \in Junctions |-> {}]
NoFrames == [j \in Junctions |-> [d \in Devices |-> 0]]
NoList == [x \in Nodes |-> IF x \in Junctions THEN Null ELSE x]
NoLists == [next |-> NoList, prev |-> NoList]
NoInfo == [j \in Junctions |-> [i \in 0..(Cacher - 1) |-> 0]]

Init ==
    /\ up = TRUE
    /\ junctions = {} /\ devices = NoDevices /\ last = NoFrames
    /\ list = NoLists
    /\ todo = <<>>
    /\ flight = <<>> /\ index = [j \in Junctions |-> 0] /\ info = NoInfo
    /\ request = [x \in Junctions \cup Devices |-> 0]
    /\ at = [v \in Vehicles |-> Nowhere]
    /\ out = Nothing

Dies ==
    /\ up' = FALSE
    /\ UNCHANGED <<tables, list, todo, fusion, request, at, out>>

--------------------------------------------------------------------------------
(* Plausible bugs of the junction code, for mutation runs only.             *)
UpdateToJunctionKeepingOld(v, w) ==
    IF w \in junctions THEN listnode_add(list, w, v) ELSE list

NewDeviceHalf(j) == [list EXCEPT !.next[j] = j]

FrameIsNewIfNotOlder(j, d, t) == d \notin devices[j] \/ t >= last[j][d]

ResultIndexAhead(j) == index'[j]

--------------------------------------------------------------------------------
(* update_to_junction, at the end of every vehicle update: the vehicle      *)
(* leaves the list it is in and joins that of the nearest junction, if      *)
(* one is near and has ever sent a package.                                 *)
UpdateToJunction(v, w) ==
    LET alone == listnode_del(list, v)
    IN  IF w \in junctions THEN listnode_add(alone, w, v) ELSE alone

(* A junction whose packages have carried no frame so far has no list:      *)
(* its pointers are null.                                                   *)
VehicleUpdate(v, w) ==
    /\ Idle
    /\ IF w \in junctions /\ list.prev[w] = Null
       THEN Dies
       ELSE /\ list' = UpdateToJunction(v, w)
            /\ at' = [at EXCEPT ![v] = IF w \in junctions THEN w ELSE Nowhere]
            /\ out' = Nothing
            /\ UNCHANGED <<up, tables, todo, fusion, request>>

--------------------------------------------------------------------------------
(* update_snapshot: check_create_junction_item, then the frames in turn.    *)
UpdateSnapshot(j, frames) ==
    /\ Idle
    /\ junctions' = junctions \cup {j}
    /\ todo' = IF frames = <<>> THEN <<>> ELSE <<j, frames>>
    /\ out' = Nothing
    /\ UNCHANGED <<up, devices, last, list, fusion, request, at>>

(* check_create_device_item: a device that is seen for the first time       *)
(* initializes the junction's list of vehicles, whatever it holds.          *)
NewDevice(j) == listnode_init(list, j)

(* add_device_info: the first frame of a device is taken, a later one only  *)
(* if it is newer than the last.                                            *)
FrameIsNew(j, d, t) == d \notin devices[j] \/ t > last[j][d]

(* A frame that is not new ends the whole package.  update_fusion_data: a   *)
(* new frame and the vehicles of the junction go to the fusion service, and *)
(* the frame goes to the center at once if its device is subscribed to.     *)
HandleFrame ==
    /\ up
    /\ todo # <<>>
    /\ LET j == todo[1]
           d == todo[2][1][1]
           t == todo[2][1][2]
           rest == Tail(todo[2])
           left == IF FrameIsNew(j, d, t) THEN rest ELSE <<>>
       IN  /\ todo' = IF left = <<>> THEN <<>> ELSE <<j, left>>
           /\ devices' = [devices EXCEPT ![j] = @ \cup {d}]
           /\ list' = IF d \in devices[j] THEN list ELSE NewDevice(j)
           /\ IF FrameIsNew(j, d, t)
              THEN /\ last' = [last EXCEPT ![j][d] = t]
                   /\ flight' = Append(flight,
                                   [junction |-> j, stamp |-> t,
                                    vehicles |-> Walk(list', j)])
                   /\ out' = [to |-> IF request[d] > 0 THEN {d} ELSE {}, stamp |-> t]
              ELSE /\ UNCHANGED <<last, flight>>
                   /\ out' = Nothing
    /\ UNCHANGED <<up, junctions, index, info, request, at>>

--------------------------------------------------------------------------------
(* The slot of the result just written, as the senders compute it after the *)
(* index has moved on.                                                      *)
ResultIndex(j) == (index'[j] + Cacher - 1) % Cacher

(* on_request_reply: the answer to the oldest request.  The junction is     *)
(* found, because only a junction's own package makes a request.            *)
OnRequestReply ==
    /\ Idle
    /\ flight # <<>>
    /\ LET j == Head(flight).junction
           t == Head(flight).stamp
       IN  /\ info' = [info EXCEPT ![j][index[j]] = t]
           /\ index' = [index EXCEPT ![j] = (@ + 1) % Cacher]
           /\ out' = [to |-> Walk(list, j) \cup (IF request[j] > 0 THEN {j} ELSE {}),
                      stamp |-> info'[j][ResultIndex(j)]]
    /\ flight' = Tail(flight)
    /\ UNCHANGED <<up, tables, list, todo, request, at>>

(* An answer without data, or none at all because the fusion service has    *)
(* gone: nothing is retried.                                                *)
ReplyIsLost ==
    /\ Idle
    /\ flight # <<>>
    /\ flight' = Tail(flight)
    /\ out' = Nothing
    /\ UNCHANGED <<up, tables, list, todo, index, info, request, at>>

--------------------------------------------------------------------------------
(* request_junction and request_device, called for every id of a message    *)
(* of the center, and remove_all_request, when the link to it breaks.       *)
RemoveRequestItem(x) == IF request[x] > 0 THEN request[x] - 1 ELSE 0

Request(x, subscribe) ==
    /\ Idle
    /\ subscribe => request[x] < MaxRef
    /\ request' = [request EXCEPT ![x] = IF subscribe THEN @ + 1 ELSE RemoveRequestItem(x)]
    /\ out' = Nothing
    /\ UNCHANGED <<up, tables, list, todo, fusion, at>>

RemoveAllRequest ==
    /\ Idle
    /\ request' = [x \in DOMAIN request |-> 0]
    /\ out' = Nothing
    /\ UNCHANGED <<up, tables, list, todo, fusion, at>>

(* A new process has empty tables.                                          *)
Restart ==
    /\ ~ up
    /\ up' = TRUE
    /\ junctions' = {} /\ devices' = NoDevices /\ last' = NoFrames
    /\ list' = NoLists
    /\ todo' = <<>>
    /\ flight' = <<>> /\ index' = [j \in Junctions |-> 0] /\ info' = NoInfo
    /\ request' = [x \in DOMAIN request |-> 0]
    /\ at' = [v \in Vehicles |-> Nowhere]
    /\ out' = Nothing

Packages(j) ==
    UNION {[1..n -> DevicesOf[j] \X (1..MaxTime)] : n \in 0..MaxPackage}

Next ==
    \/ \E v \in Vehicles, w \in Junctions \cup {Nowhere} : VehicleUpdate(v, w)
    \/ \E j \in Junctions : \E frames \in Packages(j) :
           /\ Len(flight) + Len(frames) <= MaxFlight
           /\ UpdateSnapshot(j, frames)
    \/ HandleFrame
    \/ OnRequestReply
    \/ ReplyIsLost
    \/ \E x \in Junctions \cup Devices, s \in BOOLEAN : Request(x, s)
    \/ RemoveAllRequest
    \/ Restart

Spec == Init /\ [][Next]_vars

--------------------------------------------------------------------------------
(* The values of the tables, of the list pointers and of the ring index:     *)
(* in particular no unsubscribe takes a count of subscribers below zero.     *)
TypeOK ==
    /\ up \in BOOLEAN
    /\ junctions \subseteq Junctions
    /\ devices \in [Junctions -> SUBSET Devices]
    /\ last \in [Junctions -> [Devices -> Nat]]
    /\ list \in [next : [Nodes -> Nodes \cup {Null}], prev : [Nodes -> Nodes \cup {Null}]]
    /\ index \in [Junctions -> 0..(Cacher - 1)]
    /\ info \in [Junctions -> [0..(Cacher - 1) -> Nat]]
    /\ request \in [Junctions \cup Devices -> Nat]
    /\ at \in [Vehicles -> Junctions \cup {Nowhere}]

Listed == {j \in Junctions : devices[j] # {}}

(* The pointers of the lists stay consistent: the walks end, a vehicle is   *)
(* in one list only, and listnode_del of a vehicle takes out that vehicle   *)
(* and no other.  It is so when each junction has a single radar.           *)
ListsWellLinked == WellLinked(list, Listed \cup Vehicles)

(* Every vehicle whose last update placed it at a junction is sent what     *)
(* the fusion service finds there, and no other vehicle is.                 *)
ReachesVehiclesAtJunction ==
    \A j \in Listed : Walk(list, j) = {v \in Vehicles : at[v] = j}

(* The loops over the list of a junction end, so that the one thread of the *)
(* service never hangs in them.  With a second radar it can: a list that is *)
(* initialized while it holds vehicles may come to a cycle without a head.  *)
WalksEnd == \A j \in Listed : WalkEnds(list, j)

(* With one radar at each junction the tables and the pointers of the lists *)
(* are in order in every state.                                             *)
ListsInv == TypeOK /\ ListsWellLinked /\ WalksEnd

(* Only a junction that has never sent a frame can take the process down.   *)
DiesOnlyWithoutList == ~ up => \E j \in junctions : devices[j] = {}

(* What is sent on is the fusion result that has just arrived, when the     *)
(* ring of results wraps as well.                                           *)
SendsWhatArrived ==
    [][flight # <<>> /\ flight' = Tail(flight) /\ out' # Nothing
         => out'.stamp = Head(flight).stamp]_vars

(* Requests of one device go to the fusion service in the order of their    *)
(* timestamps, although packages repeat and reorder frames.                 *)
RequestsInOrder ==
    \A i, k \in DOMAIN flight :
        i < k /\ flight[i].junction = flight[k].junction
              /\ Cardinality(DevicesOf[flight[i].junction]) = 1
            => flight[i].stamp < flight[k].stamp

================================================================================
