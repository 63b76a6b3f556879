---------------------------- MODULE VehicleSnapshot ----------------------------
(***************************************************************************)
(* The vehicle side of the snapshot service (snapshot.cpp of               *)
(* src/mec/vehicle-snapshot-service).  Each update of a vehicle goes into  *)
(* its ring of snapshots, moves it to the list of the map link it is on,   *)
(* and is answered by a push with the vehicles around it; subscribers at   *)
(* the center get the same package.  device-snapshot.cpp picks, for a      *)
(* radar frame, the snapshot of every vehicle that fits the frame's time   *)
(* (generate_veh_frame).                                                   *)
(*                                                                         *)
(* One thread handles everything, an update is one step.  Nothing removes  *)
(* a vehicle: remove_snapshot has no caller.  The lists of the links are   *)
(* heads with proper initialization, so membership is all there is to them *)
(* (ListNode shows what the pointers do).                                  *)
(***************************************************************************)
EXTENDS Integers, FiniteSets, FiniteSetsExt

CONSTANTS
    Vehicles,     \* vids
    Places,       \* positions a vehicle may report
    Links,        \* links of the standard definition map
    LinkAt,       \* search_nearest_links: the link of a place, or NoLink
    NextLink,     \* sdmap_link::next, NoLink at the end of a way
    PrevLink,     \* sdmap_link::prev
    NoLink,
    Far,          \* pairs of places more than VEHICLE_MAXDISTANCE apart
    Identities,   \* client identities on the balancer's socket
    Addresses,    \* issued_ipaddr and issued_port of balancers
    NoAddress,    \* neither of them in the message
    Messages,     \* bound: the updates a vehicle may send
    History,      \* VEHICLE_SNAPSHOT_HISTORY_MAX: 20
    Window,       \* the 100 milliseconds of generate_veh_frame
    Word,         \* 2^64: timestamps are unsigned
    MaxTime,      \* bound: timestamps
    MaxRef        \* bound: subscriptions of one vehicle

ASSUME SnapshotAssumption ==
    /\ Places # {} /\ Identities # {}
    /\ LinkAt \in [Places -> Links \cup {NoLink}]
    /\ NextLink \in [Links -> Links \cup {NoLink}]
    /\ PrevLink \in [Links -> Links \cup {NoLink}]
    /\ \A l \in Links : /\ l \notin {NextLink[l], PrevLink[l]}
                        /\ NextLink[l] = PrevLink[l] => NextLink[l] = NoLink
    /\ NoLink \notin Links
    /\ \A p, q \in Places : <<p, q>> \in Far => <<q, p>> \in Far /\ p # q
    /\ Messages \subseteq [vid : Vehicles, place : Places, time : 1..MaxTime,
                           identity : Identities, address : Addresses \cup {NoAddress}]
    /\ History \in Nat \ {0}
    /\ Window \in Nat \ {0}
    /\ Word \in Nat /\ Word > MaxTime
    /\ MaxTime \in Nat /\ MaxRef \in Nat

VARIABLES
    known,        \* _vss_snapshot_tree
    ring,         \* vehicle_snapshot_item::snapshot: the timestamps, 0 if unused
    index,        \* vehicle_snapshot_item::index
    place,        \* the position in the newest snapshot
    list,         \* the vehicles in the list of each link
    peer,         \* identity and address that pushes of a vehicle go to
    request,      \* refcnt of the request items
    seenOn,       \* history: the link of its newest update on the map
    stamps,       \* history: all timestamps of a vehicle
    sender,       \* history: identity and address of its newest message
    moved,        \* history: vehicles that came through two balancers
    out           \* what the last handler sent

histories == <<seenOn, stamps, sender, moved>>
snapshotVars == <<known, ring, index, place, list, peer, request, histories, out>>

Slots == 0..(History - 1)
Nothing == [to |-> {}, center |-> FALSE, around |-> [u \in Vehicles |-> 0]]
NoPeer == [identity |-> CHOOSE i \in Identities : TRUE, address |-> NoAddress]

SnapshotInit ==
    /\ known = {}
    /\ ring = [v \in Vehicles |-> [i \in Slots |-> 0]]
    /\ index = [v \in Vehicles |-> 0]
    /\ place = [v \in Vehicles |-> CHOOSE p \in Places : TRUE]
    /\ list = [l \in Links |-> {}]
    /\ peer = [v \in Vehicles |-> NoPeer]
    /\ request = [v \in Vehicles |-> 0]
    /\ seenOn = [v \in Vehicles |-> NoLink]
    /\ stamps = [v \in Vehicles |-> {}]
    /\ sender = [v \in Vehicles |-> NoPeer]
    /\ moved = {}
    /\ out = Nothing

Newest(v) == ring[v][index[v]]

--------------------------------------------------------------------------------
(* Plausible bugs of the snapshot code, for mutation runs only.             *)
FirstFitOldest(v, fits) == Max(fits)

PeerAfterFirst(v, id, address) ==
    IF v \in known THEN peer[v] ELSE [identity |-> id, address |-> address]

MoveToWithoutLeaving(v, l) == [list EXCEPT ![l] = @ \cup {v}]

--------------------------------------------------------------------------------
(* generate_veh_frame: the snapshot of a vehicle that goes to the fusion    *)
(* service with a radar frame of time endtime; 0 for none.                  *)
LowerEnd(endtime) == (endtime - Window) % Word

(* The loop over the older snapshots, k steps back.                         *)
HistoryFits(v, k, endtime) ==
    LET t == ring[v][(index[v] - k) % History]
    IN  t <= endtime /\ t > LowerEnd(endtime)

FirstFit(v, fits) == Min(fits)

GenerateVehFrame(v, endtime) ==
    LET fits == {k \in 1..(History - 1) : HistoryFits(v, k, endtime)}
    IN  IF endtime = 0 \/ Newest(v) < LowerEnd(endtime) THEN 0
        ELSE IF Newest(v) < endtime THEN Newest(v)
        ELSE IF fits = {} THEN 0
        ELSE ring[v][(index[v] - FirstFit(v, fits)) % History]

--------------------------------------------------------------------------------
(* The identity is stored with every message, the address only with the     *)
(* first one.                                                               *)
PeerAfter(v, id, address) ==
    [identity |-> id, address |-> IF v \in known THEN peer[v].address ELSE address]

IndexAfter(v) == IF v \in known THEN (index[v] + 1) % History ELSE index[v]

(* set_around_vehicle for the lists of the link, the one before and the one *)
(* after it: how often each vehicle is put into the package.  The vehicle   *)
(* itself has been taken out of its list and is not yet in the new one.     *)
Around(v, p, l) ==
    [u \in Vehicles |->
        Cardinality({m \in {l, PrevLink[l], NextLink[l]} \ {NoLink} :
                        u \in list[m] \ {v} /\ <<p, place[u]>> \notin Far})]

MoveTo(v, l) ==
    [m \in Links |-> IF m = l THEN list[m] \cup {v} ELSE list[m] \ {v}]

(* send_to_vehicle needs an address.                                        *)
PushTo(v) == IF peer[v].address = NoAddress THEN {} ELSE {peer[v]}

(* update_snapshot with update_traffic_to_vehilce; what follows it, the     *)
(* junction and Kafka, is DeviceSnapshot and an unconditional send.  The    *)
(* timestamps of one vehicle increase.                                      *)
UpdateSnapshot(v, p, t, id, address) ==
    /\ \A x \in stamps[v] : t > x
    /\ known' = known \cup {v}
    /\ index' = [index EXCEPT ![v] = IndexAfter(v)]
    /\ ring' = [ring EXCEPT ![v][IndexAfter(v)] = t]
    /\ place' = [place EXCEPT ![v] = p]
    /\ peer' = [peer EXCEPT ![v] = PeerAfter(v, id, address)]
    /\ LET l == LinkAt[p]
       IN  /\ list' = IF l = NoLink THEN list ELSE MoveTo(v, l)
           /\ out' = [to |-> PushTo(v)', center |-> request[v] > 0,
                      around |-> IF l = NoLink THEN Nothing.around ELSE Around(v, p, l)]
    /\ seenOn' = [seenOn EXCEPT ![v] = IF LinkAt[p] = NoLink THEN @ ELSE LinkAt[p]]
    /\ stamps' = [stamps EXCEPT ![v] = @ \cup {t}]
    /\ sender' = [sender EXCEPT ![v] = [identity |-> id, address |-> address]]
    /\ moved' = IF v \in known /\ sender[v].address # address THEN moved \cup {v} ELSE moved
    /\ UNCHANGED request

(* on_request without an access token: an error is pushed to the sender of  *)
(* the message, and nothing is kept.                                        *)
SendErrorReason(id, address) ==
    /\ out' = [Nothing EXCEPT !.to = IF address = NoAddress THEN {}
                                     ELSE {[identity |-> id, address |-> address]}]
    /\ UNCHANGED <<known, ring, index, place, list, peer, request, histories>>

(* send_to_vehicle as the junction side calls it, at any later time.        *)
SendJunction(v) ==
    /\ v \in known
    /\ out' = [Nothing EXCEPT !.to = PushTo(v)]
    /\ UNCHANGED <<known, ring, index, place, list, peer, request, histories>>

(* request_snapshot for a vehicle id of a message of the center, and        *)
(* remove_all_request when the link to it breaks.                           *)
RequestSnapshot(v, subscribe) ==
    /\ subscribe => request[v] < MaxRef
    /\ ~ subscribe => request[v] > 0
    /\ request' = [request EXCEPT ![v] = IF subscribe THEN @ + 1 ELSE @ - 1]
    /\ out' = Nothing
    /\ UNCHANGED <<known, ring, index, place, list, peer, histories>>

RemoveAllRequest ==
    /\ request' = [v \in Vehicles |-> 0]
    /\ out' = Nothing
    /\ UNCHANGED <<known, ring, index, place, list, peer, histories>>

SnapshotNext ==
    \/ \E m \in Messages :
           UpdateSnapshot(m.vid, m.place, m.time, m.identity, m.address)
    \/ \E id \in Identities, address \in Addresses \cup {NoAddress} :
           SendErrorReason(id, address)
    \/ \E v \in Vehicles : SendJunction(v)
    \/ \E v \in Vehicles, s \in BOOLEAN : RequestSnapshot(v, s)
    \/ RemoveAllRequest

SnapshotSpec == SnapshotInit /\ [][SnapshotNext]_snapshotVars

--------------------------------------------------------------------------------
Peers == [identity : Identities, address : Addresses \cup {NoAddress}]

(* The values of the rings, lists and peers: the index stays inside the     *)
(* ring of snapshots.                                                       *)
SnapshotTypeOK ==
    /\ known \in SUBSET Vehicles
    /\ ring \in [Vehicles -> [Slots -> Nat]]
    /\ index \in [Vehicles -> Slots]
    /\ place \in [Vehicles -> Places]
    /\ list \in [Links -> SUBSET Vehicles]
    /\ peer \in [Vehicles -> Peers]
    /\ request \in [Vehicles -> Nat]
    /\ seenOn \in [Vehicles -> Links \cup {NoLink}]
    /\ stamps \in [Vehicles -> SUBSET Nat]
    /\ sender \in [Vehicles -> Peers]
    /\ moved \in SUBSET Vehicles

(* The snapshots of a vehicle that its ring still has to hold: the newest   *)
(* History of all it ever sent.                                             *)
Recent(v) ==
    {t \in stamps[v] : Cardinality({x \in stamps[v] : x > t}) < History}

(* Whatever the time of a radar frame and however often the ring has        *)
(* wrapped, generate_veh_frame takes a recent snapshot of the vehicle that  *)
(* is not after the frame and not older than the window, and misses none    *)
(* that lies between: the one it takes is at least as new as each of those. *)
FrameFits ==
    \A v \in known, e \in Window..MaxTime :
        LET t == GenerateVehFrame(v, e)
            inside == {x \in Recent(v) : e - Window < x /\ x < e}
        IN  /\ t # 0 => t \in Recent(v) /\ t \in (e - Window)..e
            /\ \A x \in inside : t >= x

(* The rings stay within their bounds and always yield the right snapshot.  *)
RingInv == SnapshotTypeOK /\ FrameFits

(* A package never shows a vehicle to itself, and shows each other vehicle  *)
(* exactly once if its newest update on the map was on the same link or one *)
(* next to it and it is near now, although the package is put together from *)
(* the lists of three links that vehicles move between, and a vehicle that  *)
(* leaves the map stays in the list of the link it was seen on.             *)
AroundExact ==
    [][\A u, v \in Vehicles :
          stamps'[v] # stamps[v] /\ LinkAt[place'[v]] # NoLink =>
              LET l == LinkAt[place'[v]]
                  shown == /\ u # v
                           /\ seenOn[u] \in {l, PrevLink[l], NextLink[l]} \ {NoLink}
                           /\ <<place'[v], place[u]>> \notin Far
              IN  out'.around[u] = IF shown THEN 1 ELSE 0]_snapshotVars

(* Pushes for a vehicle go to the identity of its newest message, in every  *)
(* handler, if all its messages came through the same balancer.             *)
PushesReachVehicle ==
    \A v \in known \ moved : PushTo(v) \subseteq {sender[v]}

================================================================================
