# A TLA+ model of the V2I edge cloud

TLA+ specifications of the services under `src/mec`, TLC configurations that
check them on small instances, and theorems about them checked by TLAPS.
Paths below are relative to `src/`.

## The system

The repository has two halves. `modules` localises a vehicle to a lane (a hidden
Markov model, time-to-collision and gap warnings): floating-point code with
little state. `mec` is the edge cloud those results travel through, and it is
the part with protocol state:

    vehicles --> load-balance --> indexing service (N) --> snapshot service (M)
        ^            |   ^              |     ^              |    ^     ^
        |            |   |              |     |              |    |     |
        +------------+   +-- pushes ----+-----|--------------+  fusion  Kafka:
                                        |     |                service  lights
                                   RabbitMQ: the center

Each service is a process with one handler thread (`sock-thread-maxcnt` is 1): a
ZeroMQ poll loop that runs one handler to completion before the next, and a
timer wheel on the same thread. The snapshot service has a Kafka thread
beside it. Nothing is persisted.

| Component | State | Operations | Interacts with |
|---|---|---|---|
| load-balance (`mec/load-balance`) | services with their endpoint lists and counts, url rules bound lazily, client identities | client message, service message (request, register, reply), push on the distribute socket | vehicles, indexing instances, snapshot services |
| vehicle indexing, forwarding (`mec/vehicle-indexing`: `vehicle-mgr`, `server-endpoint-mgr`, `forward*`) | the vin and uid trees, snapshot instances with `_veh_cnt`, a master and slave per url and uid, the current snapshots | vehicle registration, instance registration, update, relay of replies | the balancer, snapshot services |
| vehicle indexing, center link (`indexing-rabbitmq`, `current-snapshot`) | two RabbitMQ connections, their retry timers, reference-counted requests | consume, publish, reconnect | the broker, the center |
| snapshot service, vehicles (`snapshot.cpp`) | a ring of snapshots for each vehicle, vehicle lists of map links, push addresses, requests | update, push, subscribe | indexing, balancer, center |
| snapshot service, junctions (`device-snapshot.cpp`) | junctions, radars, intrusive lists of vehicles at a junction, a ring of fusion results | radar package, fusion answer, subscribe | fusion service, vehicles, center |
| snapshot service, targets (`fusion-improver.cpp`, `vehicle-planning.cpp`) | three maps of targets, lane lists, counts, a copy of the lights | one frame | the two above |
| Kafka consumer (`kafka-consumer.cpp`) | lights, who uses them, a flag for each junction | light message, add light, read lights | another thread |
| web core, requests (`zsfd/webcore/webapp.cpp`) | requests, socket items, sequence numbers, the pending response | create, send, remove, respond, receive | every service |
| web core, poll loop (`zsfd/webcore/backend-zmq.cpp`) | slots, free list, tree of items | add, release, poll, dispatch | every service |
| timer wheel (`zsfd/utils/timer.cpp`) | five rings of slots, `jiffies`, `timer_jiffies` | start, stop, restart, `periodic_runner` | every service, by callbacks |
| fusion service, maps, localisation, rest of `zsfd` | caches, geometry, filters | | see Not modelled |

What is hard here: instances join, restart and repeat their registration while
messages are dispatched; counts reset and saturate; a token can be older than
the process that sees it; the broker, each connection and the channel fail
separately and two mechanisms reconnect; handlers and timer callbacks change
the array, the list or the ring that is being walked; intrusive lists are
initialised, left and joined in any order; answers come late, twice or never; a
second thread changes the lights. `PROJECT.json` lists these hazards with their
lines.

What makes each component correct:

* load-balance: every instance gets its share, whatever the order of
  registrations and resets; a bound rule can be routed; one entry per instance.
* indexing: the two trees agree; both copies of a vehicle are on different
  instances and stay there; capacity is respected and counted exactly.
* center link: somebody always drives the connection, and only one; no
  subscription outlives its subscriber; both connections come back.
* snapshot service: a vehicle is shown the vehicles near it, once each; the
  snapshot chosen for a radar frame is the right one; fusion results reach the
  vehicles at the junction; a target is in one map, its count entries agree, and
  it enters on a light that permits it.
* web core: a response goes to the caller it is for, an answer is handled once,
  freed memory is left alone unless a handler breaks the rule stated below; no
  event is lost or given to another item.
* timer wheel: a timer goes off in exactly the tick computed for it, and always.
* the composition: no vehicle is taken for another one, and after a failure
  service resumes as far as the code provides for it.

## Modules and the code

`PROJECT.json` maps every definition to its lines. Operators under "plausible
bugs" are mutations of a definition that follows them; no specification uses
them. The `MC*` modules hold values of constants and symmetry sets.

### Dispatcher, LoadBalance

`Dispatcher` is what the balancer promises: a message with a rule goes to some
registered instance of the rule's service whenever there is one. It has no lists,
counts or bindings. `LoadBalance` is the program: `items`, `endpoints` and `count`
are the server tree, each service's endpoint list in order and
`server_endpoint::_count`; `bound` is the set of rules whose `service` pointer has
been filled in; `clients` is the client tree; `out` records where the last handler
sent its message; `bypass` is a history variable.

| Action | Code |
|---|---|
| `TransferToServer`, `TransferMalformed` | a message on the client socket (`forward.cpp`, `forward_arbitrate.cpp`) |
| `ServiceRequest`, `ServiceMalformed`, `ServiceRegister`, `RegisterNameless`, `RelayReply` | requests, registrations and replies on the service socket |
| `DistributeMsg` | a push on the distribute socket |
| `RegisterUnconfigured` | the assertion of `add_server_endpoint` aborts the process |
| `Crash`, `Restart` | the process dies and starts again with empty tables |

`Dispatch` is `get_service_endpoint`: the first endpoint with the smallest count,
whose count is raised; reaching max-count clears all counts of the service. The
null endpoint of a service without any is `SendToNobody`, which the proof shows is
never taken. The endpoint status is written once and the `remove_*` functions have
no caller, so neither is state. `RefinesDispatcher` says that `LoadBalance`
implements `Dispatcher`: the pool of a service is the set of its list, and the rule
of a url is the last entry with that url.

### VehicleIndexing

`vinTree` and `uidTree` are the two trees of `vehicle_mgr`; `issued` keeps every
uid ever drawn, since a uuid is not drawn twice, also across restarts. `servers`
and `vehCnt` are the endpoint list of the snapshot service; `master` and `slave`
are the `forward_service_node` of each rule entry and token. `Update` is
`forward_to_service` with `check_set_service_node` (`AssignBoth`, `AssignSlave`,
`KeepNode`), the exchange of the token for the vin, and the local `on_request` that
keeps a snapshot. A message may carry a token that this process never issued. The
account part of a token and the contents of a snapshot are left out.

### CenterLink

`conn`, `fd` and `timer` are the consuming connection, its place in the poll set
and its retry timer; `pconn` and `ptimer` the producing side; `requests` the
reference counts of `current_snapshot`. The broker, the rabbitmq-c library and the
center are external: `BrokerDown`, `BrokerUp`, `Disconnect`, `Center`. The queue is
declared auto-delete, so what is sent without a consumer is lost. An attempt to
connect succeeds exactly when the broker can be reached. `OnConsumeLost` is the
library error (ENOTCONN), `OnConsumeChannelClosed` the server exception (ELOGIC).

### AlarmClock, TimerWheel

`AlarmClock` is what the timers promise: an alarm rings in the tick it is set for,
once, unless it is set anew or cancelled, and no tick ends with an alarm of it left.
`TimerWheel` is the program. The sizes of the rings are parameters (256 and 64 slots
in the source, 4 and 2 in the run), and so is the weight of the sign bit that
`get_timer_list` looks at. `RefinesAlarmClock` says that the wheel implements
`AlarmClock`: the alarm of a timer is its `expire` while it is in a list; a timer
whose interval reaches the sign bit is one of which nothing is promised. `slot` says which list each timer is in. `periodic_runner` is cut into the steps
between which user code runs: the loop over the elapsed ticks (`StepRun`), moving
rings down (`RunTimerList`), unlinking and calling one timer (`RunTimer`), the
return of its callback, and the next tick (`Advance`). Between them, in handlers
and in callbacks, any timer may be started, stopped or restarted, and the clock
advances (`Elapse`). The order of timers within a slot is left open.

### ListNode, DeviceSnapshot

`ListNode` is `list.h`: `next` and `prev` as functions, `listnode_init`, `_add` and
`_del` as the pointer assignments they are. `Walk` is the set of nodes a loop over a
list visits, stated without recursion: the nodes that are in every set which holds
the node after the head and, with any node but the head, the one after it
(`ClosedFrom`). A loop ends if the head is among them (`WalkEnds`).
`DeviceSnapshot` keeps the junction lists in it. `VehicleUpdate` is the end of a
vehicle update, which moves the vehicle to the list of the nearest junction;
`UpdateSnapshot` and `HandleFrame` are a radar package and each frame in it;
`OnRequestReply` and `ReplyIsLost` the answer of the fusion service, an external one.
A junction item that never had a frame has null pointers: a vehicle near it takes
the process down (`Dies`). `at` is a history variable.

### VehicleSnapshot

`UpdateSnapshot` is the whole update of a vehicle: ring, link list, identity,
answer with the vehicles around, copy for the center. `GenerateVehFrame` is the
search for the snapshot that fits a radar frame, with the subtraction of unsigned
timestamps modulo `Word`. The map is a constant: which link a place is on, which
links follow, which places are far apart. Nothing removes a vehicle;
`remove_snapshot` has no caller.

Two assumptions about the inputs are the environment's, not the code's. The
timestamps of one vehicle strictly increase: the update (`snapshot.cpp:95-146`)
stores what it is given and checks nothing, so with a repeated or an older timestamp
`RingInv` is not claimed. And radar frames have timestamps of at least `Window`: below
it the unsigned subtraction wraps, which is modelled but not exercised.

### LightState, TargetTracking, JunctionImprover

`LightState` is `vss_light_mgr` with its two threads; each operation holds the mutex
throughout and is one step. `TargetTracking` is the life of a radar target through
`_fn_planning`, `_fj_planning` and `_fm_planning`, one answer of the fusion service at
a time. Geometry is an input: where a target is found, how far it gets, whether
it may enter, and whether the lane and the road it passes are listed in
`count_info`. `incom_lanes` does not list every entry lane, also in the shipped
configuration, so that a target may be counted out and not in; the entry for its way
out then names no approach. `JunctionImprover` composes them: a frame renews the copy of the
lights if the flag is up, and a target at the stop line enters only by a lane that
this copy permits, or one without a light. What happens after the copy touches
nothing the Kafka thread uses, so that the frame is one step.

### WebappDispatch, PollerItems

`WebappDispatch` is `webapp_socket_dispatch`: tables of requests (`reqItems`), of
connections (`sockItems`) and of answers awaited (`table`), the `pending` response, and
the handler that runs (`frame`). Inside a handler the service may create, send and
remove requests and respond. Peers may answer late, twice or never, also to an
earlier life of the process; `RoutingId` is the identity of the socket in each
life, the same one with a configured name, which is how every service is deployed
and what the run has. Handlers are unrestricted (`UserCode`). `dispatch` calls
`on_finish` on the sender after `on_reply` has returned, and releases the item if there is a
request at the sender's address. An `on_reply` that deletes the request it answers, as
`zsfd/test/webcore/webapptest/webapptest.cpp:67` does, therefore makes it touch freed
memory, and so does a handler that deletes the request and creates another that
the allocator puts at its address. `misused` records either, `crashed` that freed memory
was touched; what follows is open: the process dies, or goes on with what
the memory holds, which may be another item. `SafeUnlessMisused` says that these are the only two ways. `PollerItems` is the array `zmq::poll` works on, its free list and the walk of
`dispatch`, with handlers that add and release items in between. A new slot's
`revents` is not initialised and takes any value. A handler of a socket and one of a
descriptor are the same here.

### EdgeCloud

Vehicles, the balancer as `Dispatcher` and several indexing instances, reduced to
the token each has for a vehicle. A vehicle sends to whichever instance the
balancer picks; an instance answers a registration with a token of its own and
forwards an update in the name it finds for the token. It skips an update without
a token, and one for which no snapshot instance can be assigned: `backed` are the
instances behind which there is room, and comes and goes as it likes
(`SnapshotJoins`, `SnapshotFills`); without room an assignment made earlier may still
serve. Balancer and instances crash and restart; an instance registers once, when it starts; what is on its way
to a dead process is lost. Tables of an instance start empty, which is the same as
emptying them when it dies.

## Runs

| Run | Instance | Shows |
|---|---|---|
| `lb` | 3 endpoints, max-count 4, a rule entry overwritten by a later one, an unconfigured name, fairness | `BoundedBypass`; the inductive invariant `IInv`; `RefinesDispatcher`; `EveryEndpointServed` |
| `indexing` | 2 vehicles, 2 tokens, 3 instances, capacity 2, two urls, reported counts 0 and 3 | consistency of trees, copies, counts and capacity; `SlaveUnlessFull`; `AssignmentSticks` |
| `center_link` | 2 vehicles, 2 subscribers of each, 3 waiting messages, fairness | `ConsumerDriven`, `NoStaleRequest`, `ConsumerRecovers`, `ProducerRecovers` |
| `timer_wheel` | a timer with 14 intervals on both sides of every ring boundary over 140 ticks, and a second one with 4 started in the first 14, the loop up to 2 ticks late | `WheelInv` (nothing overdue, indexes in step), `RefinesAlarmClock` |
| `device_snapshot` | 2 junctions with a radar each, 2 vehicles, packages of up to 2 frames, a ring of 2 results | `ListsInv`, `ReachesVehiclesAtJunction`, `DiesOnlyWithoutList`, `RequestsInOrder`, `SendsWhatArrived` |
| `device_snapshot_two` | 1 junction with 2 radars | violation of `ReachesVehiclesAtJunction`, see Finding |
| `vehicle_snapshot` | 2 vehicles, 3 links, a place off the map, a ring of 3, 2 identities, 2 balancers | `RingInv`, `AroundExact`, `PushesReachVehicle` |
| `junction_improver` | 2 junctions that share a light, 1 target with every geometry, listed and unlisted lanes, fairness | `CopyIsCurrent`, `TrackingInv`, `CountsAgree`, `EntersByCurrentLight`, `ChangeIsSeen` |
| `webapp_dispatch` | 2 requests on one connection, 3 callers of which one wants no answer, 2 lives, a configured name | `ResponsesReachCaller`, `SafeUnlessMisused`, `HandledOnce` |
| `poller_items` | 3 items, one of which waits for output only, 4 slots, fairness | `PollerInv`, `NoStaleEvent`, `EventsServed` |
| `edge_cloud` | 2 vehicles, 2 instances, 2 tokens, two crashes | `IInv`, `NeverMisattributed` |
| `edge_cloud_live` | 1 vehicle, 2 instances, 3 tokens, one crash of the balancer or an instance, fairness | `IdentifiedAgain`, `PushesResume` |

### Bounds

Three endpoints and a max-count of 4 are the least at which an endpoint can be
passed over by an earlier and by a later one, with a late joiner catching up
across a reset; that services do not disturb each other is left to the proof.
Capacity 2 with two urls lets one message fill an instance and the next find none;
a reported count of 3 is above capacity. Three queued messages allow a subscribe,
its unsubscribe and another subscribe around a failure. With rings of 4 and 2 slots the
wheel holds 64 ticks, so 140 are more than two turns of every ring; intervals
include 1 and the two sides of 4, 8, 16, 32 and the sign bit at 64. Two vehicles and
two lists are what one needs for a node that is deleted from the wrong list. A
snapshot ring of 3 with 7 timestamps wraps, has unused slots at first and holds
snapshots on both sides of the window; `Messages` limits what the two vehicles send.
Two steps of 6 and 13 against an age limit of 12 reach it exactly, in two frames and
in one. One target suffices for the run because targets do not touch each other's
items; the proof covers any number. Two requests on one connection let one be
removed while the answer to the other is handled. Four slots for three items leave
a slot to be reused while another is new. In `edge_cloud_live` a crash makes
three lives of instances at most, and with three tokens none of them runs out. Both ways to
a token that is no use happen: the only instance dies and comes back with empty tables,
or the balancer restarts and only one instance starts after it, while the vehicle holds, or
is about to get, a token of the other. One vehicle suffices for it, since vehicles share no state
but the balancer's pool; `edge_cloud` has two.

`MaxJiffies`, `MaxStart`, `MaxBehind`, `MaxActive`, `MaxQueue`, `MaxTime`, `MaxPackage`,
`MaxFlight`, `MaxRef`, `MaxSeq`, `MaxInc`, `MaxSlots`, `MaxCrash` and `Messages` are bounds of
the models alone. The saturation of `bypass` lies above the bound it is compared
with. Symmetry is used only for sets without an order of their own, in runs
without liveness. Runs that do not check for deadlock may stop because such a
bound is reached.

### Fairness

* `LoadBalance`: each url keeps arriving, since vehicles send periodically.
* `CenterLink`: a readable descriptor is served and a running timer goes off, which
  the poll loop does; a subscribed vehicle keeps sending updates, which triggers a
  publication.
* `JunctionImprover`: radars send frames for as long as they work, so each junction
  gets to read the lights.
* `PollerItems`: the loop runs on and handlers return.
* `EdgeCloud`: vehicles keep registering and sending (strongly fair, as a full
  network may disable it now and then), instances handle what has arrived, the
  balancer relays answers and takes registrations.

Nothing is assumed of the broker, the center, the Kafka stream, crashes or
restarts. `IdentifiedAgain` has its premise in the formula: the balancer stays up
and has a single instance registered, which runs and has room. With two registered
it would be false, in the code as in the model: registrations may go to one for ever
and updates to the other.

## Finding

`check_create_device_item` initialises the junction's list of vehicles each time a
radar id is seen for the first time (`mec/vehicle-snapshot-service/src/device-snapshot.cpp:320`), also when the
junction has had another radar and vehicles are linked in. In `device_snapshot_two`
the first frame of a second radar empties the list of a junction with a vehicle;
the fusion results, which line 171 sends "to vehicle", then miss it until its next
update. The orphaned nodes still point into the list, so later updates can corrupt
it, up to a cycle without the head that a loop over the list never leaves. With one
radar at each junction the lists are right (`ListsInv`), which is proved for any
number of junctions and vehicles.

Behaviour that no document contradicts and no property claims otherwise:

* `_veh_cnt` counts allocations, one for each url and token, unknown tokens
  too, and is never lowered: capacity is consumed by tokens from before a restart.
* A timer started by a handler that runs late goes off early by as much, because
  `start` adds the interval to a tick counter that stands still meanwhile.
* The balancer forgets instances and clients when it restarts, and an indexing
  instance registers only once; it is not routed to until it restarts too. An
  instance that is gone keeps its share of the messages.
* A token is known only to the instance that issued it, and the balancer spreads a
  vehicle's messages over all of them: with several instances updates go out without
  a vid, though never with a wrong one.
* When the server closes the channel in the middle of a message the consuming side
  stays deaf until the connection itself dies; the producing side is repaired by
  publications only.
* A request that is deleted in its own `on_reply` is used after it was freed, see
  `WebappDispatch`; no header says that it may not be.
* With a configured name an answer to a request of an earlier life carries the
  routing id and may carry the sequence number of a new one, and is taken for its
  answer.
* A target that enters by a lane that is not listed is counted out without having
  been counted in.
* The push address of a vehicle stays that of the balancer it first came through.
* A Kafka error other than a timeout or the end of a partition ends the consumer.
* A reported target that leaves the junction is moved a second time in that frame
  and becomes a missing one, to be dropped or moved on by calculation.
* A descriptor that waits for output only is polled and never served.
* A request whose answer does not come has no timeout.

## Theorems

All theorems hold for every value of the constants that satisfies the named
assumption of the component's module.

`LoadBalanceProofs` (`ConfigAssumption`). `BoundedBypass` is not inductive: a bound on
how often e was passed over says nothing about how often it will be. `IInv` adds
that the counts never increase along the list (`CountsDescend`), which resets and
late joiners both preserve, and relates the history to the counts
(`BypassAccount`): e has been passed over by an earlier f at most once since the last
reset and once before it, by a later f at most as often as f's count says. From it
follow `TypeCorrect`, `BypassIsBounded`, `NeverListedTwice`, `BoundRulesRoute` and
`GapsNeverGrow`. A max-count of 0 or 1 clears the counts at every message, so that the
first endpoint gets everything; the bounds are stated for max-counts of at least 2.

`DispatcherRefined`, in the same module: every step of the balancer is one of
`Dispatcher` or a stutter. It rests on `IInv`, whose part about bound rules says that
a lazily bound rule has an endpoint.

`VehicleIndexingProofs` (`IndexingAssumption`). The conjunction of the safety properties
except `CountMatchesNodes` is inductive once `SlaveNeedsMaster` is part of it: it
rules out the branch that would promote a slave. `NodeStep` states what the branches
of `check_set_service_node` have in common. Results: `TypeCorrect`,
`TreesAlwaysAgree`, `CopiesAreApart`, `NoSlaveAlone`, `CapacityHolds`, `SlaveIfRoom`,
`AssignmentsStick`. `CountsAreExact` is about cardinalities: `CountInv` adds that the
places of every instance are finite sets and that an instance that is not registered
has none, so that a registration may start its count afresh. What a step does to the
nodes is then "one place filled" or none at all, and the lemmas about filling a
place say how the two cardinalities and the count move together.

`CenterLinkProofs` (no assumption on the bounds). `TypeOK` and `ConsumerDriven` are
inductive together: `TypeCorrect`, `ConsumerAlwaysDriven`. `NoStaleRequest`
alone is not inductive, since `remove_request_item` of a vehicle without a request
does nothing: an unsubscribe that finds none would then leave a later subscribe
behind. `RequestInv` therefore states the balance of subscribes and unsubscribes for
every rest of the queue (`BacklogIn`), that there is a queue only behind an open
connection, and that a side waiting for its retry timer has dropped its requests
(`RequestsHaveSubscribers`). The last part is where the order of the calls in
`on_consuming_error` matters.

`DeviceSnapshotProofs` (`DeviceAssumption`). For any number of radars: `TableInv` adds
to the types that the package in hand has a frame left and that the pointers of the
lists in use lead to such lists and to vehicles, while those of other junctions are
null (`LiveIn`). Hence a null pointer is met only at a junction without a frame
(`DiesOnlyOnEmptyPackages`). `OrderInv` bounds every timestamp in flight by the newest
one of its radar (`OrderIsKept`); `SlotBefore` is the arithmetic of the ring of results
(`ResultsArePassedOn`). With at most one radar at a junction (`AtMostOneRadar`, the
hypothesis of the last two theorems): each list is a `Ring`, whose two directions
agree and whose nodes are in every set that a loop from the head stays in. `RingDel`
and `RingAdd` show that a vehicle that leaves or joins leaves a ring: a set that is
closed for the new pointers gives one that is closed for the old ones. `RingElsewhere`
says that other rings do not notice, because a deleted vehicle's neighbours are of its
own ring. Results: `ListsStayLinked`, `VehiclesAtJunctionAreReached`. The
hypothesis is needed: `device_snapshot_two` violates the second with two radars.

`EventLoopProofs`, the poll loop (`PollerAssumption`). `SlotsExact` is inductive with the types.
That no event is missed needs to know, in the middle of a round, where the events
still owed are: ahead of the walk, in the item's own slot, among those polled and with
`revents` set; conversely an event set ahead is one of this poll, and an empty slot has
none (`EventInv`). A slot that a handler adds is therefore either a reused one without
an event or lies behind the polled ones, where an uninitialised `revents` does not
matter. Results: `PollerInvariant`, `PollerCorrect`, `EventsAreCurrent`.

`EventLoopProofs`, the timer wheel (`WheelAssumption`). `NeverOverdue` is not
inductive: it does not say why a timer far ahead will be moved down in time. `WheelIInv`
has, besides the types, how far `jiffies` and `timer_jiffies` can be apart in each phase of
`periodic_runner` (`ClockInv`), the index of every ring as a function of the time it has
reached (`IndexTracksTime`), and that every timer that fits is `InTime`: in the slot of
its tick, in the turn of its ring that is still ahead (`PlacedInTime`). Moving a ring down
puts its timers into lower rings, again in time, also when several rings wrap at once:
`MovedRings` shows that the chain of index tests in `run_timer_list` moves exactly the
rings of which a new slot begins with this tick. The lemmas about quotients and remainders
are stated for any divisor, so sizes need not be powers of two. The assumption asks that
the sign bit lies beyond the fourth ring and within the fifth, as 2^31 does, and for at
least two slots in each upper ring: the loop tests `index == 1` after the increment.
The bounds `MaxJiffies`, `MaxBehind` and `MaxStart` are arbitrary. Results: `WheelInductive`, `WheelCorrect`,
`TimersOnTime`. `AlarmClockRefined` shows the refinement step by step: `start` sets an
alarm that is not past (`LinkRefines`), moving rings and catching up change none
(`AlarmsKept`), a timer of the slot being run is due now (`InSlotNow`), and a tick that
ends leaves none because none is overdue after it (`AdvanceRefines`).

`SnapshotProofs`, vehicles (`SnapshotAssumption`). `SnapshotIInv` says what the ring of a
vehicle holds, read back from its index: the newest timestamps in falling order, and
none left out while a slot is unused (`Holds`). `HoldsPush` shows that an update keeps it,
`HoldsNewest` that what it holds are the newest `History` ones, by injections and
cardinalities. That the search meets a fitting snapshot before it meets a worse one is
`FrameFromRing`; it needs a first fitting step, which exists because every set of
naturals has a least element (`LeastElement`, from well-foundedness). For `AroundExact`
the lists must hold each vehicle under the link it was last seen on and nowhere else
(`ListsExact`), so that the lists of a link and of the two next to it, three different links by the
assumption on the map, show it once (`FoundOnce`); for the pushes,
the address is that of the newest message while the vehicle keeps its balancer
(`PeersCurrent`). Results: `SnapshotInductive`, `RingCorrect`, `PackagesExact`,
`PushesCorrect`.

`SnapshotProofs`, lights and targets (`ImproverAssumption`, `LightAssumption`). For `LightState`
alone, `CopyIsCurrent` needs that the two tables agree (`TablesAgree`), or a change
could miss a junction: `LightInvariant`, `CopiesAreCurrent`, `JoiningKeepsState`.
`ImplementsLightState`: the composition implements `LightState`, which carries the
results above over. `TrackInv` is the invariant of the targets: to `TrackingInv` it
adds that counters and marks agree (`Counted`) and that a target that has been counted
out is past the junction (`Left`, `Past`) and never comes to a lane of the junction
again on this passage (`NoWayBack`), which is why nobody is counted in after the entry for the way
out was made without an approach. Lemmas about `status_process`,
`junction_process` and `junction_planning` say what each does to one target;
`ImproveFacts` puts them together for a frame. `EntersByTheLight` also needs that
a junction knows the state of no light it does not use (`KnownAreUsed`). Results:
`MapsStayApart`, `TargetsCountedConsistently`, `EntersByTheLight`, `CopyStaysCurrent`.

`WebappDispatchProofs` (`DispatchAssumption`). To the properties the invariant adds
that every awaited answer's item remembers whom it was sent for (`TableInv`), that the
item in hand is in the table unless a handler has deleted its request
(`FrameInv`), and that of the requests already answered only the one in hand is still
known (`RepliedInv`). Results: `TypeCorrect`, `ResponsesAreRouted`,
`FreedMemoryUntouched`, `SocketsAreExact`, `AnswersHandledOnce`.

`EdgeCloudProofs` (`EdgeAssumption`). `NeverMisattributed` is about one message, but
needs to know all places a token can be: `TokensBelong` says that in the tables, in
messages, in answers and with the vehicles a token belongs to one vehicle and has been
handed out, so that a new one is nobody's (`HandOutKeeps`, `HandOutOwned`). Results:
`TokensBelongToOne`, `UpdatesNeverMisattributed`.

Only model-checked: the liveness properties (`EveryEndpointServed`, `ConsumerRecovers`,
`ProducerRecovers`, `ChangeIsSeen`, `EventsServed`, `IdentifiedAgain`, `PushesResume`). They
need fairness and ENABLED, which are outside this prover. Every safety property of
a passing run is also a theorem.

## Not modelled

* The fusion service, lane localisation, Kalman filters, the map libraries: numeric
  code and file formats without protocol state. These, the vendored parsers, the
  GNSS code, graphics, tools and code generators are most of the repository's lines.
* The snapshot service's RabbitMQ side repeats `indexing-rabbitmq.cpp`, which
  `CenterLink` models; its worker hands messages to the handlers modelled here. The
  Kafka sender is a queue drained by one thread.
* The snapshot services in the composition: `VehicleIndexing` models how they are
  assigned, `VehicleSnapshot` and `DeviceSnapshot` what they do.
* ZeroMQ, libcurl, rabbitmq-c, librdkafka are external. Rpc, launcher, updater and
  the system services are not on the path of a vehicle's message.
* Use of the timer library from several threads: `periodic_runner` takes no lock, but
  the services use timers on the thread of the loop alone.

## Plan

Done: the modules and theorems above. Left, by what it would add:

1. The event poller of `zsfd/utils/evpoller.cpp` (its wake-up), fifo buffer and
   balanced trees of `zsfd`, checked against a sequence and a set.
2. The snapshot services in `EdgeCloud`, with the loss of a master.
3. The frame cacher of the fusion service; the Kafka sender.
4. The Viterbi recursion of the HMM over small integer scores against the best path
   by enumeration.
