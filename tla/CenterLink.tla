------------------------------ MODULE CenterLink ------------------------------
(***************************************************************************)
(* The link of the indexing service to the center, over RabbitMQ           *)
(* (src/mec/vehicle-indexing: indexing-rabbitmq, current-snapshot): one    *)
(* connection consumes the center's subscribe and unsubscribe messages,    *)
(* another publishes the snapshots of the vehicles subscribed to.  Both    *)
(* are served by the one thread of the process.                            *)
(*                                                                         *)
(* The broker, the rabbitmq-c library and the center are external.  The    *)
(* queue init_consuming declares is deleted with its consumer, so what the *)
(* center sends while there is none is lost.                               *)
(***************************************************************************)
EXTENDS Integers, Sequences, FiniteSets

CONSTANTS
    Vids,         \* vehicle identification numbers
    MaxActive,    \* bound: subscribers of one vehicle at the center
    MaxQueue      \* bound: messages waiting in the consumer's queue

ASSUME LinkAssumption == MaxActive \in Nat /\ MaxQueue \in Nat

VARIABLES
    broker,       \* the broker can be reached
    conn,         \* the consuming connection, see Conns
    fd,           \* _sock_fd is in the poll set of the backend
    timer,        \* _retry_timer of the consuming side is running
    queue,        \* the queue of the consumer, at the broker
    pconn,        \* the producing connection
    ptimer,       \* _retry_timer of the producing side
    requests,     \* request_snapshot_item::refcnt of each vehicle, 0 for none
    active        \* subscribers of each vehicle at the center

consuming == <<conn, fd, timer>>
producing == <<pconn, ptimer>>
vars == <<broker, consuming, queue, producing, requests, active>>

(* none: init failed half-way.  lost: the socket is dead and nobody has     *)
(* noticed.  mute: the server closed the channel, the socket lives.         *)
(* reset: a write on a lost socket has been answered.                       *)
Conns == {"none", "open", "lost", "mute"}
ProducerConns == {"none", "open", "lost", "reset"}

NoRequests == [v \in Vids |-> 0]

(* init of the two sides: a side that fails starts its retry timer.         *)
Init ==
    /\ broker \in BOOLEAN
    /\ conn = IF broker THEN "open" ELSE "none"
    /\ fd = broker
    /\ timer = ~ broker
    /\ queue = <<>>
    /\ pconn = IF broker THEN "open" ELSE "none"
    /\ ptimer = ~ broker
    /\ requests = NoRequests
    /\ active = NoRequests

--------------------------------------------------------------------------------
(* Plausible bugs of the link code, for mutation runs only.                 *)
RemoveAllRequestSkipped == UNCHANGED requests

RetryInitConsumingKeepingFd ==
    \/ /\ broker
       /\ conn' = "open"
       /\ fd' = TRUE
       /\ timer' = FALSE
    \/ /\ ~ broker
       /\ conn' = "none"
       /\ timer' = TRUE
       /\ UNCHANGED fd

RetryInitConsumingOnce ==
    /\ conn' = IF broker THEN "open" ELSE "none"
    /\ fd' = broker
    /\ timer' = FALSE

RetryInitProducingNever ==
    /\ pconn' = "none"

--------------------------------------------------------------------------------
(* current_snapshot: add_request_item, remove_request_item and              *)
(* remove_all_request.                                                      *)
AddRequestItem(v) == requests[v] + 1

RemoveRequestItem(v) == IF requests[v] > 0 THEN requests[v] - 1 ELSE 0

RemoveAllRequest == requests' = NoRequests

(* retry_init_consuming, and the timer its callers start when it fails.     *)
RetryInitConsuming ==
    /\ conn' = IF broker THEN "open" ELSE "none"
    /\ fd' = broker
    /\ timer' = ~ broker

RetryInitProducing == pconn' = IF broker THEN "open" ELSE "none"

--------------------------------------------------------------------------------
(* on_consume, a message: on_consuming applies it to every vin it lists; a  *)
(* message without a body is dropped.                                       *)
OnConsuming ==
    /\ fd
    /\ conn = "open"
    /\ queue # <<>>
    /\ LET msg == Head(queue)
       IN  requests' = [v \in Vids |->
                          IF v \notin msg.vins THEN requests[v]
                          ELSE IF msg.kind = "sub" THEN AddRequestItem(v)
                          ELSE RemoveRequestItem(v)]
    /\ queue' = Tail(queue)
    /\ UNCHANGED <<broker, consuming, producing, active>>

(* on_consume, a dead socket (ENOTCONN): the requests go, then the          *)
(* connection is made again.                                                *)
OnConsumeLost ==
    /\ fd
    /\ conn = "lost"
    /\ RemoveAllRequest
    /\ RetryInitConsuming
    /\ UNCHANGED <<broker, queue, producing, active>>

(* on_consume, the server closes the channel in the middle of a message     *)
(* (ELOGIC): the requests go and nothing is retried.                        *)
OnConsumeChannelClosed ==
    /\ fd
    /\ conn = "open"
    /\ RemoveAllRequest
    /\ conn' = "mute"
    /\ queue' = <<>>
    /\ UNCHANGED <<broker, fd, timer, producing, active>>

(* on_timer of the two sides.                                               *)
OnTimerConsuming ==
    /\ timer
    /\ RetryInitConsuming
    /\ UNCHANGED <<broker, queue, producing, requests, active>>

OnTimerProducing ==
    /\ ptimer
    /\ RetryInitProducing
    /\ ptimer' = ~ broker
    /\ UNCHANGED <<broker, consuming, queue, requests, active>>

(* update_snapshot of a vehicle with a request item: publishing.  The first *)
(* write on a lost socket may still be taken by the kernel; an error is     *)
(* followed by one attempt to connect, whose result is dropped.             *)
Publishing(v) ==
    /\ requests[v] > 0
    /\ \/ /\ pconn \in {"lost", "reset", "none"}
          /\ RetryInitProducing
       \/ /\ pconn = "lost"
          /\ pconn' = "reset"
       \/ /\ pconn = "open"
          /\ UNCHANGED pconn
    /\ UNCHANGED <<broker, consuming, queue, ptimer, requests, active>>

--------------------------------------------------------------------------------
(* The process restarts: both sides are initialized again.                  *)
ProcessRestart ==
    /\ conn' = IF broker THEN "open" ELSE "none"
    /\ fd' = broker
    /\ timer' = ~ broker
    /\ queue' = <<>>
    /\ pconn' = IF broker THEN "open" ELSE "none"
    /\ ptimer' = ~ broker
    /\ requests' = NoRequests
    /\ UNCHANGED <<broker, active>>

Cut(c) == IF c \in {"open", "mute"} THEN "lost" ELSE c

BrokerDown ==
    /\ broker
    /\ broker' = FALSE
    /\ conn' = Cut(conn)
    /\ pconn' = Cut(pconn)
    /\ queue' = <<>>
    /\ UNCHANGED <<fd, timer, ptimer, requests, active>>

BrokerUp ==
    /\ ~ broker
    /\ broker' = TRUE
    /\ UNCHANGED <<consuming, queue, producing, requests, active>>

(* One of the two connections is reset while the broker stays.              *)
Disconnect ==
    /\ \/ /\ conn \in {"open", "mute"}
          /\ conn' = "lost"
          /\ queue' = <<>>
          /\ UNCHANGED pconn
       \/ /\ pconn = "open"
          /\ pconn' = "lost"
          /\ UNCHANGED <<conn, queue>>
    /\ UNCHANGED <<broker, fd, timer, ptimer, requests, active>>

Send(msg) ==
    \/ /\ conn = "open"
       /\ Len(queue) < MaxQueue
       /\ queue' = Append(queue, msg)
    \/ /\ conn # "open"
       /\ UNCHANGED queue

(* The center: users subscribe to vehicles and give the subscription up.    *)
CenterSubscribe(vs) ==
    /\ \A v \in vs : active[v] < MaxActive
    /\ active' = [v \in Vids |-> IF v \in vs THEN active[v] + 1 ELSE active[v]]
    /\ Send([kind |-> "sub", vins |-> vs])
    /\ UNCHANGED <<broker, consuming, producing, requests>>

CenterUnsubscribe(vs) ==
    /\ \A v \in vs : active[v] > 0
    /\ active' = [v \in Vids |-> IF v \in vs THEN active[v] - 1 ELSE active[v]]
    /\ Send([kind |-> "unsub", vins |-> vs])
    /\ UNCHANGED <<broker, consuming, producing, requests>>

CenterSendsEmpty ==
    /\ Send([kind |-> "empty", vins |-> {}])
    /\ UNCHANGED <<broker, consuming, producing, requests, active>>

Center ==
    \/ \E vs \in SUBSET Vids \ {{}} : CenterSubscribe(vs) \/ CenterUnsubscribe(vs)
    \/ CenterSendsEmpty

Next ==
    \/ OnConsuming
    \/ OnConsumeLost
    \/ OnConsumeChannelClosed
    \/ OnTimerConsuming
    \/ OnTimerProducing
    \/ \E v \in Vids : Publishing(v)
    \/ ProcessRestart
    \/ BrokerDown
    \/ BrokerUp
    \/ Disconnect
    \/ Center

Spec == Init /\ [][Next]_vars

(* The event loop polls: a readable descriptor is served, a running timer   *)
(* goes off, and vehicles keep sending.                                     *)
Fairness ==
    /\ WF_vars(OnConsumeLost)
    /\ WF_vars(OnTimerConsuming)
    /\ WF_vars(OnTimerProducing)
    /\ \A v \in Vids : WF_vars(Publishing(v))

FairSpec == Spec /\ Fairness

--------------------------------------------------------------------------------
Messages == [kind : {"sub", "unsub", "empty"}, vins : SUBSET Vids]

(* The connections, flags and reference counts keep their ranges: in        *)
(* particular no unsubscribe takes a count below zero.                      *)
TypeOK ==
    /\ broker \in BOOLEAN
    /\ conn \in Conns
    /\ fd \in BOOLEAN
    /\ timer \in BOOLEAN
    /\ queue \in Seq(Messages)
    /\ pconn \in ProducerConns
    /\ ptimer \in BOOLEAN
    /\ requests \in [Vids -> Nat]
    /\ active \in [Vids -> Nat]

(* Exactly one thing drives the consuming side at any time: the poll set or *)
(* the retry timer.  With neither it would be dead for good, with both a    *)
(* timer would tear down a connection that works; and on_consume's          *)
(* assertion that there is a connection holds.                              *)
ConsumerDriven ==
    /\ fd # timer
    /\ fd <=> conn # "none"

(* The messages of one kind that wait for vehicle v.                        *)
Waiting(kind, v) ==
    Cardinality({i \in DOMAIN queue : queue[i].kind = kind /\ v \in queue[i].vins})

(* No subscription outlives its subscriber.  Unsubscribe messages can be    *)
(* lost with the queue; it is because on_consuming_error drops all requests *)
(* before a new queue exists that none of them leaves a request behind.     *)
NoStaleRequest ==
    conn = "open" => \A v \in Vids :
        requests[v] + Waiting("sub", v) <= active[v] + Waiting("unsub", v)

(* A consuming side whose connection is gone gets a new one, unless the     *)
(* broker goes away first.                                                  *)
ConsumerRecovers ==
    (broker /\ conn \in {"none", "lost"}) ~> (conn = "open" \/ ~ broker)

(* The producing side recovers although its retry is not guarded by a       *)
(* timer: the next publications find the connection broken and make a new   *)
(* one, as long as a vehicle stays subscribed and the broker up.            *)
ProducerRecovers ==
    \A v \in Vids :
        (broker /\ pconn # "open")
            ~> (pconn = "open" \/ ~ broker \/ requests[v] = 0)

================================================================================
