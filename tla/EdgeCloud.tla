------------------------------- MODULE EdgeCloud -------------------------------
(***************************************************************************)
(* The edge cloud put together: vehicles, the load balancer, as Dispatcher *)
(* describes it, and the instances of the indexing service behind it.  The *)
(* balancer picks an instance for each message; each instance hands out    *)
(* access tokens from tables of its own (the trees of VehicleIndexing,     *)
(* reduced here to the token of each vehicle) and registers with the       *)
(* balancer once, when it starts.  Balancer and instances may die and come *)
(* back, with the same routing id, as configured by webcore.name.          *)
(*                                                                         *)
(* Vehicles and ZeroMQ are external.  A ROUTER drops what it has no peer   *)
(* for; a DEALER holds what it has not been able to send.                  *)
(***************************************************************************)
EXTENDS Integers, FiniteSets

CONSTANTS
    Clients,      \* vehicles: vid and routing id
    Endpoints,    \* instances of the indexing service
    Tokens,       \* uuids
    Index,        \* the name of the indexing service
    Register,     \* the url of a registration
    Update,       \* the url of an update
    None,         \* no token, no vid
    MaxFlight,    \* bound: messages of one vehicle on their way to an instance
    MaxCrash      \* bound: crashes of the balancer and of instances together

ASSUME EdgeAssumption ==
    /\ None \notin Tokens
    /\ Register # Update

Services == {Index}
Configured == {Index}
Urls == {Register, Update}
Rule == {<<Update, Index>>, <<Register, Index>>}

VARIABLES
    up, pool, clients, out,    \* the balancer
    alive,        \* the instances that run
    backed,       \* those that have a snapshot instance with room for another vehicle
    registering,  \* registrations on their way to the balancer
    inbox,        \* messages on their way to an instance
    answers,      \* tokens on their way to a vehicle
    table,        \* vehicle_mgr of each instance: the token of each vehicle
    issued,       \* the tokens that were handed out
    holds,        \* the token each vehicle holds
    forwarded,    \* the last update an instance passed on
    crashes       \* how often the balancer and the instances have died

balancer == <<up, pool, clients, out>>
network == <<registering, inbox, answers>>
vars == <<balancer, alive, backed, network, table, issued, holds, forwarded, crashes>>

LB == INSTANCE Dispatcher

NoTable == [c \in Clients |-> None]

Init ==
    /\ LB!Init
    /\ alive = {} /\ backed = {}
    /\ registering = {} /\ inbox = {} /\ answers = {}
    /\ table = [e \in Endpoints |-> NoTable]
    /\ issued = {}
    /\ holds = NoTable
    /\ forwarded = [sender |-> None, vid |-> None]
    /\ crashes = 0

--------------------------------------------------------------------------------
(* Plausible bugs of the services, for mutation runs only.                  *)
TokenOfReused(c, e, t) == t \in Tokens /\ (table[e][c] # None => t = table[e][c])

AnswerKept(m, t) == [client |-> m.client, token |-> IF m.token = None THEN t ELSE m.token]

--------------------------------------------------------------------------------
(* A vehicle sends: the balancer picks an instance, and the message is lost *)
(* if there is none or if it does not run.                                  *)
Arrives(c, u) ==
    IF out'[1] = "service" /\ out'[3] \in alive
    THEN inbox' = inbox \cup {[to |-> out'[3], client |-> c, url |-> u, token |-> holds[c]]}
    ELSE UNCHANGED inbox

VehicleSends(c, u) ==
    /\ Cardinality({m \in inbox : m.client = c}) < MaxFlight
    /\ LB!TransferToServer(c, u)
    /\ Arrives(c, u)
    /\ UNCHANGED <<alive, backed, registering, answers, table, issued, holds, forwarded,
                   crashes>>

(* vehicle_register at an instance: the token it has for the vehicle, or a  *)
(* new one.                                                                 *)
TokenOf(c, e, t) ==
    IF table[e][c] # None THEN t = table[e][c] ELSE t \in Tokens \ issued

Answer(m, t) == [client |-> m.client, token |-> t]

HandleRegister(m) ==
    /\ m.url = Register
    /\ \E t \in Tokens :
          /\ TokenOf(m.client, m.to, t)
          /\ table' = [table EXCEPT ![m.to][m.client] = t]
          /\ issued' = issued \cup {t}
          /\ answers' = answers \cup {Answer(m, t)}
    /\ inbox' = inbox \ {m}
    /\ UNCHANGED <<balancer, alive, backed, registering, holds, forwarded, crashes>>

(* handle_internal_change: the vid of the token, or none if the instance    *)
(* does not know it.                                                        *)
VidOf(e, t) ==
    IF t # None /\ \E c \in Clients : table[e][c] = t
    THEN CHOOSE c \in Clients : table[e][c] = t
    ELSE None

(* forward_to_service at an instance: an update without a token is skipped, *)
(* and so is one for which no snapshot instance can be assigned; without    *)
(* room an earlier assignment, made for this token, may still serve it.     *)
HandleUpdate(m) ==
    /\ m.url = Update
    /\ \/ /\ m.token # None
          /\ forwarded' = [sender |-> m.client, vid |-> VidOf(m.to, m.token)]
       \/ /\ m.token = None \/ m.to \notin backed
          /\ UNCHANGED forwarded
    /\ inbox' = inbox \ {m}
    /\ UNCHANGED <<balancer, alive, backed, registering, answers, table, issued, holds,
                   crashes>>

(* transfer_to_client: the balancer passes an answer on.                    *)
RelayAnswer(a) ==
    /\ LB!RelayReply(a.client)
    /\ holds' = [holds EXCEPT ![a.client] = a.token]
    /\ answers' = answers \ {a}
    /\ UNCHANGED <<alive, backed, registering, inbox, table, issued, forwarded, crashes>>

(* A push for a vehicle: see PushesResume.                                  *)
Push(c) ==
    /\ LB!DistributeMsg(c)
    /\ UNCHANGED <<alive, backed, network, table, issued, holds, forwarded, crashes>>

--------------------------------------------------------------------------------
(* init_client: an instance starts with empty tables and registers, once.   *)
InstanceStarts(e) ==
    /\ e \notin alive
    /\ alive' = alive \cup {e}
    /\ registering' = registering \cup {e}
    /\ UNCHANGED <<balancer, backed, inbox, answers, table, issued, holds, forwarded, crashes>>

(* A snapshot instance with room registers with it, or the last one fills   *)
(* up: VehicleIndexing has the counts.                                      *)
SnapshotJoins(e) ==
    /\ e \in alive \ backed
    /\ backed' = backed \cup {e}
    /\ UNCHANGED <<balancer, alive, network, table, issued, holds, forwarded, crashes>>

SnapshotFills(e) ==
    /\ e \in backed
    /\ backed' = backed \ {e}
    /\ UNCHANGED <<balancer, alive, network, table, issued, holds, forwarded, crashes>>

(* It dies with what was on its way to it; its registration may get there.  *)
InstanceDies(e) ==
    /\ e \in alive
    /\ crashes < MaxCrash
    /\ crashes' = crashes + 1
    /\ alive' = alive \ {e}
    /\ backed' = backed \ {e}
    /\ registering' \in {registering, registering \ {e}}
    /\ inbox' = {m \in inbox : m.to # e}
    /\ table' = [table EXCEPT ![e] = NoTable]
    /\ UNCHANGED <<balancer, answers, issued, holds, forwarded>>

BalancerRegisters(e) ==
    /\ e \in registering
    /\ LB!ServiceRegister(Index, e)
    /\ registering' = registering \ {e}
    /\ UNCHANGED <<alive, backed, inbox, answers, table, issued, holds, forwarded, crashes>>

(* The balancer dies, and so may what was on its way to it.                 *)
BalancerDies ==
    /\ crashes < MaxCrash
    /\ crashes' = crashes + 1
    /\ LB!Crash
    /\ registering' \in {registering, {}}
    /\ answers' \in {answers, {}}
    /\ UNCHANGED <<alive, backed, inbox, table, issued, holds, forwarded>>

BalancerStarts ==
    /\ LB!Restart
    /\ UNCHANGED <<alive, backed, network, table, issued, holds, forwarded, crashes>>

Handle(c) == \E m \in inbox : m.client = c /\ (HandleRegister(m) \/ HandleUpdate(m))

Next ==
    \/ \E c \in Clients, u \in Urls : VehicleSends(c, u)
    \/ \E c \in Clients : Push(c) \/ Handle(c)
    \/ \E a \in answers : RelayAnswer(a)
    \/ \E e \in Endpoints : InstanceStarts(e) \/ InstanceDies(e) \/ BalancerRegisters(e)
    \/ \E e \in Endpoints : SnapshotJoins(e) \/ SnapshotFills(e)
    \/ BalancerDies
    \/ BalancerStarts

Spec == Init /\ [][Next]_vars

(* Vehicles register and send again and again, strongly fair because one    *)
(* may have to wait for the other, and what has arrived is handled.         *)
(* Nothing is assumed of crashes and restarts.                              *)
Fairness ==
    /\ \A c \in Clients, u \in Urls : SF_vars(VehicleSends(c, u))
    /\ \A c \in Clients : WF_vars(Handle(c))
    /\ \A c \in Clients : WF_vars(\E a \in answers : a.client = c /\ RelayAnswer(a))
    /\ \A e \in Endpoints : WF_vars(BalancerRegisters(e))

FairSpec == Spec /\ Fairness

--------------------------------------------------------------------------------
(* The values of the network and of the instances' tables.                  *)
TypeOK ==
    /\ up \in BOOLEAN
    /\ pool \in [Services -> SUBSET Endpoints]
    /\ clients \in SUBSET Clients
    /\ alive \in SUBSET Endpoints /\ backed \in SUBSET alive
    /\ registering \in SUBSET Endpoints
    /\ inbox \in SUBSET [to : alive, client : Clients, url : Urls, token : Tokens \cup {None}]
    /\ answers \in SUBSET [client : Clients, token : Tokens]
    /\ table \in [Endpoints -> [Clients -> Tokens \cup {None}]]
    /\ issued \in SUBSET Tokens
    /\ holds \in [Clients -> Tokens \cup {None}]

(* No instance has given token t to another vehicle than c.                 *)
Owned(t, c) ==
    t # None => /\ t \in issued
                /\ \A e \in Endpoints, d \in Clients : table[e][d] = t => d = c

(* Wherever a token is, in a table, with its vehicle or on its way, in any  *)
(* life of an instance, it belongs to one vehicle: the inductive invariant  *)
(* behind NeverMisattributed.                                               *)
TokensBelong ==
    /\ \A e \in Endpoints, c \in Clients : Owned(table[e][c], c)
    /\ \A c \in Clients : Owned(holds[c], c)
    /\ \A m \in inbox : Owned(m.token, m.client)
    /\ \A a \in answers : Owned(a.token, a.client)

IInv == TypeOK /\ TokensBelong

(* An update is passed on in the name of the vehicle that sent it or of     *)
(* nobody, whatever instance it reaches, whichever token the vehicle still  *)
(* holds and whoever has restarted: never in the name of another vehicle.   *)
NeverMisattributed == forwarded.vid \in {forwarded.sender, None}

(* A token is known to the instance that issued it and to no other, so a    *)
(* vehicle depends on registering again.  Once the balancer stays up and    *)
(* has a single instance, which runs and has room, every vehicle that keeps *)
(* registering and sending is identified again and again, whatever tokens   *)
(* of other instances or of earlier lives it holds or are on their way.     *)
LeftWith(e) == up /\ pool[Index] = {e} /\ e \in backed
IdentifiedAgain ==
    (\E e \in Endpoints : <>[]LeftWith(e)) =>
        \A c \in Clients : []<>(forwarded.sender = c /\ forwarded.vid = c)

(* After the balancer has restarted, distribute_msg refuses a vehicle only  *)
(* until it next sends something: pushes work again.                        *)
PushesResume == \A c \in Clients : up ~> (c \in clients \/ ~ up)

================================================================================
