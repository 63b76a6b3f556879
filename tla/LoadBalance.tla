------------------------------ MODULE LoadBalance ------------------------------
(***************************************************************************)
(* The load-balance service (src/mec/load-balance): a single-threaded      *)
(* ZeroMQ process with three ROUTER sockets.  Vehicles send on the client  *)
(* socket, service instances register and answer on the service socket,    *)
(* and pushes for a vehicle arrive on the distribute socket.  Every        *)
(* message is handled to completion before the next one, so each handler   *)
(* is one action.  All the tables live in memory and die with the process. *)
(*                                                                         *)
(* _status of an endpoint is set to 1 by add_endpoint and never written    *)
(* again, so the `_status != 1' tests of the source are always false; the  *)
(* remove_* functions of the tables have no caller.                        *)
(***************************************************************************)
EXTENDS Integers, Sequences

CONSTANTS
    Clients,      \* routing ids of vehicles on the client socket
    Endpoints,    \* routing ids of service instances on the service socket
    Services,     \* service names that a rule or a registration may carry
    Configured,   \* the names with a load-balance-service.service.<name> entry
    MaxCnt,       \* max-count of each configured service
    Urls,         \* url names a message may carry
    RuleCfg       \* the route-rule array: <<url name, service name>> entries

ASSUME ConfigAssumption ==
    /\ Configured \subseteq Services
    /\ MaxCnt \in [Configured -> Nat]
    /\ RuleCfg \in Seq(Urls \X Services)

VARIABLES
    up,           \* the process runs
    items,        \* server_endpoint_mgr::_server_tree
    endpoints,    \* server_item::_endpoints_list of each item, in list order
    count,        \* server_endpoint::_count
    bound,        \* rules whose route_rule_item::service is set
    clients,      \* client_mgr::_client_tree
    out,          \* what the last handler did with its message
    bypass        \* history: see BoundedBypass

tables == <<items, endpoints, count, bound, clients>>
vars == <<up, tables, out, bypass>>

Registered(s) == {endpoints[s][i] : i \in DOMAIN endpoints[s]}

--------------------------------------------------------------------------------
(* The rule tree init_rule_list builds: a later entry for the same url      *)
(* overwrites the service name of the earlier one.                          *)
HasRule(u) == \E i \in DOMAIN RuleCfg : RuleCfg[i][1] = u

RuleName(u) ==
    LET last == CHOOSE i \in DOMAIN RuleCfg :
                    /\ RuleCfg[i][1] = u
                    /\ \A j \in DOMAIN RuleCfg : RuleCfg[j][1] = u => j <= i
    IN  RuleCfg[last][2]

ZeroCount  == [s \in Services |-> [e \in Endpoints |-> 0]]
NoBypass   == [s \in Services |-> [e \in Endpoints |-> [f \in Endpoints |-> 0]]]

Init ==
    /\ up = TRUE
    /\ items = {}
    /\ endpoints = [s \in Services |-> <<>>]
    /\ count = ZeroCount
    /\ bound = {}
    /\ clients = {}
    /\ out = <<"none">>
    /\ bypass = NoBypass

--------------------------------------------------------------------------------
(* Plausible bugs of the dispatch code, for mutation runs only.             *)
CountAfterResettingOne(s, e) ==
    [count[s] EXCEPT ![e] = IF @ + 1 >= MaxCnt[s] THEN 0 ELSE @ + 1]

CountAfterForgettingReset(s, e) ==
    [count[s] EXCEPT ![e] = IF @ + 1 >= MaxCnt[s] THEN @ ELSE @ + 1]

BindableBeforeRegistration(u) == TRUE

AddEndpointAgain(s, e) ==
    /\ endpoints' = [endpoints EXCEPT ![s] = Append(endpoints[s], e)]
    /\ count' = [count EXCEPT ![s][e] = 0]

--------------------------------------------------------------------------------
(* get_service_endpoint: the first endpoint of the list with the smallest   *)
(* count is chosen and its count incremented; the count that reaches        *)
(* max-count clears every count of the service.                             *)
LeastLoaded(s, i) ==
    /\ \A j \in DOMAIN endpoints[s] :
          count[s][endpoints[s][i]] <= count[s][endpoints[s][j]]
    /\ \A j \in 1..(i - 1) :
          count[s][endpoints[s][i]] < count[s][endpoints[s][j]]

CountAfter(s, e) ==
    IF count[s][e] + 1 >= MaxCnt[s]
    THEN [f \in Endpoints |-> 0]
    ELSE [count[s] EXCEPT ![e] = count[s][e] + 1]

(* History: one more message went to e and to nobody else of the service.   *)
(* The counter saturates once it has passed the bound it is kept for.       *)
BypassAfter(s, e) ==
    [x \in Endpoints |-> [y \in Endpoints |->
        IF x = e THEN 0
        ELSE IF y = e /\ x \in Registered(s) /\ bypass[s][x][y] <= MaxCnt[s] + 1
             THEN bypass[s][x][y] + 1
             ELSE bypass[s][x][y]]]

Dispatch(s) ==
    \E i \in DOMAIN endpoints[s] :
        /\ LeastLoaded(s, i)
        /\ count' = [count EXCEPT ![s] = CountAfter(s, endpoints[s][i])]
        /\ bypass' = [bypass EXCEPT ![s] = BypassAfter(s, endpoints[s][i])]
        /\ out' = <<"service", s, endpoints[s][i]>>

(* A null endpoint, for a service without any: the message goes nowhere,    *)
(* its error code is dropped and the caller reports success.                *)
SendToNobody ==
    /\ out' = <<"unsent">>
    /\ UNCHANGED <<count, bypass>>

SendToEndpoint(s) == IF endpoints[s] = <<>> THEN SendToNobody ELSE Dispatch(s)

(* A handler that fails hands the message to lbservice::on_request, which   *)
(* only logs it.                                                            *)
HandledLocally ==
    /\ out' = <<"local">>
    /\ UNCHANGED <<items, endpoints, count, bound, bypass>>

Bindable(u) == u \in bound \/ RuleName(u) \in items

(* forward_to_service: no rule, or a rule whose service has not registered  *)
(* yet, is an error; otherwise the rule is bound and the message goes out.  *)
ForwardToService(u) ==
    \/ /\ ~ HasRule(u)
       /\ HandledLocally
    \/ /\ HasRule(u)
       /\ ~ Bindable(u)
       /\ HandledLocally
    \/ /\ HasRule(u)
       /\ Bindable(u)
       /\ bound' = bound \cup {u}
       /\ SendToEndpoint(RuleName(u))
       /\ UNCHANGED <<items, endpoints>>

AddClient(c) == clients' = clients \cup {c}

--------------------------------------------------------------------------------
(* A message of vehicle c on the client socket.                             *)
TransferToServer(c, u) ==
    /\ up
    /\ AddClient(c)
    /\ ForwardToService(u)
    /\ UNCHANGED up

(* The same with an empty address frame: the client is recorded all the same. *)
TransferMalformed(c) ==
    /\ up
    /\ AddClient(c)
    /\ HandledLocally
    /\ UNCHANGED up

(* A service instance sends a request of its own on the service socket.     *)
ServiceRequest(u) ==
    /\ up
    /\ ForwardToService(u)
    /\ UNCHANGED <<up, clients>>

(* The same with an empty address frame, or a message of another kind.      *)
ServiceMalformed ==
    /\ up
    /\ HandledLocally
    /\ UNCHANGED <<up, clients>>

(* add_server_item: an item is made for a name with a configuration entry.  *)
AddServerItem(s) ==
    /\ s \in Configured
    /\ items' = items \cup {s}

(* add_endpoint: a new endpoint goes to the tail of the list, a known one   *)
(* is left as it is, its count included.                                    *)
AddEndpoint(s, e) ==
    IF e \in Registered(s)
    THEN UNCHANGED <<endpoints, count>>
    ELSE /\ endpoints' = [endpoints EXCEPT ![s] = Append(endpoints[s], e)]
         /\ count' = [count EXCEPT ![s][e] = 0]

(* A register message; the reply goes back on the service socket.           *)
ServiceRegister(s, e) ==
    /\ up
    /\ AddServerItem(s)
    /\ AddEndpoint(s, e)
    /\ out' = <<"ack", s, e>>
    /\ UNCHANGED <<up, bound, clients, bypass>>

(* A registration without a name adds nothing and is answered all the same. *)
RegisterNameless(e) ==
    /\ up
    /\ out' = <<"ack", e>>
    /\ UNCHANGED <<up, tables, bypass>>

(* An answer of a service, relayed to the client its second frame names     *)
(* without looking at the client table.                                     *)
RelayReply(c) ==
    /\ up
    /\ out' = <<"client", c>>
    /\ UNCHANGED <<up, tables, bypass>>

(* A push on the distribute socket, accepted only for a known identity.     *)
DistributeMsg(c) ==
    /\ up
    /\ \/ c \in clients /\ out' = <<"client", c>>
       \/ c \notin clients /\ out' = <<"local">>
    /\ UNCHANGED <<up, tables, bypass>>

LoseMemory ==
    /\ up' = FALSE
    /\ items' = {}
    /\ endpoints' = [s \in Services |-> <<>>]
    /\ count' = ZeroCount
    /\ bound' = {}
    /\ clients' = {}
    /\ out' = <<"none">>
    /\ bypass' = NoBypass

(* Registering a name that has no configuration entry fails the assertion   *)
(* of add_server_endpoint.                                                  *)
RegisterUnconfigured(s) ==
    /\ up
    /\ s \notin Configured
    /\ LoseMemory

Crash ==
    /\ up
    /\ LoseMemory

Restart ==
    /\ ~ up
    /\ up' = TRUE
    /\ UNCHANGED <<tables, out, bypass>>

Next ==
    \/ \E c \in Clients, u \in Urls : TransferToServer(c, u)
    \/ \E c \in Clients : TransferMalformed(c) \/ RelayReply(c) \/ DistributeMsg(c)
    \/ \E u \in Urls : ServiceRequest(u)
    \/ \E s \in Services, e \in Endpoints : ServiceRegister(s, e)
    \/ \E e \in Endpoints : RegisterNameless(e)
    \/ \E s \in Services : RegisterUnconfigured(s)
    \/ ServiceMalformed
    \/ Crash
    \/ Restart

Spec == Init /\ [][Next]_vars

(* Vehicles send periodically, so every url keeps arriving while the        *)
(* process is up.                                                           *)
Fairness == \A u \in Urls : WF_vars(\E c \in Clients : TransferToServer(c, u))

FairSpec == Spec /\ Fairness

--------------------------------------------------------------------------------
Destinations ==
    {<<"none">>, <<"local">>, <<"unsent">>}
        \cup ({"client"} \X Clients)
        \cup ({"ack"} \X Endpoints)
        \cup ({"service", "ack"} \X Services \X Endpoints)

(* The values the tables, the last destination and the history take.        *)
TypeOK ==
    /\ up \in BOOLEAN
    /\ items \in SUBSET Configured
    /\ endpoints \in [Services -> Seq(Endpoints)]
    /\ count \in [Services -> [Endpoints -> Nat]]
    /\ bound \in SUBSET Urls
    /\ clients \in SUBSET Clients
    /\ out \in Destinations
    /\ bypass \in [Services -> [Endpoints -> [Endpoints -> Nat]]]

(* The list of a service never holds the same identity twice, however often *)
(* an instance restarts and registers again (add_server_endpoint).          *)
NoDuplicateEndpoint ==
    \A s \in Services : \A i, j \in DOMAIN endpoints[s] :
        endpoints[s][i] = endpoints[s][j] => i = j

(* A rule that forward_to_service has bound always has an endpoint to send  *)
(* to, so SendToNobody, a message lost behind a success code, never arises. *)
BoundRuleRoutable ==
    \A u \in bound :
        HasRule(u) /\ RuleName(u) \in items /\ endpoints[RuleName(u)] # <<>>

(* bypass[s][e][f] counts the messages get_service_endpoint gave to f since *)
(* it last gave one to e, or since e registered.  Whatever the order of     *)
(* registrations and resets, an endpoint is passed over at most twice by    *)
(* one listed before it, and at most max-count - 1 times by one listed      *)
(* after it, provided max-count is at least 2.                              *)
BypassBound(s, i, j) == IF j < i THEN 2 ELSE MaxCnt[s] - 1

BoundedBypass ==
    \A s \in Configured : MaxCnt[s] >= 2 =>
        \A i, j \in DOMAIN endpoints[s] :
            bypass[s][endpoints[s][i]][endpoints[s][j]] <= BypassBound(s, i, j)

(* Along the list of a service the counts never increase.                   *)
CountsDescend(s) ==
    \A i, j \in DOMAIN endpoints[s] :
        i < j => count[s][endpoints[s][j]] <= count[s][endpoints[s][i]]

(* How far e has been passed over by f: not at all, without a reset since e *)
(* was last served, or across exactly one reset.                            *)
PassedByEarlier(s, e, f) ==
    \/ bypass[s][e][f] = 0
    \/ bypass[s][e][f] = 1 /\ count[s][f] = count[s][e] + 1
    \/ /\ count[s][e] = 0
       /\ count[s][f] <= 1
       /\ bypass[s][e][f] <= 1 + count[s][f]

PassedByLater(s, e, f) ==
    \/ bypass[s][e][f] <= count[s][f]
    \/ count[s][e] = 0 /\ count[s][f] = 0 /\ bypass[s][e][f] <= MaxCnt[s] - 1

BypassAccount(s) ==
    \A i, j \in DOMAIN endpoints[s] :
        LET e == endpoints[s][i]
            f == endpoints[s][j]
        IN  /\ j < i => PassedByEarlier(s, e, f)
            /\ i < j => PassedByLater(s, e, f)
            /\ i = j => bypass[s][e][f] = 0

(* Nothing has been counted for or against an endpoint that is not listed.  *)
UnlistedUntouched(s) ==
    \A e, f \in Endpoints :
        e \notin Registered(s) \/ f \notin Registered(s) => bypass[s][e][f] = 0

(* The lists, the bound rules and the counts fit together.                  *)
DispatchInv ==
    /\ \A s \in Services : s \in items <=> endpoints[s] # <<>>
    /\ NoDuplicateEndpoint
    /\ BoundRuleRoutable
    /\ \A s \in Services : UnlistedUntouched(s)
    /\ \A s \in Configured : MaxCnt[s] >= 2 =>
          /\ \A e \in Endpoints : count[s][e] < MaxCnt[s]
          /\ CountsDescend(s)
          /\ BypassAccount(s)

(* The inductive invariant behind BoundedBypass and BoundRuleRoutable: the  *)
(* values of the tables, one entry per instance, bound rules that can be    *)
(* routed, counts that descend along a list and account for every bypass.   *)
IInv == TypeOK /\ DispatchInv

(* No handler widens the gap between the counts of two registered endpoints *)
(* beyond one message: a late joiner only catches up, and a reset does not  *)
(* reorder anybody.                                                         *)
GapNeverGrows ==
    [][\A s \in Services : \A e, f \in Registered(s) :
          up' /\ count'[s][e] > count'[s][f] + 1
            => count'[s][e] + count[s][f] <= count[s][e] + count'[s][f]]_vars

(* What the balancer promises, with its lists reduced to sets.              *)
Promise == INSTANCE Dispatcher WITH
        pool <- [s \in Services |-> Registered(s)],
        Rule <- {r \in Urls \X Services : HasRule(r[1]) /\ r[2] = RuleName(r[1])}

(* The balancer with its lists, counts, resets and bound rules implements   *)
(* Dispatcher: a message is handled locally only when no instance is        *)
(* registered for the service of its rule, it is never lost behind a        *)
(* success code, and no list or rule survives a restart.                    *)
RefinesDispatcher == Promise!Spec

Served(s, e) == out = <<"service", s, e>>

(* Every endpoint registered for a service that a rule names is given a     *)
(* message again and again while the process is up.                         *)
EveryEndpointServed ==
    \A s \in Configured, e \in Endpoints :
        (e \in Registered(s) /\ \E u \in Urls : HasRule(u) /\ RuleName(u) = s)
            ~> (Served(s, e) \/ ~ up)

================================================================================
