------------------------------- MODULE Dispatcher -------------------------------
(***************************************************************************)
(* What the load balancer promises, without its tables: a message with a   *)
(* rule goes to an instance that is registered for the service of the      *)
(* rule, whenever there is one, and is handled locally otherwise; answers  *)
(* are passed on; pushes go to the vehicles heard of since the start.      *)
(* LoadBalance implements it (LoadBalance!RefinesDispatcher), and the      *)
(* composition EdgeCloud is built on it.                                   *)
(***************************************************************************)
CONSTANTS
    Clients,      \* vehicles
    Endpoints,    \* service instances
    Services,     \* service names
    Configured,   \* the names with a configuration entry
    Urls,         \* url names
    Rule          \* <<url, service>>: at most one for each url

VARIABLES
    up,           \* the process runs
    pool,         \* the instances registered for each service
    clients,      \* the vehicles heard of
    out           \* what became of the last message

vars == <<up, pool, clients, out>>

Init ==
    /\ up = TRUE
    /\ pool = [s \in Services |-> {}]
    /\ clients = {}
    /\ out = <<"none">>

(* The instances that may get a message with url u.                         *)
Eligible(u) == {d \in Services \X Endpoints : <<u, d[1]>> \in Rule /\ d[2] \in pool[d[1]]}

Forward(u) ==
    \/ \E d \in Eligible(u) : out' = <<"service", d[1], d[2]>>
    \/ Eligible(u) = {} /\ out' = <<"local">>

(* A plausible bug, for mutation runs only: the identity is not recorded.   *)
TransferToServerForgetting(c, u) ==
    /\ up
    /\ Forward(u)
    /\ UNCHANGED <<up, pool, clients>>

(* A message of a vehicle, or one of a service instance.                    *)
TransferToServer(c, u) ==
    /\ up
    /\ clients' = clients \cup {c}
    /\ Forward(u)
    /\ UNCHANGED <<up, pool>>

ServiceRequest(u) ==
    /\ up
    /\ Forward(u)
    /\ UNCHANGED <<up, pool, clients>>

(* A message that cannot be read, of a vehicle or of an instance.           *)
Malformed ==
    /\ up
    /\ clients' = clients \/ \E c \in Clients : clients' = clients \cup {c}
    /\ out' = <<"local">>
    /\ UNCHANGED <<up, pool>>

ServiceRegister(s, e) ==
    /\ up
    /\ s \in Configured
    /\ pool' = [pool EXCEPT ![s] = pool[s] \cup {e}]
    /\ out' = <<"ack", s, e>>
    /\ UNCHANGED <<up, clients>>

RegisterNameless(e) ==
    /\ up
    /\ out' = <<"ack", e>>
    /\ UNCHANGED <<up, pool, clients>>

RelayReply(c) ==
    /\ up
    /\ out' = <<"client", c>>
    /\ UNCHANGED <<up, pool, clients>>

DistributeMsg(c) ==
    /\ up
    /\ out' = IF c \in clients THEN <<"client", c>> ELSE <<"local">>
    /\ UNCHANGED <<up, pool, clients>>

Crash ==
    /\ up
    /\ up' = FALSE
    /\ pool' = [s \in Services |-> {}]
    /\ clients' = {}
    /\ out' = <<"none">>

Restart ==
    /\ ~ up
    /\ up' = TRUE
    /\ UNCHANGED <<pool, clients, out>>

Next ==
    \/ \E c \in Clients, u \in Urls : TransferToServer(c, u)
    \/ \E u \in Urls : ServiceRequest(u)
    \/ Malformed
    \/ \E s \in Services, e \in Endpoints : ServiceRegister(s, e)
    \/ \E e \in Endpoints : RegisterNameless(e)
    \/ \E c \in Clients : RelayReply(c) \/ DistributeMsg(c)
    \/ Crash
    \/ Restart

Spec == Init /\ [][Next]_vars

================================================================================
