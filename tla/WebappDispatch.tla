---------------------------- MODULE WebappDispatch ----------------------------
(***************************************************************************)
(* The request and reply matching of the web core (webapp_socket_dispatch  *)
(* of zsfd/webcore/webapp.cpp), which every service of the edge cloud runs *)
(* on.  One thread polls its sockets and runs the handlers of the service: *)
(* on_request for a message of a caller, on_reply and then on_finish for   *)
(* the answer to a request of its own.  Inside a handler the service may   *)
(* create, send and delete requests and respond; response() answers the    *)
(* caller in the thread's `pending' slot, which is saved with each request *)
(* and restored while its answer is handled.                               *)
(*                                                                         *)
(* A request object is known by its address.  The peers and the network    *)
(* are external: an answer may come late, twice or never, also after this  *)
(* process has restarted.                                                  *)
(***************************************************************************)
EXTENDS Integers, FiniteSets

CONSTANTS
    Reqs,         \* addresses of wa_request objects
    Callers,      \* the peers that send requests to this process
    OneWay,       \* the callers whose messages have no REQ-REP pattern
    Sockets,      \* connections, one for each address of a peer
    SockOf,       \* the connection of each request object
    Named,        \* webcore.name is configured
    NoCaller,     \* an empty pending slot
    MaxSeq,       \* bound: requests sent in one life of the process
    MaxInc        \* bound: lives of the process

ASSUME DispatchAssumption ==
    /\ OneWay \subseteq Callers
    /\ SockOf \in [Reqs -> Sockets]
    /\ Named \in BOOLEAN
    /\ NoCaller \notin Callers
    /\ MaxSeq \in Nat
    /\ MaxInc \in Nat

VARIABLES
    reqItems,     \* _wa_sock_item_avltree: the requests with a socket item
    sockItems,    \* _wa_sock_avltree
    table,        \* _wa_request_avltree: the items of requests under way
    seqId,        \* _seq_id
    pending,      \* the thread's pending response
    frame,        \* the handler that runs
    freed,        \* the item whose answer is being handled has been deleted
    crashed,      \* memory that was freed has been touched in this life
    inc,          \* which life of the process this is
    net,          \* requests on their way to a peer and answers on their way back
    origin,       \* history: the caller each request is sent on behalf of
    replied,      \* history: the requests whose answer has been handled
    answers,      \* history: <<who a response was for, who it went to>>
    misused       \* history: the service broke the rule of SafeUnlessMisused

dispatcher == <<reqItems, sockItems, table, seqId, pending, frame, freed, crashed, inc>>
vars == <<dispatcher, net, origin, replied, answers, misused>>

Seqs == 0..(MaxSeq - 1)
Idle == [kind |-> "idle"]
Item == [sender : Reqs, prev : Callers \cup {NoCaller}]
Messages == [kind : {"request", "reply"}, to : 0..MaxInc, seq : Seqs, sock : Sockets]

InReply == frame.kind \in {"reply", "finish"}

(* On whose behalf the handler that runs acts.                              *)
Origin ==
    IF frame.kind = "idle" THEN NoCaller
    ELSE IF frame.kind = "request" THEN frame.caller ELSE origin[frame.seq]

Init ==
    /\ reqItems = {} /\ sockItems = {}
    /\ table = [s \in {} |-> <<>>]
    /\ seqId = 0
    /\ pending = NoCaller
    /\ frame = Idle /\ freed = FALSE /\ crashed = FALSE
    /\ inc = 0
    /\ net = {}
    /\ origin = [s \in Seqs |-> NoCaller]
    /\ replied = {}
    /\ answers = {}
    /\ misused = FALSE

--------------------------------------------------------------------------------
(* Plausible bugs of the dispatcher, for mutation runs only.                *)
PendingAfterKept == pending

ReleasedUnchecked == TRUE

TableAfterReleaseKept == table

--------------------------------------------------------------------------------
(* connect: the routing id is the configured name and a count that starts   *)
(* over with the process, so that it is the same in each life, or else a    *)
(* fresh uuid.                                                              *)
RoutingId == IF Named THEN 0 ELSE inc

(* create_request: socket items are shared by the requests to one address.  *)
CreateRequest(r) ==
    /\ r \notin reqItems
    /\ reqItems' = reqItems \cup {r}
    /\ sockItems' = sockItems \cup {SockOf[r]}
    /\ misused' = (misused \/ (InReply /\ freed /\ frame.sender = r))
    /\ UNCHANGED <<table, seqId, pending, frame, freed, crashed, inc, net, origin, replied,
                   answers>>

(* remove_webapp_request_unlock: the items of the request are deleted, the  *)
(* socket's if no other request uses it.                                    *)
TableAfterRemove(r) ==
    [s \in {q \in DOMAIN table : table[q].sender # r} |-> table[s]]

SocketsLeft(r) ==
    IF \E q \in reqItems \ {r} : SockOf[q] = SockOf[r]
    THEN sockItems
    ELSE sockItems \ {SockOf[r]}

RemoveRequest(r) ==
    /\ r \in reqItems
    /\ reqItems' = reqItems \ {r}
    /\ table' = TableAfterRemove(r)
    /\ sockItems' = SocketsLeft(r)
    /\ freed' = (freed \/ (InReply /\ frame.sender = r))
    /\ misused' = (misused \/ (frame.kind = "reply" /\ frame.sender = r))
    /\ UNCHANGED <<seqId, pending, frame, crashed, inc, net, origin, replied, answers>>

(* send: a REQ-REP request gets an item that remembers the pending response; *)
(* one without an answer only takes a sequence number.                      *)
PrevReply == pending
SentSeq == seqId

Send(r, reqRep) ==
    /\ r \in reqItems
    /\ seqId < MaxSeq
    /\ seqId' = seqId + 1
    /\ IF reqRep
       THEN /\ table' = [s \in DOMAIN table \cup {SentSeq} |->
                            IF s = SentSeq THEN [sender |-> r, prev |-> PrevReply] ELSE table[s]]
            /\ net' = net \cup {[kind |-> "request", to |-> RoutingId, seq |-> SentSeq,
                                 sock |-> SockOf[r]]}
            /\ origin' = [origin EXCEPT ![SentSeq] = Origin]
       ELSE UNCHANGED <<table, net, origin>>
    /\ UNCHANGED <<reqItems, sockItems, pending, frame, freed, crashed, inc, replied, answers,
                   misused>>

(* reply: nothing is sent without a pending response, or if the message it  *)
(* answers has no REQ-REP pattern.                                          *)
Response ==
    /\ pending \notin OneWay \cup {NoCaller}
    /\ answers' = answers \cup {<<Origin, pending>>}
    /\ UNCHANGED <<dispatcher, net, origin, replied, misused>>

(* What the service may do in a handler, in a timer or when it starts: no   *)
(* header asks it to refrain from anything.                                 *)
UserCode ==
    \/ \E r \in Reqs : CreateRequest(r) \/ RemoveRequest(r)
    \/ \E r \in Reqs, reqRep \in BOOLEAN : Send(r, reqRep)
    \/ Response

--------------------------------------------------------------------------------
PendingAfter == NoCaller

(* dispatch of a request: on_request runs with the caller pending.          *)
RecvRequest(c) ==
    /\ frame = Idle
    /\ frame' = [kind |-> "request", caller |-> c]
    /\ pending' = c
    /\ UNCHANGED <<reqItems, sockItems, table, seqId, freed, crashed, inc, net, origin,
                   replied, answers, misused>>

RequestDone ==
    /\ frame.kind = "request"
    /\ frame' = Idle
    /\ pending' = PendingAfter
    /\ UNCHANGED <<reqItems, sockItems, table, seqId, freed, crashed, inc, net, origin,
                   replied, answers, misused>>

(* dispatch of an answer: dropped if its socket has no item or its sequence *)
(* number is not in the table, and handled otherwise.                       *)
Delivered(m) == net' \in {net, net \ {m}}

ForMe(m) == m.kind = "reply" /\ m.to = RoutingId

Known(m) == m.sock \in sockItems /\ m.seq \in DOMAIN table

DropReply(m) ==
    /\ frame = Idle
    /\ ForMe(m) /\ ~ Known(m)
    /\ net' = net \ {m}
    /\ UNCHANGED <<dispatcher, origin, replied, answers, misused>>

RecvReply(m) ==
    /\ frame = Idle
    /\ ForMe(m) /\ Known(m)
    /\ Delivered(m)
    /\ pending' = table[m.seq].prev
    /\ frame' = [kind |-> "reply", seq |-> m.seq, sender |-> table[m.seq].sender]
    /\ freed' = FALSE
    /\ replied' = replied \cup {m.seq}
    /\ UNCHANGED <<reqItems, sockItems, table, seqId, crashed, inc, origin, answers, misused>>

(* on_reply has returned: on_finish of the same sender is called, also if   *)
(* on_reply has deleted it.  What follows a use of freed memory is one of   *)
(* the outcomes a build has: the process dies (see Restart), or goes on     *)
(* with what the memory still holds.                                        *)
SenderGone == freed /\ frame.sender \notin reqItems

ReplyDone ==
    /\ frame.kind = "reply"
    /\ frame' = [frame EXCEPT !.kind = "finish"]
    /\ crashed' = (crashed \/ SenderGone)
    /\ UNCHANGED <<reqItems, sockItems, table, seqId, pending, freed, inc, net, origin,
                   replied, answers, misused>>

(* on_finish has returned: release_webapp_request_unlock deletes the item,  *)
(* unless the sender, known by its address, has no socket item any more.    *)
(* The memory of an item deleted before may hold another one by now.        *)
Released == frame.sender \in reqItems

TableAfterRelease == [s \in DOMAIN table \ {frame.seq} |-> table[s]]

FinishDone ==
    /\ frame.kind = "finish"
    /\ frame' = Idle
    /\ pending' = PendingAfter
    /\ IF Released
       THEN /\ \/ table' = TableAfterRelease
               \/ /\ freed
                  /\ \E q \in DOMAIN table : table' = [s \in DOMAIN table \ {q} |-> table[s]]
            /\ crashed' = (crashed \/ freed)
       ELSE UNCHANGED <<table, crashed>>
    /\ freed' = FALSE
    /\ UNCHANGED <<reqItems, sockItems, seqId, inc, net, origin, replied, answers, misused>>

--------------------------------------------------------------------------------
(* External: a peer answers, possibly twice (see Delivered).                *)
PeerAnswers(m) ==
    /\ m.kind = "request"
    /\ net' = (net \ {m}) \cup {[m EXCEPT !.kind = "reply"]}
    /\ UNCHANGED <<dispatcher, origin, replied, answers, misused>>

(* The process dies at any point and starts again.                          *)
Restart ==
    /\ inc < MaxInc
    /\ inc' = inc + 1
    /\ reqItems' = {} /\ sockItems' = {}
    /\ table' = [s \in {} |-> <<>>]
    /\ seqId' = 0
    /\ pending' = NoCaller
    /\ frame' = Idle /\ freed' = FALSE /\ crashed' = FALSE
    /\ origin' = [s \in Seqs |-> NoCaller]
    /\ replied' = {}
    /\ misused' = FALSE
    /\ UNCHANGED <<net, answers>>

Next ==
    \/ UserCode
    \/ \E c \in Callers : RecvRequest(c)
    \/ RequestDone
    \/ \E m \in net : DropReply(m) \/ RecvReply(m) \/ PeerAnswers(m)
    \/ ReplyDone
    \/ FinishDone
    \/ Restart

Spec == Init /\ [][Next]_vars

--------------------------------------------------------------------------------
Frames ==
    {Idle} \cup [kind : {"request"}, caller : Callers]
        \cup [kind : {"reply", "finish"}, seq : Seqs, sender : Reqs]

(* The values the dispatcher's tables and the network take.                 *)
TypeOK ==
    /\ reqItems \in SUBSET Reqs
    /\ sockItems \in SUBSET Sockets
    /\ DOMAIN table \in SUBSET Seqs
    /\ \A s \in DOMAIN table : table[s] \in Item
    /\ seqId \in 0..MaxSeq
    /\ pending \in Callers \cup {NoCaller}
    /\ frame \in Frames
    /\ freed \in BOOLEAN /\ crashed \in BOOLEAN /\ misused \in BOOLEAN
    /\ inc \in 0..MaxInc
    /\ net \in SUBSET Messages
    /\ origin \in [Seqs -> Callers \cup {NoCaller}]
    /\ replied \in SUBSET Seqs
    /\ answers \in SUBSET ((Callers \cup {NoCaller}) \X (Callers \cup {NoCaller}))

(* A response made while the answer to a request is handled goes to the     *)
(* caller on whose behalf that request was sent, through any chain of       *)
(* requests and whatever was handled in between; a response made outside of *)
(* any such handler goes to nobody.                                         *)
ResponsesReachCaller ==
    /\ pending = Origin
    /\ \A a \in answers : a[1] = a[2]

(* Handlers may delete requests, create others at the same address and      *)
(* send, whatever answers are under way: dispatch and release_webapp_       *)
(* request_unlock touch a deleted sender or item only after an on_reply has *)
(* deleted the very request it answers, or a handler has put another at the *)
(* address of that request once deleted.  And no item under way ever names  *)
(* a sender that is gone, so that the next on_reply has one to run on.      *)
SafeUnlessMisused ==
    /\ crashed => misused
    /\ \A s \in DOMAIN table : table[s].sender \in reqItems

(* A connection has a socket item exactly while some request uses it.       *)
SocketsInUse == sockItems = {SockOf[r] : r \in reqItems}

(* No request has its answer handled twice, although a peer may send two.   *)
HandledOnce == [][frame = Idle /\ frame'.kind = "reply" => frame'.seq \notin replied]_vars

================================================================================
