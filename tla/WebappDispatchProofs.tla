------------------------- MODULE WebappDispatchProofs -------------------------
(***************************************************************************)
(* Proofs about WebappDispatch, for any number of requests, callers and    *)
(* connections and any bound on sequence numbers and restarts.             *)
(***************************************************************************)
EXTENDS WebappDispatch, TLAPS

(* What the items of requests under way remember is true.                   *)
TableInv ==
    \A s \in DOMAIN table :
        s < seqId /\ table[s].prev = origin[s] /\ table[s].sender \in reqItems

(* The item whose answer is being handled is in the table, unless a handler *)
(* has deleted its request; then the request has no socket item either,     *)
(* unless the service has broken the rule.                                  *)
FrameInv ==
    /\ ~ InReply => freed = FALSE
    /\ InReply => /\ frame.seq < seqId
                  /\ frame.seq \in replied
                  /\ freed = FALSE => /\ frame.seq \in DOMAIN table
                                      /\ table[frame.seq].sender = frame.sender
                  /\ freed => /\ frame.seq \notin DOMAIN table
                              /\ misused \/ (frame.kind = "finish" /\ frame.sender \notin reqItems)

(* Of the requests that had their answer only the one in hand is known.     *)
RepliedInv ==
    \A s \in replied : s < seqId /\ (s \in DOMAIN table => InReply /\ s = frame.seq)

IInv ==
    /\ TypeOK
    /\ ResponsesReachCaller
    /\ SafeUnlessMisused
    /\ SocketsInUse
    /\ TableInv /\ FrameInv /\ RepliedInv

--------------------------------------------------------------------------------
(* The handler that runs is one of four kinds, each with its own fields.    *)
LEMMA FrameFacts ==
  ASSUME TypeOK
  PROVE  /\ frame.kind \in {"idle", "request", "reply", "finish"}
         /\ frame.kind = "idle" <=> frame = Idle
         /\ frame.kind = "request" => frame.caller \in Callers
         /\ InReply => /\ frame.seq \in Seqs
                       /\ frame.sender \in Reqs
<1>1. frame \in Frames
  BY DEF TypeOK
<1>2. CASE frame = Idle
  BY <1>2 DEF Idle, InReply
<1>3. CASE frame \in [kind : {"request"}, caller : Callers]
  <2>1. PICK c \in Callers : frame = [kind |-> "request", caller |-> c]
    BY <1>3
  <2> QED
    BY <2>1 DEF Idle, InReply
<1>4. CASE frame \in [kind : {"reply", "finish"}, seq : Seqs, sender : Reqs]
  BY <1>4 DEF Idle, InReply
<1> QED
  BY <1>1, <1>2, <1>3, <1>4 DEF Frames

(* On whose behalf each kind of handler acts.                               *)
LEMMA OriginFacts ==
  ASSUME TypeOK
  PROVE  /\ frame.kind = "idle" => Origin = NoCaller
         /\ frame.kind = "request" => Origin = frame.caller
         /\ InReply => Origin = origin[frame.seq]
         /\ Origin \in Callers \cup {NoCaller}
<1>1. /\ frame.kind = "idle" => Origin = NoCaller
      /\ frame.kind = "request" => Origin = frame.caller
      /\ InReply => Origin = origin[frame.seq]
  BY FrameFacts DEF Origin, InReply
<1>2. frame.kind \in {"idle", "request"} \/ InReply
  BY FrameFacts DEF InReply
<1>3. InReply => origin[frame.seq] \in Callers \cup {NoCaller}
  BY FrameFacts DEF TypeOK
<1> QED
  BY <1>1, <1>2, <1>3, FrameFacts

(* create_request does not touch the items of requests under way.           *)
LEMMA CreateKeeps ==
  ASSUME IInv, NEW r \in Reqs, CreateRequest(r)
  PROVE  IInv'
<1>0. TypeOK
  BY DEF IInv
<1>a. misused' \in BOOLEAN /\ (misused => misused')
  BY DEF CreateRequest
<1>1. TypeOK'
  BY <1>0, <1>a, DispatchAssumption DEF CreateRequest, TypeOK
<1>2. Origin' = Origin
  BY DEF CreateRequest, Origin, InReply
<1>3. ResponsesReachCaller'
  BY <1>2 DEF IInv, ResponsesReachCaller, CreateRequest
<1>4. SafeUnlessMisused' /\ TableInv' /\ RepliedInv'
  BY <1>a DEF IInv, SafeUnlessMisused, TableInv, RepliedInv, InReply,
         CreateRequest
<1>5. SocketsInUse'
  BY DEF IInv, SocketsInUse, CreateRequest
<1>6. FrameInv'
  BY DEF IInv, FrameInv, InReply, CreateRequest
<1> QED
  BY <1>1, <1>3, <1>4, <1>5, <1>6 DEF IInv

(* remove_request deletes every item of the request.                        *)
LEMMA RemoveKeeps ==
  ASSUME IInv, NEW r \in Reqs, RemoveRequest(r)
  PROVE  IInv'
<1>0. TypeOK
  BY DEF IInv
<1>a. /\ DOMAIN table' = {q \in DOMAIN table : table[q].sender # r}
      /\ \A s \in DOMAIN table' : table'[s] = table[s] /\ table[s].sender # r
  BY DEF RemoveRequest, TableAfterRemove
<1>b. freed' \in BOOLEAN /\ misused' \in BOOLEAN /\ (misused => misused')
  BY DEF RemoveRequest
<1>1. TypeOK'
  <2>1. DOMAIN table' \in SUBSET Seqs /\ \A s \in DOMAIN table' : table'[s] \in Item
    BY <1>0, <1>a DEF TypeOK
  <2>2. sockItems' \in SUBSET Sockets /\ reqItems' \in SUBSET Reqs
    BY <1>0 DEF TypeOK, RemoveRequest, SocketsLeft
  <2> QED
    BY <1>0, <1>b, <2>1, <2>2 DEF RemoveRequest, TypeOK
<1>2. Origin' = Origin
  BY DEF RemoveRequest, Origin, InReply
<1>3. ResponsesReachCaller'
  BY <1>2 DEF IInv, ResponsesReachCaller, RemoveRequest
<1>4. SafeUnlessMisused' /\ TableInv'
  BY <1>a DEF IInv, SafeUnlessMisused, TableInv, RemoveRequest
<1>5. RepliedInv'
  BY <1>a DEF IInv, RepliedInv, InReply, RemoveRequest
<1>6. SocketsInUse'
  <2>1. sockItems = {SockOf[q] : q \in reqItems} /\ r \in reqItems
    BY DEF IInv, SocketsInUse, RemoveRequest
  <2>2. CASE \E q \in reqItems \ {r} : SockOf[q] = SockOf[r]
    BY <2>1, <2>2 DEF SocketsInUse, RemoveRequest, SocketsLeft
  <2>3. CASE ~ \E q \in reqItems \ {r} : SockOf[q] = SockOf[r]
    BY <2>1, <2>3 DEF SocketsInUse, RemoveRequest, SocketsLeft
  <2> QED
    BY <2>2, <2>3
<1>7. FrameInv'
  <2>1. frame' = frame /\ seqId' = seqId /\ replied' = replied /\ reqItems' = reqItems \ {r}
    BY DEF RemoveRequest
  <2>2. CASE InReply /\ frame.sender = r
    <3>1. freed' = TRUE /\ (misused' \/ (frame'.kind = "finish" /\ frame'.sender \notin reqItems'))
      BY <2>1, <2>2 DEF RemoveRequest, InReply
    <3>2. frame.seq \notin DOMAIN table'
      BY <1>a, <2>2 DEF IInv, FrameInv, TypeOK
    <3> QED
      BY <2>1, <2>2, <3>1, <3>2 DEF IInv, FrameInv, InReply
  <2>3. CASE ~ (InReply /\ frame.sender = r)
    <3>1. freed' = freed
      BY <1>0, <2>3 DEF RemoveRequest, TypeOK
    <3> QED
      BY <1>a, <1>b, <2>1, <2>3, <3>1 DEF IInv, FrameInv, InReply
  <2> QED
    BY <2>2, <2>3
<1> QED
  BY <1>1, <1>3, <1>4, <1>5, <1>6, <1>7 DEF IInv

(* send takes a sequence number that no item and no handler has yet.        *)
LEMMA SendKeeps ==
  ASSUME IInv, NEW r \in Reqs, NEW reqRep \in BOOLEAN, Send(r, reqRep)
  PROVE  IInv'
<1>0. TypeOK /\ pending = Origin
  BY DEF IInv, ResponsesReachCaller
<1>a. /\ seqId \in Seqs /\ seqId \in Nat /\ seqId' = seqId + 1 /\ r \in reqItems
      /\ seqId' \in 0..MaxSeq
      /\ UNCHANGED <<reqItems, sockItems, pending, frame, freed, crashed, inc, replied,
                     answers, misused>>
  BY <1>0, DispatchAssumption DEF TypeOK, Send, Seqs
<1>b. Origin \in Callers \cup {NoCaller}
  BY <1>0, OriginFacts
<1>c. InReply' = InReply
  BY <1>a DEF InReply
<1>1. CASE reqRep
  <2>1. /\ table' = [s \in DOMAIN table \cup {seqId} |->
                        IF s = seqId THEN [sender |-> r, prev |-> pending] ELSE table[s]]
        /\ net' = net \cup {[kind |-> "request", to |-> RoutingId, seq |-> seqId,
                             sock |-> SockOf[r]]}
        /\ origin' = [origin EXCEPT ![seqId] = Origin]
    BY <1>1 DEF Send, SentSeq, PrevReply
  <2>2. /\ DOMAIN table' = DOMAIN table \cup {seqId}
        /\ table'[seqId] = [sender |-> r, prev |-> pending]
        /\ seqId \notin DOMAIN table
        /\ \A s \in DOMAIN table : table'[s] = table[s]
    <3>1. \A s \in DOMAIN table : s < seqId /\ s \in Nat
      BY <1>0 DEF IInv, TableInv, TypeOK, Seqs
    <3>2. seqId \notin DOMAIN table
      BY <1>a, <3>1
    <3> QED
      BY <2>1, <3>2
  <2>3. /\ origin' \in [Seqs -> Callers \cup {NoCaller}]
        /\ origin'[seqId] = pending
        /\ \A s \in Seqs : s # seqId => origin'[s] = origin[s]
    BY <1>0, <1>a, <1>b, <2>1 DEF TypeOK
  <2>4. TypeOK'
    <3>1. [sender |-> r, prev |-> pending] \in Item
      BY <1>0 DEF TypeOK, Item
    <3>2. DOMAIN table' \in SUBSET Seqs /\ \A s \in DOMAIN table' : table'[s] \in Item
      BY <1>0, <1>a, <2>2, <3>1 DEF TypeOK
    <3>3. RoutingId \in 0..MaxInc
      BY <1>0, DispatchAssumption DEF RoutingId, TypeOK
    <3>4. net' \in SUBSET Messages
      BY <1>0, <1>a, <2>1, <3>3, DispatchAssumption DEF TypeOK, Messages
    <3> QED
      BY <1>0, <1>a, <2>3, <3>2, <3>4 DEF TypeOK
  <2>5. InReply => frame.seq \in Seqs /\ frame.seq # seqId
    BY <1>0, <1>a, FrameFacts DEF IInv, FrameInv, Seqs
  <2>6. Origin' = Origin
    BY <1>0, <1>a, <2>3, <2>5, FrameFacts DEF Origin, InReply
  <2>7. ResponsesReachCaller'
    BY <1>a, <2>6 DEF IInv, ResponsesReachCaller
  <2>8. SafeUnlessMisused' /\ SocketsInUse'
    BY <1>a, <1>c, <2>2 DEF IInv, SafeUnlessMisused, SocketsInUse
  <2>9. TableInv'
    <3> SUFFICES ASSUME NEW s \in DOMAIN table'
                 PROVE  s < seqId' /\ table'[s].prev = origin'[s] /\ table'[s].sender \in reqItems'
      BY DEF TableInv
    <3>1. CASE s = seqId
      BY <1>a, <2>2, <2>3, <3>1
    <3>2. CASE s \in DOMAIN table
      <4>1. s \in Seqs /\ s # seqId /\ s \in Nat
        BY <1>0, <2>2, <3>2 DEF TypeOK, Seqs
      <4>2. s < seqId /\ table[s].prev = origin[s] /\ table[s].sender \in reqItems
        BY <3>2 DEF IInv, TableInv
      <4>3. s < seqId'
        BY <1>a, <4>1, <4>2
      <4>4. table'[s] = table[s] /\ origin'[s] = origin[s]
        BY <2>2, <2>3, <3>2, <4>1
      <4> QED
        BY <1>a, <4>2, <4>3, <4>4
    <3> QED
      BY <2>2, <3>1, <3>2
  <2>10. FrameInv'
    <3>1. ASSUME InReply PROVE frame.seq < seqId'
      BY <1>0, <1>a, <3>1, <2>5 DEF IInv, FrameInv, Seqs
    <3> QED
      BY <1>a, <1>c, <2>2, <2>5, <3>1 DEF IInv, FrameInv
  <2>11. RepliedInv'
    <3> SUFFICES ASSUME NEW s \in replied
                 PROVE  s < seqId' /\ (s \in DOMAIN table' => InReply' /\ s = frame'.seq)
      BY <1>a DEF RepliedInv
    <3>1. s < seqId /\ s \in Nat /\ (s \in DOMAIN table => InReply /\ s = frame.seq)
      BY <1>0 DEF IInv, RepliedInv, TypeOK, Seqs
    <3>2. s < seqId' /\ s # seqId
      BY <1>a, <3>1
    <3> QED
      BY <1>a, <1>c, <2>2, <3>1, <3>2
  <2> QED
    BY <2>4, <2>7, <2>8, <2>9, <2>10, <2>11 DEF IInv
<1>2. CASE ~ reqRep
  <2>1. UNCHANGED <<table, net, origin>>
    BY <1>2 DEF Send
  <2>2. TypeOK'
    BY <1>0, <1>a, <2>1 DEF TypeOK
  <2>3. Origin' = Origin
    BY <1>a, <2>1 DEF Origin, InReply
  <2>4. \A s \in Seqs : s < seqId => s < seqId'
    BY <1>a DEF Seqs
  <2>5. TableInv'
    BY <1>0, <1>a, <2>1, <2>4 DEF IInv, TableInv, TypeOK
  <2>6. RepliedInv'
    BY <1>0, <1>a, <1>c, <2>1, <2>4 DEF IInv, RepliedInv, TypeOK
  <2>7. FrameInv'
    BY <1>0, <1>a, <1>c, <2>1, <2>4, FrameFacts DEF IInv, FrameInv
  <2>8. ResponsesReachCaller'
    BY <1>a, <2>3 DEF IInv, ResponsesReachCaller
  <2> QED
    BY <1>a, <1>c, <2>1, <2>2, <2>5, <2>6, <2>7, <2>8
    DEF IInv, SafeUnlessMisused, SocketsInUse
<1> QED
  BY <1>1, <1>2

(* response() goes to the caller the running handler acts for.              *)
LEMMA ResponseKeeps ==
  ASSUME IInv, Response
  PROVE  IInv'
<1>0. TypeOK /\ pending = Origin
  BY DEF IInv, ResponsesReachCaller
<1>1. <<Origin, pending>> \in (Callers \cup {NoCaller}) \X (Callers \cup {NoCaller})
  BY <1>0 DEF TypeOK
<1>2. TypeOK'
  BY <1>0, <1>1 DEF Response, dispatcher, TypeOK
<1>3. Origin' = Origin
  BY DEF Response, dispatcher, Origin
<1>4. ResponsesReachCaller'
  BY <1>0, <1>3 DEF Response, dispatcher, IInv, ResponsesReachCaller
<1> QED
  BY <1>2, <1>4 DEF Response, dispatcher, IInv, SafeUnlessMisused, SocketsInUse,
                    TableInv, FrameInv, RepliedInv, InReply

(* on_request starts with its caller pending, and nothing is pending when   *)
(* it has returned.                                                         *)
LEMMA RequestKeeps ==
  ASSUME IInv, (\E c \in Callers : RecvRequest(c)) \/ RequestDone
  PROVE  IInv'
<1>0. TypeOK
  BY DEF IInv
<1>1. ~ InReply /\ ~ InReply'
  BY DEF RecvRequest, RequestDone, InReply, Idle
<1>2. frame' \in Frames /\ pending' = Origin' /\ pending' \in Callers \cup {NoCaller}
  BY DEF RecvRequest, RequestDone, PendingAfter, Frames, Origin, Idle
<1>3. UNCHANGED <<reqItems, sockItems, table, seqId, freed, crashed, inc, net, origin,
                  replied, answers, misused>>
  BY DEF RecvRequest, RequestDone
<1>4. frame.kind # "finish" /\ frame'.kind # "finish"
  BY <1>1 DEF InReply
<1>5. TypeOK'
  BY <1>0, <1>2, <1>3 DEF TypeOK
<1>6. ResponsesReachCaller'
  BY <1>2, <1>3 DEF IInv, ResponsesReachCaller
<1>7. FrameInv' /\ RepliedInv'
  BY <1>1, <1>3, <1>4 DEF IInv, FrameInv, RepliedInv
<1> QED
  BY <1>1, <1>3, <1>5, <1>6, <1>7
  DEF IInv, SafeUnlessMisused, SocketsInUse, TableInv

(* Messages that are dropped, and answers of peers.                         *)
LEMMA NetworkKeeps ==
  ASSUME IInv, NEW m \in net, DropReply(m) \/ PeerAnswers(m)
  PROVE  IInv'
<1>0. TypeOK
  BY DEF IInv
<1>1. UNCHANGED <<dispatcher, origin, replied, answers, misused>>
  BY DEF DropReply, PeerAnswers
<1>2. m \in Messages /\ [m EXCEPT !.kind = "reply"] \in Messages
  BY <1>0 DEF TypeOK, Messages
<1>4. net' \in SUBSET Messages
  BY <1>0, <1>2 DEF DropReply, PeerAnswers, TypeOK
<1>6. TypeOK'
  BY <1>0, <1>1, <1>4 DEF dispatcher, TypeOK
<1> QED
  BY <1>1, <1>6 DEF dispatcher, IInv, ResponsesReachCaller, Origin, SafeUnlessMisused,
                         SocketsInUse, TableInv, FrameInv, RepliedInv, InReply

(* An answer is handled for the item its sequence number names, with the    *)
(* response that was pending when the request was sent.                     *)
LEMMA ReplyKeeps ==
  ASSUME IInv, NEW m \in net, RecvReply(m)
  PROVE  IInv' /\ m.seq \notin replied
<1>0. TypeOK
  BY DEF IInv
<1>1. /\ m.seq \in DOMAIN table /\ m.to = RoutingId /\ frame.kind = "idle"
      /\ frame' = [kind |-> "reply", seq |-> m.seq, sender |-> table[m.seq].sender]
      /\ pending' = table[m.seq].prev
      /\ freed' = FALSE
      /\ replied' = replied \cup {m.seq}
      /\ net' \in {net, net \ {m}}
      /\ UNCHANGED <<reqItems, sockItems, table, seqId, crashed, inc, origin, answers, misused>>
  BY DEF RecvReply, ForMe, Known, Delivered, Idle
<1>2. /\ m.seq \in Seqs
      /\ table[m.seq].sender \in Reqs
      /\ table[m.seq].prev \in Callers \cup {NoCaller}
  BY <1>0, <1>1 DEF TypeOK, Item, Messages
<1>3. frame' \in Frames
  BY <1>1, <1>2 DEF Frames
<1>4. TypeOK'
  BY <1>0, <1>1, <1>2, <1>3 DEF TypeOK
<1>5. ~ InReply /\ InReply' /\ frame'.seq = m.seq
      /\ frame'.sender = table[m.seq].sender /\ frame'.kind = "reply"
  BY <1>1 DEF InReply
<1>6. m.seq < seqId /\ table[m.seq].prev = origin[m.seq]
  BY <1>1 DEF IInv, TableInv
<1>7. ResponsesReachCaller'
  BY <1>1, <1>5, <1>6 DEF IInv, ResponsesReachCaller, Origin
<1>9. FrameInv'
  BY <1>1, <1>5, <1>6 DEF FrameInv
<1>10. RepliedInv' /\ m.seq \notin replied
  BY <1>1, <1>5, <1>6 DEF IInv, RepliedInv
<1> QED
  BY <1>1, <1>4, <1>7, <1>9, <1>10
  DEF IInv, SafeUnlessMisused, SocketsInUse, TableInv

(* on_finish follows on_reply with nothing changed in between.              *)
LEMMA ReplyDoneKeeps ==
  ASSUME IInv, ReplyDone
  PROVE  IInv'
<1>0. TypeOK
  BY DEF IInv
<1>1. /\ frame.kind = "reply"
      /\ frame' = [frame EXCEPT !.kind = "finish"]
      /\ UNCHANGED <<reqItems, sockItems, table, seqId, pending, freed, inc, net, origin,
                     replied, answers, misused>>
      /\ crashed' \in BOOLEAN
  BY DEF ReplyDone
<1>2. frame \in [kind : {"reply", "finish"}, seq : Seqs, sender : Reqs]
  <2>1. frame \in Frames /\ frame # Idle
    BY <1>0, <1>1 DEF TypeOK, Idle
  <2>2. frame \notin [kind : {"request"}, caller : Callers]
    BY <1>1
  <2> QED
    BY <2>1, <2>2 DEF Frames
<1>3. /\ frame'.kind = "finish" /\ frame'.seq = frame.seq /\ frame'.sender = frame.sender
      /\ frame' \in Frames
  BY <1>1, <1>2 DEF Frames
<1>4. TypeOK'
  BY <1>0, <1>1, <1>3 DEF TypeOK
<1>5. InReply /\ InReply' /\ Origin' = Origin
  BY <1>1, <1>3 DEF InReply, Origin
<1>6. crashed' => misused'
  <2>1. SenderGone => misused
    BY <1>1, <1>5 DEF IInv, FrameInv, SenderGone
  <2>2. crashed' = (crashed \/ SenderGone)
    BY DEF ReplyDone
  <2>3. (crashed => misused) /\ misused' = misused
    BY <1>1 DEF IInv, SafeUnlessMisused
  <2> QED
    BY <2>1, <2>2, <2>3, Zenon
<1> QED
  BY <1>1, <1>3, <1>4, <1>5, <1>6
  DEF IInv, ResponsesReachCaller, SafeUnlessMisused, SocketsInUse, TableInv,
      FrameInv, RepliedInv

(* The item of an answered request is deleted exactly once: by remove_      *)
(* request if the handler has deleted the request, and here otherwise.      *)
LEMMA FinishKeeps ==
  ASSUME IInv, FinishDone
  PROVE  IInv'
<1>0. TypeOK
  BY DEF IInv
<1>1. /\ frame.kind = "finish" /\ InReply
      /\ frame' = Idle /\ pending' = NoCaller /\ freed' = FALSE
      /\ UNCHANGED <<reqItems, sockItems, seqId, inc, net, origin, replied, answers, misused>>
  BY DEF FinishDone, PendingAfter, InReply
<1>2. ~ InReply' /\ frame'.kind = "idle" /\ frame' \in Frames /\ Origin' = NoCaller
  BY <1>1 DEF InReply, Idle, Frames, Origin
<1>3. /\ DOMAIN table' \subseteq DOMAIN table \ {frame.seq}
      /\ \A s \in DOMAIN table' : table'[s] = table[s]
      /\ crashed' \in BOOLEAN /\ (crashed' => misused)
  <2>0. freed => frame.seq \notin DOMAIN table
    BY <1>1 DEF IInv, FrameInv
  <2>1. CASE Released
    <3>1. freed => misused
      BY <1>1, <2>1 DEF IInv, FrameInv, Released
    <3>2. crashed' \in BOOLEAN /\ (crashed' => misused)
      BY <2>1, <3>1 DEF FinishDone, IInv, SafeUnlessMisused
    <3>3. CASE table' = TableAfterRelease
      BY <3>2, <3>3 DEF TableAfterRelease
    <3>4. CASE /\ freed
               /\ \E q \in DOMAIN table : table' = [s \in DOMAIN table \ {q} |-> table[s]]
      BY <2>0, <3>2, <3>4
    <3> QED
      BY <2>1, <3>3, <3>4 DEF FinishDone
  <2>2. CASE ~ Released
    <3>1. freed = TRUE
      BY <1>0, <1>1, <2>2 DEF IInv, FrameInv, TableInv, Released, TypeOK
    <3> QED
      BY <1>0, <2>0, <2>2, <3>1 DEF FinishDone, IInv, SafeUnlessMisused, TypeOK
  <2> QED
    BY <2>1, <2>2
<1>4. TypeOK'
  BY <1>0, <1>1, <1>2, <1>3 DEF TypeOK
<1>5. FrameInv' /\ RepliedInv'
  BY <1>1, <1>2, <1>3 DEF IInv, FrameInv, RepliedInv
<1> QED
  BY <1>1, <1>2, <1>3, <1>4, <1>5
  DEF IInv, ResponsesReachCaller, SafeUnlessMisused, SocketsInUse, TableInv

(* A new life starts with empty tables; only the network remembers.         *)
LEMMA RestartKeeps ==
  ASSUME IInv, Restart
  PROVE  IInv'
<1>0. TypeOK
  BY DEF IInv
<1>1. DOMAIN table' = {} /\ frame' = Idle /\ replied' = {} /\ reqItems' = {}
      /\ sockItems' = {} /\ freed' = FALSE /\ pending' = NoCaller /\ seqId' = 0
      /\ misused' = FALSE /\ crashed' = FALSE
      /\ UNCHANGED <<net, answers>>
  BY DEF Restart
<1>2. ~ InReply' /\ frame'.kind = "idle" /\ frame' \in Frames /\ Origin' = NoCaller
  BY <1>1 DEF InReply, Idle, Frames, Origin
<1>3. inc' \in 0..MaxInc /\ origin' \in [Seqs -> Callers \cup {NoCaller}] /\ 0 \in 0..MaxSeq
  BY <1>0, DispatchAssumption DEF Restart, TypeOK
<1>4. TypeOK'
  BY <1>0, <1>1, <1>2, <1>3 DEF TypeOK
<1> QED
  BY <1>1, <1>2, <1>4
  DEF IInv, ResponsesReachCaller, SafeUnlessMisused, SocketsInUse, TableInv,
      FrameInv, RepliedInv

--------------------------------------------------------------------------------
(* The inductive invariant of the dispatcher.                               *)
THEOREM DispatchInvariant == Spec => []IInv
<1>1. Init => IInv
  <2> SUFFICES ASSUME Init PROVE IInv
    OBVIOUS
  <2>1. DOMAIN table = {} /\ ~ InReply /\ frame.kind = "idle" /\ frame \in Frames
        /\ Origin = NoCaller
    BY DEF Init, InReply, Idle, Frames, Origin
  <2>2. 0 \in 0..MaxSeq /\ 0 \in 0..MaxInc /\ origin \in [Seqs -> Callers \cup {NoCaller}]
    BY DispatchAssumption DEF Init
  <2>3. TypeOK
    BY <2>1, <2>2 DEF Init, TypeOK
  <2> QED
    BY <2>1, <2>3 DEF Init, IInv, ResponsesReachCaller, SafeUnlessMisused, SocketsInUse,
                      TableInv, FrameInv, RepliedInv
<1>2. IInv /\ [Next]_vars => IInv'
  <2> SUFFICES ASSUME IInv, [Next]_vars PROVE IInv'
    OBVIOUS
  <2>1. CASE UserCode
    BY <2>1, CreateKeeps, RemoveKeeps, SendKeeps, ResponseKeeps DEF UserCode
  <2>2. CASE (\E c \in Callers : RecvRequest(c)) \/ RequestDone
    BY <2>2, RequestKeeps
  <2>3. CASE \E m \in net : DropReply(m) \/ RecvReply(m) \/ PeerAnswers(m)
    BY <2>3, NetworkKeeps, ReplyKeeps
  <2>4. CASE ReplyDone
    BY <2>4, ReplyDoneKeeps
  <2>5. CASE FinishDone
    BY <2>5, FinishKeeps
  <2>6. CASE Restart
    BY <2>6, RestartKeeps
  <2>7. CASE UNCHANGED vars
    BY <2>7 DEF vars, dispatcher, IInv, TypeOK, ResponsesReachCaller, Origin, SafeUnlessMisused,
                SocketsInUse, TableInv, FrameInv, RepliedInv, InReply
  <2> QED
    BY <2>1, <2>2, <2>3, <2>4, <2>5, <2>6, <2>7 DEF Next
<1> QED
  BY <1>1, <1>2, PTL DEF Spec

(* The tables of webapp_socket_dispatch stay in their types.                *)
THEOREM TypeCorrect == Spec => []TypeOK
<1>1. IInv => TypeOK
  BY DEF IInv
<1> QED
  BY <1>1, DispatchInvariant, PTL

(* Through any chain of requests, a response reaches the caller the chain   *)
(* began with.                                                              *)
THEOREM ResponsesAreRouted == Spec => []ResponsesReachCaller
<1>1. IInv => ResponsesReachCaller
  BY DEF IInv
<1> QED
  BY <1>1, DispatchInvariant, PTL

(* Whatever requests the handlers delete, create and send, dispatch and     *)
(* release_webapp_request_unlock touch no deleted sender and no deleted     *)
(* item, unless an on_reply has deleted the request it answers or another   *)
(* has taken the address of that request.                                   *)
THEOREM FreedMemoryUntouched == Spec => []SafeUnlessMisused
<1>1. IInv => SafeUnlessMisused
  BY DEF IInv
<1> QED
  BY <1>1, DispatchInvariant, PTL

(* Connections are shared and given up exactly as the requests need them.   *)
THEOREM SocketsAreExact == Spec => []SocketsInUse
<1>1. IInv => SocketsInUse
  BY DEF IInv
<1> QED
  BY <1>1, DispatchInvariant, PTL

(* However often a peer answers, each request has one answer handled.       *)
THEOREM AnswersHandledOnce == Spec => HandledOnce
<1>1. IInv /\ [Next]_vars
        => [frame = Idle /\ frame'.kind = "reply" => frame'.seq \notin replied]_vars
  <2> SUFFICES ASSUME IInv, Next, frame = Idle, frame'.kind = "reply"
               PROVE  frame'.seq \notin replied
    OBVIOUS
  <2>1. frame.kind = "idle"
    BY DEF Idle
  <2>2. ASSUME NEW m \in net, RecvReply(m) PROVE frame'.seq \notin replied
    BY <2>2, ReplyKeeps DEF RecvReply
  <2>3. CASE UserCode
    BY <2>1, <2>3 DEF UserCode, CreateRequest, RemoveRequest, Send, Response, dispatcher
  <2>4. CASE \E m \in net : DropReply(m) \/ PeerAnswers(m)
    BY <2>1, <2>4 DEF DropReply, PeerAnswers, dispatcher
  <2> QED
    BY <2>1, <2>2, <2>3, <2>4 DEF Next, RecvRequest, RequestDone, ReplyDone, FinishDone,
                                  Restart, Idle
<1> QED
  BY <1>1, DispatchInvariant, PTL DEF Spec, HandledOnce

================================================================================
