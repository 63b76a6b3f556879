------------------------------ MODULE PollerItems ------------------------------
(***************************************************************************)
(* The poll loop of the web core (poller_items and worker::dispatch of     *)
(* zsfd/webcore/backend-zmq.cpp).  Sockets and file descriptors have slots *)
(* in the array zmq::poll works on; a released slot goes to a free list    *)
(* and is used again.  The loop polls, then visits the slots one by one,   *)
(* and the handlers it calls add and release items in the array it is      *)
(* walking through.                                                        *)
(***************************************************************************)
EXTENDS Integers, Sequences, SequencesExt

CONSTANTS
    Keys,         \* sockets and file descriptors
    Writers,      \* those added with BACKEND_POLLOUT only
    NoKey,        \* an empty slot
    MaxSlots      \* bound: slots ever allocated

ASSUME PollerAssumption ==
    /\ Writers \subseteq Keys
    /\ NoKey \notin Keys
    /\ MaxSlots \in Nat

VARIABLES
    slots,        \* _items and _websocks: whose a slot is, and its revents
    free,         \* _freelist
    tree,         \* _sock_tree: the slot of each key
    at,           \* the slot the loop is at; 0 before the poll
    cnt,          \* the number of slots that were polled
    running,      \* a handler runs, or oninit
    owed          \* history: reported by the poll, not handled or released yet

vars == <<slots, free, tree, at, cnt, running, owed>>

EmptySlot == [key |-> NoKey, revents |-> FALSE]

Init ==
    /\ slots = <<>> /\ free = <<>>
    /\ tree = [k \in {} |-> 0]
    /\ at = 0 /\ cnt = 0
    /\ running = TRUE
    /\ owed = {}

--------------------------------------------------------------------------------
(* Plausible bugs of the poll loop, for mutation runs only.                 *)
SlotReleasedKept(s) == [s EXCEPT !.key = NoKey]

VisitedTwice == at + 2

FreeAfterReleaseTwice(i) == free \o <<i, i>>

--------------------------------------------------------------------------------
(* additem: the slot last released, or a new one, whose revents are not set. *)
SlotFor == IF free # <<>> THEN Last(free) ELSE Len(slots) + 1

AddItem(k) ==
    /\ k \notin DOMAIN tree
    /\ SlotFor <= MaxSlots
    /\ IF free # <<>>
       THEN /\ slots' = [slots EXCEPT ![SlotFor] = [@ EXCEPT !.key = k]]
            /\ free' = Front(free)
       ELSE /\ \E unset \in BOOLEAN : slots' = Append(slots, [key |-> k, revents |-> unset])
            /\ free' = free
    /\ tree' = [j \in DOMAIN tree \cup {k} |-> IF j = k THEN SlotFor ELSE tree[j]]
    /\ UNCHANGED <<at, cnt, running, owed>>

(* release_byid.                                                            *)
SlotReleased(s) == EmptySlot
FreeAfterRelease(i) == Append(free, i)
TreeAfterRelease(k) == [j \in DOMAIN tree \ {k} |-> tree[j]]

Release(k) ==
    /\ k \in DOMAIN tree
    /\ slots' = [slots EXCEPT ![tree[k]] = SlotReleased(@)]
    /\ free' = FreeAfterRelease(tree[k])
    /\ tree' = TreeAfterRelease(k)
    /\ owed' = owed \ {k}
    /\ UNCHANGED <<at, cnt, running>>

(* What a handler does: any sequence of these.                              *)
HandlerCode == running /\ \E k \in Keys : AddItem(k) \/ Release(k)

--------------------------------------------------------------------------------
(* worker::dispatch.                                                        *)
PollReturns(ready) ==
    /\ ~ running /\ at = 0
    /\ ready # {} /\ ready \subseteq DOMAIN tree
    /\ slots' = [i \in DOMAIN slots |-> [slots[i] EXCEPT !.revents = slots[i].key \in ready]]
    /\ at' = 1
    /\ cnt' = Len(slots)
    /\ owed' = ready
    /\ UNCHANGED <<free, tree, running>>

(* A slot is handled if it is in use and readable.                          *)
Handled(s) == s.key # NoKey /\ s.revents /\ s.key \notin Writers

Visited == at + 1
Polled == cnt

Skip ==
    /\ ~ running /\ at \in 1..Polled
    /\ ~ Handled(slots[at])
    /\ at' = Visited
    /\ UNCHANGED <<slots, free, tree, cnt, running, owed>>

CallHandler ==
    /\ ~ running /\ at \in 1..Polled
    /\ Handled(slots[at])
    /\ running' = TRUE
    /\ owed' = owed \ {slots[at].key}
    /\ UNCHANGED <<slots, free, tree, at, cnt>>

HandlerReturns ==
    /\ running
    /\ running' = FALSE
    /\ at' = IF at = 0 THEN 0 ELSE Visited
    /\ UNCHANGED <<slots, free, tree, cnt, owed>>

NextPoll ==
    /\ ~ running /\ at > Polled
    /\ at' = 0
    /\ UNCHANGED <<slots, free, tree, cnt, running, owed>>

Loop == Skip \/ CallHandler \/ HandlerReturns \/ NextPoll

Next ==
    \/ HandlerCode
    \/ \E ready \in SUBSET Keys : PollReturns(ready)
    \/ Loop

Spec == Init /\ [][Next]_vars

(* The loop runs on, and every handler returns.                             *)
FairSpec == Spec /\ WF_vars(Loop) /\ WF_vars(HandlerReturns)

--------------------------------------------------------------------------------
(* The values of the slots, the free list and the loop's place.             *)
TypeOK ==
    /\ slots \in Seq([key : Keys \cup {NoKey}, revents : BOOLEAN])
    /\ free \in Seq(1..Len(slots))
    /\ tree \in [DOMAIN tree -> 1..Len(slots)] /\ DOMAIN tree \subseteq Keys
    /\ at \in 0..(Len(slots) + 1) /\ cnt \in 0..Len(slots)
    /\ running \in BOOLEAN
    /\ owed \in SUBSET Keys

(* The tree finds the slot of each key that is registered and of no other,  *)
(* and the free list holds each empty slot exactly once, however often      *)
(* slots are released and taken again.                                      *)
SlotsExact ==
    /\ \A k \in DOMAIN tree : slots[tree[k]].key = k
    /\ \A i \in DOMAIN slots : slots[i].key # NoKey =>
          slots[i].key \in DOMAIN tree /\ tree[slots[i].key] = i
    /\ \A i \in DOMAIN slots : slots[i].key = NoKey <=> \E j \in DOMAIN free : free[j] = i
    /\ \A j, l \in DOMAIN free : free[j] = free[l] => j = l

(* A handler is called only for an event of this poll, and of the item that *)
(* was polled: never for one that an earlier handler has put in the slot of *)
(* an item it released.                                                     *)
NoStaleEvent == [][~ running /\ running' => slots[at].key \in owed]_vars

(* When the loop has gone through the slots, each readable item that was    *)
(* reported has been handled, unless it was released.                       *)
NoEventMissed == at > cnt => owed \subseteq Writers

(* The array, the tree and the free list describe the same items in every   *)
(* state, and a turn of the loop leaves no reported item out.               *)
PollerInv == TypeOK /\ SlotsExact /\ NoEventMissed

(* A readable item that was reported is handled or released in the end.     *)
EventsServed == \A k \in Keys \ Writers : k \in owed ~> k \notin owed

================================================================================
