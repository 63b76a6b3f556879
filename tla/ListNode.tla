------------------------------- MODULE ListNode -------------------------------
(***************************************************************************)
(* The intrusive doubly linked lists of src/mec/zsfd/inc/std/list.h, which *)
(* every table of the services is threaded with.  A list is a ring through *)
(* its head; an object carries one node per list it may be in.  The macros *)
(* are a handful of pointer assignments without any check, so the model    *)
(* keeps the pointers: a record of the two functions next and prev.        *)
(***************************************************************************)
EXTENDS Naturals

(* listnode_init: the node points at itself, whatever points at it.         *)
listnode_init(L, x) ==
    [next |-> [L.next EXCEPT ![x] = x],
     prev |-> [L.prev EXCEPT ![x] = x]]

(* listnode_add: behind the last node the head knows of.                    *)
listnode_add(L, head, x) ==
    LET last == L.prev[head]
    IN  [next |-> [L.next EXCEPT ![x] = L.next[last], ![last] = x],
         prev |-> [L.prev EXCEPT ![x] = last, ![head] = x]]

(* listnode_del: the two neighbours are joined, the node is alone.          *)
listnode_del(L, x) ==
    [next |-> [L.next EXCEPT ![L.prev[x]] = L.next[x], ![x] = x],
     prev |-> [L.prev EXCEPT ![L.next[x]] = L.prev[x], ![x] = x]]

--------------------------------------------------------------------------------
(* The loops `for (nd = head.next; nd != &head; nd = nd->next)' of the      *)
(* source.  A set holds all that such a loop comes to if it holds the first *)
(* node and, with each node other than the head, the one after it.          *)
ClosedFrom(next, head, S) ==
    /\ next[head] \in S
    /\ \A x \in S : x # head => next[x] \in S

(* What the loop comes to, the head included when it comes back to it: the  *)
(* nodes that are in every such set.                                        *)
Reached(L, head) ==
    {x \in DOMAIN L.next :
        \A S \in SUBSET DOMAIN L.next : ClosedFrom(L.next, head, S) => x \in S}

WalkEnds(L, head) == head \in Reached(L, head)

(* The nodes the loop visits before it is back at the head.                 *)
Walk(L, head) == Reached(L, head) \ {head}

(* Every node is the predecessor of its successor and the successor of its  *)
(* predecessor.                                                             *)
WellLinked(L, nodes) ==
    \A x \in nodes :
        /\ L.next[x] \in nodes /\ L.prev[x] \in nodes
        /\ L.prev[L.next[x]] = x
        /\ L.next[L.prev[x]] = x

================================================================================
