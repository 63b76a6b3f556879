---------------------------- MODULE EventLoopProofs ----------------------------
(***************************************************************************)
(* Proofs about the event loop of zsfd: its poll loop, for any sockets and *)
(* descriptors, any number of slots and any sequence of additions and      *)
(* releases by the handlers, and the timers it drives, for any number of   *)
(* timers, any sizes of the rings and any length of time.                  *)
(***************************************************************************)
EXTENDS PollerItems, TimerWheel, TLAPS

--------------------------------------------------------------------------------
(* The poll loop: PollerItems.                                              *)

Slots == [key : Keys \cup {NoKey}, revents : BOOLEAN]

(* The slots the loop has still to look at in this turn.                    *)
Ahead(i) == at >= 1 /\ i <= cnt /\ at <= i /\ (running => at < i)

(* What the events of a poll have to do with the slots while handlers add   *)
(* and release items under the loop: an item reported and readable is ahead *)
(* in its own slot with its event set, an event set ahead is one of this    *)
(* poll, and an empty slot has no event that its next owner could inherit.  *)
EventInv ==
    /\ running => at <= cnt
    /\ owed \subseteq DOMAIN tree
    /\ \A k \in owed \ Writers :
          /\ slots[tree[k]].revents
          /\ tree[k] <= cnt
          /\ at <= tree[k]
          /\ running => at < tree[k]
    /\ \A i \in 1..Len(slots) :
          Ahead(i) /\ slots[i].key # NoKey /\ slots[i].revents => slots[i].key \in owed
    /\ \A i \in 1..Len(slots) : slots[i].key = NoKey => ~ slots[i].revents

IInv == TypeOK /\ SlotsExact /\ EventInv

Held(f, i) == \E j \in DOMAIN f : f[j] = i
Injective(f) == \A j, l \in DOMAIN f : f[j] = f[l] => j = l

--------------------------------------------------------------------------------
(* The last entry of the free list is taken off: it is no longer held, and  *)
(* the others still are, once each.                                         *)
LEMMA TakeLast ==
  ASSUME NEW n \in Nat, NEW f \in Seq(1..n), f # <<>>, Injective(f)
  PROVE  /\ Last(f) \in 1..n
         /\ Held(f, Last(f))
         /\ Front(f) \in Seq(1..n)
         /\ Injective(Front(f))
         /\ \A x : Held(Front(f), x) <=> Held(f, x) /\ x # Last(f)
<1> DEFINE m == Len(f)
           g == Front(f)
<1>1. m \in Nat \ {0} /\ DOMAIN f = 1..m /\ Last(f) = f[m]
  BY DEF Last
<1>2. \A j \in 1..m : f[j] \in 1..n
  OBVIOUS
<1>3. g = [j \in 1..(m - 1) |-> f[j]]
  BY <1>1 DEF Front
<1>4. g \in Seq(1..n) /\ DOMAIN g = 1..(m - 1) /\ \A j \in 1..(m - 1) : g[j] = f[j]
  <2>1. \A j \in 1..(m - 1) : f[j] \in 1..n
    BY <1>1, <1>2
  <2>2. m - 1 \in Nat
    BY <1>1
  <2>3. g \in [1..(m - 1) -> 1..n]
    BY <1>3, <2>1
  <2> QED
    BY <1>3, <2>2, <2>3
<1> HIDE DEF g, m
<1>5. \A j : j \in 1..m <=> j \in 1..(m - 1) \/ j = m
  BY <1>1
<1>6. m \notin 1..(m - 1) /\ m \in 1..m
  BY <1>1
<1>7. Injective(g)
  BY <1>1, <1>4, <1>5 DEF Injective
<1>8. \A x : Held(g, x) <=> Held(f, x) /\ x # f[m]
  BY <1>1, <1>4, <1>5, <1>6 DEF Held, Injective
<1> QED
  BY <1>1, <1>2, <1>4, <1>6, <1>7, <1>8 DEF g, Held

(* A released slot is put at the end of the free list.                      *)
LEMMA PutLast ==
  ASSUME NEW n \in Nat, NEW f \in Seq(1..n), NEW i \in 1..n, Injective(f), ~ Held(f, i)
  PROVE  /\ Append(f, i) \in Seq(1..n)
         /\ Injective(Append(f, i))
         /\ \A x : Held(Append(f, i), x) <=> Held(f, x) \/ x = i
<1> DEFINE m == Len(f)
           g == Append(f, i)
<1>1. /\ g \in Seq(1..n) /\ m \in Nat /\ DOMAIN f = 1..m /\ DOMAIN g = 1..(m + 1)
      /\ g[m + 1] = i /\ \A j \in 1..m : g[j] = f[j]
  OBVIOUS
<1> HIDE DEF g, m
<1>2. \A j : j \in 1..(m + 1) <=> j \in 1..m \/ j = m + 1
  BY <1>1
<1>3. Injective(g)
  BY <1>1, <1>2 DEF Injective, Held
<1>4. \A x : Held(g, x) <=> Held(f, x) \/ x = i
  BY <1>1, <1>2 DEF Held
<1> QED
  BY <1>1, <1>3, <1>4 DEF g

(* A longer array holds every slot a shorter one has.                       *)
LEMMA LongerList ==
  ASSUME NEW n \in Nat, NEW p \in Nat, n <= p, NEW f \in Seq(1..n)
  PROVE  f \in Seq(1..p)
<1>1. Len(f) \in Nat /\ f \in [1..Len(f) -> 1..n] /\ 1..n \subseteq 1..p
  OBVIOUS
<1>2. f \in [1..Len(f) -> 1..p]
  BY <1>1
<1> QED
  BY <1>1, <1>2

--------------------------------------------------------------------------------
(* What additem does, whichever branch it takes: item k gets slot i, which  *)
(* was free or is new, and keeps the event of a slot that was free.         *)
Added(k, i) ==
    /\ slots' \in Seq(Slots)
    /\ Len(slots) <= Len(slots')
    /\ i \in 1..Len(slots')
    /\ i <= Len(slots) => slots[i].key = NoKey /\ slots'[i].revents = slots[i].revents
    /\ slots'[i].key = k
    /\ \A j \in 1..Len(slots') : j # i => j \in 1..Len(slots) /\ slots'[j] = slots[j]
    /\ free' \in Seq(1..Len(slots'))
    /\ Injective(free')
    /\ \A x : Held(free', x) <=> Held(free, x) /\ x # i
    /\ DOMAIN tree' = DOMAIN tree \cup {k}
    /\ tree'[k] = i
    /\ \A j \in DOMAIN tree : tree'[j] = tree[j]

(* The facts about the array that the other lemmas start from.              *)
LEMMA ArrayFacts ==
  ASSUME IInv
  PROVE  /\ slots \in Seq(Slots) /\ Len(slots) \in Nat /\ DOMAIN slots = 1..Len(slots)
         /\ \A i \in 1..Len(slots) : slots[i] \in Slots /\ slots[i].key \in Keys \cup {NoKey}
         /\ free \in Seq(1..Len(slots)) /\ Injective(free)
         /\ DOMAIN tree \subseteq Keys
         /\ \A k \in DOMAIN tree : /\ tree[k] \in 1..Len(slots)
                                   /\ slots[tree[k]].key = k
         /\ \A i \in 1..Len(slots) : slots[i].key # NoKey =>
               slots[i].key \in DOMAIN tree /\ tree[slots[i].key] = i
         /\ \A i \in 1..Len(slots) : slots[i].key = NoKey <=> Held(free, i)
         /\ at \in Nat /\ cnt \in Nat /\ cnt <= Len(slots)
         /\ running \in BOOLEAN /\ owed \subseteq Keys
         /\ NoKey \notin Keys
<1>1. slots \in Seq(Slots)
  BY DEF IInv, TypeOK, Slots
<1>2. Len(slots) \in Nat /\ DOMAIN slots = 1..Len(slots)
  BY <1>1
<1>3. \A i \in 1..Len(slots) : slots[i] \in Slots
  BY <1>1
<1>4. \A s \in Slots : s.key \in Keys \cup {NoKey}
  BY DEF Slots
<1>5. at \in Nat /\ cnt \in Nat /\ cnt <= Len(slots) /\ running \in BOOLEAN /\ owed \subseteq Keys
  BY <1>2 DEF IInv, TypeOK
<1>6. DOMAIN tree \subseteq Keys /\ \A k \in DOMAIN tree : tree[k] \in 1..Len(slots)
  BY DEF IInv, TypeOK
<1>7. free \in Seq(1..Len(slots)) /\ Injective(free)
  BY DEF IInv, TypeOK, SlotsExact, Injective
<1>8. /\ \A k \in DOMAIN tree : slots[tree[k]].key = k
      /\ \A i \in 1..Len(slots) : slots[i].key # NoKey =>
               slots[i].key \in DOMAIN tree /\ tree[slots[i].key] = i
      /\ \A i \in 1..Len(slots) : slots[i].key = NoKey <=> Held(free, i)
  BY <1>2 DEF IInv, SlotsExact, Held
<1> QED
  BY <1>1, <1>2, <1>3, <1>4, <1>5, <1>6, <1>7, <1>8, PollerAssumption

(* Both branches of additem.                                                *)
LEMMA AddItemAdds ==
  ASSUME IInv, NEW k \in Keys, AddItem(k)
  PROVE  Added(k, SlotFor) /\ SlotFor \in Nat
<1> DEFINE i == SlotFor
<1>1. /\ slots \in Seq(Slots) /\ Len(slots) \in Nat /\ DOMAIN slots = 1..Len(slots)
      /\ \A j \in 1..Len(slots) : slots[j] \in Slots
      /\ free \in Seq(1..Len(slots)) /\ Injective(free)
      /\ \A j \in 1..Len(slots) : slots[j].key = NoKey <=> Held(free, j)
  BY ArrayFacts
<1>2. /\ DOMAIN tree' = DOMAIN tree \cup {k}
      /\ tree'[k] = i
      /\ \A j \in DOMAIN tree : tree'[j] = tree[j]
  BY DEF AddItem
<1>3. CASE free # <<>>
  <2>1. i = Last(free) /\ free' = Front(free)
    BY <1>3 DEF AddItem, SlotFor
  <2>2. /\ i \in 1..Len(slots) /\ Held(free, i)
        /\ free' \in Seq(1..Len(slots)) /\ Injective(free')
        /\ \A x : Held(free', x) <=> Held(free, x) /\ x # i
    <3> HIDE DEF i
    <3> QED
      BY <1>1, <1>3, <2>1, TakeLast
  <2>3. slots' = [slots EXCEPT ![i] = [slots[i] EXCEPT !.key = k]]
    BY <1>3 DEF AddItem
  <2> HIDE DEF i
  <2>4. /\ [slots[i] EXCEPT !.key = k] \in Slots
        /\ [slots[i] EXCEPT !.key = k].key = k
        /\ [slots[i] EXCEPT !.key = k].revents = slots[i].revents
    BY <1>1, <2>2 DEF Slots
  <2>5. /\ slots' \in Seq(Slots) /\ Len(slots') = Len(slots)
        /\ slots'[i] = [slots[i] EXCEPT !.key = k]
        /\ \A j \in 1..Len(slots) : j # i => slots'[j] = slots[j]
    BY <1>1, <2>2, <2>3, <2>4
  <2>6. slots[i].key = NoKey
    BY <1>1, <2>2
  <2>7. Added(k, i)
    BY <1>1, <1>2, <2>2, <2>4, <2>5, <2>6 DEF Added
  <2> QED
    BY <1>1, <2>2, <2>7 DEF i
<1>4. CASE free = <<>>
  <2>1. i = Len(slots) + 1 /\ free' = free
    BY <1>4 DEF AddItem, SlotFor
  <2>2. PICK unset \in BOOLEAN : slots' = Append(slots, [key |-> k, revents |-> unset])
    BY <1>4 DEF AddItem
  <2> DEFINE s == [key |-> k, revents |-> unset]
  <2>3. s \in Slots /\ s.key = k
    BY DEF Slots
  <2> HIDE DEF i, s
  <2>4. slots' = Append(slots, s)
    BY <2>2 DEF s
  <2>5. /\ slots' \in Seq(Slots) /\ Len(slots') = Len(slots) + 1
        /\ slots'[Len(slots) + 1] = s
        /\ \A j \in 1..Len(slots) : slots'[j] = slots[j]
    BY <1>1, <2>3, <2>4
  <2>6. /\ Len(slots) <= Len(slots') /\ i \in 1..Len(slots') /\ ~ (i <= Len(slots))
        /\ \A j \in 1..Len(slots') : j # i => j \in 1..Len(slots)
    BY <1>1, <2>1, <2>5
  <2>7. free' \in Seq(1..Len(slots')) /\ Injective(free')
    BY <1>1, <2>1, <2>5, <2>6, LongerList
  <2>8. \A x : Held(free', x) <=> Held(free, x) /\ x # i
    BY <1>4, <2>1 DEF Held
  <2>9. Added(k, i)
    BY <1>2, <2>1, <2>3, <2>5, <2>6, <2>7, <2>8 DEF Added
  <2> QED
    BY <1>1, <2>1, <2>9 DEF i
<1> QED
  BY <1>3, <1>4

(* release_byid: the slot of the item is emptied and listed as free.        *)
Released(k, i) ==
    /\ slots' \in Seq(Slots)
    /\ Len(slots') = Len(slots)
    /\ slots'[i].key = NoKey /\ ~ slots'[i].revents
    /\ \A j \in 1..Len(slots) : j # i => slots'[j] = slots[j]
    /\ free' \in Seq(1..Len(slots))
    /\ Injective(free')
    /\ \A x : Held(free', x) <=> Held(free, x) \/ x = i
    /\ DOMAIN tree' = DOMAIN tree \ {k}
    /\ \A j \in DOMAIN tree' : tree'[j] = tree[j]

(* Release is release_byid of a registered item.                            *)
LEMMA ReleaseReleases ==
  ASSUME IInv, NEW k \in DOMAIN tree, Release(k)
  PROVE  Released(k, tree[k])
<1> DEFINE i == tree[k]
<1>1. /\ slots \in Seq(Slots) /\ Len(slots) \in Nat /\ DOMAIN slots = 1..Len(slots)
      /\ i \in 1..Len(slots) /\ slots[i].key = k /\ k \in Keys /\ NoKey \notin Keys
      /\ free \in Seq(1..Len(slots)) /\ Injective(free)
      /\ \A j \in 1..Len(slots) : slots[j].key = NoKey <=> Held(free, j)
  BY ArrayFacts
<1>2. /\ slots' = [slots EXCEPT ![i] = EmptySlot]
      /\ free' = Append(free, i)
      /\ tree' = TreeAfterRelease(k)
  BY DEF Release, SlotReleased, FreeAfterRelease
<1>3. /\ DOMAIN tree' = DOMAIN tree \ {k}
      /\ \A j \in DOMAIN tree' : tree'[j] = tree[j]
  BY <1>2 DEF TreeAfterRelease
<1>4. EmptySlot \in Slots /\ EmptySlot.key = NoKey /\ ~ EmptySlot.revents
  BY DEF EmptySlot, Slots
<1> HIDE DEF i
<1>5. /\ slots' \in Seq(Slots) /\ Len(slots') = Len(slots)
      /\ slots'[i] = EmptySlot
      /\ \A j \in 1..Len(slots) : j # i => slots'[j] = slots[j]
  BY <1>1, <1>2, <1>4
<1>6. ~ Held(free, i)
  BY <1>1
<1>7. /\ free' \in Seq(1..Len(slots)) /\ Injective(free')
      /\ \A x : Held(free', x) <=> Held(free, x) \/ x = i
  BY <1>1, <1>2, <1>6, PutLast
<1>8. Released(k, i)
  BY <1>3, <1>4, <1>5, <1>7 DEF Released
<1> QED
  BY <1>8 DEF i

--------------------------------------------------------------------------------
(* additem keeps types, tree, free list and events: the slot it hands out   *)
(* has no event, or is behind those of this poll.                           *)
LEMMA AddItemKeeps ==
  ASSUME IInv, NEW k \in Keys, AddItem(k)
  PROVE  IInv'
<1> DEFINE i == SlotFor
<1>1. Added(k, i) /\ i \in Nat
  BY AddItemAdds
<1>2. UNCHANGED <<at, cnt, running, owed>> /\ k \notin DOMAIN tree
  BY DEF AddItem
<1> HIDE DEF i
<1>3. /\ slots' \in Seq(Slots)
      /\ Len(slots) <= Len(slots')
      /\ i \in 1..Len(slots')
      /\ i <= Len(slots) => slots[i].key = NoKey /\ slots'[i].revents = slots[i].revents
      /\ slots'[i].key = k
      /\ \A j \in 1..Len(slots') : j # i => j \in 1..Len(slots) /\ slots'[j] = slots[j]
      /\ free' \in Seq(1..Len(slots'))
      /\ Injective(free')
      /\ \A x : Held(free', x) <=> Held(free, x) /\ x # i
      /\ DOMAIN tree' = DOMAIN tree \cup {k}
      /\ tree'[k] = i
      /\ \A j \in DOMAIN tree : tree'[j] = tree[j]
  BY <1>1 DEF Added
<1>4. Len(slots') \in Nat /\ DOMAIN slots' = 1..Len(slots') /\ Len(slots) \in Nat
  BY <1>3, ArrayFacts
<1>5. k # NoKey
  BY PollerAssumption
<1>6. \A x \in 1..Len(slots) : x # i => x \in 1..Len(slots') /\ slots'[x] = slots[x]
  BY <1>3, <1>4
<1>7. \A j \in DOMAIN tree : /\ j \in Keys /\ j # k
                             /\ tree[j] \in 1..Len(slots) /\ tree[j] # i
                             /\ slots[tree[j]].key = j
  BY <1>1, <1>2, <1>3, ArrayFacts
<1>8. TypeOK'
  <2>1. tree' \in [DOMAIN tree' -> 1..Len(slots')]
    <3>1. \A j \in DOMAIN tree' : tree'[j] \in 1..Len(slots')
      BY <1>3, <1>6, <1>7
    <3>2. tree' = [j \in DOMAIN tree' |-> tree'[j]]
      <4>1. tree' = [j \in DOMAIN tree \cup {k} |-> IF j = k THEN i ELSE tree[j]]
        BY DEF AddItem, i
      <4> QED
        BY <4>1
    <3> QED
      BY <3>1, <3>2
  <2>2. DOMAIN tree' \subseteq Keys
    BY <1>3, <1>7
  <2>3. at' \in 0..(Len(slots') + 1) /\ cnt' \in 0..Len(slots')
    BY <1>2, <1>3, <1>4 DEF IInv, TypeOK
  <2> QED
    BY <1>2, <1>3, <2>1, <2>2, <2>3 DEF IInv, TypeOK, Slots
<1>9. SlotsExact'
  <2>1. ASSUME NEW j \in DOMAIN tree' PROVE slots'[tree'[j]].key = j
    BY <1>3, <1>6, <1>7
  <2>2. ASSUME NEW x \in 1..Len(slots'), slots'[x].key # NoKey
        PROVE  slots'[x].key \in DOMAIN tree' /\ tree'[slots'[x].key] = x
    <3>1. CASE x = i
      BY <1>3, <3>1
    <3>2. CASE x # i
      <4>1. x \in 1..Len(slots) /\ slots'[x] = slots[x]
        BY <1>3, <3>2
      <4>2. slots[x].key \in DOMAIN tree /\ tree[slots[x].key] = x
        BY <2>2, <4>1, ArrayFacts
      <4> QED
        BY <1>3, <4>1, <4>2
    <3> QED
      BY <3>1, <3>2
  <2>3. ASSUME NEW x \in 1..Len(slots')
        PROVE  slots'[x].key = NoKey <=> Held(free', x)
    <3>1. CASE x = i
      BY <1>3, <1>5, <3>1
    <3>2. CASE x # i
      BY <1>3, <3>2, ArrayFacts
    <3> QED
      BY <3>1, <3>2
  <2> QED
    BY <1>3, <1>4, <2>1, <2>2, <2>3 DEF SlotsExact, Held, Injective
<1>10. EventInv'
  <2>1. (owed \subseteq DOMAIN tree)'
    BY <1>2, <1>3 DEF IInv, EventInv
  <2>2. ASSUME NEW j \in owed' \ Writers
        PROVE  /\ slots'[tree'[j]].revents
               /\ tree'[j] <= cnt'
               /\ at' <= tree'[j]
               /\ running' => at' < tree'[j]
    <3>1. j \in owed \ Writers /\ j \in DOMAIN tree
      BY <1>2 DEF IInv, EventInv
    <3>2. tree'[j] = tree[j] /\ slots'[tree[j]] = slots[tree[j]]
      BY <1>3, <1>6, <1>7, <3>1
    <3> QED
      BY <1>2, <3>1, <3>2 DEF IInv, EventInv
  <2>3. ASSUME NEW x \in 1..Len(slots'), at' >= 1, x <= cnt', at' <= x,
               running' => at' < x, slots'[x].key # NoKey, slots'[x].revents
        PROVE  slots'[x].key \in owed'
    <3>0. x \in 1..Len(slots)
      BY <1>2, <1>4, <2>3, ArrayFacts
    <3>1. CASE x = i
      <4>1. slots[x].key = NoKey /\ slots'[x].revents = slots[x].revents
        BY <1>3, <3>0, <3>1
      <4>2. ~ slots[x].revents
        BY <3>0, <4>1 DEF IInv, EventInv
      <4> QED
        BY <2>3, <4>1, <4>2
    <3>2. CASE x # i
      <4>1. slots'[x] = slots[x] /\ Ahead(x)
        BY <1>2, <1>6, <2>3, <3>0, <3>2 DEF Ahead
      <4> QED
        BY <1>2, <2>3, <3>0, <4>1 DEF IInv, EventInv
    <3> QED
      BY <3>1, <3>2
  <2>4. ASSUME NEW x \in 1..Len(slots'), slots'[x].key = NoKey
        PROVE  ~ slots'[x].revents
    <3>1. x # i
      BY <1>3, <1>5, <2>4
    <3> QED
      BY <1>3, <2>4, <3>1 DEF IInv, EventInv
  <2>5. (running => at <= cnt)'
    BY <1>2 DEF IInv, EventInv
  <2> QED
    BY <2>1, <2>2, <2>3, <2>4, <2>5 DEF EventInv, Ahead
<1> QED
  BY <1>8, <1>9, <1>10 DEF IInv

(* release_byid keeps them too: the events of the slot go with its item.    *)
LEMMA ReleaseKeeps ==
  ASSUME IInv, NEW k \in Keys, Release(k)
  PROVE  IInv'
<1> DEFINE i == tree[k]
<1>0. k \in DOMAIN tree
  BY DEF Release
<1>1. Released(k, i)
  BY <1>0, ReleaseReleases
<1>2. UNCHANGED <<at, cnt, running>> /\ owed' = owed \ {k}
  BY DEF Release
<1>3. i \in 1..Len(slots) /\ slots[i].key = k
  BY <1>0, ArrayFacts
<1> HIDE DEF i
<1>4. /\ slots' \in Seq(Slots)
      /\ Len(slots') = Len(slots)
      /\ slots'[i].key = NoKey /\ ~ slots'[i].revents
      /\ \A j \in 1..Len(slots) : j # i => slots'[j] = slots[j]
      /\ free' \in Seq(1..Len(slots))
      /\ Injective(free')
      /\ \A x : Held(free', x) <=> Held(free, x) \/ x = i
      /\ DOMAIN tree' = DOMAIN tree \ {k}
      /\ \A j \in DOMAIN tree' : tree'[j] = tree[j]
  BY <1>1 DEF Released
<1>5. Len(slots) \in Nat /\ DOMAIN slots' = 1..Len(slots)
  BY <1>4, ArrayFacts
<1>6. \A j \in DOMAIN tree' : /\ j \in Keys /\ j \in DOMAIN tree /\ j # k
                              /\ tree[j] \in 1..Len(slots) /\ tree[j] # i
                              /\ slots[tree[j]].key = j
  BY <1>3, <1>4, ArrayFacts
<1>8. TypeOK'
  <2>1. tree' \in [DOMAIN tree' -> 1..Len(slots')]
    <3>1. \A j \in DOMAIN tree' : tree'[j] \in 1..Len(slots')
      BY <1>4, <1>6
    <3>2. tree' = [j \in DOMAIN tree' |-> tree'[j]]
      <4>1. tree' = [j \in DOMAIN tree \ {k} |-> tree[j]]
        BY DEF Release, TreeAfterRelease
      <4> QED
        BY <4>1
    <3> QED
      BY <3>1, <3>2
  <2>2. DOMAIN tree' \subseteq Keys
    BY <1>6
  <2>3. at' \in 0..(Len(slots') + 1) /\ cnt' \in 0..Len(slots')
    BY <1>2, <1>4 DEF IInv, TypeOK
  <2>4. owed' \in SUBSET Keys
    BY <1>2, ArrayFacts
  <2>5. running' \in BOOLEAN
    BY <1>2, ArrayFacts
  <2>6. free' \in Seq(1..Len(slots'))
    BY <1>4
  <2> QED
    BY <1>4, <2>1, <2>2, <2>3, <2>4, <2>5, <2>6 DEF TypeOK, Slots
<1>9. SlotsExact'
  <2>1. ASSUME NEW j \in DOMAIN tree' PROVE slots'[tree'[j]].key = j
    BY <1>4, <1>6
  <2>2. ASSUME NEW x \in 1..Len(slots'), slots'[x].key # NoKey
        PROVE  slots'[x].key \in DOMAIN tree' /\ tree'[slots'[x].key] = x
    <3>1. x # i /\ x \in 1..Len(slots)
      BY <1>4, <2>2
    <3>2. slots'[x] = slots[x]
      BY <1>4, <3>1
    <3>3. slots[x].key \in DOMAIN tree /\ tree[slots[x].key] = x
      BY <2>2, <3>1, <3>2, ArrayFacts
    <3>4. slots[x].key # k
      BY <3>1, <3>3 DEF i
    <3> QED
      BY <1>4, <3>2, <3>3, <3>4
  <2>3. ASSUME NEW x \in 1..Len(slots')
        PROVE  slots'[x].key = NoKey <=> Held(free', x)
    <3>1. CASE x = i
      BY <1>4, <3>1
    <3>2. CASE x # i
      BY <1>4, <3>2, ArrayFacts
    <3> QED
      BY <3>1, <3>2
  <2> QED
    BY <1>4, <1>5, <2>1, <2>2, <2>3 DEF SlotsExact, Held, Injective
<1>10. EventInv'
  <2>1. (owed \subseteq DOMAIN tree)'
    BY <1>2, <1>4 DEF IInv, EventInv
  <2>2. ASSUME NEW j \in owed' \ Writers
        PROVE  /\ slots'[tree'[j]].revents
               /\ tree'[j] <= cnt'
               /\ at' <= tree'[j]
               /\ running' => at' < tree'[j]
    <3>1. j \in owed \ Writers /\ j \in DOMAIN tree'
      BY <1>2, <1>4 DEF IInv, EventInv
    <3>2. tree'[j] = tree[j] /\ slots'[tree[j]] = slots[tree[j]]
      BY <1>4, <1>6, <3>1
    <3> QED
      BY <1>2, <3>1, <3>2 DEF IInv, EventInv
  <2>3. ASSUME NEW x \in 1..Len(slots'), at' >= 1, x <= cnt', at' <= x,
               running' => at' < x, slots'[x].key # NoKey, slots'[x].revents
        PROVE  slots'[x].key \in owed'
    <3>1. x # i /\ x \in 1..Len(slots)
      BY <1>4, <2>3
    <3>2. slots'[x] = slots[x] /\ Ahead(x)
      BY <1>2, <1>4, <2>3, <3>1 DEF Ahead
    <3>3. slots[x].key \in owed
      BY <2>3, <3>1, <3>2 DEF IInv, EventInv
    <3>4. slots[x].key # k
      <4>1. tree[slots[x].key] = x
        BY <2>3, <3>1, <3>2, ArrayFacts
      <4> QED
        BY <3>1, <4>1 DEF i
    <3> QED
      BY <1>2, <3>2, <3>3, <3>4
  <2>4. ASSUME NEW x \in 1..Len(slots'), slots'[x].key = NoKey
        PROVE  ~ slots'[x].revents
    <3>1. CASE x = i
      BY <1>4, <3>1
    <3>2. CASE x # i
      BY <1>4, <2>4, <3>2 DEF IInv, EventInv
    <3> QED
      BY <3>1, <3>2
  <2>5. (running => at <= cnt)'
    BY <1>2 DEF IInv, EventInv
  <2> QED
    BY <2>1, <2>2, <2>3, <2>4, <2>5 DEF EventInv, Ahead
<1> QED
  BY <1>8, <1>9, <1>10 DEF IInv

--------------------------------------------------------------------------------
(* A poll reports the ready items, and every event set after it is theirs.  *)
LEMMA PollReturnsKeeps ==
  ASSUME IInv, NEW ready \in SUBSET Keys, PollReturns(ready)
  PROVE  IInv'
<1>1. /\ ~ running /\ ~ running' /\ at' = 1 /\ cnt' = Len(slots) /\ owed' = ready
      /\ free' = free /\ tree' = tree /\ ready \subseteq DOMAIN tree
      /\ running' = running
  BY DEF PollReturns
<1>2. slots' = [i \in DOMAIN slots |-> [slots[i] EXCEPT !.revents = slots[i].key \in ready]]
  BY DEF PollReturns
<1>3. Len(slots) \in Nat /\ DOMAIN slots = 1..Len(slots)
  BY ArrayFacts
<1>4. ASSUME NEW i \in 1..Len(slots)
      PROVE  /\ slots'[i] \in Slots
             /\ slots'[i].key = slots[i].key
             /\ slots'[i].revents <=> slots[i].key \in ready
  <2> DEFINE s == slots[i]
             e == s.key \in ready
  <2>1. s \in Slots /\ e \in BOOLEAN
    BY ArrayFacts
  <2>2. slots'[i] = [s EXCEPT !.revents = e]
    BY <1>2, <1>3
  <2> HIDE DEF s, e
  <2>3. /\ [s EXCEPT !.revents = e] \in Slots
        /\ [s EXCEPT !.revents = e].key = s.key
        /\ [s EXCEPT !.revents = e].revents = e
    BY <2>1 DEF Slots
  <2> QED
    BY <2>2, <2>3 DEF s, e
<1>5. /\ DOMAIN slots' = 1..Len(slots) /\ Len(slots') = Len(slots)
      /\ slots' \in Seq(Slots)
  <2>1. slots' \in [1..Len(slots) -> Slots]
    BY <1>2, <1>3, <1>4
  <2> QED
    BY <1>3, <2>1
<1>6. TypeOK'
  BY <1>1, <1>3, <1>5, ArrayFacts DEF IInv, TypeOK, Slots
<1>7. SlotsExact'
  <2>1. ASSUME NEW j \in DOMAIN tree' PROVE slots'[tree'[j]].key = j
    BY <1>1, <1>4, ArrayFacts
  <2>2. ASSUME NEW x \in 1..Len(slots), slots'[x].key # NoKey
        PROVE  slots'[x].key \in DOMAIN tree' /\ tree'[slots'[x].key] = x
    BY <1>1, <1>4, <2>2, ArrayFacts
  <2>3. ASSUME NEW x \in 1..Len(slots) PROVE slots'[x].key = NoKey <=> Held(free', x)
    BY <1>1, <1>4, ArrayFacts
  <2>4. Injective(free')
    BY <1>1, ArrayFacts
  <2> QED
    BY <1>5, <2>1, <2>2, <2>3, <2>4 DEF SlotsExact, Held, Injective
<1>8. EventInv'
  <2>1. ASSUME NEW j \in owed' \ Writers
        PROVE  /\ slots'[tree'[j]].revents
               /\ tree'[j] <= cnt'
               /\ at' <= tree'[j]
    <3>1. /\ j \in DOMAIN tree /\ j \in ready /\ tree[j] \in 1..Len(slots)
          /\ slots[tree[j]].key = j
      BY <1>1, ArrayFacts
    <3> QED
      BY <1>1, <1>3, <1>4, <3>1
  <2>2. ASSUME NEW x \in 1..Len(slots), slots'[x].revents PROVE slots'[x].key \in owed'
    BY <1>1, <1>4, <2>2
  <2>3. ASSUME NEW x \in 1..Len(slots), slots'[x].key = NoKey PROVE ~ slots'[x].revents
    BY <1>4, <2>3, PollerAssumption
  <2> QED
    BY <1>1, <1>5, <2>1, <2>2, <2>3 DEF EventInv
<1> QED
  BY <1>6, <1>7, <1>8 DEF IInv

(* The loop: a slot is passed over only when nobody waits for its event,    *)
(* and once a handler is called for one no other is ahead in that slot.     *)
LEMMA LoopKeeps ==
  ASSUME IInv, Loop
  PROVE  IInv'
<1>1. UNCHANGED <<slots, free, tree, cnt>>
  BY DEF Loop, Skip, CallHandler, HandlerReturns, NextPoll
<1>2. SlotsExact'
  BY <1>1 DEF IInv, SlotsExact
<1>3. /\ Len(slots) \in Nat /\ DOMAIN slots = 1..Len(slots)
      /\ at \in Nat /\ cnt \in Nat /\ cnt <= Len(slots)
      /\ running \in BOOLEAN /\ owed \subseteq Keys
  BY ArrayFacts
<1>4. ASSUME running' \in BOOLEAN, at' \in 0..(Len(slots) + 1), owed' \subseteq Keys
      PROVE  TypeOK'
  BY <1>1, <1>4 DEF IInv, TypeOK
<1>5. CASE Skip
  <2>1. /\ at \in 1..cnt /\ ~ running /\ running' = running /\ owed' = owed
        /\ at' = at + 1 /\ ~ Handled(slots[at])
    BY <1>5 DEF Skip, Visited, Polled
  <2>2. TypeOK'
    BY <1>3, <1>4, <2>1
  <2>3. EventInv'
    <3>1. ASSUME NEW k \in owed \ Writers PROVE at + 1 <= tree[k]
      <4>1. /\ k \in DOMAIN tree /\ tree[k] \in 1..Len(slots)
            /\ slots[tree[k]].key = k /\ k # NoKey
            /\ slots[tree[k]].revents /\ at <= tree[k]
        BY ArrayFacts DEF IInv, EventInv
      <4>2. tree[k] # at
        BY <2>1, <4>1 DEF Handled
      <4> QED
        BY <1>3, <4>1, <4>2
    <3>2. ASSUME NEW x \in 1..Len(slots), at + 1 >= 1, x <= cnt, at + 1 <= x PROVE Ahead(x)
      BY <1>3, <2>1, <3>2 DEF Ahead
    <3> QED
      BY <1>1, <2>1, <3>1, <3>2 DEF IInv, EventInv, Ahead
  <2> QED
    BY <1>2, <2>2, <2>3 DEF IInv
<1>6. CASE CallHandler
  <2>1. /\ at \in 1..cnt /\ ~ running /\ running' /\ running' = TRUE
        /\ owed' = owed \ {slots[at].key}
        /\ at' = at /\ Handled(slots[at])
    BY <1>6 DEF CallHandler, Polled
  <2>2. TypeOK'
    BY <1>3, <1>4, <2>1
  <2>3. EventInv'
    <3>1. at \in 1..Len(slots) /\ slots[at].key # NoKey
      BY <1>3, <2>1 DEF Handled
    <3>2. ASSUME NEW k \in owed' \ Writers PROVE at < tree[k] /\ k \in owed \ Writers
      <4>1. /\ k \in owed /\ k # slots[at].key /\ k \in DOMAIN tree
            /\ tree[k] \in 1..Len(slots)
            /\ slots[tree[k]].key = k /\ at <= tree[k]
        BY <2>1, ArrayFacts DEF IInv, EventInv
      <4>2. tree[k] # at
        BY <4>1
      <4> QED
        BY <1>3, <4>1, <4>2
    <3>3. ASSUME NEW x \in 1..Len(slots), at >= 1, x <= cnt, at < x,
                 slots[x].key # NoKey, slots[x].revents
          PROVE  slots[x].key \in owed'
      <4>1. Ahead(x)
        BY <1>3, <2>1, <3>3 DEF Ahead
      <4>2. slots[x].key \in owed
        BY <3>3, <4>1 DEF IInv, EventInv
      <4>3. slots[x].key # slots[at].key
        <5>1. tree[slots[x].key] = x /\ tree[slots[at].key] = at
          BY <3>1, <3>3, ArrayFacts
        <5> QED
          BY <1>3, <3>3, <5>1
      <4> QED
        BY <2>1, <4>2, <4>3
    <3>4. at <= cnt /\ owed' \subseteq DOMAIN tree
      BY <1>3, <2>1 DEF IInv, EventInv
    <3> QED
      BY <1>1, <2>1, <3>2, <3>3, <3>4 DEF IInv, EventInv, Ahead
  <2> QED
    BY <1>2, <2>2, <2>3 DEF IInv
<1>7. CASE HandlerReturns
  <2>1. /\ running /\ ~ running' /\ running' \in BOOLEAN /\ owed' = owed
        /\ at' = IF at = 0 THEN 0 ELSE at + 1
    BY <1>7 DEF HandlerReturns, Visited
  <2>2. at <= cnt
    BY <2>1 DEF IInv, EventInv
  <2>3. TypeOK'
    BY <1>3, <1>4, <2>1, <2>2
  <2>4. EventInv'
    <3>1. ASSUME NEW k \in owed \ Writers PROVE at' <= tree[k]
      <4>1. at < tree[k] /\ tree[k] \in 1..Len(slots)
        BY <2>1, ArrayFacts DEF IInv, EventInv
      <4> QED
        BY <1>3, <2>1, <4>1
    <3>2. ASSUME NEW x \in 1..Len(slots), at' >= 1, x <= cnt, at' <= x PROVE Ahead(x)
      BY <1>3, <2>1, <3>2 DEF Ahead
    <3> QED
      BY <1>1, <2>1, <3>1, <3>2 DEF IInv, EventInv, Ahead
  <2> QED
    BY <1>2, <2>3, <2>4 DEF IInv
<1>8. CASE NextPoll
  <2>1. ~ running /\ running' = running /\ owed' = owed /\ at' = 0
    BY <1>8 DEF NextPoll
  <2>2. TypeOK'
    BY <1>3, <1>4, <2>1
  <2>3. EventInv'
    <3>1. ASSUME NEW k \in owed \ Writers PROVE 0 <= tree[k]
      BY ArrayFacts DEF IInv, EventInv
    <3> QED
      BY <1>1, <2>1, <3>1 DEF IInv, EventInv, Ahead
  <2> QED
    BY <1>2, <2>2, <2>3 DEF IInv
<1> QED
  BY <1>5, <1>6, <1>7, <1>8 DEF Loop

(* The empty poller of a new worker satisfies the invariant.                *)
LEMMA InitEstablishes ==
  Init => IInv
<1> SUFFICES ASSUME Init PROVE IInv
  OBVIOUS
<1>1. /\ slots = <<>> /\ free = <<>> /\ tree = [k \in {} |-> 0] /\ at = 0 /\ cnt = 0
      /\ running = TRUE /\ owed = {}
  BY DEF Init
<1>2. TypeOK
  <2>1. tree \in [DOMAIN tree -> 1..Len(slots)] /\ DOMAIN tree = {}
    BY <1>1
  <2>2. slots \in Seq(Slots) /\ free \in Seq(1..Len(slots)) /\ Len(slots) = 0
    BY <1>1
  <2> QED
    BY <1>1, <2>1, <2>2 DEF TypeOK, Slots
<1>3. SlotsExact
  BY <1>1 DEF SlotsExact
<1>4. EventInv
  BY <1>1 DEF EventInv
<1> QED
  BY <1>2, <1>3, <1>4 DEF IInv

(* Every step of the loop and of the handlers keeps the invariant.          *)
LEMMA NextKeeps ==
  ASSUME IInv, [Next]_vars
  PROVE  IInv'
<1>1. CASE HandlerCode
  BY <1>1, AddItemKeeps, ReleaseKeeps DEF HandlerCode
<1>2. CASE \E ready \in SUBSET Keys : PollReturns(ready)
  BY <1>2, PollReturnsKeeps
<1>3. CASE Loop
  BY <1>3, LoopKeeps
<1>4. CASE UNCHANGED vars
  BY <1>4 DEF vars, IInv, TypeOK, SlotsExact, EventInv, Ahead
<1> QED
  BY <1>1, <1>2, <1>3, <1>4 DEF Next

--------------------------------------------------------------------------------
(* Every reachable state of the poll loop satisfies the inductive           *)
(* invariant.                                                               *)
THEOREM PollerInvariant == Spec => []IInv
BY InitEstablishes, NextKeeps, PTL DEF Spec

(* Array, tree and free list always describe the same items, and a turn of  *)
(* the loop leaves out no item the poll reported.                           *)
THEOREM PollerCorrect == Spec => []PollerInv
<1>1. IInv => PollerInv
  <2> SUFFICES ASSUME IInv, at > cnt, NEW k \in owed, k \notin Writers PROVE FALSE
    BY DEF PollerInv, NoEventMissed, IInv
  <2>1. tree[k] <= cnt /\ at <= tree[k] /\ tree[k] \in 1..Len(slots)
    BY ArrayFacts DEF IInv, EventInv
  <2> QED
    BY <2>1, ArrayFacts
<1> QED
  BY <1>1, PollerInvariant, PTL

(* dispatch calls a handler only for an item that this poll reported and    *)
(* that is still in its slot.                                               *)
THEOREM EventsAreCurrent == Spec => NoStaleEvent
<1>1. ASSUME IInv, [Next]_vars
      PROVE  [~ running /\ running' => slots[at].key \in owed]_vars
  <2> SUFFICES ASSUME ~ running, running', ~ UNCHANGED vars
               PROVE  slots[at].key \in owed
    OBVIOUS
  <2>1. CallHandler
    BY <1>1 DEF Next, HandlerCode, PollReturns, Loop, Skip, HandlerReturns, NextPoll
  <2>2. at \in 1..cnt /\ slots[at].key # NoKey /\ slots[at].revents
    BY <2>1 DEF CallHandler, Polled, Handled
  <2>3. at \in 1..Len(slots) /\ at >= 1 /\ at <= cnt
    BY <1>1, <2>2, ArrayFacts
  <2>4. Ahead(at)
    BY <2>3 DEF Ahead
  <2> QED
    BY <1>1, <2>2, <2>3, <2>4 DEF IInv, EventInv
<1> QED
  BY <1>1, PollerInvariant, PTL DEF Spec, NoStaleEvent

--------------------------------------------------------------------------------
(* The timer wheel: TimerWheel.                                             *)

(* Division and remainder, for any divisor.                                 *)
LEMMA DivMod ==
  ASSUME NEW a \in Int, NEW s \in Nat \ {0}
  PROVE  /\ a \div s \in Int
         /\ a % s \in 0..(s - 1)
         /\ a = s * (a \div s) + (a % s)
OBVIOUS

(* The quotient is the only number of whole divisors below.                 *)
LEMMA DivUnique ==
  ASSUME NEW a \in Int, NEW s \in Nat \ {0}, NEW q \in Int,
         s * q <= a, a < s * (q + 1)
  PROVE  a \div s = q
<1> DEFINE d == a \div s
<1>1. d \in Int /\ s * d <= a /\ a < s * (d + 1)
  BY DivMod
<1> HIDE DEF d
<1>2. ASSUME d < q PROVE FALSE
  <2>1. d + 1 <= q
    BY <1>1, <1>2
  <2>2. s * (d + 1) <= s * q
    BY <1>1, <2>1
  <2> QED
    BY <1>1, <2>2
<1>3. ASSUME q < d PROVE FALSE
  <2>1. q + 1 <= d
    BY <1>1, <1>3
  <2>2. s * (q + 1) <= s * d
    BY <1>1, <2>1
  <2> QED
    BY <1>1, <2>2
<1> QED
  BY <1>1, <1>2, <1>3 DEF d

(* A whole number of divisors added adds that number to the quotient.       *)
LEMMA DivAdd ==
  ASSUME NEW a \in Int, NEW s \in Nat \ {0}, NEW n \in Int
  PROVE  (a + s * n) \div s = a \div s + n
<1> DEFINE d == a \div s
           m == s * n
<1>1. d \in Int /\ s * d <= a /\ a < s * (d + 1)
  BY DivMod
<1> HIDE DEF d
<1>2. s * (d + n) = s * d + m /\ s * ((d + n) + 1) = s * (d + 1) + m
  BY <1>1
<1>3. m \in Int
  OBVIOUS
<1> HIDE DEF m
<1>4. a + m \in Int /\ d + n \in Int
  BY <1>1, <1>3
<1>5. s * (d + n) <= a + m /\ a + m < s * ((d + n) + 1)
  BY <1>1, <1>2, <1>3
<1>6. (a + m) \div s = d + n
  BY <1>4, <1>5, DivUnique
<1> QED
  BY <1>6 DEF d, m

(* Division keeps the order.                                                *)
LEMMA DivMonotone ==
  ASSUME NEW a \in Int, NEW b \in Int, NEW s \in Nat \ {0}, a <= b
  PROVE  a \div s <= b \div s
<1> DEFINE c == a \div s
           d == b \div s
<1>1. c \in Int /\ s * c <= a /\ a < s * (c + 1)
  BY DivMod
<1>2. d \in Int /\ s * d <= b /\ b < s * (d + 1)
  BY DivMod
<1> HIDE DEF c, d
<1>3. ASSUME d < c PROVE FALSE
  <2>1. d + 1 <= c
    BY <1>1, <1>2, <1>3
  <2>2. s * (d + 1) <= s * c
    BY <1>1, <1>2, <2>1
  <2> QED
    BY <1>1, <1>2, <2>2
<1> QED
  BY <1>1, <1>2, <1>3 DEF c, d

(* Numbers less than n apart with the same remainder by n are equal.        *)
LEMMA ModUnique ==
  ASSUME NEW a \in Int, NEW b \in Int, NEW n \in Nat \ {0},
         a <= b, b < a + n, a % n = b % n
  PROVE  a = b
<1> DEFINE c == a \div n
           d == b \div n
           r == a % n
<1>1. c \in Int /\ d \in Int /\ r \in Int /\ a = n * c + r /\ b = n * d + r
  BY DivMod
<1> HIDE DEF c, d, r
<1>2. b - a = n * (d - c)
  BY <1>1
<1>3. d - c \in Int /\ 0 <= n * (d - c) /\ n * (d - c) < n
  BY <1>1, <1>2
<1>4. ASSUME d - c >= 1 PROVE FALSE
  BY <1>3, <1>4
<1>5. ASSUME d - c <= -1 PROVE FALSE
  BY <1>3, <1>5
<1>6. d = c
  BY <1>1, <1>4, <1>5
<1> QED
  BY <1>1, <1>6

(* A step of the clock reaches a new multiple of s, or stays below it.      *)
LEMMA DivStep ==
  ASSUME NEW t \in Int, NEW s \in Nat \ {0}
  PROVE  t \div s = IF t % s = 0 THEN ((t - 1) \div s) + 1 ELSE (t - 1) \div s
<1> DEFINE d == t \div s
           r == t % s
<1>1. d \in Int /\ r \in 0..(s - 1) /\ t = s * d + r
  BY DivMod
<1> HIDE DEF d, r
<1>2. CASE r = 0
  <2>1. s * (d - 1) = s * d - s
    BY <1>1
  <2>2. s * (d - 1) <= t - 1 /\ t - 1 < s * ((d - 1) + 1)
    BY <1>1, <1>2, <2>1
  <2>3. (t - 1) \div s = d - 1
    BY <1>1, <2>2, DivUnique
  <2> QED
    BY <1>1, <1>2, <2>3 DEF d, r
<1>3. CASE r # 0
  <2>1. s * (d + 1) = s * d + s
    BY <1>1
  <2>2. s * d <= t - 1 /\ t - 1 < s * (d + 1)
    BY <1>1, <1>3, <2>1
  <2>3. (t - 1) \div s = d
    BY <1>1, <2>2, DivUnique
  <2> QED
    BY <1>1, <1>3, <2>3 DEF d, r
<1> QED
  BY <1>2, <1>3

(* A multiple of s * n is a multiple of s whose quotient is one of n.       *)
LEMMA ModProduct ==
  ASSUME NEW t \in Int, NEW s \in Nat \ {0}, NEW n \in Nat \ {0}, t % s = 0
  PROVE  (t \div s) % n = 0 <=> t % (s * n) = 0
<1> DEFINE d == t \div s
           u == s * n
           c == d \div n
           r == d % n
           w == t \div u
           z == t % u
<1>0. u \in Nat \ {0}
  OBVIOUS
<1>1. d \in Int /\ t = s * d
  BY DivMod
<1>2. c \in Int /\ r \in 0..(n - 1) /\ d = n * c + r
  BY <1>1, DivMod
<1>3. w \in Int /\ z \in 0..(u - 1) /\ t = u * w + z
  BY <1>0, DivMod
<1> HIDE DEF d, c, r, w, z
<1>4. t = u * c + s * r
  BY <1>1, <1>2
<1>5. s * r >= 0 /\ s * r < u /\ s * r \in Int
  BY <1>2
<1>6. u * c \in Int /\ u * (c + 1) = u * c + u
  BY <1>0, <1>2
<1> HIDE DEF u
<1>7. w = c
  BY <1>0, <1>2, <1>4, <1>5, <1>6, DivUnique DEF w
<1>8. z = s * r
  BY <1>3, <1>4, <1>5, <1>6, <1>7
<1>9. s * r = 0 <=> r = 0
  BY <1>2
<1> QED
  BY <1>8, <1>9 DEF r, d, z, u

(* Reducing before a step around a ring changes nothing.                    *)
LEMMA ModSucc ==
  ASSUME NEW a \in Int, NEW n \in Nat \ {0}
  PROVE  ((a % n) + 1) % n = (a + 1) % n
<1> DEFINE q == a \div n
           r == a % n
           c == (r + 1) \div n
           z == (r + 1) % n
           d == (a + 1) \div n
           w == (a + 1) % n
<1>1. q \in Int /\ r \in 0..(n - 1) /\ a = n * q + r
  BY DivMod
<1>2. c \in Int /\ z \in 0..(n - 1) /\ r + 1 = n * c + z
  BY <1>1, DivMod
<1>3. d \in Int /\ w \in 0..(n - 1) /\ a + 1 = n * d + w
  BY <1>1, DivMod
<1> HIDE DEF q, r, c, z, d, w
<1>4. a + 1 = n * (q + c) + z
  BY <1>1, <1>2
<1>5. q + c \in Int /\ n * ((q + c) + 1) = n * (q + c) + n
  BY <1>1, <1>2
<1>6. a + 1 \in Int /\ n * (q + c) <= a + 1 /\ a + 1 < n * ((q + c) + 1)
  BY <1>2, <1>4, <1>5
<1>7. d = q + c
  BY <1>5, <1>6, DivUnique DEF d
<1>8. z = w
  BY <1>2, <1>3, <1>4, <1>5, <1>7
<1> QED
  BY <1>8 DEF z, w, r

(* A multiple of s * n is one of s.                                         *)
LEMMA ModDivides ==
  ASSUME NEW t \in Int, NEW s \in Nat \ {0}, NEW n \in Nat \ {0}, t % (s * n) = 0
  PROVE  t % s = 0
<1> DEFINE u == s * n
           w == t \div u
           d == t \div s
           r == t % s
<1>1. u \in Nat \ {0}
  OBVIOUS
<1>2. w \in Int /\ t = u * w
  <2>1. w \in Int /\ t = u * w + (t % u)
    BY <1>1, DivMod
  <2>2. t % u = 0 /\ u * w \in Int
    BY <1>1, <2>1
  <2> QED
    BY ONLY <2>1, <2>2
<1>3. d \in Int /\ r \in 0..(s - 1) /\ t = s * d + r
  BY DivMod
<1> HIDE DEF w, d, r
<1>4. n * w \in Int /\ t = s * (n * w) /\ s * ((n * w) + 1) = s * (n * w) + s
  BY <1>2
<1>5. d = n * w
  BY <1>4, DivUnique DEF d
<1>6. s * d \in Int /\ t = s * d
  BY <1>3, <1>4, <1>5
<1>7. r = 0
  BY ONLY <1>3, <1>6
<1> QED
  BY <1>7 DEF r

--------------------------------------------------------------------------------
(* The rings: each slot covers a whole turn of the ring below, and the last *)
(* ring covers all times an int can hold.                                   *)
LEMMA RingSizes ==
  /\ \A k \in Rings : Size(k) \in Nat \ {0} /\ Span(k) \in Nat \ {0}
  /\ Span(1) = 1
  /\ \A k \in 1..4 : Span(k + 1) = Span(k) * Size(k)
  /\ \A k \in Rings : Span(k) < Half
  /\ Half <= Span(5) * Size(5)
  /\ \A k \in 2..5 : \E m \in Nat \ {0} : Span(k) = Root * m
<1> DEFINE a == Root * Node
           b == a * Node
           c == b * Node
<1>1. Root \in Nat \ {0} /\ Node \in Nat \ {0, 1} /\ Half \in Nat /\ c < Half /\ Half <= c * Node
  BY WheelAssumption
<1>2. a \in Nat \ {0} /\ Root <= a /\ 1 <= Root
  BY <1>1
<1>3. Span(1) = 1 /\ Span(2) = Root /\ Span(3) = a /\ Span(4) = b /\ Span(5) = c
  BY DEF Span
<1>4. Size(1) = Root /\ \A k \in 2..5 : Size(k) = Node
  BY DEF Size
<1>10. \A k \in Rings : k = 1 \/ k = 2 \/ k = 3 \/ k = 4 \/ k = 5
  BY DEF Rings
<1>11. \E m \in Nat \ {0} : b = Root * m
  BY <1>1
<1>12. \E m \in Nat \ {0} : c = Root * m
  BY <1>1
<1>13. \E m \in Nat \ {0} : a = Root * m
  BY <1>1
<1>14. \E m \in Nat \ {0} : Root = Root * m
  BY <1>1
<1> HIDE DEF a
<1>5. b \in Nat \ {0} /\ a <= b
  BY <1>1, <1>2
<1> HIDE DEF b
<1>6. c \in Nat \ {0} /\ b <= c
  BY <1>1, <1>5
<1> HIDE DEF c
<1>7. \A k \in Rings : Size(k) \in Nat \ {0} /\ Span(k) \in Nat \ {0} /\ Span(k) < Half
  BY <1>1, <1>2, <1>3, <1>4, <1>5, <1>6, <1>10 DEF Rings
<1>8. \A k \in 1..4 : Span(k + 1) = Span(k) * Size(k)
  <2>1. Span(2) = Span(1) * Size(1)
    BY <1>1, <1>3, <1>4
  <2>2. Span(3) = Span(2) * Size(2)
    BY <1>1, <1>3, <1>4 DEF a
  <2>3. Span(4) = Span(3) * Size(3)
    BY <1>1, <1>3, <1>4 DEF b
  <2>4. Span(5) = Span(4) * Size(4)
    BY <1>1, <1>3, <1>4 DEF c
  <2> QED
    BY <2>1, <2>2, <2>3, <2>4
<1>9. Half <= Span(5) * Size(5)
  BY <1>1, <1>3, <1>4
<1>15. \A k \in 2..5 : \E m \in Nat \ {0} : Span(k) = Root * m
  <2> TAKE k \in 2..5
  <2>1. k = 2 \/ k = 3 \/ k = 4 \/ k = 5
    OBVIOUS
  <2> QED
    BY <2>1, <1>3, <1>11, <1>12, <1>13, <1>14
<1> QED
  BY <1>3, <1>7, <1>8, <1>9, <1>15

(* The ring get_timer_list takes for a time ahead: the first whose slots    *)
(* reach that far.                                                          *)
LEMMA RingForTime ==
  ASSUME NEW t \in Nat
  PROVE  /\ RingFor(t) \in Rings
         /\ RingFor(t) # 5 => t < Span(RingFor(t) + 1)
         /\ RingFor(t) # 1 => t >= Span(RingFor(t))
<1> DEFINE P(k) == /\ k = 5 \/ t < Span(k + 1)
                   /\ \A j \in 1..(k - 1) : t >= Span(j + 1)
<1>1. \E k \in Rings : P(k)
  <2>1. Span(2) \in Nat /\ Span(3) \in Nat /\ Span(4) \in Nat /\ Span(5) \in Nat
    BY RingSizes DEF Rings
  <2>2. CASE t < Span(2)
    <3>1. P(1)
      BY <2>2
    <3> QED
      BY <3>1 DEF Rings
  <2>3. CASE t >= Span(2) /\ t < Span(3)
    <3>1. P(2)
      BY <2>3
    <3> QED
      BY <3>1 DEF Rings
  <2>4. CASE t >= Span(2) /\ t >= Span(3) /\ t < Span(4)
    <3>1. P(3)
      BY <2>4
    <3> QED
      BY <3>1 DEF Rings
  <2>5. CASE t >= Span(2) /\ t >= Span(3) /\ t >= Span(4) /\ t < Span(5)
    <3>1. P(4)
      BY <2>5
    <3> QED
      BY <3>1 DEF Rings
  <2>6. CASE t >= Span(2) /\ t >= Span(3) /\ t >= Span(4) /\ t >= Span(5)
    <3>1. P(5)
      BY <2>6
    <3> QED
      BY <3>1 DEF Rings
  <2> QED
    BY <2>1, <2>2, <2>3, <2>4, <2>5, <2>6
<1> DEFINE k == RingFor(t)
<1>2. k \in Rings /\ P(k)
  BY <1>1 DEF RingFor
<1> HIDE DEF k
<1>3. ASSUME k # 1 PROVE t >= Span(k)
  <2>1. k - 1 \in 1..(k - 1) /\ (k - 1) + 1 = k
    BY <1>2, <1>3 DEF Rings
  <2>2. \A j \in 1..(k - 1) : t >= Span(j + 1)
    BY <1>2
  <2>3. t >= Span((k - 1) + 1)
    BY <2>1, <2>2
  <2> QED
    BY <2>1, <2>3
<1> QED
  BY <1>2, <1>3 DEF k

(* A time ahead is not taken for one in the past before the sign bit.       *)
LEMMA NotNegative ==
  ASSUME NEW t \in Nat, t < Half
  PROVE  ~ Negative(t)
<1>1. Half \in Nat \ {0} /\ Half * 0 = 0 /\ Half * (0 + 1) = Half
  BY WheelAssumption
<1>2. t \div Half = 0
  BY <1>1, DivUnique
<1> QED
  BY <1>2 DEF Negative


--------------------------------------------------------------------------------
(* The clock and the wheel's time: jiffies is at most one tick away from    *)
(* timer_jiffies, on the side where periodic_runner is, and the two start   *)
(* from the same tick.                                                      *)
ClockInv ==
    /\ jiffies + todo + behind <= MaxJiffies
    /\ pc \in {"idle", "step"} =>
          timer_jiffies = jiffies + 1 \/ (timer_jiffies = 0 /\ jiffies = 0)
    /\ pc = "list" => timer_jiffies \in (jiffies - 1)..(jiffies + 1)
    /\ pc \in {"run", "callback"} => timer_jiffies \in (jiffies - 1)..jiffies

(* A slot s that will be moved down or run in time for tick e, if its ring  *)
(* has been moved down or run for tick r: the slot of e, in the turn of the *)
(* ring that follows the slot of r.                                         *)
InTime(s, e, r) ==
    LET k == s[1]
    IN  /\ s[2] = (e \div Span(k)) % Size(k)
        /\ r \div Span(k) < e \div Span(k)
        /\ e \div Span(k) <= (r \div Span(k)) + Size(k)

PlacedInTime ==
    \A x \in Timers, k \in Rings :
        slot[x] # Off /\ slot[x][1] = k /\ Fits(x) => InTime(slot[x], expire[x], Reached(k))

(* The inductive invariant.                                                 *)
WheelIInv == WheelTypeOK /\ ClockInv /\ IndexTracksTime /\ PlacedInTime

--------------------------------------------------------------------------------
(* get_timer_list gives a slot of the wheel.                                *)
LEMMA TimerListSlot ==
  ASSUME WheelTypeOK, NEW e \in Nat
  PROVE  /\ TimerList(e) \in Rings \X Nat
         /\ TimerList(e)[2] < Size(TimerList(e)[1])
<1> DEFINE t == e - timer_jiffies
           k == RingFor(t)
           p == (e \div Span(k)) % Size(k)
<1>0. t \in Int /\ index \in [Rings -> Nat] /\ index[1] < Size(1) /\ 1 \in Rings
  BY WheelAssumption DEF WheelTypeOK, Rings
<1>1. CASE Negative(t)
  <2>1. TimerList(e) = <<1, index[1]>>
    BY <1>1 DEF TimerList
  <2> QED
    BY <1>0, <2>1
<1>2. CASE ~ Negative(t)
  <2>1. TimerList(e) = <<k, p>>
    BY <1>2 DEF TimerList
  <2>2. t \in Nat
    BY <1>0, <1>2 DEF Negative
  <2>3. k \in Rings
    BY <2>2, RingForTime
  <2> HIDE DEF k
  <2>4. Size(k) \in Nat \ {0} /\ Span(k) \in Nat \ {0}
    BY <2>3, RingSizes
  <2>5. p \in 0..(Size(k) - 1)
    <3>1. e \div Span(k) \in Int
      BY <2>4, DivMod
    <3> QED
      BY <2>4, <3>1, DivMod
  <2> HIDE DEF p
  <2> QED
    BY <2>1, <2>3, <2>4, <2>5
<1> QED
  BY <1>1, <1>2

(* A timer that does not lie in the past is put where it will be found in   *)
(* time, whether the rings have been moved down for this tick or not.       *)
LEMMA TimerListInTime ==
  ASSUME WheelTypeOK, NEW e \in Nat, NEW r \in {timer_jiffies - 1, timer_jiffies},
         timer_jiffies <= e, e - timer_jiffies < Half,
         TimerList(e)[1] = 1 => r = timer_jiffies - 1
  PROVE  InTime(TimerList(e), e, r)
<1> DEFINE t == e - timer_jiffies
           k == RingFor(t)
           s == Span(k)
           n == Size(k)
<1>1. timer_jiffies \in Nat /\ t \in Nat /\ r \in Int /\ t < Half /\ e = timer_jiffies + t
  BY WheelAssumption DEF WheelTypeOK
<1>2. ~ Negative(t)
  BY <1>1, NotNegative
<1>3. TimerList(e) = <<k, (e \div s) % n>>
  BY <1>2 DEF TimerList
<1>4. k \in Rings /\ (k # 5 => t < Span(k + 1)) /\ (k # 1 => t >= s)
  BY <1>1, RingForTime
<1>5. k = 1 => r = timer_jiffies - 1
  BY <1>3
<1> HIDE DEF t, k
<1>6. s \in Nat \ {0} /\ n \in Nat \ {0} /\ (k = 1 => s = 1)
  BY <1>4, RingSizes
<1>7. t < s * n
  <2>1. CASE k = 5
    <3>1. Half <= s * n
      BY <2>1, RingSizes
    <3>2. Half \in Nat /\ s * n \in Nat
      BY <1>6, WheelAssumption
    <3> QED
      BY <1>1, <3>1, <3>2
  <2>2. CASE k # 5
    <3>1. k \in 1..4
      BY <1>4, <2>2 DEF Rings
    <3>2. Span(k + 1) = s * n
      BY <3>1, RingSizes
    <3> QED
      BY <1>4, <2>2, <3>2
  <2> QED
    BY <2>1, <2>2
<1>8. s * 1 = s /\ s * n \in Nat
  BY <1>6
<1> HIDE DEF s, n
<1>9. r + s * 1 <= e /\ e <= r + s * n
  <2>1. r + s <= e
    <3>1. CASE k = 1
      BY <3>1, <1>1, <1>5, <1>6
    <3>2. CASE k # 1
      BY <3>2, <1>1, <1>4, <1>6
    <3> QED
      BY <3>1, <3>2
  <2>2. e <= r + s * n
    BY <1>1, <1>7, <1>8
  <2> QED
    BY <1>8, <2>1, <2>2
<1>10. (r + s * 1) \div s = (r \div s) + 1 /\ (r + s * n) \div s = (r \div s) + n
  <2>1. 1 \in Int /\ n \in Int
    BY <1>6
  <2>2. (r + s * 1) \div s = (r \div s) + 1
    BY ONLY <1>1, <1>6, <2>1, DivAdd, Zenon
  <2>3. (r + s * n) \div s = (r \div s) + n
    BY ONLY <1>1, <1>6, <2>1, DivAdd, Zenon
  <2> QED
    BY <2>2, <2>3
<1>11. (r + s * 1) \div s <= e \div s /\ e \div s <= (r + s * n) \div s
  <2>1. r + s * 1 \in Int /\ r + s * n \in Int /\ e \in Int
    BY <1>1, <1>6, <1>8
  <2>2. (r + s * 1) \div s <= e \div s
    BY ONLY <1>6, <1>9, <2>1, DivMonotone, Zenon
  <2>3. e \div s <= (r + s * n) \div s
    BY ONLY <1>6, <1>9, <2>1, DivMonotone, Zenon
  <2> QED
    BY <2>2, <2>3
<1>12. r \div s \in Int /\ e \div s \in Int
  BY <1>1, <1>6, DivMod
<1>13. r \div s < e \div s /\ e \div s <= (r \div s) + n
  BY <1>10, <1>11, <1>12, <1>6
<1> QED
  BY <1>3, <1>13 DEF InTime, s, n

(* A timer in time is not overdue.                                          *)
LEMMA InTimeNotOverdue ==
  ASSUME NEW s \in Rings \X Nat, NEW e \in Nat, NEW r \in Int, InTime(s, e, r)
  PROVE  r < e
<1> DEFINE k == s[1]
           d == Span(k)
<1>1. d \in Nat \ {0}
  BY RingSizes
<1>2. r \div d < e \div d
  BY DEF InTime
<1> HIDE DEF d
<1>3. r \div d \in Int /\ e \div d \in Int
  BY <1>1, DivMod
<1>4. ASSUME e <= r PROVE FALSE
  <2>1. e \div d <= r \div d
    BY <1>1, <1>4, DivMonotone
  <2> QED
    BY <1>2, <1>3, <2>1
<1> QED
  BY <1>4

(* The slot a ring reaches next holds the timers of the ticks it covers,    *)
(* and no other slot does.                                                  *)
LEMMA NextSlot ==
  ASSUME NEW s \in Rings \X Nat, NEW e \in Nat, NEW r \in Int, InTime(s, e, r)
  PROVE  s[2] = ((r \div Span(s[1])) + 1) % Size(s[1])
            <=> e \div Span(s[1]) = (r \div Span(s[1])) + 1
<1> DEFINE d == Span(s[1])
           n == Size(s[1])
           a == (r \div d) + 1
           b == e \div d
<1>1. d \in Nat \ {0} /\ n \in Nat \ {0}
  BY RingSizes
<1>2. s[2] = b % n /\ r \div d < b /\ b <= (r \div d) + n
  BY DEF InTime
<1> HIDE DEF d, n
<1>3. r \div d \in Int /\ a \in Int /\ b \in Int
  BY <1>1, DivMod
<1>4. a <= b /\ b < a + n
  BY <1>1, <1>2, <1>3
<1> HIDE DEF a, b
<1>5. a % n = b % n => a = b
  BY <1>1, <1>3, <1>4, ModUnique
<1>6. s[2] = a % n <=> b = a
  BY <1>2, <1>5
<1> QED
  BY <1>6 DEF a, b, d, n


(* What a tick's start finds: the first ring is at its start when the tick  *)
(* is a multiple of its size, only then does any other ring reach a new     *)
(* slot, and the rings moved down are the ones that do.                     *)
LEMMA MovedRings ==
  ASSUME WheelTypeOK, IndexTracksTime, pc = "list"
  PROVE  /\ index[1] = 0 => \A k \in 2..5 : k \in Moved <=> timer_jiffies % Span(k) = 0
         /\ index[1] # 0 => \A k \in 2..5 : timer_jiffies % Span(k) # 0
<1> DEFINE T == timer_jiffies
           P(k) == T % Span(k) = 0
<1>1. T \in Nat /\ T \in Int /\ T - 1 \in Int
  BY WheelAssumption DEF WheelTypeOK
<1>2. \A k \in Rings : index[k] = (((T - 1) \div Span(k)) + 1) % Size(k)
  BY DEF IndexTracksTime, Turn, Reached
<1>3. Span(1) = 1 /\ Size(1) = Root /\ Span(2) = Root /\ Root \in Nat \ {0}
  BY WheelAssumption DEF Span, Size
<1>4. index[1] = 0 <=> P(2)
  <2>1. 1 * (T - 1) <= T - 1 /\ T - 1 < 1 * ((T - 1) + 1)
    BY <1>1
  <2>2. (T - 1) \div 1 = T - 1
    BY <1>1, <2>1, DivUnique
  <2>3. index[1] = ((T - 1) + 1) % Root
    BY <1>2, <1>3, <2>2 DEF Rings
  <2>4. (T - 1) + 1 = T
    BY <1>1
  <2> QED
    BY <1>3, <2>3, <2>4
<1>5. ASSUME NEW k \in 2..4, P(k) PROVE index[k] = 0 <=> P(k + 1)
  <2> DEFINE s == Span(k)
             n == Size(k)
  <2>1. k \in Rings /\ k \in 1..4
    BY DEF Rings
  <2>2. s \in Nat \ {0} /\ n \in Nat \ {0} /\ Span(k + 1) = s * n
    BY <2>1, RingSizes
  <2>3. index[k] = (((T - 1) \div s) + 1) % n
    BY <1>2, <2>1
  <2>4. T % s = 0
    BY <1>5
  <2> HIDE DEF s, n, T
  <2>5. T \div s = ((T - 1) \div s) + 1
    BY ONLY <1>1, <2>2, <2>4, DivStep, Zenon
  <2>6. index[k] = (T \div s) % n
    BY <2>3, <2>5
  <2>7. (T \div s) % n = 0 <=> T % (s * n) = 0
    BY ONLY <1>1, <2>2, <2>4, ModProduct, Zenon
  <2> QED
    BY <2>2, <2>6, <2>7
<1>6. ASSUME NEW k \in 1..4, P(k + 1) PROVE P(k)
  <2>1. k \in Rings
    BY DEF Rings
  <2>2. Span(k) \in Nat \ {0} /\ Size(k) \in Nat \ {0} /\ Span(k + 1) = Span(k) * Size(k)
    BY <2>1, RingSizes
  <2> QED
    BY <1>1, <1>6, <2>2, ModDivides
<1>7. ASSUME NEW k \in 2..5, P(k) PROVE P(2)
  <2>1. PICK m \in Nat \ {0} : Span(k) = Root * m
    BY RingSizes
  <2> QED
    BY <1>1, <1>3, <1>7, <2>1, ModDivides
<1> HIDE DEF P
<1>8. ASSUME index[1] = 0, NEW k \in 2..5 PROVE k \in Moved <=> P(k)
  <2>1. k \in Moved <=> \A j \in 2..(k - 1) : index[j] = 0
    BY DEF Moved
  <2>2. P(2)
    BY <1>4, <1>8
  <2>3. index[2] = 0 <=> P(3)
    BY <1>5, <2>2
  <2>4. P(3) => (index[3] = 0 <=> P(4))
    BY <1>5
  <2>5. P(4) => (index[4] = 0 <=> P(5))
    BY <1>5
  <2>6. (P(5) => P(4)) /\ (P(4) => P(3))
    BY <1>6
  <2>7. CASE k = 2
    BY <2>1, <2>2, <2>7
  <2>8. CASE k = 3
    <3>1. k \in Moved <=> index[2] = 0
      BY <2>1, <2>8
    <3> QED
      BY <2>3, <2>8, <3>1
  <2>9. CASE k = 4
    <3>1. k \in Moved <=> index[2] = 0 /\ index[3] = 0
      BY <2>1, <2>9
    <3> QED
      BY <2>3, <2>4, <2>6, <2>9, <3>1
  <2>10. CASE k = 5
    <3>1. k \in Moved <=> index[2] = 0 /\ index[3] = 0 /\ index[4] = 0
      BY <2>1, <2>10
    <3> QED
      BY <2>3, <2>4, <2>5, <2>6, <2>10, <3>1
  <2> QED
    BY <2>7, <2>8, <2>9, <2>10
<1> QED
  BY <1>4, <1>7, <1>8 DEF P

--------------------------------------------------------------------------------
(* Types, and the clock: every step keeps them.                             *)
LEMMA WheelTypeStep ==
  ASSUME WheelTypeOK, ClockInv, [WheelNext]_wheelVars
  PROVE  WheelTypeOK'
<1> USE DEF WheelTypeOK
<1>0. MaxJiffies \in Nat /\ MaxBehind \in Nat
  BY WheelAssumption
<1>1. ASSUME NEW x \in Timers, NEW n \in Intervals[x], Link(x, n) PROVE WheelTypeOK'
  <2>1. n \in Nat \ {0}
    BY WheelAssumption
  <2> DEFINE e == jiffies + n
  <2>2. e \in Nat
    BY <1>0, <2>1
  <2>3. TimerList(e) \in Rings \X Nat /\ TimerList(e)[2] < Size(TimerList(e)[1])
    BY <2>2, TimerListSlot
  <2>4. slot' = [slot EXCEPT ![x] = TimerList(e)]
    BY <1>1 DEF Link
  <2>5. \A y \in Timers : slot'[y] = IF y = x THEN TimerList(e) ELSE slot[y]
    BY <2>4
  <2> HIDE DEF e
  <2>6. /\ slot' \in [Timers -> {Off} \cup (Rings \X Nat)]
        /\ \A y \in Timers : slot'[y] # Off => slot'[y][2] < Size(slot'[y][1])
    BY <2>3, <2>4, <2>5
  <2>7. expire' \in [Timers -> Nat] /\ interval' \in [Timers -> Nat]
    BY <1>1, <2>1, <2>2 DEF Link, e
  <2> QED
    BY <1>1, <2>6, <2>7 DEF Link
<1>2. ASSUME NEW x \in Timers, Unlink(x), UNCHANGED <<jiffies, timer_jiffies, index, clock>>,
             pc' \in {"idle", "callback"}, firing' \in Timers \cup {Off}
      PROVE WheelTypeOK'
  <2>1. \A y \in Timers : slot'[y] = IF y = x THEN Off ELSE slot[y]
    BY <1>2 DEF Unlink
  <2>2. /\ slot' \in [Timers -> {Off} \cup (Rings \X Nat)]
        /\ \A y \in Timers : slot'[y] # Off => slot'[y][2] < Size(slot'[y][1])
    BY <1>2, <2>1 DEF Unlink
  <2>3. expire' \in [Timers -> Nat] /\ interval' \in [Timers -> Nat]
    BY <1>2 DEF Unlink
  <2> QED
    BY <1>2, <2>2, <2>3 DEF clock
<1>3. ASSUME NEW x \in Timers, NEW n \in Intervals[x], Start(x, n) \/ Restart(x, n) PROVE WheelTypeOK'
  BY <1>1, <1>3 DEF Start, Restart
<1>4. ASSUME NEW x \in Timers, Stop(x) \/ RunTimer(x) PROVE WheelTypeOK'
  BY <1>2, <1>4 DEF Stop, RunTimer, UserCode
<1>5. CASE Elapse
  BY <1>0, <1>5 DEF Elapse, wheel
<1>6. CASE PeriodicRunner
  BY <1>0, <1>6 DEF PeriodicRunner
<1>7. CASE StepRun
  BY <1>0, <1>7 DEF StepRun, wheel, ClockInv
<1>8. CASE RunTimerList
  <2>1. CASE MoveTimers
    <3>1. ASSUME NEW k \in Rings PROVE index'[k] \in Nat /\ index'[k] < Size(k)
      <4>1. Size(k) \in Nat \ {0} /\ index[k] + 1 \in Int
        BY RingSizes
      <4>2. (index[k] + 1) % Size(k) \in 0..(Size(k) - 1)
        BY <4>1, DivMod
      <4>3. index'[k] = (index[k] + 1) % Size(k) \/ index'[k] = index[k]
        BY <2>1 DEF MoveTimers
      <4> QED
        BY <4>1, <4>2, <4>3
    <3>2. index' \in [Rings -> Nat] /\ \A k \in Rings : index'[k] < Size(k)
      BY <2>1, <3>1 DEF MoveTimers
    <3>3. ASSUME NEW x \in Timers
          PROVE  /\ slot'[x] \in {Off} \cup (Rings \X Nat)
                 /\ slot'[x] # Off => slot'[x][2] < Size(slot'[x][1])
      <4>1. slot'[x] = TimerList(expire[x]) \/ slot'[x] = slot[x]
        BY <2>1 DEF MoveTimers
      <4>2. TimerList(expire[x]) \in Rings \X Nat
            /\ TimerList(expire[x])[2] < Size(TimerList(expire[x])[1])
        BY TimerListSlot
      <4> QED
        BY <4>1, <4>2
    <3>4. slot' \in [Timers -> {Off} \cup (Rings \X Nat)]
      BY <2>1, <3>3 DEF MoveTimers
    <3> QED
      BY <1>8, <3>2, <3>3, <3>4 DEF RunTimerList, clock
  <2>2. CASE UNCHANGED <<index, slot>>
    BY <1>8, <2>2 DEF RunTimerList, clock
  <2> QED
    BY <1>8, <2>1, <2>2 DEF RunTimerList
<1>9. CASE OnTimerReturns
  BY <1>9 DEF OnTimerReturns, wheel, clock
<1>10. CASE Advance
  <2>1. timer_jiffies + 1 \in 0..(MaxJiffies + 1)
    BY <1>0, <1>10 DEF Advance, ClockInv
  <2>2. Size(1) \in Nat \ {0} /\ index[1] + 1 \in Int /\ 1 \in Rings
    BY RingSizes DEF Rings
  <2>3. (index[1] + 1) % Size(1) \in 0..(Size(1) - 1)
    BY <2>2, DivMod
  <2>4. \A k \in Rings : index'[k] = IF k = 1 THEN (index[1] + 1) % Size(1) ELSE index[k]
    BY <1>10, <2>2 DEF Advance
  <2>5. index' \in [Rings -> Nat] /\ \A k \in Rings : index'[k] < Size(k)
    BY <1>10, <2>2, <2>3, <2>4 DEF Advance
  <2> QED
    BY <1>10, <2>1, <2>5 DEF Advance, clock
<1>11. CASE UNCHANGED wheelVars
  BY <1>11 DEF wheelVars, wheel, clock
<1> QED
  BY <1>3, <1>4, <1>5, <1>6, <1>7, <1>8, <1>9, <1>10, <1>11 DEF WheelNext

(* jiffies and timer_jiffies stay as far apart as the loops leave them.     *)
LEMMA ClockStep ==
  ASSUME WheelTypeOK, ClockInv, [WheelNext]_wheelVars
  PROVE  ClockInv'
<1> USE DEF ClockInv
<1>0. /\ MaxJiffies \in Nat /\ MaxBehind \in Nat /\ jiffies \in Nat /\ timer_jiffies \in Nat
      /\ todo \in Nat /\ behind \in Nat
  BY WheelAssumption DEF WheelTypeOK
<1>1. ASSUME NEW x \in Timers, NEW n \in Intervals[x], Start(x, n) \/ Restart(x, n) PROVE ClockInv'
  BY <1>1 DEF Start, Restart, Link
<1>2. ASSUME NEW x \in Timers, Stop(x) \/ RunTimer(x) PROVE ClockInv'
  BY <1>2 DEF Stop, RunTimer, clock
<1>3. CASE Elapse
  BY <1>0, <1>3 DEF Elapse
<1>4. CASE PeriodicRunner
  BY <1>0, <1>4 DEF PeriodicRunner
<1>5. CASE StepRun
  BY <1>0, <1>5 DEF StepRun
<1>6. CASE RunTimerList
  BY <1>0, <1>6 DEF RunTimerList, clock
<1>7. CASE OnTimerReturns
  BY <1>7 DEF OnTimerReturns, clock
<1>8. CASE Advance
  BY <1>0, <1>8 DEF Advance, clock
<1>9. CASE UNCHANGED wheelVars
  BY <1>9 DEF wheelVars, clock
<1> QED
  BY <1>1, <1>2, <1>3, <1>4, <1>5, <1>6, <1>7, <1>8, <1>9 DEF WheelNext


(* Where periodic_runner is counts only as: inside a tick or not.           *)
InTick(p) == p \in {"run", "callback"}

(* A step that neither begins nor ends a tick moves no ring.                *)
LEMMA ReachedKept ==
  ASSUME UNCHANGED timer_jiffies, InTick(pc) <=> InTick(pc')
  PROVE  \A k : Reached(k)' = Reached(k)
BY DEF Reached, InTick

(* A tick begins: rings 2 to 5 have now been moved down for it.             *)
LEMMA ReachedBegin ==
  ASSUME UNCHANGED timer_jiffies, pc = "list", pc' = "run"
  PROVE  /\ \A k : Reached(k) = timer_jiffies - 1
         /\ \A k : Reached(k)' = IF k = 1 THEN timer_jiffies - 1 ELSE timer_jiffies
BY DEF Reached

(* The indexes follow the ticks through every step.                         *)
LEMMA IndexStep ==
  ASSUME WheelTypeOK, IndexTracksTime, [WheelNext]_wheelVars
  PROVE  IndexTracksTime'
<1> DEFINE T == timer_jiffies
<1>0. T \in Nat /\ T \in Int /\ T - 1 \in Int /\ T + 1 \in Int
  BY WheelAssumption DEF WheelTypeOK
<1>1. ASSUME UNCHANGED <<timer_jiffies, index>>, InTick(pc) <=> InTick(pc') PROVE IndexTracksTime'
  BY <1>1, ReachedKept DEF IndexTracksTime, Turn
<1>2. ASSUME NEW x \in Timers, NEW n \in Intervals[x], Start(x, n) \/ Restart(x, n) PROVE IndexTracksTime'
  BY <1>1, <1>2 DEF Start, Restart, Link
<1>3. ASSUME NEW x \in Timers, Stop(x) \/ RunTimer(x) PROVE IndexTracksTime'
  BY <1>1, <1>3 DEF Stop, RunTimer, InTick
<1>4. CASE Elapse \/ PeriodicRunner \/ StepRun \/ OnTimerReturns \/ UNCHANGED wheelVars
  BY <1>1, <1>4 DEF Elapse, PeriodicRunner, StepRun, OnTimerReturns, wheelVars, wheel, InTick
<1>5. CASE RunTimerList /\ jiffies < timer_jiffies
  <2>1. jiffies \in Nat
    BY WheelAssumption DEF WheelTypeOK
  <2> QED
    BY <1>0, <1>1, <1>5, <2>1 DEF RunTimerList, InTick
<1>6. CASE RunTimerList /\ pc' = "run"
  <2>1. pc = "list" /\ T' = T
    BY <1>6 DEF RunTimerList
  <2>2. \A k \in Rings : index[k] = (((T - 1) \div Span(k)) + 1) % Size(k)
    BY <1>6, <2>1, ReachedBegin DEF IndexTracksTime, Turn
  <2>3. IF index[1] = 0 THEN MoveTimers ELSE UNCHANGED <<index, slot>>
    BY <1>6 DEF RunTimerList
  <2>4. ASSUME NEW k \in Rings, k # 1 PROVE index'[k] = ((T \div Span(k)) + 1) % Size(k)
    <3> DEFINE s == Span(k)
               n == Size(k)
               q == (T - 1) \div s
    <3>0. k \in 2..5
      BY <2>4 DEF Rings
    <3>1. s \in Nat \ {0} /\ n \in Nat \ {0}
      BY RingSizes
    <3>2. index[k] = (q + 1) % n
      BY <2>2
    <3>3. q \in Int /\ q + 1 \in Int
      BY <1>0, <3>1, DivMod
    <3>4. CASE T % s = 0
      <4>1. T \div s = q + 1
        BY <1>0, <3>1, <3>4, DivStep
      <4>2. index[1] = 0 /\ k \in Moved
        BY <2>1, <3>0, <3>4, MovedRings
      <4>3. index'[k] = (index[k] + 1) % n
        BY <2>3, <4>2 DEF MoveTimers
      <4> HIDE DEF q, s, n
      <4>4. (((q + 1) % n) + 1) % n = ((q + 1) + 1) % n
        BY <3>1, <3>3, ModSucc
      <4>5. index'[k] = ((q + 1) + 1) % n
        BY <3>2, <4>3, <4>4
      <4>6. index'[k] = ((T \div s) + 1) % n
        BY <4>1, <4>5
      <4> QED
        BY <4>6 DEF s, n
    <3>5. CASE T % s # 0
      <4>1. T \div s = q
        BY <1>0, <3>1, <3>5, DivStep
      <4>2. index[1] = 0 => k \notin Moved
        BY <2>1, <3>0, <3>5, MovedRings
      <4>3. index'[k] = index[k]
        BY <2>3, <4>2 DEF MoveTimers
      <4> HIDE DEF q, s, n
      <4>4. index'[k] = ((T \div s) + 1) % n
        BY <3>2, <4>1, <4>3
      <4> QED
        BY <4>4 DEF s, n
    <3> QED
      BY <3>4, <3>5
  <2>5. 1 \in Rings /\ 1 \notin Moved
    BY DEF Rings, Moved
  <2>6. index'[1] = index[1]
    BY <2>3, <2>5 DEF MoveTimers
  <2>7. index'[1] = (((T - 1) \div Span(1)) + 1) % Size(1)
    BY <2>2, <2>5, <2>6
  <2>8. \A k \in Rings : Turn(k)' = IF k = 1 THEN (T - 1) \div Span(1) ELSE T \div Span(k)
    BY <1>6, <2>1, ReachedBegin DEF Turn
  <2> HIDE DEF T
  <2> QED
    BY <2>4, <2>7, <2>8 DEF IndexTracksTime
<1>7. CASE Advance
  <2>1. T' = T + 1 /\ pc = "run" /\ pc' = "list"
    BY <1>7 DEF Advance
  <2>2. \A k : k # 1 => Reached(k) = T /\ Reached(k)' = T
    BY <1>0, <2>1 DEF Reached
  <2>3. Reached(1) = T - 1 /\ Reached(1)' = T
    BY <1>0, <2>1 DEF Reached
  <2>4. Span(1) = 1 /\ Size(1) \in Nat \ {0} /\ 1 \in Rings
    BY RingSizes DEF Rings
  <2>5. T \div 1 = T /\ (T - 1) \div 1 = T - 1
    <3>1. 1 * T <= T /\ T < 1 * (T + 1) /\ 1 * (T - 1) <= T - 1 /\ T - 1 < 1 * ((T - 1) + 1)
      BY <1>0
    <3> QED
      BY <1>0, <3>1, DivUnique
  <2>6. index[1] = ((T - 1) + 1) % Size(1)
    BY <2>3, <2>4, <2>5 DEF IndexTracksTime, Turn
  <2>7. index[1] = T % Size(1)
    BY <1>0, <2>6
  <2>8. ((T % Size(1)) + 1) % Size(1) = (T + 1) % Size(1)
    BY <1>0, <2>4, ModSucc
  <2>9. index'[1] = (index[1] + 1) % Size(1) /\ \A k \in Rings : k # 1 => index'[k] = index[k]
    BY <1>7, <2>4 DEF Advance, WheelTypeOK
  <2>10. index'[1] = (Turn(1)' + 1) % Size(1)
    BY <2>3, <2>4, <2>5, <2>7, <2>8, <2>9 DEF Turn
  <2>11. \A k \in Rings : k # 1 => index'[k] = (Turn(k)' + 1) % Size(k)
    BY <2>2, <2>9 DEF Turn, IndexTracksTime
  <2> QED
    BY <2>10, <2>11 DEF IndexTracksTime
<1>8. RunTimerList => jiffies < timer_jiffies \/ pc' = "run"
  BY DEF RunTimerList
<1> QED
  BY <1>2, <1>3, <1>4, <1>5, <1>6, <1>7, <1>8 DEF WheelNext


(* A timer that is started is found in time.                                *)
LEMMA LinkInTime ==
  ASSUME WheelTypeOK, ClockInv, UserCode, NEW n \in Nat \ {0}, n + 1 < Half,
         NEW k \in Rings, TimerList(jiffies + n)[1] = k
  PROVE  InTime(TimerList(jiffies + n), jiffies + n, Reached(k))
<1> DEFINE e == jiffies + n
           r == Reached(k)
<1>0. jiffies \in Nat /\ timer_jiffies \in Nat /\ Half \in Nat /\ e \in Nat
  BY WheelAssumption DEF WheelTypeOK
<1>1. timer_jiffies <= e /\ e - timer_jiffies < Half
  BY <1>0 DEF ClockInv, UserCode
<1>2. r \in {timer_jiffies - 1, timer_jiffies} /\ (k = 1 => r = timer_jiffies - 1)
  BY DEF Reached
<1>3. TimerList(e)[1] = k
  OBVIOUS
<1> HIDE DEF e, r
<1>4. InTime(TimerList(e), e, r)
  BY <1>0, <1>1, <1>2, <1>3, TimerListInTime
<1> QED
  BY <1>4 DEF e, r

(* When a tick begins, a timer of a slot that is moved down is due within   *)
(* the ticks the slot covers, and is put into a lower ring in time for it;  *)
(* the timers of all other slots are where they have to be.                 *)
LEMMA MoveInTime ==
  ASSUME WheelTypeOK, IndexTracksTime, PlacedInTime, RunTimerList, pc' = "run",
         NEW x \in Timers, slot'[x] # Off, Fits(x), NEW l \in Rings, slot'[x][1] = l
  PROVE  InTime(slot'[x], expire[x], Reached(l)')
<1> DEFINE T == timer_jiffies
           e == expire[x]
           k == slot[x][1]
           s == Span(k)
           n == Size(k)
           q == (T - 1) \div s
<1>0. T \in Nat /\ T \in Int /\ T - 1 \in Int /\ e \in Nat /\ e \in Int
  BY WheelAssumption DEF WheelTypeOK
<1>1. pc = "list" /\ T' = T
  BY DEF RunTimerList
<1>2. \A j : Reached(j) = T - 1 /\ Reached(j)' = IF j = 1 THEN T - 1 ELSE T
  BY <1>1, ReachedBegin
<1>3. IF index[1] = 0 THEN MoveTimers ELSE UNCHANGED <<index, slot>>
  BY DEF RunTimerList
<1>4. slot[x] # Off
  <2>1. ASSUME slot[x] = Off PROVE slot'[x] = Off
    <3>1. \A j \in Moved : slot[x] # <<j, index[j]>>
      <4>1. \A j \in Moved : <<j, index[j]>> \in Rings \X Nat
        BY DEF Moved, Rings, WheelTypeOK
      <4> QED
        BY <2>1, <4>1, WheelAssumption
    <3> QED
      BY <1>3, <2>1, <3>1 DEF MoveTimers
  <2> QED
    BY <2>1
<1>5. slot[x] \in Rings \X Nat /\ k \in Rings
  BY <1>4 DEF WheelTypeOK
<1>6. InTime(slot[x], e, T - 1)
  BY <1>2, <1>4, <1>5 DEF PlacedInTime
<1>7. s \in Nat \ {0} /\ n \in Nat \ {0} /\ s < Half
  BY <1>5, RingSizes
<1>8. index[k] = (q + 1) % n
  BY <1>2, <1>5 DEF IndexTracksTime, Turn
<1>9. q \in Int /\ e \div s \in Int /\ T \div s \in Int
  BY <1>0, <1>7, DivMod
<1>10. slot[x][2] = index[k] <=> e \div s = q + 1
  BY <1>0, <1>5, <1>6, <1>8, NextSlot
<1>11. CASE index[1] = 0 /\ k \in Moved /\ slot[x][2] = index[k]
  <2>1. slot[x] = <<k, index[k]>>
    BY <1>5, <1>11
  <2>2. slot'[x] = TimerList(e)
    BY <1>3, <1>11, <2>1 DEF MoveTimers
  <2>3. k \in 2..5
    BY <1>11 DEF Moved
  <2>4. T % s = 0
    BY <1>1, <1>11, <2>3, MovedRings
  <2>5. T \div s = q + 1
    BY <1>0, <1>7, <2>4, DivStep
  <2>6. e \div s = T \div s
    BY <1>10, <1>11, <2>5
  <2> DEFINE d == T \div s
  <2>7. T = s * d + (T % s) /\ d \in Int
    BY <1>0, <1>7, DivMod
  <2>8. e = s * (e \div s) + (e % s) /\ e % s \in 0..(s - 1)
    BY <1>0, <1>7, DivMod
  <2> HIDE DEF d, s, T, e
  <2>9. s * d \in Int
    BY <1>7, <2>7
  <2>10. T = s * d
    BY <1>0, <2>4, <2>7, <2>9
  <2>11. e = T + (e % s)
    BY <2>6, <2>8, <2>10 DEF d
  <2>12. T <= e /\ e - T < Half
    BY <1>0, <1>7, <2>8, <2>11, WheelAssumption
  <2> DEFINE r == Reached(l)'
  <2>13. r \in {T - 1, T} /\ (l = 1 => r = T - 1)
    BY <1>2
  <2>14. TimerList(e)[1] = l
    BY <2>2
  <2> HIDE DEF r
  <2>15. InTime(TimerList(e), e, r)
    BY <1>0, <2>12, <2>13, <2>14, TimerListInTime DEF T
  <2> QED
    BY <2>2, <2>15 DEF e, r
<1>12. CASE ~ (index[1] = 0 /\ k \in Moved /\ slot[x][2] = index[k])
  <2>1. slot'[x] = slot[x]
    <3>1. ASSUME index[1] = 0, NEW j \in Moved PROVE slot[x] # <<j, index[j]>>
      BY <1>12, <3>1
    <3> QED
      BY <1>3, <3>1 DEF MoveTimers
  <2>0. l = k
    BY <2>1
  <2>2. CASE k = 1
    <3>1. Reached(l)' = T - 1
      BY <1>2, <2>0, <2>2
    <3> QED
      BY <1>6, <2>1, <3>1
  <2>3. CASE k # 1
    <3>0. k \in 2..5
      BY <1>5, <2>3 DEF Rings
    <3>1. Reached(l)' = T
      BY <1>2, <2>0, <2>3
    <3>2. slot[x][2] = (e \div s) % n /\ q < e \div s /\ e \div s <= q + n
      BY <1>6 DEF InTime
    <3>3. T \div s < e \div s /\ e \div s <= (T \div s) + n
      <4>1. CASE T % s = 0
        <5>1. T \div s = q + 1
          BY <1>0, <1>7, <4>1, DivStep
        <5>2. index[1] = 0 /\ k \in Moved
          BY <1>1, <3>0, <4>1, MovedRings
        <5>3. e \div s # q + 1
          BY <1>10, <1>12, <5>2
        <5> HIDE DEF q, s, n
        <5> QED
          BY <1>7, <1>9, <3>2, <5>1, <5>3
      <4>2. CASE T % s # 0
        <5>1. T \div s = q
          BY <1>0, <1>7, <4>2, DivStep
        <5> QED
          BY <3>2, <5>1
      <4> QED
        BY <4>1, <4>2
    <3>4. InTime(slot[x], e, T)
      BY <3>2, <3>3 DEF InTime
    <3> QED
      BY <2>1, <3>1, <3>4
  <2> QED
    BY <2>2, <2>3
<1> QED
  BY <1>11, <1>12

(* A tick ends: its slot of the first ring is empty, so no timer is due in  *)
(* it any more.                                                             *)
LEMMA AdvanceInTime ==
  ASSUME WheelTypeOK, IndexTracksTime, PlacedInTime, Advance,
         NEW x \in Timers, slot[x] # Off, Fits(x), NEW k \in Rings, slot[x][1] = k
  PROVE  InTime(slot[x], expire[x], Reached(k)')
<1> DEFINE T == timer_jiffies
           e == expire[x]
           s == Span(k)
           n == Size(k)
<1>0. T \in Nat /\ T \in Int /\ T - 1 \in Int /\ e \in Nat /\ e \in Int
  BY WheelAssumption DEF WheelTypeOK
<1>1. T' = T + 1 /\ pc = "run" /\ pc' = "list"
  BY DEF Advance
<1>2. slot[x] \in Rings \X Nat /\ k \in Rings
  BY DEF WheelTypeOK
<1>3. InTime(slot[x], e, Reached(k))
  BY DEF PlacedInTime
<1>4. CASE k # 1
  <2>1. Reached(k)' = Reached(k)
    BY <1>0, <1>1, <1>4 DEF Reached
  <2> QED
    BY <1>3, <2>1
<1>5. CASE k = 1
  <2>1. Reached(k) = T - 1 /\ Reached(k)' = T
    BY <1>0, <1>1, <1>5 DEF Reached
  <2>2. s = 1 /\ n \in Nat \ {0}
    BY <1>2, <1>5, RingSizes
  <2>3. T \div 1 = T /\ (T - 1) \div 1 = T - 1 /\ e \div 1 = e
    <3>1. /\ 1 * T <= T /\ T < 1 * (T + 1) /\ 1 * (T - 1) <= T - 1 /\ T - 1 < 1 * ((T - 1) + 1)
          /\ 1 * e <= e /\ e < 1 * (e + 1)
      BY <1>0
    <3> QED
      BY <1>0, <3>1, DivUnique
  <2>4. index[k] = ((T - 1) + 1) % n
    BY <1>2, <2>1, <2>2, <2>3 DEF IndexTracksTime, Turn
  <2>5. slot[x][2] # index[k]
    <3>1. slot[x] # <<1, index[1]>>
      BY DEF Advance
    <3> QED
      BY <1>2, <1>5, <3>1
  <2>6. slot[x][2] = e % n /\ T - 1 < e /\ e <= (T - 1) + n
    BY <1>3, <2>1, <2>2, <2>3 DEF InTime
  <2>7. e # T
    BY <1>0, <2>4, <2>5, <2>6
  <2>8. T < e /\ e <= T + n
    BY <1>0, <2>2, <2>6, <2>7
  <2>9. InTime(slot[x], e, T)
    BY <2>2, <2>3, <2>6, <2>8 DEF InTime
  <2> QED
    BY <2>1, <2>9
<1> QED
  BY <1>4, <1>5

(* Every timer stays where it will be found in time.                        *)
LEMMA PlacedStep ==
  ASSUME WheelTypeOK, ClockInv, IndexTracksTime, PlacedInTime, [WheelNext]_wheelVars
  PROVE  PlacedInTime'
<1>1. ASSUME UNCHANGED <<timer_jiffies, slot, expire, interval>>, InTick(pc) <=> InTick(pc')
      PROVE  PlacedInTime'
  BY <1>1, ReachedKept DEF PlacedInTime, Fits
<1>2. ASSUME NEW x \in Timers, NEW n \in Intervals[x], UserCode, Link(x, n) PROVE PlacedInTime'
  <2>1. n \in Nat \ {0}
    BY WheelAssumption
  <2>2. \A k : Reached(k)' = Reached(k)
    BY <1>2, ReachedKept DEF Link
  <2>3. /\ slot'[x] = TimerList(jiffies + n) /\ expire'[x] = jiffies + n /\ interval'[x] = n
        /\ \A y \in Timers \ {x} : slot'[y] = slot[y] /\ expire'[y] = expire[y] /\ interval'[y] = interval[y]
    BY <1>2 DEF Link, WheelTypeOK
  <2>4. ASSUME Fits(x)', NEW k \in Rings, slot'[x][1] = k
        PROVE  InTime(slot'[x], expire'[x], Reached(k)')
    <3>1. n + 1 < Half
      BY <2>3, <2>4 DEF Fits
    <3>2. InTime(TimerList(jiffies + n), jiffies + n, Reached(k))
      BY <1>2, <2>1, <2>3, <2>4, <3>1, LinkInTime
    <3> QED
      BY <2>2, <2>3, <3>2
  <2>5. ASSUME NEW y \in Timers \ {x}, slot'[y] # Off, Fits(y)', NEW k \in Rings, slot'[y][1] = k
        PROVE  InTime(slot'[y], expire'[y], Reached(k)')
    BY <2>2, <2>3, <2>5 DEF PlacedInTime, Fits
  <2> QED
    BY <2>4, <2>5 DEF PlacedInTime
<1>3. ASSUME NEW x \in Timers, Unlink(x), UNCHANGED timer_jiffies, InTick(pc) <=> InTick(pc')
      PROVE  PlacedInTime'
  <2>1. \A k : Reached(k)' = Reached(k)
    BY <1>3, ReachedKept
  <2>2. /\ slot'[x] = Off
        /\ \A y \in Timers \ {x} : slot'[y] = slot[y] /\ expire'[y] = expire[y] /\ interval'[y] = interval[y]
    BY <1>3 DEF Unlink, WheelTypeOK
  <2> QED
    BY <2>1, <2>2 DEF PlacedInTime, Fits
<1>4. ASSUME NEW x \in Timers, NEW n \in Intervals[x], Start(x, n) \/ Restart(x, n) PROVE PlacedInTime'
  BY <1>2, <1>4 DEF Start, Restart
<1>5. ASSUME NEW x \in Timers, Stop(x) \/ RunTimer(x) PROVE PlacedInTime'
  BY <1>3, <1>5 DEF Stop, RunTimer, InTick
<1>6. CASE Elapse \/ PeriodicRunner \/ StepRun \/ OnTimerReturns \/ UNCHANGED wheelVars
  BY <1>1, <1>6 DEF Elapse, PeriodicRunner, StepRun, OnTimerReturns, wheelVars, wheel, InTick
<1>7. CASE RunTimerList
  <2>1. CASE pc' = "run"
    <3>1. \A x \in Timers, k \in Rings :
            slot'[x] # Off /\ slot'[x][1] = k /\ Fits(x) => InTime(slot'[x], expire[x], Reached(k)')
      BY <1>7, <2>1, MoveInTime
    <3> QED
      BY <1>7, <3>1 DEF RunTimerList, PlacedInTime, Fits
  <2>2. CASE pc' # "run"
    BY <1>1, <1>7, <2>2 DEF RunTimerList, InTick
  <2> QED
    BY <2>1, <2>2
<1>8. CASE Advance
  <2>1. \A x \in Timers, k \in Rings :
          slot[x] # Off /\ slot[x][1] = k /\ Fits(x) => InTime(slot[x], expire[x], Reached(k)')
    BY <1>8, AdvanceInTime
  <2> QED
    BY <1>8, <2>1 DEF Advance, PlacedInTime, Fits
<1> QED
  BY <1>4, <1>5, <1>6, <1>7, <1>8 DEF WheelNext

(* The empty wheel satisfies the inductive invariant.                       *)
LEMMA WheelInitOK == WheelInit => WheelIInv
<1> SUFFICES ASSUME WheelInit PROVE WheelIInv
  OBVIOUS
<1>1. \A k \in Rings : Size(k) \in Nat \ {0} /\ Span(k) \in Nat \ {0}
  BY RingSizes
<1>2. WheelTypeOK
  <2>1. index \in [Rings -> Nat] /\ \A k \in Rings : index[k] < Size(k)
    BY <1>1 DEF WheelInit
  <2>2. /\ slot \in [Timers -> {Off} \cup (Rings \X Nat)]
        /\ \A x \in Timers : slot[x] # Off => slot[x][2] < Size(slot[x][1])
    BY DEF WheelInit
  <2>3. expire \in [Timers -> Nat] /\ interval \in [Timers -> Nat]
    BY DEF WheelInit
  <2>4. /\ jiffies \in 0..MaxJiffies /\ timer_jiffies \in 0..(MaxJiffies + 1)
        /\ behind \in 0..MaxBehind /\ todo \in Nat
    BY WheelAssumption DEF WheelInit
  <2>5. /\ active \in BOOLEAN /\ primed \in BOOLEAN /\ firing \in Timers \cup {Off}
        /\ pc \in {"idle", "step", "list", "run", "callback"}
    BY DEF WheelInit
  <2> QED
    BY <2>1, <2>2, <2>3, <2>4, <2>5 DEF WheelTypeOK
<1>3. ClockInv
  BY WheelAssumption DEF WheelInit, ClockInv
<1>4. IndexTracksTime
  <2> SUFFICES ASSUME NEW k \in Rings PROVE index[k] = (Turn(k) + 1) % Size(k)
    BY DEF IndexTracksTime
  <2> DEFINE s == Span(k)
             n == Size(k)
  <2>1. Reached(k) = -1
    BY DEF Reached, WheelInit
  <2>2. s * (-1) <= -1 /\ -1 < s * ((-1) + 1) /\ -1 \in Int
    BY <1>1
  <2>3. (-1) \div s = -1
    BY <1>1, <2>2, DivUnique
  <2>4. Turn(k) = -1
    BY <2>1, <2>3 DEF Turn
  <2>5. 0 % n = 0
    BY <1>1
  <2> QED
    BY <2>4, <2>5 DEF WheelInit
<1>5. PlacedInTime
  BY DEF WheelInit, PlacedInTime
<1> QED
  BY <1>2, <1>3, <1>4, <1>5 DEF WheelIInv

(* Whatever handlers and callbacks start, stop and restart, from inside or  *)
(* outside a tick, and however far the event loop falls behind: the indexes *)
(* of the rings follow the ticks, and each timer is in the slot that is     *)
(* moved down or run in time for the tick start computed.                   *)
THEOREM WheelInductive == WheelSpec => []WheelIInv
<1>1. WheelInit => WheelIInv
  BY WheelInitOK
<1>2. WheelIInv /\ [WheelNext]_wheelVars => WheelIInv'
  BY WheelTypeStep, ClockStep, IndexStep, PlacedStep DEF WheelIInv
<1> QED
  BY <1>1, <1>2, PTL DEF WheelSpec

(* A timer in a slot that is still to come is not overdue.                  *)
LEMMA NothingOverdue == WheelIInv => NeverOverdue
<1> SUFFICES ASSUME WheelIInv, NEW x \in Timers, slot[x] # Off, Fits(x)
             PROVE  expire[x] >= timer_jiffies
  BY DEF NeverOverdue
<1>1. timer_jiffies \in Nat /\ expire[x] \in Nat /\ slot[x] \in Rings \X Nat
  BY WheelAssumption DEF WheelIInv, WheelTypeOK
<1> DEFINE r == Reached(slot[x][1])
<1>2. r \in Int /\ r >= timer_jiffies - 1
  BY <1>1 DEF Reached
<1>3. InTime(slot[x], expire[x], r)
  BY <1>1 DEF WheelIInv, PlacedInTime
<1> HIDE DEF r
<1>4. r < expire[x]
  BY <1>1, <1>2, <1>3, InTimeNotOverdue
<1> QED
  BY <1>1, <1>2, <1>4

(* The wheel is never out of step with its clock, and no timer is left      *)
(* behind in a slot whose tick has passed.                                  *)
THEOREM WheelCorrect == WheelSpec => []WheelInv
<1>1. WheelIInv => WheelInv
  BY NothingOverdue DEF WheelIInv, WheelInv
<1> QED
  BY <1>1, WheelInductive, PTL

(* A timer of the slot run_timer_list is at is due in the tick it runs.     *)
LEMMA InSlotNow ==
  ASSUME WheelIInv, NEW x \in Timers, slot[x] = <<1, index[1]>>, Fits(x)
  PROVE  slot[x] # Off /\ expire[x] = timer_jiffies
<1> DEFINE T == timer_jiffies
           e == expire[x]
<1>1. Off \notin Timers /\ Off \notin Rings \X Nat
  BY WheelAssumption
<1>2. T \in Nat /\ T - 1 \in Int /\ e \in Nat /\ index[1] \in Nat /\ 1 \in Rings
  BY WheelAssumption DEF WheelIInv, WheelTypeOK, Rings
<1>3. slot[x] \in Rings \X Nat /\ slot[x] # Off /\ slot[x][1] = 1 /\ slot[x][2] = index[1]
  BY <1>1, <1>2
<1>4. Reached(1) = T - 1
  BY DEF Reached
<1>5. InTime(slot[x], e, T - 1)
  BY <1>3, <1>4 DEF WheelIInv, PlacedInTime
<1>6. slot[x][2] = (((T - 1) \div Span(1)) + 1) % Size(1)
  BY <1>2, <1>3, <1>4 DEF WheelIInv, IndexTracksTime, Turn
<1>7. e \div Span(1) = ((T - 1) \div Span(1)) + 1
  BY <1>2, <1>3, <1>5, <1>6, NextSlot
<1>8. Span(1) = 1
  BY RingSizes
<1>9. (T - 1) \div 1 = T - 1 /\ e \div 1 = e
  <2>1. /\ 1 * (T - 1) <= T - 1 /\ T - 1 < 1 * ((T - 1) + 1) /\ 1 * e <= e /\ e < 1 * (e + 1)
    BY <1>2
  <2> QED
    BY <1>2, <2>1, DivUnique
<1> QED
  BY <1>2, <1>3, <1>7, <1>8, <1>9

(* run_timer calls a timer in exactly the tick start computed for it.       *)
THEOREM TimersOnTime == WheelSpec => OnTime
<1>1. WheelIInv /\ [WheelNext]_wheelVars =>
        [\A x \in Timers : Fires(x) /\ Fits(x) => expire[x] = timer_jiffies]_wheelVars
  <2> SUFFICES ASSUME WheelIInv, WheelNext, NEW x \in Timers, Fires(x), Fits(x)
               PROVE  expire[x] = timer_jiffies
    OBVIOUS
  <2>1. firing' # firing /\ firing' = x /\ x # Off
    BY WheelAssumption DEF Fires
  <2>2. \A y \in Timers : \A n \in Intervals[y] : ~ (Start(y, n) \/ Restart(y, n))
    BY <2>1 DEF Start, Restart, Link
  <2>3. \A y \in Timers : ~ Stop(y)
    BY <2>1 DEF Stop
  <2>4. ~ Elapse /\ ~ PeriodicRunner /\ ~ StepRun /\ ~ RunTimerList /\ ~ OnTimerReturns /\ ~ Advance
    BY <2>1 DEF Elapse, PeriodicRunner, StepRun, RunTimerList, OnTimerReturns, Advance
  <2>5. PICK y \in Timers : RunTimer(y)
    BY <2>2, <2>3, <2>4 DEF WheelNext
  <2>6. slot[x] = <<1, index[1]>>
    BY <2>1, <2>5 DEF RunTimer
  <2> QED
    BY <2>6, InSlotNow
<1> QED
  BY <1>1, WheelInductive, PTL DEF WheelSpec, OnTime

--------------------------------------------------------------------------------
(* on_timer runs only while periodic_runner is in run_timer.                *)
FiringInv == pc # "callback" => firing = Off

(* on_timer is called by run_timer alone, and has returned when it goes on. *)
LEMMA FiringHolds == WheelSpec => []FiringInv
<1>1. WheelInit => FiringInv
  BY DEF WheelInit, FiringInv
<1>2. FiringInv /\ [WheelNext]_wheelVars => FiringInv'
  BY DEF FiringInv, WheelNext, wheelVars, wheel, clock, Start, Restart, Link, Stop, RunTimer, Elapse,
         PeriodicRunner, StepRun, RunTimerList, OnTimerReturns, Advance
<1> QED
  BY <1>1, <1>2, PTL DEF WheelSpec

(* What the alarms are is a matter of which timers are in a list, and of    *)
(* their fields.                                                            *)
LEMMA AlarmsKept ==
  ASSUME timer_jiffies' = timer_jiffies, firing' = firing,
         expire' = expire, interval' = interval,
         \A x \in Timers : slot'[x] # Off <=> slot[x] # Off
  PROVE  UNCHANGED Alarms!vars
<1>1. \A x \in Timers : Fits(x)' <=> Fits(x)
  BY DEF Fits
<1>2. Due' = Due
  BY <1>1 DEF Due
<1>3. Loose' = Loose
  BY <1>1 DEF Loose
<1> QED
  BY <1>2, <1>3 DEF Alarms!vars

(* start sets an alarm for a tick that is not past, or one too far ahead.   *)
LEMMA LinkRefines ==
  ASSUME WheelIInv, NEW x \in Timers, NEW n \in Intervals[x], UserCode, Link(x, n)
  PROVE  Alarms!Set(x) \/ Alarms!SetBeyond(x)
<1>1. /\ n \in Nat \ {0} /\ jiffies \in Nat /\ timer_jiffies \in Nat
      /\ slot \in [Timers -> {Off} \cup (Rings \X Nat)]
      /\ expire \in [Timers -> Nat] /\ interval \in [Timers -> Nat]
      /\ Off \notin Rings \X Nat /\ Off \notin Nat
  BY WheelAssumption DEF WheelIInv, WheelTypeOK
<1>2. timer_jiffies <= jiffies + n
  BY <1>1 DEF WheelIInv, ClockInv, UserCode
<1>3. TimerList(jiffies + n) \in Rings \X Nat
  BY <1>1, TimerListSlot DEF WheelIInv
<1>4. slot'[x] # Off /\ expire'[x] = jiffies + n /\ interval'[x] = n
  BY <1>1, <1>3 DEF Link
<1>5. \A y \in Timers \ {x} :
         slot'[y] = slot[y] /\ expire'[y] = expire[y] /\ interval'[y] = interval[y]
  BY <1>1 DEF Link
<1>6. timer_jiffies' = timer_jiffies /\ firing' = firing
  BY DEF Link
<1>7. Due \in [Timers -> Nat \cup {Off}]
  BY <1>1 DEF Due
<1>8. \A y \in Timers \ {x} : Due'[y] = Due[y] /\ (y \in Loose' <=> y \in Loose)
  BY <1>5 DEF Due, Loose, Fits
<1>9. CASE n + 1 < Half
  <2>1. Due'[x] = jiffies + n /\ x \notin Loose'
    BY <1>4, <1>9 DEF Due, Loose, Fits
  <2>2. Due' = [Due EXCEPT ![x] = Due'[x]]
    BY <1>8 DEF Due
  <2>3. Loose' = Loose \ {x}
    BY <1>8, <2>1 DEF Loose
  <2>4. Due'[x] \in Nat /\ Due'[x] >= timer_jiffies
    BY <1>1, <1>2, <2>1
  <2> QED
    BY <1>6, <2>2, <2>3, <2>4 DEF Alarms!Set
<1>10. CASE ~ (n + 1 < Half)
  <2>1. Due'[x] = Off /\ x \in Loose'
    BY <1>4, <1>10 DEF Due, Loose, Fits
  <2>2. Due' = [Due EXCEPT ![x] = Off]
    BY <1>8, <2>1 DEF Due
  <2>3. Loose' = Loose \cup {x}
    BY <1>8, <2>1 DEF Loose
  <2> QED
    BY <1>6, <2>2, <2>3 DEF Alarms!SetBeyond
<1> QED
  BY <1>9, <1>10

(* A timer that leaves its list is an alarm that is cleared.                *)
LEMMA UnlinkRefines ==
  ASSUME WheelIInv, NEW x \in Timers, slot[x] # Off, Unlink(x), timer_jiffies' = timer_jiffies
  PROVE  Alarms!Clear(x)
<1>1. /\ slot \in [Timers -> {Off} \cup (Rings \X Nat)]
      /\ expire \in [Timers -> Nat] /\ interval \in [Timers -> Nat]
      /\ Off \notin Nat
  BY WheelAssumption DEF WheelIInv, WheelTypeOK
<1>2. slot'[x] = Off
  BY <1>1 DEF Unlink
<1>3. \A y \in Timers \ {x} :
         slot'[y] = slot[y] /\ expire'[y] = expire[y] /\ interval'[y] = interval[y]
  BY <1>1 DEF Unlink
<1>4. \A y \in Timers \ {x} : Due'[y] = Due[y] /\ (y \in Loose' <=> y \in Loose)
  BY <1>3 DEF Due, Loose, Fits
<1>5. Due'[x] = Off /\ x \notin Loose'
  BY <1>2 DEF Due, Loose
<1>6. Due' = [Due EXCEPT ![x] = Off]
  BY <1>4, <1>5 DEF Due
<1>7. Loose' = Loose \ {x}
  BY <1>4, <1>5 DEF Loose
<1>8. Due[x] # Off \/ x \in Loose
  BY <1>1 DEF Due, Loose
<1> QED
  BY <1>6, <1>7, <1>8 DEF Alarms!Clear, Alarms!IsSet

(* A tick ends with no alarm of it left: the slot is empty, and an alarm    *)
(* due now would be in it.                                                  *)
LEMMA AdvanceRefines ==
  ASSUME WheelIInv, WheelInv', FiringInv, Advance
  PROVE  Alarms!Tick
<1>1. timer_jiffies \in Nat /\ timer_jiffies' = timer_jiffies + 1
  BY DEF WheelIInv, WheelTypeOK, Advance
<1>2. slot' = slot /\ expire' = expire /\ interval' = interval /\ firing' = firing /\ firing = Off
  BY DEF Advance, FiringInv
<1>3. Due' = Due /\ Loose' = Loose
  BY <1>2 DEF Due, Loose, Fits
<1>4. ASSUME NEW x \in Timers PROVE Due[x] # timer_jiffies
  <2>1. CASE slot[x] # Off /\ Fits(x)
    <3>1. expire'[x] >= timer_jiffies'
      BY <1>2, <2>1 DEF WheelInv, NeverOverdue, Fits
    <3>2. expire[x] \in Nat
      BY DEF WheelIInv, WheelTypeOK
    <3> QED
      BY <1>1, <1>2, <2>1, <3>1, <3>2 DEF Due
  <2>2. CASE ~ (slot[x] # Off /\ Fits(x))
    BY <1>1, <2>2, WheelAssumption DEF Due
  <2> QED
    BY <2>1, <2>2
<1> QED
  BY <1>1, <1>2, <1>3, <1>4 DEF Alarms!Tick

(* Every step of the wheel is a step of the alarm clock, or none.           *)
LEMMA WheelStepRefines ==
  ASSUME WheelIInv, WheelInv', FiringInv, WheelNext
  PROVE  Alarms!Next \/ UNCHANGED Alarms!vars
<1>1. ASSUME NEW x \in Timers, NEW n \in Intervals[x], Start(x, n) \/ Restart(x, n)
      PROVE  Alarms!Next
  BY <1>1, LinkRefines DEF Start, Restart, Alarms!Next
<1>2. ASSUME NEW x \in Timers, Stop(x) PROVE Alarms!Next
  <2>1. Alarms!Clear(x) /\ firing' = firing
    BY <1>2, UnlinkRefines DEF Stop
  <2> QED
    BY <2>1 DEF Alarms!Next, Alarms!Cancel
<1>3. ASSUME NEW x \in Timers, RunTimer(x) PROVE Alarms!Next
  <2>1. slot[x] = <<1, index[1]>> /\ pc = "run" /\ firing' = x /\ timer_jiffies' = timer_jiffies /\ Unlink(x)
    BY <1>3 DEF RunTimer
  <2>2. slot[x] # Off
    <3>1. index[1] \in Nat /\ 1 \in Rings
      BY DEF WheelIInv, WheelTypeOK, Rings
    <3> QED
      BY <2>1, <3>1, WheelAssumption
  <2>3. Alarms!Clear(x)
    BY <2>1, <2>2, UnlinkRefines
  <2>4. Due[x] = timer_jiffies \/ x \in Loose
    BY <2>1, <2>2, InSlotNow DEF Due, Loose
  <2>5. firing = Off
    BY <2>1 DEF FiringInv
  <2> QED
    BY <2>1, <2>3, <2>4, <2>5 DEF Alarms!Next, Alarms!Ring
<1>4. CASE Elapse \/ PeriodicRunner \/ StepRun
  BY <1>4, AlarmsKept DEF Elapse, PeriodicRunner, StepRun, wheel
<1>5. CASE RunTimerList
  <2>1. /\ timer_jiffies' = timer_jiffies /\ firing' = firing
        /\ expire' = expire /\ interval' = interval
    BY <1>5 DEF RunTimerList
  <2>2. ASSUME NEW x \in Timers PROVE slot'[x] # Off <=> slot[x] # Off
    <3>1. CASE slot' = slot
      BY <3>1
    <3>2. CASE MoveTimers
      <4>1. expire[x] \in Nat /\ index \in [Rings -> Nat] /\ Off \notin Rings \X Nat
        BY WheelAssumption DEF WheelIInv, WheelTypeOK
      <4>2. TimerList(expire[x]) \in Rings \X Nat
        BY <4>1, TimerListSlot DEF WheelIInv
      <4>3. \A k \in Moved : <<k, index[k]>> # Off
        BY <4>1 DEF Moved, Rings
      <4> QED
        BY <3>2, <4>1, <4>2, <4>3 DEF MoveTimers
    <3> QED
      BY <1>5, <3>1, <3>2 DEF RunTimerList
  <2> QED
    BY <2>1, <2>2, AlarmsKept
<1>6. CASE OnTimerReturns
  <2>1. /\ timer_jiffies' = timer_jiffies /\ slot' = slot /\ firing' = Off
        /\ expire' = expire /\ interval' = interval
    BY <1>6 DEF OnTimerReturns, wheel
  <2>2. Due' = Due /\ Loose' = Loose
    BY <2>1 DEF Due, Loose, Fits
  <2> QED
    BY <2>1, <2>2 DEF Alarms!Next, Alarms!Return, Alarms!vars
<1>7. CASE Advance
  BY <1>7, AdvanceRefines DEF Alarms!Next
<1> QED
  BY <1>1, <1>2, <1>3, <1>4, <1>5, <1>6, <1>7 DEF WheelNext

(* For any sizes of the rings and any timers, the wheel implements the      *)
(* alarm clock.                                                             *)
THEOREM AlarmClockRefined == WheelSpec => RefinesAlarmClock
<1>1. WheelInit => Alarms!Init
  <2> SUFFICES ASSUME WheelInit PROVE Alarms!Init
    OBVIOUS
  <2>1. Due = [x \in Timers |-> Off] /\ Loose = {}
    BY DEF WheelInit, Due, Loose
  <2> QED
    BY <2>1 DEF WheelInit, Alarms!Init
<1>2. WheelIInv /\ WheelInv' /\ FiringInv /\ [WheelNext]_wheelVars => [Alarms!Next]_(Alarms!vars)
  <2>1. ASSUME UNCHANGED wheelVars PROVE UNCHANGED Alarms!vars
    BY <2>1, AlarmsKept DEF wheelVars, wheel
  <2> QED
    BY <2>1, WheelStepRefines
<1> QED
  BY <1>1, <1>2, WheelInductive, WheelCorrect, FiringHolds, PTL DEF WheelSpec, RefinesAlarmClock, Alarms!Spec

================================================================================
