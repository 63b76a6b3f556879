----------------------------- MODULE SnapshotProofs -----------------------------
(***************************************************************************)
(* Proofs about two parts of the vehicle-snapshot service: the improver of *)
(* a junction, for any number of targets, lights and junctions and for     *)
(* every geometry, and the snapshots of the vehicles, for any number of    *)
(* vehicles, any map and any length of the rings.                          *)
(***************************************************************************)
EXTENDS JunctionImprover, VehicleSnapshot, FiniteSetTheorems, WellFoundedInduction, TLAPS

--------------------------------------------------------------------------------
(* The light states of one junction: LightState.                            *)

(* The inductive invariant: types, tables that agree, and flags that can be *)
(* relied on.                                                               *)
IInv == TypeOK /\ TablesAgree /\ CopyIsCurrent

(* Every step of the two threads keeps the types.                           *)
LEMMA TypeStep ==
  ASSUME TypeOK, [Next]_vars
  PROVE  TypeOK'
<1>1. ASSUME NEW j \in Junctions, NEW l \in Lights, AddLight(j, l) PROVE TypeOK'
  <2>1. StateAfterAdd(l) \in States
    BY LightAssumption DEF StateAfterAdd, TypeOK
  <2> QED
    BY <1>1, <2>1 DEF AddLight, FlagsAfterAdd, TypeOK
<1>2. ASSUME NEW j \in Junctions, GetLightState(j) PROVE TypeOK'
  BY <1>2 DEF GetLightState, TypeOK
<1>3. ASSUME NEW l \in Lights, NEW s \in States, UpdateLightState(l, s) PROVE TypeOK'
  <2>1. \A j \in Junctions : (update[j] \/ j \in lightJuncs[l]) \in BOOLEAN
    BY Zenon
  <2> QED
    BY <1>3, <2>1 DEF UpdateLightState, FlagsAfterUpdate, TypeOK
<1>4. CASE ConsumeError
  BY <1>4 DEF ConsumeError, tables, TypeOK
<1>5. CASE UNCHANGED vars
  BY <1>5 DEF vars, tables, TypeOK
<1> QED
  BY <1>1, <1>2, <1>3, <1>4, <1>5 DEF Next

(* A junction is entered in both tables at once.                            *)
LEMMA TablesStep ==
  ASSUME TypeOK, TablesAgree, [Next]_vars
  PROVE  TablesAgree'
<1>1. ASSUME NEW j \in Junctions, NEW l \in Lights, AddLight(j, l) PROVE TablesAgree'
  BY <1>1 DEF AddLight, TypeOK, TablesAgree
<1>2. CASE UNCHANGED <<lights, lightJuncs, junctions>>
  BY <1>2 DEF TablesAgree
<1> QED
  BY <1>1, <1>2 DEF Next, GetLightState, UpdateLightState, ConsumeError, vars, tables

(* The flag goes up with every change, of the state or of the set of users, *)
(* and down only when the copy is made.                                     *)
LEMMA FlagStep ==
  ASSUME IInv, [Next]_vars,
         NEW j \in Junctions, NEW l \in Lights, j \in lightJuncs'[l], ~ update'[j]
  PROVE  view'[j][l] = state'[l]
<1>0. TypeOK /\ TablesAgree /\ (j \in lightJuncs[l] /\ ~ update[j] => view[j][l] = state[l])
  BY DEF IInv, CopyIsCurrent
<1>1. ASSUME NEW i \in Junctions, NEW k \in Lights, AddLight(i, k)
      PROVE  view'[j][l] = state'[l]
  <2>1. i # j /\ ~ update[j] /\ view' = view
    BY <1>0, <1>1 DEF AddLight, FlagsAfterAdd, TypeOK
  <2>2. j \in lightJuncs[l]
    BY <1>0, <1>1, <2>1 DEF AddLight, TypeOK
  <2>3. l \in lights
    BY <1>0, <2>2 DEF TablesAgree
  <2>4. state'[l] = state[l]
    BY <1>0, <1>1, <2>3 DEF AddLight, StateAfterAdd, TypeOK
  <2> QED
    BY <1>0, <2>1, <2>2, <2>4
<1>2. ASSUME NEW i \in Junctions, GetLightState(i)
      PROVE  view'[j][l] = state'[l]
  <2>1. CASE i = j
    BY <1>0, <1>2, <2>1 DEF GetLightState, TypeOK
  <2>2. CASE i # j
    BY <1>0, <1>2, <2>2 DEF GetLightState, TypeOK
  <2> QED
    BY <2>1, <2>2
<1>3. ASSUME NEW k \in Lights, NEW s \in States, UpdateLightState(k, s)
      PROVE  view'[j][l] = state'[l]
  <2>1. ~ update[j] /\ j \notin lightJuncs[k] /\ lightJuncs' = lightJuncs /\ view' = view
    BY <1>3 DEF UpdateLightState, FlagsAfterUpdate
  <2>2. k # l
    BY <2>1
  <2> QED
    BY <1>0, <1>3, <2>1, <2>2 DEF UpdateLightState, TypeOK
<1>4. CASE UNCHANGED <<tables, view>>
  BY <1>0, <1>4 DEF tables
<1> QED
  BY <1>1, <1>2, <1>3, <1>4 DEF Next, ConsumeError, vars

(* The invariant of the light tables, for any number of junctions.          *)
THEOREM LightInvariant == Spec => []IInv
<1>1. Init => IInv
  BY LightAssumption DEF Init, IInv, TypeOK, TablesAgree, CopyIsCurrent
<1>2. IInv /\ [Next]_vars => IInv'
  <2> SUFFICES ASSUME IInv, [Next]_vars PROVE IInv'
    OBVIOUS
  <2>1. TypeOK'
    BY TypeStep DEF IInv
  <2>2. TablesAgree'
    BY TablesStep DEF IInv
  <2>3. CopyIsCurrent'
    BY FlagStep DEF CopyIsCurrent
  <2> QED
    BY <2>1, <2>2, <2>3 DEF IInv
<1> QED
  BY <1>1, <1>2, PTL DEF Spec

(* The tables of vss_light_mgr and the copies stay in their types.          *)
THEOREM TypeCorrect == Spec => []TypeOK
<1>1. IInv => TypeOK
  BY DEF IInv
<1> QED
  BY <1>1, LightInvariant, PTL

(* However many junctions share a light, one whose flag is down has the     *)
(* current state of every light it uses, so the early return of             *)
(* get_light_state is sound.                                                *)
THEOREM CopiesAreCurrent == Spec => []CopyIsCurrent
<1>1. IInv => CopyIsCurrent
  BY DEF IInv
<1> QED
  BY <1>1, LightInvariant, PTL

(* add_light leaves the state of a light that is in use as it is.           *)
THEOREM JoiningKeepsState == Spec => AddKeepsState
<1>1. TypeOK /\ [Next]_vars
        => [lightJuncs' # lightJuncs => \A l \in lights : state'[l] = state[l]]_vars
  <2> SUFFICES ASSUME TypeOK, Next, lightJuncs' # lightJuncs, NEW l \in lights
               PROVE  state'[l] = state[l]
    OBVIOUS
  <2>1. PICK j \in Junctions, k \in Lights : AddLight(j, k)
    BY DEF Next, GetLightState, UpdateLightState, ConsumeError, tables
  <2> QED
    BY <2>1 DEF AddLight, StateAfterAdd, TypeOK
<1> QED
  BY <1>1, TypeCorrect, PTL DEF Spec, AddKeepsState

--------------------------------------------------------------------------------
(* The junction as a whole.                                                 *)


Items == [place : T!Places, status : 0..1, bused : BOOLEAN, bad : BOOLEAN,
          age : 0..MaxAge, countIn : BOOLEAN, countOut : BOOLEAN, invs : Nat, outvs : Nat,
          outFrom : BOOLEAN, by : Lights \cup {NoLight}]
Lit == {"enter", "wait", "move"}
Hows == {"stay", "on", "end"}

(* The counters of a target agree with its marks, and the entry for its way *)
(* out with the one for its way in.                                         *)
Counted(x) ==
    /\ x.invs = IF x.countIn THEN 1 ELSE 0
    /\ x.outvs = IF x.countOut THEN 1 ELSE 0
    /\ x.countOut => x.outFrom = x.countIn

(* A target of the junction map that was counted out is on the road out;    *)
(* after one move it is not in the junction or in front of it either.       *)
Left(x) == x.countOut => x.place = T!Out
Past(x) == x.countOut => x.place \in {T!Out, T!Road, T!Gone}

(* A target that was counted out does not move into the junction again.     *)
NoWayBack(x, p) == x.countOut => T!Inside \notin {x.place, p}

(* A target y that was moved from x to p is counted out only where it is    *)
(* seen on a road out.                                                      *)
SeenOut(x, p, y) == y.countOut => x.countOut \/ T!Out \in {x.place, p}

USE DEF T!Road, T!Stop, T!Inside, T!Out, T!Gone

--------------------------------------------------------------------------------
(* How a target gets on along its lane.                                     *)
LEMMA AdvanceFacts ==
  ASSUME NEW p \in T!Places, NEW h \in Hows
  PROVE  /\ T!Advance(p, h) \in T!Places
         /\ p = T!Stop => T!Advance(p, h) \in {T!Stop, T!Inside, T!Gone}
         /\ p = T!Inside => T!Advance(p, h) \in {T!Inside, T!Out, T!Gone}
         /\ p = T!Out => T!Advance(p, h) \in {T!Out, T!Road, T!Gone}
         /\ p = T!Road => T!Advance(p, h) \in {T!Road, T!Stop, T!Gone}
         /\ p = T!Gone => T!Advance(p, h) = T!Gone
BY DEF T!Advance, T!Onward, Hows, T!Places, T!Segments

(* What the map and the lights say has the fields of a geometry.            *)
LEMMA GeometryFacts ==
  ASSUME NEW k \in T!Geometry
  PROVE  /\ k.light \in Lit /\ k.how \in Hows /\ k.again \in Hows /\ k.found \in T!Places
         /\ k.by \in Lights \cup {NoLight} /\ k.counted \in SUBSET {"in", "out"}
<1>1. T!Gone \in T!Places
  BY DEF T!Places
<1> QED
  BY <1>1 DEF T!Geometry, T!OnRoad, T!AtJunction, Lit, Hows

(* A target that is put somewhere else is still one.                        *)
LEMMA PlacedTyped ==
  ASSUME NEW x \in Items, NEW s \in 0..1, NEW p \in T!Places, NEW l \in Lights \cup {NoLight}
  PROVE  [x EXCEPT !.status = s, !.place = p, !.by = l] \in Items
BY DEF Items

(* update_incomming_vehicle.                                                *)
LEMMA IncommingFacts ==
  ASSUME NEW x \in Items, Counted(x), NEW p, NEW c,
         NoWayBack(x, p)
  PROVE  LET y == T!Incomming(x, p, c)
         IN  /\ y \in Items /\ Counted(y)
             /\ y.status = x.status /\ y.place = x.place /\ y.by = x.by
             /\ y.countOut = x.countOut
<1> DEFINE y == T!Incomming(x, p, c)
<1>1. CASE T!CountsIn(x, p, c)
  <2>1. y = [x EXCEPT !.countIn = TRUE, !.invs = @ + 1] /\ ~ x.countIn /\ ~ x.countOut
    BY <1>1 DEF T!Incomming, T!CountsIn, NoWayBack
  <2>2. x.invs = 0 /\ x.invs + 1 = 1
    BY <2>1 DEF Counted
  <2>5. y = [x EXCEPT !.countIn = TRUE, !.invs = 1]
    BY <2>1, <2>2 DEF Items
  <2>3. /\ y \in Items
        /\ y.status = x.status /\ y.place = x.place /\ y.by = x.by
        /\ y.countIn = TRUE /\ y.invs = 1 /\ y.outvs = x.outvs /\ y.countOut = x.countOut
    <3> HIDE DEF y
    <3>1. y \in Items
      BY <2>5 DEF Items
    <3>2. y.status = x.status /\ y.place = x.place /\ y.by = x.by /\ y.countIn = TRUE
      BY <2>5 DEF Items
    <3>3. y.invs = 1 /\ y.outvs = x.outvs /\ y.countOut = x.countOut
      BY <2>5 DEF Items
    <3> QED
      BY <3>1, <3>2, <3>3
  <2> HIDE DEF y
  <2>4. Counted(y)
    BY <2>1, <2>3 DEF Counted
  <2> QED
    BY <2>3, <2>4 DEF y
<1>2. CASE ~ T!CountsIn(x, p, c)
  BY <1>2 DEF T!Incomming
<1> QED
  BY <1>1, <1>2

(* update_outgoing_vehicle.                                                 *)
LEMMA OutgoingFacts ==
  ASSUME NEW x \in Items, Counted(x), NEW p, NEW c
  PROVE  LET y == T!Outgoing(x, p, c)
         IN  /\ y \in Items /\ Counted(y)
             /\ y.status = x.status /\ y.place = x.place /\ y.by = x.by
             /\ y.countOut => x.countOut \/ T!Out \in {x.place, p}
<1> DEFINE y == T!Outgoing(x, p, c)
<1>1. CASE T!CountsOut(x, p, c)
  <2>1. /\ y = [x EXCEPT !.countOut = TRUE, !.outvs = @ + 1, !.outFrom = x.countIn]
        /\ ~ x.countOut /\ T!Out \in {x.place, p}
    BY <1>1 DEF T!Outgoing, T!CountsOut
  <2>2. x.outvs = 0 /\ x.outvs + 1 = 1 /\ x.countIn \in BOOLEAN
    BY <2>1 DEF Counted, Items
  <2>5. y = [x EXCEPT !.countOut = TRUE, !.outvs = 1, !.outFrom = x.countIn]
    BY <2>1, <2>2 DEF Items
  <2>3. /\ y \in Items
        /\ y.status = x.status /\ y.place = x.place /\ y.by = x.by
        /\ y.countIn = x.countIn /\ y.invs = x.invs /\ y.outvs = 1 /\ y.countOut = TRUE
        /\ y.outFrom = x.countIn
    <3> DEFINE n == x.countIn
    <3>1. y = [x EXCEPT !.countOut = TRUE, !.outvs = 1, !.outFrom = n] /\ n \in BOOLEAN
      BY <2>2, <2>5
    <3>2. y.countIn = n /\ y.outFrom = n
      BY <3>1 DEF Items
    <3> HIDE DEF n, y
    <3>3. y \in Items
      BY <3>1 DEF Items
    <3> QED
      BY <3>1, <3>2, <3>3 DEF Items, n
  <2> HIDE DEF y
  <2>4. Counted(y)
    BY <2>3 DEF Counted
  <2> QED
    BY <2>1, <2>3, <2>4 DEF y
<1>2. CASE ~ T!CountsOut(x, p, c)
  BY <1>2 DEF T!Outgoing
<1> QED
  BY <1>1, <1>2

(* status_process keeps counters and marks together, unless the target gets *)
(* back into the junction after it was counted out.                         *)
LEMMA StatusFacts ==
  ASSUME NEW x \in Items, Counted(x), NEW p \in T!Places, NEW c,
         NoWayBack(x, p)
  PROVE  LET y == T!StatusProcess(x, p, c)
         IN  /\ y \in Items /\ Counted(y)
             /\ y.status = x.status /\ y.place = p /\ y.bused = TRUE /\ y.by = x.by
             /\ SeenOut(x, p, y)
<1> DEFINE i == T!Incomming(x, p, c)  o == T!Outgoing(i, p, c)  y == T!StatusProcess(x, p, c)
<1>1. /\ i \in Items /\ Counted(i) /\ i.status = x.status /\ i.place = x.place /\ i.by = x.by
      /\ i.countOut = x.countOut
  BY IncommingFacts
<1> HIDE DEF i
<1>2. /\ o \in Items /\ Counted(o) /\ o.status = x.status /\ o.by = x.by
      /\ o.countOut => x.countOut \/ T!Out \in {x.place, p}
  BY <1>1, OutgoingFacts
<1>3. y = [o EXCEPT !.place = p, !.bused = TRUE]
  BY DEF T!StatusProcess, i
<1> HIDE DEF o, y
<1>4. /\ y \in Items /\ y.status = x.status /\ y.place = p /\ y.bused = TRUE /\ y.by = x.by
      /\ y.countIn = o.countIn /\ y.countOut = o.countOut /\ y.invs = o.invs
      /\ y.outvs = o.outvs /\ y.outFrom = o.outFrom
  BY <1>2, <1>3 DEF Items
<1>5. Counted(y)
  BY <1>2, <1>4 DEF Counted
<1> QED
  BY <1>2, <1>4, <1>5 DEF SeenOut, y

(* junction_process: a target goes in only from the stop line and when it   *)
(* may enter, never goes back, and one it leaves unused does not wait.      *)
LEMMA ProcessFacts ==
  ASSUME NEW x \in Items, x.bused, Counted(x), Past(x), NEW k \in T!Geometry, NEW h \in Hows
  PROVE  LET y == T!JunctionProcess(x, k, h)
         IN  /\ y \in Items /\ Counted(y)
             /\ y.bused => Left(y)
             /\ Left(x) => Past(y)
             /\ x.status = 1 => y.status = 1 /\ y.by = x.by
             /\ x.status = 0 /\ y.status = 1
                   => T!Waiting(x) /\ k.light = "enter" /\ y.by = k.by
             /\ ~ y.bused => ~ T!Waiting(y)
<1> DEFINE y == T!JunctionProcess(x, k, h)  c == k.counted
<1>0. k.light \in Lit /\ k.by \in Lights \cup {NoLight}
  BY GeometryFacts
<1>1. CASE T!Waiting(x) /\ k.light = "enter"
  <2> DEFINE e == T!Enter(x, k.by)  p == T!Advance(T!Inside, h)
  <2>0. x.status = 0 /\ ~ x.countOut
    BY <1>1 DEF T!Waiting, Past
  <2>1. /\ e \in Items /\ Counted(e) /\ e.status = 1 /\ e.place = T!Inside /\ e.by = k.by
        /\ ~ e.countOut
    <3>0. T!Inside \in T!Places
      BY DEF T!Places, T!Segments
    <3>1. e \in Items
      <4> HIDE DEF T!Inside
      <4>1. 1 \in 0..1
        OBVIOUS
      <4>2. [x EXCEPT !.status = 1, !.place = T!Inside, !.by = k.by] \in Items
        BY <1>0, <3>0, <4>1, PlacedTyped
      <4> QED
        BY <4>2 DEF T!Enter
    <3>2. /\ e.status = 1 /\ e.place = T!Inside /\ e.by = k.by
          /\ e.countIn = x.countIn /\ e.countOut = x.countOut
          /\ e.invs = x.invs /\ e.outvs = x.outvs /\ e.outFrom = x.outFrom
      BY DEF T!Enter, Items
    <3> QED
      BY <2>0, <3>1, <3>2 DEF Counted
  <2>2. p \in T!Places /\ p \in {T!Inside, T!Out, T!Gone}
    BY AdvanceFacts DEF T!Places, T!Segments
  <2>3. y = T!StatusProcess(e, p, c)
    BY <1>1 DEF T!JunctionProcess
  <2> HIDE DEF e, p, y, c
  <2>4. /\ y \in Items /\ Counted(y) /\ y.status = 1 /\ y.by = k.by /\ y.bused = TRUE
        /\ y.place = p
        /\ y.countOut => T!Out \in {T!Inside, p}
    BY <2>1, <2>2, <2>3, StatusFacts DEF NoWayBack, SeenOut
  <2>5. Left(y) /\ Past(y)
    BY <2>2, <2>4 DEF Left, Past
  <2> QED
    BY <1>1, <2>0, <2>4, <2>5 DEF y
<1>2. CASE T!Waiting(x) /\ k.light = "wait"
  <2>1. y = x
    BY <1>2 DEF T!JunctionProcess
  <2>2. x.status = 0 /\ ~ x.countOut
    BY <1>2 DEF T!Waiting, Past
  <2> QED
    BY <2>1, <2>2 DEF Left, Past
<1>3. CASE T!Waiting(x) /\ k.light = "move"
  <2> DEFINE p == T!Advance(T!Stop, h)
  <2>1. p \in T!Places /\ p \in {T!Stop, T!Inside, T!Gone}
    BY AdvanceFacts DEF T!Places, T!Segments
  <2>2. y = T!StatusProcess(x, p, c)
    BY <1>3 DEF T!JunctionProcess
  <2>3. x.place = T!Stop /\ x.status = 0 /\ ~ x.countOut
    BY <1>3 DEF T!Waiting, Past
  <2> HIDE DEF p, y, c
  <2>4. /\ y \in Items /\ Counted(y) /\ y.status = 0 /\ y.bused = TRUE
        /\ y.countOut => T!Out \in {x.place, p}
    BY <2>1, <2>2, <2>3, StatusFacts DEF NoWayBack, SeenOut
  <2>5. ~ y.countOut
    BY <2>1, <2>3, <2>4
  <2> QED
    BY <2>3, <2>4, <2>5 DEF y, Left, Past
<1>4. CASE ~ T!Waiting(x) /\ x.status = 0
  <2>1. y = [x EXCEPT !.bused = FALSE]
    BY <1>4 DEF T!JunctionProcess
  <2>2. y \in Items
    BY <2>1 DEF Items
  <2>3. /\ y.status = x.status /\ y.place = x.place /\ y.bused = FALSE
        /\ y.countIn = x.countIn /\ y.countOut = x.countOut
        /\ y.invs = x.invs /\ y.outvs = x.outvs /\ y.outFrom = x.outFrom
    BY <2>1 DEF Items
  <2> HIDE DEF y
  <2>4. Counted(y) /\ Past(y)
    BY <2>3 DEF Counted, Past
  <2> QED
    BY <1>4, <2>2, <2>3, <2>4 DEF T!Waiting, y
<1>5. CASE ~ T!Waiting(x) /\ x.status # 0
  <2> DEFINE p == T!Advance(x.place, h)  z == T!StatusProcess(x, p, c)
  <2>0. x.status = 1 /\ x.place \in T!Places
    BY <1>5 DEF Items
  <2>1. /\ p \in T!Places
        /\ x.place \in {T!Out, T!Road, T!Gone} => T!Inside \notin {x.place, p}
        /\ x.place = T!Out => p \in {T!Out, T!Road, T!Gone}
    BY <2>0, AdvanceFacts
  <2>2. NoWayBack(x, p)
    BY <2>1 DEF Past, NoWayBack
  <2>3. y = [z EXCEPT !.bused = p = T!Inside]
    BY <1>5, <2>0 DEF T!JunctionProcess, T!Driven
  <2> HIDE DEF p, c, z, y
  <2>4. /\ z \in Items /\ Counted(z) /\ z.status = 1 /\ z.place = p /\ z.by = x.by
        /\ z.countOut => x.countOut \/ T!Out \in {x.place, p}
    <3>1. /\ z \in Items /\ Counted(z) /\ z.status = x.status /\ z.place = p /\ z.by = x.by
          /\ SeenOut(x, p, z)
      BY <2>1, <2>2, StatusFacts DEF z
    <3> QED
      BY <2>0, <3>1 DEF SeenOut
  <2>5. /\ y \in Items /\ y.status = 1 /\ y.place = p /\ y.by = x.by /\ y.bused = (p = T!Inside)
        /\ y.countIn = z.countIn /\ y.countOut = z.countOut /\ y.invs = z.invs
        /\ y.outvs = z.outvs /\ y.outFrom = z.outFrom
    <3>1. (p = T!Inside) \in BOOLEAN
      OBVIOUS
    <3> QED
      BY <2>3, <2>4, <3>1 DEF Items
  <2> HIDE DEF y
  <2>6. Counted(y)
    BY <2>4, <2>5 DEF Counted
  <2>7. y.bused => Left(y)
    BY <2>1, <2>2, <2>4, <2>5 DEF Left, NoWayBack
  <2>8. Left(x) => Past(y)
    BY <2>1, <2>4, <2>5 DEF Left, Past
  <2> QED
    BY <2>0, <2>5, <2>6, <2>7, <2>8 DEF T!Waiting, y
<1> QED
  BY <1>0, <1>1, <1>2, <1>3, <1>4, <1>5 DEF Lit

(* junction_planning, which may move a reported target twice: the second    *)
(* time it does not enter.                                                  *)
LEMMA PlanningFacts ==
  ASSUME NEW t, item[t] \in Items, Counted(item[t]), Left(item[t]),
         NEW k \in T!Geometry, NEW r \in BOOLEAN
  PROVE  LET y == T!JunctionPlanning(t, k, r)
         IN  /\ y \in Items /\ Counted(y)
             /\ y.bused => Left(y)
             /\ item[t].status = 1 => y.status = 1
             /\ item[t].status = 0 /\ y.status = 1
                   => T!Waiting(item[t]) /\ k.light = "enter" /\ y.by = k.by
<1> DEFINE x == item[t]  a == T!JunctionProcess(T!Used(x), k, k.how)
           b == T!JunctionProcess(T!Used(a), k, k.again)
<1>1. k.how \in Hows /\ k.again \in Hows
  BY GeometryFacts
<1>2. ASSUME NEW z \in Items, Counted(z)
      PROVE  /\ T!Used(z) \in Items /\ Counted(T!Used(z))
             /\ Left(z) => Left(T!Used(z))
             /\ Past(z) => Past(T!Used(z))
             /\ T!Used(z).bused /\ T!Used(z).status = z.status /\ T!Used(z).by = z.by
             /\ T!Waiting(T!Used(z)) <=> T!Waiting(z)
  <2> DEFINE u == T!Used(z)
  <2>1. u \in Items
    BY DEF T!Used, Items
  <2>2. /\ u.status = z.status /\ u.place = z.place /\ u.bused = TRUE /\ u.by = z.by
        /\ u.countIn = z.countIn /\ u.countOut = z.countOut
        /\ u.invs = z.invs /\ u.outvs = z.outvs /\ u.outFrom = z.outFrom
    BY DEF T!Used, Items
  <2> HIDE DEF u
  <2>3. Counted(u)
    BY <1>2, <2>2 DEF Counted
  <2> QED
    BY <2>1, <2>2, <2>3 DEF T!Waiting, Left, Past, u
<1>3. ASSUME Left(x) PROVE Past(x)
  BY <1>3 DEF Left, Past
<1>4. /\ a \in Items /\ Counted(a)
      /\ a.bused => Left(a)
      /\ Past(a)
      /\ x.status = 1 => a.status = 1
      /\ x.status = 0 /\ a.status = 1 => T!Waiting(x) /\ k.light = "enter" /\ a.by = k.by
      /\ ~ a.bused => ~ T!Waiting(a)
  <2> DEFINE u == T!Used(x)
  <2>1. /\ u \in Items /\ Counted(u) /\ Left(u) /\ Past(u) /\ u.bused /\ u.status = x.status
        /\ u.by = x.by /\ (T!Waiting(u) <=> T!Waiting(x))
    BY <1>2, <1>3
  <2> HIDE DEF u, x
  <2> QED
    BY <1>1, <2>1, ProcessFacts DEF u
<1> HIDE DEF a
<1>5. /\ b \in Items /\ Counted(b)
      /\ b.bused => Left(b)
      /\ a.status = 1 => b.status = 1 /\ b.by = a.by
      /\ a.status = 0 /\ b.status = 1 => T!Waiting(a)
  <2> DEFINE u == T!Used(a)
  <2>1. /\ u \in Items /\ Counted(u) /\ Past(u) /\ u.bused /\ u.status = a.status
        /\ u.by = a.by /\ (T!Waiting(u) <=> T!Waiting(a))
    BY <1>2, <1>4
  <2> HIDE DEF u
  <2> QED
    BY <1>1, <2>1, ProcessFacts DEF u
<1> HIDE DEF b
<1>6. T!JunctionPlanning(t, k, r) = IF r /\ ~ a.bused THEN b ELSE a
  BY DEF T!JunctionPlanning, a, b
<1>7. a.status \in 0..1
  BY <1>4 DEF Items
<1>8. CASE r /\ ~ a.bused
  BY <1>4, <1>5, <1>6, <1>7, <1>8
<1>9. CASE ~ (r /\ ~ a.bused)
  BY <1>4, <1>6, <1>9
<1> QED
  BY <1>8, <1>9

--------------------------------------------------------------------------------
(* The inductive invariant of the maps and of the counters.                 *)
TrackInv ==
    /\ TrackingInv
    /\ \A t \in Targets : Counted(item[t])
    /\ \A t \in fj : Left(item[t])

(* A target whose counters are set back is still one.                       *)
LEMMA ResetTyped ==
  ASSUME NEW x \in Items, NEW s \in 0..1, NEW b \in BOOLEAN, NEW n \in Nat
  PROVE  [x EXCEPT !.status = s, !.countIn = b, !.invs = n, !.countOut = b, !.outvs = n]
             \in Items
BY DEF Items

(* An item whose age may have passed the limit.                             *)
Aged == [place : T!Places, status : 0..1, bused : BOOLEAN, bad : BOOLEAN,
         age : Nat, countIn : BOOLEAN, countOut : BOOLEAN, invs : Nat, outvs : Nat,
         outFrom : BOOLEAN, by : Lights \cup {NoLight}]

(* A new target.                                                            *)
LEMMA NewTyped == T!NewItem \in Items /\ Counted(T!NewItem) /\ T!NewItem.status = 0
<1>1. T!Gone \in T!Places /\ 0 \in 0..MaxAge /\ 0 \in 0..1 /\ 0 \in Nat
  BY ImproverAssumption DEF T!Places
<1>2. T!NewItem \in Items
  BY <1>1 DEF T!NewItem, Items
<1> QED
  BY <1>2 DEF T!NewItem, Counted

(* What normal_planning and missing_planning leave of a target: its status  *)
(* and its counters, or those of a new one.                                 *)
LEMMA OtherFacts ==
  ASSUME NEW t \in Targets, item[t] \in Items, Counted(item[t]),
         NEW k \in T!Geometry, NEW r \in BOOLEAN, NEW dtime \in Steps
  PROVE  /\ LET y == T!MissingPlanning(t, k, r, dtime)
             IN  y \in Aged /\ Counted(y) /\ y.status = item[t].status
         /\ LET y == T!NormalPlanning(t, k)
             IN  y \in Items /\ Counted(y) /\ y.status \in {item[t].status, 0}
         /\ LET y == [item[t] EXCEPT !.bused = FALSE]
             IN  y \in Items /\ Counted(y) /\ y.status = item[t].status
<1> DEFINE x == item[t]
<1>1. /\ x \in Items /\ Counted(x) /\ x.place \in T!Places
      /\ k.how \in Hows /\ k.found \in T!Places
  BY GeometryFacts DEF Items
<1> HIDE DEF x
<1>2. T!Advance(x.place, k.how) \in T!Places
  BY <1>1, AdvanceFacts
<1>3. LET y == T!MissingPlanning(t, k, r, dtime)
      IN  y \in Aged /\ Counted(y) /\ y.status = item[t].status
  <2> DEFINE n == (IF r THEN 0 ELSE x.age) + dtime
             q == T!Advance(x.place, k.how)
             y == [x EXCEPT !.age = n, !.place = q]
  <2>1. n \in Nat /\ q \in T!Places
    BY <1>1, <1>2, ImproverAssumption DEF Items
  <2>2. T!MissingPlanning(t, k, r, dtime) = y
    BY DEF T!MissingPlanning, x
  <2> HIDE DEF n, q
  <2>3. y \in Aged
    BY <1>1, <2>1 DEF Items, Aged
  <2>4. /\ y.status = x.status /\ y.countIn = x.countIn /\ y.countOut = x.countOut
        /\ y.invs = x.invs /\ y.outvs = x.outvs /\ y.outFrom = x.outFrom
    BY <1>1 DEF Items
  <2> HIDE DEF y
  <2>5. Counted(y)
    BY <1>1, <2>4 DEF Counted
  <2> QED
    BY <2>2, <2>3, <2>4, <2>5 DEF x
<1>4. LET y == T!NormalPlanning(t, k)
      IN  y \in Items /\ Counted(y) /\ y.status \in {item[t].status, 0}
  <2>1. CASE t \in fn
    <3> DEFINE q == IF x.bad THEN x.place
                    ELSE IF k.found = T!Gone THEN T!Advance(x.place, k.how) ELSE k.found
               y == [x EXCEPT !.bused = TRUE, !.place = q]
    <3>1. q \in T!Places
      BY <1>1, <1>2
    <3>2. T!NormalPlanning(t, k) = y
      BY <1>1, <2>1 DEF T!NormalPlanning, x, Items
    <3> HIDE DEF q
    <3>3. y \in Items
      BY <1>1, <3>1 DEF Items
    <3>4. /\ y.status = x.status /\ y.countIn = x.countIn /\ y.countOut = x.countOut
          /\ y.invs = x.invs /\ y.outvs = x.outvs /\ y.outFrom = x.outFrom
      BY <1>1 DEF Items
    <3> HIDE DEF y
    <3>5. Counted(y)
      BY <1>1, <3>4 DEF Counted
    <3> QED
      BY <3>2, <3>3, <3>4, <3>5 DEF x
  <2>2. CASE t \notin fn
    <3> DEFINE q == k.found = T!Inside
               y == [T!NewItem EXCEPT !.place = k.found, !.bused = TRUE, !.bad = q]
    <3>1. q \in BOOLEAN
      OBVIOUS
    <3>2. T!NormalPlanning(t, k) = y
      BY <2>2 DEF T!NormalPlanning
    <3> HIDE DEF q
    <3>3. y \in Items
      BY <1>1, <3>1, NewTyped DEF Items
    <3>4. Counted(y) /\ y.status = 0
      BY DEF Counted, T!NewItem
    <3> HIDE DEF y
    <3> QED
      BY <3>2, <3>3, <3>4
  <2> QED
    BY <2>1, <2>2
<1>5. LET y == [item[t] EXCEPT !.bused = FALSE]
      IN  y \in Items /\ Counted(y) /\ y.status = item[t].status
  <2> DEFINE y == [x EXCEPT !.bused = FALSE]
  <2>1. y \in Items
    BY <1>1 DEF Items
  <2>2. /\ y.status = x.status /\ y.countIn = x.countIn /\ y.countOut = x.countOut
        /\ y.invs = x.invs /\ y.outvs = x.outvs /\ y.outFrom = x.outFrom
    BY <1>1 DEF Items
  <2> HIDE DEF y
  <2>3. Counted(y)
    BY <1>1, <2>2 DEF Counted
  <2> QED
    BY <2>1, <2>2, <2>3 DEF x, y
<1> QED
  BY <1>3, <1>4, <1>5

--------------------------------------------------------------------------------
(* One answer of the fusion service keeps the maps apart, the lists and the *)
(* counters right, and lets targets enter only where the light says so.     *)
LEMMA ImproveFacts ==
  ASSUME TrackInv, NEW R \in SUBSET Targets, NEW g \in [Targets -> T!Geometry],
         NEW dtime \in Steps, T!Improve(R, g, dtime)
  PROVE  /\ TrackInv'
         /\ \A t \in Targets : item[t].status = 0 /\ item'[t].status = 1
                => /\ t \in fj /\ T!Waiting(item[t]) /\ g[t].light = "enter"
                   /\ item'[t].by = g[t].by
<1> DEFINE taken == {t \in R \ T!TrackedElsewhere : T!IsTaken(t, g[t])}
           kept == {t \in fm : ~ T!MissingDropped(t, g[t])}
           after == [t \in Targets |->
                       IF t \in fj THEN T!JunctionPlanning(t, g[t], t \in R)
                       ELSE IF t \in kept THEN T!MissingPlanning(t, g[t], t \in R, dtime)
                       ELSE IF t \in taken THEN T!NormalPlanning(t, g[t])
                       ELSE [item[t] EXCEPT !.bused = FALSE]]
           lost == {t \in fj : T!Lost(after, t)}
           normal == {t \in fn \cup taken : after[t].bused}
           arrived == {t \in normal : after[t].place = T!Stop}
<1>1. /\ fm' = {t \in kept : ~ T!Forget(after[t])} \cup lost
      /\ fj' = (fj \ lost) \cup arrived
      /\ fn' = normal \ arrived
      /\ item' = [t \in Targets |->
                    IF t \in arrived
                    THEN [after[t] EXCEPT !.status = 0, !.countIn = FALSE, !.invs = 0,
                                          !.countOut = FALSE, !.outvs = 0]
                    ELSE IF t \in lost THEN [after[t] EXCEPT !.age = 0]
                    ELSE IF t \in fn' \cup fj' \cup fm' THEN after[t]
                    ELSE T!NewItem]
      /\ listed' = (listed \cup {t \in fj : T!Waiting(item[t]) /\ after[t].status = 1})
                      \ {t \in fj : T!LeavesList(after[t])}
  BY DEF T!Improve
<1>2. /\ fn \subseteq Targets /\ fj \subseteq Targets /\ fm \subseteq Targets
      /\ fn \cap fj = {} /\ fn \cap fm = {} /\ fj \cap fm = {}
      /\ listed \subseteq {t \in fj : item[t].status = 1}
      /\ \A t \in Targets : item[t] \in Items /\ Counted(item[t])
      /\ \A t \in fj : Left(item[t])
  BY DEF TrackInv, TrackingInv, T!TypeOK, T!OneMap, T!ListedAreAlive, Items
<1>3. /\ taken \subseteq Targets /\ taken \cap (fj \cup fm) = {} /\ kept \subseteq fm
      /\ lost \subseteq fj /\ normal \subseteq fn \cup taken /\ arrived \subseteq normal
      /\ lost = {t \in fj : ~ after[t].bused}
  BY DEF T!TrackedElsewhere, T!Lost
<1>4. ASSUME NEW t \in fj
      PROVE  /\ after[t] \in Items /\ Counted(after[t])
             /\ after[t].bused => Left(after[t])
             /\ item[t].status = 1 => after[t].status = 1
             /\ item[t].status = 0 /\ after[t].status = 1
                   => /\ T!Waiting(item[t]) /\ g[t].light = "enter"
                      /\ after[t].by = g[t].by
  <2>1. after[t] = T!JunctionPlanning(t, g[t], t \in R) /\ g[t] \in T!Geometry
    BY <1>2
  <2>2. (t \in R) \in BOOLEAN /\ item[t] \in Items /\ Counted(item[t]) /\ Left(item[t])
    BY <1>2
  <2> DEFINE k == g[t]  q == t \in R  y == T!JunctionPlanning(t, k, q)
  <2>3. k \in T!Geometry /\ q \in BOOLEAN /\ after[t] = y
    BY <2>1, <2>2
  <2> HIDE DEF after, k, q
  <2>4. /\ y \in Items /\ Counted(y)
        /\ y.bused => Left(y)
        /\ item[t].status = 1 => y.status = 1
        /\ item[t].status = 0 /\ y.status = 1
              => T!Waiting(item[t]) /\ k.light = "enter" /\ y.by = k.by
    BY <2>2, <2>3, PlanningFacts
  <2> HIDE DEF y
  <2> QED
    BY <2>3, <2>4 DEF k
<1>5. ASSUME NEW t \in Targets \ fj
      PROVE  /\ after[t] \in Aged /\ Counted(after[t])
             /\ t \notin kept => after[t] \in Items
             /\ after[t].status \in {item[t].status, 0}
  <2> DEFINE r == t \in R
  <2>1. g[t] \in T!Geometry /\ r \in BOOLEAN /\ item[t] \in Items /\ Counted(item[t])
    BY <1>2
  <2>2. Items \subseteq Aged
    BY DEF Items, Aged
  <2>3. after[t] = IF t \in kept THEN T!MissingPlanning(t, g[t], r, dtime)
                   ELSE IF t \in taken THEN T!NormalPlanning(t, g[t])
                   ELSE [item[t] EXCEPT !.bused = FALSE]
    BY <1>5
  <2> HIDE DEF after, kept, taken, r
  <2>4. CASE t \in kept
    <3> DEFINE y == T!MissingPlanning(t, g[t], r, dtime)
    <3>1. after[t] = y
      BY <2>3, <2>4
    <3>2. y \in Aged /\ Counted(y) /\ y.status = item[t].status
      BY <2>1, OtherFacts
    <3> HIDE DEF y
    <3> QED
      BY <2>4, <3>1, <3>2
  <2>5. CASE t \notin kept /\ t \in taken
    BY <2>1, <2>2, <2>3, <2>5, OtherFacts
  <2>6. CASE t \notin kept /\ t \notin taken
    BY <2>1, <2>2, <2>3, <2>6, OtherFacts
  <2> QED
    BY <2>4, <2>5, <2>6
<1>6. \A t \in kept : ~ T!Forget(after[t]) => after[t].age <= MaxAge
  <2> SUFFICES ASSUME NEW t \in kept, ~ T!Forget(after[t])
               PROVE  after[t].age <= MaxAge
    OBVIOUS
  <2>1. after[t].age \in Nat
    BY <1>2, <1>3, <1>5 DEF Aged
  <2> HIDE DEF after
  <2> QED
    BY <2>1, ImproverAssumption DEF T!Forget
<1> HIDE DEF taken, kept, after, lost, normal, arrived
<1>7. /\ fn' \subseteq Targets /\ fj' \subseteq Targets /\ fm' \subseteq Targets
      /\ listed' \subseteq fj
  BY <1>1, <1>2, <1>3
<1>8. fn' \cap fj' = {} /\ fn' \cap fm' = {} /\ fj' \cap fm' = {}
  BY <1>1, <1>2, <1>3
<1>9. ASSUME NEW t \in arrived
      PROVE  /\ item'[t] \in Items /\ Counted(item'[t]) /\ Left(item'[t])
             /\ item'[t].status = 0
  <2> DEFINE a == after[t]
             y == [a EXCEPT !.status = 0, !.countIn = FALSE, !.invs = 0,
                            !.countOut = FALSE, !.outvs = 0]
  <2>1. t \in Targets \ fj /\ t \notin kept
    BY <1>2, <1>3
  <2>2. a \in Items /\ a.place = T!Stop
    BY <1>5, <2>1 DEF arrived
  <2>3. item'[t] = y
    BY <1>1, <2>1
  <2> HIDE DEF a
  <2>4. y \in Items
    <3>1. 0 \in 0..1 /\ FALSE \in BOOLEAN /\ 0 \in Nat
      OBVIOUS
    <3> QED
      BY <2>2, <3>1, ResetTyped
  <2>5. /\ y.status = 0 /\ y.countIn = FALSE /\ y.invs = 0 /\ y.countOut = FALSE
        /\ y.outvs = 0 /\ y.place = T!Stop
    BY <2>2 DEF Items
  <2> HIDE DEF y
  <2> QED
    BY <2>3, <2>4, <2>5 DEF Counted, Left
<1>10. ASSUME NEW t \in lost
       PROVE  /\ item'[t] \in Items /\ Counted(item'[t])
              /\ item'[t].status = after[t].status /\ item'[t].by = after[t].by
  <2> DEFINE a == after[t]
             y == [a EXCEPT !.age = 0]
  <2>1. t \in Targets /\ t \notin arrived /\ t \in fj
    BY <1>2, <1>3
  <2>2. a \in Items /\ Counted(a)
    BY <1>4, <2>1
  <2>3. item'[t] = y
    BY <1>1, <2>1, <1>10
  <2> HIDE DEF a
  <2>4. y \in Items
    BY <2>2, ImproverAssumption DEF Items
  <2>5. /\ y.status = a.status /\ y.countIn = a.countIn /\ y.invs = a.invs
        /\ y.countOut = a.countOut /\ y.outvs = a.outvs /\ y.outFrom = a.outFrom /\ y.by = a.by
    BY <2>2 DEF Items
  <2> HIDE DEF y
  <2> QED
    BY <2>2, <2>3, <2>4, <2>5 DEF Counted, a
<1>11. ASSUME NEW t \in Targets, t \notin arrived, t \notin lost, t \in fn' \cup fj' \cup fm'
       PROVE  item'[t] = after[t] /\ item'[t] \in Items /\ Counted(item'[t])
  <2>1. item'[t] = after[t]
    BY <1>1, <1>11
  <2>2. CASE t \in fj
    BY <1>4, <2>1, <2>2
  <2>3. CASE t \notin fj /\ t \notin kept
    BY <1>5, <2>1, <2>3
  <2>4. CASE t \notin fj /\ t \in kept
    <3>1. t \notin fn' /\ t \notin fj'
      BY <1>1, <1>2, <1>3, <2>4, <1>11
    <3>2. ~ T!Forget(after[t])
      BY <1>1, <1>11, <3>1
    <3>3. after[t].age <= MaxAge /\ after[t] \in Aged /\ Counted(after[t])
      BY <1>5, <1>6, <2>4, <3>2
    <3> DEFINE a == after[t]
    <3>4. a \in Aged /\ a.age \in 0..MaxAge
      BY <3>3, ImproverAssumption DEF Aged
    <3> HIDE DEF a
    <3>5. a \in Items
      BY <3>4 DEF Aged, Items
    <3> QED
      BY <2>1, <3>3, <3>5 DEF a
  <2> QED
    BY <2>2, <2>3, <2>4
<1>12. ASSUME NEW t \in Targets, t \notin arrived, t \notin lost, t \notin fn' \cup fj' \cup fm'
       PROVE  item'[t] \in Items /\ Counted(item'[t]) /\ item'[t].status = 0
  <2>1. item'[t] = T!NewItem
    BY <1>1, <1>12
  <2> QED
    BY <2>1, NewTyped
<1>13. \A t \in Targets : item'[t] \in Items /\ Counted(item'[t])
  BY <1>9, <1>10, <1>11, <1>12
<1>14. ASSUME NEW t \in fj, t \notin lost
       PROVE  t \in fj' /\ item'[t] = after[t]
  <2>1. t \notin arrived /\ t \in fj' /\ t \in Targets
    BY <1>1, <1>2, <1>3, <1>14
  <2> QED
    BY <1>11, <1>14, <2>1
<1>15. \A t \in fj' : Left(item'[t])
  <2> SUFFICES ASSUME NEW t \in fj', t \notin arrived
               PROVE  Left(item'[t])
    BY <1>9
  <2>1. t \in fj /\ t \notin lost
    BY <1>1
  <2>2. after[t].bused
    BY <1>3, <2>1
  <2> QED
    BY <1>4, <1>14, <2>1, <2>2
<1>16. listed' \subseteq {t \in fj' : item'[t].status = 1}
  <2> SUFFICES ASSUME NEW t \in listed'
               PROVE  t \in fj' /\ item'[t].status = 1
    OBVIOUS
  <2>1. t \in fj /\ after[t].bused
    BY <1>1, <1>7 DEF T!LeavesList
  <2>2. t \notin lost
    BY <1>3, <2>1
  <2>3. after[t].status = 1
    BY <1>1, <1>2, <1>4, <2>1
  <2> QED
    BY <1>14, <2>1, <2>2, <2>3
<1>17. TrackInv'
  <2>1. item' \in [Targets -> Items]
    BY <1>1, <1>13
  <2>2. T!TypeOK'
    BY <1>2, <1>7, <2>1 DEF T!TypeOK, Items
  <2>3. T!OneMap' /\ T!ListedAreAlive'
    BY <1>8, <1>16 DEF T!OneMap, T!ListedAreAlive
  <2> QED
    BY <1>13, <1>15, <2>2, <2>3 DEF TrackInv, TrackingInv
<1>18. ASSUME NEW t \in Targets, item[t].status = 0, item'[t].status = 1
       PROVE  /\ t \in fj /\ T!Waiting(item[t]) /\ g[t].light = "enter"
              /\ item'[t].by = g[t].by
  <2>1. t \notin arrived /\ after[t].status = 1 /\ item'[t].by = after[t].by
    BY <1>9, <1>10, <1>11, <1>12, <1>18
  <2> QED
    BY <1>4, <1>5, <1>18, <2>1
<1> QED
  BY <1>17, <1>18

--------------------------------------------------------------------------------
(* A step of the improver is a step of the light tables or leaves them as   *)
(* they are.                                                                *)
LEMMA LightStep == [ImproverNext]_allVars => [Next]_vars
<1> SUFFICES ASSUME [ImproverNext]_allVars
             PROVE  [Next]_vars
  OBVIOUS
<1>1. ASSUME NEW R, NEW g, NEW dtime, Frame(R, g, dtime)
      PROVE  [Next]_vars
  BY <1>1, ImproverAssumption DEF Frame, ResetStatus, Next
<1>2. CASE LightsChange
  BY <1>2 DEF LightsChange, Next
<1>3. CASE UNCHANGED allVars
  BY <1>3 DEF allVars
<1> QED
  BY <1>1, <1>2, <1>3 DEF ImproverNext

(* The improver implements LightState: a frame that copies the lights and   *)
(* moves the targets in one step does to the light tables what a caller of  *)
(* get_light_state may do.                                                  *)
THEOREM ImplementsLightState == ImproverSpec => Spec
<1>1. ImproverInit => Init
  BY DEF ImproverInit
<1> QED
  BY <1>1, LightStep, PTL DEF ImproverSpec, Spec

(* With targets moved by it as well, the copy of a junction whose flag is   *)
(* down is the current one.                                                 *)
THEOREM CopyStaysCurrent == ImproverSpec => []CopyIsCurrent
BY ImplementsLightState, CopiesAreCurrent, PTL

(* A step of the improver is an answer of the fusion service to the maps of *)
(* targets or leaves them as they are.                                      *)
LEMMA TrackStep == TrackInv /\ [ImproverNext]_allVars => TrackInv'
<1> SUFFICES ASSUME TrackInv, [ImproverNext]_allVars
             PROVE  TrackInv'
  OBVIOUS
<1>1. CASE \E R \in SUBSET Targets, g \in [Targets -> T!Geometry], dtime \in Steps :
              Frame(R, g, dtime)
  BY <1>1, ImproveFacts DEF Frame
<1>2. CASE UNCHANGED tracking
  BY <1>2 DEF tracking, TrackInv, TrackingInv, T!TypeOK, T!OneMap, T!ListedAreAlive
<1> QED
  BY <1>1, <1>2 DEF ImproverNext, LightsChange, allVars

(* The maps of targets, the lane lists and the counters are right after     *)
(* every frame.                                                             *)
THEOREM TrackingHolds == ImproverSpec => []TrackInv
<1>1. ImproverInit => TrackInv
  <2> SUFFICES ASSUME T!Init
               PROVE  TrackInv
    BY DEF ImproverInit
  <2>1. T!TypeOK
    BY NewTyped DEF T!Init, T!TypeOK, Items
  <2>2. T!OneMap /\ T!ListedAreAlive
    BY DEF T!Init, T!OneMap, T!ListedAreAlive
  <2>3. \A t \in Targets : Counted(item[t])
    BY NewTyped DEF T!Init
  <2> QED
    BY <2>1, <2>2, <2>3 DEF TrackInv, TrackingInv, T!Init
<1> QED
  BY <1>1, TrackStep, PTL DEF ImproverSpec

(* A target is in one map, and the lane lists hold only targets that the    *)
(* junction map keeps alive.                                                *)
THEOREM MapsStayApart == ImproverSpec => []TrackingInv
<1>1. TrackInv => TrackingInv
  BY DEF TrackInv
<1> QED
  BY <1>1, TrackingHolds, PTL

(* However a target is moved, lost and found again and whatever lanes and   *)
(* roads are listed, junc_count gets it at most once on its way in and once *)
(* on its way out, and the second entry names the approach of the first.    *)
THEOREM TargetsCountedConsistently == ImproverSpec => []CountsAgree
<1>1. TrackInv => CountsAgree
  <2> SUFFICES ASSUME TrackInv, NEW t \in Targets
               PROVE  /\ item[t].invs <= 1 /\ item[t].outvs <= 1
                      /\ item[t].outvs = 1 => (item[t].outFrom <=> item[t].invs = 1)
    BY DEF CountsAgree, T!CountsAgree
  <2>1. Counted(item[t]) /\ item[t] \in Items
    BY DEF TrackInv, TrackingInv, T!TypeOK, Items
  <2> QED
    BY <2>1 DEF Counted, Items
<1> QED
  BY <1>1, TrackingHolds, PTL

--------------------------------------------------------------------------------
(* A junction knows the state of no light it does not use.                  *)
KnownAreUsed ==
    \A j \in Junctions, l \in Lights : view[j][l] # Unknown => j \in lightJuncs[l]

(* The light tables never forget who uses a light.                          *)
LEMMA KnownStep ==
  ASSUME TypeOK, KnownAreUsed, [Next]_vars
  PROVE  KnownAreUsed'
<1> SUFFICES ASSUME NEW i \in Junctions, NEW k \in Lights, view'[i][k] # Unknown
             PROVE  i \in lightJuncs'[k]
  BY DEF KnownAreUsed
<1>0. /\ view \in [Junctions -> [Lights -> States \cup {Unknown}]]
      /\ lightJuncs \in [Lights -> SUBSET Junctions]
  BY DEF TypeOK
<1>1. ASSUME NEW j \in Junctions, NEW l \in Lights, AddLight(j, l)
      PROVE  i \in lightJuncs'[k]
  BY <1>0, <1>1 DEF AddLight, KnownAreUsed
<1>2. ASSUME NEW j \in Junctions, GetLightState(j)
      PROVE  i \in lightJuncs'[k]
  BY <1>0, <1>2 DEF GetLightState, KnownAreUsed
<1>3. CASE UNCHANGED <<lightJuncs, view>>
  BY <1>3 DEF KnownAreUsed
<1> QED
  BY <1>1, <1>2, <1>3 DEF Next, UpdateLightState, ConsumeError, tables, vars

(* A lane that the copy permits has a light that permits it now.            *)
LEMMA PermittedNow ==
  ASSUME IInv, KnownAreUsed, ResetStatus, NEW l \in Lights, Permits(l)
  PROVE  Here \in lightJuncs[l] /\ state[l] < Red
<1>0. /\ Here \in Junctions
      /\ view \in [Junctions -> [Lights -> States \cup {Unknown}]]
  BY ImproverAssumption DEF IInv, TypeOK
<1>1. view'[Here][l] # Unknown /\ view'[Here][l] < Red
  BY DEF Permits
<1>2. CASE GetLightState(Here)
  <2>1. view'[Here][l] = IF Here \in lightJuncs[l] THEN state[l] ELSE view[Here][l]
    BY <1>0, <1>2 DEF GetLightState
  <2> QED
    BY <1>0, <1>1, <2>1 DEF KnownAreUsed
<1>3. CASE ~ update[Here] /\ UNCHANGED vars
  <2>1. view' = view
    BY <1>3 DEF vars
  <2> QED
    BY <1>0, <1>1, <1>3, <2>1 DEF KnownAreUsed, IInv, CopyIsCurrent
<1> QED
  BY <1>2, <1>3 DEF ResetStatus

(* No target enters the junction against the lights as they are, although   *)
(* the improver decides by a copy and the Kafka thread writes the original. *)
THEOREM EntersByTheLight == ImproverSpec => EntersByCurrentLight
<1> DEFINE Inv == IInv /\ KnownAreUsed /\ TrackInv
<1>1. Init => KnownAreUsed
  BY DEF Init, KnownAreUsed
<1>2. IInv /\ KnownAreUsed /\ [Next]_vars => KnownAreUsed'
  BY KnownStep DEF IInv
<1>3. Spec => []KnownAreUsed
  BY <1>1, <1>2, LightInvariant, PTL DEF Spec
<1>4. Inv /\ [ImproverNext]_allVars
        => [\A t \in Targets : Enters(t) =>
              LET l == item'[t].by
              IN  IF l = NoLight THEN Lightless
                  ELSE Here \in lightJuncs[l] /\ state[l] < Red]_allVars
  <2> SUFFICES ASSUME Inv, ImproverNext, NEW t \in Targets, Enters(t)
               PROVE  IF item'[t].by = NoLight THEN Lightless
                      ELSE Here \in lightJuncs[item'[t].by] /\ state[item'[t].by] < Red
    OBVIOUS
  <2>1. PICK R \in SUBSET Targets, g \in [Targets -> T!Geometry], dtime \in Steps :
           Frame(R, g, dtime)
    BY DEF ImproverNext, LightsChange, tracking, Enters
  <2>2. t \in fj /\ T!Waiting(item[t]) /\ g[t].light = "enter" /\ item'[t].by = g[t].by
    BY <2>1, ImproveFacts DEF Frame, Enters
  <2>3. Usable(g[t].by) /\ g[t].by \in Lights \cup {NoLight}
    BY <2>1, <2>2 DEF Frame, ByTheLights, T!Geometry, T!OnRoad, T!AtJunction
  <2> QED
    BY <2>1, <2>2, <2>3, PermittedNow DEF Frame, Usable
<1> QED
  BY <1>3, <1>4, ImplementsLightState, LightInvariant, TrackingHolds, PTL
     DEF ImproverSpec, EntersByCurrentLight

--------------------------------------------------------------------------------
(* The snapshots of the vehicles: VehicleSnapshot.                          *)

(* A vehicle's ring as generate_veh_frame reads it: k snapshots back.       *)
Back(v) == [k \in Slots |-> ring[v][(index[v] - k) % History]]

(* What the ring w holds of a set of timestamps: the newest ones, in        *)
(* falling order, each one there, and none left out while a slot is unused. *)
Holds(w, st) ==
    /\ w \in [Slots -> Nat]
    /\ st \in SUBSET (Nat \ {0}) /\ IsFiniteSet(st)
    /\ w[0] # 0
    /\ \A k \in Slots : w[k] # 0 => w[k] \in st
    /\ \A j, k \in Slots : j < k /\ w[k] # 0 => w[j] > w[k]
    /\ \A x \in st : \/ \E k \in Slots : w[k] = x
                     \/ \A k \in Slots : w[k] # 0 /\ x < w[k]

RingHolds ==
    \A v \in Vehicles :
        IF v \in known
        THEN Holds(Back(v), stamps[v])
        ELSE /\ stamps[v] = {}
             /\ \A i \in Slots : ring[v][i] = 0

(* A vehicle is in the list of the link it was last seen on, and in no      *)
(* other.                                                                   *)
ListsExact ==
    \A u \in Vehicles, l \in Links : u \in list[l] <=> seenOn[u] = l

(* The peer of a vehicle with one balancer is the sender of its newest      *)
(* message.                                                                 *)
PeersCurrent ==
    \A v \in known \ moved : peer[v] = sender[v]

(* The inductive invariant.                                                 *)
SnapshotIInv == SnapshotTypeOK /\ RingHolds /\ ListsExact /\ PeersCurrent

--------------------------------------------------------------------------------
(* Every set of natural numbers has a least element.                        *)
LEMMA LeastElement ==
  ASSUME NEW S, S \subseteq Nat, S # {}
  PROVE  \E x \in S : \A y \in S : x <= y
<1> DEFINE Less == OpToRel(<, Nat)
<1>1. IsWellFoundedOn(Less, Nat)
  BY NatLessThanWellFounded
<1> HIDE DEF Less
<1>2. PICK x \in S : \A y \in S : ~ (<<y, x>> \in Less)
  BY <1>1, WFMin
<1>3. ASSUME NEW y \in S PROVE x <= y
  <2>1. ~ (<<y, x>> \in Less) /\ x \in Nat /\ y \in Nat
    BY <1>2
  <2>2. y < x => <<y, x>> \in Less
    BY <2>1 DEF Less, OpToRel
  <2> QED
    BY <2>1, <2>2
<1> QED
  BY <1>3

(* The newest snapshot is the greatest.                                     *)
LEMMA NewestGreatest ==
  ASSUME NEW w, NEW st, Holds(w, st), NEW k \in Slots
  PROVE  w[k] <= w[0] /\ w[k] \in Nat /\ w[0] \in Nat
<1>1. 0 \in Slots /\ k \in Nat
  BY SnapshotAssumption DEF Slots
<1>2. w[k] \in Nat /\ w[0] \in Nat
  BY <1>1 DEF Holds
<1>3. CASE k = 0
  BY <1>2, <1>3
<1>4. CASE k # 0
  <2>1. w[k] # 0 => w[0] > w[k]
    BY <1>1, <1>4 DEF Holds
  <2> QED
    BY <1>2, <2>1
<1> QED
  BY <1>2, <1>3, <1>4

(* The ring holds exactly the newest History of the timestamps.             *)
LEMMA HoldsNewest ==
  ASSUME NEW w, NEW st, Holds(w, st), NEW t
  PROVE  t \in st /\ Cardinality({x \in st : x > t}) < History
            <=> t # 0 /\ \E k \in Slots : w[k] = t
<1> DEFINE X == {x \in st : x > t}
<1>0. History \in Nat \ {0} /\ Slots = 0..(History - 1)
  BY SnapshotAssumption DEF Slots
<1>1. ASSUME NEW k \in Slots, w[k] = t, t # 0 PROVE t \in st /\ Cardinality(X) < History
  <2>1. t \in st /\ t \in Nat /\ k \in Nat /\ k < History
    BY <1>0, <1>1 DEF Holds
  <2>2. \A x \in X : \E j \in 0..(k - 1) : w[j] = x
    <3> TAKE x \in X
    <3>1. x \in st /\ x > t /\ x \in Nat
      BY DEF Holds
    <3>2. ~ (\A j \in Slots : w[j] # 0 /\ x < w[j])
      BY <1>1, <2>1, <3>1
    <3>3. PICK j \in Slots : w[j] = x
      BY <3>1, <3>2 DEF Holds
    <3>4. j \in Nat /\ j # k
      BY <1>0, <1>1, <2>1, <3>1, <3>3
    <3>5. ~ (k < j)
      <4>1. k < j /\ w[j] # 0 => w[k] > w[j]
        BY DEF Holds
      <4> QED
        BY <1>1, <2>1, <3>1, <3>3, <4>1
    <3>6. j \in 0..(k - 1)
      BY <2>1, <3>4, <3>5
    <3> QED
      BY <3>3, <3>6
  <2> DEFINE D == 0..(k - 1)
             f == [x \in X |-> CHOOSE j \in D : w[j] = x]
  <2>3. \A x \in X : f[x] \in D /\ w[f[x]] = x
    BY <2>2
  <2>4. f \in [X -> D]
    BY <2>3
  <2> HIDE DEF f, X
  <2>5. f \in Injection(X, D)
    BY <2>3, <2>4 DEF Injection, IsInjective
  <2>6. IsFiniteSet(D) /\ Cardinality(D) = k
    <3>1. 0 \in Int /\ k - 1 \in Int
      BY <2>1
    <3>2. IsFiniteSet(0..(k - 1)) /\ Cardinality(0..(k - 1)) = IF 0 > k - 1 THEN 0 ELSE (k - 1) - 0 + 1
      BY ONLY <3>1, FS_Interval, Zenon
    <3> QED
      BY <2>1, <3>2
  <2> HIDE DEF D
  <2>7. IsFiniteSet(X) /\ Cardinality(X) <= Cardinality(D)
    BY <2>5, <2>6, FS_Injection
  <2>8. Cardinality(X) \in Nat
    BY <2>7, FS_CardinalityType
  <2> QED
    BY <1>0, <2>1, <2>6, <2>7, <2>8
<1>2. ASSUME t \in st, Cardinality(X) < History PROVE t # 0 /\ \E k \in Slots : w[k] = t
  <2>1. t \in Nat /\ t # 0 /\ IsFiniteSet(st)
    BY <1>2 DEF Holds
  <2>2. ASSUME ~ \E k \in Slots : w[k] = t PROVE FALSE
    <3>1. \A k \in Slots : w[k] # 0 /\ t < w[k] /\ w[k] \in st /\ w[k] \in Nat
      BY <1>2, <2>2 DEF Holds
    <3>2. \A k \in Slots : w[k] \in X
      BY <2>1, <3>1
    <3>3. w \in [Slots -> X]
      BY <3>2 DEF Holds
    <3>4. \A j, k \in Slots : j # k => w[j] # w[k]
      <4> TAKE j, k \in Slots
      <4>1. (j < k => w[j] > w[k]) /\ (k < j => w[k] > w[j])
        BY <3>1 DEF Holds
      <4>2. j \in Nat /\ k \in Nat /\ w[j] \in Nat /\ w[k] \in Nat
        BY <1>0, <3>1
      <4> QED
        BY <4>1, <4>2
    <3>5. w \in Injection(Slots, X)
      BY <3>3, <3>4 DEF Injection, IsInjective
    <3>6. X \in SUBSET st
      OBVIOUS
    <3> HIDE DEF X
    <3>7. IsFiniteSet(X)
      BY <2>1, <3>6, FS_Subset
    <3>8. Cardinality(Slots) <= Cardinality(X)
      BY <3>5, <3>7, FS_Injection
    <3>9. Cardinality(Slots) = History
      BY <1>0, FS_Interval
    <3>10. Cardinality(X) \in Nat
      BY <3>7, FS_CardinalityType
    <3> QED
      BY <1>0, <1>2, <3>8, <3>9, <3>10
  <2> QED
    BY <2>1, <2>2
<1> QED
  BY <1>1, <1>2

(* A newer timestamp pushed in front of the others, the oldest falling out  *)
(* of a full ring.                                                          *)
LEMMA HoldsPush ==
  ASSUME NEW w, NEW st, Holds(w, st), NEW t \in Nat \ {0}, \A x \in st : t > x,
         NEW n \in [Slots -> Nat], n[0] = t, \A k \in Slots \ {0} : n[k] = w[k - 1]
  PROVE  Holds(n, st \cup {t})
<1>0. History \in Nat \ {0} /\ Slots = 0..(History - 1) /\ 0 \in Slots
  BY SnapshotAssumption DEF Slots
<1>1. \A k \in Slots : k # 0 => k - 1 \in Slots /\ k \in Nat
  BY <1>0
<1>2. st \cup {t} \in SUBSET (Nat \ {0}) /\ IsFiniteSet(st \cup {t})
  BY FS_AddElement DEF Holds
<1>3. \A k \in Slots : k # 0 => n[k] = w[k - 1] /\ k - 1 \in Slots /\ k \in Nat /\ n[k] \in Nat
  BY <1>1
<1>4. \A k \in Slots : n[k] # 0 => n[k] \in st \cup {t}
  <2> SUFFICES ASSUME NEW k \in Slots, n[k] # 0, k # 0 PROVE n[k] \in st
    OBVIOUS
  <2> QED
    BY <1>3 DEF Holds
<1>5. ASSUME NEW j \in Slots, NEW k \in Slots, j < k, n[k] # 0 PROVE n[j] > n[k]
  <2>1. j \in Nat /\ k \in Nat /\ k # 0
    BY <1>0, <1>5
  <2>2. n[k] = w[k - 1] /\ k - 1 \in Slots /\ n[k] \in st
    BY <1>3, <1>5, <2>1 DEF Holds
  <2>3. CASE j = 0
    BY <2>2, <2>3
  <2>4. CASE j # 0
    <3>1. n[j] = w[j - 1] /\ j - 1 \in Slots /\ j - 1 < k - 1
      BY <1>3, <1>5, <2>1, <2>4
    <3>2. w[j - 1] > w[k - 1]
      BY <1>5, <2>2, <3>1 DEF Holds
    <3> QED
      BY <2>2, <3>1, <3>2
  <2> QED
    BY <2>3, <2>4
<1>6. ASSUME NEW x \in st \cup {t}
      PROVE  \/ \E k \in Slots : n[k] = x
             \/ \A k \in Slots : n[k] # 0 /\ x < n[k]
  <2>1. CASE x = t
    BY <1>0, <2>1
  <2>2. CASE x \in st /\ \E k \in Slots : w[k] = x
    <3>1. PICK k \in Slots : w[k] = x
      BY <2>2
    <3>2. x # 0 /\ x \in Nat /\ x < t
      BY <2>2 DEF Holds
    <3>3. CASE k + 1 \in Slots
      <4>1. k + 1 # 0 /\ (k + 1) - 1 = k
        BY <1>0
      <4>2. n[k + 1] = w[k]
        BY <3>3, <4>1
      <4> QED
        BY <3>1, <3>3, <4>2
    <3>4. CASE k + 1 \notin Slots
      <4>1. k = History - 1
        BY <1>0, <3>4
      <4>2. ASSUME NEW j \in Slots PROVE n[j] # 0 /\ x < n[j]
        <5>1. CASE j = 0
          BY <3>2, <5>1
        <5>2. CASE j # 0
          <6>1. n[j] = w[j - 1] /\ j - 1 \in Slots /\ j - 1 < k
            BY <1>0, <1>3, <4>1, <5>2
          <6>2. w[j - 1] > w[k] /\ w[j - 1] \in Nat
            BY <3>1, <3>2, <6>1 DEF Holds
          <6> QED
            BY <3>1, <3>2, <6>1, <6>2
        <5> QED
          BY <5>1, <5>2
      <4> QED
        BY <4>2
    <3> QED
      BY <3>3, <3>4
  <2>3. CASE x \in st /\ \A k \in Slots : w[k] # 0 /\ x < w[k]
    <3>1. ASSUME NEW j \in Slots PROVE n[j] # 0 /\ x < n[j]
      <4>1. CASE j = 0
        BY <2>3, <4>1
      <4>2. CASE j # 0
        BY <1>3, <2>3, <4>2
      <4> QED
        BY <4>1, <4>2
    <3> QED
      BY <3>1
  <2> QED
    BY <2>1, <2>2, <2>3 DEF Holds
<1> QED
  BY <1>2, <1>4, <1>5, <1>6 DEF Holds


--------------------------------------------------------------------------------
(* Types: every step keeps them.                                            *)
LEMMA SnapshotTypeStep ==
  ASSUME SnapshotTypeOK, [SnapshotNext]_snapshotVars
  PROVE  SnapshotTypeOK'
<1> USE DEF SnapshotTypeOK
<1>0. History \in Nat \ {0} /\ Slots = 0..(History - 1)
  BY SnapshotAssumption DEF Slots
<1>1. ASSUME NEW m \in Messages, UpdateSnapshot(m.vid, m.place, m.time, m.identity, m.address)
      PROVE  SnapshotTypeOK'
  <2> DEFINE v == m.vid
             p == m.place
             t == m.time
             id == m.identity
             a == m.address
  <2>1. /\ v \in Vehicles /\ p \in Places /\ t \in Nat /\ id \in Identities
        /\ a \in Addresses \cup {NoAddress}
    BY SnapshotAssumption
  <2>2. UpdateSnapshot(v, p, t, id, a)
    BY <1>1
  <2> HIDE DEF v, p, t, id, a
  <2>3. IndexAfter(v) \in Slots
    BY <1>0, <2>1 DEF IndexAfter
  <2>4. index' \in [Vehicles -> Slots] /\ known' \in SUBSET Vehicles /\ place' \in [Vehicles -> Places]
    BY <2>1, <2>2, <2>3 DEF UpdateSnapshot
  <2>5. ring' \in [Vehicles -> [Slots -> Nat]]
    <3>1. ring' = [ring EXCEPT ![v] = [ring[v] EXCEPT ![IndexAfter(v)] = t]]
      BY <2>2 DEF UpdateSnapshot
    <3>2. [ring[v] EXCEPT ![IndexAfter(v)] = t] \in [Slots -> Nat]
      BY <2>1
    <3> QED
      BY <3>1, <3>2
  <2>6. [identity |-> id, address |-> a] \in Peers /\ PeerAfter(v, id, a) \in Peers
    BY <2>1 DEF Peers, PeerAfter
  <2>7. peer' \in [Vehicles -> Peers] /\ sender' \in [Vehicles -> Peers]
    BY <2>2, <2>6 DEF UpdateSnapshot
  <2> DEFINE l == LinkAt[p]
  <2>8. l \in Links \cup {NoLink}
    BY <2>1, SnapshotAssumption
  <2>9. seenOn' \in [Vehicles -> Links \cup {NoLink}]
    BY <2>2, <2>8 DEF UpdateSnapshot
  <2>10. list' \in [Links -> SUBSET Vehicles]
    <3>1. MoveTo(v, l) \in [Links -> SUBSET Vehicles]
      BY <2>1 DEF MoveTo
    <3> QED
      BY <2>2, <3>1 DEF UpdateSnapshot
  <2>11. stamps' \in [Vehicles -> SUBSET Nat] /\ moved' \in SUBSET Vehicles /\ request' = request
    BY <2>1, <2>2 DEF UpdateSnapshot
  <2> QED
    BY <2>4, <2>5, <2>7, <2>9, <2>10, <2>11
<1>2. ASSUME NEW v \in Vehicles, NEW s \in BOOLEAN, RequestSnapshot(v, s) PROVE SnapshotTypeOK'
  <2>1. request'= [request EXCEPT ![v] = IF s THEN request[v] + 1 ELSE request[v] - 1]
    BY <1>2 DEF RequestSnapshot
  <2>2. (IF s THEN request[v] + 1 ELSE request[v] - 1) \in Nat
    BY <1>2 DEF RequestSnapshot
  <2>3. request' \in [Vehicles -> Nat]
    BY <2>1, <2>2
  <2> QED
    BY <1>2, <2>3 DEF RequestSnapshot, histories
<1>3. CASE RemoveAllRequest
  <2>1. request' \in [Vehicles -> Nat]
    BY <1>3 DEF RemoveAllRequest
  <2> QED
    BY <1>3, <2>1 DEF RemoveAllRequest, histories
<1>4. ASSUME NEW id \in Identities, NEW a \in Addresses \cup {NoAddress}, SendErrorReason(id, a)
      PROVE  SnapshotTypeOK'
  BY <1>4 DEF SendErrorReason, histories
<1>5. ASSUME NEW v \in Vehicles, SendJunction(v) PROVE SnapshotTypeOK'
  BY <1>5 DEF SendJunction, histories
<1>6. CASE UNCHANGED snapshotVars
  BY <1>6 DEF snapshotVars, histories
<1> QED
  BY <1>1, <1>2, <1>3, <1>4, <1>5, <1>6 DEF SnapshotNext

(* All that the service keeps of vehicles, with the histories of it.        *)
Kept == <<known, ring, index, place, list, peer, histories>>

(* Only an update of a vehicle changes what the service keeps of it.        *)
LEMMA UpdateOrKept ==
  ASSUME [SnapshotNext]_snapshotVars
  PROVE  \/ UNCHANGED Kept
         \/ \E v \in Vehicles, p \in Places, t \in Nat \ {0}, id \in Identities,
               a \in Addresses \cup {NoAddress} : UpdateSnapshot(v, p, t, id, a)
<1>1. ASSUME NEW m \in Messages, UpdateSnapshot(m.vid, m.place, m.time, m.identity, m.address)
      PROVE  \E v \in Vehicles, p \in Places, t \in Nat \ {0}, id \in Identities,
               a \in Addresses \cup {NoAddress} : UpdateSnapshot(v, p, t, id, a)
  <2>1. /\ m.vid \in Vehicles /\ m.place \in Places /\ m.time \in Nat \ {0}
        /\ m.identity \in Identities /\ m.address \in Addresses \cup {NoAddress}
    BY SnapshotAssumption
  <2> QED
    BY <1>1, <2>1
<1>2. ASSUME NEW v \in Vehicles, NEW s \in BOOLEAN, RequestSnapshot(v, s) PROVE UNCHANGED Kept
  BY <1>2 DEF RequestSnapshot, Kept
<1>3. CASE RemoveAllRequest
  BY <1>3 DEF RemoveAllRequest, Kept
<1>4. ASSUME NEW id \in Identities, NEW a \in Addresses \cup {NoAddress}, SendErrorReason(id, a)
      PROVE  UNCHANGED Kept
  BY <1>4 DEF SendErrorReason, Kept
<1>5. ASSUME NEW v \in Vehicles, SendJunction(v) PROVE UNCHANGED Kept
  BY <1>5 DEF SendJunction, Kept
<1>6. CASE UNCHANGED snapshotVars
  BY <1>6 DEF snapshotVars, Kept
<1> QED
  BY <1>1, <1>2, <1>3, <1>4, <1>5, <1>6 DEF SnapshotNext


--------------------------------------------------------------------------------
(* One step forward around the ring: what was k - 1 back is k back, and     *)
(* only the new slot itself is 0 back.                                      *)
LEMMA StepBack ==
  ASSUME NEW i \in Slots, NEW k \in Slots
  PROVE  LET j == (i + 1) % History
         IN  /\ j \in Slots /\ j % History = j /\ i % History = i
             /\ (i - k) % History \in Slots /\ (j - k) % History \in Slots
             /\ k # 0 => (j - k) % History = (i - (k - 1)) % History /\ (j - k) % History # j
<1> DEFINE j == (i + 1) % History
<1>0. History \in Nat \ {0} /\ i \in 0..(History - 1) /\ k \in 0..(History - 1)
  BY SnapshotAssumption DEF Slots
<1>1. \A x \in Int : x % History \in 0..(History - 1)
  BY <1>0
<1>2. \A x \in Int : 0 <= x /\ x < History => x % History = x
  BY <1>0
<1>3. \A x \in Int : - History <= x /\ x < 0 => x % History = x + History
  BY <1>0
<1>4. CASE i + 1 < History
  <2>1. j = i + 1
    BY <1>0, <1>2, <1>4
  <2> HIDE DEF j
  <2>2. j \in Slots /\ j % History = j /\ i % History = i /\ i \in Nat
    BY <1>0, <1>2, <1>4, <2>1 DEF Slots
  <2>3. (i - k) % History \in Slots /\ (j - k) % History \in Slots
    <3>1. i - k \in Int /\ j - k \in Int
      BY <1>0, <2>1
    <3>2. (i - k) % History \in 0..(History - 1) /\ (j - k) % History \in 0..(History - 1)
      BY ONLY <1>1, <3>1
    <3> QED
      BY <3>2 DEF Slots
  <2>4. ASSUME k # 0 PROVE (j - k) % History = (i - (k - 1)) % History /\ (j - k) % History # j
    <3>1. j - k = i - (k - 1)
      BY <1>0, <2>1
    <3>2. (j - k) % History # j
      BY <1>0, <1>2, <1>3, <1>4, <2>1, <2>4
    <3> QED
      BY <3>1, <3>2
  <2> QED
    BY <2>2, <2>3, <2>4 DEF j
<1>5. CASE i + 1 = History
  <2>1. j = 0
    BY <1>0, <1>5
  <2> HIDE DEF j
  <2>2. j \in Slots /\ j % History = j /\ i % History = i
    BY <1>0, <1>2, <2>1 DEF Slots
  <2>3. (i - k) % History \in Slots /\ (j - k) % History \in Slots
    <3>1. i - k \in Int /\ j - k \in Int
      BY <1>0, <2>1
    <3>2. (i - k) % History \in 0..(History - 1) /\ (j - k) % History \in 0..(History - 1)
      BY ONLY <1>1, <3>1
    <3> QED
      BY <3>2 DEF Slots
  <2>4. ASSUME k # 0 PROVE (j - k) % History = (i - (k - 1)) % History /\ (j - k) % History # j
    <3>1. (j - k) % History = (0 - k) + History
      <4>1. 0 - k \in Int /\ - History <= 0 - k /\ 0 - k < 0
        BY <1>0, <2>4
      <4> QED
        BY <1>3, <2>1, <4>1
    <3>2. (i - (k - 1)) % History = i - (k - 1)
      <4>1. i - (k - 1) \in Int /\ 0 <= i - (k - 1) /\ i - (k - 1) < History
        BY <1>0, <1>5, <2>4
      <4> QED
        BY <1>2, <4>1
    <3> QED
      BY <1>0, <1>5, <2>1, <2>4, <3>1, <3>2
  <2> QED
    BY <2>2, <2>3, <2>4 DEF j
<1> QED
  BY <1>0, <1>4, <1>5

(* The first snapshot of a vehicle, in a ring that is not used yet.         *)
LEMMA HoldsFirst ==
  ASSUME NEW t \in Nat \ {0}, NEW n \in [Slots -> Nat], n[0] = t, \A k \in Slots \ {0} : n[k] = 0
  PROVE  Holds(n, {t})
<1>1. 0 \in Slots /\ \A k \in Slots : k \in Nat
  BY SnapshotAssumption DEF Slots
<1>2. {t} \in SUBSET (Nat \ {0}) /\ IsFiniteSet({t})
  BY FS_Singleton
<1> QED
  BY <1>1, <1>2 DEF Holds

(* The rings hold what they have to after every step.                       *)
LEMMA RingStep ==
  ASSUME SnapshotTypeOK, RingHolds, [SnapshotNext]_snapshotVars
  PROVE  RingHolds'
<1>1. CASE UNCHANGED Kept
  BY <1>1 DEF Kept, histories, RingHolds, Back
<1>2. ASSUME NEW v \in Vehicles, NEW p \in Places, NEW t \in Nat \ {0}, NEW id \in Identities,
             NEW a \in Addresses \cup {NoAddress}, UpdateSnapshot(v, p, t, id, a)
      PROVE  RingHolds'
  <2>1. /\ known' = known \cup {v}
        /\ \A u \in Vehicles : index'[u] = IF u = v THEN IndexAfter(v) ELSE index[u]
        /\ \A u \in Vehicles : stamps'[u] = IF u = v THEN stamps[v] \cup {t} ELSE stamps[u]
        /\ \A x \in stamps[v] : t > x
    BY <1>2 DEF UpdateSnapshot, SnapshotTypeOK
  <2>2. /\ \A u \in Vehicles : u # v => ring'[u] = ring[u]
        /\ \A i \in Slots : ring'[v][i] = IF i = IndexAfter(v) THEN t ELSE ring[v][i]
    <3>1. ring' = [ring EXCEPT ![v] = [ring[v] EXCEPT ![IndexAfter(v)] = t]]
      BY <1>2 DEF UpdateSnapshot
    <3>2. \A u \in Vehicles : ring'[u] = IF u = v THEN [ring[v] EXCEPT ![IndexAfter(v)] = t] ELSE ring[u]
      BY <3>1 DEF SnapshotTypeOK
    <3> QED
      BY <3>2 DEF SnapshotTypeOK
  <2>3. ASSUME NEW u \in Vehicles, u # v
        PROVE  IF u \in known' THEN Holds(Back(u)', stamps'[u])
               ELSE stamps'[u] = {} /\ \A i \in Slots : ring'[u][i] = 0
    <3>1. Back(u)' = Back(u) /\ stamps'[u] = stamps[u] /\ (u \in known' <=> u \in known) /\ ring'[u] = ring[u]
      BY <2>1, <2>2, <2>3 DEF Back
    <3> QED
      BY <3>1 DEF RingHolds
  <2>4. Holds(Back(v)', stamps'[v])
    <3> DEFINE n == Back(v)'
               i == index[v]
               w == Back(v)
    <3>0. i \in Slots /\ 0 \in Slots /\ History \in Nat \ {0} /\ \A k \in Slots : k \in Nat
      BY SnapshotAssumption DEF SnapshotTypeOK, Slots
    <3>1. \A k \in Slots : n[k] = ring'[v][(index'[v] - k) % History]
      BY DEF Back
    <3>2. SnapshotTypeOK'
      BY SnapshotTypeStep
    <3>3. index'[v] \in Slots /\ ring'[v] \in [Slots -> Nat]
      BY <3>2 DEF SnapshotTypeOK
    <3>4. \A k \in Slots : (index'[v] - k) % History \in Slots
      BY <3>3, StepBack
    <3>5. n \in [Slots -> Nat]
      BY <3>3, <3>4 DEF Back
    <3>6. index'[v] % History = index'[v] /\ index'[v] = IndexAfter(v)
      BY <2>1, <3>0, <3>3, StepBack
    <3>7. n[0] = t
      <4>1. index'[v] - 0 = index'[v]
        BY <3>3 DEF Slots
      <4> QED
        BY <2>2, <3>0, <3>1, <3>3, <3>6, <4>1
    <3>8. CASE v \in known
      <4>1. Holds(w, stamps[v])
        BY <3>8 DEF RingHolds
      <4>2. IndexAfter(v) = (i + 1) % History
        BY <3>8 DEF IndexAfter
      <4>3. ASSUME NEW k \in Slots \ {0} PROVE n[k] = w[k - 1]
        <5> DEFINE j == (i + 1) % History
        <5>1. (j - k) % History = (i - (k - 1)) % History /\ (j - k) % History # j
              /\ (j - k) % History \in Slots
          BY <3>0, StepBack
        <5>2. n[k] = ring[v][(j - k) % History]
          BY <2>2, <3>1, <3>6, <4>2, <5>1
        <5>3. k - 1 \in Slots
          BY <3>0 DEF Slots
        <5>4. w[k - 1] = ring[v][(i - (k - 1)) % History]
          BY <5>3 DEF Back
        <5> QED
          BY <5>1, <5>2, <5>4
      <4> HIDE DEF n, w
      <4>5. Holds(n, stamps[v] \cup {t})
        BY <2>1, <3>5, <3>7, <4>1, <4>3, HoldsPush
      <4> QED
        BY <2>1, <4>5 DEF n
    <3>9. CASE v \notin known
      <4>1. stamps[v] = {} /\ \A j \in Slots : ring[v][j] = 0
        BY <3>9 DEF RingHolds
      <4>2. IndexAfter(v) = i
        BY <3>9 DEF IndexAfter
      <4>3. ASSUME NEW k \in Slots \ {0} PROVE n[k] = 0
        <5>1. (i - k) % History \in Slots /\ (i - k) % History # i
          <6>1. i \in 0..(History - 1) /\ k \in 1..(History - 1)
            BY <3>0 DEF Slots
          <6>2. (i - k) % History = IF k <= i THEN i - k ELSE (i - k) + History
            BY <3>0, <6>1
          <6> QED
            BY <3>0, <6>1, <6>2 DEF Slots
        <5> QED
          BY <2>2, <3>1, <3>6, <4>1, <4>2, <5>1
      <4> HIDE DEF n
      <4>4. Holds(n, {t})
        BY <3>5, <3>7, <4>3, HoldsFirst
      <4>5. stamps'[v] = {t}
        BY <2>1, <4>1
      <4> QED
        BY <4>4, <4>5 DEF n
    <3> QED
      BY <3>8, <3>9
  <2>5. v \in known'
    BY <2>1
  <2> QED
    BY <2>3, <2>4, <2>5 DEF RingHolds
<1> QED
  BY <1>1, <1>2, UpdateOrKept

(* A vehicle is in one list at most, whatever links it moves between.       *)
LEMMA ListsStep ==
  ASSUME SnapshotTypeOK, ListsExact, [SnapshotNext]_snapshotVars
  PROVE  ListsExact'
<1>1. CASE UNCHANGED Kept
  BY <1>1 DEF Kept, histories, ListsExact
<1>2. ASSUME NEW v \in Vehicles, NEW p \in Places, NEW t \in Nat \ {0}, NEW id \in Identities,
             NEW a \in Addresses \cup {NoAddress}, UpdateSnapshot(v, p, t, id, a)
      PROVE  ListsExact'
  <2> DEFINE l == LinkAt[p]
  <2>1. l \in Links \cup {NoLink} /\ NoLink \notin Links
    BY SnapshotAssumption
  <2>2. \A u \in Vehicles : seenOn'[u] = IF u = v /\ l # NoLink THEN l ELSE seenOn[u]
    BY <1>2 DEF UpdateSnapshot, SnapshotTypeOK
  <2>3. CASE l = NoLink
    <3>1. list' = list
      BY <1>2, <2>3 DEF UpdateSnapshot
    <3> QED
      BY <2>2, <2>3, <3>1 DEF ListsExact
  <2>4. CASE l # NoLink
    <3>1. list' = MoveTo(v, l)
      BY <1>2, <2>4 DEF UpdateSnapshot
    <3>2. \A m \in Links : list'[m] = IF m = l THEN list[m] \cup {v} ELSE list[m] \ {v}
      BY <3>1 DEF MoveTo
    <3>3. ASSUME NEW u \in Vehicles, NEW m \in Links PROVE u \in list'[m] <=> seenOn'[u] = m
      <4>1. u \in list[m] <=> seenOn[u] = m
        BY DEF ListsExact
      <4>2. seenOn'[u] = IF u = v THEN l ELSE seenOn[u]
        BY <2>2, <2>4
      <4> HIDE DEF l
      <4>3. u \in list'[m] <=> (IF m = l THEN u \in list[m] \/ u = v ELSE u \in list[m] /\ u # v)
        <5>1. CASE m = l
          <6>1. list'[m] = list[m] \cup {v}
            BY <3>2, <5>1
          <6> QED
            BY <5>1, <6>1
        <5>2. CASE m # l
          <6>1. list'[m] = list[m] \ {v}
            BY <3>2, <5>2
          <6> QED
            BY <5>2, <6>1
        <5> QED
          BY <5>1, <5>2
      <4> QED
        BY ONLY <4>1, <4>2, <4>3
    <3> QED
      BY <3>3 DEF ListsExact
  <2> QED
    BY <2>3, <2>4
<1> QED
  BY <1>1, <1>2, UpdateOrKept

(* The peer follows the messages of a vehicle with one balancer.            *)
LEMMA PeersStep ==
  ASSUME SnapshotTypeOK, PeersCurrent, [SnapshotNext]_snapshotVars
  PROVE  PeersCurrent'
<1>1. CASE UNCHANGED Kept
  BY <1>1 DEF Kept, histories, PeersCurrent
<1>2. ASSUME NEW v \in Vehicles, NEW p \in Places, NEW t \in Nat \ {0}, NEW id \in Identities,
             NEW a \in Addresses \cup {NoAddress}, UpdateSnapshot(v, p, t, id, a)
      PROVE  PeersCurrent'
  <2>1. /\ known' = known \cup {v} /\ moved \subseteq moved'
        /\ v \in known /\ sender[v].address # a => v \in moved'
        /\ \A u \in Vehicles : peer'[u] = IF u = v THEN PeerAfter(v, id, a) ELSE peer[u]
        /\ \A u \in Vehicles : sender'[u] = IF u = v THEN [identity |-> id, address |-> a] ELSE sender[u]
    BY <1>2 DEF UpdateSnapshot, SnapshotTypeOK
  <2>2. ASSUME NEW u \in known' \ moved' PROVE peer'[u] = sender'[u]
    <3>0. u \in Vehicles
      BY <2>1 DEF SnapshotTypeOK
    <3>1. CASE u # v
      BY <2>1, <3>0, <3>1 DEF PeersCurrent
    <3>2. CASE u = v /\ v \in known
      <4>1. sender[v].address = a /\ peer[v] = sender[v]
        BY <2>1, <3>2 DEF PeersCurrent
      <4>2. PeerAfter(v, id, a) = [identity |-> id, address |-> a]
        BY <3>2, <4>1 DEF PeerAfter
      <4> QED
        BY <2>1, <3>2, <4>2
    <3>3. CASE u = v /\ v \notin known
      <4>1. PeerAfter(v, id, a) = [identity |-> id, address |-> a]
        BY <3>3 DEF PeerAfter
      <4> QED
        BY <2>1, <3>3, <4>1
    <3> QED
      BY <3>1, <3>2, <3>3
  <2> QED
    BY <2>2 DEF PeersCurrent
<1> QED
  BY <1>1, <1>2, UpdateOrKept


(* The service without vehicles satisfies the inductive invariant.          *)
LEMMA SnapshotInitOK == SnapshotInit => SnapshotIInv
<1> SUFFICES ASSUME SnapshotInit PROVE SnapshotIInv
  OBVIOUS
<1>1. History \in Nat \ {0} /\ Slots = 0..(History - 1) /\ NoLink \notin Links
  BY SnapshotAssumption DEF Slots
<1>2. (CHOOSE q \in Places : TRUE) \in Places /\ (CHOOSE i \in Identities : TRUE) \in Identities
  BY SnapshotAssumption
<1>3. NoPeer \in Peers
  BY <1>2 DEF NoPeer, Peers
<1>4. SnapshotTypeOK
  <2>1. peer \in [Vehicles -> Peers] /\ sender \in [Vehicles -> Peers] /\ place \in [Vehicles -> Places]
    BY <1>2, <1>3 DEF SnapshotInit
  <2>2. ring \in [Vehicles -> [Slots -> Nat]] /\ index \in [Vehicles -> Slots]
    BY <1>1 DEF SnapshotInit
  <2> QED
    BY <2>1, <2>2 DEF SnapshotInit, SnapshotTypeOK
<1>5. RingHolds /\ ListsExact /\ PeersCurrent
  BY <1>1 DEF SnapshotInit, RingHolds, ListsExact, PeersCurrent
<1> QED
  BY <1>4, <1>5 DEF SnapshotIInv

(* However the updates of vehicles come in and however often their rings    *)
(* wrap: each ring holds the newest snapshots in order, each vehicle is in  *)
(* one list at most, and pushes go to the sender of its newest message.     *)
THEOREM SnapshotInductive == SnapshotSpec => []SnapshotIInv
<1>1. SnapshotInit => SnapshotIInv
  BY SnapshotInitOK
<1>2. SnapshotIInv /\ [SnapshotNext]_snapshotVars => SnapshotIInv'
  BY SnapshotTypeStep, RingStep, ListsStep, PeersStep DEF SnapshotIInv
<1> QED
  BY <1>1, <1>2, PTL DEF SnapshotSpec

(* generate_veh_frame on a ring that holds what it has to.                  *)
LEMMA FrameFromRing ==
  ASSUME SnapshotTypeOK, RingHolds, NEW v \in known, NEW e \in Window..MaxTime
  PROVE  LET t == GenerateVehFrame(v, e)
             inside == {x \in Recent(v) : e - Window < x /\ x < e}
         IN  /\ t # 0 => t \in Recent(v) /\ t \in (e - Window)..e
             /\ \A x \in inside : t >= x
<1> DEFINE w == Back(v)
           st == stamps[v]
           lo == e - Window
           t == GenerateVehFrame(v, e)
           fits == {k \in 1..(History - 1) : HistoryFits(v, k, e)}
<1>0. /\ History \in Nat \ {0} /\ Slots = 0..(History - 1) /\ 0 \in Slots /\ v \in Vehicles
      /\ e \in Nat /\ e # 0 /\ lo \in Nat /\ lo < e /\ Window \in Nat
  BY SnapshotAssumption DEF Slots, SnapshotTypeOK
<1>1. LowerEnd(e) = lo
  <2>1. Word \in Nat /\ lo < Word
    BY <1>0, SnapshotAssumption
  <2>2. lo % Word = lo
    BY <1>0, <2>1
  <2> QED
    BY <2>2 DEF LowerEnd
<1>2. Holds(w, st)
  BY <1>0 DEF RingHolds
<1>3. \A k \in Slots : w[k] = ring[v][(index[v] - k) % History]
  BY DEF Back
<1>4. Newest(v) = w[0]
  <2>1. index[v] \in 0..(History - 1)
    BY <1>0 DEF SnapshotTypeOK
  <2>2. (index[v] - 0) % History = index[v]
    BY <1>0, <2>1
  <2> QED
    BY <1>0, <1>3, <2>2 DEF Newest
<1>5. \A k \in 1..(History - 1) : k \in Slots /\ (HistoryFits(v, k, e) <=> w[k] <= e /\ w[k] > lo)
  BY <1>0, <1>1, <1>3 DEF HistoryFits
<1>6. t = IF w[0] < lo THEN 0
          ELSE IF w[0] < e THEN w[0]
          ELSE IF fits = {} THEN 0
          ELSE ring[v][(index[v] - FirstFit(v, fits)) % History]
  BY <1>0, <1>1, <1>4 DEF GenerateVehFrame
<1>7. fits = {k \in 1..(History - 1) : w[k] <= e /\ w[k] > lo}
  BY <1>5
<1>8. \A x : x \in Recent(v) <=> x # 0 /\ \E k \in Slots : w[k] = x
  <2>1. \A x : x \in Recent(v) <=> x \in st /\ Cardinality({y \in st : y > x}) < History
    BY DEF Recent
  <2> HIDE DEF w, st
  <2> QED
    BY <1>2, <2>1, HoldsNewest
<1> HIDE DEF w, st, lo, fits, t
<1>9. \A k \in Slots : w[k] \in Nat /\ w[k] <= w[0]
  BY <1>2, NewestGreatest
<1>10. w[0] # 0 /\ w[0] \in Nat
  BY <1>0, <1>2, <1>9 DEF Holds
<1>11. (t # 0 => t \in Recent(v) /\ t \in lo..e)
       /\ \A x \in Recent(v) : lo < x /\ x < e => t >= x
  <2>1. CASE w[0] < lo
    <3>1. t = 0
      BY <1>6, <2>1
    <3>2. \A x \in Recent(v) : x \in Nat /\ x <= w[0]
      BY <1>8, <1>9
    <3> QED
      BY <1>0, <1>10, <2>1, <3>1, <3>2
  <2>2. CASE w[0] >= lo /\ w[0] < e
    <3>1. t = w[0]
      BY <1>0, <1>6, <1>10, <2>2
    <3>2. \A x \in Recent(v) : x \in Nat /\ x <= w[0]
      BY <1>8, <1>9
    <3>3. w[0] \in Recent(v)
      BY <1>0, <1>8, <1>10
    <3> QED
      BY <1>0, <1>10, <2>2, <3>1, <3>2, <3>3
  <2>3. CASE w[0] >= e
    <3>0. t = IF fits = {} THEN 0 ELSE ring[v][(index[v] - FirstFit(v, fits)) % History]
      BY <1>0, <1>6, <1>10, <2>3
    <3>1. ASSUME NEW x \in Recent(v), lo < x, x < e PROVE \E k \in fits : w[k] = x
      <4>1. PICK k \in Slots : w[k] = x
        BY <1>8
      <4>2. k # 0 /\ x \in Nat
        BY <1>0, <1>9, <1>10, <2>3, <3>1, <4>1
      <4>3. k \in 1..(History - 1) /\ w[k] <= e /\ w[k] > lo
        BY <1>0, <3>1, <4>1, <4>2
      <4> QED
        BY <1>7, <4>1, <4>3
    <3>2. CASE fits = {}
      BY <3>0, <3>1, <3>2
    <3>3. CASE fits # {}
      <4> DEFINE m == FirstFit(v, fits)
      <4>1. fits \subseteq Nat
        BY <1>0, <1>7
      <4>2. \E k \in fits : \A j \in fits : k <= j
        BY <3>3, <4>1, LeastElement
      <4>3. m \in fits /\ \A j \in fits : m <= j
        BY <4>2 DEF FirstFit, Min
      <4> HIDE DEF m
      <4>4. m \in Slots /\ w[m] <= e /\ w[m] > lo /\ w[m] \in Nat
        BY <1>5, <1>7, <1>9, <4>3
      <4>5. t = w[m]
        BY <1>3, <3>0, <3>3, <4>4 DEF m
      <4>6. t \in Recent(v) /\ t \in lo..e
        BY <1>0, <1>8, <4>4, <4>5
      <4>7. ASSUME NEW x \in Recent(v), lo < x, x < e PROVE t >= x
        <5>1. PICK k \in fits : w[k] = x
          BY <3>1, <4>7
        <5>2. k \in Slots /\ m <= k /\ w[k] # 0 /\ k \in Nat /\ m \in Nat /\ w[k] \in Nat
          BY <1>0, <1>5, <1>7, <1>9, <4>3, <4>4, <5>1
        <5>3. m < k => w[m] > w[k]
          BY <1>2, <4>4, <5>2 DEF Holds
        <5> QED
          BY <4>4, <4>5, <5>1, <5>2, <5>3
      <4> QED
        BY <4>6, <4>7
    <3> QED
      BY <3>2, <3>3
  <2> QED
    BY <1>0, <1>10, <2>1, <2>2, <2>3
<1> QED
  BY <1>11 DEF t, lo

(* Whatever the time of a radar frame and however often the ring has        *)
(* wrapped, generate_veh_frame takes the newest snapshot that fits.         *)
THEOREM RingCorrect == SnapshotSpec => []RingInv
<1>1. SnapshotIInv => RingInv
  BY FrameFromRing DEF SnapshotIInv, RingInv, FrameFits
<1> QED
  BY <1>1, SnapshotInductive, PTL

(* Pushes for a vehicle whose messages all came through one balancer go to  *)
(* the identity of its newest message.                                      *)
THEOREM PushesCorrect == SnapshotSpec => []PushesReachVehicle
<1>1. SnapshotIInv => PushesReachVehicle
  BY DEF SnapshotIInv, PeersCurrent, PushesReachVehicle, PushTo
<1> QED
  BY <1>1, SnapshotInductive, PTL

(* How often a vehicle is found in the lists of a link and its neighbours.  *)
LEMMA FoundOnce ==
  ASSUME SnapshotTypeOK, ListsExact, NEW u \in Vehicles, NEW v \in Vehicles,
         NEW p \in Places, NEW l \in Links
  PROVE  LET shown == /\ u # v
                      /\ seenOn[u] \in {l, PrevLink[l], NextLink[l]} \ {NoLink}
                      /\ <<p, place[u]>> \notin Far
         IN  Around(v, p, l)[u] = IF shown THEN 1 ELSE 0
<1> DEFINE N == {l, PrevLink[l], NextLink[l]} \ {NoLink}
           F == {m \in N : u \in list[m] \ {v} /\ <<p, place[u]>> \notin Far}
           far == <<p, place[u]>> \in Far
<1>1. N \subseteq Links
  BY SnapshotAssumption
<1>2. Around(v, p, l)[u] = Cardinality(F)
  BY DEF Around
<1>3. \A m \in N : u \in list[m] <=> seenOn[u] = m
  BY <1>1 DEF ListsExact
<1> HIDE DEF N, far
<1>4. \A m : m \in F <=> m \in N /\ seenOn[u] = m /\ u # v /\ ~ far
  BY <1>3 DEF far
<1> HIDE DEF F
<1>5. CASE u # v /\ seenOn[u] \in N /\ ~ far
  <2>1. F = {seenOn[u]}
    BY <1>4, <1>5
  <2>2. Cardinality(F) = 1
    BY <2>1, FS_Singleton
  <2> QED
    BY <1>2, <1>5, <2>2 DEF N, far
<1>6. CASE ~ (u # v /\ seenOn[u] \in N /\ ~ far)
  <2>1. F = {}
    BY <1>4, <1>6
  <2>2. Cardinality(F) = 0
    BY <2>1, FS_EmptySet
  <2> QED
    BY <1>2, <1>6, <2>2 DEF N, far
<1> QED
  BY <1>5, <1>6

(* A package shows each vehicle near on the link or next to it exactly      *)
(* once, and never the vehicle to itself.                                   *)
THEOREM PackagesExact == SnapshotSpec => AroundExact
<1> DEFINE Shown(u, v) ==
             stamps'[v] # stamps[v] /\ LinkAt[place'[v]] # NoLink =>
               LET l == LinkAt[place'[v]]
                   shown == /\ u # v
                            /\ seenOn[u] \in {l, PrevLink[l], NextLink[l]} \ {NoLink}
                            /\ <<place'[v], place[u]>> \notin Far
               IN  out'.around[u] = IF shown THEN 1 ELSE 0
<1>1. SnapshotIInv /\ [SnapshotNext]_snapshotVars => [\A u, v \in Vehicles : Shown(u, v)]_snapshotVars
  <2> SUFFICES ASSUME SnapshotIInv, SnapshotNext, NEW u \in Vehicles, NEW v \in Vehicles,
                      stamps'[v] # stamps[v], LinkAt[place'[v]] # NoLink
               PROVE  Shown(u, v)
    OBVIOUS
  <2>1. PICK q \in Vehicles, p \in Places, t \in Nat \ {0}, id \in Identities,
             a \in Addresses \cup {NoAddress} : UpdateSnapshot(q, p, t, id, a)
    BY UpdateOrKept DEF Kept, histories
  <2>2. q = v
    BY <2>1 DEF UpdateSnapshot, SnapshotIInv, SnapshotTypeOK
  <2>3. place'[v] = p
    BY <2>1, <2>2 DEF UpdateSnapshot, SnapshotIInv, SnapshotTypeOK
  <2> DEFINE l == LinkAt[p]
  <2>4. l \in Links
    BY <2>3, SnapshotAssumption
  <2>5. out'.around = Around(v, p, l)
    BY <2>1, <2>2, <2>3 DEF UpdateSnapshot
  <2> HIDE DEF l
  <2>6. Around(v, p, l)[u] = IF /\ u # v
                                /\ seenOn[u] \in {l, PrevLink[l], NextLink[l]} \ {NoLink}
                                /\ <<p, place[u]>> \notin Far
                             THEN 1 ELSE 0
    BY <2>4, FoundOnce DEF SnapshotIInv
  <2> QED
    BY <2>3, <2>5, <2>6 DEF l
<1> QED
  BY <1>1, SnapshotInductive, PTL DEF SnapshotSpec, AroundExact

================================================================================
