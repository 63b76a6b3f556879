---------------------------- MODULE TargetTracking ----------------------------
(***************************************************************************)
(* The life of a radar target in the snapshot service (fusion-improver.cpp *)
(* and vehicle-planning.cpp).  For each answer of the fusion service the   *)
(* improver of the junction works through three maps of targets:           *)
(*   _fn_planning   on a road, tracked from what the radar reports;        *)
(*   _fj_planning   at or in the junction, where they are moved by a       *)
(*                  car-following model and the lights;                    *)
(*   _fm_planning   missing: moved on along their route for some seconds.  *)
(* A target in the junction is also in the list of the lane it entered by, *)
(* an intrusive list that does not keep it alive.                          *)
(*                                                                         *)
(* Geometry is left to chance: where a target is found, how far it gets in *)
(* a frame, what the lights allow and which of the lanes and roads it      *)
(* passes are listed to be counted are inputs.  A null lane segment is     *)
(* Gone; the map functions return null for it.                             *)
(***************************************************************************)
EXTENDS Integers, FiniteSets

CONSTANTS
    Targets,      \* target ids
    MaxAge,       \* PLANNING_MAX_TIME
    Steps,        \* values of get_process_time: positive, at most 10000
    Lights,       \* the lights of the incoming lanes
    NoLight       \* a lane without one: light_id < 0

(* Where a target is: on some road, on the last segment of an incoming      *)
(* lane, in the junction, on an outgoing road, or on no segment.            *)
Road == "road"
Stop == "stop"
Inside == "inside"
Out == "out"
Gone == "gone"
Segments == {Road, Stop, Inside, Out}
Places == Segments \cup {Gone}

(* get_adc_and_point: the same segment, the next one, or none.              *)
Onward == [road |-> Stop, stop |-> Inside, inside |-> Out, out |-> Road, gone |-> Gone]

Advance(p, how) == [stay |-> p, on |-> Onward[p], end |-> Gone][how]

(* What the map and the lights say of a target in a frame.  On a road: the  *)
(* segment the search finds at its position, whether the headings agree,    *)
(* and how far it gets.                                                     *)
OnRoad == [found : Places, aligned : BOOLEAN, light : {"move"}, by : {NoLight},
           how : {"stay", "on", "end"}, again : {"stay"}, counted : {{}}]

(* At the junction: whether it may enter or waits and the light of the lane *)
(* that decides, how far it gets, and how far if it is moved a second time, *)
(* and whether count_info lists its lane of the junction (incom_lanes) and  *)
(* its road out (outgoing_roads).                                           *)
AtJunction == [found : {Gone}, aligned : {FALSE}, light : {"enter", "wait", "move"},
               by : Lights \cup {NoLight}, how : {"stay", "on", "end"},
               again : {"stay", "on", "end"}, counted : SUBSET {"in", "out"}]

Geometry == OnRoad \cup AtJunction

VARIABLES
    fn,           \* _fn_planning
    fj,           \* _fj_planning
    fm,           \* _fm_planning
    item,         \* the fusion_veh_item of each target in a map
    listed        \* the targets in the lists of the incoming lanes

vars == <<fn, fj, fm, item, listed>>

(* invs and outvs are the entries junc_count got for the target since it    *)
(* came to the junction, and outFrom is whether its outvs entry names the   *)
(* approach it came by.  by is the light of the lane it was put on.         *)
NewItem == [place |-> Gone, status |-> 0, bused |-> FALSE, bad |-> FALSE, age |-> 0,
            countIn |-> FALSE, countOut |-> FALSE, invs |-> 0, outvs |-> 0,
            outFrom |-> FALSE, by |-> NoLight]

Init ==
    /\ fn = {} /\ fj = {} /\ fm = {}
    /\ item = [t \in Targets |-> NewItem]
    /\ listed = {}

--------------------------------------------------------------------------------
(* Plausible bugs of the improver, for mutation runs only.                  *)
LeavesListIfEntered(x) == ~ x.bused /\ x.status = 0

CountsInAgain(x, next, counted) == Inside \in {x.place, next} /\ "in" \in counted

--------------------------------------------------------------------------------
(* normal_planning of a reported target that is in no other map.  One that  *)
(* is first found inside the junction is bad for as long as it is reported. *)
(* Without a segment a known target is moved on by calculation.             *)
IsTaken(t, g) == t \in fn \/ (g.found # Gone /\ g.aligned)

NormalPlanning(t, g) ==
    LET x == item[t]
        place == IF g.found = Gone THEN Advance(x.place, g.how) ELSE g.found
    IN  IF t \in fn
        THEN [x EXCEPT !.bused = TRUE, !.place = IF x.bad THEN @ ELSE place]
        ELSE [NewItem EXCEPT !.place = g.found, !.bused = TRUE, !.bad = g.found = Inside]

(* status_process: the target moves on, and is counted when it is first     *)
(* seen on a listed lane of the junction, and when it is first seen on a    *)
(* listed outgoing road.  The entry for the way out names the approach if   *)
(* the target has been counted in by then.                                  *)
CountsIn(x, next, counted) ==
    ~ x.countIn /\ Inside \in {x.place, next} /\ "in" \in counted
CountsOut(x, next, counted) ==
    ~ x.countOut /\ Out \in {x.place, next} /\ "out" \in counted

Incomming(x, next, counted) ==
    IF CountsIn(x, next, counted) THEN [x EXCEPT !.countIn = TRUE, !.invs = @ + 1] ELSE x

Outgoing(x, next, counted) ==
    IF CountsOut(x, next, counted)
    THEN [x EXCEPT !.countOut = TRUE, !.outvs = @ + 1, !.outFrom = x.countIn]
    ELSE x

StatusProcess(x, next, counted) ==
    [Outgoing(Incomming(x, next, counted), next, counted)
        EXCEPT !.place = next, !.bused = TRUE]

(* junction_process of a target in the junction map.  At the stop line      *)
(* (status 0) it moves up to it, waits, or enters by its own or another     *)
(* lane; once entered (status 1) it moves until it leaves the junction.     *)
Waiting(x) == x.status = 0 /\ x.place = Stop
Enter(x, l) == [x EXCEPT !.status = 1, !.place = Inside, !.by = l]
Driven(x, next, counted) ==
    [StatusProcess(x, next, counted) EXCEPT !.bused = next = Inside]

JunctionProcess(x, g, how) ==
    IF Waiting(x)
    THEN [enter |-> StatusProcess(Enter(x, g.by), Advance(Inside, how), g.counted),
          wait  |-> x,
          move  |-> StatusProcess(x, Advance(Stop, how), g.counted)][g.light]
    ELSE IF x.status = 0 THEN [x EXCEPT !.bused = FALSE]
                         ELSE Driven(x, Advance(x.place, how), g.counted)

(* Reported targets go first; junction_planning then moves every target of  *)
(* the map that is not in use, also one that has just left the junction.    *)
Used(x) == [x EXCEPT !.bused = TRUE]

JunctionPlanning(t, g, isReported) ==
    LET first == JunctionProcess(Used(item[t]), g, g.how)
    IN  IF isReported /\ ~ first.bused
        THEN JunctionProcess(Used(first), g, g.again)
        ELSE first

(* missing_planning: a missing target is dropped when its route ends or     *)
(* when it does not move; one that is reported again has its age set to 0   *)
(* first.                                                                   *)
MissingDropped(t, g) == item[t].bad \/ Advance(item[t].place, g.how) = Gone \/ g.light = "wait"

MissingPlanning(t, g, isReported, dtime) ==
    [item[t] EXCEPT !.age = (IF isReported THEN 0 ELSE @) + dtime,
                    !.place = Advance(@, g.how)]

--------------------------------------------------------------------------------
(* check_set_status_result, in its order: a missing target that is too old, *)
(* or whose age is 0, is dropped; one of the junction that is not in use is *)
(* missing from now on and leaves the list of its lane; one of the road     *)
(* goes on to the junction at the stop line, or is dropped if not in use.   *)
Forget(x) == x.age = 0 \/ x.age > MaxAge
LeavesList(x) == ~ x.bused
Lost(after, t) == ~ after[t].bused

(* The targets that do not go to normal_process.                            *)
TrackedElsewhere == fj \cup fm

(* One answer of the fusion service: R the targets it reports, g their      *)
(* geometry, dtime the time since the last.                                 *)
Improve(R, g, dtime) ==
    LET taken == {t \in R \ TrackedElsewhere : IsTaken(t, g[t])}
        kept == {t \in fm : ~ MissingDropped(t, g[t])}
        after == [t \in Targets |->
                    IF t \in fj THEN JunctionPlanning(t, g[t], t \in R)
                    ELSE IF t \in kept THEN MissingPlanning(t, g[t], t \in R, dtime)
                    ELSE IF t \in taken THEN NormalPlanning(t, g[t])
                    ELSE [item[t] EXCEPT !.bused = FALSE]]
        lost == {t \in fj : Lost(after, t)}
        normal == {t \in fn \cup taken : after[t].bused}
        arrived == {t \in normal : after[t].place = Stop}
    IN  /\ fm' = {t \in kept : ~ Forget(after[t])} \cup lost
        /\ fj' = (fj \ lost) \cup arrived
        /\ fn' = normal \ arrived
        /\ item' = [t \in Targets |->
                      IF t \in arrived
                      THEN [after[t] EXCEPT !.status = 0, !.countIn = FALSE, !.invs = 0,
                                            !.countOut = FALSE, !.outvs = 0]
                      ELSE IF t \in lost THEN [after[t] EXCEPT !.age = 0]
                      ELSE IF t \in fn' \cup fj' \cup fm' THEN after[t]
                      ELSE NewItem]
        /\ listed' = (listed \cup {t \in fj : Waiting(item[t]) /\ after[t].status = 1})
                        \ {t \in fj : LeavesList(after[t])}

Next ==
    \E R \in SUBSET Targets, g \in [Targets -> Geometry], dtime \in Steps :
        Improve(R, g, dtime)

Spec == Init /\ [][Next]_vars

--------------------------------------------------------------------------------
(* The values of the maps and of the items: the age of a missing target     *)
(* stays below the limit.                                                   *)
TypeOK ==
    /\ fn \in SUBSET Targets /\ fj \in SUBSET Targets /\ fm \in SUBSET Targets
    /\ item \in [Targets ->
                   [place : Places, status : 0..1, bused : BOOLEAN, bad : BOOLEAN,
                    age : 0..MaxAge, countIn : BOOLEAN, countOut : BOOLEAN,
                    invs : Nat, outvs : Nat, outFrom : BOOLEAN, by : Lights \cup {NoLight}]]
    /\ listed \in SUBSET Targets

(* A target is in one map only, although each frame moves it between maps   *)
(* that are looked up by id: otherwise set_targets would show it twice.     *)
OneMap == fn \cap fj = {} /\ fn \cap fm = {} /\ fj \cap fm = {}

(* The lists of the lanes hold no target that is not in the junction map:   *)
(* the map is what keeps it alive, and junction_idm_process walks the list. *)
ListedAreAlive == listed \subseteq {t \in fj : item[t].status = 1}

(* On one passage of the junction a vehicle is counted in at most once and  *)
(* out at most once, also when it is moved twice in the frame in which it   *)
(* leaves, and the entry for its way out names the approach exactly if      *)
(* there is one for its way in.  A listed lane may be left by a road that   *)
(* is not listed and the other way round, so either entry may be missing;   *)
(* but none comes late: no vehicle is counted in once it is counted out.    *)
CountsAgree ==
    \A t \in Targets :
        /\ item[t].invs <= 1 /\ item[t].outvs <= 1
        /\ item[t].outvs = 1 => (item[t].outFrom <=> item[t].invs = 1)

================================================================================
