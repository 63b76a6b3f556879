--------------------------- MODULE JunctionImprover ---------------------------
(***************************************************************************)
(* The improver of one junction with the traffic lights it looks at.  For  *)
(* each answer of the fusion service improve_fusion_target_to_junction     *)
(* first copies the lights that have changed (reset_status) and then moves *)
(* the targets by that copy.  What it does after the copy touches nothing  *)
(* the Kafka thread does, so a frame is one step, taken when the copy is   *)
(* made.  Other junctions share lights with this one.                      *)
(***************************************************************************)
EXTENDS LightState

CONSTANTS
    Here,         \* the junction of this improver
    Lightless,    \* some of its lanes have no light
    NoLight,      \* the light of such a lane: light_id < 0
    Red,          \* the smallest lightState that stops a vehicle: 3
    Targets,      \* target ids
    MaxAge,       \* PLANNING_MAX_TIME
    Steps         \* values of get_process_time: positive, at most 10000

ASSUME ImproverAssumption ==
    /\ Here \in Junctions
    /\ Lightless \in BOOLEAN /\ NoLight \notin Lights
    /\ MaxAge \in Nat
    /\ Steps \subseteq Nat \ {0}

VARIABLES fn, fj, fm, item, listed    \* as in TargetTracking

T == INSTANCE TargetTracking

tracking == <<fn, fj, fm, item, listed>>
allVars == <<vars, tracking>>

ImproverInit == Init /\ T!Init

--------------------------------------------------------------------------------
(* A plausible bug, for a mutation run only: the last state that permits is *)
(* off by one.                                                              *)
PermitsRed(l) == view'[Here][l] # Unknown /\ view'[Here][l] <= Red

(* reset_status: the copy of the lights is renewed if one has changed.      *)
ResetStatus == GetLightState(Here) \/ (~ update[Here] /\ UNCHANGED vars)

(* A lane may be used if it has no light, or if the copy has a state for    *)
(* its light and that is not a red one.                                     *)
Permits(l) == view'[Here][l] # Unknown /\ view'[Here][l] < Red

Usable(l) == IF l = NoLight THEN Lightless ELSE Permits(l)

(* The lights decide for a target at the stop line.  It waits only if its   *)
(* own lane may not be used, and enters by a lane that may: its own or,     *)
(* when it is too fast to stop, the next one to either side.                *)
ByTheLights(g) ==
    \A t \in fj : T!Waiting(item[t]) =>
        /\ g[t].light = "enter" => Usable(g[t].by)
        /\ g[t].light = "wait" => g[t].by # NoLight /\ ~ Permits(g[t].by)

(* init has added the lights there are before the first frame.              *)
Frame(R, g, dtime) ==
    /\ Here \in junctions \/ Lightless
    /\ ResetStatus
    /\ ByTheLights(g)
    /\ T!Improve(R, g, dtime)

(* The other junctions and the Kafka thread leave the targets alone.        *)
LightsChange ==
    /\ \/ \E j \in Junctions, l \in Lights : AddLight(j, l)
       \/ \E j \in Junctions \ {Here} : GetLightState(j)
       \/ \E l \in Lights, s \in States : UpdateLightState(l, s)
       \/ ConsumeError
    /\ UNCHANGED tracking

ImproverNext ==
    \/ \E R \in SUBSET Targets, g \in [Targets -> T!Geometry], dtime \in Steps :
          Frame(R, g, dtime)
    \/ LightsChange

ImproverSpec == ImproverInit /\ [][ImproverNext]_allVars

(* The radars of a junction send frames for as long as it works.            *)
FairImproverSpec == ImproverSpec /\ Fairness

--------------------------------------------------------------------------------
(* A target is in one of the three maps only, and the lists of the lanes    *)
(* hold no target that the junction map does not keep alive.                *)
TrackingInv == T!TypeOK /\ T!OneMap /\ T!ListedAreAlive

(* The entries junc_count gets for a passage of the junction agree.         *)
CountsAgree == T!CountsAgree

Enters(t) == item[t].status = 0 /\ item'[t].status = 1

(* A target enters the junction by a lane without a light, or by one whose  *)
(* light permits it in the state that light has now and not in the copy the *)
(* improver looks at: the copy may be as old as the last change of a light  *)
(* of this junction.                                                        *)
EntersByCurrentLight ==
    [][\A t \in Targets : Enters(t) =>
          LET l == item'[t].by
          IN  IF l = NoLight THEN Lightless ELSE Here \in lightJuncs[l] /\ state[l] < Red]_allVars

================================================================================
