------------------------------ MODULE LightState ------------------------------
(***************************************************************************)
(* Traffic lights in the snapshot service: kafka-consumer.cpp keeps the    *)
(* state of every light some junction uses (vss_light_mgr), and each       *)
(* junction's fusion_improver copies the states it needs before it works   *)
(* on a frame.  The Kafka thread writes, the service thread adds lights    *)
(* and reads; every operation holds _light_mut from its first table access *)
(* to its last, so each is one step.  A junction is read only if one of    *)
(* its lights has changed since it was last read.  remove_light has no     *)
(* caller.                                                                 *)
(***************************************************************************)
EXTENDS Naturals

CONSTANTS
    Junctions,    \* junction ids
    Lights,       \* light ids, all of them not negative
    States,       \* values of lightState
    FirstState,   \* the state of a light nobody has reported yet: 1
    Unknown       \* a light that _light_info has no entry for

ASSUME LightAssumption ==
    /\ FirstState \in States
    /\ Unknown \notin States

VARIABLES
    consuming,    \* consumer_run, and the consumer exists
    lights,       \* the keys of _lights
    state,        \* light_info::state
    lightJuncs,   \* _light_juncs: the junctions that use a light
    update,       \* junc_lights::update of each key of _junc_lights
    junctions,    \* the keys of _junc_lights
    view          \* fusion_improver::_light_info of each junction

tables == <<lights, state, lightJuncs, update, junctions>>
vars == <<consuming, tables, view>>

Init ==
    /\ consuming \in BOOLEAN
    /\ lights = {}
    /\ state = [l \in Lights |-> FirstState]
    /\ lightJuncs = [l \in Lights |-> {}]
    /\ update = [j \in Junctions |-> FALSE]
    /\ junctions = {}
    /\ view = [j \in Junctions |-> [l \in Lights |-> Unknown]]

--------------------------------------------------------------------------------
(* Plausible bugs of the light tables, for mutation runs only.              *)
FlagsAfterFirst(l) ==
    [j \in Junctions |-> IF j \in lightJuncs[l] THEN update[j] \/ view[j][l] = Unknown
                                                ELSE update[j]]

FlagsAfterAddNewOnly(j, l) ==
    [update EXCEPT ![j] = IF l \in lights THEN @ ELSE TRUE]

--------------------------------------------------------------------------------
(* add_light, for each light of the junction when it sends its first        *)
(* package: a light that another junction uses already keeps its state.     *)
FlagsAfterAdd(j, l) == [update EXCEPT ![j] = TRUE]

StateAfterAdd(l) == IF l \in lights THEN state[l] ELSE FirstState

AddLight(j, l) ==
    /\ junctions' = junctions \cup {j}
    /\ lights' = lights \cup {l}
    /\ state' = [state EXCEPT ![l] = StateAfterAdd(l)]
    /\ lightJuncs' = [lightJuncs EXCEPT ![l] = @ \cup {j}]
    /\ update' = FlagsAfterAdd(j, l)
    /\ UNCHANGED <<consuming, view>>

(* get_light_state, called by reset_status at the start of every frame of   *)
(* the junction: without a change it returns early.                         *)
GetLightState(j) ==
    /\ j \in junctions
    /\ update[j]
    /\ view' = [view EXCEPT ![j] = [l \in Lights |->
                    IF j \in lightJuncs[l] THEN state[l] ELSE @[l]]]
    /\ update' = [update EXCEPT ![j] = FALSE]
    /\ UNCHANGED <<consuming, lights, state, lightJuncs, junctions>>

(* update_light_state: a message for a light no junction uses is refused,   *)
(* one that changes nothing raises no flag.                                 *)
FlagsAfterUpdate(l) ==
    [j \in Junctions |-> update[j] \/ j \in lightJuncs[l]]

UpdateLightState(l, s) ==
    /\ consuming
    /\ l \in lights
    /\ state[l] # s
    /\ state' = [state EXCEPT ![l] = s]
    /\ update' = FlagsAfterUpdate(l)
    /\ UNCHANGED <<consuming, lights, lightJuncs, junctions, view>>

(* msg_consume: an error other than a timeout or the end of a partition     *)
(* ends the consumer for good.                                              *)
ConsumeError ==
    /\ consuming
    /\ consuming' = FALSE
    /\ UNCHANGED <<tables, view>>

Next ==
    \/ \E j \in Junctions, l \in Lights : AddLight(j, l)
    \/ \E j \in Junctions : GetLightState(j)
    \/ \E l \in Lights, s \in States : UpdateLightState(l, s)
    \/ ConsumeError

Spec == Init /\ [][Next]_vars

(* The radars of a junction send frames for as long as it works.            *)
Fairness == \A j \in Junctions : WF_vars(GetLightState(j))

FairSpec == Spec /\ Fairness

--------------------------------------------------------------------------------
(* The values the tables and the copies take.                               *)
TypeOK ==
    /\ consuming \in BOOLEAN
    /\ lights \in SUBSET Lights
    /\ state \in [Lights -> States]
    /\ lightJuncs \in [Lights -> SUBSET Junctions]
    /\ update \in [Junctions -> BOOLEAN]
    /\ junctions \in SUBSET Junctions
    /\ view \in [Junctions -> [Lights -> States \cup {Unknown}]]

(* The flag is reliable: a junction that would return early in              *)
(* get_light_state has the current state of every light it uses, whatever   *)
(* the two threads did between its reads and whoever shares the light.      *)
CopyIsCurrent ==
    \A j \in Junctions, l \in Lights :
        j \in lightJuncs[l] /\ ~ update[j] => view[j][l] = state[l]

(* The two tables agree: a light that is used is known, and so is every     *)
(* junction that uses one.                                                  *)
TablesAgree ==
    \A l \in Lights : lightJuncs[l] # {} => l \in lights /\ lightJuncs[l] \subseteq junctions

(* A junction that joins later takes over the state of a light, and never   *)
(* sets it back.                                                            *)
AddKeepsState ==
    [][lightJuncs' # lightJuncs => \A l \in lights : state'[l] = state[l]]_vars

(* A change of a light reaches every junction that uses it, unless the      *)
(* light changes again first.                                               *)
ChangeIsSeen ==
    \A j \in Junctions, l \in Lights, s \in States :
        (j \in lightJuncs[l] /\ state[l] = s) ~> (view[j][l] = s \/ state[l] # s)

================================================================================
