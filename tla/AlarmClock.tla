------------------------------ MODULE AlarmClock ------------------------------
(***************************************************************************)
(* What the timers of src/mec/zsfd/utils/timer.cpp promise, without rings, *)
(* indices or a catch-up loop: an alarm rings in the tick it is set for,   *)
(* once, unless it is set anew or cancelled before, and a tick does not    *)
(* end while an alarm set for it is left.  Nothing is promised of an alarm *)
(* that is set too far ahead.  TimerWheel implements it                    *)
(* (TimerWheel!RefinesAlarmClock).                                         *)
(***************************************************************************)
EXTENDS Naturals

CONSTANTS
    Timers,       \* timer_impl objects
    Off           \* no tick, or no timer

VARIABLES
    now,          \* the tick being run
    due,          \* the tick each timer is set for, or Off
    loose,        \* timers set farther ahead than is promised anything
    ringing       \* the timer whose on_timer runs, or Off

vars == <<now, due, loose, ringing>>

Init ==
    /\ now = 0
    /\ due = [x \in Timers |-> Off]
    /\ loose = {}
    /\ ringing = Off

(* start and restart: the tick being run may still be chosen, no past one.  *)
Set(x) ==
    /\ due'[x] \in Nat /\ due'[x] >= now
    /\ due' = [due EXCEPT ![x] = due'[x]]
    /\ loose' = loose \ {x}
    /\ UNCHANGED <<now, ringing>>

SetBeyond(x) ==
    /\ due' = [due EXCEPT ![x] = Off]
    /\ loose' = loose \cup {x}
    /\ UNCHANGED <<now, ringing>>

IsSet(x) == due[x] # Off \/ x \in loose

Clear(x) ==
    /\ IsSet(x)
    /\ due' = [due EXCEPT ![x] = Off]
    /\ loose' = loose \ {x}
    /\ UNCHANGED now

(* stop.                                                                    *)
Cancel(x) ==
    /\ Clear(x)
    /\ UNCHANGED ringing

(* run_timer: the timer is cleared before on_timer is called.               *)
Ring(x) ==
    /\ ringing = Off
    /\ due[x] = now \/ x \in loose
    /\ Clear(x)
    /\ ringing' = x

Return ==
    /\ ringing # Off
    /\ ringing' = Off
    /\ UNCHANGED <<now, due, loose>>

(* run_timer_list goes on to the next tick.                                 *)
Tick ==
    /\ ringing = Off
    /\ \A x \in Timers : due[x] # now
    /\ now' = now + 1
    /\ UNCHANGED <<due, loose, ringing>>

Next ==
    \/ \E x \in Timers : Set(x) \/ SetBeyond(x) \/ Cancel(x) \/ Ring(x)
    \/ Return
    \/ Tick

Spec == Init /\ [][Next]_vars

===============================================================================
