------------------------------ MODULE TimerWheel ------------------------------
(***************************************************************************)
(* The hierarchical timer wheel of src/mec/zsfd/utils/timer.cpp, which     *)
(* drives every retry, refresh and heartbeat of the services.  Five rings  *)
(* of slots: the first has one slot per tick, a slot of ring k + 1 covers  *)
(* a whole turn of ring k, and its timers are moved down when that turn    *)
(* begins.  The source's sizes, 256 slots in the first ring and 64 in each *)
(* of the others, are parameters here.                                     *)
(*                                                                         *)
(* Everything runs on the thread of the event loop: handlers between two   *)
(* calls of periodic_runner, and on_timer callbacks in the middle of one,  *)
(* start, stop and restart timers.  The order of timers within one slot is *)
(* left open.                                                              *)
(***************************************************************************)
EXTENDS Integers

CONSTANTS
    Timers,       \* timer_impl objects
    Root,         \* slots of the first ring: 256
    Node,         \* slots of each of the other rings: 64
    Half,         \* the weight of the sign bit of int: 2^31
    Intervals,    \* the intervals in ticks each timer may be given
    MaxStart,     \* bound: the last tick in which each timer is started
    MaxJiffies,   \* bound: ticks explored
    MaxBehind,    \* bound: ticks the event loop may fall behind the clock
    Off           \* a timer that is in no list, or no timer

Rings == 1..5

ASSUME WheelAssumption ==
    /\ Root \in Nat \ {0} /\ Node \in Nat \ {0, 1} /\ Half \in Nat
    /\ Root * Node * Node * Node < Half
    /\ Half <= Root * Node * Node * Node * Node
    /\ Intervals \in [Timers -> SUBSET (Nat \ {0})]
    /\ MaxStart \in [Timers -> Nat]
    /\ MaxJiffies \in Nat /\ MaxBehind \in Nat
    /\ Off \notin Timers /\ Off \notin Nat /\ Off \notin Rings \X Nat

VARIABLES
    jiffies,        \* ticks that have begun
    timer_jiffies,  \* the next tick run_timer_list will run
    index,          \* index of each ring
    slot,           \* the list each timer is in: <<ring, position>> or Off
    expire,         \* timer_impl::expire
    interval,       \* timer_impl::interval, as of the last start
    active,         \* active_timer_count # 0: the timerfd has been started
    primed,         \* periodic_runner has run: prev # 0
    behind,         \* whole ticks of the clock periodic_runner has not seen
    todo,           \* stepruns left in the loop of periodic_runner
    pc,             \* where periodic_runner is, "idle" outside it
    firing          \* the timer whose on_timer runs

wheel == <<index, slot, expire, interval>>
clock == <<active, primed, behind, todo>>
wheelVars == <<jiffies, timer_jiffies, wheel, clock, pc, firing>>

(* A ring's slots, and the ticks one slot of it covers.                     *)
Size(k) == IF k = 1 THEN Root ELSE Node
Span(k) == <<1, Root, Root * Node, Root * Node * Node, Root * Node * Node * Node>>[k]

WheelInit ==
    /\ jiffies = 0
    /\ timer_jiffies = 0
    /\ index = [k \in Rings |-> 0]
    /\ slot = [x \in Timers |-> Off]
    /\ expire = [x \in Timers |-> 0]
    /\ interval = [x \in Timers |-> 0]
    /\ active = FALSE
    /\ primed = FALSE
    /\ behind = 0
    /\ todo = 0
    /\ pc = "idle"
    /\ firing = Off

--------------------------------------------------------------------------------
(* A plausible bug: one ring up a tick too late.                            *)
RingForOffByOne(t) == CHOOSE k \in Rings :
                 /\ k = 5 \/ t <= Span(k + 1)
                 /\ \A j \in 1..(k - 1) : t > Span(j + 1)

(* get_timer_list.  (int)t is negative for a timer in the past and for one  *)
(* so far ahead that the sign bit of t is set: both go off at once.         *)
Negative(t) == t < 0 \/ (t \div Half) % 2 = 1

RingFor(t) == CHOOSE k \in Rings :
                 /\ k = 5 \/ t < Span(k + 1)
                 /\ \A j \in 1..(k - 1) : t >= Span(j + 1)

TimerList(e) ==
    LET t == e - timer_jiffies
        k == RingFor(t)
    IN  IF Negative(t)
        THEN <<1, index[1]>>
        ELSE <<k, (e \div Span(k)) % Size(k)>>

(* A timer in no list: start sets the other fields before they are read.    *)
Unlink(x) ==
    /\ slot' = [slot EXCEPT ![x] = Off]
    /\ expire' = [expire EXCEPT ![x] = 0]
    /\ interval' = [interval EXCEPT ![x] = 0]

--------------------------------------------------------------------------------
(* The operations of timer_impl, by a handler or by a callback.             *)
UserCode == pc \in {"idle", "callback"}

Link(x, n) ==
    /\ jiffies <= MaxStart[x]
    /\ expire' = [expire EXCEPT ![x] = jiffies + n]
    /\ interval' = [interval EXCEPT ![x] = n]
    /\ slot' = [slot EXCEPT ![x] = TimerList(jiffies + n)]
    /\ active' = TRUE
    /\ UNCHANGED <<jiffies, timer_jiffies, index, primed, behind, todo, pc, firing>>

(* start: a timer that is already in a list is left where it is.            *)
Start(x, n) ==
    /\ UserCode
    /\ slot[x] = Off
    /\ Link(x, n)

(* stop, also the first half of setinterval.                                *)
Stop(x) ==
    /\ UserCode
    /\ slot[x] # Off
    /\ Unlink(x)
    /\ UNCHANGED <<jiffies, timer_jiffies, index, clock, pc, firing>>

(* restart of a running timer: stop, then start.                            *)
Restart(x, n) ==
    /\ UserCode
    /\ slot[x] # Off
    /\ Link(x, n)

--------------------------------------------------------------------------------
(* The clock advances while handlers or callbacks run.  The first start     *)
(* starts the timerfd; nothing stops it, since longstop is never set.       *)
Elapse ==
    /\ UserCode
    /\ active
    /\ behind < MaxBehind
    /\ jiffies + todo + behind < MaxJiffies
    /\ behind' = behind + 1
    /\ UNCHANGED <<jiffies, timer_jiffies, wheel, active, primed, todo, pc, firing>>

(* periodic_runner: the first call makes one step whatever the clock says,  *)
(* a later one as many as the clock has advanced since the last.            *)
PeriodicRunner ==
    /\ pc = "idle"
    /\ behind > 0
    /\ todo' = IF primed THEN behind ELSE 1
    /\ primed' = TRUE
    /\ behind' = 0
    /\ pc' = "step"
    /\ UNCHANGED <<jiffies, timer_jiffies, index, slot, expire, interval, active, firing>>

StepRun ==
    /\ pc = "step"
    /\ \/ /\ todo > 0
          /\ todo' = todo - 1
          /\ jiffies' = jiffies + 1
          /\ pc' = "list"
       \/ /\ todo = 0
          /\ pc' = "idle"
          /\ UNCHANGED <<todo, jiffies>>
    /\ UNCHANGED <<timer_jiffies, wheel, active, primed, behind, firing>>

(* A plausible bug: only the second ring is moved.                          *)
MovedOnlySecond == {2}

(* The rings run_timer_list moves down when the first one is at its start:  *)
(* the second, and each further one while the one before has just wrapped.  *)
Moved == {k \in 2..5 : \A j \in 2..(k - 1) : index[j] = 0}

MoveTimers ==
    /\ slot' = [x \in Timers |->
                  IF \E k \in Moved : slot[x] = <<k, index[k]>>
                  THEN TimerList(expire[x])
                  ELSE slot[x]]
    /\ index' = [k \in Rings |->
                  IF k \in Moved THEN (index[k] + 1) % Size(k) ELSE index[k]]

(* The head of the while loop of run_timer_list.                            *)
RunTimerList ==
    /\ pc = "list"
    /\ \/ /\ jiffies >= timer_jiffies
          /\ IF index[1] = 0 THEN MoveTimers ELSE UNCHANGED <<index, slot>>
          /\ pc' = "run"
       \/ /\ jiffies < timer_jiffies
          /\ pc' = "step"
          /\ UNCHANGED <<index, slot>>
    /\ UNCHANGED <<jiffies, timer_jiffies, expire, interval, clock, firing>>

(* run_timer: a timer of the current slot is unlinked, then called.         *)
RunTimer(x) ==
    /\ pc = "run"
    /\ slot[x] = <<1, index[1]>>
    /\ Unlink(x)
    /\ firing' = x
    /\ pc' = "callback"
    /\ UNCHANGED <<jiffies, timer_jiffies, index, clock>>

OnTimerReturns ==
    /\ pc = "callback"
    /\ firing' = Off
    /\ pc' = "run"
    /\ UNCHANGED <<jiffies, timer_jiffies, wheel, clock>>

(* The slot is empty: the next tick.                                        *)
Advance ==
    /\ pc = "run"
    /\ \A x \in Timers : slot[x] # <<1, index[1]>>
    /\ index' = [index EXCEPT ![1] = (index[1] + 1) % Size(1)]
    /\ timer_jiffies' = timer_jiffies + 1
    /\ pc' = "list"
    /\ UNCHANGED <<jiffies, slot, expire, interval, clock, firing>>

WheelNext ==
    \/ \E x \in Timers : \E n \in Intervals[x] : Start(x, n) \/ Restart(x, n)
    \/ \E x \in Timers : Stop(x) \/ RunTimer(x)
    \/ Elapse
    \/ PeriodicRunner
    \/ StepRun
    \/ RunTimerList
    \/ OnTimerReturns
    \/ Advance

WheelSpec == WheelInit /\ [][WheelNext]_wheelVars

--------------------------------------------------------------------------------
(* Every ring index and every occupied slot lies within its ring, and the   *)
(* counters stay within the bounds explored.                                *)
WheelTypeOK ==
    /\ jiffies \in 0..MaxJiffies
    /\ timer_jiffies \in 0..(MaxJiffies + 1)
    /\ index \in [Rings -> Nat] /\ \A k \in Rings : index[k] < Size(k)
    /\ slot \in [Timers -> {Off} \cup (Rings \X Nat)]
    /\ \A x \in Timers : slot[x] # Off => slot[x][2] < Size(slot[x][1])
    /\ expire \in [Timers -> Nat]
    /\ interval \in [Timers -> Nat]
    /\ active \in BOOLEAN /\ primed \in BOOLEAN
    /\ behind \in 0..MaxBehind
    /\ todo \in Nat
    /\ pc \in {"idle", "step", "list", "run", "callback"}
    /\ firing \in Timers \cup {Off}

(* Intervals get_timer_list tells apart from a time in the past, also in    *)
(* the first steprun, where tick 0 is run after jiffies has become 1.       *)
Fits(x) == interval[x] + 1 < Half

(* run_timer calls a timer in exactly the tick start computed for it,       *)
(* however many rings it has come down through, and whoever started it      *)
(* from where: a handler, another timer's callback or its own.              *)
Fires(x) == firing = Off /\ firing' = x

OnTime ==
    [][\A x \in Timers : Fires(x) /\ Fits(x) => expire[x] = timer_jiffies]_wheelVars

(* No timer is left behind in a slot whose tick has passed, so each one     *)
(* that is not stopped goes off.                                            *)
NeverOverdue ==
    \A x \in Timers : slot[x] # Off /\ Fits(x) => expire[x] >= timer_jiffies

(* The last tick a ring has been moved down for, in the first ring: run,    *)
(* and the slot of that tick, counted from tick 0 on.                       *)
Reached(k) ==
    IF k # 1 /\ pc \in {"run", "callback"} THEN timer_jiffies ELSE timer_jiffies - 1

Turn(k) == Reached(k) \div Span(k)

(* The ring positions are those of the tick about to run: ring k + 1 is     *)
(* moved down exactly at the start of each turn of ring k.                  *)
IndexTracksTime == \A k \in Rings : index[k] = (Turn(k) + 1) % Size(k)

(* The wheel is never out of step with its clock and never behind with a    *)
(* timer, whatever handlers and callbacks did to it on the way.             *)
WheelInv == WheelTypeOK /\ IndexTracksTime /\ NeverOverdue

(* What the wheel promises, with its slots reduced to the ticks they are    *)
(* for.                                                                     *)
Due == [x \in Timers |-> IF slot[x] # Off /\ Fits(x) THEN expire[x] ELSE Off]
Loose == {x \in Timers : slot[x] # Off /\ ~ Fits(x)}

Alarms == INSTANCE AlarmClock WITH
        now <- timer_jiffies, due <- Due, loose <- Loose, ringing <- firing

(* The wheel, with its five rings, their indices, the moves between them    *)
(* and the catch-up loop of periodic_runner, implements AlarmClock: no      *)
(* timer is lost or set back when a ring is moved down, each one rings in   *)
(* its tick, and run_timer_list leaves no tick with a timer of it unrung.   *)
RefinesAlarmClock == Alarms!Spec

================================================================================
