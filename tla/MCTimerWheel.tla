----------------------------- MODULE MCTimerWheel -----------------------------
(* An instance of TimerWheel for TLC: one timer with intervals on both      *)
(* sides of every ring boundary, started in every phase of more than two    *)
(* turns of the wheel, and one that joins it in the first turns.            *)
EXTENDS TimerWheel, TLC

CONSTANTS a, b

TwoIntervals == (a :> {1, 2, 3, 4, 5, 8, 9, 16, 17, 31, 32, 33, 62, 64}) @@ (b :> {1, 4, 9, 17})
TwoMaxStart == (a :> MaxJiffies) @@ (b :> 14)

===============================================================================
