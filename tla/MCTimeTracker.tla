--------------------------- MODULE MCTimeTracker ---------------------------
(* A timer that runs once and one that recurs, with two worker slots, on     *)
(* clock readings around the boundary of the carry.                        *)
EXTENDS TimeTracker, TLC
CONSTANTS t1, t2
MCTimeslices == (t1 :> 12) @@ (t2 :> 1)
MCSlots == {0, 1}
At(s, u) == [tv_sec |-> s, tv_usec |-> u]
MCClock == <<At(1, 799999), At(1, 900000), At(3, 0), At(3, 200000)>>
=============================================================================
