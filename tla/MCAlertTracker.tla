-------------------------- MODULE MCAlertTracker --------------------------
(* One alert, not in the configuration file, with units of 1 to 3 seconds  *)
(* in the place of the minute and the second: the default limits, a burst  *)
(* below the rate, a burst of none, and limits register_alert refuses.     *)
EXTENDS AlertTracker, TLC

MCDefault == [rate |-> 2, unit |-> 3, burst |-> 2, burst_unit |-> 1]
MCLimits == {MCDefault, [MCDefault EXCEPT !.burst = 1],
             [MCDefault EXCEPT !.unit = 2, !.burst = 0],
             [MCDefault EXCEPT !.burst_unit = 4]}
MCFromFile == [a \in {} |-> MCDefault]
MCSymmetry == Permutations(Raisers)

=============================================================================
