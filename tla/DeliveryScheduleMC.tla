---------------------------- MODULE DeliveryScheduleMC ----------------------------
(* Instances of DeliverySchedule for TLC: a Thursday and a Friday, days of four hours. *)
EXTENDS DeliverySchedule, TLC

CONSTANTS a1, a2, a3
MCAlerts == {a1, a2, a3}
MCSymmetry == Permutations(MCAlerts)

\* No quiet hours, some within a day, over midnight, and a day long.
MCQuiet == {<<None, 0>>, <<1, 2>>, <<3, 1>>, <<2, 2>>}
MCUsers ==
  {[start |-> q[1], end |-> q[2], weekend |-> w, preferred |-> p, cap |-> c] :
     q \in MCQuiet, w \in BOOLEAN, p \in {0, 2}, c \in {1, 2}}
\* One alert a day, in a week whose weekend is paused.
MCWeekendUsers == {[start |-> None, end |-> 0, weekend |-> TRUE, preferred |-> 0, cap |-> 1]}
=============================================================================
