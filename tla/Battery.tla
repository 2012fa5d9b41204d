------------------------------- MODULE Battery -------------------------------
(* The battery's voltage as the device reads it (components/power/battery.c). *)
EXTENDS Integers, Sequences

\* s_curve
Curve == <<[mv |-> 4200, pct |-> 100], [mv |-> 3850, pct |-> 75], [mv |-> 3700, pct |-> 50],
           [mv |-> 3550, pct |-> 25], [mv |-> 3400, pct |-> 10], [mv |-> 3300, pct |-> 5],
           [mv |-> 3000, pct |-> 0]>>

\* The segment of the curve that a voltage within it lies on.
Segment(mv) == CHOOSE i \in 1 .. Len(Curve) - 1 : Curve[i+1].mv <= mv /\ mv < Curve[i].mv

Line(i, mv) ==
  Curve[i+1].pct + ((Curve[i].pct - Curve[i+1].pct) * (mv - Curve[i+1].mv))
                   \div (Curve[i].mv - Curve[i+1].mv)

\* battery_mv_to_percent
MvToPercent(mv) ==
  IF mv >= Curve[1].mv THEN 100
  ELSE IF mv <= Curve[Len(Curve)].mv THEN 0
  ELSE Line(Segment(mv), mv)

\* battery_read takes a voltage outside this range for a fault of the measurement.
Plausible(mv) == 2800 <= mv /\ mv <= 4300

\* battery_read, of the voltage that the samples give.
Reading(mv) == [valid |-> Plausible(mv), percent |-> MvToPercent(mv)]
=============================================================================
