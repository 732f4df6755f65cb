----------------------------- MODULE Measurement -----------------------------
(* The arithmetic of core/src/math.rs: what a voltage comes to.               *)
EXTENDS Integers, Sequences

\* Rust's division of integers, towards zero (for a positive divisor).
Quotient(n, d) == IF n < 0 THEN -((-n) \div d) ELSE n \div d

Clamp(n, lowest, highest) == IF n < lowest THEN lowest ELSE IF n > highest THEN highest ELSE n

\* soil_moisture_percent
SoilMoisturePercent(mv, dry_mv, wet_mv) ==
  IF dry_mv <= wet_mv THEN 0 ELSE Clamp(Quotient(100 * (dry_mv - mv), dry_mv - wet_mv), 0, 100)

-----------------------------------------------------------------------------
(* A curve is a sequence of points with a voltage and a charge.               *)

\* The first pair of neighbours whose second point is above the voltage.
IsSegment(i, mv, curve) ==
  /\ i \in 1..(Len(curve) - 1)
  /\ mv < curve[i + 1].mv
  /\ \A j \in 1..(i - 1) : mv >= curve[j + 1].mv

Segment(mv, curve) == CHOOSE i \in 1..(Len(curve) - 1) : IsSegment(i, mv, curve)

\* On the line that joins two points.
OnLine(mv, from, to) ==
  IF to.mv <= from.mv THEN from.permille
  ELSE from.permille + Quotient((to.permille - from.permille) * (mv - from.mv), to.mv - from.mv)

\* battery_permille
BatteryPermille(mv, curve) ==
  CASE curve = <<>> -> 0
    [] curve # <<>> /\ mv <= curve[1].mv -> curve[1].permille
    [] curve # <<>> /\ mv > curve[1].mv /\ mv >= curve[Len(curve)].mv -> curve[Len(curve)].permille
    [] OTHER -> LET i == Segment(mv, curve) IN OnLine(mv, curve[i], curve[i + 1])

\* The voltage rises along a curve, and the charge does not fall (tuning.rs, BATTERY_CURVE).
Rising(curve) ==
  /\ curve \in Seq([mv : Int, permille : Nat])
  /\ curve # <<>>
  /\ \A i \in 1..Len(curve), j \in 1..Len(curve) :
       i < j => curve[i].mv < curve[j].mv /\ curve[i].permille <= curve[j].permille
=============================================================================
