----------------------------- MODULE MCClusters -----------------------------
(* Clusters with the deadbands, the references and the curve of tuning.rs, a  *)
(* probe that moves by one percent, and voltages of an empty holder and of a  *)
(* cell on both sides of a charge level and of the deadband.                  *)
EXTENDS Clusters, Measurement

\* BATTERY_CURVE
MCCurve ==
  <<[mv |-> 1100, permille |-> 0], [mv |-> 1150, permille |-> 30], [mv |-> 1200, permille |-> 100],
    [mv |-> 1250, permille |-> 400], [mv |-> 1300, permille |-> 800], [mv |-> 1350, permille |-> 1000]>>

\* SOIL_DRY_MV and SOIL_WET_MV
MCPercents == {SoilMoisturePercent(mv, 1600, 900) : mv \in {1600, 1593, 1586}}

MCVoltages == {790, 1150, 1169, 1170}
MCCharge == [mv \in MCVoltages |-> BatteryPermille(mv, MCCurve) \div 10]
=============================================================================
