------------------------------ MODULE MCGesture ------------------------------
(* Gesture with durations of a few ticks in the order tuning.rs puts them:    *)
(* debounce, click window, hold; the horizon is the shortest that tells every *)
(* dwell the properties speak of from a longer one.                           *)
EXTENDS Gesture

MCHorizon == Debounce + Window + Hold + 1
=============================================================================
