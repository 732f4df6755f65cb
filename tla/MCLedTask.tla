------------------------------ MODULE MCLedTask ------------------------------
(* LedTask with the durations of tuning.rs and leds.rs, in tenths of a        *)
(* second.                                                                    *)
EXTENDS LedTask
=============================================================================
