------------------------ MODULE CalibrationRegister ------------------------
(***************************************************************************)
(* What core/src/ports.rs promises of the stored calibration: one value    *)
(* made of two references, which is replaced as a whole or not at all,     *)
(* which a boot starts with, and which a rejected calibration leaves in    *)
(* effect.                                                                 *)
(***************************************************************************)
EXTENDS Integers

CONSTANTS
  Readings,  \* what the probe can read, in millivolts
  MinSpan    \* SOIL_CAL_MIN_SPAN_MV

VARIABLES
  stored,    \* the calibration in flash
  inEffect   \* the one this boot measures with

vars == <<stored, inEffect>>

Calibrations == [dry_mv: Readings, wet_mv: Readings]

Sound(c) == c.dry_mv - c.wet_mv >= MinSpan

Init ==
  /\ stored \in {c \in Calibrations : Sound(c)}
  /\ inEffect = stored

\* The flow ends with a calibration that is accepted. One that is rejected is no step.
Accept ==
  \E c \in Calibrations :
    /\ Sound(c)
    /\ stored' = c
    /\ inEffect' = c

\* A boot loads what is stored.
Load ==
  /\ inEffect' = stored
  /\ UNCHANGED stored

Next == Accept \/ Load

Spec == Init /\ [][Next]_vars
=============================================================================
