---------------------------- MODULE Calibration ----------------------------
(***************************************************************************)
(* The calibration flow (core/src/calibration.rs) over the two items that  *)
(* hold it in flash (fw/src/store.rs), boot after boot.  sequential-storage*)
(* writes an item as a whole or not at all; there is nothing that makes    *)
(* two of them one.                                                        *)
(***************************************************************************)
EXTENDS Integers

CONSTANTS
  Readings,     \* what the probe can read, in millivolts
  MinSpan,      \* SOIL_CAL_MIN_SPAN_MV
  DefaultDry,   \* SOIL_CAL_DEFAULT_DRY_MV
  DefaultWet,   \* SOIL_CAL_DEFAULT_WET_MV
  Unwritten     \* an item that was never written

ASSUME CalibrationTuning ==
  /\ Readings \subseteq Int /\ Unwritten \notin Readings
  /\ MinSpan \in Nat \ {0}
  /\ DefaultDry \in Readings /\ DefaultWet \in Readings
  /\ DefaultDry - DefaultWet >= MinSpan

VARIABLES
  dryItem, wetItem, \* the items in the calib partition
  inEffect,         \* App's calibration; of no meaning while the device is off
  captured,         \* the references the flow has captured
  pc,               \* "off", "idle", "storeDry", "storeWet"
  outcome,          \* how the last flow of this boot ended: "none", "accepted", "rejected"
  \* what the properties need to know of the past
  before,           \* what was stored when the flow began
  torn,             \* the last flow that began its writes did not end them
  misread           \* this boot's load could not read what is stored, and has not been made good

vars == <<dryItem, wetItem, inEffect, captured, pc, outcome, before, torn, misread>>

Calibrations == [dry_mv: Readings, wet_mv: Readings]

\* Mutant: an item that is not there has no default.
OrNothing(item, default) == item
\* load_calibration: an item that is not there, or cannot be read, has its default.
Or(item, default) == IF item = Unwritten THEN default ELSE item
Stored == [dry_mv |-> Or(dryItem, DefaultDry), wet_mv |-> Or(wetItem, DefaultWet)]
Loads == {[dry_mv |-> Or(d, DefaultDry), wet_mv |-> Or(w, DefaultWet)] :
            d \in {dryItem, Unwritten}, w \in {wetItem, Unwritten}}

Init ==
  /\ dryItem = Unwritten /\ wetItem = Unwritten
  /\ inEffect = Stored /\ captured = Stored /\ before = Stored
  /\ pc = "off" /\ outcome = "none"
  /\ torn = FALSE /\ misread = FALSE

\* Mutant: the boot measures with the firmware's references.
BootWithDefaults ==
  /\ pc = "off"
  /\ inEffect' = [dry_mv |-> DefaultDry, wet_mv |-> DefaultWet]
  /\ pc' = "idle"
  /\ outcome' = "none"
  /\ misread' = FALSE
  /\ UNCHANGED <<dryItem, wetItem, captured, before, torn>>

\* run_wake loads the calibration before anything is measured.
Boot ==
  /\ pc = "off"
  /\ inEffect' \in Loads
  /\ pc' = "idle"
  /\ outcome' = "none"
  /\ misread' = (inEffect' # Stored)
  /\ UNCHANGED <<dryItem, wetItem, captured, before, torn>>

Reject ==
  /\ pc' = "idle"
  /\ outcome' = "rejected"
  /\ UNCHANGED inEffect

\* Mutant: any two references are a calibration.
WideEnoughAlways(c) == c.dry_mv > c.wet_mv
WideEnough(c) == c.dry_mv - c.wet_mv >= MinSpan

\* capture_and_store up to the judgement of the two references.
Capture ==
  /\ pc = "idle"
  /\ captured' \in Calibrations
  /\ before' = Stored
  /\ IF WideEnough(captured')
     THEN pc' = "storeDry" /\ outcome' = "none" /\ UNCHANGED inEffect
     ELSE Reject
  /\ UNCHANGED <<dryItem, wetItem, torn, misread>>

\* store_calibration_async: the dry reference, and if that fails nothing more.
StoreDry ==
  /\ pc = "storeDry"
  /\ \/ dryItem' = captured.dry_mv /\ pc' = "storeWet" /\ UNCHANGED <<inEffect, outcome>>
     \/ Reject /\ UNCHANGED dryItem
  /\ UNCHANGED <<wetItem, captured, before, torn, misread>>

\* Mutant: the flow does not look at the result of the second write.
StoreWetUnchecked ==
  /\ pc = "storeWet"
  /\ wetItem' \in {captured.wet_mv, wetItem}
  /\ pc' = "idle" /\ outcome' = "accepted" /\ inEffect' = captured
  /\ torn' = FALSE /\ misread' = FALSE
  /\ UNCHANGED <<dryItem, captured, before>>

\* ... and the wet reference. App keeps the new references if both are stored.
StoreWet ==
  /\ pc = "storeWet"
  /\ \/ /\ wetItem' = captured.wet_mv
        /\ pc' = "idle" /\ outcome' = "accepted" /\ inEffect' = captured
        /\ torn' = FALSE /\ misread' = FALSE
     \/ /\ Reject
        /\ torn' = TRUE
        /\ UNCHANGED <<wetItem, misread>>
  /\ UNCHANGED <<dryItem, captured, before>>

\* The boot is over: a sleep, a reset, or the cell is out.
PowerOff ==
  /\ pc # "off"
  /\ pc' = "off"
  /\ torn' = (torn \/ pc = "storeWet")
  /\ UNCHANGED <<dryItem, wetItem, inEffect, captured, outcome, before, misread>>

Next == Boot \/ Capture \/ StoreDry \/ StoreWet \/ PowerOff

Spec == Init /\ [][Next]_vars

-----------------------------------------------------------------------------
TypeOK ==
  /\ dryItem \in Readings \cup {Unwritten} /\ wetItem \in Readings \cup {Unwritten}
  /\ inEffect \in Calibrations /\ captured \in Calibrations /\ before \in Calibrations
  /\ pc \in {"off", "idle", "storeDry", "storeWet"}
  /\ outcome \in {"none", "accepted", "rejected"}
  /\ torn \in BOOLEAN /\ misread \in BOOLEAN

(* A calibration that was accepted is what this boot measures with and what   *)
(* the next one will load, whatever fails (calibration.rs, Accepted).         *)
AcceptedIsStored ==
  outcome = "accepted" => inEffect = captured /\ Stored = captured

(* ports.rs: "`false` when the values could not be stored, in which case the  *)
(* previous calibration stays in effect" - in the next boot as well.          *)
RejectedKeepsPrevious ==
  outcome = "rejected" => Stored = before

\* Nothing has gone wrong since the last accepted calibration that the two items of
\* flash cannot cope with.
Whole == ~torn /\ ~misread

(* No boot measures with references too close to tell wet from dry (tuning.rs,*)
(* SOIL_CAL_MIN_SPAN_MV), until a pair of writes is torn or a read fails; an  *)
(* accepted calibration, or a boot that can read, makes it true again.        *)
ReferencesApart == Whole => inEffect.dry_mv - inEffect.wet_mv >= MinSpan

-----------------------------------------------------------------------------
(* Until a fault hits between the two writes, or a read fails, two items are  *)
(* as good as one: every step that leaves them whole, the one that makes them *)
(* whole again included, is a step of the register that ports.rs promises.    *)
(* Until the second write the first does not count.                           *)
Register == INSTANCE CalibrationRegister WITH
  stored <- IF pc = "storeWet" THEN before ELSE Stored,
  inEffect <- inEffect

ImplementsRegister == Register!Init /\ [][Whole' => Register!Next]_(Register!vars)
=============================================================================
