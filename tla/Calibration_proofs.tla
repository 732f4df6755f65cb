------------------------- MODULE Calibration_proofs -------------------------
(***************************************************************************)
(* Calibration for every set of readings.  Whatever fails, an accepted     *)
(* calibration is the stored one; and every step that leaves the two items *)
(* whole is a step of the register of core/src/ports.rs.  The refinement   *)
(* needs to know that the dry item already holds the new reference while   *)
(* the wet one is written, and what a boot finds as long as no pair of     *)
(* writes is torn.                                                         *)
(***************************************************************************)
EXTENDS Calibration, TLAPS

(* The references the store falls back to are a calibration. *)
LEMMA StoredType == TypeOK => Stored \in Calibrations
BY CalibrationTuning DEF TypeOK, Stored, Or, Calibrations

(* Whatever cannot be read, a load gives a calibration. *)
LEMMA LoadsType == TypeOK => Loads \subseteq Calibrations
BY CalibrationTuning DEF TypeOK, Loads, Or, Calibrations

(* An item that was written reads as itself. *)
LEMMA OrWritten == ASSUME NEW r \in Readings, NEW d PROVE Or(r, d) = r
BY CalibrationTuning DEF Or

(* The first boot starts with the defaults. *)
LEMMA InitType == Init => TypeOK
<1> SUFFICES ASSUME Init PROVE TypeOK
  OBVIOUS
<1>1. Stored \in Calibrations
  BY CalibrationTuning DEF Init, Stored, Or, Calibrations
<1> QED
  BY <1>1 DEF Init, TypeOK

(* Every step keeps the types. *)
LEMMA NextType == TypeOK /\ [Next]_vars => TypeOK'
<1> SUFFICES ASSUME TypeOK, [Next]_vars PROVE TypeOK'
  OBVIOUS
<1>1. CASE Boot
  BY <1>1, LoadsType DEF Boot, TypeOK
<1>2. CASE Capture
  BY <1>2, StoredType DEF Capture, Reject, TypeOK
<1>3. CASE StoreDry
  BY <1>3 DEF StoreDry, Reject, TypeOK, Calibrations
<1>4. CASE StoreWet
  BY <1>4 DEF StoreWet, Reject, TypeOK, Calibrations
<1>5. CASE PowerOff
  BY <1>5 DEF PowerOff, TypeOK
<1>6. CASE UNCHANGED vars
  BY <1>6 DEF vars, TypeOK
<1> QED
  BY <1>1, <1>2, <1>3, <1>4, <1>5, <1>6 DEF Next

(* What the store knows between its writes, and after an accepted flow. *)
StoreInv ==
  /\ pc = "storeWet" => dryItem = captured.dry_mv
  /\ pc \in {"storeDry", "storeWet"} => WideEnough(captured) /\ outcome = "none"
  /\ AcceptedIsStored

(* Every step keeps what the store knows. *)
LEMMA NextStoreInv == TypeOK /\ StoreInv /\ [Next]_vars => StoreInv'
<1> SUFFICES ASSUME TypeOK, StoreInv, [Next]_vars PROVE StoreInv'
  OBVIOUS
<1>1. CASE Boot
  BY <1>1 DEF Boot, StoreInv, AcceptedIsStored, WideEnough
<1>2. CASE Capture
  <2>1. outcome' # "accepted" /\ pc' # "storeWet" /\ (pc' = "storeDry" => WideEnough(captured') /\ outcome' = "none")
    BY <1>2 DEF Capture, Reject
  <2>2. WideEnough(captured)' = WideEnough(captured')
    BY DEF WideEnough
  <2> QED
    BY <1>2, <2>1, <2>2 DEF Capture, Reject, StoreInv, AcceptedIsStored
<1>3. CASE StoreDry
  BY <1>3 DEF StoreDry, Reject, StoreInv, AcceptedIsStored, WideEnough
<1>4. CASE StoreWet
  <2>1. CASE outcome' = "accepted"
    <3>1. wetItem' = captured.wet_mv /\ dryItem' = captured.dry_mv /\ captured' = captured
      BY <1>4, <2>1 DEF StoreWet, Reject, StoreInv
    <3>2. captured.wet_mv \in Readings /\ captured.dry_mv \in Readings
      BY DEF TypeOK, Calibrations
    <3>3. Stored' = [dry_mv |-> captured.dry_mv, wet_mv |-> captured.wet_mv]
      BY <3>1, <3>2, OrWritten DEF Stored
    <3>4. Stored' = captured'
      BY <3>1, <3>3 DEF TypeOK, Calibrations
    <3>5. inEffect' = captured' /\ pc' = "idle"
      BY <1>4, <2>1, <3>1 DEF StoreWet, Reject
    <3> QED
      BY <2>1, <3>4, <3>5 DEF StoreInv, AcceptedIsStored
  <2>2. CASE outcome' # "accepted"
    BY <1>4, <2>2 DEF StoreWet, Reject, StoreInv, AcceptedIsStored
  <2> QED
    BY <2>1, <2>2
<1>5. CASE PowerOff
  BY <1>5 DEF PowerOff, StoreInv, AcceptedIsStored, Stored
<1>6. CASE UNCHANGED vars
  BY <1>6 DEF vars, StoreInv, AcceptedIsStored, Stored, WideEnough
<1> QED
  BY <1>1, <1>2, <1>3, <1>4, <1>5, <1>6 DEF Next

(* Types and the store's knowledge, in every state. *)
LEMMA StoreInvariance == Spec => [](TypeOK /\ StoreInv)
<1>1. Init => TypeOK /\ StoreInv
  BY InitType DEF Init, StoreInv, AcceptedIsStored
<1>2. TypeOK /\ StoreInv /\ [Next]_vars => (TypeOK /\ StoreInv)'
  BY NextType, NextStoreInv
<1> QED
  BY <1>1, <1>2, PTL DEF Spec

(* Type correctness: a boot always measures with two readings, whatever is    *)
(* missing or unreadable in flash.                                            *)
THEOREM CalibrationTypes == Spec => []TypeOK
BY StoreInvariance, PTL

(* A calibration the flow accepts is stored and in effect, whatever fails.    *)
THEOREM AcceptedTheorem == Spec => []AcceptedIsStored
<1>1. StoreInv => AcceptedIsStored
  BY DEF StoreInv
<1> QED
  BY <1>1, StoreInvariance, PTL

-----------------------------------------------------------------------------
(* The refinement's invariant: outside the second write a whole boot measures *)
(* with what is stored, and what was stored when the flow began is in effect  *)
(* during it; references in use, or to be loaded, are far enough apart.       *)
RefInv ==
  /\ Whole /\ pc \in {"idle", "storeDry"} => inEffect = Stored
  /\ Whole /\ pc \in {"storeDry", "storeWet"} => before = inEffect
  /\ ReferencesApart
  /\ ~torn /\ pc # "storeWet" => Stored.dry_mv - Stored.wet_mv >= MinSpan

(* What the register holds. *)
Held == IF pc = "storeWet" THEN before ELSE Stored

All == TypeOK /\ StoreInv /\ RefInv

(* The second write makes the captured references the stored ones, or tears   *)
(* the pair.                                                                  *)
LEMMA SecondWrite ==
  ASSUME TypeOK, StoreInv, StoreWet, ~torn'
  PROVE  /\ Stored' = captured /\ inEffect' = captured /\ pc' = "idle"
         /\ captured.dry_mv - captured.wet_mv >= MinSpan
<1>1. pc = "storeWet" /\ wetItem' = captured.wet_mv /\ dryItem' = dryItem
  BY DEF StoreWet
<1>2. inEffect' = captured /\ pc' = "idle"
  BY DEF StoreWet
<1>3. dryItem' = captured.dry_mv /\ WideEnough(captured)
  BY <1>1 DEF StoreInv
<1>4. captured \in Calibrations
  BY DEF TypeOK
<1>5. Stored' = [dry_mv |-> captured.dry_mv, wet_mv |-> captured.wet_mv]
  BY <1>1, <1>3, <1>4, OrWritten DEF Stored, Calibrations
<1> QED
  BY <1>2, <1>3, <1>4, <1>5 DEF WideEnough, Calibrations

(* A step that leaves the items alone leaves what is stored. *)
LEMMA StoredUnchanged == UNCHANGED <<dryItem, wetItem>> => Stored' = Stored
BY DEF Stored

(* The defaults are far enough apart. *)
LEMMA InitRef == Init => RefInv
<1> SUFFICES ASSUME Init PROVE RefInv
  OBVIOUS
<1>1. Stored = [dry_mv |-> DefaultDry, wet_mv |-> DefaultWet]
  BY DEF Init, Stored, Or
<1> QED
  BY <1>1, CalibrationTuning DEF Init, RefInv, ReferencesApart

(* Every step keeps the invariant, and one that ends whole is a step or a     *)
(* stutter of the register.                                                   *)
LEMMA NextRef ==
  ASSUME All, [Next]_vars
  PROVE  RefInv' /\ ((Whole' => Register!Next) \/ (Held' = Held /\ inEffect' = inEffect))
<1>0. TypeOK /\ StoreInv /\ RefInv
  BY DEF All
<1>1. CASE Boot
  <2>1. pc = "off" /\ pc' = "idle" /\ torn' = torn /\ misread' = (inEffect' # Stored)
    BY <1>1 DEF Boot
  <2>2. Stored' = Stored
    BY <1>1, StoredUnchanged DEF Boot
  <2>3. Whole' => inEffect' = Stored /\ ~torn
    BY <2>1 DEF Whole
  <2>4. RefInv'
    BY <1>0, <2>1, <2>2, <2>3 DEF RefInv, ReferencesApart
  <2>5. Whole' => Register!Load
    BY <2>1, <2>2, <2>3 DEF Register!Load
  <2> QED
    BY <2>4, <2>5 DEF Register!Next
<1>2. CASE Capture
  <2>1. pc = "idle" /\ pc' \in {"idle", "storeDry"} /\ inEffect' = inEffect /\ before' = Stored
    BY <1>2 DEF Capture, Reject
  <2>2. Stored' = Stored /\ Whole' = Whole /\ torn' = torn
    BY <1>2, StoredUnchanged DEF Capture, Whole
  <2> QED
    BY <1>0, <2>1, <2>2 DEF RefInv, ReferencesApart, Held
<1>3. CASE StoreDry
  <2>1. pc = "storeDry" /\ inEffect' = inEffect /\ before' = before /\ pc' \in {"storeWet", "idle"}
    BY <1>3 DEF StoreDry, Reject
  <2>2. Whole' = Whole /\ torn' = torn
    BY <1>3 DEF StoreDry, Whole
  <2>3. pc' = "idle" => Stored' = Stored
    BY <1>3, StoredUnchanged DEF StoreDry, Reject
  <2>4. RefInv'
    BY <1>0, <2>1, <2>2, <2>3 DEF RefInv, ReferencesApart
  <2>5. CASE Whole
    BY <1>0, <2>1, <2>3, <2>4, <2>5 DEF RefInv, Held
  <2>6. CASE ~Whole
    BY <2>2, <2>4, <2>6
  <2> QED
    BY <2>5, <2>6
<1>4. CASE StoreWet
  <2>1. CASE ~torn'
    <3>1. Stored' = captured /\ inEffect' = captured /\ pc' = "idle"
      BY <1>0, <1>4, <2>1, SecondWrite
    <3>2. captured.dry_mv - captured.wet_mv >= MinSpan /\ captured \in Calibrations
      BY <1>0, <1>4, <2>1, SecondWrite DEF TypeOK
    <3>3. RefInv'
      BY <3>1, <3>2 DEF RefInv, ReferencesApart
    <3>4. Register!Accept
      BY <3>1, <3>2 DEF Register!Accept, Register!Sound, Register!Calibrations, Calibrations
    <3> QED
      BY <3>3, <3>4 DEF Register!Next
  <2>2. CASE torn'
    BY <2>2 DEF RefInv, ReferencesApart, Whole
  <2> QED
    BY <2>1, <2>2
<1>5. CASE PowerOff
  <2>1. pc' = "off" /\ inEffect' = inEffect /\ misread' = misread /\ torn' = (torn \/ pc = "storeWet")
    BY <1>5 DEF PowerOff
  <2>2. Stored' = Stored
    BY <1>5, StoredUnchanged DEF PowerOff
  <2>3. CASE torn'
    BY <2>3 DEF RefInv, ReferencesApart, Whole
  <2>4. CASE ~torn'
    <3>1. ~torn /\ pc # "storeWet" /\ Whole' = Whole
      BY <2>1, <2>4 DEF Whole
    <3> QED
      BY <1>0, <2>1, <2>2, <3>1 DEF RefInv, ReferencesApart, Held
  <2> QED
    BY <2>3, <2>4
<1>6. CASE UNCHANGED vars
  <2>1. Stored' = Stored /\ Whole' = Whole
    BY <1>6, StoredUnchanged DEF vars, Whole
  <2> QED
    BY <1>0, <1>6, <2>1 DEF RefInv, ReferencesApart, Held, vars
<1> QED
  BY <1>1, <1>2, <1>3, <1>4, <1>5, <1>6 DEF Next

(* The refinement's invariant, in every state. *)
LEMMA RefInvariance == Spec => []RefInv
<1>1. All /\ [Next]_vars => RefInv'
  BY NextRef
<1> QED
  BY <1>1, InitRef, StoreInvariance, PTL DEF All, Spec

(* Until a fault hits between the two writes or a read fails, and again from  *)
(* the next accepted calibration or good load on, the two items in flash are  *)
(* the register that ports.rs promises.                                       *)
THEOREM Refinement == Spec => ImplementsRegister
<1>1. Init => Register!Init
  <2> SUFFICES ASSUME Init PROVE Register!Init
    OBVIOUS
  <2>1. Stored \in Calibrations /\ inEffect = Stored /\ pc = "off" /\ ~torn
    BY InitType, StoredType DEF Init
  <2>2. Stored.dry_mv - Stored.wet_mv >= MinSpan
    BY <2>1, InitRef DEF RefInv
  <2> QED
    BY <2>1, <2>2 DEF Register!Init, Register!Calibrations, Register!Sound, Calibrations
<1>2. All /\ [Next]_vars => [Whole' => Register!Next]_(Register!vars)
  BY NextRef DEF Register!vars, Held
<1> QED
  BY <1>1, <1>2, RefInvariance, StoreInvariance, PTL DEF All, Spec, ImplementsRegister

(* As long, no boot measures with references too close together.              *)
THEOREM ApartTheorem == Spec => []ReferencesApart
<1>1. RefInv => ReferencesApart
  BY DEF RefInv
<1> QED
  BY <1>1, RefInvariance, PTL
=============================================================================
