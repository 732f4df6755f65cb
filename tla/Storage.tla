------------------------------ MODULE Storage ------------------------------
(***************************************************************************)
(* The calibration and the Matter store over the flash they share: main's  *)
(* FlashCell, what fw/src/store.rs reads and writes through it, and the    *)
(* power that takes the window but not the flash.  Which cells an item is  *)
(* in is sequential-storage's: an item is written if the flash was, and is *)
(* misread only if the flash, or its window, has failed a fetch.           *)
(***************************************************************************)
EXTENDS Calibration, FlashCache

VARIABLE badFetch   \* a read of this boot has not returned what the flash holds

storageVars == <<vars, flashVars, badFetch>>

StorageInit == Init /\ FlashInit /\ badFetch = FALSE

Noted == badFetch' = (badFetch \/ answer' \in {"error", "false"})

\* The two fetches of load_calibration end with a read that makes Boot's load; the reads
\* before it are steps of Others.
Load ==
  /\ Boot /\ Read /\ Noted
  /\ misread' => badFetch'

\* An item is stored if its write was, and not if a read, an erase or a write on the way fails.
StoreItem ==
  /\ StoreDry \/ StoreWet
  /\ IF outcome' = "rejected"
     THEN (Read \/ Erase \/ Write) /\ answer' = "error"
     ELSE Write /\ answer' = "ok"
  /\ Noted

\* The probe is read and the references are judged without the flash.
CaptureBoth == Capture /\ UNCHANGED <<flashVars, badFetch>>

\* The window is RAM: it is gone with the power, and new in the next boot.
EndBoot ==
  /\ PowerOff
  /\ window' = None /\ buf' \in [Slots -> {Erased}] /\ answer' = "none" /\ fouled' = FALSE
  /\ badFetch' = FALSE
  /\ UNCHANGED flash

\* The Matter store at any time, and what else a load or a store of an item does before
\* it is done: sequential-storage's scans, and the erase of a page that is full.
Others == FlashNext /\ Noted /\ UNCHANGED vars

StorageNext == Load \/ CaptureBoth \/ StoreItem \/ EndBoot \/ Others

StorageSpec == StorageInit /\ [][StorageNext]_storageVars

=============================================================================
