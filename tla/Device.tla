------------------------------- MODULE Device -------------------------------
(***************************************************************************)
(* Recovery's boots with what fw/src/main.rs does between the reset of the *)
(* chip and the next one: the watchdog, the panic flag of fw/src/store.rs, *)
(* the panic handler that sets it, the two phases of a boot, the erasing   *)
(* of the store, and what a boot is told of the one before it: by the      *)
(* chip's reset reason, by the panic flag and by the crashed-boot count.   *)
(* Every step is a step of Recovery, or leaves its variables alone.        *)
(***************************************************************************)
EXTENDS Recovery

VARIABLES
  at,        \* how far main has come, or the panic handler
  reset,     \* reset_reason: how the boot before ended (esp-hal)
  watched,   \* the watchdog is armed
  flag,      \* PANIC in RTC RAM
  tookPanic, \* what take_panic_flag told the boot
  told,      \* what the stack tells of the boot before, or "none"
  \* what the properties need to know of the past
  untold,    \* panics since a boot last looked: how far the last was recorded, and
             \* whether one was in a boot that recover had let start
  heard,     \* untold when this boot looked
  cutAt      \* the phase that the boot before ended in

main == <<at, reset, watched, flag, tookPanic, told>>
deviceVars == <<vars, main, untold, heard, cutAt>>

Up == {"init", "wake", "startup", "operational", "erasing"}
Stages == Up \cup {"reset", "marked", "committed", "asleep"}
ResetReasons == {"DeepSleep", "PowerOn", "Software", "Watchdog", "Usb"}
WakeupSources == {"Timer", "Gpio", "Ext1"}
Flags == [magic : BOOLEAN, panicked : BOOLEAN]
Panics == [level : {"none", "marked", "committed"}, counted : BOOLEAN]
NoPanic == [level |-> "none", counted |-> FALSE]

\* boot_reason. The chip has one code for a power-on and a brown-out; a reset by the
\* host falls to the last arm.
BootReason(r) ==
  CASE r = "DeepSleep" -> "Unspecified"
    [] r = "PowerOn" -> "PowerOnReboot"
    [] r = "Software" -> "SoftwareReset"
    [] r = "Watchdog" -> "HardwareWatchdogReset"
    [] OTHER -> "SoftwareWatchdogReset"

\* The wake's cause, from the bits of wakeup_cause: the button first.
Classify(bits) ==
  CASE bits = {} -> "Cold"
    [] bits \cap {"Gpio", "Ext1"} # {} -> "Button"
    [] OTHER -> "Timer"

DeviceInit ==
  /\ Init
  /\ at = "reset" /\ watched = FALSE
  /\ reset \in ResetReasons
  /\ (wake # "Cold") = (reset = "DeepSleep") /\ hostReset = (reset = "Usb")
  /\ flag \in Flags
  /\ tookPanic = FALSE /\ told = "none"
  /\ untold = [level |-> IF flag.magic /\ flag.panicked THEN "committed" ELSE "none", counted |-> FALSE]
  /\ heard = NoPanic
  /\ cutAt = "booting"

-----------------------------------------------------------------------------
(* The way up. *)

\* Mutant: the flag is read and left standing.
ClearedNever == flag
\* take_panic_flag clears it.
Cleared == [flag EXCEPT !.panicked = FALSE]

\* main up to take_panic_flag: the watchdog first, then the questions.
Initialise ==
  /\ at = "reset"
  /\ at' = "init" /\ watched' = TRUE
  /\ tookPanic' = (flag.magic /\ flag.panicked)
  /\ flag' = Cleared
  /\ heard' = untold /\ untold' = NoPanic
  /\ UNCHANGED <<vars, reset, told, cutAt>>

\* Mutant: the watchdog is left to itself.
DeepSleepWatched == at' = "asleep" /\ UNCHANGED watched
\* deep_sleep
DeepSleep == at' = "asleep" /\ watched' = FALSE

\* recover, its write-back, and the sleep it may ask for.
Recover ==
  /\ at = "init"
  /\ \/ RecoverHost /\ at' = "wake" /\ UNCHANGED watched
     \/ RecoverStart /\ at' = "wake" /\ UNCHANGED watched
     \/ RecoverBackOff /\ DeepSleep
  /\ UNCHANGED <<reset, flag, tookPanic, told, untold, heard, cutAt>>

\* run_wake has ended: set_boot_reason, then the stack's startup.
EndWake ==
  /\ at = "wake"
  /\ at' = "startup"
  /\ told' = BootReason(reset)
  /\ UNCHANGED <<vars, reset, watched, flag, tookPanic, untold, heard, cutAt>>

EndStartup ==
  /\ at = "startup"
  /\ at' = "operational"
  /\ UNCHANGED <<vars, reset, watched, flag, tookPanic, told, untold, heard, cutAt>>

-----------------------------------------------------------------------------
(* The ends of a boot. *)

\* run_boot returned Sleep.
Sleep ==
  /\ at = "operational"
  /\ PlannedSleep /\ DeepSleep
  /\ UNCHANGED <<reset, flag, tookPanic, told, untold, heard, cutAt>>

\* Mutant: the count is cleared before the store is erased, not after.
StartEraseCleared ==
  /\ at \in {"wake", "operational"}
  /\ at' = "erasing"
  /\ SetCrashedBoots(0)
  /\ UNCHANGED <<phase, wake, hostReset, afterCrash, past, reset, watched, flag, tookPanic, told, untold, heard, cutAt>>

\* Either phase ended in a factory reset: stack.reset erases, or panics.
StartErase ==
  /\ at \in {"wake", "operational"}
  /\ at' = "erasing"
  /\ UNCHANGED <<vars, reset, watched, flag, tookPanic, told, untold, heard, cutAt>>

\* A panic: custom_halt marks the flag, and the marker commits it.
Panic ==
  /\ at \in Up
  /\ at' = "marked"
  /\ flag' = [flag EXCEPT !.panicked = TRUE]
  /\ untold' = [level |-> "marked", counted |-> phase = "running"]
  /\ UNCHANGED <<vars, reset, watched, tookPanic, told, heard, cutAt>>

Commit ==
  /\ at = "marked"
  /\ at' = "committed"
  /\ flag' = [flag EXCEPT !.magic = TRUE]
  /\ untold' = [untold EXCEPT !.level = "committed"]
  /\ UNCHANGED <<vars, reset, watched, tookPanic, told, heard, cutAt>>

\* The chip is reset, and says so with a reason.
ResetWith(reason) ==
  /\ at' = "reset" /\ reset' = reason /\ watched' = FALSE
  /\ tookPanic' = FALSE /\ told' = "none" /\ heard' = NoPanic
  /\ cutAt' = phase

\* software_reset, after a panic and after the store is erased.
HaltReset ==
  /\ at = "committed"
  /\ Crash /\ ResetWith("Software")
  /\ UNCHANGED <<flag, untold>>

EraseReset ==
  /\ at = "erasing"
  /\ FactoryReset /\ ResetWith("Software")
  /\ UNCHANGED <<flag, untold>>

\* The watchdog bites whenever it is armed and not fed.
WatchdogReset ==
  /\ watched
  /\ Restart("Cold", FALSE)
  /\ UNCHANGED <<rtc, afterCrash, past>>
  /\ ResetWith("Watchdog")
  /\ UNCHANGED <<flag, untold>>

\* The cell sags while the chip is awake, and RTC RAM keeps what it holds.
BrownOut ==
  /\ Crash /\ ResetWith("PowerOn")
  /\ UNCHANGED <<flag, untold>>

UsbReset ==
  /\ HostReset /\ ResetWith("Usb")
  /\ UNCHANGED <<flag, untold>>

\* A sleep ends with at least one bit set in the wake's cause.
WakeFromSleep ==
  /\ phase \in {"sleeping", "backoff"}
  /\ \E bits \in (SUBSET WakeupSources) \ {{}} : Restart(Classify(bits), FALSE)
  /\ UNCHANGED <<rtc, afterCrash, past>>
  /\ ResetWith("DeepSleep")
  /\ UNCHANGED <<flag, untold>>

CellChange ==
  /\ PowerCycle /\ ResetWith("PowerOn")
  /\ flag' \in {f \in Flags : ~f.magic}
  /\ untold' = NoPanic

DeviceNext ==
  \/ Initialise \/ Recover \/ EndWake \/ EndStartup
  \/ Sleep \/ StartErase \/ EraseReset
  \/ Panic \/ Commit \/ HaltReset
  \/ WatchdogReset \/ BrownOut \/ UsbReset \/ WakeFromSleep \/ CellChange

DeviceSpec == DeviceInit /\ [][DeviceNext]_deviceVars

-----------------------------------------------------------------------------
DeviceTypeOK ==
  /\ TypeOK
  /\ at \in Stages /\ reset \in ResetReasons /\ watched \in BOOLEAN
  /\ flag \in Flags /\ tookPanic \in BOOLEAN
  /\ told \in {"none"} \cup {BootReason(r) : r \in ResetReasons}
  /\ untold \in Panics /\ heard \in Panics
  /\ cutAt \in {"booting", "running", "sleeping", "backoff"}

(* A boot says that the boot before it panicked only of a panic that no boot  *)
(* has said yet, and of every one that was recorded to the end, unless the    *)
(* cell was changed in between (store.rs, set_panic_flag, take_panic_flag).   *)
PanicToldTruly ==
  /\ tookPanic => heard.level # "none"
  /\ heard.level = "committed" => tookPanic

(* The panic flag and the crashed-boot count are two records with a marker    *)
(* each, and they agree: a boot that is told of a panic in a boot that had    *)
(* started shows a crash, also when the panic was in a factory reset          *)
(* (main.rs, "Recording the panic and resetting is what makes a crash         *)
(* observable"; recovery.rs, recover).                                        *)
PanicIsACrash ==
  phase = "running" /\ ~hostReset /\ tookPanic /\ heard.counted => afterCrash

(* The controller is told of a watchdog reset only if the chip was awake, and *)
(* then the boot shows a crash, if the boot before had started: no sleep ends *)
(* by the watchdog (main.rs, boot_reason and deep_sleep, "a sleep that        *)
(* outlasts its timeout must not depend on that").                            *)
WatchdogIsACrash ==
  phase = "running" /\ told = "HardwareWatchdogReset" =>
    /\ cutAt \in {"booting", "running"}
    /\ cutAt = "running" => afterCrash
=============================================================================
