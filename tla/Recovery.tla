------------------------------ MODULE Recovery ------------------------------
(***************************************************************************)
(* The boots of a device one after the other, and the count of crashed     *)
(* boots that RTC RAM carries between them: core/src/recovery.rs decides   *)
(* what the count means, fw/src/store.rs keeps it, and fw/src/main.rs      *)
(* reads it, writes it back and clears it at every planned end.  What a    *)
(* boot does between its start and its end is one step here; BootLoop      *)
(* looks inside.                                                           *)
(***************************************************************************)
EXTENDS Integers

CONSTANTS
  CrashLoopBoots, \* CRASH_LOOP_BOOTS
  MaxCount        \* u32::MAX

\* With a limit of 1 a back-off would leave 0 behind, the count of a planned end.
ASSUME RecoveryTuning ==
  /\ CrashLoopBoots \in Nat /\ CrashLoopBoots > 1
  /\ MaxCount \in Nat
  /\ CrashLoopBoots < MaxCount

WakeCauses == {"Cold", "Timer", "Button"}
Counts == 0..MaxCount

VARIABLES
  phase,      \* "booting": before recover; "running"; "sleeping"; "backoff"
  wake,       \* why the boot happened (esp-hal)
  hostReset,  \* it was a reset that the USB host asked for (esp-hal)
  count,      \* the crashed-boot count in RTC RAM
  magic,      \* whether the RTC RAM holding it has its magic
  afterCrash, \* what recover told the boot about the one before it
  \* what the properties need to know of the past
  cutShort,   \* the last boot that started has not reached a planned end
  alone,      \* boots started in a row with nobody there, since the last planned end or back-off
  backedOff   \* the device has backed off since its last planned end or visitor

rtc == <<count, magic>>
past == <<cutShort, alone, backedOff>>
vars == <<phase, wake, hostReset, rtc, afterCrash, past>>

\* crashed_boots: without the magic it is a power-on, which follows no crash.
Stored == IF magic THEN count ELSE 0
Crashed == Stored > 0

\* RTC RAM is as the loss of its power, or another firmware, left it.
Init ==
  /\ phase = "booting" /\ wake \in WakeCauses
  /\ hostReset \in BOOLEAN
  /\ count \in Counts
  /\ magic \in BOOLEAN
  /\ afterCrash = FALSE
  /\ cutShort = Crashed
  /\ alone = 0 /\ backedOff = FALSE

-----------------------------------------------------------------------------
\* set_crashed_boots
SetCrashedBoots(c) == count' = c /\ magic' = TRUE

\* Mutant: the count grows past its width.
NextCountUnbounded(c) == c + 1
\* saturating_add
NextCount(c) == IF c < MaxCount THEN c + 1 ELSE MaxCount

\* recover after a reset by the host: the count starts over.
RecoverHost ==
  /\ phase = "booting" /\ hostReset
  /\ SetCrashedBoots(1)
  /\ afterCrash' = FALSE
  /\ phase' = "running"
  /\ cutShort' = TRUE /\ alone' = 1 /\ backedOff' = FALSE
  /\ UNCHANGED <<wake, hostReset>>

\* Mutant: the limit lets one boot too many start.
MayStartOneMore == wake = "Button" \/ Stored <= CrashLoopBoots
MayStart == wake = "Button" \/ Stored < CrashLoopBoots

\* recover lets the boot start: below the limit, or because a person is there.
RecoverStart ==
  /\ phase = "booting" /\ ~hostReset
  /\ MayStart
  /\ SetCrashedBoots(NextCount(Stored))
  /\ afterCrash' = Crashed
  /\ phase' = "running"
  /\ cutShort' = TRUE
  /\ alone' = IF wake = "Button" THEN 0 ELSE alone + 1
  /\ backedOff' = IF wake = "Button" THEN FALSE ELSE backedOff
  /\ UNCHANGED <<wake, hostReset>>

BackOffCount == CrashLoopBoots - 1

\* recover sends the boot to sleep instead, one attempt below the limit.
RecoverBackOff ==
  /\ phase = "booting" /\ ~hostReset
  /\ ~MayStart
  /\ SetCrashedBoots(BackOffCount)
  /\ afterCrash' = Crashed
  /\ phase' = "backoff"
  /\ alone' = 0 /\ backedOff' = TRUE
  /\ UNCHANGED <<wake, hostReset, cutShort>>

-----------------------------------------------------------------------------
(* How a boot ends. *)

\* Mutant: a sleep leaves the count as it is.
PlannedSleepKeepsCount ==
  /\ phase = "running"
  /\ phase' = "sleeping"
  /\ cutShort' = FALSE /\ alone' = 0 /\ backedOff' = FALSE
  /\ UNCHANGED <<wake, hostReset, rtc, afterCrash>>

\* run_boot returned Sleep.
PlannedSleep ==
  /\ phase = "running"
  /\ SetCrashedBoots(0)
  /\ phase' = "sleeping"
  /\ cutShort' = FALSE /\ alone' = 0 /\ backedOff' = FALSE
  /\ UNCHANGED <<wake, hostReset, afterCrash>>

\* The chip starts again, and RTC RAM keeps what it holds.
Restart(cause, byHost) ==
  /\ phase' = "booting" /\ wake' = cause /\ hostReset' = byHost

\* run_wake or run_boot returned FactoryReset: erase, clear, software reset.
FactoryReset ==
  /\ phase = "running"
  /\ SetCrashedBoots(0)
  /\ Restart("Cold", FALSE)
  /\ cutShort' = FALSE /\ alone' = 0 /\ backedOff' = FALSE
  /\ UNCHANGED afterCrash

\* A panic, a watchdog reset or a brown-out, before or after the boot is counted.
Crash ==
  /\ phase \in {"booting", "running"}
  /\ Restart("Cold", FALSE)
  /\ UNCHANGED <<rtc, afterCrash, past>>

\* The USB host resets the chip while it is awake.
HostReset ==
  /\ phase \in {"booting", "running"}
  /\ Restart("Cold", TRUE)
  /\ UNCHANGED <<rtc, afterCrash, past>>

\* A sleep or a back-off ends: its time is over, or somebody presses the button.
WakeUp ==
  /\ phase \in {"sleeping", "backoff"}
  /\ \E cause \in {"Timer", "Button"} : Restart(cause, FALSE)
  /\ UNCHANGED <<rtc, afterCrash, past>>

\* The cell is taken out and put back: RTC RAM comes up without its magic.
PowerCycle ==
  /\ Restart("Cold", FALSE)
  /\ count' \in Counts
  /\ magic' = FALSE
  /\ cutShort' = FALSE /\ alone' = 0 /\ backedOff' = FALSE
  /\ UNCHANGED afterCrash

Next ==
  \/ RecoverHost \/ RecoverStart \/ RecoverBackOff
  \/ PlannedSleep \/ FactoryReset \/ Crash \/ HostReset
  \/ WakeUp \/ PowerCycle

Spec == Init /\ [][Next]_vars

-----------------------------------------------------------------------------
TypeOK ==
  /\ phase \in {"booting", "running", "sleeping", "backoff"}
  /\ wake \in WakeCauses /\ hostReset \in BOOLEAN
  /\ count \in Counts /\ magic \in BOOLEAN
  /\ afterCrash \in BOOLEAN /\ cutShort \in BOOLEAN
  /\ alone \in Nat /\ backedOff \in BOOLEAN

(* A loop of crashing boots with nobody there costs at most CRASH_LOOP_BOOTS  *)
(* starts before it backs off, and one start per back-off from then on        *)
(* (recovery.rs, recover; tuning.rs, CRASH_LOOP_BACK_OFF).                    *)
CrashLoopBounded ==
  /\ alone <= CrashLoopBoots
  /\ backedOff => alone <= 1

(* RTC RAM tells of a boot without a planned end exactly when the last one    *)
(* that started has none, through sleeps, back-offs, resets and power cycles  *)
(* (store.rs, crashed_boots; recovery.rs, "a boot counts as crashed until").  *)
CountTellsCrash == Crashed <=> cutShort

(* What makes the bound inductive: the count is never behind the starts it    *)
(* stands for, and a back-off leaves it where one more start reaches the      *)
(* limit again (recovery.rs, recover).                                        *)
CountKeepsUp ==
  /\ alone <= Stored
  /\ backedOff => alone + CrashLoopBoots <= Stored + 1

(* The boot shows a crash on its LED only after one (app.rs, run_wake): a     *)
(* boot that follows a planned end or a host's reset does not.                *)
(* As a step: what recover tells a boot that starts.                          *)
CrashShownHonestly ==
  [][phase = "booting" /\ phase' = "running" => afterCrash' = (cutShort /\ ~hostReset)]_vars
=============================================================================
