---------------------------- MODULE Device_proofs ----------------------------
(***************************************************************************)
(* Recovery, and Device that implements it, for every crash limit and      *)
(* every width of the counter.  The bound on a crash loop is not           *)
(* inductive: that a device which has backed off starts at most once more  *)
(* rests on the count it left behind, which CountKeepsUp relates to the    *)
(* starts.  Then that Device implements Recovery, so Recovery's theorems   *)
(* hold of it; and that the three things a boot is told of the one before  *)
(* it agree.                                                               *)
(***************************************************************************)
EXTENDS Device, TLAPS


IInv == TypeOK /\ CountKeepsUp /\ CountTellsCrash

(* What a count of crashed boots grows to: one more, or the counter's limit. *)
LEMMA NextCountFacts ==
  ASSUME NEW c \in Counts
  PROVE  NextCount(c) \in Counts /\ NextCount(c) > 0 /\ (c < CrashLoopBoots => NextCount(c) = c + 1)
BY RecoveryTuning DEF NextCount, Counts

(* RTC RAM always reads as a count. *)
LEMMA StoredType == TypeOK => Stored \in Counts
BY RecoveryTuning DEF TypeOK, Stored, Counts

(* Every boot has crashed or has not.                                         *)
LEMMA CrashedType == Crashed \in BOOLEAN
BY DEF Crashed

(* What set_crashed_boots writes is what crashed_boots reads back. *)
LEMMA StoredAfterSet ==
  ASSUME NEW c, SetCrashedBoots(c)
  PROVE  Stored' = c
BY DEF SetCrashedBoots, Stored

(* A step that leaves RTC RAM alone leaves the count it reads as. *)
LEMMA StoredUnchanged == UNCHANGED rtc => Stored' = Stored
BY DEF rtc, Stored

(* The first boot satisfies the strengthening.                                *)
LEMMA InitIInv == Init => IInv
<1> SUFFICES ASSUME Init PROVE IInv
  OBVIOUS
<1>0. cutShort \in BOOLEAN
  BY CrashedType DEF Init
<1>1. TypeOK
  <2>1. count \in Counts /\ magic \in BOOLEAN /\ hostReset \in BOOLEAN /\ wake \in WakeCauses
    BY DEF Init
  <2>2. phase = "booting" /\ afterCrash = FALSE /\ alone = 0 /\ backedOff = FALSE
    BY DEF Init
  <2> QED
    BY <1>0, <2>1, <2>2 DEF TypeOK
<1>2. Stored \in Counts
  BY <1>1, StoredType
<1>3. CountKeepsUp
  BY <1>2, RecoveryTuning DEF Init, CountKeepsUp, Counts
<1>4. CountTellsCrash
  BY DEF Init, CountTellsCrash
<1> QED
  BY <1>1, <1>3, <1>4 DEF IInv

(* Every step keeps the strengthening.                                        *)
LEMMA NextIInv == IInv /\ [Next]_vars => IInv'
<1> SUFFICES ASSUME IInv, [Next]_vars PROVE IInv'
  OBVIOUS
<1> USE RecoveryTuning
<1>0. TypeOK /\ CountKeepsUp /\ CountTellsCrash /\ Stored \in Counts
  BY StoredType DEF IInv
<1>1. CASE RecoverHost
  <2>1. Stored' = 1
    BY <1>1, StoredAfterSet DEF RecoverHost
  <2>2. TypeOK'
    <3>1. count' \in Counts /\ magic' = TRUE
      BY <1>1 DEF RecoverHost, SetCrashedBoots, Counts
    <3>2. afterCrash' = FALSE /\ cutShort' = TRUE /\ backedOff' = FALSE
      BY <1>1 DEF RecoverHost
    <3>3. phase' = "running" /\ wake' = wake /\ hostReset' = hostReset /\ alone' = 1
      BY <1>1 DEF RecoverHost
    <3> QED
      BY <1>0, <3>1, <3>2, <3>3 DEF TypeOK
  <2>3. CountKeepsUp' /\ CountTellsCrash'
    <3>1. alone' = 1 /\ backedOff' = FALSE /\ cutShort' = TRUE
      BY <1>1 DEF RecoverHost
    <3>2. Crashed'
      BY <2>1 DEF Crashed
    <3> QED
      BY <2>1, <3>1, <3>2 DEF CountKeepsUp, CountTellsCrash
  <2> QED
    BY <2>2, <2>3 DEF IInv
<1>2. CASE RecoverStart
  <2>1. Stored' = NextCount(Stored)
    BY <1>2, StoredAfterSet DEF RecoverStart
  <2>2. Stored' \in Counts /\ Stored' > 0 /\ (Stored < CrashLoopBoots => Stored' = Stored + 1)
    BY <1>0, <2>1, NextCountFacts
  <2>3. TypeOK'
    <3>1. count' \in Counts /\ magic' = TRUE
      BY <1>2, <2>1, <2>2 DEF RecoverStart, SetCrashedBoots
    <3>2. afterCrash' \in BOOLEAN /\ cutShort' \in BOOLEAN /\ backedOff' \in BOOLEAN
      <4>1. afterCrash' = Crashed /\ cutShort' = TRUE
        BY <1>2 DEF RecoverStart
      <4>2. backedOff' \in {FALSE, backedOff}
        BY <1>2 DEF RecoverStart
      <4> QED
        BY <1>0, <4>1, <4>2, CrashedType DEF TypeOK
    <3>3. phase' = "running" /\ wake' = wake /\ hostReset' = hostReset /\ alone' \in Nat
      BY <1>0, <1>2 DEF RecoverStart, TypeOK
    <3> QED
      BY <1>0, <3>1, <3>2, <3>3 DEF TypeOK
  <2>4. CountKeepsUp'
    <3>1. CASE wake = "Button"
      BY <1>2, <2>2, <3>1 DEF RecoverStart, CountKeepsUp, Counts
    <3>2. CASE wake # "Button"
      <4>1. Stored < CrashLoopBoots
        BY <1>2, <3>2 DEF RecoverStart, MayStart
      <4>2. alone' = alone + 1 /\ backedOff' = backedOff
        BY <1>2, <3>2 DEF RecoverStart
      <4> QED
        BY <1>0, <2>2, <4>1, <4>2 DEF CountKeepsUp, TypeOK, Counts
    <3> QED
      BY <3>1, <3>2
  <2>5. CountTellsCrash'
    <3>1. Crashed' /\ cutShort' = TRUE
      BY <1>2, <2>2 DEF RecoverStart, Crashed
    <3> QED
      BY <3>1 DEF CountTellsCrash
  <2> QED
    BY <2>3, <2>4, <2>5 DEF IInv
<1>3. CASE RecoverBackOff
  <2>1. Stored' = CrashLoopBoots - 1
    BY <1>3, StoredAfterSet DEF RecoverBackOff, BackOffCount
  <2>2. Crashed /\ Crashed' /\ cutShort' = cutShort
    BY <1>0, <1>3, <2>1 DEF RecoverBackOff, MayStart, Counts, Crashed
  <2>3. TypeOK'
    <3>1. count' \in Counts /\ magic' = TRUE
      BY <1>3 DEF RecoverBackOff, BackOffCount, SetCrashedBoots, Counts
    <3>2. afterCrash' \in BOOLEAN /\ cutShort' = cutShort
      BY <1>3, CrashedType DEF RecoverBackOff
    <3>3. phase' = "backoff" /\ alone' = 0 /\ backedOff' = TRUE /\ wake' = wake /\ hostReset' = hostReset
      BY <1>3 DEF RecoverBackOff
    <3> QED
      BY <1>0, <3>1, <3>2, <3>3 DEF TypeOK
  <2>4. CountKeepsUp'
    BY <1>3, <2>1 DEF RecoverBackOff, CountKeepsUp
  <2>5. CountTellsCrash'
    BY <1>0, <2>2 DEF CountTellsCrash
  <2> QED
    BY <2>3, <2>4, <2>5 DEF IInv
<1>4. CASE PlannedSleep \/ FactoryReset
  <2>1. Stored' = 0
    BY <1>4, StoredAfterSet DEF PlannedSleep, FactoryReset
  <2>2. alone' = 0 /\ backedOff' = FALSE /\ cutShort' = FALSE /\ afterCrash' = afterCrash
    BY <1>4 DEF PlannedSleep, FactoryReset
  <2>3. TypeOK'
    <3>1. count' \in Counts /\ magic' = TRUE
      <4>1. SetCrashedBoots(0)
        BY <1>4 DEF PlannedSleep, FactoryReset
      <4> QED
        BY <4>1 DEF SetCrashedBoots, Counts
    <3>2. phase' \in {"sleeping", "booting"} /\ wake' \in {wake, "Cold"} /\ hostReset' \in {hostReset, FALSE}
      BY <1>4 DEF PlannedSleep, FactoryReset, Restart
    <3> QED
      BY <1>0, <2>2, <3>1, <3>2 DEF TypeOK, WakeCauses
  <2>4. CountKeepsUp' /\ CountTellsCrash'
    <3>1. ~Crashed'
      BY <2>1 DEF Crashed
    <3> QED
      BY <2>1, <2>2, <3>1 DEF CountKeepsUp, CountTellsCrash
  <2> QED
    BY <2>3, <2>4 DEF IInv
<1>5. CASE Crash \/ HostReset \/ WakeUp
  <2>1. Stored' = Stored /\ UNCHANGED past
    BY <1>5, StoredUnchanged DEF Crash, HostReset, WakeUp
  <2>2. TypeOK'
    <3>1. UNCHANGED <<rtc, afterCrash, past>>
      BY <1>5 DEF Crash, HostReset, WakeUp
    <3>2. phase' = "booting" /\ wake' \in WakeCauses /\ hostReset' \in BOOLEAN
      BY <1>5 DEF Crash, HostReset, WakeUp, Restart, WakeCauses
    <3> QED
      BY <1>0, <3>1, <3>2 DEF TypeOK, rtc, past
  <2>3. CountKeepsUp' /\ CountTellsCrash'
    BY <1>0, <2>1 DEF CountKeepsUp, CountTellsCrash, Crashed, past
  <2> QED
    BY <2>2, <2>3 DEF IInv
<1>6. CASE PowerCycle
  <2>1. Stored' = 0
    BY <1>6 DEF PowerCycle, Stored
  <2>2. alone' = 0 /\ backedOff' = FALSE /\ cutShort' = FALSE /\ ~Crashed'
    BY <1>6, <2>1 DEF PowerCycle, Crashed
  <2>3. TypeOK'
    <3>1. phase' = "booting" /\ wake' = "Cold" /\ hostReset' = FALSE
      BY <1>6 DEF PowerCycle, Restart
    <3>2. count' \in Counts /\ magic' = FALSE /\ afterCrash' = afterCrash
      BY <1>6 DEF PowerCycle
    <3> QED
      BY <1>0, <2>2, <3>1, <3>2 DEF TypeOK, WakeCauses
  <2>4. CountKeepsUp' /\ CountTellsCrash'
    BY <2>1, <2>2 DEF CountKeepsUp, CountTellsCrash
  <2> QED
    BY <2>3, <2>4 DEF IInv
<1>7. CASE UNCHANGED vars
  <2>1. Stored' = Stored
    BY <1>7, StoredUnchanged DEF vars, rtc
  <2> QED
    BY <1>0, <1>7, <2>1 DEF IInv, TypeOK, CountKeepsUp, CountTellsCrash, Crashed, vars, rtc, past
<1> QED
  BY <1>1, <1>2, <1>3, <1>4, <1>5, <1>6, <1>7 DEF Next

(* What one step does not show of the bound, the count's own limit does: a    *)
(* start with nobody there needs a count below the limit.                     *)
BInv == IInv /\ CrashLoopBounded

(* Every step keeps the crash loop bounded.                                   *)
LEMMA NextBounded == BInv /\ [Next]_vars => CrashLoopBounded'
<1> SUFFICES ASSUME BInv, [Next]_vars PROVE CrashLoopBounded'
  OBVIOUS
<1> USE RecoveryTuning
<1>0. TypeOK /\ CountKeepsUp /\ CrashLoopBounded /\ Stored \in Counts
  BY StoredType DEF BInv, IInv
<1>1. CASE RecoverStart /\ wake # "Button"
  <2>1. Stored < CrashLoopBoots /\ alone' = alone + 1 /\ backedOff' = backedOff
    BY <1>1 DEF RecoverStart, MayStart
  <2> QED
    BY <1>0, <2>1 DEF CountKeepsUp, CrashLoopBounded, TypeOK, Counts
<1>2. CASE RecoverStart /\ wake = "Button"
  <2>1. alone' = 0
    BY <1>2 DEF RecoverStart
  <2> QED
    BY <2>1 DEF CrashLoopBounded
<1>3. CASE RecoverHost \/ RecoverBackOff \/ PlannedSleep \/ FactoryReset \/ PowerCycle
  <2>1. alone' \in {0, 1}
    BY <1>3 DEF RecoverHost, RecoverBackOff, PlannedSleep, FactoryReset, PowerCycle
  <2> QED
    BY <2>1 DEF CrashLoopBounded
<1>4. CASE Crash \/ HostReset \/ WakeUp \/ UNCHANGED vars
  <2>1. UNCHANGED past
    BY <1>4 DEF Crash, HostReset, WakeUp, vars
  <2> QED
    BY <1>0, <2>1 DEF past, CrashLoopBounded
<1> QED
  BY <1>1, <1>2, <1>3, <1>4 DEF Next

(* The bound holds at first.                                                  *)
LEMMA InitBounded == Init => CrashLoopBounded
BY RecoveryTuning DEF Init, CrashLoopBounded

(* Every reachable state has the invariant and its strengthening. *)
LEMMA Invariance == Spec => []BInv
<1>1. Init => BInv
  BY InitIInv, InitBounded DEF BInv
<1>2. BInv /\ [Next]_vars => BInv'
  BY NextIInv, NextBounded DEF BInv
<1> QED
  BY <1>1, <1>2, PTL DEF Spec

(* Type correctness: the counter saturates and never leaves its width, also   *)
(* from the garbage RTC RAM may hold (recovery.rs, saturating_add).           *)
THEOREM RecoveryTypes == Spec => []TypeOK
<1>1. BInv => TypeOK
  BY DEF BInv, IInv
<1> QED
  BY <1>1, Invariance, PTL

(* However boots crash, at most CRASH_LOOP_BOOTS start in a row with nobody   *)
(* there, and one per back-off after that.                                    *)
THEOREM CrashLoopTheorem == Spec => []CrashLoopBounded
<1>1. BInv => CrashLoopBounded
  BY DEF BInv
<1> QED
  BY <1>1, Invariance, PTL

(* The count keeps up with the starts it stands for. *)
THEOREM CountTheorem == Spec => []CountKeepsUp
<1>1. BInv => CountKeepsUp
  BY DEF BInv, IInv
<1> QED
  BY <1>1, Invariance, PTL

(* RTC RAM tells of a crash exactly when there was one. *)
THEOREM CrashTold == Spec => []CountTellsCrash
<1>1. BInv => CountTellsCrash
  BY DEF BInv, IInv
<1> QED
  BY <1>1, Invariance, PTL

(* A boot shows a crash exactly when the boot before it was cut short and no  *)
(* host reset it.                                                             *)
THEOREM CrashShown == Spec => CrashShownHonestly
<1>1. BInv /\ [Next]_vars =>
        [phase = "booting" /\ phase' = "running" => afterCrash' = (cutShort /\ ~hostReset)]_vars
  <2> SUFFICES ASSUME BInv, Next, phase = "booting", phase' = "running"
               PROVE  afterCrash' = (cutShort /\ ~hostReset)
    BY DEF vars
  <2>1. CASE RecoverHost
    BY <2>1 DEF RecoverHost
  <2>2. CASE RecoverStart
    <3>1. ~hostReset /\ afterCrash' = Crashed
      BY <2>2 DEF RecoverStart
    <3>2. Crashed \in BOOLEAN /\ cutShort \in BOOLEAN /\ (Crashed <=> cutShort)
      BY CrashedType DEF BInv, IInv, CountTellsCrash, TypeOK
    <3>3. Crashed = cutShort
      BY <3>2
    <3>4. (cutShort /\ ~hostReset) = cutShort
      BY <3>1, <3>2
    <3> QED
      BY <3>1, <3>3, <3>4
  <2>3. CASE RecoverBackOff \/ PlannedSleep \/ FactoryReset \/ Crash \/ HostReset \/ WakeUp \/ PowerCycle
    BY <2>3 DEF RecoverBackOff, PlannedSleep, FactoryReset, Crash, HostReset, WakeUp, PowerCycle, Restart
  <2> QED
    BY <2>1, <2>2, <2>3 DEF Next
<1> QED
  BY <1>1, Invariance, PTL DEF Spec, CrashShownHonestly

-----------------------------------------------------------------------------
(* Device. *)


\* The steps that reset the chip.
Drop == HaltReset \/ EraseReset \/ WatchdogReset \/ BrownOut \/ UsbReset \/ WakeFromSleep \/ CellChange

-----------------------------------------------------------------------------
(* Device implements Recovery. *)

\* Where main is says which of Recovery's phases the boot is in, and only a chip that
\* is awake is watched.
StageInv ==
  /\ at \in {"reset", "init"} => phase = "booting"
  /\ at \in {"wake", "startup", "operational", "erasing"} => phase = "running"
  /\ at \in {"marked", "committed"} => phase \in {"booting", "running"}
  /\ at = "asleep" => phase \in {"sleeping", "backoff"} /\ ~watched
  /\ at \in Stages

(* The first boot has it. *)
LEMMA InitStage == DeviceInit => StageInv
BY DEF DeviceInit, Init, StageInv, Stages, Up

(* A reset starts a boot. *)
LEMMA DropStage == Drop => at' = "reset" /\ phase' = "booting" /\ watched' = FALSE
<1> SUFFICES ASSUME Drop PROVE at' = "reset" /\ phase' = "booting" /\ watched' = FALSE
  OBVIOUS
<1>1. \E reason \in ResetReasons : ResetWith(reason)
  BY DEF Drop, HaltReset, EraseReset, WatchdogReset, BrownOut, UsbReset, WakeFromSleep, CellChange, ResetReasons
<1>2. \E cause, byHost : Restart(cause, byHost)
  BY DEF Drop, HaltReset, EraseReset, WatchdogReset, BrownOut, UsbReset, WakeFromSleep, CellChange,
         Crash, FactoryReset, HostReset, PowerCycle
<1> QED
  BY <1>1, <1>2 DEF ResetWith, Restart

(* Every step keeps it. *)
LEMMA NextStage == StageInv /\ [DeviceNext]_deviceVars => StageInv'
<1> SUFFICES ASSUME StageInv, [DeviceNext]_deviceVars PROVE StageInv'
  OBVIOUS
<1>1. CASE Initialise \/ EndWake \/ EndStartup \/ StartErase \/ Panic \/ Commit
  BY <1>1 DEF Initialise, EndWake, EndStartup, StartErase, Panic, Commit, StageInv, Stages, Up, vars
<1>2. CASE Recover
  BY <1>2 DEF Recover, RecoverHost, RecoverStart, RecoverBackOff, DeepSleep, StageInv, Stages, Up
<1>3. CASE Sleep
  BY <1>3 DEF Sleep, PlannedSleep, DeepSleep, StageInv, Stages
<1>4. CASE Drop
  BY <1>4, DropStage DEF StageInv, Stages
<1>5. CASE UNCHANGED deviceVars
  BY <1>5 DEF StageInv, deviceVars, main, vars
<1> QED
  BY <1>1, <1>2, <1>3, <1>4, <1>5 DEF DeviceNext, Drop

(* A wake from sleep has one of Recovery's two causes. *)
LEMMA SleepEndsByTimerOrButton ==
  ASSUME NEW bits \in (SUBSET WakeupSources) \ {{}}
  PROVE  Classify(bits) \in {"Timer", "Button"}
<1>1. bits # {}
  OBVIOUS
<1> QED
  BY <1>1 DEF Classify

(* Every step is one of Recovery's, or leaves its variables alone. *)
LEMMA StepImplements == StageInv /\ [DeviceNext]_deviceVars => [Next]_vars
<1> SUFFICES ASSUME StageInv, DeviceNext PROVE Next \/ UNCHANGED vars
  BY DEF deviceVars
<1>1. CASE Initialise \/ EndWake \/ EndStartup \/ StartErase \/ Panic \/ Commit
  BY <1>1 DEF Initialise, EndWake, EndStartup, StartErase, Panic, Commit
<1>2. CASE Recover \/ Sleep
  BY <1>2 DEF Recover, Sleep, Next
<1>3. CASE HaltReset \/ EraseReset \/ BrownOut \/ UsbReset \/ CellChange
  BY <1>3 DEF HaltReset, EraseReset, BrownOut, UsbReset, CellChange, Next
<1>4. CASE WatchdogReset
  <2>1. phase \in {"booting", "running"}
    BY <1>4 DEF WatchdogReset, StageInv, Stages, Up
  <2> QED
    BY <1>4, <2>1 DEF WatchdogReset, Crash, Next
<1>5. CASE WakeFromSleep
  <2>1. PICK bits \in (SUBSET WakeupSources) \ {{}} : Restart(Classify(bits), FALSE)
    BY <1>5 DEF WakeFromSleep
  <2>2. WakeUp
    BY <1>5, <2>1, SleepEndsByTimerOrButton DEF WakeFromSleep, WakeUp
  <2> QED
    BY <2>2 DEF Next
<1> QED
  BY <1>1, <1>2, <1>3, <1>4, <1>5 DEF DeviceNext

(* Stages and phases belong together in every reachable state. *)
LEMMA StageTheorem == DeviceSpec => []StageInv
BY InitStage, NextStage, PTL DEF DeviceSpec

(* The device with its watchdog, its panic handler and its two phases         *)
(* implements Recovery: none of them resets the chip in its sleep or clears   *)
(* the count on the way (main.rs).                                            *)
THEOREM DeviceImplementsRecovery == DeviceSpec => Spec
<1>1. DeviceInit => Init
  BY DEF DeviceInit
<1> QED
  BY <1>1, StageTheorem, StepImplements, PTL DEF DeviceSpec, Spec

(* So a crash loop is bounded on the device, too. *)
THEOREM DeviceCrashLoop == DeviceSpec => []CrashLoopBounded
BY DeviceImplementsRecovery, CrashLoopTheorem, PTL

(* And its count tells a crash from a planned end. *)
THEOREM DeviceCrashTold == DeviceSpec => []CountTellsCrash
BY DeviceImplementsRecovery, CrashTold, PTL

-----------------------------------------------------------------------------
(* The panic flag. *)

MainTypes ==
  /\ at \in Stages /\ reset \in ResetReasons /\ watched \in BOOLEAN
  /\ flag \in Flags /\ tookPanic \in BOOLEAN
  /\ told \in {"none"} \cup {BootReason(r) : r \in ResetReasons}
  /\ untold \in Panics /\ heard \in Panics
  /\ cutAt \in {"booting", "running", "sleeping", "backoff"}

(* Main's variables have their types at first. *)
LEMMA InitMain == DeviceInit => MainTypes
<1> SUFFICES ASSUME DeviceInit PROVE MainTypes
  OBVIOUS
<1>1. untold \in Panics /\ heard \in Panics
  <2>1. PICK level \in {"none", "committed"} : untold = [level |-> level, counted |-> FALSE]
    BY DEF DeviceInit
  <2>2. heard = NoPanic
    BY DEF DeviceInit
  <2> QED
    BY <2>1, <2>2 DEF Panics, NoPanic
<1>2. flag \in Flags /\ tookPanic \in BOOLEAN /\ watched \in BOOLEAN
  BY DEF DeviceInit
<1>3. at \in Stages /\ reset \in ResetReasons /\ told = "none" /\ cutAt = "booting"
  BY DEF DeviceInit, Stages
<1> QED
  BY <1>1, <1>2, <1>3 DEF MainTypes

(* A reset leaves the flag and what it stands for, unless the cell was changed. *)
LEMMA DropFlag ==
  Drop => UNCHANGED <<flag, untold>> \/ (flag' \in Flags /\ ~flag'.magic /\ untold' = NoPanic)
BY DEF Drop, HaltReset, EraseReset, WatchdogReset, BrownOut, UsbReset, WakeFromSleep, CellChange

(* A reset leaves them their types. *)
LEMMA DropTypes == TypeOK /\ MainTypes /\ Drop => MainTypes'
<1> SUFFICES ASSUME TypeOK, MainTypes, Drop PROVE MainTypes'
  OBVIOUS
<1>1. PICK reason \in ResetReasons : ResetWith(reason)
  BY DEF Drop, HaltReset, EraseReset, WatchdogReset, BrownOut, UsbReset, WakeFromSleep, CellChange, ResetReasons
<1>2. NoPanic \in Panics
  BY DEF NoPanic, Panics
<1>3. flag' \in Flags /\ untold' \in Panics
  <2>1. CASE UNCHANGED <<flag, untold>>
    BY <2>1 DEF MainTypes
  <2>2. CASE ~UNCHANGED <<flag, untold>>
    BY <1>2, <2>2, DropFlag
  <2> QED
    BY <2>1, <2>2
<1>4. cutAt' \in {"booting", "running", "sleeping", "backoff"}
  BY <1>1 DEF ResetWith, TypeOK
<1> QED
  BY <1>1, <1>2, <1>3, <1>4 DEF ResetWith, MainTypes, Stages

(* Every step does. *)
LEMMA NextMain == TypeOK /\ MainTypes /\ [DeviceNext]_deviceVars => MainTypes'
<1> SUFFICES ASSUME TypeOK, MainTypes, [DeviceNext]_deviceVars PROVE MainTypes'
  OBVIOUS
<1>1. CASE Initialise
  <2>1. flag' \in Flags /\ tookPanic' \in BOOLEAN
    BY <1>1 DEF Initialise, Cleared, MainTypes, Flags
  <2> QED
    BY <1>1, <2>1 DEF Initialise, MainTypes, Stages, Up, Panics, NoPanic
<1>2. CASE Recover \/ Sleep
  BY <1>2 DEF Recover, Sleep, DeepSleep, MainTypes, Stages, Up
<1>3. CASE EndWake \/ EndStartup \/ StartErase
  BY <1>3 DEF EndWake, EndStartup, StartErase, MainTypes, Stages, Up
<1>4. CASE Panic
  <2>1. flag' \in Flags /\ (phase = "running") \in BOOLEAN
    BY <1>4 DEF Panic, MainTypes, Flags
  <2>2. untold' \in Panics
    BY <1>4, <2>1 DEF Panic, Panics
  <2> QED
    BY <1>4, <2>1, <2>2 DEF Panic, MainTypes, Stages
<1>5. CASE Commit
  <2>1. flag' \in Flags /\ untold' \in Panics
    BY <1>5 DEF Commit, MainTypes, Flags, Panics
  <2> QED
    BY <1>5, <2>1 DEF Commit, MainTypes, Stages
<1>6. CASE Drop
  BY <1>6, DropTypes
<1>7. CASE UNCHANGED deviceVars
  BY <1>7 DEF MainTypes, deviceVars, main
<1> QED
  BY <1>1, <1>2, <1>3, <1>4, <1>5, <1>6, <1>7 DEF DeviceNext, Drop

(* The device's variables keep their types, Recovery's with them. *)
THEOREM DeviceTypes == DeviceSpec => []DeviceTypeOK
<1>1. DeviceSpec => []TypeOK
  BY DeviceImplementsRecovery, RecoveryTypes, PTL
<1>2. DeviceSpec => []MainTypes
  BY <1>1, InitMain, NextMain, PTL DEF DeviceSpec
<1>3. TypeOK /\ MainTypes => DeviceTypeOK
  BY DEF DeviceTypeOK, MainTypes
<1> QED
  BY <1>1, <1>2, <1>3, PTL

\* What the flag holds and what has not been said yet.
FlagInv ==
  /\ untold.level = "committed" => flag.magic /\ flag.panicked
  /\ flag.magic /\ flag.panicked => untold.level # "none"
  /\ at = "marked" => flag.panicked
  /\ PanicToldTruly

(* They agree at first. *)
LEMMA InitFlag == DeviceInit => FlagInv
BY DEF DeviceInit, FlagInv, PanicToldTruly, NoPanic, Flags

(* Every step keeps them in agreement. *)
LEMMA NextFlag == DeviceTypeOK /\ FlagInv /\ [DeviceNext]_deviceVars => FlagInv'
<1> SUFFICES ASSUME DeviceTypeOK, FlagInv, [DeviceNext]_deviceVars PROVE FlagInv'
  OBVIOUS
<1>0. flag \in Flags /\ untold \in Panics
  BY DEF DeviceTypeOK
<1>1. CASE Initialise
  <2>1. untold' = NoPanic /\ heard' = untold /\ ~flag'.panicked /\ at' = "init"
    BY <1>0, <1>1 DEF Initialise, Cleared, Flags
  <2>2. tookPanic' <=> flag.magic /\ flag.panicked
    BY <1>1 DEF Initialise
  <2> QED
    BY <2>1, <2>2 DEF FlagInv, PanicToldTruly, NoPanic
<1>2. CASE Recover \/ Sleep \/ EndWake \/ EndStartup \/ StartErase
  <2>1. UNCHANGED <<flag, untold, heard, tookPanic>> /\ at' # "marked"
    BY <1>2 DEF Recover, Sleep, EndWake, EndStartup, StartErase, DeepSleep
  <2> QED
    BY <2>1 DEF FlagInv, PanicToldTruly
<1>3. CASE Panic
  <2>1. untold'.level = "marked" /\ flag'.panicked /\ UNCHANGED <<heard, tookPanic>>
    BY <1>0, <1>3 DEF Panic, Flags
  <2> QED
    BY <2>1 DEF FlagInv, PanicToldTruly
<1>4. CASE Commit
  <2>1. untold'.level = "committed" /\ UNCHANGED <<heard, tookPanic>> /\ at' = "committed"
    BY <1>0, <1>4 DEF Commit, Panics
  <2>2. flag'.magic /\ flag'.panicked
    BY <1>0, <1>4 DEF Commit, Flags, FlagInv
  <2> QED
    BY <2>1, <2>2 DEF FlagInv, PanicToldTruly
<1>5. CASE Drop
  <2>1. at' = "reset" /\ tookPanic' = FALSE /\ heard' = NoPanic
    BY <1>5 DEF Drop, HaltReset, EraseReset, WatchdogReset, BrownOut, UsbReset, WakeFromSleep, CellChange, ResetWith
  <2> QED
    BY <1>5, <2>1, DropFlag DEF FlagInv, PanicToldTruly, NoPanic
<1>6. CASE UNCHANGED deviceVars
  BY <1>6 DEF FlagInv, PanicToldTruly, deviceVars, main
<1> QED
  BY <1>1, <1>2, <1>3, <1>4, <1>5, <1>6 DEF DeviceNext, Drop

(* A boot says of the boots before it that one panicked only if one did, and  *)
(* whenever one did and recorded it to the end.                               *)
THEOREM PanicTold == DeviceSpec => []PanicToldTruly
<1>1. FlagInv => PanicToldTruly
  BY DEF FlagInv
<1> QED
  BY <1>1, InitFlag, NextFlag, DeviceTypes, PTL DEF DeviceSpec

-----------------------------------------------------------------------------
(* The crashed-boot count. *)

\* What the flag and the reset reason say of a boot that had started, the count says
\* too: while a boot comes up, and in what it tells once it runs.
CountInv ==
  /\ phase = "running" => Crashed
  /\ untold.counted => Crashed
  /\ at \in Up \cup {"asleep"} => ~untold.counted
  /\ phase = "booting" /\ heard.counted => Crashed
  /\ hostReset <=> reset = "Usb"
  /\ PanicIsACrash

\* Of the watchdog's resets.
BiteInv ==
  /\ reset = "Watchdog" => cutAt \in {"booting", "running"}
  /\ phase = "booting" /\ reset = "Watchdog" /\ cutAt = "running" => Crashed
  /\ phase = "running" /\ reset = "Watchdog" /\ cutAt = "running" => afterCrash
  /\ told = "HardwareWatchdogReset" => reset = "Watchdog"

(* The first boot follows none that had started. *)
LEMMA InitCount == DeviceInit => CountInv /\ BiteInv
<1> SUFFICES ASSUME DeviceInit PROVE CountInv /\ BiteInv
  OBVIOUS
<1>1. phase = "booting" /\ at = "reset" /\ cutAt = "booting" /\ told = "none"
  BY DEF DeviceInit, Init
<1>2. ~untold.counted /\ ~heard.counted
  BY DEF DeviceInit, NoPanic
<1>3. hostReset <=> reset = "Usb"
  BY DEF DeviceInit, Init
<1> QED
  BY <1>1, <1>2, <1>3 DEF CountInv, BiteInv, PanicIsACrash, Up

(* A boot that recover lets start counts as crashed while it runs, and shows  *)
(* a crash if there was one and no host reset it.                             *)
LEMMA StartCounts ==
  TypeOK /\ (RecoverHost \/ RecoverStart) =>
    /\ phase = "booting" /\ phase' = "running" /\ Crashed' /\ UNCHANGED hostReset
    /\ ~hostReset => afterCrash' = Crashed
<1> SUFFICES ASSUME TypeOK, RecoverHost \/ RecoverStart
             PROVE  /\ phase = "booting" /\ phase' = "running" /\ Crashed' /\ UNCHANGED hostReset
                    /\ ~hostReset => afterCrash' = Crashed
  OBVIOUS
<1>1. Crashed'
  <2>1. CASE RecoverHost
    <3>1. Stored' = 1
      BY <2>1, StoredAfterSet DEF RecoverHost
    <3> QED
      BY <3>1 DEF Crashed
  <2>2. CASE RecoverStart
    <3>1. Stored' = NextCount(Stored) /\ Stored \in Counts
      BY <2>2, StoredAfterSet, StoredType DEF RecoverStart
    <3> QED
      BY <3>1, NextCountFacts DEF Crashed
  <2> QED
    BY <2>1, <2>2
<1> QED
  BY <1>1 DEF RecoverHost, RecoverStart

(* What leaves RTC RAM alone leaves the crash in it. *)
LEMMA CrashedUnchanged == UNCHANGED rtc => Crashed' = Crashed
BY StoredUnchanged DEF Crashed

(* Of the resets, only the one after the store is erased and the loss of the  *)
(* cell touch the count.                                                      *)
LEMMA DropCount ==
  StageInv /\ CountInv /\ Drop =>
    (UNCHANGED rtc /\ UNCHANGED untold) \/ ~untold'.counted
<1> SUFFICES ASSUME StageInv, CountInv, Drop PROVE (UNCHANGED rtc /\ UNCHANGED untold) \/ ~untold'.counted
  OBVIOUS
<1>1. CASE EraseReset
  BY <1>1 DEF EraseReset, CountInv, Up
<1>2. CASE CellChange
  BY <1>2 DEF CellChange, NoPanic
<1>3. CASE HaltReset \/ WatchdogReset \/ BrownOut \/ UsbReset \/ WakeFromSleep
  BY <1>3 DEF HaltReset, WatchdogReset, BrownOut, UsbReset, WakeFromSleep, Crash, HostReset, rtc
<1> QED
  BY <1>1, <1>2, <1>3 DEF Drop

(* Every step keeps what the panic flag and the count say of each other. *)
LEMMA NextCountInv == DeviceTypeOK /\ StageInv /\ CountInv /\ [DeviceNext]_deviceVars => CountInv'
<1> SUFFICES ASSUME DeviceTypeOK, StageInv, CountInv, [DeviceNext]_deviceVars PROVE CountInv'
  OBVIOUS
<1>0. TypeOK
  BY DEF DeviceTypeOK
<1>1. CASE Initialise
  <2>1. Crashed' = Crashed /\ phase = "booting" /\ UNCHANGED <<phase, hostReset, reset>>
    BY <1>1, CrashedUnchanged DEF Initialise, vars, StageInv
  <2>2. ~untold'.counted /\ heard' = untold
    BY <1>1 DEF Initialise, NoPanic
  <2> QED
    BY <2>1, <2>2 DEF CountInv, PanicIsACrash
<1>2. CASE Recover
  <2>0. UNCHANGED <<reset, tookPanic, untold, heard>> /\ ~untold.counted
    BY <1>2 DEF Recover, CountInv, Up
  <2>1. CASE RecoverHost \/ RecoverStart
    BY <1>0, <2>0, <2>1, StartCounts DEF CountInv, PanicIsACrash
  <2>2. CASE RecoverBackOff
    <3>1. phase' = "backoff" /\ UNCHANGED hostReset
      BY <2>2 DEF RecoverBackOff
    <3> QED
      BY <2>0, <3>1 DEF CountInv, PanicIsACrash
  <2> QED
    BY <1>2, <2>1, <2>2 DEF Recover
<1>3. CASE Sleep
  <2>1. phase' = "sleeping" /\ UNCHANGED <<hostReset, reset, untold>> /\ ~untold.counted
    BY <1>3 DEF Sleep, PlannedSleep, CountInv, Up
  <2> QED
    BY <2>1 DEF CountInv, PanicIsACrash
<1>4. CASE EndWake \/ EndStartup \/ StartErase
  <2>1. UNCHANGED <<phase, hostReset, rtc, afterCrash, reset, tookPanic, untold, heard>> /\ at \in Up
    BY <1>4 DEF EndWake, EndStartup, StartErase, vars, Up
  <2>2. Crashed' = Crashed
    BY <2>1, CrashedUnchanged
  <2> QED
    BY <2>1, <2>2 DEF CountInv, PanicIsACrash
<1>5. CASE Panic
  <2>1. UNCHANGED <<phase, hostReset, rtc, afterCrash, reset, tookPanic, heard>> /\ at' = "marked"
    BY <1>5 DEF Panic, vars
  <2>2. untold'.counted <=> phase = "running"
    BY <1>5 DEF Panic
  <2>3. Crashed' = Crashed
    BY <2>1, CrashedUnchanged
  <2> QED
    BY <2>1, <2>2, <2>3 DEF CountInv, PanicIsACrash, Up
<1>6. CASE Commit
  <2>1. UNCHANGED <<phase, hostReset, rtc, afterCrash, reset, tookPanic, heard>> /\ at' = "committed"
    BY <1>6 DEF Commit, vars
  <2>2. untold'.counted = untold.counted
    BY <1>6 DEF Commit, DeviceTypeOK, Panics
  <2>3. Crashed' = Crashed
    BY <2>1, CrashedUnchanged
  <2> QED
    BY <2>1, <2>2, <2>3 DEF CountInv, PanicIsACrash, Up
<1>7. CASE Drop
  <2>0. \E reason \in ResetReasons : ResetWith(reason)
    BY <1>7 DEF Drop, HaltReset, EraseReset, WatchdogReset, BrownOut, UsbReset, WakeFromSleep, CellChange,
                ResetReasons
  <2>1. at' = "reset" /\ phase' = "booting" /\ ~heard'.counted
    BY <1>7, <2>0, DropStage DEF ResetWith, NoPanic
  <2>2. hostReset' <=> reset' = "Usb"
    BY <1>7 DEF Drop, HaltReset, EraseReset, WatchdogReset, BrownOut, UsbReset, WakeFromSleep, CellChange,
                ResetWith, Restart, Crash, FactoryReset, HostReset, PowerCycle
  <2>3. untold'.counted => Crashed'
    BY <1>7, DropCount, CrashedUnchanged DEF CountInv
  <2> QED
    BY <2>1, <2>2, <2>3 DEF CountInv, PanicIsACrash, Up
<1>8. CASE UNCHANGED deviceVars
  <2>1. Crashed' = Crashed
    BY <1>8, CrashedUnchanged DEF deviceVars, vars
  <2> QED
    BY <1>8, <2>1 DEF CountInv, PanicIsACrash, deviceVars, main, vars
<1> QED
  BY <1>1, <1>2, <1>3, <1>4, <1>5, <1>6, <1>7, <1>8 DEF DeviceNext, Drop

(* Only one reset reason is told as the hardware watchdog's. *)
LEMMA WatchdogReason ==
  ASSUME NEW r \in ResetReasons, BootReason(r) = "HardwareWatchdogReset"
  PROVE  r = "Watchdog"
BY DEF BootReason, ResetReasons

(* Every step keeps what the reset reason and the count say of each other. *)
LEMMA NextBite == DeviceTypeOK /\ StageInv /\ CountInv /\ BiteInv /\ [DeviceNext]_deviceVars => BiteInv'
<1> SUFFICES ASSUME DeviceTypeOK, StageInv, CountInv, BiteInv, [DeviceNext]_deviceVars PROVE BiteInv'
  OBVIOUS
<1>0. TypeOK
  BY DEF DeviceTypeOK
<1>1. CASE Initialise \/ EndStartup \/ StartErase \/ Panic \/ Commit
  <2>1. UNCHANGED <<phase, rtc, afterCrash, reset, told, cutAt>>
    BY <1>1 DEF Initialise, EndStartup, StartErase, Panic, Commit, vars
  <2>2. Crashed' = Crashed
    BY <2>1, CrashedUnchanged
  <2> QED
    BY <2>1, <2>2 DEF BiteInv
<1>2. CASE EndWake
  <2>1. UNCHANGED <<phase, rtc, afterCrash, reset, cutAt>> /\ told' = BootReason(reset)
    BY <1>2 DEF EndWake, vars
  <2>2. Crashed' = Crashed
    BY <2>1, CrashedUnchanged
  <2>3. told' = "HardwareWatchdogReset" => reset' = "Watchdog"
    BY <2>1, WatchdogReason DEF DeviceTypeOK
  <2> QED
    BY <2>1, <2>2, <2>3 DEF BiteInv
<1>3. CASE Recover
  <2>0. UNCHANGED <<reset, told, cutAt>>
    BY <1>3 DEF Recover
  <2>1. CASE RecoverHost \/ RecoverStart
    <3>1. phase = "booting" /\ phase' = "running" /\ (~hostReset => afterCrash' = Crashed)
      BY <1>0, <2>1, StartCounts
    <3>2. reset = "Watchdog" => ~hostReset
      BY DEF CountInv
    <3> QED
      BY <2>0, <3>1, <3>2 DEF BiteInv
  <2>2. CASE RecoverBackOff
    <3>1. phase' = "backoff"
      BY <2>2 DEF RecoverBackOff
    <3> QED
      BY <2>0, <3>1 DEF BiteInv
  <2> QED
    BY <1>3, <2>1, <2>2 DEF Recover
<1>4. CASE Sleep
  <2>1. phase' = "sleeping" /\ UNCHANGED <<reset, told, cutAt>>
    BY <1>4 DEF Sleep, PlannedSleep
  <2> QED
    BY <2>1 DEF BiteInv
<1>5. CASE WatchdogReset
  <2>1. phase' = "booting" /\ reset' = "Watchdog" /\ cutAt' = phase /\ told' = "none" /\ UNCHANGED rtc
    BY <1>5 DEF WatchdogReset, ResetWith, Restart
  <2>2. phase \in {"booting", "running"}
    BY <1>5 DEF WatchdogReset, StageInv, Stages, Up
  <2>3. Crashed' = Crashed
    BY <2>1, CrashedUnchanged
  <2> QED
    BY <2>1, <2>2, <2>3 DEF BiteInv, CountInv
<1>6. CASE HaltReset \/ EraseReset \/ BrownOut \/ UsbReset \/ WakeFromSleep \/ CellChange
  <2>1. reset' # "Watchdog" /\ told' = "none"
    BY <1>6 DEF HaltReset, EraseReset, BrownOut, UsbReset, WakeFromSleep, CellChange, ResetWith
  <2> QED
    BY <2>1 DEF BiteInv
<1>7. CASE UNCHANGED deviceVars
  <2>1. Crashed' = Crashed
    BY <1>7, CrashedUnchanged DEF deviceVars, vars
  <2> QED
    BY <1>7, <2>1 DEF BiteInv, deviceVars, main, vars
<1> QED
  BY <1>1, <1>2, <1>3, <1>4, <1>5, <1>6, <1>7 DEF DeviceNext

(* All of it in every reachable state. *)
LEMMA DeviceInvariance == DeviceSpec => [](CountInv /\ BiteInv)
BY InitCount, NextCountInv, NextBite, StageTheorem, DeviceTypes, PTL DEF DeviceSpec

(* A boot that is told of a panic in one that had started shows a crash. *)
THEOREM PanicShown == DeviceSpec => []PanicIsACrash
<1>1. CountInv => PanicIsACrash
  BY DEF CountInv
<1> QED
  BY <1>1, DeviceInvariance, PTL

(* The controller is told of the watchdog only after a boot that was awake,   *)
(* and then the boot shows a crash, if that one had started.                  *)
THEOREM WatchdogShown == DeviceSpec => []WatchdogIsACrash
<1>1. BiteInv => WatchdogIsACrash
  BY DEF BiteInv, WatchdogIsACrash
<1> QED
  BY <1>1, DeviceInvariance, PTL
=============================================================================
