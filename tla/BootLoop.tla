------------------------------ MODULE BootLoop ------------------------------
(***************************************************************************)
(* One boot of the device: run_wake, the stack's startup, then run_boot    *)
(* (core/src/app.rs), over the ports of fw/src/ports.rs.  The loop is one  *)
(* async task.  What it does between two awaits takes no time here, and the*)
(* executor's other tasks - the button's, the protocol stack - run only    *)
(* while it awaits.  The person at the pin moves at any moment.  Instants  *)
(* are kept as the time left until them (never below 0), or, for           *)
(* idle_since, the time gone since.                                        *)
(***************************************************************************)
EXTENDS ButtonFsm, Sequences, FiniteSets, FiniteSetsExt

CONSTANTS
  SamplePeriod,       \* SAMPLE_PERIOD
  HealthyAfter,       \* REBOOT_COUNT_HEALTHY_AFTER
  WakeHold,           \* BUTTON_WAKE_HOLD
  CalibrationHold,    \* CALIBRATION_ACTIVE_HOLD
  ActiveThreshold,    \* ACTIVE_THRESHOLD_MS
  PersistDebounce,    \* RESUMPTION_PERSIST_DEBOUNCE
  Settle,             \* SLEEP_SETTLE
  SleepMin,           \* SLEEP_MIN
  SoilTime,           \* how long read_soil_mv takes
  BatteryTime,        \* how long read_battery_mv takes
  CaptureTime,        \* how long one reference takes: SOIL_CAL_HOLD and a reading
  StartupTime,        \* how long stack.startup takes, between the two phases
  IdlePeriod,         \* LIT_POLL_PERIOD_MS: the stack is idle for as long before it polls
  WatchdogTimeout,    \* WATCHDOG_TIMEOUT
  EdgeDepth,          \* EDGE_QUEUE_DEPTH
  Causes,             \* the wake causes considered
  MaxPresses,         \* bound: presses of the person during a boot, by its cause
  MaxMessages         \* bound: what peers do to the stack during a boot, by its cause

WakeCauses == {"Cold", "Timer", "Button"}

\* The order tuning.rs gives its durations, as far as the boot depends on it.
TuningOrder ==
  /\ \A d \in {SamplePeriod, HealthyAfter, WakeHold, CalibrationHold, ActiveThreshold, PersistDebounce,
               Settle, SleepMin, SoilTime, BatteryTime, CaptureTime, StartupTime, IdlePeriod,
               EdgeDepth} : d \in Nat \ {0}
  /\ PersistDebounce < ActiveThreshold
  /\ SoilTime + BatteryTime < ActiveThreshold
  /\ SoilTime + BatteryTime + StartupTime < SamplePeriod
  /\ CaptureTime < SamplePeriod
  /\ Debounce < Hold /\ Window < Hold /\ Hold < SamplePeriod
  /\ 2 * CaptureTime + SoilTime + BatteryTime < CalibrationHold
  /\ SoilTime + BatteryTime + Settle < IdlePeriod
  /\ WatchdogTimeout \in Nat /\ WatchdogTimeout >= 2 * SamplePeriod

ASSUME BootTuning ==
  /\ TuningOrder
  /\ Causes \subseteq WakeCauses
  /\ MaxPresses \in [Causes -> Nat] /\ MaxMessages \in [Causes -> Nat]

VARIABLES
  \* the App, and where its task is
  button, nextSample, sampleWithLed, calibrationRequested,
  rebootCountPersisted, rebootCountDue,
  idleSince,            \* time since idle_since, or NotIdle
  pc, phase,
  left,                 \* what is left of the await the task is in
  outcome,
  \* the ports: the channel of edges, the power-mode notification
  edges, icdChanged,
  \* the protocol stack (external)
  lit, power,
  holdLeft,             \* the stack stays active at least this long
  idleLeft,             \* when the stack polls again
  dirtyLeft,            \* a resumption record waits this long to be written; 0: clean
  messages,
  \* the person at the pin, and the button task
  pin, presses,
  sent,                 \* the level that the last edge the task sent leaves the pin at
  latched,              \* the edge the task waits for has fired and is not sent yet
  \* what the properties need to know of the past
  wake,                 \* why this boot happened
  trueIdle,             \* how long the stack has been idle, up to IdlePeriod
  sinceFed,             \* time since the watchdog was fed
  overdue,              \* how long an armed button deadline has been due
  pressFor,             \* how long the pin has been down, up to Debounce
  owed,                 \* a press as long as the debounce is over and undecided
  wakeReadings, rebootWrites

app == <<button, nextSample, sampleWithLed, calibrationRequested, rebootCountPersisted,
         rebootCountDue, idleSince>>
task == <<pc, phase, left, outcome>>
stack == <<lit, power, holdLeft, idleLeft, dirtyLeft, messages>>
atPin == <<pin, presses, pressFor, sent, latched>>
past == <<wake, trueIdle, sinceFed, overdue, owed, wakeReadings, rebootWrites>>
vars == <<app, task, edges, icdChanged, stack, atPin, past>>

NotIdle == -1

Awaits == {"waiting", "soil", "battery", "calDry", "calWet", "startup"}
PCs == Awaits \cup {"arm", "step", "decide", "tail", "over"}

\* The task is in an await, so the executor can poll others and time can pass.
Awaiting == pc \in Awaits

-----------------------------------------------------------------------------
(* The protocol stack's side of request_active (external): the stack turns   *)
(* active, if it was not, and stays so for at least d.                       *)
RequestActive(d) ==
  /\ power' = "Active"
  /\ holdLeft' = IF holdLeft > d THEN holdLeft ELSE d
  /\ icdChanged' = IF power = "Idle" THEN TRUE ELSE icdChanged
  /\ UNCHANGED <<lit, idleLeft, dirtyLeft, messages>>

\* run_wake up to its loop: App::new, and the active window a button press asks for.
Init ==
  /\ wake \in Causes
  \* main.rs queues the release it missed; the button task, the press still going on.
  /\ pin \in IF wake = "Button" THEN {"up", "down"} ELSE {"up"}
  /\ edges = IF wake # "Button" THEN <<>> ELSE IF pin = "up" THEN <<"Rising">> ELSE <<"Falling">>
  /\ button = NewButton(wake = "Button")
  /\ nextSample = 0
  /\ sampleWithLed = FALSE
  /\ calibrationRequested = FALSE
  /\ rebootCountPersisted = (wake # "Cold")
  /\ rebootCountDue = HealthyAfter
  /\ idleSince = NotIdle
  /\ pc = "arm" /\ phase = "wake" /\ left = 0 /\ outcome = "none"
  /\ lit \in BOOLEAN
  /\ power = "Active"
  /\ holdLeft = IF wake = "Button" THEN WakeHold ELSE ActiveThreshold
  /\ idleLeft = 0 /\ dirtyLeft = 0 /\ messages = 0
  /\ icdChanged = FALSE
  /\ presses = 0 /\ sent = pin /\ latched = FALSE
  /\ pressFor = IF pin = "down" THEN Debounce ELSE 0
  /\ trueIdle = 0 /\ sinceFed = 0 /\ overdue = 0
  /\ owed = (wake = "Button" /\ pin = "up")
  /\ wakeReadings = 0 /\ rebootWrites = 0

-----------------------------------------------------------------------------
(* The waits. *)

\* The boot's other deadlines, besides the next sample.
Candidates ==
  (IF rebootCountPersisted THEN {} ELSE {rebootCountDue})
    \cup (IF HasDeadline(button) THEN {button.left} ELSE {})
    \cup (IF idleSince = NotIdle THEN {} ELSE {Settle - idleSince})

\* Mutant: a candidate that is due now is considered.
NextDeadlineDue == Min({nextSample} \cup Candidates)
\* App::next_deadline: a candidate that has passed is not considered.
NextDeadline == Min({nextSample} \cup {c \in Candidates : c > 0})

\* Mutant: only the calibration's delays feed the watchdog.
WaitUnfed(d) ==
  /\ pc' = "waiting"
  /\ left' = d
  /\ UNCHANGED <<app, phase, outcome, edges, icdChanged, stack, atPin, past>>

\* next_event feeds the watchdog and waits.
Wait(d) ==
  /\ pc' = "waiting"
  /\ left' = d
  /\ sinceFed' = 0
  /\ UNCHANGED <<app, phase, outcome, edges, icdChanged, stack, atPin, wake, trueIdle, overdue, owed,
                 wakeReadings, rebootWrites>>

GoOn(to) ==
  /\ pc' = to
  /\ UNCHANGED <<app, phase, left, outcome, edges, icdChanged, stack, atPin, past>>

\* Mutant: the reading does not wait for the waking press.
ArmWakeImpatient ==
  /\ pc = "arm" /\ phase = "wake"
  /\ GoOn("step")

\* The head of run_wake's loop.
ArmWake ==
  /\ pc = "arm" /\ phase = "wake"
  /\ IF WakingPressPending(button) THEN Wait(button.left) ELSE GoOn("step")

\* run_boot's call of next_event.
ArmBoot ==
  /\ pc = "arm" /\ phase = "operational"
  /\ Wait(NextDeadline)

-----------------------------------------------------------------------------
(* Events, and what on_event does with them.                                 *)

\* Where the loop goes with an event that asks for nothing more.
Resume == pc' = IF phase = "wake" THEN "arm" ELSE "step"

OnSampleNow ==
  /\ RequestActive(ActiveThreshold)
  /\ sampleWithLed' = TRUE
  /\ nextSample' = 0
  /\ Resume
  /\ UNCHANGED <<calibrationRequested, outcome>>

OnCalibrate ==
  /\ RequestActive(CalibrationHold)
  /\ calibrationRequested' = TRUE
  /\ Resume
  /\ UNCHANGED <<sampleWithLed, nextSample, outcome>>

OnFactoryReset ==
  /\ outcome' = "FactoryReset"
  /\ pc' = "over"
  /\ UNCHANGED <<sampleWithLed, nextSample, calibrationRequested, icdChanged, stack>>

OnNothing ==
  /\ Resume
  /\ UNCHANGED <<sampleWithLed, nextSample, calibrationRequested, outcome, icdChanged, stack>>

\* on_event(Deadline)
HandleDeadline ==
  LET gesture == GestureAtDeadline(button)
  IN  /\ button' = OnDeadline(button)
      /\ \/ gesture = "SampleNow" /\ OnSampleNow
         \/ gesture = "Calibrate" /\ OnCalibrate
         \/ gesture = "FactoryReset" /\ OnFactoryReset
         \/ gesture = "none" /\ OnNothing
      /\ owed' = IF button.state = "Window" /\ DeadlineDue(button) THEN FALSE ELSE owed
      /\ overdue' = IF DeadlineDue(button) THEN 0 ELSE overdue
      /\ UNCHANGED <<rebootCountPersisted, rebootCountDue, idleSince, phase, left, edges, atPin,
                     wake, trueIdle, sinceFed, wakeReadings, rebootWrites>>

\* on_event(Button(edge))
HandleEdge ==
  /\ button' = OnEdge(button, Head(edges))
  /\ edges' = Tail(edges)
  /\ OnNothing
  /\ overdue' = IF DeadlineDue(button) /\ DeadlineDue(button') THEN overdue ELSE 0
  /\ UNCHANGED <<rebootCountPersisted, rebootCountDue, idleSince, phase, left, atPin,
                 wake, trueIdle, sinceFed, owed, wakeReadings, rebootWrites>>

\* on_event(Icd): the next step looks at the stack again.
HandleIcd ==
  /\ icdChanged' = FALSE
  /\ Resume
  /\ UNCHANGED <<app, phase, left, outcome, edges, stack, atPin, past>>

\* EspPorts::next_event: select3 polls the timer, the edges, the notification.
DeadlineEvent == pc = "waiting" /\ left = 0 /\ HandleDeadline
ButtonEvent == pc = "waiting" /\ left > 0 /\ edges # <<>> /\ HandleEdge
IcdEvent == pc = "waiting" /\ left > 0 /\ edges = <<>> /\ icdChanged /\ HandleIcd

-----------------------------------------------------------------------------
(* step_wake: the calibration a gesture asked for, then the reading that is  *)
(* due, until nothing is.                                                    *)

Begin(what, time) == pc' = what /\ left' = time

\* calibration::run, up to the first capture; each capture feeds the watchdog.
StartCalibration ==
  /\ pc = "step" /\ calibrationRequested
  /\ calibrationRequested' = FALSE
  /\ Begin("calDry", CaptureTime)
  /\ sinceFed' = 0
  /\ UNCHANGED <<button, nextSample, sampleWithLed, rebootCountPersisted, rebootCountDue, idleSince, phase,
                 outcome, edges, icdChanged, stack, atPin, wake, trueIdle, overdue, owed, wakeReadings,
                 rebootWrites>>

CaptureWet ==
  /\ pc = "calDry" /\ left = 0
  /\ Begin("calWet", CaptureTime)
  /\ sinceFed' = 0
  /\ UNCHANGED <<app, phase, outcome, edges, icdChanged, stack, atPin, wake, trueIdle, overdue, owed,
                 wakeReadings, rebootWrites>>

\* The references are judged and stored; accepted or not, the loop goes on.
EndCalibration ==
  /\ pc = "calWet" /\ left = 0
  /\ GoOn("step")

SampleDue == pc = "step" /\ nextSample = 0

StartReading ==
  /\ SampleDue /\ ~calibrationRequested
  /\ sampleWithLed' = FALSE
  /\ Begin("soil", SoilTime)
  /\ wakeReadings' = IF phase = "wake" THEN wakeReadings + 1 ELSE wakeReadings
  /\ UNCHANGED <<button, nextSample, calibrationRequested, rebootCountPersisted, rebootCountDue, idleSince,
                 phase, outcome, edges, icdChanged, stack, atPin, wake, trueIdle, sinceFed, overdue, owed,
                 rebootWrites>>

ReadBattery ==
  /\ pc = "soil" /\ left = 0
  /\ Begin("battery", BatteryTime)
  /\ UNCHANGED <<app, phase, outcome, edges, icdChanged, stack, atPin, past>>

EndReading ==
  /\ pc = "battery" /\ left = 0
  /\ nextSample' = SamplePeriod
  /\ pc' = "step"
  /\ UNCHANGED <<button, sampleWithLed, calibrationRequested, rebootCountPersisted, rebootCountDue, idleSince,
                 phase, left, outcome, edges, icdChanged, stack, atPin, past>>

\* Nothing is due. The wake phase ends and the stack starts up; the operational
\* phase goes on to the rest of step.
NothingDue ==
  /\ pc = "step" /\ ~calibrationRequested /\ nextSample > 0
  /\ IF phase = "wake"
     THEN phase' = "operational" /\ Begin("startup", StartupTime)
     ELSE pc' = "decide" /\ UNCHANGED <<phase, left>>
  /\ UNCHANGED <<app, outcome, edges, icdChanged, stack, atPin, past>>

\* run_boot begins with a step.
EndStartup ==
  /\ pc = "startup" /\ left = 0
  /\ GoOn("step")

-----------------------------------------------------------------------------
(* The rest of App::step. *)

\* Mutant: the write leaves the flag alone.
PersistRebootCountAgain ==
  /\ pc = "decide" /\ ~rebootCountPersisted /\ rebootCountDue = 0
  /\ rebootWrites' = rebootWrites + 1
  /\ pc' = "arm"
  /\ UNCHANGED <<app, phase, left, outcome, edges, icdChanged, stack, atPin, wake, trueIdle, sinceFed,
                 overdue, owed, wakeReadings>>

\* The reboot count, once the boot has proved it is not a boot loop.
PersistRebootCount ==
  /\ pc = "decide" /\ ~rebootCountPersisted /\ rebootCountDue = 0
  /\ rebootCountPersisted' = TRUE
  /\ rebootWrites' = rebootWrites + 1
  /\ pc' = "arm"
  /\ UNCHANGED <<button, nextSample, sampleWithLed, calibrationRequested, rebootCountDue, idleSince, phase,
                 left, outcome, edges, icdChanged, stack, atPin, wake, trueIdle, sinceFed, overdue, owed,
                 wakeReadings>>

\* Mutants: an idle period is not over when the stack turns active; it begins
\* again with every step.
TrackIdleRestarts == IF power = "Idle" THEN 0 ELSE NotIdle
TrackIdleForgetful == IF power = "Idle" /\ idleSince = NotIdle THEN 0 ELSE idleSince

\* track_idle
TrackIdle ==
  CASE power # "Idle" -> NotIdle
    [] power = "Idle" /\ idleSince = NotIdle -> 0
    [] OTHER -> idleSince

\* sleep_for gives a length: every condition is a reason the device is needed.
MaySleep(since) == lit /\ power = "Idle" /\ ~IsActive(button) /\ since >= Settle

\* Mutant: the sleep is as long as the poll interval, however long the stack has been idle.
SleepForWholePeriod == Max({IdlePeriod, SleepMin})
\* The sleep's length, for_ms: until the stack's poll is due, and never below the floor.
SleepFor == Max({Min({IdlePeriod, idleLeft}), SleepMin})

\* Mutant: the edges that came while the boot was busy are not looked at.
DrainNothing == button

\* drain_button: every waiting edge, all at the same instant.
Drain ==
  LET after[n \in 0..Len(edges)] == IF n = 0 THEN button ELSE OnEdge(after[n - 1], edges[n])
  IN  after[Len(edges)]

Decide ==
  /\ pc = "decide"
  /\ rebootCountPersisted \/ rebootCountDue > 0
  /\ idleSince' = TrackIdle
  /\ \/ /\ ~MaySleep(TrackIdle)
        /\ pc' = "arm"
        /\ UNCHANGED <<button, edges>>
     \/ /\ MaySleep(TrackIdle)
        /\ button' = Drain
        /\ edges' = <<>>
        /\ \/ /\ IsActive(Drain)
              /\ pc' = "arm"
           \/ /\ ~IsActive(Drain)
              /\ pc' = "tail"
  /\ UNCHANGED <<rebootCountPersisted, rebootWrites, outcome>>
  /\ UNCHANGED <<nextSample, sampleWithLed, calibrationRequested, rebootCountDue, phase, left, icdChanged,
                 stack, atPin, wake, trueIdle, sinceFed, overdue, owed, wakeReadings>>

\* From the last look at the channel to the sleep, without an await: the reboot count,
\* which is a write to flash, and main's way down to deep_sleep.
PowerDown ==
  /\ pc = "tail"
  /\ rebootCountPersisted' = TRUE
  /\ rebootWrites' = IF rebootCountPersisted THEN rebootWrites ELSE rebootWrites + 1
  /\ outcome' = "Sleep"
  /\ pc' = "over"
  /\ UNCHANGED <<button, nextSample, sampleWithLed, calibrationRequested, rebootCountDue, idleSince, phase,
                 left, edges, icdChanged, stack, atPin, wake, trueIdle, sinceFed, overdue, owed, wakeReadings>>

-----------------------------------------------------------------------------
(* The person at the pin, at any moment of the boot, and the button task,    *)
(* which the executor polls when the boot loop awaits.  The interrupt fires  *)
(* if the edge is the one that the task waits for.                           *)

Press ==
  /\ pc # "over" /\ pin = "up" /\ presses < MaxPresses[wake]
  /\ pin' = "down"
  /\ presses' = presses + 1
  /\ pressFor' = 0
  /\ latched' = (latched \/ sent = "up")
  /\ UNCHANGED <<app, task, edges, icdChanged, stack, sent, past>>

Release ==
  /\ pc # "over" /\ pin = "down"
  /\ pin' = "up"
  /\ pressFor' = 0
  /\ latched' = (latched \/ sent = "down")
  /\ owed' = IF pressFor = Debounce THEN TRUE ELSE owed
  /\ UNCHANGED <<app, task, edges, icdChanged, stack, presses, sent, wake, trueIdle, sinceFed, overdue,
                 wakeReadings, rebootWrites>>

\* The task has an edge to send, and the channel has room for it.
Sendable == latched /\ Len(edges) < EdgeDepth

\* After a press the task waits for a release that is still to come.
SendFalling ==
  /\ Awaiting /\ Sendable /\ sent = "up"
  /\ edges' = Append(edges, "Falling")
  /\ sent' = "down" /\ latched' = FALSE
  /\ UNCHANGED <<app, task, icdChanged, stack, pin, presses, pressFor, past>>

\* After a release it looks at the pin, and has a press to send if it is down.
SendRising ==
  /\ Awaiting /\ Sendable /\ sent = "down"
  /\ edges' = Append(edges, "Rising")
  /\ sent' = "up" /\ latched' = (pin = "down")
  /\ UNCHANGED <<app, task, icdChanged, stack, pin, presses, pressFor, past>>

-----------------------------------------------------------------------------
(* The rest of the world. *)

StackRuns == Awaiting /\ phase = "operational" /\ pc # "startup"

\* A peer's message (external): the stack is active for the threshold after it, and
\* a resumption record may have changed.
Message ==
  /\ StackRuns /\ messages < MaxMessages[wake]
  /\ power' = "Active"
  /\ holdLeft' = IF holdLeft > ActiveThreshold THEN holdLeft ELSE ActiveThreshold
  /\ dirtyLeft' \in {dirtyLeft, PersistDebounce}
  /\ icdChanged' = IF power = "Idle" THEN TRUE ELSE icdChanged
  /\ messages' = messages + 1
  /\ trueIdle' = 0
  /\ UNCHANGED <<app, task, edges, lit, idleLeft, atPin, wake, sinceFed, overdue, owed, wakeReadings,
                 rebootWrites>>

\* A peer registers for check-ins, or the last one unregisters (external).
Register ==
  /\ StackRuns /\ messages < MaxMessages[wake] /\ power = "Active"
  /\ lit' = ~lit
  /\ messages' = messages + 1
  /\ UNCHANGED <<app, task, edges, icdChanged, power, holdLeft, idleLeft, dirtyLeft, atPin, past>>

\* The active window ends (external).
GoIdle ==
  /\ StackRuns /\ power = "Active" /\ holdLeft = 0
  /\ power' = "Idle"
  /\ idleLeft' = IdlePeriod
  /\ icdChanged' = TRUE
  /\ trueIdle' = 0
  /\ UNCHANGED <<app, task, edges, lit, holdLeft, dirtyLeft, messages, atPin, wake, sinceFed, overdue, owed,
                 wakeReadings, rebootWrites>>

\* The idle period ends and the stack polls (external).
Poll ==
  /\ StackRuns /\ power = "Idle" /\ idleLeft = 0
  /\ power' = "Active"
  /\ holdLeft' = ActiveThreshold
  /\ icdChanged' = TRUE
  /\ trueIdle' = 0
  /\ UNCHANGED <<app, task, edges, lit, idleLeft, dirtyLeft, messages, atPin, wake, sinceFed, overdue, owed,
                 wakeReadings, rebootWrites>>

\* Both tasks are where they are until the clock moves on.
Quiet == left > 0 /\ ~Sendable /\ (pc = "waiting" => edges = <<>> /\ ~icdChanged)

\* What is left of a wait d later; a passed instant stays passed (saturating_since).
\* Mutant: a plain subtraction.
LessPlain(t, d) == t - d
Less(t, d) == IF t > d THEN t - d ELSE 0

Tick ==
  /\ Awaiting /\ Quiet
  /\ (StackRuns /\ power = "Idle") => idleLeft > 0
  /\ button' = Elapse(button, 1)
  /\ nextSample' = Less(nextSample, 1)
  /\ rebootCountDue' = Less(rebootCountDue, 1)
  /\ idleSince' = IF idleSince \in {NotIdle, Settle} THEN idleSince ELSE idleSince + 1
  /\ left' = left - 1
  /\ holdLeft' = Less(holdLeft, 1)
  /\ idleLeft' = Less(idleLeft, 1)
  /\ dirtyLeft' = Less(dirtyLeft, 1)
  /\ pressFor' = IF pin = "down" /\ pressFor < Debounce THEN pressFor + 1 ELSE pressFor
  /\ trueIdle' =
       CASE power # "Idle" -> 0 [] trueIdle < IdlePeriod -> trueIdle + 1 [] OTHER -> trueIdle
  /\ sinceFed' = sinceFed + 1
  /\ overdue' = IF DeadlineDue(button) THEN overdue + 1 ELSE 0
  /\ UNCHANGED <<sampleWithLed, calibrationRequested, rebootCountPersisted, pc, phase, outcome, edges,
                 icdChanged, lit, power, messages, pin, presses, sent, latched, wake, owed, wakeReadings, rebootWrites>>

\* The boot is over.
Over == pc = "over" /\ UNCHANGED vars

Task ==
  \/ ArmWake \/ ArmBoot
  \/ DeadlineEvent \/ ButtonEvent \/ IcdEvent
  \/ StartCalibration \/ CaptureWet \/ EndCalibration
  \/ StartReading \/ ReadBattery \/ EndReading
  \/ NothingDue \/ EndStartup
  \/ PersistRebootCount \/ Decide \/ PowerDown

Person == Press \/ Release

ButtonTask == SendFalling \/ SendRising

Stack == Message \/ Register \/ GoIdle \/ Poll

Next == Task \/ Person \/ ButtonTask \/ Stack \/ Tick \/ Over

Spec == Init /\ [][Next]_vars

\* The executor runs the two tasks, time passes, and the stack polls when its idle period
\* ends. The stack shares the task with the boot loop (main.rs, select3), so it gets
\* its turn at every await: what it keeps being able to do there, it does. Nobody has
\* to press a button or send a message.
FairSpec == Spec /\ WF_vars(Task) /\ WF_vars(ButtonTask) /\ WF_vars(Tick) /\ WF_vars(Poll) /\ SF_vars(GoIdle)

-----------------------------------------------------------------------------
TypeOK ==
  /\ button \in ButtonValues
  /\ nextSample \in 0..SamplePeriod
  /\ sampleWithLed \in BOOLEAN /\ calibrationRequested \in BOOLEAN
  /\ rebootCountPersisted \in BOOLEAN /\ rebootCountDue \in 0..HealthyAfter
  /\ idleSince \in NotIdle..Settle
  /\ pc \in PCs /\ phase \in {"wake", "operational"}
  /\ left \in Nat /\ outcome \in {"none", "Sleep", "FactoryReset"}
  /\ edges \in Seq(Edges) /\ icdChanged \in BOOLEAN
  /\ lit \in BOOLEAN /\ power \in {"Active", "Idle"}
  /\ holdLeft \in Nat /\ idleLeft \in Nat /\ dirtyLeft \in 0..PersistDebounce
  /\ messages \in Nat /\ pin \in {"up", "down"} /\ presses \in Nat
  /\ sent \in {"up", "down"} /\ latched \in BOOLEAN
  /\ wake \in WakeCauses /\ trueIdle \in 0..IdlePeriod /\ sinceFed \in Nat /\ overdue \in Nat
  /\ pressFor \in 0..Debounce /\ owed \in BOOLEAN /\ wakeReadings \in Nat /\ rebootWrites \in Nat

(* Nothing is measured before the press that woke the device is decided, and  *)
(* the wake phase measures exactly once, whatever the press asked for: the    *)
(* gesture arms the reading the phase was going to take (app.rs, run_wake).   *)
OneReadingPerWake ==
  /\ phase = "wake" /\ pc \in {"soil", "battery", "calDry", "calWet"} => ~WakingPressPending(button)
  /\ phase = "operational" => wakeReadings = 1

(* The device sleeps only after the stack has been idle without a break for   *)
(* the settle time, as a long-idle device, and with no resumption record      *)
(* still waiting for its write (app.rs, track_idle and sleep_for; tuning.rs,  *)
(* RESUMPTION_PERSIST_DEBOUNCE).                                              *)
SleepOnlySettled ==
  outcome = "Sleep" => lit /\ power = "Idle" /\ trueIdle >= Settle /\ dirtyLeft = 0

(* The sleep ends before the stack's poll is late by the floor: the idle time *)
(* so far counts, and a device that decides late sleeps shorter (app.rs,      *)
(* sleep_for; tuning.rs, LIT_POLL_PERIOD_MS: the parent's child table).       *)
PollNotMissed ==
  outcome = "Sleep" =>
    /\ SleepFor >= SleepMin
    /\ trueIdle + SleepFor <= IdlePeriod \/ SleepFor = SleepMin

(* The device never sleeps with an edge unread, in the middle of a gesture,   *)
(* with its reading due, or with a press or a release that the machine missed *)
(* though the button task sent it: if the button is down, or was since, it is *)
(* an edge that the task has not been polled for (app.rs, step;               *)
(* fw/src/button.rs, run).                                                    *)
SleepOnlyAtRest ==
  outcome = "Sleep" =>
    /\ edges = <<>> /\ ~IsActive(button) /\ sent = "up"
    /\ pin = "down" => latched
    /\ ~calibrationRequested /\ nextSample > 0

(* A reboot is counted once, never on a wake from sleep, never before the     *)
(* boot has lasted or reached its planned sleep, and always by then (app.rs,  *)
(* App::new and step).                                                        *)
RebootCountedOnce ==
  /\ rebootWrites <= IF wake = "Cold" THEN 1 ELSE 0
  /\ rebootWrites > 0 => rebootCountDue = 0 \/ outcome = "Sleep"
  /\ outcome = "Sleep" /\ wake = "Cold" => rebootWrites = 1

(* Nothing the boot does in good order trips the watchdog, though only        *)
(* next_event and delay feed it (tuning.rs, WATCHDOG_TIMEOUT).                *)
WatchdogFed == sinceFed < WatchdogTimeout

(* app.rs, next_deadline: "a deadline that has already passed is one this     *)
(* boot has finished with". Then no wait begins while one of the button's has *)
(* passed and its gesture is still to be answered.                            *)
PassedIsFinished == pc = "waiting" /\ left > 0 => ~DeadlineDue(button)

(* How late the answer can be then: no more than a reading and the wait for   *)
(* the next one (app.rs, step_wake and next_deadline).                        *)
AnswerNotTooLate == overdue <= SoilTime + BatteryTime + SamplePeriod

(* ports.rs: a boot drains the edges before it sleeps "so a press that        *)
(* arrived while it was busy cannot be mistaken for an idle device".          *)
BusyPressSeen == outcome = "Sleep" => ~owed

(* app.rs, step: "Nothing may be missed between deciding to sleep and         *)
(* sleeping: an edge that arrived while this boot was busy would otherwise be *)
(* read as an idle device".                                                   *)
NothingMissed == outcome = "Sleep" => ~latched

(* The drain keeps one of these two promises at least, whichever lines one    *)
(* believes: a boot that sleeps over a press in each of the two ways refutes  *)
(* both.                                                                      *)
DrainKeepsAPromise == BusyPressSeen \/ NothingMissed

(* A long-idle device's boots end: once a peer has registered for good, each  *)
(* of them sleeps or resets (app.rs, run_boot).                               *)
BootEnds == <>[]lit => []<>(outcome # "none")

(* world.rs, next_event: a wait for an instant that has gone would be "a wait *)
(* nothing can end". The boot loop never asks for one.                        *)
WaitsForLater == [][pc = "arm" /\ pc' = "waiting" => left' > 0]_vars
=============================================================================
