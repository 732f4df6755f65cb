# Verification of the soil moisture sensor

This directory holds TLA+ modules of the firmware in `core/`, `fw/` and `node/`,
the TLC configurations that model-check them, and TLAPS proofs about them. The
simulator in `sim/` is modelled as the second set of ports it is. File names
below are relative to the repository. `PROJECT.json` is the index: it lists the
components, the runs, the mutants, the lines each definition models, the
findings, the hazards and the theorems.

## 1. The system

The device is a battery sensor that sleeps for half an hour at a time. A sleep
ends in a reboot, so the life of the device is a sequence of boots. Every boot
finds out why it happened (cold, timer, button), lets a waking press finish,
takes one reading, starts the Matter stack, reports, waits for the stack to go
idle, and powers the chip down again.

| Component | State | Operations | Talks to |
|---|---|---|---|
| gesture machine, `core/src/button.rs` | state, deadline, clicks, waking | `on_edge`, `on_deadline`, `next_deadline`, `is_active`, `waking_press_pending` | called by the boot loop |
| boot loop, `core/src/app.rs` | `App`: machine, next sample, flags, `idle_since`, reboot count | `run_wake`, `run_boot`, `step`, `step_wake`, `on_event`, `next_deadline`, `sleep_for`, `drain_button` | everything below, through `Ports` |
| ports, `fw/src/ports.rs` | the borrowed drivers | `next_event` (select of timer, edges, stack), `delay`, `request_active`, `feed_watchdog` | executor, stack, watchdog |
| button task, `fw/src/button.rs` | where it awaits | edge to channel | pin interrupt, channel of 8 edges |
| calibration, `core/src/calibration.rs` | two captured references | `run`, `capture_and_store` | store |
| store, `fw/src/store.rs` | two items in flash; crash count and panic flag in RTC RAM, each with its magic | `load_calibration`, `store_calibration`, `crashed_boots`, `set_crashed_boots`, `set_panic_flag`, `take_panic_flag` | flash, recovery |
| recovery, `core/src/recovery.rs` | none | `recover` | the count, `main` |
| flash, `fw/src/flash.rs` | read-ahead window and buffer | `read`, `erase`, `write` | both users of the flash |
| clusters, `node/src/` | last reported value, signal | `report`, `run`, attribute reads | boot loop, stack |
| LEDs, `core/src/led.rs`, `fw/src/leds.rs` | queue of 4 | `run`, `blink` | boot loop |
| arithmetic, `core/src/math.rs` | none | percentage, battery curve, deadband | boot loop, clusters |
| composition root, `fw/src/main.rs` | none of its own | start-up order, the two phases, the planned ends, `custom_halt`, `boot_reason`, `deep_sleep` | all |
| simulator, `sim/src/world.rs` | a clock, a script of edges, a modelled stack, what the boot has heard of it | the same `Ports`, `drive`, `run_until` | boot loop |

What is hard here, and what would make each part correct:

* **One task, many clocks.** The boot loop is a single async task. While it is
  in a reading (0.9 s), a calibration (20 s) or the stack's startup (seconds)
  the person, the stack and the button task go on, and what they did is found
  later, all at one instant. The loop must not miss a press, measure twice,
  sleep in the middle of a gesture, or wait for an instant that has gone.
* **Gestures are timing.** Debounce, click window and hold share one deadline.
  A press must mean the same thing whatever woke the device.
* **The sleep decision races the stack.** The stack's power mode changes
  between the loop's looks at it, and a write it has put off must reach flash
  before the power goes.
* **Interrupts and a slow executor.** The button task listens for one edge at a
  time; synchronous flash work holds the executor for up to 100 ms.
* **Crashes.** RTC RAM and the chip's reset reason tell one boot about the
  last: three records, written at different moments, any of which a reset can
  cut short. They must not forget a crash, invent one, contradict each other,
  or let a crash loop empty the cell.
* **Flash that fails.** Two items make one calibration, and a cache stands
  between the flash and its two users.
* **Two implementations of one interface.** What the tests say of the boot loop
  they say over the simulator's ports; they mean the firmware's.

The full list of hazards, each at its line, is in `PROJECT.json`.

## 2. The modules

Every component has a specification that states its properties at the end, an
`MC...` module with the values TLC needs, one or more `.cfg` files, and, where
it has been proved about, a `..._proofs` module. In the specifications an
operator marked *Mutant* is a wrong variant of the definition under it; nothing
uses it except `PROJECT.json`, which says which property it must break.

**`ButtonFsm`** is `ButtonFsm` of the code as operators on a record: `OnEdge`,
`OnDeadline` and `GestureAtDeadline` with one operator per arm of the two
matches. It has no variables, so `Gesture`, `BootLoop` and `ButtonTask` share
it. An `Instant` is kept as the time left until it, never below zero, which is
all that the code compares. `pressed_at` is never read and is left out.

**`Gesture`** puts the machine between a person at the pin and a driver without
delay, and records what the pin did: how long it has been where it is, how many
believed presses the burst has, whether a bounce fell between them. The
properties compare the machine's answers with that record.

**`BootLoop`** is one boot: `run_wake`, the startup, `run_boot`. What the task
does between two awaits is one or several instantaneous actions. The executor's other
tasks - the button's (`SendFalling`, `SendRising`), the stack's (`Message`,
`Register`, `GoIdle`, `Poll`) - and the clock (`Tick`) move only while it awaits
(`Awaiting`). The person does not wait for anyone: `Press` and `Release` move
the pin at any point of the boot, between two lines of `step` too, up to the
sleep itself (`pc = "over"`). `latched` is the interrupt that the button task
listens for and has not been polled for, or could not send for want of room;
`sent` is the level that its last edge left the pin at. An edge that it does not
listen for is lost, as in the code. `Decide` is the sleep decision up to
`drain_button`; what follows it, the flash write of the reboot count and `main`'s
way to `deep_sleep`, is the place `tail`, left by `PowerDown`, and the pin may
move there. `pc` names the await or the point in the loop, `phase` the half of
the boot. `DeadlineEvent`, `ButtonEvent` and
`IcdEvent` are `next_event` and `on_event`, in `select3`'s order; what
`on_event` does with each is `HandleDeadline`, `HandleEdge` and `HandleIcd`.
`SleepFor` is the length of the sleep. The stack is
external and is modelled by what the boot sees of it: operating and power mode,
an active window, an idle period, a notification, and a resumption record whose
write is put off. Time jumps over nothing: a tick happens only when the task
has nothing to do.

**`ButtonTask`** is the way from the pin to the machine: the interrupt that
fires only if the task listens, the task from one pending await to the next
(`LoopHead`, `SendFalling`, `SendRising`), the channel, and a boot loop that
waits, is busy (the task still runs) or has blocked the executor (only
interrupts run). The history variable `prompt` says whether the task has been
back at its await each time the pin moved.

**`Recovery`** is the sequence of boots: `recover`, the count in RTC RAM with
its magic, and every end a boot can have. Power loss leaves RTC RAM without the
magic. **`Device`** says what happens between those steps: `main` from the reset
to the two phases (`Initialise`, `Recover`, `EndWake`, `EndStartup`), the panic
handler with its two stores (`Panic`, `Commit`, `HaltReset`), the erase of a
factory reset, the watchdog from the moment it is armed, brown-out, a reset by
the host, the wake from a sleep, a change of the cell. It extends `Recovery`,
shares its variables, and implements it: every step is one of `Recovery`'s or
leaves its variables alone. `untold`, `heard` and `cutAt` are history.
`BootLoop` looks inside a boot; here it is one step.

**`Simulator`** is the scripted world under the same boot loop: `Advance` is the
world's clock, which moves only because a port is called; `NextPending`,
`NextScripted` and `Deliver` are its `next_event`; `Sync` is `sync_icd` with its
latch; `EndWake` and `RunBoot` are `drive` and `run_until`. What the loop does
between two calls is `BootLoop`'s. `EitherSpec` runs the loop over either set of
ports, chosen at the start, and states what both must promise it.

**`CalibrationRegister`** is what `core/src/ports.rs` promises of the stored
calibration: one value, replaced as a whole or not at all. **`Calibration`** is
the flow over two items in flash, with writes and reads that fail and a power
loss between the writes. `Register` in it is the refinement mapping: while the
second write is outstanding, the first does not count yet. Two history
variables record what two items cannot cope with: `torn` (a fault between the
two writes) and `misread` (a load that failed). The next accepted calibration
or good load clears them; `Whole` says that neither is set.

**`FlashCache`** is the read-ahead window over the flash. The flash may fail at
any point of a fill, a write or an erase; `fouled` records that a fill failed
and the buffer has not been filled or given up since. Reads of the two users do
not cross a window boundary (`FlashLayout`): sequential-storage reads within a
page of 4 KiB, and pages divide the window of 32 KiB.

**`Storage`** composes the two: the calibration and the Matter store over one
`FlashCell`. A load of the calibration ends with a read (`Load`), an item is
stored by a write or not stored because the flash failed on the way
(`StoreItem`), a power loss takes the window with it and leaves the flash
(`EndBoot`), and whatever the Matter store does happens between any two of
these steps (`Others`). Which cells hold which item is sequential-storage's map
and is left out; what ties the two is that a calibration is misread only in a
boot in which some read of the flash failed or was false (`badFetch`), and
rejected for its store only when the flash failed.

**`Clusters`** is the way of a reading to a controller: `App::sample` with an
await between the two sensors, the deadband, the two handlers of `node/src`
with cell, data version and signal, the run loops that wake later (in the wake
phase not at all), and, external, a stack that gathers attributes for a
subscriber and a controller that reads with a data version filter. A boot
starts with empty cells and a random data version; that a random version equals
one of an earlier boot is excluded.

**`LedTask`** is the status LEDs over time: the boot loop with the time its
readings, holds and gestures take, the queue of four that drops what finds no
room, and the task that plays one command after the other. `awake` is how long
what the last shown reading asked for keeps the boot awake; `solo` says that the
classification found the queue and the LEDs free.

**`Measurement`** is `core/src/math.rs` as operators, with Rust's division
towards zero. `MCClusters` computes its readings with them, from the curve, the
references and the deadbands of `tuning.rs`.

How they fit: `BootLoop`, `Gesture` and `ButtonTask` share `ButtonFsm`;
`Simulator` extends `BootLoop` and `Device` extends `Recovery`; `BootLoop` is
the inside of the one step that a boot is in `Device` and `Calibration`; its
reading is the two `Sample...` actions of `Clusters` and `LedTask`; `Storage`
is `Calibration` over `FlashCache`. The others are views of one device that agree
on their common actions, not one composed specification. `BootLoop` and
`ButtonTask` both have the button task: `BootLoop` with the time that the loop's
work takes and without the first poll of the task, `ButtonTask` await by await,
with an executor that may be blocked for any time.

## 3. The runs

| Run | States | Shows |
|---|---|---|
| `Gesture` | 2 112 | all gestures, both kinds of boot, liveness of the waking press |
| `Boot` | 5.02 M | a cold, a timer and a button boot, one to three presses and a message at any moment: seven safety properties of `BootLoop` |
| `BootEnds` | 449 k | over both sets of ports: the boot of a registered device ends, every wait is for a later instant, no boot waits with a stale view of the stack |
| `ButtonTask` | 97 k | task, channel and machine agree however late the task is; they are right about the pin as long as it was in time |
| `Recovery` | 9 910 | `Device`: every order of boots, ends and what interrupts them; the panic flag, the reset reason and the count agree |
| `Storage` | 643 k | both users of the flash, every fault: an accepted calibration is the stored one, the items refine the register, reads are in bounds and coherent |
| `Clusters` | 859 k | every interleaving of readings, run loops, subscriptions, reports and filtered reads, over several boots |
| `LedTask` | 456 k | readings and calibrations in any order, with the real durations |

Four runs find a disagreement between the code and its comments. `PROJECT.json`
quotes the comments.

* `BootBusyPress`: the drain before the sleep promises two things and keeps
  neither (`DrainKeepsAPromise` is the disjunction of the two, and the trace
  refutes both). A press that lies wholly in a reading or the startup is drained
  as a glitch, and the boot sleeps over it (`BusyPressSeen`, `ports.rs:124-126`).
  An edge that comes after the loop's last await is not in the channel when it
  is drained, nor looked for between the drain and the sleep (`NothingMissed`,
  `app.rs:121-123`). What does hold of the decision is `SleepOnlyAtRest`: no edge
  that the task has sent is left unread, and a button that is down or was down
  since is one that the task has not been polled for.
* `BootPassed`: a button deadline that passes while the loop is reading is left
  out of the next wait, though nothing has dealt with it; `next_deadline` calls
  it one that the boot "has finished with" (`app.rs:212-214`). The delay is
  bounded by a reading and the wait for the next one: that is the theorem
  `BootAnswersInTime`, which says how bad it can get and not that it is right.
* `TaskLostRelease`: a press shorter than the task's latency loses its release,
  and the machine asks for a factory reset with the button up.
* `CalibrationTorn`: a rejected calibration whose second write failed changes
  the references of the next boot.

The passing properties carry premises for what the code does in some other
corners, which a reader should know of:

* A bounce inside the click window ends the gesture and forgets its presses
  (`Glitch` in `ButtonFsm`); `BurstAnswered` is about bursts without a bounce.
* The machine is right about the pin only if the task was (`prompt`). A channel
  that is full blocks the task in `send`, and what happens at the pin then is not
  seen. Five presses during a calibration are enough, where `fw/src/button.rs:28-31`
  calls the channel "deep enough that a burst of edges can never block the task".
* A fill of the read-ahead window that fails has overwritten the buffer and
  leaves the old window standing (`fouled`), until the next fill, write or
  erase.
* A cue that finds the LED queue full is dropped (`queued`). The hold of a
  calibration starts when its cue is queued, so what is still being played
  comes off it: `CueLeadsReference` holds for a calibration and a second one
  right after it (`flows <= 2`), with any number of readings before. From about
  the sixth in a row, with readings shown in between, a reference can be read
  while the wrong colour is shown.
* A sleep may cut a classification short: nothing in `sleep_for` asks the LEDs.
  What keeps the boot awake is the active window that the gesture opened, and
  the settle time on top; the reading comes off it. So the blink of one second is
  on for 0.7 s at least if it found queue and LEDs free (`solo`,
  `ClassificationShown`). A second press soon after the first puts its
  classification behind one that still plays, and it may never be shown.
* The step that writes the reboot count returns before `track_idle`, so an
  active period that is seen there only is not noticed there. The sleep decision
  stays right because the notification of that period is still pending: the
  latch behind `next_event` is needed, and the proof says where (`Noticed`).
* A reboot count whose write fails is not written again: `persist_reboot_count`
  returns nothing, and the flag is set. A back-off is a reboot that is not
  counted, since the boot after it is a wake from sleep. The value that a boot
  serves is one past the stored one, so the first wake after a counted boot
  serves a value higher by one than that boot did.
* The chip's code for a reset by the USB host falls to the last arm of
  `boot_reason`, so the controller is told of a software watchdog.
  `WatchdogIsACrash` is about the hardware watchdog.
* A panic before `recover` has run is told by the flag and does not count
  (`counted`), and one that is cut between the two stores of the flag is told
  only if the magic was there already (`marked`).
* `BatChargeLevel` and `BatReplacementNeeded` are not notified. A read sees
  them (`SameVersionSameData`); a subscriber hears with the next report.

**The two sets of ports.** The simulator differs from the firmware where the
loop can see it. Of two events at one instant it returns the edge first and the
deadline last, where `select3` polls the timer first. A change of power mode may
be delivered twice, once by its instant and once by the latch. Its active window
begins after the wake phase (`active_until` is `u64::MAX` until then) and is
never opened by a message; its stack does not poll in an idle period; its sleep
is not interrupted by a press, which wakes the next boot when the sleep is over.
None of that breaks a promise of `EitherSpec`, but a test over the simulator
says nothing about a poll, a message, or a tie decided the other way.

**Bounds.** In `Gesture` debounce, click window and hold are 2, 3 and 5 ticks.
In the other modules they are smaller, in the order of `core/src/tuning.rs`. In
`BootLoop` a tick is about a quarter of a second among the durations around the
sleep decision (active threshold 4, settle 2, resumption debounce 2, reading 3)
and the long ones (sample period, healthy time, idle period, watchdog) are
shortened to the smallest values that keep their order; `TuningOrder` says which
relations the boot depends on. One of them is tight in the code: a reading takes
300 + 10 * 50 + 5 * 20 = 900 ms and must be shorter than the active threshold of
1 000 ms, or an active period could begin and end inside a reading unseen and
`SleepOnlySettled` would fail. The button's durations are below the hold and the
hold below the sample period, and a calibration with the reading after it is
shorter than the hold of the active window it asks for. `MaxPresses` and `MaxMessages` are
bounds for each cause. A button boot has three presses after the waking one,
which is a calibration in either phase, and no message; a timer boot has two and a
message, enough for both at any moment; a cold boot, which adds only the reboot
count, has one of each. `MCSimulator` runs one
boot of the firmware's with one press, and three of the simulator's with every
script of no press, of one press (at 1 to 20, held for 1 to 6) and of a triple
click, each for a device that is a long-idle one from the start, or becomes one
at 5, 9 or 13. `EdgeDepth` is eight in `BootLoop` as in the code, and four in
`ButtonTask`, so that four presses fill it. `CRASH_LOOP_BOOTS` is 3 as in the
code, and the `u32` saturates at 15. `Storage` has three cells in pages of one and
a window of two, so the last window is cut short as it may be on the chip and one
read is longer than the window; the probe reads four values with a minimum span
of two, so that a pair of any two calibrations may be apart or too close.
`Clusters` has three readings in a boot, two values inside a deadband and one
beyond it for either sensor, an empty holder and a charge level's boundary.
`LedTask` runs with the durations of the code in tenths of a second; `MaxFlows`
bounds a counter that only the premise of a property reads.

**Fairness.** `Gesture` assumes that time passes and that the driver reports a
deadline. `BootEnds` assumes weak fairness of the boot loop, of the button
task, of time and of the stack's poll at the end of an idle period, and strong fairness of the end of an
active window: the stack runs in the same `select3` as the boot loop
(`main.rs`), so it gets its turn at each await, but the loop may leave the await
in between. Over the simulator it assumes weak fairness of the whole world,
which is a program that `block_on` drives. Nobody is ever obliged to press,
release or send. `BootEnds` is therefore about devices that some peer stays
registered with, and it also covers a person who never lets go: that boot ends
in a factory reset.

The system never stops by itself: `Over` stutters at the end of a boot, and
deadlock is checked in every run.

## 4. The proofs

| Module | Proved, for all values of the constants |
|---|---|
| `Gesture_proofs` | `TypeOK`, `BelievesPin`, `WakingWaitsOnDeadline`, `ResetExactlyAfterHold`, `BurstAnswered`, `ResetOncePerPress` |
| `BootLoop_proofs` | of `BootLoop`: `TypeOK`, `OneReadingPerWake`, `SleepOnlySettled`, `SleepOnlyAtRest`, `PollNotMissed`, `RebootCountedOnce`, `WatchdogFed`, and `AnswerNotTooLate`, which bounds a finding; over either set of ports, for every script: the types, `ViewFresh`, `WaitsForLater`, `OneReadingPerWake`, `SleepOnlySettled`, `SleepOnlyAtRest`, `PollNotMissed`, `RebootCountedOnce` |
| `ButtonTask_proofs` | `TypeOK`, `TaskAndMachineAgree`, `PromptTaskIsRight`, `PromptResetMeansHeld` |
| `LedTask_proofs` | `TypeOK`, `CueLeadsReference`, `ClassificationShown` |
| `Device_proofs` | of `Recovery`: `TypeOK`, `CrashLoopBounded`, `CountKeepsUp`, `CountTellsCrash`, `CrashShownHonestly`; `Device` implements `Recovery`, so `CrashLoopBounded` and `CountTellsCrash` hold of it; `DeviceTypeOK`, `PanicToldTruly`, `PanicIsACrash`, `WatchdogIsACrash` |
| `Calibration_proofs` | `TypeOK`, `AcceptedIsStored`, `ImplementsRegister`, `ReferencesApart` |
| `FlashCache_proofs` | `FlashTypeOK`, `ReadsInBounds`, `WindowCoherent`, `ReadsTheFlash` |
| `Clusters_proofs` | of `Measurement`: the range, the fixed points and the monotony of the moisture percentage and of the charge; of `Clusters`: `TypeOK`, `ServedWithinDeadband`, `NothingForgotten`, `SameVersionSameData`, `JitterNotifiesOnce` |

*Gesture.* `BelievesPin` and `WakingWaitsOnDeadline` are nearly inductive;
what the machine answers is not, because it depends on how long the pin has
been where it is. `IInv` adds that in each timed state the time left and the
pin's dwell add up to the state's duration (`DeadlineMeasuresPin`), that a
gesture in progress has no answer yet (`AnswerFollowsState`), and that the
click count is the burst's as long as no bounce fell into it
(`ClicksCountBurst`). Assumed: the three durations are positive, and the
horizon of the dwell is above their sum.

*Boot loop.* Everything that run `Boot` checks is proved, and the bound on the
delay that run `BootPassed` finds, for every tuning in
`TuningOrder`, any number of presses and messages, and any length of the
channel. `TypeInv` adds the machine's own bound (its deadline is at most a hold
away), and carries it through the drain of the channel, which is a fold: that a
fold over edges keeps a property of machines is shown by counting, with the
least number principle, since the library's induction theorems are out of reach
(`DrainMachine`). On it rest, one invariant for each property:

* `CountInv`, `WakeInv`: which phases a count or a reading can still be owed in;
  `DueInv` adds that nothing is due wherever the loop decides or waits.
* `FedInv`: at each await, the time since the watchdog was fed and the rest of
  the await come to no more than a sample period, a reading and the startup.
* `PinInv`: the machine and the edges that it has yet to handle, taken together,
  end where the task's last edge left the pin (`LastDown`, `sent`), and a pin that
  is down when that is "up" is latched: the task waits for just that edge. A
  drained machine that is inactive then means that the task has sent no press
  whose release it has not sent. From the drain on the loop touches nothing, so
  this rest (`AtRest`) lasts from `tail` to the sleep, whatever the pin does;
  `DownSettled` is the same for the stack, which has no await to run in.
* `SleepOnlySettled` is the hardest. `DirtyInv` bounds the resumption record's
  wait by the active window that any message opens, so a stack that is idle has
  written it. `IdleInv` says that `idle_since` is no older than the stack's
  idle time unless something makes the loop look again before it decides
  (`Stale`): the notification is pending (`Noticed`), a reading is too short for
  a whole active period, or a calibration holds the stack active for all of its
  time (`Calibrating`). This is where the order of a reading and the active
  threshold is needed, and where the early return of the step that writes the
  reboot count needs the latch.
* `PollInv`: idle time and what is left to the poll make up the idle period;
  with the settle time below it, `SleepFor` takes off what is due.
* `LateInv`: how late an armed deadline is and the time to the next reading come
  to no more than the bound, and a reading that begins finds none that is late.

*Either set of ports.* `EitherSpec` starts with one set or the other and keeps
it. A step over the firmware's is a step of `BootLoop`, and so is what the loop
does between two calls of the simulator's (`SimTaskStep`) and the handling of a
deadline that is due (`DueDelivery`); for those the lemmas above are used as
they are. What is new is the clock, which moves over the whole of a wait, a
reading or a sleep at once (`Advanced`, `AgedIdle`), the events (`EventInv`: one
is handled before anything else happens, and is what its instant says), and the
next boot, which inherits the queue. On them rest:

* `TurnInv`: the edges to come, those that are due and those of the script,
  alternate, and the first one turns what the machine believes. The one
  exception is a boot that has just been woken, whose machine believes the press
  that is still in the queue (`Fresh`). The presses of a script need not be in
  order or apart: `World::press` queues them as they are told, and so does the
  model.
* `WaitInv`: the wake phase waits for nothing but the waking press. With
  `TurnInv` an edge that comes at the very instant of the deadline is one that
  leaves the machine decided or with time to wait, so `WaitsForLater` holds, and
  the simulator's "a wait nothing can end" cannot happen.
* `ViewInv`: once nothing is left to tell the boot (`Known`), its settle time is
  that of the stack's present state (`Agree`), or it will look again before it
  waits (`Looks`).
* `MemoryInv` is `IdleInv` with the time between `next_event`'s answer and its
  handling taken into account: the simulator clears its latch when it returns
  the change, so for that long the event itself is what makes the loop look.
* `PollInv`, `PinInv`, `CountInv` and `WakeInv` are the ones above, carried over
  the sleep into the next boot.

*Button task.* What the machine has caught up with is decided by the last edge
in the channel (`CaughtUpAtLast`, by the least-number principle: an edge decides
what it says, whatever the machine was). So `AgreeInv` says of the last edge
what `TaskAndMachineAgree` says of the machine; a waking press whose release
nobody queued is the one exception (`Ahead`). `PinRight` adds where the pin is
for each place of the task, with the interrupt's latch as the link, and needs a
task that has missed nothing. `HoldRight` is what a factory reset needs on top:
edges alternate, and as long as no release is on its way the pin has been down
for as long as the machine has counted (`Timed`). `PromptResetMeansHeld` is
proved for a channel of more than one edge (the code's holds eight): in a
channel of one, the release of a glitch waits outside it while the machine
already believes the press, and the hold could be over before it comes in.

*Status LEDs.* A cue is behind whatever was queued before it. In a first try
that is at most a full queue of commands that are no cues, which is shorter than
the hold (`FullQueue`). In a second try the wet cue of the first may still be
playing, with readings behind it; but each of those cost a gesture and a
reading, in which the LEDs went on. `BehindFirstTry` weighs the one against the
other: what is left of the cue, the time the readings behind it took and the
time since come to no more than a full queue less two readings of the probe.
`SoloInv` says that the time a classification has been on and the time the boot
stays awake for add up. Assumed: `TuningOrder`, the order of the durations, and
`RetryOrder`, which is what the second try needs of them: five classifications
of 2 s are no longer than the hold of 10 s and a reading of 0.8 s, and for one,
two and three readings behind the first try, 10, 12 and 14 s are shorter than
12, 13.3 and 14.6 s. The last is the tight one. `MaxFlows > 2` keeps the model's
counter from stopping at the premise, `flows <= 2`; section 3 says what happens
in a sixth try.

*Device.* The refinement needs no mapping: `Device` keeps `Recovery`'s
variables. The panic flag's theorems follow the last panic through `untold` to
the boot that hears of it; `PanicIsACrash` needs that the count is cleared only
by a planned end, and after an erase, not before it. Assumed: what `Recovery`
assumes.

*Recovery.* The bound on unattended starts follows from `CountKeepsUp`: the
count is never behind the starts it stands for, and a back-off leaves it one
start below the limit. Assumed: the limit is above one (a limit of one would
make a back-off look like a planned end) and below the counter's largest value,
where the count saturates.

*Calibration.* The refinement is of the steps that leave the items whole. The
invariant `RefInv` says what the calibration in effect has to do with the
stored one at each place of the flow, and that untorn items are far enough
apart. The step that makes the items whole again needs no memory of the fault:
an accepted calibration or a good load sets everything it compares.
`AcceptedIsStored` holds whatever fails. Assumed: the defaults are themselves
far enough apart.

*Flash.* Coherence is inductive together with "the last answer was not false",
both as long as the window is not fouled; `ReadsInBounds` holds with every
failure and rests on `FlashLayout`, that reads do not cross a window boundary.

*Clusters.* `CountsInStep` ties the versions and the notes to the number of
readings, so that none outruns it. What a subscriber was told is compared with
the cell through the signal and the gathered attributes, and every action moves
at most one of the three. Versions need `VersionsBehind`: a controller never
holds a version that is still to come. Jitter needs `CellInBand`: the cell is
inside the band of what was read. Assumed: deadbands are positive, and no value
is neither a number nor a reading.

*Measurement.* Rust's division is bounded and rises with its dividend
(elementary lemmas about `\div`). `battery_permille` looks for the first
segment above the voltage; that there is one follows from the least-number
principle, which is derived from the library's fact that `<` on the naturals is
well-founded, and needs no operator as a parameter. `ChargeRises` then compares
two voltages on the same segment or on two. Assumed of the curve: `Rising`.

`CountKeepsUp` and `CrashShownHonestly` of `Recovery`, `WakingWaitsOnDeadline`
and `ResetOncePerPress` of `Gesture`, `WindowCoherent` of `FlashCache`,
`PromptResetMeansHeld` of `ButtonTask`, and the theorems of `EitherSpec` other
than `ViewFresh` and `WaitsForLater` are proved and are not properties of a run
of that specification: some are steps of other proofs, and the proof covers
every instance a run could.

The assumptions, all named in the modules that declare the constants and
evaluated by TLC on every run: `BootTuning` and `ButtonTuning` (the order of
`tuning.rs`), `GestureBounds`, `TaskBounds`, `LedTuning` and `LedRetry`,
`RecoveryTuning`, `CalibrationTuning`, `FlashLayout`, `ClusterTuning`, and
`ScenarioTypes`, which only says that a script is a sequence of presses with
times. The bounds on presses, messages, boots and scripts are natural numbers
or sets of any size.

Only model-checked: the two liveness properties (`WakingPressDecided`,
`BootEnds`), since TLAPS as used here does not reason about fairness and
`ENABLED`. The findings are counterexamples, which TLC gives. Every other
property of a run is stated by a theorem: those of run `Storage` by theorems of
`Calibration` and of `FlashCache`, whose steps its steps are made of. The one
step it adds, the power loss that leaves the flash and takes the window, is
model-checked only. `WatchdogFed` and `AnswerNotTooLate`
are theorems of the firmware's ports only: the simulator has no watchdog, and
keeps neither of the two histories.

## 5. Not modelled, and the plan

Not modelled, and why:

* `SharedKvStore` and the map behind it: each operation completes inside one
  poll, so nothing interleaves inside one; between them it is `Others` in
  `Storage`. The map from keys to cells is sequential-storage's.
* The drivers of the probe, the battery and the board: each is one averaged
  reading; its duration is a constant.
* Construction of the stack, the radio and the endpoints: it runs once, in
  order, without a decision. rs-matter itself is not in the repository.
* Attribute encoding, endpoint metadata, log text, LED colours and pins.
* The simulator's energy account and the observations that its tests read: they
  count what the modelled actions do and decide nothing.
* The build scripts, the documents and the data.
* A reboot count whose write fails: the port returns nothing, so the loop does
  the same whether it fails or not.

What could come next:

1. `AnswerNotTooLate` over the simulator's ports, which needs its clock to keep
   the history of what is overdue.
2. `RebootCountedOnce` across boots: the value a controller is served, from the
   stored count, the write and the wakes in between.
3. A bound on how far the LEDs fall behind over any number of tries, which says
   from which try on a cue may come too late.
