------------------------------- MODULE LedTask -------------------------------
(***************************************************************************)
(* The status LEDs: what the boot loop asks for, in the order and with the *)
(* time its readings and calibrations take, the queue between, and the     *)
(* task that plays one command at a time (core/src/led.rs,                 *)
(* core/src/calibration.rs, fw/src/leds.rs, fw/src/ports.rs).  A person    *)
(* with a probe follows what is shown, so the cue of a reference has to be *)
(* on show when the reference is read.                                     *)
(***************************************************************************)
EXTENDS Naturals, Sequences

CONSTANTS
  Depth,        \* LED_QUEUE_DEPTH
  ErrorTime,    \* 2 * ERROR_BLINK_COUNT * ERROR_BLINK_PERIOD
  ClassifyTime, \* 2 * CLASSIFY_BLINK
  CueTime,      \* 2 * 10 * SOIL_CAL_BLINK_PERIOD
  CalHold,      \* SOIL_CAL_HOLD
  SoilTime,     \* a reading of the probe
  BatteryTime,  \* a reading of the battery
  ActiveHold,   \* ACTIVE_HOLD: a gesture keeps the stack active for as long
  Settle,       \* SLEEP_SETTLE: and the boot stays awake for so long after it
  GestureTime,  \* BUTTON_DEBOUNCE and BUTTON_TRIPLE_CLICK_WINDOW: no gesture is shorter
  MaxFlows      \* bound: calibrations that are counted

\* A cue that may have to wait for a full queue must still begin within the hold.
TuningOrder ==
  /\ Depth \in Nat \ {0} /\ MaxFlows \in Nat /\ MaxFlows > 2
  /\ {ErrorTime, ClassifyTime, CueTime, CalHold, SoilTime, BatteryTime, GestureTime, ActiveHold, Settle}
       \subseteq Nat \ {0}
  /\ ErrorTime <= ClassifyTime /\ Depth * ClassifyTime < CalHold /\ CueTime <= CalHold
  /\ SoilTime + BatteryTime < ActiveHold
ASSUME LedTuning == TuningOrder

\* What a first try leaves for the second: a queue that was full is played before the
\* second cue, and behind the last one no more readings find the time than still leave
\* the next cue its hold.
RetryOrder ==
  /\ (Depth + 1) * ClassifyTime <= CalHold + SoilTime
  /\ \A n \in 1..(Depth - 1) :
       Depth * ClassifyTime + n * ClassifyTime
         < CalHold + 2 * SoilTime + GestureTime + (n - 1) * (GestureTime + SoilTime + BatteryTime)
ASSUME LedRetry == RetryOrder

VARIABLES
  pc,       \* where the boot loop is
  wait,     \* how long it stays there
  withLed,  \* whether the reading is shown
  queue,    \* the channel
  playing,  \* what the task plays, or "Dark"
  left,     \* and for how long still
  shown,    \* the cue of a reference that began last, or "Dark"
  queued,   \* the last cue of a reference found room in the channel
  flows,    \* calibrations begun since the LEDs were last dark, up to MaxFlows
  gap,      \* the time since what the last gesture asked for was done, up to GestureTime
  awake,    \* how long the last reading that is shown keeps the boot awake for
  solo      \* its classification was sent with no other command queued or playing

boot == <<pc, wait, withLed>>
leds == <<playing, left, shown>>
vars == <<boot, leds, queue, queued, flows, gap, awake, solo>>

Cues == {"Dry", "Wet"}
Commands == Cues \cup {"Crashed", "Rejected", "Classify"}

\* How long the task plays a command, the pauses included.
\* Mutant: the classification is shown in two blinks.
DurationTwice(c) ==
  CASE c \in {"Crashed", "Rejected"} -> ErrorTime [] c \in Cues -> CueTime [] OTHER -> 2 * ClassifyTime
Duration(c) ==
  CASE c \in {"Crashed", "Rejected"} -> ErrorTime [] c \in Cues -> CueTime [] OTHER -> ClassifyTime

HasRoom == Len(queue) < Depth

\* Mutant: a cue is sent whether there is room or not.
SendLedAlways(c) == queue' = Append(queue, c)
\* send_led: a command that finds no room is dropped.
SendLed(c) == queue' = IF HasRoom THEN Append(queue, c) ELSE queue

\* run_wake says first that the boot before crashed.
AtBoot(crashed) == IF crashed THEN <<"Crashed">> ELSE <<>>

Init ==
  /\ pc = "loop" /\ wait = 0 /\ withLed = FALSE
  /\ queue \in {AtBoot(crashed) : crashed \in BOOLEAN}
  /\ playing = "Dark" /\ left = 0 /\ shown = "Dark"
  /\ queued = FALSE /\ flows = 0 /\ gap = GestureTime
  /\ awake = 0 /\ solo = FALSE

-----------------------------------------------------------------------------
(* The boot loop. It awaits for a while, and goes on when the while is over. *)

At(p) == pc = p /\ wait = 0
Go(p, time) == pc' = p /\ wait' = time

\* Mutant: a gesture does not ask for the active window.
OpenWindowNot == UNCHANGED awake
\* on_event's request_active, and the settle time that sleep_for adds to it.
OpenWindow == awake' = ActiveHold + Settle

\* App::sample. A gesture asks for it to be shown.
StartReading ==
  /\ At("loop")
  /\ Go("soil", SoilTime)
  /\ \/ withLed' = FALSE /\ UNCHANGED awake
     \/ withLed' = TRUE /\ gap = GestureTime /\ OpenWindow
  /\ UNCHANGED <<leds, queue, queued, flows, gap, solo>>

SampleSoil ==
  /\ At("soil")
  /\ Go("battery", BatteryTime)
  /\ IF withLed
       THEN SendLed("Classify") /\ solo' = (playing = "Dark" /\ queue = <<>>)
       ELSE UNCHANGED <<queue, solo>>
  /\ UNCHANGED <<withLed, leds, queued, flows, gap, awake>>

SampleBattery ==
  /\ At("battery")
  /\ Go("loop", 0)
  /\ gap' = IF withLed THEN 0 ELSE gap
  /\ UNCHANGED <<withLed, leds, queue, queued, flows, awake, solo>>

\* capture, for the dry and for the wet reference: the cue, the hold, the reading.
CaptureDry ==
  /\ At("loop") /\ gap = GestureTime
  /\ SendLed("Dry") /\ queued' = HasRoom
  /\ Go("dryHold", CalHold)
  /\ flows' = IF flows < MaxFlows THEN flows + 1 ELSE flows
  /\ UNCHANGED <<withLed, leds, gap, awake, solo>>

\* The hold is over and the reading begins.
ReadDry ==
  /\ At("dryHold") /\ Go("dryRead", SoilTime)
  /\ UNCHANGED <<withLed, leds, queue, queued, flows, gap, awake, solo>>

CaptureWet ==
  /\ At("dryRead")
  /\ SendLed("Wet") /\ queued' = HasRoom
  /\ Go("wetHold", CalHold)
  /\ UNCHANGED <<withLed, leds, flows, gap, awake, solo>>

ReadWet ==
  /\ At("wetHold") /\ Go("wetRead", SoilTime)
  /\ UNCHANGED <<withLed, leds, queue, queued, flows, gap, awake, solo>>

\* calibration::run: a rejected calibration says so.
EndCalibration ==
  /\ At("wetRead")
  /\ Go("loop", 0)
  /\ \/ SendLed("Rejected")
     \/ UNCHANGED queue
  /\ gap' = 0
  /\ UNCHANGED <<withLed, leds, queued, flows, awake, solo>>

\* A calibration's own, longer hold is left out, so the model sleeps earlier.
MaySleep == pc = "loop" /\ awake = 0

\* A planned end comes from the loop, when nothing asked for keeps the boot
\* awake; a crash comes from anywhere; the next boot's pins and channel are new.
Reboot ==
  \E crashed \in BOOLEAN :
    /\ crashed \/ MaySleep
    /\ pc' = "loop" /\ wait' = 0 /\ withLed' = FALSE
    /\ queue' = AtBoot(crashed)
    /\ playing' = "Dark" /\ left' = 0 /\ shown' = "Dark"
    /\ queued' = FALSE /\ flows' = 0 /\ gap' = GestureTime
    /\ awake' = 0 /\ solo' = FALSE

-----------------------------------------------------------------------------
\* StatusLeds::run takes the next command when it has played the last one.
Play ==
  /\ playing = "Dark" /\ queue # <<>>
  /\ playing' = Head(queue) /\ queue' = Tail(queue)
  /\ left' = Duration(Head(queue))
  /\ shown' = IF Head(queue) \in Cues THEN Head(queue) ELSE shown
  /\ UNCHANGED <<boot, queued, flows, gap, awake, solo>>

\* The end of StatusLeds::blink.
Played ==
  /\ playing # "Dark" /\ left = 0
  /\ playing' = "Dark"
  /\ UNCHANGED <<boot, queue, left, shown, queued, flows, gap, awake, solo>>

Less(t) == IF t = 0 THEN 0 ELSE t - 1

\* Time passes when neither task has anything to do: the boot loop may stay in
\* its loop for as long as nobody asks for anything.
Tick ==
  /\ wait > 0 \/ pc = "loop"
  /\ left > 0 \/ (playing = "Dark" /\ queue = <<>>)
  /\ wait' = Less(wait) /\ left' = Less(left) /\ awake' = Less(awake)
  /\ gap' = IF gap < GestureTime THEN gap + 1 ELSE gap
  /\ flows' = IF playing = "Dark" /\ pc = "loop" THEN 0 ELSE flows
  /\ UNCHANGED <<pc, withLed, queue, playing, shown, queued, solo>>

Next ==
  \/ StartReading \/ SampleSoil \/ SampleBattery
  \/ CaptureDry \/ ReadDry \/ CaptureWet \/ ReadWet \/ EndCalibration
  \/ Reboot \/ Play \/ Played \/ Tick

Spec == Init /\ [][Next]_vars

-----------------------------------------------------------------------------
Places == {"loop", "soil", "battery", "dryHold", "dryRead", "wetHold", "wetRead"}

TypeOK ==
  /\ pc \in Places /\ wait \in Nat /\ withLed \in BOOLEAN
  /\ queue \in Seq(Commands) /\ Len(queue) <= Depth
  /\ playing \in Commands \cup {"Dark"} /\ left \in Nat
  /\ shown \in Cues \cup {"Dark"} /\ queued \in BOOLEAN /\ flows \in 0..MaxFlows
  /\ gap \in 0..GestureTime /\ awake \in Nat /\ solo \in BOOLEAN

(* However many readings an impatient person has had shown before, and also   *)
(* in a second try right after the first, a reference whose cue found room in *)
(* the channel is read when its own cue has begun and the next one's has not: *)
(* the colour says where to hold the probe (README.md, Status LEDs).          *)
CueLeadsReference ==
  queued /\ flows <= 2 =>
    /\ pc = "dryRead" => shown = "Dry"
    /\ pc = "wetRead" => shown = "Wet"

(* The LEDs do not keep a boot awake, and the boot sleeps half a second after *)
(* the active window that the gesture opened, which is before the blink is    *)
(* over. A classification that had nothing to wait for has by then been on    *)
(* for all of that time but the reading's (README.md: one long blink shows    *)
(* the reading after a single press).                                         *)
ClassificationShown ==
  solo /\ MaySleep /\ playing = "Classify" =>
    ClassifyTime - left >= ActiveHold + Settle - SoilTime
=============================================================================
