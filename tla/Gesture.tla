------------------------------- MODULE Gesture -------------------------------
(***************************************************************************)
(* A person, the pin, and the gesture machine driven without delay: every  *)
(* edge reaches on_edge when it happens and every deadline reaches         *)
(* on_deadline when it comes, before an edge of the same instant (select3  *)
(* in fw/src/ports.rs polls the timer first).  What the machine answers is *)
(* compared with what the pin did, which the module records on the side.   *)
(***************************************************************************)
EXTENDS ButtonFsm

CONSTANTS
  MaxPresses,  \* bound: how often the person presses
  Horizon      \* bound: pinFor counts no further than this

ASSUME GestureBounds ==
  /\ MaxPresses \in Nat
  /\ Horizon \in Nat
  /\ Horizon > Debounce + Hold + Window

VARIABLES
  button,    \* the ButtonFsm
  pin,       \* "up" or "down"
  pinFor,    \* how long the pin has been where it is
  bootPress, \* the press in progress is the one that woke the device
  burst,     \* presses of the current burst that outlasted the debounce
  bounced,   \* a glitch fell between two presses of the current burst
  answer,    \* the gesture the last press or burst was answered with
  presses    \* presses so far, for MaxPresses

history == <<bootPress, burst, bounced, answer>>
vars == <<button, pin, pinFor, bootPress, burst, bounced, answer, presses>>

\* How long the current press has to last to ask for a factory reset.
HoldTime == IF bootPress THEN Hold ELSE Debounce + Hold

Init ==
  \E woken \in BOOLEAN :
    /\ button = NewButton(woken)
    /\ pin = IF woken THEN "down" ELSE "up"
    /\ pinFor = IF woken THEN 0 ELSE Horizon
    /\ bootPress = woken
    /\ burst = 0
    /\ bounced = FALSE
    /\ answer = "none"
    /\ presses = 0

\* The pin goes down. A burst goes on if the pin was up for less than Window.
Press ==
  /\ pin = "up"
  /\ presses < MaxPresses
  /\ ~DeadlineDue(button)
  /\ button' = OnEdge(button, "Falling")
  /\ pin' = "down"
  /\ pinFor' = 0
  /\ burst' = IF pinFor < Window THEN burst ELSE 0
  /\ bounced' = IF pinFor < Window THEN bounced ELSE FALSE
  /\ answer' = "none"
  /\ presses' = presses + 1
  /\ UNCHANGED bootPress

\* The pin goes up. A press too short to be believed is a glitch; one that has
\* asked for a reset is no click.
Release ==
  /\ pin = "down"
  /\ ~DeadlineDue(button)
  /\ button' = OnEdge(button, "Rising")
  /\ pin' = "up"
  /\ pinFor' = 0
  /\ bootPress' = FALSE
  /\ IF ~bootPress /\ pinFor < Debounce
     THEN burst' = burst /\ bounced' = IF burst > 0 THEN TRUE ELSE bounced
     ELSE /\ burst' = IF answer = "FactoryReset" THEN 0 ELSE burst + 1
          /\ UNCHANGED bounced
  /\ UNCHANGED <<answer, presses>>

\* The machine's deadline comes and the driver reports it.
Deadline ==
  /\ DeadlineDue(button)
  /\ button' = OnDeadline(button)
  /\ answer' = IF GestureAtDeadline(button) = "none" THEN answer ELSE GestureAtDeadline(button)
  /\ UNCHANGED <<pin, pinFor, bootPress, burst, bounced, presses>>

Tick ==
  /\ ~DeadlineDue(button)
  /\ button' = Elapse(button, 1)
  /\ pinFor' = IF pinFor < Horizon THEN pinFor + 1 ELSE Horizon
  /\ UNCHANGED <<pin, history, presses>>

Next == Press \/ Release \/ Deadline \/ Tick

Spec == Init /\ [][Next]_vars

\* Time passes, and the driver waits for the machine's deadlines.
FairSpec == Spec /\ WF_vars(Tick) /\ WF_vars(Deadline)

-----------------------------------------------------------------------------
TypeOK ==
  /\ button \in ButtonValues
  /\ pin \in {"up", "down"}
  /\ pinFor \in 0..Horizon
  /\ bootPress \in BOOLEAN
  /\ burst \in Nat
  /\ bounced \in BOOLEAN
  /\ answer \in Gestures \cup {"none"}
  /\ presses \in Nat

(* The machine knows where the pin is: a device that finds is_active false   *)
(* before it sleeps (app.rs, step) never sleeps with the button down.        *)
BelievesPin ==
  pin = "down" <=> button.state \in {"Debounce", "Held", "WaitRelease"}

(* The press that woke the device is undecided only in a state that waits on *)
(* a deadline (button.rs, waking_press_pending), and only while the gesture  *)
(* that woke it goes on: the boot's reading waits for this to become false.  *)
WakingWaitsOnDeadline ==
  button.waking => HasDeadline(button) /\ answer = "none"

(* A factory reset is asked for by a press that lasted HoldTime, and by every *)
(* such press.                                                               *)
ResetExactlyAfterHold ==
  pin = "down" =>
    /\ answer = "FactoryReset" => pinFor >= HoldTime
    /\ pinFor > HoldTime => answer = "FactoryReset"

\* The answer is the one that the number of presses asks for.
Answered ==
  /\ answer = "SampleNow" <=> burst = 1
  /\ answer = "Calibrate" <=> burst = 3
  /\ answer # "FactoryReset"

(* A burst of presses that has been over for longer than the click window    *)
(* has been answered: one with a reading, three with a calibration, any      *)
(* other number with nothing - as long as no glitch fell between them.       *)
BurstAnswered ==
  pin = "up" /\ pinFor > Window /\ burst > 0 /\ ~bounced => Answered

(* One hold asks for one reset: the gesture cannot fire again before the     *)
(* button has been let go and pressed again (button.rs, WaitRelease).        *)
ResetOncePerPress ==
  [][Deadline /\ GestureAtDeadline(button) = "FactoryReset" => answer # "FactoryReset"]_vars

(* The wake phase ends: once the person stops, the waking press is decided   *)
(* (the loop in app.rs, run_wake, terminates).                               *)
WakingPressDecided == button.waking ~> ~button.waking
=============================================================================
