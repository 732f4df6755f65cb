------------------------------ MODULE ButtonFsm ------------------------------
(***************************************************************************)
(* The button gesture state machine of core/src/button.rs, as operators on *)
(* its value.  An Instant of the code appears here as the time left until  *)
(* it: `deadline = now + d` sets left to d, `now < deadline` reads         *)
(* left > 0, and Elapse lets the clock run.  A deadline that has passed    *)
(* stays at 0, since the code only ever asks whether it has passed.        *)
(* The field pressed_at is written and never read, so it is left out.      *)
(***************************************************************************)
EXTENDS Integers

CONSTANTS
  Debounce,  \* BUTTON_DEBOUNCE
  Window,    \* BUTTON_TRIPLE_CLICK_WINDOW
  Hold       \* BUTTON_FACTORY_RESET_HOLD

ASSUME ButtonTuning ==
  /\ Debounce \in Nat \ {0}
  /\ Window \in Nat \ {0}
  /\ Hold \in Nat \ {0}

ButtonStates == {"Idle", "Debounce", "Held", "WaitRelease", "Window"}

\* The states that wait on their own deadline.
TimedStates == {"Debounce", "Held", "Window"}

Edges == {"Falling", "Rising"}

Gestures == {"SampleNow", "Calibrate", "FactoryReset"}

ButtonValues == [state: ButtonStates, left: Nat, clicks: Nat, waking: BOOLEAN]

NewButton(heldAtBoot) ==
  [state  |-> IF heldAtBoot THEN "Held" ELSE "Idle",
   left   |-> IF heldAtBoot THEN Hold ELSE 0,
   clicks |-> IF heldAtBoot THEN 1 ELSE 0,
   waking |-> heldAtBoot]

\* Whether the machine waits for a deadline, and whether that deadline has come.
HasDeadline(b) == b.state \in TimedStates
DeadlineDue(b) == HasDeadline(b) /\ b.left = 0

IsActive(b) == b.state # "Idle"

WakingPressPending(b) == b.waking /\ HasDeadline(b)

\* Mutant: a plain subtraction.
ElapsePlain(b, d) == [b EXCEPT !.left = b.left - d]
\* Time passes: every Instant the machine remembers comes closer by d.
Elapse(b, d) == [b EXCEPT !.left = IF b.left > d THEN b.left - d ELSE 0]

-----------------------------------------------------------------------------
(* The arms of on_edge.  BeginPress is begin_press: Debounce, and its wait. *)

Rest(b) == [b EXCEPT !.state = "Idle", !.left = 0]

BeginPress(b, n) ==
  [b EXCEPT !.state = "Debounce", !.left = Debounce, !.clicks = n]

\* Mutant: a press inside the click window starts the count again.
NextPressRecounts(b) == BeginPress(b, 1)
NextPress(b) == BeginPress(b, b.clicks + 1)

\* Mutant: the glitch is ignored.
GlitchIgnored(b) == b
Glitch(b) == [Rest(b) EXCEPT !.waking = FALSE]

EndPress(b) == [b EXCEPT !.state = "Window", !.left = Window]

\* ButtonFsm::on_edge; no edge completes a gesture.
OnEdge(b, edge) ==
  CASE b.state = "Idle"        /\ edge = "Falling" -> BeginPress(b, 1)
    [] b.state = "Window"      /\ edge = "Falling" -> NextPress(b)
    [] b.state = "Debounce"    /\ edge = "Rising"  -> Glitch(b)
    [] b.state = "Held"        /\ edge = "Rising"  -> EndPress(b)
    [] b.state = "WaitRelease" /\ edge = "Rising"  -> Rest(b)
    [] OTHER -> b

-----------------------------------------------------------------------------
(* The arms of on_deadline. *)

\* Mutant: the press is believed without a deadline for the hold.
BelievePressUnarmed(b) == [b EXCEPT !.state = "Held"]
BelievePress(b) == [b EXCEPT !.state = "Held", !.left = Hold]

HoldElapsed(b) == [b EXCEPT !.state = "WaitRelease", !.left = 0, !.waking = FALSE]

\* Mutant: the window closes and the waking press stays undecided.
WindowClosedLeavesWaking(b) == Rest(b)
WindowClosed(b) == [Rest(b) EXCEPT !.waking = FALSE]

\* ButtonFsm::on_deadline: the machine after it ...
OnDeadline(b) ==
  CASE DeadlineDue(b) /\ b.state = "Debounce" -> BelievePress(b)
    [] DeadlineDue(b) /\ b.state = "Held"     -> HoldElapsed(b)
    [] DeadlineDue(b) /\ b.state = "Window"   -> WindowClosed(b)
    [] OTHER -> b

\* What a closed click window means.
ClickGesture(n) ==
  CASE n = 1 -> "SampleNow" [] n = 3 -> "Calibrate" [] OTHER -> "none"

\* ... and the gesture it returns.
GestureAtDeadline(b) ==
  CASE DeadlineDue(b) /\ b.state = "Held"   -> "FactoryReset"
    [] DeadlineDue(b) /\ b.state = "Window" -> ClickGesture(b.clicks)
    [] OTHER -> "none"
=============================================================================
