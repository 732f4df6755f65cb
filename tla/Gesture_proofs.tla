---------------------------- MODULE Gesture_proofs ----------------------------
(***************************************************************************)
(* What Gesture promises, proved for every debounce, window, hold and      *)
(* number of presses.  The strengthening says how the machine's deadline   *)
(* and its click count relate to what the pin did.                         *)
(***************************************************************************)
EXTENDS Gesture, TLAPS

\* The deadline of each timed state measures the pin's dwell exactly.
DeadlineMeasuresPin ==
  /\ button.state = "Debounce" => ~bootPress /\ pinFor + button.left = Debounce
  /\ button.state = "Held" => pinFor + button.left = HoldTime /\ button.left <= Hold
  /\ button.state = "Window" => pinFor + button.left = Window
  /\ button.state = "WaitRelease" => pinFor >= HoldTime
  /\ bootPress => pin = "down"

\* A gesture in progress has no answer yet; only a reset waits for the release.
AnswerFollowsState ==
  /\ HasDeadline(button) => answer = "none"
  /\ button.state = "WaitRelease" => answer = "FactoryReset"

\* The click count is the burst's; a burst that is over has its answer.
ClicksCountBurst ==
  ~bounced =>
    /\ button.state \in {"Debounce", "Held"} => button.clicks = burst + 1
    /\ button.state = "Window" => button.clicks = burst
    /\ button.state = "Idle" /\ burst > 0
         => pinFor >= Window /\ answer = ClickGesture(burst)

IInv ==
  /\ TypeOK
  /\ BelievesPin
  /\ WakingWaitsOnDeadline
  /\ DeadlineMeasuresPin
  /\ AnswerFollowsState
  /\ ClicksCountBurst

-----------------------------------------------------------------------------
(* A new machine is a machine value. *)
LEMMA NewButtonFacts ==
  ASSUME NEW woken \in BOOLEAN
  PROVE  NewButton(woken) \in ButtonValues
  BY ButtonTuning DEF NewButton, ButtonValues, ButtonStates

\* The machine u is b with these four fields.
Becomes(u, s, l, c, w) ==
  /\ u \in ButtonValues
  /\ u.state = s /\ u.left = l /\ u.clicks = c /\ u.waking = w

(* What on_edge does to each field, by the state and the edge. *)
LEMMA OnEdgeFacts ==
  ASSUME NEW b \in ButtonValues
  PROVE  /\ b.state = "Idle" =>
              Becomes(OnEdge(b, "Falling"), "Debounce", Debounce, 1, b.waking)
         /\ b.state = "Window" =>
              Becomes(OnEdge(b, "Falling"), "Debounce", Debounce, b.clicks + 1, b.waking)
         /\ b.state = "Debounce" =>
              Becomes(OnEdge(b, "Rising"), "Idle", 0, b.clicks, FALSE)
         /\ b.state = "Held" =>
              Becomes(OnEdge(b, "Rising"), "Window", Window, b.clicks, b.waking)
         /\ b.state = "WaitRelease" =>
              Becomes(OnEdge(b, "Rising"), "Idle", 0, b.clicks, b.waking)
  <1> USE ButtonTuning DEF Becomes, OnEdge, BeginPress, NextPress, Glitch, EndPress, Rest
  <1>1. b.clicks \in Nat /\ b.clicks + 1 \in Nat
    BY DEF ButtonValues
  <1>2. CASE b.state = "Idle"
    BY <1>2 DEF ButtonValues, ButtonStates
  <1>3. CASE b.state = "Window"
    BY <1>1, <1>3 DEF ButtonValues, ButtonStates
  <1>4. CASE b.state = "Debounce"
    BY <1>4 DEF ButtonValues, ButtonStates
  <1>5. CASE b.state = "Held"
    BY <1>5 DEF ButtonValues, ButtonStates
  <1>6. CASE b.state = "WaitRelease"
    BY <1>6 DEF ButtonValues, ButtonStates
  <1>7. QED
    BY <1>2, <1>3, <1>4, <1>5, <1>6

(* What on_deadline does once the deadline has come. *)
LEMMA OnDeadlineFacts ==
  ASSUME NEW b \in ButtonValues, DeadlineDue(b)
  PROVE  /\ b.state = "Debounce" =>
              /\ Becomes(OnDeadline(b), "Held", Hold, b.clicks, b.waking)
              /\ GestureAtDeadline(b) = "none"
         /\ b.state = "Held" =>
              /\ Becomes(OnDeadline(b), "WaitRelease", 0, b.clicks, FALSE)
              /\ GestureAtDeadline(b) = "FactoryReset"
         /\ b.state = "Window" =>
              /\ Becomes(OnDeadline(b), "Idle", 0, b.clicks, FALSE)
              /\ GestureAtDeadline(b) = ClickGesture(b.clicks)
  <1> USE ButtonTuning
      DEF Becomes, OnDeadline, GestureAtDeadline, BelievePress, HoldElapsed, WindowClosed, Rest
  <1>1. CASE b.state = "Debounce"
    BY <1>1 DEF ButtonValues, ButtonStates
  <1>2. CASE b.state = "Held"
    BY <1>2 DEF ButtonValues, ButtonStates
  <1>3. CASE b.state = "Window"
    BY <1>3 DEF ButtonValues, ButtonStates
  <1>4. QED
    BY <1>1, <1>2, <1>3

(* A click window closes on one of three answers. *)
LEMMA ClickGestureType ==
  ASSUME NEW n \in Nat
  PROVE  ClickGesture(n) \in {"SampleNow", "Calibrate", "none"}
  BY DEF ClickGesture

-----------------------------------------------------------------------------
(* The initial states satisfy the strengthening. *)
LEMMA InitIInv == Init => IInv
  <1> SUFFICES ASSUME NEW woken \in BOOLEAN,
                      button = NewButton(woken),
                      pin = (IF woken THEN "down" ELSE "up"),
                      pinFor = (IF woken THEN 0 ELSE Horizon),
                      bootPress = woken, burst = 0, bounced = FALSE,
                      answer = "none", presses = 0
               PROVE  IInv
    BY DEF Init
  <1> USE ButtonTuning, GestureBounds
  <1>1. TypeOK
    <2>1. button \in ButtonValues
      BY NewButtonFacts
    <2>2. pin \in {"up", "down"} /\ pinFor \in 0..Horizon
      OBVIOUS
    <2>3. QED
      BY <2>1, <2>2 DEF TypeOK
  <1>2. BelievesPin
    BY DEF BelievesPin, NewButton
  <1>3. WakingWaitsOnDeadline
    BY DEF WakingWaitsOnDeadline, NewButton, HasDeadline, TimedStates
  <1>4. DeadlineMeasuresPin
    BY DEF DeadlineMeasuresPin, HoldTime, NewButton
  <1>5. AnswerFollowsState
    BY DEF AnswerFollowsState, NewButton, HasDeadline, TimedStates
  <1>6. ClicksCountBurst
    BY DEF ClicksCountBurst, NewButton
  <1>7. QED
    BY <1>1, <1>2, <1>3, <1>4, <1>5, <1>6 DEF IInv

\* The types, as facts about each variable and field of its own.
FieldTypes ==
  /\ button \in ButtonValues
  /\ button.state \in ButtonStates
  /\ button.left \in Nat
  /\ button.clicks \in Nat
  /\ button.waking \in BOOLEAN
  /\ pinFor \in Nat
  /\ pinFor <= Horizon
  /\ burst \in Nat
  /\ presses \in Nat

(* The type invariant gives the fields their types. *)
LEMMA Types == TypeOK => FieldTypes
  BY GestureBounds DEF TypeOK, ButtonValues, FieldTypes

(* A press keeps the strengthening. *)
LEMMA PressIInv == IInv /\ Press => IInv'
  <1> SUFFICES ASSUME IInv, Press PROVE IInv'
    OBVIOUS
  <1> USE ButtonTuning, GestureBounds DEF IInv
  <1>1. FieldTypes
    BY Types
  <1>2. button' \in ButtonValues => TypeOK'
    <2>1. pin' \in {"up", "down"} /\ pinFor' \in 0..Horizon /\ burst' \in Nat /\ presses' \in Nat
      BY <1>1 DEF TypeOK, FieldTypes, Press
    <2>2. bootPress' \in BOOLEAN /\ bounced' \in BOOLEAN
      BY DEF TypeOK, Press
    <2>3. answer' \in Gestures \cup {"none"}
      BY DEF TypeOK, Press
    <2>4. QED
      BY <2>1, <2>2, <2>3 DEF TypeOK
  <1>3. CASE button.state = "Idle"
    <2>1. Becomes(button', "Debounce", Debounce, 1, button.waking)
      BY <1>1, <1>3, OnEdgeFacts DEF Press, FieldTypes
    <2>2. TypeOK'
      BY <1>2, <2>1 DEF Becomes
    <2>3. BelievesPin'
      BY <1>1, <1>3, <2>1
      DEF Press, FieldTypes, Becomes, BelievesPin
    <2>4. WakingWaitsOnDeadline'
      BY <1>1, <1>3, <2>1
      DEF Press, FieldTypes, Becomes, WakingWaitsOnDeadline, AnswerFollowsState,
          BelievesPin, HasDeadline, TimedStates
    <2>5. DeadlineMeasuresPin'
      BY <1>1, <1>3, <2>1
      DEF Press, FieldTypes, Becomes, DeadlineMeasuresPin, HoldTime,
          BelievesPin, DeadlineDue, HasDeadline, TimedStates
    <2>6. AnswerFollowsState'
      BY <1>1, <1>3, <2>1
      DEF Press, FieldTypes, Becomes, AnswerFollowsState, HasDeadline,
          TimedStates, BelievesPin
    <2>7. ClicksCountBurst'
      <3> SUFFICES ASSUME ~bounced' PROVE ClicksCountBurst'
        BY DEF ClicksCountBurst
      <3>1. burst' = 0
        BY <1>1, <1>3 DEF Press, FieldTypes, ClicksCountBurst
      <3>2. QED
        BY <1>1, <2>1, <3>1 DEF FieldTypes, Becomes, ClicksCountBurst, Press
    <2>8. QED
      BY <2>2, <2>3, <2>4, <2>5, <2>6, <2>7
  <1>4. CASE button.state = "Window"
    <2>1. Becomes(button', "Debounce", Debounce, button.clicks + 1, button.waking)
      BY <1>1, <1>4, OnEdgeFacts DEF Press, FieldTypes
    <2>2. TypeOK'
      BY <1>2, <2>1 DEF Becomes
    <2>3. BelievesPin'
      BY <1>1, <1>4, <2>1
      DEF Press, FieldTypes, Becomes, BelievesPin
    <2>4. WakingWaitsOnDeadline'
      BY <1>1, <1>4, <2>1
      DEF Press, FieldTypes, Becomes, WakingWaitsOnDeadline, AnswerFollowsState,
          BelievesPin, HasDeadline, TimedStates
    <2>5. DeadlineMeasuresPin'
      BY <1>1, <1>4, <2>1
      DEF Press, FieldTypes, Becomes, DeadlineMeasuresPin, HoldTime,
          BelievesPin, DeadlineDue, HasDeadline, TimedStates
    <2>6. AnswerFollowsState'
      BY <1>1, <1>4, <2>1
      DEF Press, FieldTypes, Becomes, AnswerFollowsState, HasDeadline,
          TimedStates, BelievesPin
    <2>7. ClicksCountBurst'
      <3> SUFFICES ASSUME ~bounced' PROVE ClicksCountBurst'
        BY DEF ClicksCountBurst
      <3>1. pinFor < Window
        BY <1>1, <1>4 DEF Press, FieldTypes, DeadlineMeasuresPin, DeadlineDue, HasDeadline, TimedStates
      <3>2. ~bounced /\ burst' = burst
        BY <3>1 DEF Press
      <3>3. button.clicks = burst
        BY <3>2, <1>4 DEF ClicksCountBurst
      <3>4. QED
        BY <1>1, <2>1, <3>1, <3>2, <3>3 DEF FieldTypes, Becomes, ClicksCountBurst, Press
    <2>8. QED
      BY <2>2, <2>3, <2>4, <2>5, <2>6, <2>7
  <1>5. QED
    BY <1>1, <1>3, <1>4 DEF Press, FieldTypes, BelievesPin, ButtonStates

(* A release keeps the strengthening. *)
LEMMA ReleaseIInv == IInv /\ Release => IInv'
  <1> SUFFICES ASSUME IInv, Release PROVE IInv'
    OBVIOUS
  <1> USE ButtonTuning, GestureBounds DEF IInv
  <1>1. FieldTypes
    BY Types
  <1>2. button' \in ButtonValues => TypeOK'
    <2>1. /\ pin' \in {"up", "down"} /\ pinFor' \in 0..Horizon /\ presses' \in Nat
          /\ burst' \in Nat
      <3>1. burst' \in {burst, burst + 1, 0}
        BY DEF Release
      <3>2. QED
        BY <1>1, <3>1 DEF FieldTypes, Release
    <2>2. bootPress' \in BOOLEAN /\ bounced' \in BOOLEAN
      BY DEF TypeOK, Release
    <2>3. answer' \in Gestures \cup {"none"}
      BY DEF TypeOK, Release
    <2>4. QED
      BY <2>1, <2>2, <2>3 DEF TypeOK
  <1>3. CASE button.state = "Debounce"
    <2>1. Becomes(button', "Idle", 0, button.clicks, FALSE)
      BY <1>1, <1>3, OnEdgeFacts DEF Release, FieldTypes
    <2>2. TypeOK'
      BY <1>2, <2>1 DEF Becomes
    <2>3. BelievesPin'
      BY <1>1, <1>3, <2>1
      DEF Release, FieldTypes, Becomes, BelievesPin
    <2>4. WakingWaitsOnDeadline'
      BY <1>1, <1>3, <2>1
      DEF Release, FieldTypes, Becomes, WakingWaitsOnDeadline, AnswerFollowsState,
          BelievesPin, HasDeadline, TimedStates
    <2>5. DeadlineMeasuresPin'
      BY <1>1, <1>3, <2>1
      DEF Release, FieldTypes, Becomes, DeadlineMeasuresPin, HoldTime,
          BelievesPin, DeadlineDue, HasDeadline, TimedStates
    <2>6. AnswerFollowsState'
      BY <1>1, <1>3, <2>1
      DEF Release, FieldTypes, Becomes, AnswerFollowsState, HasDeadline,
          TimedStates, BelievesPin
    <2>7. ClicksCountBurst'
      <3> SUFFICES ASSUME ~bounced' PROVE ClicksCountBurst'
        BY DEF ClicksCountBurst
      <3>1. ~bootPress /\ pinFor < Debounce
        BY <1>1, <1>3 DEF Release, FieldTypes, DeadlineMeasuresPin, DeadlineDue, HasDeadline, TimedStates
      <3>2. burst' = burst /\ bounced' = IF burst > 0 THEN TRUE ELSE bounced
        BY <3>1 DEF Release
      <3>3. ~(burst > 0)
        BY <3>2
      <3>4. burst' = 0
        BY <1>1, <3>2, <3>3 DEF FieldTypes
      <3>5. QED
        BY <1>1, <2>1, <3>4 DEF FieldTypes, Becomes, ClicksCountBurst, Release
    <2>8. QED
      BY <2>2, <2>3, <2>4, <2>5, <2>6, <2>7
  <1>4. CASE button.state = "Held"
    <2>1. Becomes(button', "Window", Window, button.clicks, button.waking)
      BY <1>1, <1>4, OnEdgeFacts DEF Release, FieldTypes
    <2>2. TypeOK'
      BY <1>2, <2>1 DEF Becomes
    <2>3. BelievesPin'
      BY <1>1, <1>4, <2>1
      DEF Release, FieldTypes, Becomes, BelievesPin
    <2>4. WakingWaitsOnDeadline'
      BY <1>1, <1>4, <2>1
      DEF Release, FieldTypes, Becomes, WakingWaitsOnDeadline, AnswerFollowsState,
          BelievesPin, HasDeadline, TimedStates
    <2>5. DeadlineMeasuresPin'
      BY <1>1, <1>4, <2>1
      DEF Release, FieldTypes, Becomes, DeadlineMeasuresPin, HoldTime,
          BelievesPin, DeadlineDue, HasDeadline, TimedStates
    <2>6. AnswerFollowsState'
      BY <1>1, <1>4, <2>1
      DEF Release, FieldTypes, Becomes, AnswerFollowsState, HasDeadline,
          TimedStates, BelievesPin
    <2>7. ClicksCountBurst'
      <3> SUFFICES ASSUME ~bounced' PROVE ClicksCountBurst'
        BY DEF ClicksCountBurst
      <3>1. ~(~bootPress /\ pinFor < Debounce)
        BY <1>1, <1>4 DEF Release, FieldTypes, DeadlineMeasuresPin, HoldTime
      <3>2. ~bounced /\ burst' = burst + 1
        <4>1. answer # "FactoryReset"
          BY <1>4 DEF AnswerFollowsState, HasDeadline, TimedStates
        <4>2. bounced' = bounced /\ burst' = burst + 1
          BY <3>1, <4>1 DEF Release
        <4>3. QED
          BY <4>2
      <3>3. button.clicks = burst + 1
        BY <3>2, <1>4 DEF ClicksCountBurst
      <3>4. QED
        BY <1>1, <2>1, <3>1, <3>2, <3>3 DEF FieldTypes, Becomes, ClicksCountBurst, Release
    <2>8. QED
      BY <2>2, <2>3, <2>4, <2>5, <2>6, <2>7
  <1>5. CASE button.state = "WaitRelease"
    <2>1. Becomes(button', "Idle", 0, button.clicks, button.waking)
      BY <1>1, <1>5, OnEdgeFacts DEF Release, FieldTypes
    <2>2. TypeOK'
      BY <1>2, <2>1 DEF Becomes
    <2>3. BelievesPin'
      BY <1>1, <1>5, <2>1
      DEF Release, FieldTypes, Becomes, BelievesPin
    <2>4. WakingWaitsOnDeadline'
      BY <1>1, <1>5, <2>1
      DEF Release, FieldTypes, Becomes, WakingWaitsOnDeadline, AnswerFollowsState,
          BelievesPin, HasDeadline, TimedStates
    <2>5. DeadlineMeasuresPin'
      BY <1>1, <1>5, <2>1
      DEF Release, FieldTypes, Becomes, DeadlineMeasuresPin, HoldTime,
          BelievesPin, DeadlineDue, HasDeadline, TimedStates
    <2>6. AnswerFollowsState'
      BY <1>1, <1>5, <2>1
      DEF Release, FieldTypes, Becomes, AnswerFollowsState, HasDeadline,
          TimedStates, BelievesPin
    <2>7. ClicksCountBurst'
      <3> SUFFICES ASSUME ~bounced' PROVE ClicksCountBurst'
        BY DEF ClicksCountBurst
      <3>1. ~(~bootPress /\ pinFor < Debounce)
        BY <1>1, <1>5 DEF FieldTypes, DeadlineMeasuresPin, HoldTime
      <3>2. burst' = 0
        BY <1>5, <3>1 DEF Release, AnswerFollowsState
      <3>3. QED
        BY <1>1, <2>1, <3>1, <3>2 DEF FieldTypes, Becomes, ClicksCountBurst, Release
    <2>8. QED
      BY <2>2, <2>3, <2>4, <2>5, <2>6, <2>7
  <1>6. QED
    BY <1>1, <1>3, <1>4, <1>5 DEF Release, FieldTypes, BelievesPin, ButtonStates

(* A deadline keeps the strengthening. *)
LEMMA DeadlineIInv == IInv /\ Deadline => IInv'
  <1> SUFFICES ASSUME IInv, Deadline PROVE IInv'
    OBVIOUS
  <1> USE ButtonTuning, GestureBounds DEF IInv
  <1>1. FieldTypes
    BY Types
  <1>2. button' \in ButtonValues => TypeOK'
    <2>1. pin' \in {"up", "down"} /\ pinFor' \in 0..Horizon /\ burst' \in Nat /\ presses' \in Nat
      BY <1>1 DEF TypeOK, FieldTypes, Deadline
    <2>2. bootPress' \in BOOLEAN /\ bounced' \in BOOLEAN
      BY DEF TypeOK, Deadline
    <2>3. GestureAtDeadline(button) \in Gestures \cup {"none"}
      BY DEF GestureAtDeadline, ClickGesture, Gestures
    <2>4. answer' \in Gestures \cup {"none"}
      BY <2>3 DEF TypeOK, Deadline
    <2>5. QED
      BY <2>1, <2>2, <2>4 DEF TypeOK
  <1>3. CASE button.state = "Debounce"
    <2>1. Becomes(button', "Held", Hold, button.clicks, button.waking)
          /\ GestureAtDeadline(button) = "none"
      BY <1>1, <1>3, OnDeadlineFacts DEF Deadline, FieldTypes
    <2>2. TypeOK'
      BY <1>2, <2>1 DEF Becomes
    <2>3. BelievesPin'
      BY <1>1, <1>3, <2>1
      DEF Deadline, FieldTypes, Becomes, BelievesPin
    <2>4. WakingWaitsOnDeadline'
      BY <1>1, <1>3, <2>1
      DEF Deadline, FieldTypes, Becomes, WakingWaitsOnDeadline, AnswerFollowsState,
          BelievesPin, HasDeadline, TimedStates
    <2>5. DeadlineMeasuresPin'
      BY <1>1, <1>3, <2>1
      DEF Deadline, FieldTypes, Becomes, DeadlineMeasuresPin, HoldTime,
          BelievesPin, DeadlineDue, HasDeadline, TimedStates
    <2>6. AnswerFollowsState'
      BY <1>1, <1>3, <2>1
      DEF Deadline, FieldTypes, Becomes, AnswerFollowsState, HasDeadline,
          TimedStates, BelievesPin
    <2>7. ClicksCountBurst'
      <3> SUFFICES ASSUME ~bounced' PROVE ClicksCountBurst'
        BY DEF ClicksCountBurst
      <3>1. ~bounced /\ burst' = burst /\ button.clicks = burst + 1
        BY <1>3 DEF Deadline, ClicksCountBurst
      <3>2. QED
        BY <1>1, <2>1, <3>1 DEF FieldTypes, Becomes, ClicksCountBurst, Deadline
    <2>8. QED
      BY <2>2, <2>3, <2>4, <2>5, <2>6, <2>7
  <1>4. CASE button.state = "Held"
    <2>1. Becomes(button', "WaitRelease", 0, button.clicks, FALSE)
          /\ GestureAtDeadline(button) = "FactoryReset"
      BY <1>1, <1>4, OnDeadlineFacts DEF Deadline, FieldTypes
    <2>2. TypeOK'
      BY <1>2, <2>1 DEF Becomes
    <2>3. BelievesPin'
      BY <1>1, <1>4, <2>1
      DEF Deadline, FieldTypes, Becomes, BelievesPin
    <2>4. WakingWaitsOnDeadline'
      BY <1>1, <1>4, <2>1
      DEF Deadline, FieldTypes, Becomes, WakingWaitsOnDeadline, AnswerFollowsState,
          BelievesPin, HasDeadline, TimedStates
    <2>5. DeadlineMeasuresPin'
      BY <1>1, <1>4, <2>1
      DEF Deadline, FieldTypes, Becomes, DeadlineMeasuresPin, HoldTime,
          BelievesPin, DeadlineDue, HasDeadline, TimedStates
    <2>6. AnswerFollowsState'
      BY <1>1, <1>4, <2>1
      DEF Deadline, FieldTypes, Becomes, AnswerFollowsState, HasDeadline,
          TimedStates, BelievesPin
    <2>7. ClicksCountBurst'
      <3> SUFFICES ASSUME ~bounced' PROVE ClicksCountBurst'
        BY DEF ClicksCountBurst
      <3>1. button'.state = "WaitRelease"
        BY <2>1 DEF Becomes
      <3>2. QED
        BY <1>1, <2>1, <3>1 DEF FieldTypes, Becomes, ClicksCountBurst, Deadline
    <2>8. QED
      BY <2>2, <2>3, <2>4, <2>5, <2>6, <2>7
  <1>5. CASE button.state = "Window"
    <2>1. Becomes(button', "Idle", 0, button.clicks, FALSE)
          /\ GestureAtDeadline(button) = ClickGesture(button.clicks)
      BY <1>1, <1>5, OnDeadlineFacts DEF Deadline, FieldTypes
    <2>2. TypeOK'
      BY <1>2, <2>1 DEF Becomes
    <2>3. BelievesPin'
      BY <1>1, <1>5, <2>1
      DEF Deadline, FieldTypes, Becomes, BelievesPin
    <2>4. WakingWaitsOnDeadline'
      BY <1>1, <1>5, <2>1
      DEF Deadline, FieldTypes, Becomes, WakingWaitsOnDeadline, AnswerFollowsState,
          BelievesPin, HasDeadline, TimedStates
    <2>5. DeadlineMeasuresPin'
      BY <1>1, <1>5, <2>1
      DEF Deadline, FieldTypes, Becomes, DeadlineMeasuresPin, HoldTime,
          BelievesPin, DeadlineDue, HasDeadline, TimedStates
    <2>6. AnswerFollowsState'
      BY <1>1, <1>5, <2>1
      DEF Deadline, FieldTypes, Becomes, AnswerFollowsState, HasDeadline,
          TimedStates, BelievesPin
    <2>7. ClicksCountBurst'
      <3> SUFFICES ASSUME ~bounced' PROVE ClicksCountBurst'
        BY DEF ClicksCountBurst
      <3>1. burst' = burst /\ button.clicks = burst
        BY <1>5 DEF Deadline, ClicksCountBurst
      <3>2. pinFor' = Window
        BY <1>1, <1>5 DEF Deadline, FieldTypes, DeadlineMeasuresPin, DeadlineDue
      <3>3. answer = "none"
        BY <1>5 DEF AnswerFollowsState, HasDeadline, TimedStates
      <3>4. answer' = ClickGesture(burst')
        BY <2>1, <3>1, <3>3 DEF Deadline
      <3>5. QED
        BY <1>1, <2>1, <3>1, <3>2, <3>3, <3>4 DEF FieldTypes, Becomes, ClicksCountBurst, Deadline
    <2>8. QED
      BY <2>2, <2>3, <2>4, <2>5, <2>6, <2>7
  <1>6. QED
    BY <1>3, <1>4, <1>5 DEF Deadline, DeadlineDue, HasDeadline, TimedStates

(* The passing of time keeps the strengthening: the armed deadline comes closer by
   what the pin's dwell gains. *)
LEMMA TickIInv == IInv /\ Tick => IInv'
  <1> SUFFICES ASSUME IInv, Tick PROVE IInv'
    OBVIOUS
  <1> USE ButtonTuning, GestureBounds DEF IInv
  <1>1. /\ button' \in ButtonValues
        /\ button'.state = button.state
        /\ button'.clicks = button.clicks
        /\ button'.waking = button.waking
        /\ HasDeadline(button) => button.left > 0 /\ button'.left = button.left - 1
    BY DEF TypeOK, ButtonValues, Tick, Elapse, DeadlineDue
  <1>2. TypeOK'
    BY <1>1 DEF TypeOK, Tick, history
  <1>3. BelievesPin'
    BY <1>1 DEF BelievesPin, Tick
  <1>4. WakingWaitsOnDeadline'
    BY <1>1 DEF WakingWaitsOnDeadline, Tick, history, HasDeadline
  <1>5. DeadlineMeasuresPin'
    BY <1>1, Types DEF FieldTypes, DeadlineMeasuresPin, HoldTime, Tick, history, HasDeadline, TimedStates
  <1>6. AnswerFollowsState'
    BY <1>1 DEF AnswerFollowsState, Tick, history, HasDeadline
  <1>7. ClicksCountBurst'
    BY <1>1, Types DEF FieldTypes, ClicksCountBurst, Tick, history
  <1>8. QED
    BY <1>2, <1>3, <1>4, <1>5, <1>6, <1>7

(* The strengthening holds throughout. *)
LEMMA StrengtheningHolds == Spec => []IInv
  <1>1. IInv /\ UNCHANGED vars => IInv'
    BY DEF vars, IInv, TypeOK, BelievesPin, WakingWaitsOnDeadline, DeadlineMeasuresPin,
           AnswerFollowsState, ClicksCountBurst, HasDeadline, HoldTime, ClickGesture
  <1>2. IInv /\ [Next]_vars => IInv'
    BY <1>1, PressIInv, ReleaseIInv, DeadlineIInv, TickIInv DEF Next
  <1>3. QED
    BY InitIInv, <1>2, PTL DEF Spec

-----------------------------------------------------------------------------
(* The variables keep their types. *)
THEOREM TypeCorrect == Spec => []TypeOK
  BY StrengtheningHolds, PTL DEF IInv

(* The machine knows where the pin is, so a device that finds it idle does not
   sleep with the button down. *)
THEOREM PinBelieved == Spec => []BelievesPin
  BY StrengtheningHolds, PTL DEF IInv

(* The wake phase only ever waits for a deadline that is armed. *)
THEOREM WakingHasDeadline == Spec => []WakingWaitsOnDeadline
  BY StrengtheningHolds, PTL DEF IInv

(* A press asks for the factory reset exactly when it has lasted long enough. *)
THEOREM HoldTheorem == Spec => []ResetExactlyAfterHold
  <1>1. IInv => ResetExactlyAfterHold
    <2> SUFFICES ASSUME IInv, pin = "down"
                 PROVE  /\ answer = "FactoryReset" => pinFor >= HoldTime
                        /\ pinFor > HoldTime => answer = "FactoryReset"
      BY DEF ResetExactlyAfterHold
    <2>1. FieldTypes
      BY Types DEF IInv
    <2>2. button.state \in {"Debounce", "Held", "WaitRelease"}
      BY DEF IInv, BelievesPin
    <2>3. QED
      BY <2>1, <2>2, ButtonTuning
      DEF IInv, FieldTypes, DeadlineMeasuresPin, AnswerFollowsState, HasDeadline, TimedStates,
          HoldTime
  <1>2. QED
    BY <1>1, StrengtheningHolds, PTL

(* A burst of presses without a glitch in it is answered with its gesture. *)
THEOREM BurstTheorem == Spec => []BurstAnswered
  <1>1. IInv => BurstAnswered
    <2> SUFFICES ASSUME IInv, pin = "up", pinFor > Window, burst > 0, ~bounced
                 PROVE  Answered
      BY DEF BurstAnswered
    <2>1. FieldTypes
      BY Types DEF IInv
    <2>2. button.state = "Idle"
      BY <2>1, ButtonTuning
      DEF IInv, FieldTypes, BelievesPin, DeadlineMeasuresPin, ButtonStates
    <2>3. answer = ClickGesture(burst)
      BY <2>2 DEF IInv, ClicksCountBurst
    <2>4. QED
      BY <2>1, <2>3 DEF FieldTypes, ClickGesture, Answered
  <1>2. QED
    BY <1>1, StrengtheningHolds, PTL

(* One press asks for one reset: a hold that may still ask has no answer yet. *)
THEOREM OneResetPerPress == Spec => ResetOncePerPress
  <1>1. IInv /\ [Next]_vars
          => [Deadline /\ GestureAtDeadline(button) = "FactoryReset" => answer # "FactoryReset"]_vars
    <2> SUFFICES ASSUME IInv, Deadline
                 PROVE  answer # "FactoryReset"
      OBVIOUS
    <2> QED
      BY DEF Deadline, DeadlineDue, IInv, AnswerFollowsState
  <1>2. QED
    BY <1>1, StrengtheningHolds, PTL DEF Spec, ResetOncePerPress
=============================================================================
