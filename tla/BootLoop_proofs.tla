--------------------------- MODULE BootLoop_proofs ---------------------------
(***************************************************************************)
(* The boot loop, for all durations in the order of tuning.rs and any      *)
(* number of presses and messages.  First over the firmware's ports: the   *)
(* types, the reboot count, the wake phase's one reading, the watchdog,    *)
(* the two halves of the sleep decision - settled, and at rest -, the      *)
(* sleep's length and the time until a gesture is answered.  Then over     *)
(* either set of ports, the simulator's with every script: what both       *)
(* promise the loop, and what the loop does with it.                       *)
(***************************************************************************)
EXTENDS Simulator, TLAPS, SequenceTheorems, WellFoundedInduction

DownStates == {"Debounce", "Held", "WaitRelease"}

\* The machine waits for no longer than for the hold.
Machines == {b \in ButtonValues : b.left <= Hold}

(* The durations are positive and in order.                                   *)
LEMMA Durations ==
  /\ SamplePeriod \in Nat /\ HealthyAfter \in Nat /\ WakeHold \in Nat /\ CalibrationHold \in Nat
  /\ ActiveThreshold \in Nat /\ PersistDebounce \in Nat /\ Settle \in Nat /\ SleepMin \in Nat /\ SoilTime \in Nat
  /\ BatteryTime \in Nat /\ CaptureTime \in Nat /\ StartupTime \in Nat /\ IdlePeriod \in Nat
  /\ Debounce \in Nat /\ Window \in Nat /\ Hold \in Nat
  /\ SamplePeriod > 0 /\ Settle > 0 /\ SoilTime > 0 /\ BatteryTime > 0 /\ CaptureTime > 0
  /\ StartupTime > 0 /\ Debounce > 0 /\ Window > 0 /\ Hold > 0
  /\ PersistDebounce < ActiveThreshold
  /\ SoilTime + BatteryTime < ActiveThreshold
  /\ SoilTime + BatteryTime + StartupTime < SamplePeriod
  /\ CaptureTime < SamplePeriod
  /\ Debounce < Hold /\ Window < Hold /\ Hold < SamplePeriod
  /\ 2 * CaptureTime + SoilTime + BatteryTime < CalibrationHold
  /\ Settle < IdlePeriod
  /\ WatchdogTimeout \in Nat /\ WatchdogTimeout >= 2 * SamplePeriod
<1>1. /\ SamplePeriod \in Nat \ {0} /\ HealthyAfter \in Nat \ {0} /\ WakeHold \in Nat \ {0}
      /\ CalibrationHold \in Nat \ {0} /\ ActiveThreshold \in Nat \ {0}
      /\ PersistDebounce \in Nat \ {0} /\ Settle \in Nat \ {0} /\ SleepMin \in Nat \ {0}
      /\ SoilTime \in Nat \ {0}
      /\ BatteryTime \in Nat \ {0} /\ CaptureTime \in Nat \ {0} /\ StartupTime \in Nat \ {0}
      /\ IdlePeriod \in Nat \ {0}
  BY BootTuning, Zenon DEF TuningOrder
<1>2. /\ PersistDebounce < ActiveThreshold
      /\ SoilTime + BatteryTime < ActiveThreshold
      /\ SoilTime + BatteryTime + StartupTime < SamplePeriod
      /\ CaptureTime < SamplePeriod
      /\ Debounce < Hold /\ Window < Hold /\ Hold < SamplePeriod
      /\ 2 * CaptureTime + SoilTime + BatteryTime < CalibrationHold
      /\ SoilTime + BatteryTime + Settle < IdlePeriod
      /\ WatchdogTimeout \in Nat /\ WatchdogTimeout >= 2 * SamplePeriod
  BY BootTuning, Zenon DEF TuningOrder
<1>3. QED
  BY <1>1, <1>2, ButtonTuning

-----------------------------------------------------------------------------
(* The machine's operators. *)

(* A new machine is one.                                                      *)
LEMMA NewMachine ==
  ASSUME NEW woken \in BOOLEAN
  PROVE  NewButton(woken) \in Machines
BY Durations DEF NewButton, Machines, ButtonValues, ButtonStates

\* The machine u is in that state, waits for as long, and is a machine.
Turns(u, s, l) == u \in ButtonValues /\ u.state = s /\ u.left = l

(* on_edge, by the state and the edge.                                        *)
LEMMA EdgeTurns ==
  ASSUME NEW b \in ButtonValues
  PROVE  /\ b.state \in {"Idle", "Window"} => Turns(OnEdge(b, "Falling"), "Debounce", Debounce)
         /\ b.state \in DownStates => OnEdge(b, "Falling") = b
         /\ b.state = "Debounce" => Turns(OnEdge(b, "Rising"), "Idle", 0)
         /\ b.state = "Held" => Turns(OnEdge(b, "Rising"), "Window", Window)
         /\ b.state = "WaitRelease" => Turns(OnEdge(b, "Rising"), "Idle", 0)
         /\ b.state \in {"Idle", "Window"} => OnEdge(b, "Rising") = b
<1> USE ButtonTuning DEF Turns, OnEdge, BeginPress, NextPress, Glitch, EndPress, Rest, DownStates
<1>1. b.clicks \in Nat /\ b.clicks + 1 \in Nat
  BY DEF ButtonValues
<1>2. CASE b.state = "Idle"
  BY <1>2 DEF ButtonValues, ButtonStates
<1>3. CASE b.state = "Window"
  BY <1>1, <1>3 DEF ButtonValues, ButtonStates
<1>4. CASE b.state = "Debounce"
  BY <1>4 DEF ButtonValues, ButtonStates
<1>5. CASE b.state = "Held"
  BY <1>5 DEF ButtonValues, ButtonStates
<1>6. CASE b.state = "WaitRelease"
  BY <1>6 DEF ButtonValues, ButtonStates
<1>7. QED
  BY <1>2, <1>3, <1>4, <1>5, <1>6 DEF ButtonValues, ButtonStates

(* The machine believes in the button being down after a falling edge and up  *)
(* after a rising one, whatever it believed before.                           *)
LEMMA EdgeMachine ==
  ASSUME NEW b \in Machines, NEW e \in Edges
  PROVE  /\ OnEdge(b, e) \in Machines
         /\ OnEdge(b, e).state \in DownStates <=> e = "Falling"
<1>1. b \in ButtonValues /\ b.left <= Hold
  BY DEF Machines
<1>2. b.state \in {"Idle", "Window"} \cup DownStates
  BY <1>1 DEF ButtonValues, ButtonStates, DownStates
<1>3. CASE e = "Falling"
  BY <1>1, <1>2, <1>3, EdgeTurns, Durations DEF Turns, Machines, DownStates
<1>4. CASE e = "Rising"
  BY <1>1, <1>2, <1>4, EdgeTurns, Durations DEF Turns, Machines, DownStates
<1>5. QED
  BY <1>3, <1>4 DEF Edges

(* on_deadline leaves the machine's belief about the pin alone.               *)
LEMMA DeadlineMachine ==
  ASSUME NEW b \in Machines
  PROVE  /\ OnDeadline(b) \in Machines
         /\ OnDeadline(b).state \in DownStates <=> b.state \in DownStates
<1>1. b \in ButtonValues /\ b.left <= Hold
  BY DEF Machines
<1> USE Durations DEF Turns, OnDeadline, BelievePress, HoldElapsed, WindowClosed, Rest
<1>2. CASE ~DeadlineDue(b)
  BY <1>1, <1>2
<1>3. CASE DeadlineDue(b) /\ b.state = "Debounce"
  <2>1. Turns(OnDeadline(b), "Held", Hold)
    BY <1>1, <1>3 DEF ButtonValues, ButtonStates
  <2>2. QED
    BY <1>3, <2>1 DEF Machines, DownStates
<1>4. CASE DeadlineDue(b) /\ b.state = "Held"
  <2>1. Turns(OnDeadline(b), "WaitRelease", 0)
    BY <1>1, <1>4 DEF ButtonValues, ButtonStates
  <2>2. QED
    BY <1>4, <2>1 DEF Machines, DownStates
<1>5. CASE DeadlineDue(b) /\ b.state = "Window"
  <2>1. Turns(OnDeadline(b), "Idle", 0)
    BY <1>1, <1>5 DEF ButtonValues, ButtonStates
  <2>2. QED
    BY <1>5, <2>1 DEF Machines, DownStates
<1>6. QED
  BY <1>2, <1>3, <1>4, <1>5 DEF DeadlineDue, HasDeadline, TimedStates

(* Time only brings the deadline closer.                                      *)
LEMMA ElapseMachine ==
  ASSUME NEW b \in Machines, NEW d \in Nat
  PROVE  /\ Elapse(b, d) \in Machines
         /\ Elapse(b, d).state = b.state /\ Elapse(b, d).waking = b.waking
         /\ Elapse(b, d).left = IF b.left > d THEN b.left - d ELSE 0
BY Durations DEF Elapse, Machines, ButtonValues

-----------------------------------------------------------------------------
(* drain_button. *)

(* A set of numbers has a least one.                                          *)
LEMMA LeastNumber ==
  ASSUME NEW T \in SUBSET Nat, T # {}
  PROVE  \E x \in T : \A y \in T : x <= y
<1> DEFINE R == {ss \in Nat \X Nat : ss[1] < ss[2]}
<1>1. IsWellFoundedOn(R, Nat)
  BY NatLessThanWellFounded DEF OpToRel
<1>2. PICK x \in T : \A y \in T : ~(<<y, x>> \in R)
  <2> HIDE DEF R
  <2>1. QED
    BY <1>1, WFMin
<1>3. ASSUME NEW y \in T PROVE x <= y
  <2>1. x \in Nat /\ y \in Nat
    OBVIOUS
  <2>2. ~(<<y, x>> \in R)
    BY <1>2
  <2>3. <<y, x>> \in Nat \X Nat /\ <<y, x>>[1] = y /\ <<y, x>>[2] = x
    BY <2>1
  <2>4. ~(y < x)
    BY <2>2, <2>3, Zenon
  <2>5. QED
    BY <2>1, <2>4
<1>4. QED
  BY <1>3

(* What holds of 0 and is passed on holds of every number.                    *)
LEMMA Counting ==
  ASSUME NEW G \in SUBSET Nat, 0 \in G, \A n \in G : n + 1 \in G
  PROVE  G = Nat
<1> SUFFICES ASSUME Nat \ G # {} PROVE FALSE
  OBVIOUS
<1>1. PICK x \in Nat \ G : \A y \in Nat \ G : x <= y
  BY LeastNumber
<1>2. x - 1 \in Nat
  BY <1>1
<1>3. x - 1 \in G
  BY <1>1, <1>2
<1>4. QED
  BY <1>1, <1>3

\* What drain_button comes to after each of the waiting edges.
Drains(f, n) ==
  f = [k \in 0..n |-> IF k = 0 THEN button ELSE OnEdge(f[k - 1], edges[k])]

(* There is such a function, edge by edge.                                    *)
LEMMA DrainExists ==
  ASSUME NEW n \in Nat
  PROVE  \E f : Drains(f, n)
<1> DEFINE G == {m \in Nat : \E f : Drains(f, m)}
<1>1. 0 \in G
  <2> DEFINE f == [k \in 0..0 |-> button]
  <2>1. f = [k \in 0..0 |-> IF k = 0 THEN button ELSE OnEdge(f[k - 1], edges[k])]
    OBVIOUS
  <2>2. QED
    BY <2>1 DEF Drains
<1>2. ASSUME NEW m \in G PROVE m + 1 \in G
  <2>1. PICK f : Drains(f, m)
    OBVIOUS
  <2> DEFINE g == [k \in 0..(m + 1) |-> IF k <= m THEN f[k] ELSE OnEdge(f[m], edges[m + 1])]
  <2>2. ASSUME NEW k \in 0..(m + 1)
        PROVE  g[k] = IF k = 0 THEN button ELSE OnEdge(g[k - 1], edges[k])
    <3>1. CASE k = 0
      BY <2>1, <3>1 DEF Drains
    <3>2. CASE k # 0 /\ k <= m
      <4>1. k \in 0..m /\ k - 1 \in 0..m /\ k - 1 \in 0..(m + 1)
        BY <3>2
      <4>2. f[k] = OnEdge(f[k - 1], edges[k])
        BY <2>1, <3>2, <4>1 DEF Drains
      <4>3. QED
        BY <3>2, <4>1, <4>2
    <3>3. CASE k = m + 1
      <4>1. k - 1 = m /\ m \in 0..(m + 1) /\ k # 0 /\ ~(k <= m)
        BY <3>3
      <4>2. QED
        BY <3>3, <4>1
    <3>4. QED
      BY <3>1, <3>2, <3>3
  <2>3. g = [k \in 0..(m + 1) |-> IF k = 0 THEN button ELSE OnEdge(g[k - 1], edges[k])]
    BY <2>2
  <2>4. Drains(g, m + 1)
    BY <2>3 DEF Drains
  <2>5. QED
    BY <2>4
<1>3. G = Nat
  BY <1>1, <1>2, Counting
<1>4. QED
  BY <1>3

\* Where the pin is, by what the boot has seen of it and has yet to see.
LastDown == IF edges = <<>> THEN button.state \in DownStates ELSE edges[Len(edges)] = "Falling"

(* Every drained edge leaves a machine, and the last one says where it is.    *)
LEMMA DrainMachine ==
  ASSUME button \in Machines, edges \in Seq(Edges)
  PROVE  /\ Drain \in Machines
         /\ Drain.state \in DownStates <=> LastDown
<1>1. Len(edges) \in Nat /\ \A k \in 1..Len(edges) : edges[k] \in Edges
  BY ElementOfSeq, LenProperties
<1>2. PICK after : Drains(after, Len(edges)) /\ Drain = after[Len(edges)]
  BY <1>1, DrainExists DEF Drain, Drains
<1>3. /\ after[0] = button
      /\ \A k \in 1..Len(edges) : after[k] = OnEdge(after[k - 1], edges[k])
  BY <1>1, <1>2 DEF Drains
<1> DEFINE G == {k \in Nat : k <= Len(edges) => after[k] \in Machines}
<1>4. 0 \in G
  BY <1>3
<1>5. ASSUME NEW k \in G PROVE k + 1 \in G
  <2>1. CASE k + 1 <= Len(edges)
    <3>1. k <= Len(edges) /\ k + 1 \in 1..Len(edges) /\ (k + 1) - 1 = k
      BY <1>1, <2>1
    <3>2. after[k] \in Machines /\ edges[k + 1] \in Edges
      BY <1>1, <3>1
    <3>3. after[k + 1] = OnEdge(after[k], edges[k + 1])
      BY <1>3, <3>1
    <3>4. after[k + 1] \in Machines
      BY <3>2, <3>3, EdgeMachine
    <3>5. QED
      BY <3>4
  <2>2. CASE ~(k + 1 <= Len(edges))
    BY <2>2
  <2>3. QED
    BY <2>1, <2>2
<1>6. G = Nat
  BY <1>4, <1>5, Counting
<1>7. \A k \in 0..Len(edges) : after[k] \in Machines
  BY <1>1, <1>6
<1>8. CASE edges = <<>>
  BY <1>2, <1>3, <1>8 DEF LastDown
<1>9. CASE edges # <<>>
  <2>1. Len(edges) \in 1..Len(edges) /\ Len(edges) - 1 \in 0..Len(edges)
    BY <1>1, <1>9, EmptySeq
  <2>2. Drain = OnEdge(after[Len(edges) - 1], edges[Len(edges)])
    BY <1>2, <1>3, <2>1
  <2>3. QED
    BY <1>1, <1>7, <1>9, <2>1, <2>2, EdgeMachine DEF LastDown
<1>10. QED
  BY <1>8, <1>9

-----------------------------------------------------------------------------
(* The types. *)

TypeInv == TypeOK /\ button \in Machines

(* The next deadline is not after the next sample, nor after the instant the  *)
(* reboot count waits for; and it is still to come if the next sample is.     *)
LEMMA NextDeadlineEarly ==
  ASSUME button \in Machines, nextSample \in Nat, rebootCountDue \in Nat, idleSince \in Int
  PROVE  /\ NextDeadline \in Nat /\ NextDeadline <= nextSample
         /\ ~rebootCountPersisted /\ rebootCountDue > 0 => NextDeadline <= rebootCountDue
         /\ nextSample > 0 => NextDeadline > 0
<1> DEFINE S == {nextSample} \cup {c \in Candidates : c > 0}
<1>1. Candidates \subseteq Int
  BY Durations DEF Candidates, Machines, ButtonValues
<1>2. /\ S \in SUBSET Nat
      /\ nextSample \in S
  <2>1. ASSUME NEW c \in Candidates, c > 0 PROVE c \in Nat
    <3>1. c \in Int
      BY <1>1
    <3>2. QED
      BY <2>1, <3>1
  <2>2. QED
    BY <2>1
<1>3. ~rebootCountPersisted /\ rebootCountDue > 0 => rebootCountDue \in S
  BY DEF Candidates
<1>4. \A y \in S : y > 0 \/ y = nextSample
  OBVIOUS
<1> HIDE DEF S
<1>5. Min(S) \in S /\ \A y \in S : Min(S) <= y
  BY <1>2, LeastNumber DEF Min
<1>6. NextDeadline = Min(S)
  BY DEF S, NextDeadline
<1>7. QED
  BY <1>2, <1>3, <1>4, <1>5, <1>6

(* Every step is one of these.                                                *)
LEMMA Steps ==
  ASSUME [Next]_vars
  PROVE  \/ ArmWake \/ ArmBoot \/ DeadlineEvent \/ ButtonEvent \/ IcdEvent
         \/ StartCalibration \/ CaptureWet \/ EndCalibration
         \/ StartReading \/ ReadBattery \/ EndReading \/ NothingDue \/ EndStartup
         \/ PersistRebootCount \/ Decide \/ PowerDown
         \/ SendFalling \/ SendRising \/ Person \/ Message \/ Register \/ GoIdle \/ Poll \/ Tick
         \/ UNCHANGED vars
BY Zenon DEF Next, Task, ButtonTask, Stack, Over

(* Whatever the person does, only the pin, what is known of the press and the *)
(* interrupt change: the boot has seen nothing of it yet.                     *)
LEMMA PersonStep ==
  ASSUME Person
  PROVE  /\ pc # "over" /\ pressFor' = 0
         /\ \/ pin = "up" /\ pin' = "down" /\ presses' = presses + 1 /\ latched' = (latched \/ sent = "up")
               /\ UNCHANGED owed
            \/ pin = "down" /\ pin' = "up" /\ presses' = presses /\ latched' = (latched \/ sent = "down")
               /\ owed' = IF pressFor = Debounce THEN TRUE ELSE owed
         /\ UNCHANGED <<app, task, edges, icdChanged, stack, sent, wake, trueIdle, sinceFed, overdue,
                        wakeReadings, rebootWrites>>
<1>1. CASE Press
  BY <1>1, Zenon DEF Press, past
<1>2. CASE Release
  BY <1>2, Zenon DEF Release
<1> QED
  BY <1>1, <1>2 DEF Person

(* The way down, from the last look at the channel to the sleep.              *)
LEMMA PowerDownStep ==
  ASSUME PowerDown
  PROVE  /\ pc = "tail" /\ pc' = "over" /\ outcome' = "Sleep" /\ rebootCountPersisted' = TRUE
         /\ rebootWrites' = IF rebootCountPersisted THEN rebootWrites ELSE rebootWrites + 1
         /\ UNCHANGED <<button, nextSample, sampleWithLed, calibrationRequested, rebootCountDue, idleSince,
                        phase, left, edges, icdChanged, stack, atPin, wake, trueIdle, sinceFed, overdue, owed,
                        wakeReadings>>
BY Zenon DEF PowerDown

\* The types, part by part.
AppTypes ==
  /\ button \in ButtonValues
  /\ nextSample \in 0..SamplePeriod
  /\ sampleWithLed \in BOOLEAN /\ calibrationRequested \in BOOLEAN
  /\ rebootCountPersisted \in BOOLEAN /\ rebootCountDue \in 0..HealthyAfter
  /\ idleSince \in NotIdle..Settle
TaskTypes ==
  /\ pc \in PCs /\ phase \in {"wake", "operational"}
  /\ left \in Nat /\ outcome \in {"none", "Sleep", "FactoryReset"}
EdgeTypes == edges \in Seq(Edges) /\ icdChanged \in BOOLEAN
StackTypes ==
  /\ lit \in BOOLEAN /\ power \in {"Active", "Idle"}
  /\ holdLeft \in Nat /\ idleLeft \in Nat /\ dirtyLeft \in 0..PersistDebounce
  /\ messages \in Nat
PinTypes ==
  /\ pin \in {"up", "down"} /\ presses \in Nat /\ pressFor \in 0..Debounce
  /\ sent \in {"up", "down"} /\ latched \in BOOLEAN
PastTypes ==
  /\ wake \in WakeCauses /\ trueIdle \in 0..IdlePeriod /\ sinceFed \in Nat /\ overdue \in Nat
  /\ owed \in BOOLEAN /\ wakeReadings \in Nat /\ rebootWrites \in Nat

(* The parts are the whole.                                                   *)
LEMMA TypeParts ==
  TypeOK <=> /\ AppTypes /\ TaskTypes /\ EdgeTypes
             /\ StackTypes /\ PinTypes /\ PastTypes
BY Zenon DEF TypeOK, AppTypes, TaskTypes, EdgeTypes, StackTypes, PinTypes, PastTypes

(* The parts a step leaves alone keep their types.                            *)
LEMMA TypesKept ==
  /\ AppTypes /\ UNCHANGED app => AppTypes'
  /\ TaskTypes /\ UNCHANGED task => TaskTypes'
  /\ EdgeTypes /\ UNCHANGED <<edges, icdChanged>> => EdgeTypes'
  /\ StackTypes /\ UNCHANGED stack => StackTypes'
  /\ PinTypes /\ UNCHANGED atPin => PinTypes'
  /\ PastTypes /\ UNCHANGED past => PastTypes'
<1> USE DEF app, task, stack, atPin, past
<1>1. AppTypes /\ UNCHANGED app => AppTypes'
  BY DEF AppTypes
<1>2. TaskTypes /\ UNCHANGED task => TaskTypes'
  BY DEF TaskTypes
<1>3. EdgeTypes /\ UNCHANGED <<edges, icdChanged>> => EdgeTypes'
  BY DEF EdgeTypes
<1>4. StackTypes /\ UNCHANGED stack => StackTypes'
  BY DEF StackTypes
<1>5. PinTypes /\ UNCHANGED atPin => PinTypes'
  BY DEF PinTypes
<1>6. PastTypes /\ UNCHANGED past => PastTypes'
  BY DEF PastTypes
<1>7. QED
  BY <1>1, <1>2, <1>3, <1>4, <1>5, <1>6

(* The initial state is well typed.                                           *)
LEMMA InitTypes == Init => TypeInv
<1> SUFFICES ASSUME Init PROVE TypeInv
  OBVIOUS
<1>1. button \in Machines
  <2>1. button = NewButton(wake = "Button")
    BY DEF Init
  <2>2. (wake = "Button") \in BOOLEAN
    OBVIOUS
  <2>3. QED
    BY <2>1, <2>2, NewMachine
<1>2. wake \in WakeCauses
  BY BootTuning, Zenon DEF Init
<1>3. pin \in {"up", "down"}
  BY Zenon DEF Init
<1>4. edges \in Seq(Edges)
  <2>1. <<>> \in Seq(Edges) /\ <<"Rising">> \in Seq(Edges) /\ <<"Falling">> \in Seq(Edges)
    BY DEF Edges
  <2>2. edges \in {<<>>, <<"Rising">>, <<"Falling">>}
    BY Zenon DEF Init
  <2>3. QED
    BY <2>1, <2>2
<1>5. AppTypes
  <2>1. button \in ButtonValues
    BY <1>1 DEF Machines
  <2>2. sampleWithLed \in BOOLEAN /\ calibrationRequested \in BOOLEAN /\ rebootCountPersisted \in BOOLEAN
    BY Zenon DEF Init
  <2>3. nextSample = 0 /\ rebootCountDue = HealthyAfter /\ idleSince = -1
    BY Zenon DEF Init, NotIdle
  <2>4. QED
    BY <2>1, <2>2, <2>3, Durations DEF AppTypes, NotIdle
<1>6. TaskTypes
  BY DEF Init, TaskTypes, PCs
<1>7. EdgeTypes
  BY <1>4 DEF Init, EdgeTypes
<1>8. StackTypes
  BY Durations DEF Init, StackTypes
<1>9. PinTypes
  <2>1. sent = pin /\ latched = FALSE /\ presses = 0 /\ pressFor \in {0, Debounce}
    BY Zenon DEF Init
  <2>2. latched \in BOOLEAN
    BY <2>1, Zenon
  <2>3. QED
    BY <1>3, <2>1, <2>2, Durations DEF PinTypes
<1>10. PastTypes
  BY <1>2, Durations DEF Init, PastTypes
<1>11. QED
  BY <1>1, <1>5, <1>6, <1>7, <1>8, <1>9, <1>10, TypeParts, Zenon DEF TypeInv

(* The task's three larger steps, taken apart.                                *)
LEMMA DeadlineStep ==
  ASSUME DeadlineEvent
  PROVE  /\ pc = "waiting" /\ left = 0
         /\ button' = OnDeadline(button)
         /\ OnSampleNow \/ OnCalibrate \/ OnFactoryReset \/ OnNothing
         /\ owed' = IF button.state = "Window" /\ DeadlineDue(button) THEN FALSE ELSE owed
         /\ overdue' = IF DeadlineDue(button) THEN 0 ELSE overdue
         /\ UNCHANGED <<rebootCountPersisted, rebootCountDue, idleSince, phase, left, edges, atPin,
                        wake, trueIdle, sinceFed, wakeReadings, rebootWrites>>
BY Zenon DEF DeadlineEvent, HandleDeadline

(* Only a factory reset ends the boot here.                                   *)
LEMMA DeadlineOutcome ==
  ASSUME DeadlineEvent
  PROVE  outcome' = outcome \/ (outcome' = "FactoryReset" /\ pc' = "over")
<1>1. CASE OnSampleNow
  BY <1>1 DEF OnSampleNow
<1>2. CASE OnCalibrate
  BY <1>2 DEF OnCalibrate
<1>3. CASE OnFactoryReset
  BY <1>3 DEF OnFactoryReset
<1>4. CASE OnNothing
  BY <1>4 DEF OnNothing
<1>5. QED
  BY <1>1, <1>2, <1>3, <1>4, DeadlineStep

(* The button's event is the oldest edge, and asks for nothing.               *)
LEMMA ButtonStep ==
  ASSUME ButtonEvent
  PROVE  /\ pc = "waiting" /\ left > 0 /\ edges # <<>>
         /\ button' = OnEdge(button, Head(edges)) /\ edges' = Tail(edges)
         /\ OnNothing
         /\ overdue' = IF DeadlineDue(button) /\ DeadlineDue(button') THEN overdue ELSE 0
         /\ UNCHANGED <<rebootCountPersisted, rebootCountDue, idleSince, phase, left, atPin,
                        wake, trueIdle, sinceFed, owed, wakeReadings, rebootWrites>>
BY Zenon DEF ButtonEvent, HandleEdge

\* The three ways a decision ends.
StayUp == UNCHANGED <<button, edges>> /\ pc' = "arm"
DrainAndStayUp == button' = Drain /\ edges' = <<>> /\ pc' = "arm"
GoDown == /\ MaySleep(TrackIdle) /\ ~IsActive(Drain)
          /\ button' = Drain /\ edges' = <<>> /\ pc' = "tail"

(* A decision is one of the three.                                            *)
LEMMA DecideStep ==
  ASSUME Decide
  PROVE  /\ pc = "decide" /\ (rebootCountPersisted \/ rebootCountDue > 0)
         /\ idleSince' = TrackIdle
         /\ StayUp \/ DrainAndStayUp \/ GoDown
         /\ UNCHANGED <<rebootCountPersisted, rebootWrites, outcome>>
         /\ UNCHANGED <<nextSample, sampleWithLed, calibrationRequested, rebootCountDue, phase, left,
                        icdChanged, stack, atPin, wake, trueIdle, sinceFed, overdue, owed, wakeReadings>>
BY Zenon DEF Decide, StayUp, DrainAndStayUp, GoDown

(* A request keeps the stack well typed.                                      *)
LEMMA RequestTypes ==
  ASSUME StackTypes, NEW d \in Nat, RequestActive(d), icdChanged \in BOOLEAN
  PROVE  StackTypes' /\ icdChanged' \in BOOLEAN
<1>1. StackTypes'
  BY DEF RequestActive, StackTypes
<1>2. icdChanged' \in BOOLEAN
  BY Zenon DEF RequestActive
<1>3. QED
  BY <1>1, <1>2

(* So does every step the whole state.                                        *)
LEMMA StepTypes ==
  ASSUME TypeInv, [Next]_vars
  PROVE  TypeInv'
<1>0. /\ button \in Machines /\ AppTypes /\ TaskTypes /\ EdgeTypes
      /\ StackTypes /\ PinTypes /\ PastTypes
  BY TypeParts, Zenon DEF TypeInv
<1> DEFINE New == /\ button' \in Machines /\ AppTypes' /\ TaskTypes' /\ EdgeTypes'
                  /\ StackTypes' /\ PinTypes' /\ PastTypes'
<1> SUFFICES New
  BY Zenon DEF TypeInv, TypeOK, AppTypes, TaskTypes, EdgeTypes, StackTypes, PinTypes, PastTypes
<1> USE DEF app, task, stack, atPin, past
<1>1. CASE ArmWake
  <2>1. CASE WakingPressPending(button)
    <3>1. Wait(button.left)
      BY <1>1, <2>1 DEF ArmWake
    <3>2. button.left \in Nat
      BY <1>0 DEF Machines, ButtonValues
    <3>3. TaskTypes'
      BY <1>0, <3>1, <3>2 DEF Wait, TaskTypes, PCs, Awaits
    <3>4. PastTypes'
      BY <1>0, <3>1 DEF Wait, PastTypes
    <3>5. QED
      BY <1>0, <3>1, <3>3, <3>4, TypesKept DEF Wait
  <2>2. CASE ~WakingPressPending(button)
    <3>1. GoOn("step")
      BY <1>1, <2>2 DEF ArmWake
    <3>2. TaskTypes'
      BY <1>0, <3>1 DEF GoOn, TaskTypes, PCs
    <3>3. QED
      BY <1>0, <3>1, <3>2, TypesKept DEF GoOn
  <2>3. QED
    BY <2>1, <2>2
<1>2. CASE ArmBoot
  <2>1. Wait(NextDeadline)
    BY <1>2 DEF ArmBoot
  <2>2. NextDeadline \in Nat
    BY <1>0, NextDeadlineEarly, Durations DEF AppTypes, NotIdle
  <2>3. TaskTypes'
    BY <1>0, <2>1, <2>2 DEF Wait, TaskTypes, PCs, Awaits
  <2>4. PastTypes'
    BY <1>0, <2>1 DEF Wait, PastTypes
  <2>5. QED
    BY <1>0, <2>1, <2>3, <2>4, TypesKept DEF Wait
<1>3. CASE DeadlineEvent
  <2>2. /\ button' = OnDeadline(button)
        /\ OnSampleNow \/ OnCalibrate \/ OnFactoryReset \/ OnNothing
        /\ owed' = IF button.state = "Window" /\ DeadlineDue(button) THEN FALSE ELSE owed
        /\ overdue' = IF DeadlineDue(button) THEN 0 ELSE overdue
        /\ UNCHANGED <<rebootCountPersisted, rebootCountDue, idleSince, phase, left, edges, atPin,
                       wake, trueIdle, sinceFed, wakeReadings, rebootWrites>>
    BY <1>3, DeadlineStep
  <2>3. button' \in Machines /\ button' \in ButtonValues
    BY <1>0, <2>2, DeadlineMachine DEF Machines
  <2>4. PastTypes'
    <3>1. owed' \in BOOLEAN /\ wake' \in WakeCauses
      BY <1>0, <2>2, Zenon DEF PastTypes
    <3>2. overdue' \in Nat
      BY <1>0, <2>2 DEF PastTypes
    <3>3. QED
      BY <1>0, <2>2, <3>1, <3>2 DEF PastTypes
  <2>5. PinTypes'
    BY <1>0, <2>2, TypesKept
  <2>6. CASE OnSampleNow
    <3>1. StackTypes' /\ icdChanged' \in BOOLEAN
      BY <1>0, <2>6, RequestTypes, Durations DEF OnSampleNow, EdgeTypes
    <3>2. AppTypes'
      BY <1>0, <2>2, <2>3, <2>6, Durations DEF OnSampleNow, AppTypes
    <3>3. TaskTypes'
      BY <1>0, <2>2, <2>6 DEF OnSampleNow, Resume, TaskTypes, PCs
    <3>4. QED
      BY <1>0, <2>2, <2>3, <2>4, <2>5, <3>1, <3>2, <3>3 DEF EdgeTypes
  <2>7. CASE OnCalibrate
    <3>1. StackTypes' /\ icdChanged' \in BOOLEAN
      BY <1>0, <2>7, RequestTypes, Durations DEF OnCalibrate, EdgeTypes
    <3>2. AppTypes'
      BY <1>0, <2>2, <2>3, <2>7, Durations DEF OnCalibrate, AppTypes
    <3>3. TaskTypes'
      BY <1>0, <2>2, <2>7 DEF OnCalibrate, Resume, TaskTypes, PCs
    <3>4. QED
      BY <1>0, <2>2, <2>3, <2>4, <2>5, <3>1, <3>2, <3>3 DEF EdgeTypes
  <2>8. CASE OnFactoryReset
    <3>2. AppTypes'
      BY <1>0, <2>2, <2>3, <2>8, Durations DEF OnFactoryReset, AppTypes
    <3>3. TaskTypes'
      BY <1>0, <2>2, <2>8 DEF OnFactoryReset, TaskTypes, PCs
    <3>4. QED
      BY <1>0, <2>2, <2>3, <2>4, <2>5, <2>8, <3>2, <3>3, TypesKept DEF OnFactoryReset
  <2>9. CASE OnNothing
    <3>2. AppTypes'
      BY <1>0, <2>2, <2>3, <2>9, Durations DEF OnNothing, AppTypes
    <3>3. TaskTypes'
      BY <1>0, <2>2, <2>9 DEF OnNothing, Resume, TaskTypes, PCs
    <3>4. QED
      BY <1>0, <2>2, <2>3, <2>4, <2>5, <2>9, <3>2, <3>3, TypesKept DEF OnNothing
  <2>10. QED
    BY <2>2, <2>6, <2>7, <2>8, <2>9
<1>4. CASE ButtonEvent
  <2>1. /\ edges # <<>> /\ button' = OnEdge(button, Head(edges)) /\ edges' = Tail(edges)
        /\ OnNothing
        /\ overdue' = IF DeadlineDue(button) /\ DeadlineDue(button') THEN overdue ELSE 0
        /\ UNCHANGED <<rebootCountPersisted, rebootCountDue, idleSince, phase, left, atPin,
                       wake, trueIdle, sinceFed, owed, wakeReadings, rebootWrites>>
    BY <1>4, ButtonStep
  <2>2. Head(edges) \in Edges /\ Tail(edges) \in Seq(Edges)
    BY <1>0, <2>1, HeadTailProperties DEF EdgeTypes
  <2>3. button' \in Machines /\ button' \in ButtonValues
    BY <1>0, <2>1, <2>2, EdgeMachine DEF Machines
  <2>4. AppTypes'
    BY <1>0, <2>1, <2>3 DEF OnNothing, AppTypes
  <2>5. TaskTypes'
    BY <1>0, <2>1 DEF OnNothing, Resume, TaskTypes, PCs
  <2>6. EdgeTypes'
    BY <1>0, <2>1, <2>2 DEF OnNothing, EdgeTypes
  <2>7. PastTypes'
    <3>1. overdue' \in Nat
      BY <1>0, <2>1 DEF PastTypes
    <3>2. QED
      BY <1>0, <2>1, <3>1 DEF PastTypes
  <2>8. QED
    BY <1>0, <2>1, <2>3, <2>4, <2>5, <2>6, <2>7, TypesKept DEF OnNothing
<1>5. CASE IcdEvent
  <2>1. TaskTypes'
    BY <1>0, <1>5 DEF IcdEvent, HandleIcd, Resume, TaskTypes, PCs
  <2>2. QED
    BY <1>0, <1>5, <2>1, TypesKept DEF IcdEvent, HandleIcd, EdgeTypes
<1>6. CASE StartCalibration
  <2>1. AppTypes' /\ TaskTypes' /\ PastTypes'
    <3>1. AppTypes'
      BY <1>0, <1>6 DEF StartCalibration, AppTypes
    <3>2. TaskTypes'
      BY <1>0, <1>6, Durations DEF StartCalibration, Begin, TaskTypes, PCs, Awaits
    <3>3. PastTypes'
      BY <1>0, <1>6 DEF StartCalibration, PastTypes
    <3>4. QED
      BY <3>1, <3>2, <3>3
  <2>2. QED
    BY <1>0, <1>6, <2>1, TypesKept DEF StartCalibration
<1>7. CASE CaptureWet
  <2>1. TaskTypes'
    BY <1>0, <1>7, Durations DEF CaptureWet, Begin, TaskTypes, PCs, Awaits
  <2>2. PastTypes'
    BY <1>0, <1>7 DEF CaptureWet, PastTypes
  <2>3. QED
    BY <1>0, <1>7, <2>1, <2>2, TypesKept DEF CaptureWet
<1>8. CASE EndCalibration
  <2>1. TaskTypes'
    BY <1>0, <1>8 DEF EndCalibration, GoOn, TaskTypes, PCs
  <2>2. QED
    BY <1>0, <1>8, <2>1, TypesKept DEF EndCalibration, GoOn
<1>9. CASE StartReading
  <2>1. AppTypes'
    BY <1>0, <1>9 DEF StartReading, AppTypes
  <2>2. TaskTypes'
    BY <1>0, <1>9, Durations DEF StartReading, Begin, TaskTypes, PCs, Awaits
  <2>3. PastTypes'
    <3>1. wakeReadings' \in Nat
      BY <1>0, <1>9 DEF StartReading, PastTypes
    <3>2. QED
      BY <1>0, <1>9, <3>1 DEF StartReading, PastTypes
  <2>4. QED
    BY <1>0, <1>9, <2>1, <2>2, <2>3, TypesKept DEF StartReading
<1>10. CASE ReadBattery
  <2>1. TaskTypes'
    BY <1>0, <1>10, Durations DEF ReadBattery, Begin, TaskTypes, PCs, Awaits
  <2>2. QED
    BY <1>0, <1>10, <2>1, TypesKept DEF ReadBattery
<1>11. CASE EndReading
  <2>1. AppTypes'
    BY <1>0, <1>11, Durations DEF EndReading, AppTypes
  <2>2. TaskTypes'
    BY <1>0, <1>11 DEF EndReading, TaskTypes, PCs
  <2>3. QED
    BY <1>0, <1>11, <2>1, <2>2, TypesKept DEF EndReading
<1>12. CASE NothingDue
  <2>1. TaskTypes'
    BY <1>0, <1>12, Durations DEF NothingDue, Begin, TaskTypes, PCs, Awaits
  <2>2. QED
    BY <1>0, <1>12, <2>1, TypesKept DEF NothingDue
<1>13. CASE EndStartup
  <2>1. TaskTypes'
    BY <1>0, <1>13 DEF EndStartup, GoOn, TaskTypes, PCs
  <2>2. QED
    BY <1>0, <1>13, <2>1, TypesKept DEF EndStartup, GoOn
<1>14. CASE PersistRebootCount
  <2>1. AppTypes'
    BY <1>0, <1>14 DEF PersistRebootCount, AppTypes
  <2>2. TaskTypes'
    BY <1>0, <1>14 DEF PersistRebootCount, TaskTypes, PCs
  <2>3. PastTypes'
    BY <1>0, <1>14 DEF PersistRebootCount, PastTypes
  <2>4. QED
    BY <1>0, <1>14, <2>1, <2>2, <2>3, TypesKept DEF PersistRebootCount
<1>15. CASE Decide
  <2>1. /\ idleSince' = TrackIdle
        /\ StayUp \/ DrainAndStayUp \/ GoDown
        /\ UNCHANGED <<rebootCountPersisted, rebootWrites, outcome>>
        /\ UNCHANGED <<nextSample, sampleWithLed, calibrationRequested, rebootCountDue, phase, left, icdChanged,
                       stack, atPin, wake, trueIdle, sinceFed, overdue, owed, wakeReadings>>
    BY <1>15, DecideStep
  <2>2. button' \in Machines /\ button' \in ButtonValues /\ EdgeTypes'
    <3>1. Drain \in Machines
      BY <1>0, DrainMachine DEF EdgeTypes
    <3>2. <<>> \in Seq(Edges)
      BY EmptySeq
    <3>3. button' \in {button, Drain} /\ edges' \in {edges, <<>>} /\ icdChanged' = icdChanged
      BY <2>1, Zenon DEF StayUp, DrainAndStayUp, GoDown
    <3>4. QED
      BY <1>0, <3>1, <3>2, <3>3 DEF Machines, EdgeTypes
  <2>3. idleSince' \in NotIdle..Settle
    BY <1>0, <2>1, Durations DEF TrackIdle, NotIdle, AppTypes
  <2>4. AppTypes'
    BY <1>0, <2>1, <2>2, <2>3 DEF AppTypes
  <2>5. TaskTypes'
    BY <1>0, <2>1 DEF TaskTypes, PCs, StayUp, DrainAndStayUp, GoDown
  <2>6. PastTypes'
    BY <1>0, <2>1 DEF PastTypes
  <2>7. QED
    BY <1>0, <2>1, <2>2, <2>4, <2>5, <2>6, TypesKept
<1>16. CASE SendFalling
  <2>1. EdgeTypes'
    BY <1>0, <1>16, AppendProperties DEF SendFalling, EdgeTypes, Edges
  <2>2. PinTypes'
    BY <1>0, <1>16, Durations DEF SendFalling, PinTypes
  <2>3. QED
    BY <1>0, <1>16, <2>1, <2>2, TypesKept DEF SendFalling
<1>17. CASE SendRising
  <2>1. EdgeTypes'
    BY <1>0, <1>17, AppendProperties DEF SendRising, EdgeTypes, Edges
  <2>2. PinTypes'
    <3>1. latched' \in BOOLEAN
      BY <1>17, Zenon DEF SendRising
    <3> QED
      BY <1>0, <1>17, <3>1 DEF SendRising, PinTypes
  <2>3. QED
    BY <1>0, <1>17, <2>1, <2>2, TypesKept DEF SendRising
<1>18. CASE Message
  <2>2. StackTypes'
    BY <1>0, <1>18, Durations DEF Message, StackTypes
  <2>3. EdgeTypes'
    <3>1. icdChanged' \in BOOLEAN /\ UNCHANGED edges
      BY <1>0, <1>18, Zenon DEF Message, EdgeTypes
    <3>2. QED
      BY <1>0, <3>1 DEF EdgeTypes
  <2>4. PastTypes'
    BY <1>0, <1>18, Durations DEF Message, PastTypes
  <2>5. QED
    BY <1>0, <1>18, <2>2, <2>3, <2>4, TypesKept DEF Message
<1>19. CASE Register
  <2>2. messages' \in Nat
    BY <1>0, <1>19 DEF Register, StackTypes
  <2>3. lit' \in BOOLEAN
    BY <1>0, <1>19, Zenon DEF Register, StackTypes
  <2>4. StackTypes'
    BY <1>0, <1>19, <2>2, <2>3 DEF Register, StackTypes
  <2>5. QED
    BY <1>0, <1>19, <2>4, TypesKept DEF Register
<1>20. CASE GoIdle
  <2>1. StackTypes'
    BY <1>0, <1>20, Durations DEF GoIdle, StackTypes
  <2>2. PastTypes'
    BY <1>0, <1>20, Durations DEF GoIdle, PastTypes
  <2>3. QED
    BY <1>0, <1>20, <2>1, <2>2, TypesKept DEF GoIdle, EdgeTypes
<1>21. CASE Poll
  <2>1. StackTypes'
    BY <1>0, <1>21, Durations DEF Poll, StackTypes
  <2>2. PastTypes'
    BY <1>0, <1>21, Durations DEF Poll, PastTypes
  <2>3. QED
    BY <1>0, <1>21, <2>1, <2>2, TypesKept DEF Poll, EdgeTypes
<1>22. CASE Tick
  <2>1. button' \in Machines /\ button' \in ButtonValues
    BY <1>0, <1>22, ElapseMachine DEF Tick, Machines
  <2>2. AppTypes'
    BY <1>0, <1>22, <2>1, Durations DEF Tick, AppTypes, Less, NotIdle
  <2>3. TaskTypes'
    BY <1>0, <1>22 DEF Tick, Quiet, TaskTypes
  <2>4. StackTypes'
    BY <1>0, <1>22, Durations DEF Tick, StackTypes, Less
  <2>5. PinTypes'
    BY <1>0, <1>22, Durations DEF Tick, PinTypes
  <2>6. PastTypes'
    <3>1. trueIdle' \in 0..IdlePeriod
      BY <1>0, <1>22, Durations DEF Tick, PastTypes
    <3>2. overdue' \in Nat
      BY <1>0, <1>22 DEF Tick, PastTypes
    <3>3. QED
      BY <1>0, <1>22, <3>1, <3>2 DEF Tick, PastTypes
  <2>7. QED
    BY <1>0, <1>22, <2>1, <2>2, <2>3, <2>4, <2>5, <2>6 DEF Tick, EdgeTypes
<1>23. CASE UNCHANGED vars
  BY <1>0, <1>23, TypesKept DEF vars
<1>24. CASE Person
  <2>1. latched' \in BOOLEAN /\ owed' \in BOOLEAN
    <3>1. latched \in BOOLEAN /\ owed \in BOOLEAN /\ (sent = "up") \in BOOLEAN /\ (sent = "down") \in BOOLEAN
      BY <1>0 DEF PinTypes, PastTypes
    <3>2. latched' \in {latched \/ sent = "up", latched \/ sent = "down"} /\ owed' \in {owed, TRUE}
      BY <1>24, PersonStep, Zenon
    <3>3. QED
      BY <3>1, <3>2, Zenon
  <2>2. pin' \in {"up", "down"} /\ presses' \in Nat
    <3>1. pin' \in {"up", "down"} /\ presses' \in {presses, presses + 1}
      BY <1>24, PersonStep, Zenon
    <3>2. QED
      BY <1>0, <3>1 DEF PinTypes
  <2>3. /\ pressFor' = 0
        /\ UNCHANGED <<app, task, edges, icdChanged, stack, sent, wake, trueIdle, sinceFed, overdue,
                       wakeReadings, rebootWrites>>
    BY <1>24, PersonStep, Zenon
  <2>4. PinTypes' /\ PastTypes'
    BY <1>0, <2>1, <2>2, <2>3, Durations DEF PinTypes, PastTypes
  <2> QED
    BY <1>0, <2>3, <2>4, TypesKept
<1>25. CASE PowerDown
  <2>1. AppTypes'
    BY <1>0, <1>25, PowerDownStep DEF AppTypes
  <2>2. TaskTypes'
    BY <1>0, <1>25, PowerDownStep DEF TaskTypes, PCs
  <2>3. PastTypes'
    BY <1>0, <1>25, PowerDownStep DEF PastTypes
  <2> QED
    BY <1>0, <1>25, <2>1, <2>2, <2>3, PowerDownStep, TypesKept
<1>26. QED
  BY <1>1, <1>2, <1>3, <1>4, <1>5, <1>6, <1>7, <1>8, <1>9, <1>10, <1>11, <1>12, <1>13, <1>14, <1>15,
     <1>16, <1>17, <1>18, <1>19, <1>20, <1>21, <1>22, <1>23, <1>24, <1>25, Steps, Zenon

(* The types hold, and the button's wait is never longer than its hold.      *)
LEMMA BootTypeInv == Spec => []TypeInv
<1>1. TypeInv /\ [Next]_vars => TypeInv'
  BY StepTypes
<1>2. QED
  BY InitTypes, <1>1, PTL DEF Spec

(* The state is what the code's types allow (BootLoop.TypeOK).                *)
THEOREM BootTypes == Spec => []TypeOK
<1>1. Spec => []TypeInv
  BY BootTypeInv
<1>2. TypeInv => TypeOK
  BY DEF TypeInv
<1>3. QED
  BY <1>1, <1>2, PTL

-----------------------------------------------------------------------------
(* The reboot count. *)

\* The count is written in the step that sets the flag, and by then it may be.
CountInv ==
  /\ rebootWrites = IF rebootCountPersisted /\ wake = "Cold" THEN 1 ELSE 0
  /\ wake # "Cold" => rebootCountPersisted
  /\ rebootWrites > 0 => rebootCountDue = 0 \/ outcome = "Sleep"
  /\ outcome = "Sleep" => rebootCountPersisted
  /\ outcome # "none" => pc = "over"

(* A step keeps the count right.                                              *)
LEMMA StepCount ==
  ASSUME TypeInv, CountInv, [Next]_vars
  PROVE  CountInv'
<1> USE DEF TypeInv, TypeOK, app, task, stack, atPin, past
<1> DEFINE counts == <<rebootWrites, rebootCountPersisted, rebootCountDue, outcome, wake>>
<1>1. ASSUME UNCHANGED counts, pc # "over" PROVE CountInv'
  BY <1>1 DEF CountInv
<1> HIDE DEF CountInv, TypeInv
<1>2. CASE DeadlineEvent
  <2>1. pc = "waiting" /\ UNCHANGED <<rebootWrites, rebootCountPersisted, rebootCountDue, wake>>
    BY <1>2, DeadlineStep
  <2>2. outcome' = outcome \/ (outcome' = "FactoryReset" /\ pc' = "over")
    BY <1>2, DeadlineOutcome
  <2>3. CASE outcome' = outcome
    BY <1>1, <2>1, <2>3
  <2>4. CASE outcome' = "FactoryReset" /\ pc' = "over"
    <3>1. outcome = "none"
      BY <2>1 DEF CountInv
    <3>2. QED
      BY <2>1, <2>4, <3>1 DEF CountInv
  <2>5. QED
    BY <2>2, <2>3, <2>4
<1>3. CASE PersistRebootCount
  BY <1>3, Durations DEF PersistRebootCount, CountInv, TypeInv
<1>4. CASE Decide
  BY <1>1, <1>4, DecideStep
<1>5. CASE Tick
  BY <1>5, Durations DEF Tick, Awaiting, Awaits, Less, CountInv, TypeInv
<1>6. CASE ArmWake \/ ArmBoot
  BY <1>1, <1>6 DEF ArmWake, ArmBoot, Wait, GoOn
<1>7. CASE ButtonEvent \/ IcdEvent
  BY <1>1, <1>7 DEF ButtonEvent, HandleEdge, OnNothing, IcdEvent, HandleIcd
<1>8. CASE StartCalibration \/ CaptureWet \/ EndCalibration
  BY <1>1, <1>8 DEF StartCalibration, CaptureWet, EndCalibration, GoOn
<1>9. CASE StartReading \/ ReadBattery \/ EndReading
  BY <1>1, <1>9 DEF StartReading, SampleDue, ReadBattery, EndReading
<1>10. CASE NothingDue \/ EndStartup
  BY <1>1, <1>10 DEF NothingDue, EndStartup, GoOn
<1>11. CASE SendFalling \/ SendRising
  BY <1>1, <1>11 DEF SendFalling, SendRising, Awaiting, Awaits
<1>12. CASE Message \/ Register \/ GoIdle \/ Poll
  BY <1>1, <1>12 DEF Message, Register, GoIdle, Poll, StackRuns, Awaiting, Awaits
<1>13. CASE UNCHANGED vars
  BY <1>13 DEF vars, CountInv
<1>14. CASE Person
  BY <1>1, <1>14, PersonStep
<1>15. CASE PowerDown
  BY <1>15, PowerDownStep DEF CountInv, TypeInv
<1>16. QED
  BY <1>2, <1>3, <1>4, <1>5, <1>6, <1>7, <1>8, <1>9, <1>10, <1>11, <1>12, <1>13, <1>14, <1>15, Steps, Zenon

(* A boot begins with the count right.                                        *)
LEMMA InitCount == Init => CountInv
<1>1. ASSUME Init
      PROVE  /\ wake = "Cold" <=> ~rebootCountPersisted
             /\ rebootWrites = 0 /\ outcome = "none"
  BY <1>1, Zenon DEF Init
<1>2. QED
  BY <1>1 DEF CountInv

(* The count is right in every state.                                         *)
LEMMA BootCount == Spec => []CountInv
<1>1. TypeInv /\ CountInv /\ [Next]_vars => CountInv'
  BY StepCount
<1>2. QED
  BY <1>1, InitCount, BootTypeInv, PTL DEF Spec

(* A reboot is counted once, never on a wake from sleep, and by the planned   *)
(* sleep at the latest (App::step; BootLoop.RebootCountedOnce).               *)
THEOREM BootCountsOnce == Spec => []RebootCountedOnce
<1>1. CountInv => RebootCountedOnce
  BY DEF CountInv, RebootCountedOnce
<1>2. QED
  BY <1>1, BootCount, PTL

-----------------------------------------------------------------------------
(* The wake phase, and what is due where. *)

\* Where the wake phase is, and what it has read by then.
WakePCs == {"arm", "waiting", "step", "calDry", "calWet", "soil", "battery", "over"}
WakePhase ==
  /\ pc \in WakePCs
  /\ pc \in {"arm", "waiting", "calDry", "calWet"} => wakeReadings = 0 /\ nextSample = 0
  /\ pc = "step" => \/ wakeReadings = 0 /\ nextSample = 0
                    \/ wakeReadings = 1 /\ nextSample = SamplePeriod
  /\ pc \in {"soil", "battery"} => wakeReadings = 1
  /\ pc \in {"step", "soil", "battery", "calDry", "calWet"} => ~WakingPressPending(button)
  /\ calibrationRequested => wakeReadings = 0
WakeInv ==
  /\ phase = "wake" => WakePhase
  /\ phase = "operational" => wakeReadings = 1

(* A step keeps the wake phase in order.                                      *)
LEMMA StepWake ==
  ASSUME TypeInv, WakeInv, [Next]_vars
  PROVE  WakeInv'
<1> USE Durations DEF app, task, stack, atPin, past, WakePCs, Awaits
<1>0. /\ button \in Machines /\ phase \in {"wake", "operational"} /\ nextSample \in Nat
      /\ wakeReadings \in Nat
  BY DEF TypeInv, TypeOK
<1>1. ASSUME UNCHANGED <<pc, phase, wakeReadings, nextSample, button, calibrationRequested>> PROVE WakeInv'
  BY <1>1 DEF WakeInv, WakePhase, WakingPressPending, HasDeadline
<1>2. ASSUME phase = "operational", UNCHANGED <<phase, wakeReadings>> PROVE WakeInv'
  BY <1>2 DEF WakeInv
<1>3. ASSUME UNCHANGED <<phase, wakeReadings>>, phase = "wake" => WakePhase' PROVE WakeInv'
  BY <1>2, <1>3, <1>0 DEF WakeInv
<1>4. phase = "wake" => WakePhase
  BY DEF WakeInv
<1>5. CASE ArmWake
  BY <1>3, <1>4, <1>5 DEF ArmWake, Wait, GoOn, WakePhase, WakingPressPending, HasDeadline
<1>6. CASE ArmBoot
  BY <1>2, <1>6 DEF ArmBoot, Wait
<1>7. CASE DeadlineEvent
  <2>1. pc = "waiting" /\ UNCHANGED <<phase, wakeReadings>>
    BY <1>7, DeadlineStep
  <2>2. phase = "wake" => pc' \in {"arm", "over"} /\ nextSample' \in {nextSample, 0}
    <3>1. CASE OnSampleNow
      BY <3>1 DEF OnSampleNow, Resume
    <3>2. CASE OnCalibrate
      BY <3>2 DEF OnCalibrate, Resume
    <3>3. CASE OnFactoryReset
      BY <3>3 DEF OnFactoryReset
    <3>4. CASE OnNothing
      BY <3>4 DEF OnNothing, Resume
    <3>5. QED
      BY <1>7, <3>1, <3>2, <3>3, <3>4, DeadlineStep
  <2>3. QED
    BY <1>3, <1>4, <2>1, <2>2 DEF WakePhase
<1>8. CASE ButtonEvent
  <2>1. pc = "waiting" /\ UNCHANGED <<phase, wakeReadings>> /\ OnNothing
    BY <1>8, ButtonStep
  <2>2. QED
    BY <1>3, <1>4, <2>1 DEF WakePhase, OnNothing, Resume
<1>9. CASE IcdEvent
  BY <1>3, <1>4, <1>9 DEF IcdEvent, HandleIcd, Resume, WakePhase
<1>10. CASE StartCalibration
  BY <1>3, <1>4, <1>10 DEF StartCalibration, Begin, WakePhase, WakingPressPending, HasDeadline
<1>11. CASE CaptureWet
  BY <1>3, <1>4, <1>11 DEF CaptureWet, Begin, WakePhase, WakingPressPending, HasDeadline
<1>12. CASE EndCalibration
  BY <1>3, <1>4, <1>12 DEF EndCalibration, GoOn, WakePhase, WakingPressPending, HasDeadline
<1>13. CASE StartReading
  <2>1. CASE phase = "operational"
    BY <1>2, <1>13, <2>1 DEF StartReading
  <2>2. CASE phase = "wake"
    BY <1>4, <1>13, <2>2 DEF StartReading, SampleDue, Begin, WakeInv, WakePhase, WakingPressPending,
      HasDeadline
  <2>3. QED
    BY <1>0, <2>1, <2>2
<1>14. CASE ReadBattery
  BY <1>3, <1>4, <1>14 DEF ReadBattery, Begin, WakePhase, WakingPressPending, HasDeadline
<1>15. CASE EndReading
  BY <1>3, <1>4, <1>15 DEF EndReading, WakePhase, WakingPressPending, HasDeadline
<1>16. CASE NothingDue
  <2>1. CASE phase = "operational"
    BY <1>2, <1>16, <2>1 DEF NothingDue
  <2>2. CASE phase = "wake"
    BY <1>4, <1>16, <2>2 DEF NothingDue, Begin, WakeInv, WakePhase
  <2>3. QED
    BY <1>0, <2>1, <2>2
<1>17. CASE EndStartup
  BY <1>3, <1>4, <1>17 DEF EndStartup, GoOn, WakePhase
<1>18. CASE PersistRebootCount
  BY <1>3, <1>4, <1>18 DEF PersistRebootCount, WakePhase
<1>19. CASE Decide
  <2>1. pc = "decide" /\ UNCHANGED <<phase, wakeReadings>>
    BY <1>19, DecideStep
  <2>2. QED
    BY <1>3, <1>4, <2>1 DEF WakePhase
<1>20. CASE SendFalling \/ SendRising
  BY <1>1, <1>20 DEF SendFalling, SendRising
<1>21. CASE Message \/ Register \/ GoIdle \/ Poll
  BY <1>1, <1>21 DEF Message, Register, GoIdle, Poll
<1>22. CASE Tick
  <2>1. UNCHANGED <<pc, phase, wakeReadings, calibrationRequested>> /\ nextSample' = Less(nextSample, 1)
        /\ Awaiting /\ button' = Elapse(button, 1)
    BY <1>22 DEF Tick
  <2>2. WakingPressPending(button') = WakingPressPending(button)
    BY <1>0, <2>1, ElapseMachine DEF WakingPressPending, HasDeadline
  <2>3. QED
    BY <1>0, <1>3, <1>4, <2>1, <2>2 DEF WakePhase, Less, Awaiting
<1>23. CASE UNCHANGED vars
  BY <1>1, <1>23 DEF vars
<1>24. CASE Person
  BY <1>1, <1>24, PersonStep
<1>25. CASE PowerDown
  BY <1>3, <1>4, <1>25, PowerDownStep DEF WakePhase
<1>26. QED
  BY <1>5, <1>6, <1>7, <1>8, <1>9, <1>10, <1>11, <1>12, <1>13, <1>14, <1>15, <1>16, <1>17, <1>18, <1>19,
     <1>20, <1>21, <1>22, <1>23, <1>24, <1>25, Steps, Zenon

(* The wake phase waits for its press and measures once (run_wake;            *)
(* BootLoop.OneReadingPerWake).                                               *)
THEOREM BootReadsOncePerWake == Spec => []OneReadingPerWake
<1>1. Init => WakeInv
  BY DEF Init, WakeInv, WakePhase, WakePCs
<1>2. TypeInv /\ WakeInv /\ [Next]_vars => WakeInv'
  BY StepWake
<1>3. WakeInv => OneReadingPerWake
  BY DEF WakeInv, WakePhase, OneReadingPerWake
<1>4. QED
  BY <1>1, <1>2, <1>3, BootTypeInv, PTL DEF Spec

-----------------------------------------------------------------------------
(* What is due where, and the watchdog. *)

\* Where a calibration may be asked for, and how far the next wait reaches.
DueInv ==
  /\ calibrationRequested => pc \in {"step", "over"} \/ (phase = "wake" /\ pc \in {"arm", "waiting"})
  /\ pc \in {"decide", "tail"} => nextSample > 0
  /\ pc = "startup" => nextSample > left
  /\ pc = "arm" /\ phase = "operational" => nextSample > 0 /\ (rebootCountPersisted \/ rebootCountDue > 0)
  /\ pc = "waiting" /\ phase = "operational" =>
       left <= nextSample /\ (rebootCountPersisted \/ left <= rebootCountDue)
  /\ pc \in {"startup", "decide", "tail"} => phase = "operational"
  /\ pc = "soil" => left <= SoilTime
  /\ pc = "battery" => left <= BatteryTime

(* A step keeps it so.                                                        *)
LEMMA StepDue ==
  ASSUME TypeInv, WakeInv, DueInv, [Next]_vars
  PROVE  DueInv'
<1> USE Durations DEF app, task, stack, atPin, past, Awaits
<1>0. /\ button \in Machines /\ phase \in {"wake", "operational"} /\ nextSample \in 0..SamplePeriod
      /\ rebootCountDue \in Nat /\ left \in Nat /\ idleSince \in Int
  BY DEF TypeInv, TypeOK, NotIdle
<1>1. ASSUME UNCHANGED <<pc, phase, left, nextSample, calibrationRequested, rebootCountPersisted, rebootCountDue>>
      PROVE  DueInv'
  BY <1>1 DEF DueInv
<1>2. CASE ArmWake
  <2>1. phase' = phase /\ calibrationRequested' = calibrationRequested /\ pc' \in {"waiting", "step"}
        /\ phase = "wake"
    BY <1>2 DEF ArmWake, Wait, GoOn
  <2>2. QED
    BY <2>1 DEF DueInv
<1>3. CASE ArmBoot
  <2>1. /\ pc = "arm" /\ phase = "operational" /\ pc' = "waiting" /\ left' = NextDeadline
        /\ UNCHANGED <<phase, nextSample, calibrationRequested, rebootCountPersisted, rebootCountDue>>
    BY <1>3 DEF ArmBoot, Wait
  <2>2. left' <= nextSample /\ (~rebootCountPersisted /\ rebootCountDue > 0 => left' <= rebootCountDue)
    BY <1>0, <2>1, NextDeadlineEarly
  <2>3. QED
    BY <2>1, <2>2 DEF DueInv
<1>4. CASE DeadlineEvent
  <2>1. pc = "waiting" /\ UNCHANGED phase
    BY <1>4, DeadlineStep
  <2>2. \/ pc' = "over"
        \/ pc' = "arm" /\ phase = "wake"
        \/ pc' = "step"
    <3>1. CASE OnSampleNow
      BY <1>0, <3>1 DEF OnSampleNow, Resume
    <3>2. CASE OnCalibrate
      BY <1>0, <3>2 DEF OnCalibrate, Resume
    <3>3. CASE OnFactoryReset
      BY <3>3 DEF OnFactoryReset
    <3>4. CASE OnNothing
      BY <1>0, <3>4 DEF OnNothing, Resume
    <3>5. QED
      BY <1>4, <3>1, <3>2, <3>3, <3>4, DeadlineStep
  <2>3. QED
    BY <2>1, <2>2 DEF DueInv
<1>5. CASE ButtonEvent
  <2>1. /\ pc = "waiting" /\ UNCHANGED <<phase, calibrationRequested>>
        /\ (pc' = "arm" /\ phase = "wake") \/ pc' = "step"
    BY <1>0, <1>5, ButtonStep DEF OnNothing, Resume
  <2>2. QED
    BY <2>1 DEF DueInv
<1>6. CASE IcdEvent
  <2>1. /\ pc = "waiting" /\ UNCHANGED <<phase, calibrationRequested>>
        /\ (pc' = "arm" /\ phase = "wake") \/ pc' = "step"
    BY <1>0, <1>6 DEF IcdEvent, HandleIcd, Resume
  <2>2. QED
    BY <2>1 DEF DueInv
<1>7. CASE StartCalibration
  BY <1>7 DEF StartCalibration, Begin, DueInv
<1>8. CASE CaptureWet
  BY <1>8 DEF CaptureWet, Begin, DueInv
<1>9. CASE EndCalibration
  BY <1>9 DEF EndCalibration, GoOn, DueInv
<1>10. CASE StartReading
  BY <1>10 DEF StartReading, SampleDue, Begin, DueInv
<1>11. CASE ReadBattery
  BY <1>11 DEF ReadBattery, Begin, DueInv
<1>12. CASE EndReading
  BY <1>12 DEF EndReading, DueInv
<1>13. CASE NothingDue
  <2>1. CASE phase = "wake"
    <3>1. nextSample = SamplePeriod
      BY <1>13, <2>1 DEF NothingDue, WakeInv, WakePhase
    <3>2. StartupTime < SamplePeriod
      OBVIOUS
    <3>3. QED
      BY <1>13, <2>1, <3>1, <3>2 DEF NothingDue, Begin, DueInv
  <2>2. CASE phase = "operational"
    BY <1>13, <2>2 DEF NothingDue, DueInv
  <2>3. QED
    BY <1>0, <2>1, <2>2
<1>14. CASE EndStartup
  BY <1>14 DEF EndStartup, GoOn, DueInv
<1>15. CASE PersistRebootCount
  BY <1>15 DEF PersistRebootCount, DueInv
<1>16. CASE Decide
  <2>1. /\ pc = "decide" /\ (rebootCountPersisted \/ rebootCountDue > 0)
        /\ UNCHANGED <<nextSample, calibrationRequested, rebootCountDue, phase>>
        /\ pc' \in {"arm", "tail"} /\ rebootCountPersisted' = rebootCountPersisted
    BY <1>16, DecideStep DEF StayUp, DrainAndStayUp, GoDown
  <2>2. QED
    BY <2>1 DEF DueInv
<1>17. CASE SendFalling \/ SendRising
  BY <1>1, <1>17 DEF SendFalling, SendRising
<1>18. CASE Message \/ Register \/ GoIdle \/ Poll
  BY <1>1, <1>18 DEF Message, Register, GoIdle, Poll
<1>19. CASE Tick
  <2>1. /\ Awaiting /\ left > 0 /\ left' = left - 1 /\ nextSample' = Less(nextSample, 1)
        /\ rebootCountDue' = Less(rebootCountDue, 1)
        /\ UNCHANGED <<pc, phase, calibrationRequested, rebootCountPersisted>>
    BY <1>19 DEF Tick, Quiet
  <2>2. QED
    BY <1>0, <2>1 DEF DueInv, Less, Awaiting
<1>20. CASE UNCHANGED vars
  BY <1>1, <1>20 DEF vars
<1>21. CASE Person
  BY <1>1, <1>21, PersonStep
<1>22. CASE PowerDown
  BY <1>22, PowerDownStep DEF DueInv
<1>23. QED
  BY <1>2, <1>3, <1>4, <1>5, <1>6, <1>7, <1>8, <1>9, <1>10, <1>11, <1>12, <1>13, <1>14, <1>15, <1>16,
     <1>17, <1>18, <1>19, <1>20, <1>21, <1>22, Steps, Zenon

(* The wake phase and the waits are as they should be in every state.         *)
LEMMA BootDue == Spec => [](TypeInv /\ WakeInv /\ DueInv)
<1>1. Init => WakeInv /\ DueInv
  BY DEF Init, WakeInv, WakePhase, WakePCs, DueInv
<1>2. TypeInv /\ WakeInv /\ [Next]_vars => WakeInv'
  BY StepWake
<1>3. TypeInv /\ WakeInv /\ DueInv /\ [Next]_vars => DueInv'
  BY StepDue
<1>4. QED
  BY <1>1, <1>2, <1>3, BootTypeInv, PTL DEF Spec

\* The longest the loop goes without feeding the watchdog, by where it is.
FedInv ==
  /\ pc = "waiting" => sinceFed + left <= SamplePeriod
  /\ pc = "arm" /\ phase = "wake" => sinceFed <= SamplePeriod
  /\ pc \in {"calDry", "calWet"} => sinceFed + left <= SamplePeriod
  /\ pc = "step" /\ (calibrationRequested \/ nextSample = 0) => sinceFed <= SamplePeriod
  /\ pc = "step" /\ phase = "wake" => sinceFed <= SamplePeriod + SoilTime + BatteryTime
  /\ pc = "soil" => sinceFed + left <= SamplePeriod + SoilTime
  /\ pc = "battery" => sinceFed + left <= SamplePeriod + SoilTime + BatteryTime
  /\ pc = "startup" => sinceFed + left <= SamplePeriod + SoilTime + BatteryTime + StartupTime
  /\ sinceFed <= SamplePeriod + SoilTime + BatteryTime + StartupTime

(* A step keeps it below that.                                                *)
LEMMA StepFed ==
  ASSUME TypeInv, WakeInv, DueInv, FedInv, [Next]_vars
  PROVE  FedInv'
<1> USE Durations DEF app, task, stack, atPin, past, Awaits
<1>0. /\ button \in Machines /\ phase \in {"wake", "operational"} /\ nextSample \in 0..SamplePeriod
      /\ rebootCountDue \in Nat /\ left \in Nat /\ idleSince \in Int /\ sinceFed \in Nat
  BY DEF TypeInv, TypeOK, NotIdle
<1>1. ASSUME UNCHANGED <<pc, phase, left, nextSample, calibrationRequested, sinceFed>>
      PROVE  FedInv'
  BY <1>1 DEF FedInv
<1>2. CASE ArmWake
  <2>1. CASE WakingPressPending(button)
    <3>1. button.left \in Nat /\ button.left <= SamplePeriod
      BY <1>0 DEF Machines, ButtonValues
    <3>2. pc' = "waiting" /\ left' = button.left /\ sinceFed' = 0
      BY <1>2, <2>1 DEF ArmWake, Wait
    <3>3. QED
      BY <3>1, <3>2 DEF FedInv
  <2>2. CASE ~WakingPressPending(button)
    BY <1>0, <1>2, <2>2 DEF ArmWake, GoOn, FedInv
  <2>3. QED
    BY <2>1, <2>2
<1>3. CASE ArmBoot
  <2>1. pc' = "waiting" /\ left' = NextDeadline /\ sinceFed' = 0
    BY <1>3 DEF ArmBoot, Wait
  <2>2. left' \in Nat /\ left' <= SamplePeriod
    BY <1>0, <2>1, NextDeadlineEarly
  <2>3. QED
    BY <2>1, <2>2 DEF FedInv
<1>4. CASE DeadlineEvent
  <2>1. pc = "waiting" /\ UNCHANGED <<phase, sinceFed, left>>
    BY <1>4, DeadlineStep
  <2>2. pc' \in {"over", "arm", "step"}
    BY <1>4, DeadlineStep DEF OnSampleNow, OnCalibrate, OnFactoryReset, OnNothing, Resume
  <2>3. QED
    BY <1>0, <2>1, <2>2 DEF FedInv
<1>5. CASE ButtonEvent
  <2>1. /\ pc = "waiting" /\ UNCHANGED <<phase, sinceFed, left>> /\ pc' \in {"arm", "step"}
    BY <1>5, ButtonStep DEF OnNothing, Resume
  <2>2. QED
    BY <1>0, <2>1 DEF FedInv
<1>6. CASE IcdEvent
  <2>1. /\ pc = "waiting" /\ UNCHANGED <<phase, sinceFed, left>> /\ pc' \in {"arm", "step"}
    BY <1>6 DEF IcdEvent, HandleIcd, Resume
  <2>2. QED
    BY <1>0, <2>1 DEF FedInv
<1>7. CASE StartCalibration
  BY <1>7 DEF StartCalibration, Begin, FedInv
<1>8. CASE CaptureWet
  BY <1>8 DEF CaptureWet, Begin, FedInv
<1>9. CASE EndCalibration
  BY <1>0, <1>9 DEF EndCalibration, GoOn, FedInv
<1>10. CASE StartReading
  BY <1>0, <1>10 DEF StartReading, SampleDue, Begin, FedInv
<1>11. CASE ReadBattery
  BY <1>0, <1>11 DEF ReadBattery, Begin, FedInv
<1>12. CASE EndReading
  <2>1. /\ pc = "battery" /\ left = 0 /\ pc' = "step" /\ nextSample' = SamplePeriod
        /\ UNCHANGED <<phase, sinceFed, calibrationRequested>>
    BY <1>12 DEF EndReading
  <2>2. ~calibrationRequested
    BY <2>1 DEF DueInv
  <2>3. QED
    BY <1>0, <2>1, <2>2 DEF FedInv
<1>13. CASE NothingDue
  <2>1. pc = "step" /\ UNCHANGED sinceFed
    BY <1>13 DEF NothingDue
  <2>2. CASE phase = "wake"
    BY <1>0, <1>13, <2>1, <2>2 DEF NothingDue, Begin, FedInv
  <2>3. CASE phase = "operational"
    BY <1>0, <1>13, <2>1, <2>3 DEF NothingDue, FedInv
  <2>4. QED
    BY <1>0, <2>2, <2>3
<1>14. CASE EndStartup
  <2>1. /\ pc = "startup" /\ left = 0 /\ pc' = "step"
        /\ UNCHANGED <<phase, sinceFed, calibrationRequested, nextSample>>
    BY <1>14 DEF EndStartup, GoOn
  <2>2. ~calibrationRequested /\ nextSample > 0 /\ phase = "operational"
    BY <2>1 DEF DueInv
  <2>3. QED
    BY <1>0, <2>1, <2>2 DEF FedInv
<1>15. CASE PersistRebootCount
  <2>1. pc = "decide" /\ pc' = "arm" /\ UNCHANGED <<phase, sinceFed>>
    BY <1>15 DEF PersistRebootCount
  <2>2. QED
    BY <1>0, <2>1 DEF FedInv, DueInv
<1>16. CASE Decide
  <2>1. pc = "decide" /\ pc' \in {"arm", "tail"} /\ UNCHANGED <<phase, sinceFed>>
    BY <1>16, DecideStep DEF StayUp, DrainAndStayUp, GoDown
  <2>2. QED
    BY <1>0, <2>1 DEF FedInv, DueInv
<1>17. CASE SendFalling \/ SendRising
  BY <1>1, <1>17 DEF SendFalling, SendRising
<1>18. CASE Message \/ Register \/ GoIdle \/ Poll
  BY <1>1, <1>18 DEF Message, Register, GoIdle, Poll
<1>19. CASE Tick
  <2>1. Awaiting /\ left > 0 /\ left' = left - 1 /\ sinceFed' = sinceFed + 1 /\ UNCHANGED <<pc, phase>>
    BY <1>19 DEF Tick, Quiet
  <2>2. QED
    BY <1>0, <2>1 DEF FedInv, Awaiting
<1>20. CASE UNCHANGED vars
  BY <1>1, <1>20 DEF vars
<1>21. CASE Person
  BY <1>1, <1>21, PersonStep
<1>22. CASE PowerDown
  BY <1>0, <1>22, PowerDownStep DEF FedInv
<1>23. QED
  BY <1>2, <1>3, <1>4, <1>5, <1>6, <1>7, <1>8, <1>9, <1>10, <1>11, <1>12, <1>13, <1>14, <1>15, <1>16,
     <1>17, <1>18, <1>19, <1>20, <1>21, <1>22, Steps, Zenon

(* Nothing the boot does in good order trips the watchdog: between two feeds  *)
(* there is at most one wait, one reading and the stack's startup, and the    *)
(* watchdog's timeout is two sample periods (BootLoop.WatchdogFed).           *)
THEOREM BootFeedsWatchdog == Spec => []WatchdogFed
<1>1. Init => FedInv
  BY Durations DEF Init, FedInv
<1>2. TypeInv /\ WakeInv /\ DueInv /\ FedInv /\ [Next]_vars => FedInv'
  BY StepFed
<1>3. TypeInv /\ FedInv => WatchdogFed
  BY Durations DEF TypeInv, TypeOK, FedInv, WatchdogFed
<1>4. QED
  BY <1>1, <1>2, <1>3, BootDue, PTL DEF Spec

-----------------------------------------------------------------------------
(* Sleep only at rest: the task, the channel and the machine agree. *)

\* Nothing that has reached the boot waits for it.
AtRest == edges = <<>> /\ ~IsActive(button) /\ ~calibrationRequested /\ nextSample > 0

\* What the machine has seen of the pin, and what waits in the channel, end where the task
\* has sent it; a press it has not sent is one it has still to send. From the decision
\* on, the boot is at rest, whatever happens at the pin.
PinInv ==
  /\ sent = "down" <=> LastDown
  /\ sent = "up" /\ pin = "down" => latched
  /\ outcome # "none" => pc = "over"
  /\ outcome = "Sleep" \/ pc = "tail" => AtRest

(* The machine believes in the pin of the last edge it is shown.              *)
LEMMA LastEdge ==
  ASSUME button \in Machines, edges \in Seq(Edges), edges # <<>>,
         button' = OnEdge(button, Head(edges)), edges' = Tail(edges)
  PROVE  LastDown' <=> LastDown
<1>1. /\ Len(edges) \in Nat \ {0} /\ Head(edges) = edges[1] /\ Head(edges) \in Edges
      /\ edges' \in Seq(Edges) /\ Len(edges') = Len(edges) - 1
      /\ \A i \in 1..Len(edges') : edges'[i] = edges[i + 1]
  BY HeadTailProperties, EmptySeq, LenProperties
<1>2. CASE Len(edges) = 1
  <2>1. edges' = <<>>
    BY <1>1, <1>2, EmptySeq
  <2>2. LastDown' <=> button'.state \in DownStates
    BY <2>1 DEF LastDown
  <2>3. LastDown <=> Head(edges) = "Falling"
    BY <1>1, <1>2 DEF LastDown
  <2>4. QED
    BY <1>1, <2>2, <2>3, EdgeMachine
<1>3. CASE Len(edges) # 1
  <2>1. edges' # <<>> /\ Len(edges') \in 1..Len(edges')
    <3>1. Len(edges') \in Nat /\ Len(edges') # 0
      BY <1>1, <1>3
    <3>2. edges' # <<>>
      BY <3>1, EmptySeq
    <3>3. QED
      BY <3>1, <3>2
  <2>2. edges'[Len(edges')] = edges[Len(edges)]
    BY <1>1, <2>1
  <2>3. QED
    BY <2>1, <2>2 DEF LastDown
<1>4. QED
  BY <1>2, <1>3

(* A new edge is the last one.                                                *)
LEMMA NewEdge ==
  ASSUME edges \in Seq(Edges), NEW e \in Edges, edges' = Append(edges, e)
  PROVE  LastDown' <=> e = "Falling"
<1>1. edges' # <<>> /\ Len(edges') = Len(edges) + 1 /\ edges'[Len(edges) + 1] = e
  BY AppendProperties, EmptySeq
<1>2. QED
  BY <1>1 DEF LastDown

(* A step keeps them in agreement.                                            *)
LEMMA StepPin ==
  ASSUME TypeInv, DueInv, PinInv, [Next]_vars
  PROVE  PinInv'
<1> USE Durations DEF app, task, stack, atPin, past, Awaits
<1>0. /\ button \in Machines /\ edges \in Seq(Edges) /\ sent \in {"up", "down"} /\ nextSample \in Nat
      /\ outcome \in {"none", "Sleep", "FactoryReset"}
  BY DEF TypeInv, TypeOK
<1>1. ASSUME pc # "over", pc' # "tail", UNCHANGED <<sent, pin, latched, edges, button, outcome>> PROVE PinInv'
  <2>1. LastDown' <=> LastDown
    BY <1>1 DEF LastDown
  <2>2. QED
    BY <1>1, <2>1 DEF PinInv
<1>2. ASSUME pc # "over", pc' # "tail", LastDown' <=> LastDown, UNCHANGED <<sent, pin, latched, outcome>>
      PROVE  PinInv'
  BY <1>2 DEF PinInv
<1>3. CASE ArmWake \/ ArmBoot
  BY <1>1, <1>3 DEF ArmWake, ArmBoot, Wait, GoOn
<1>4. CASE DeadlineEvent
  <2>1. /\ pc = "waiting" /\ button' = OnDeadline(button) /\ UNCHANGED <<edges, sent, pin, latched>>
        /\ outcome' = outcome \/ (outcome' = "FactoryReset" /\ pc' = "over")
    BY <1>4, DeadlineStep, DeadlineOutcome
  <2>2. LastDown' <=> LastDown
    BY <1>0, <2>1, DeadlineMachine DEF LastDown
  <2>3. pc' # "tail"
    BY <1>4, DeadlineStep DEF OnSampleNow, OnCalibrate, OnFactoryReset, OnNothing, Resume
  <2>4. QED
    BY <1>2, <2>1, <2>2, <2>3 DEF PinInv
<1>5. CASE ButtonEvent
  <2>1. /\ pc = "waiting" /\ edges # <<>> /\ button' = OnEdge(button, Head(edges)) /\ edges' = Tail(edges)
        /\ pc' # "tail" /\ UNCHANGED <<sent, pin, latched, outcome>>
    BY <1>5, ButtonStep DEF OnNothing, Resume
  <2>2. QED
    BY <1>0, <1>2, <2>1, LastEdge
<1>6. CASE IcdEvent
  BY <1>1, <1>6 DEF IcdEvent, HandleIcd, Resume
<1>7. CASE StartCalibration \/ CaptureWet \/ EndCalibration
  BY <1>1, <1>7 DEF StartCalibration, CaptureWet, EndCalibration, Begin, GoOn
<1>8. CASE StartReading \/ ReadBattery \/ EndReading
  BY <1>1, <1>8 DEF StartReading, SampleDue, ReadBattery, EndReading, Begin
<1>9. CASE NothingDue \/ EndStartup
  BY <1>1, <1>9 DEF NothingDue, EndStartup, GoOn, Begin
<1>10. CASE PersistRebootCount
  BY <1>1, <1>10 DEF PersistRebootCount
<1>11. CASE Decide
  <2>1. pc = "decide" /\ UNCHANGED <<sent, pin, latched, outcome, nextSample, calibrationRequested>>
    BY <1>11, DecideStep
  <2>2. Drain \in Machines /\ (Drain.state \in DownStates <=> LastDown)
    BY <1>0, DrainMachine
  <2>3. CASE StayUp
    BY <1>1, <2>1, <2>3 DEF StayUp
  <2>4. CASE DrainAndStayUp
    BY <1>2, <2>1, <2>2, <2>4 DEF DrainAndStayUp, LastDown
  <2>5. CASE GoDown
    <3>1. LastDown' <=> LastDown
      BY <2>2, <2>5 DEF GoDown, LastDown
    <3>2. ~IsActive(button')
      BY <2>2, <2>5 DEF GoDown, IsActive
    <3>3. ~calibrationRequested /\ nextSample > 0
      BY <2>1 DEF DueInv
    <3>4. AtRest'
      BY <2>1, <2>5, <3>2, <3>3 DEF GoDown, AtRest
    <3>5. QED
      BY <2>1, <2>5, <3>1, <3>4 DEF GoDown, PinInv
  <2>6. QED
    BY <1>11, <2>3, <2>4, <2>5, DecideStep
<1>12. CASE SendFalling
  <2>1. /\ Awaiting /\ pc' = pc /\ sent' = "down" /\ edges' = Append(edges, "Falling")
        /\ UNCHANGED outcome
    BY <1>12 DEF SendFalling
  <2>2. LastDown'
    BY <1>0, <2>1, NewEdge DEF Edges
  <2>3. QED
    BY <2>1, <2>2 DEF PinInv, Awaiting
<1>13. CASE SendRising
  <2>1. /\ Awaiting /\ pc' = pc /\ sent' = "up" /\ edges' = Append(edges, "Rising")
        /\ pin' = pin /\ latched' = (pin = "down") /\ UNCHANGED outcome
    BY <1>13 DEF SendRising
  <2>2. ~LastDown'
    BY <1>0, <2>1, NewEdge DEF Edges
  <2>3. QED
    BY <2>1, <2>2 DEF PinInv, Awaiting
<1>14. CASE Message \/ Register \/ GoIdle \/ Poll
  BY <1>1, <1>14 DEF Message, Register, GoIdle, Poll, StackRuns, Awaiting
<1>15. CASE Tick
  <2>1. /\ pc # "over" /\ pc' # "tail" /\ button' = Elapse(button, 1)
        /\ UNCHANGED <<sent, pin, latched, outcome, edges>>
    BY <1>15 DEF Tick, Awaiting
  <2>2. LastDown' <=> LastDown
    BY <1>0, <2>1, ElapseMachine DEF LastDown
  <2>3. QED
    BY <1>2, <2>1, <2>2
<1>16. ASSUME UNCHANGED <<edges, button, outcome, pc, sent, calibrationRequested, nextSample>>,
              sent = "up" /\ pin' = "down" => latched'
       PROVE  PinInv'
  <2>1. (LastDown' <=> LastDown) /\ (AtRest' <=> AtRest)
    BY <1>16 DEF LastDown, AtRest, IsActive
  <2>2. QED
    BY <1>16, <2>1 DEF PinInv
<1>17. CASE UNCHANGED vars
  <2>1. UNCHANGED <<edges, button, outcome, pc, sent, pin, latched, calibrationRequested, nextSample>>
    BY <1>17 DEF vars
  <2>2. QED
    BY <1>16, <2>1 DEF PinInv
<1>18. CASE Person
  <2>1. UNCHANGED <<edges, button, outcome, pc, sent, calibrationRequested, nextSample>>
    BY <1>18, PersonStep
  <2>2. sent = "up" /\ pin' = "down" => latched'
    BY <1>18, PersonStep
  <2>3. QED
    BY <1>16, <2>1, <2>2
<1>19. CASE PowerDown
  <2>1. /\ pc = "tail" /\ pc' = "over"
        /\ UNCHANGED <<edges, button, sent, pin, latched, calibrationRequested, nextSample>>
    BY <1>19, PowerDownStep
  <2>2. (LastDown' <=> LastDown) /\ (AtRest' <=> AtRest)
    BY <2>1 DEF LastDown, AtRest, IsActive
  <2>3. QED
    BY <2>1, <2>2 DEF PinInv
<1>20. QED
  BY <1>3, <1>4, <1>5, <1>6, <1>7, <1>8, <1>9, <1>10, <1>11, <1>12, <1>13, <1>14, <1>15, <1>17, <1>18, <1>19,
     Steps, Zenon

(* A boot begins with them in agreement.                                      *)
LEMMA InitPin == Init => PinInv
<1> SUFFICES ASSUME Init PROVE PinInv
  OBVIOUS
<1>1. outcome = "none" /\ pc = "arm" /\ sent = pin
  BY DEF Init
<1>2. CASE wake # "Button"
  <2>1. pin = "up" /\ edges = <<>> /\ button = NewButton(FALSE)
    BY <1>2, Zenon DEF Init
  <2>2. QED
    BY <1>1, <2>1 DEF PinInv, LastDown, NewButton, DownStates
<1>3. CASE wake = "Button" /\ pin = "up"
  <2>1. edges = <<"Rising">>
    BY <1>3, Zenon DEF Init
  <2>2. QED
    BY <1>1, <1>3, <2>1 DEF PinInv, LastDown
<1>4. CASE wake = "Button" /\ pin = "down"
  <2>1. edges = <<"Falling">>
    BY <1>4, Zenon DEF Init
  <2>2. QED
    BY <1>1, <1>4, <2>1 DEF PinInv, LastDown
<1>5. QED
  BY <1>2, <1>3, <1>4, Zenon DEF Init

(* A boot that is at rest with no edge to come from the task sleeps as it     *)
(* should.                                                                    *)
LEMMA PinAtRest == TypeInv /\ PinInv => SleepOnlyAtRest
<1> SUFFICES ASSUME TypeInv, PinInv, outcome = "Sleep"
             PROVE  /\ edges = <<>> /\ ~IsActive(button) /\ sent = "up"
                    /\ pin = "down" => latched
                    /\ ~calibrationRequested /\ nextSample > 0
  BY DEF SleepOnlyAtRest
<1>1. AtRest /\ sent \in {"up", "down"}
  BY DEF PinInv, TypeInv, TypeOK
<1>2. ~LastDown
  BY <1>1 DEF AtRest, LastDown, IsActive, DownStates
<1>3. sent = "up"
  BY <1>1, <1>2 DEF PinInv
<1>4. QED
  BY <1>1, <1>3 DEF AtRest, PinInv

(* Whatever the person does, at any moment of the boot, it never sleeps with  *)
(* an edge unread, in the middle of a gesture, with work due, or with a press *)
(* that the task has no edge left to tell of (drain_button;                   *)
(* BootLoop.SleepOnlyAtRest).                                                 *)
THEOREM BootSleepsAtRest == Spec => []SleepOnlyAtRest
<1>1. TypeInv /\ DueInv /\ PinInv /\ [Next]_vars => PinInv'
  BY StepPin
<1>2. TypeInv /\ PinInv => SleepOnlyAtRest
  BY PinAtRest
<1>3. QED
  BY <1>1, <1>2, InitPin, BootDue, PTL DEF Spec

-----------------------------------------------------------------------------
(* Sleep only settled: what the loop remembers of the idle stack is true.     *)

\* A resumption record that waits for its write keeps the stack active.
DirtyInv == dirtyLeft <= IF power = "Active" THEN holdLeft ELSE 0

\* The stack has become active, and the loop has yet to notice.
Stale == power = "Active" /\ idleSince # NotIdle

\* It notices before the stack can be idle again: the notification waits for it, or
\* the hold outlasts whatever keeps it busy.
Noticed ==
  /\ holdLeft > 0
  /\ pc \in {"arm", "waiting", "soil", "battery", "calDry", "calWet"} => icdChanged
  /\ pc = "waiting" => left > 0 \/ holdLeft > SoilTime + BatteryTime
  /\ pc = "step" /\ ~calibrationRequested /\ nextSample = 0 => holdLeft > SoilTime + BatteryTime
  /\ pc = "step" /\ ~icdChanged =>
       nextSample > 0 /\ ~calibrationRequested /\ (rebootCountPersisted \/ rebootCountDue > 0)
  /\ pc = "decide" => icdChanged \/ rebootCountPersisted \/ rebootCountDue > 0
  /\ pc = "soil" => holdLeft > left + BatteryTime
  /\ pc = "battery" => holdLeft > left

\* The hold a calibration asks for outlasts it, and the reading after it.
Calibrating ==
  /\ pc = "step" /\ calibrationRequested =>
       power = "Active" /\ holdLeft > 2 * CaptureTime + SoilTime + BatteryTime
  /\ pc = "calDry" => power = "Active" /\ holdLeft > left + CaptureTime + SoilTime + BatteryTime
  /\ pc = "calWet" => power = "Active" /\ holdLeft > left + SoilTime + BatteryTime

IdleInv ==
  /\ phase = "wake" \/ pc = "startup" => idleSince = NotIdle
  /\ power = "Idle" /\ idleSince # NotIdle => idleSince <= trueIdle
  /\ Stale => Noticed
  /\ idleSince # NotIdle => Calibrating

(* The notification and the hold of a request.                                *)
LEMMA RequestHold ==
  ASSUME TypeInv, NEW d \in Nat, RequestActive(d)
  PROVE  /\ power' = "Active" /\ holdLeft' \in Nat /\ holdLeft' >= d /\ holdLeft' >= holdLeft
         /\ (power = "Idle" \/ icdChanged) => icdChanged'
         /\ dirtyLeft' = dirtyLeft
<1>1. holdLeft \in Nat
  BY DEF TypeInv, TypeOK
<1>2. power' = "Active" /\ dirtyLeft' = dirtyLeft /\ holdLeft' = IF holdLeft > d THEN holdLeft ELSE d
  BY DEF RequestActive
<1>3. (power = "Idle" \/ icdChanged) => icdChanged'
  BY Zenon DEF RequestActive
<1>4. QED
  BY <1>1, <1>2, <1>3

(* A step keeps a waiting record's stack active.                              *)
LEMMA StepDirty ==
  ASSUME TypeInv, DirtyInv, [Next]_vars
  PROVE  DirtyInv'
<1> USE Durations DEF app, task, stack, atPin, past, DirtyInv
<1>0. /\ power \in {"Active", "Idle"} /\ holdLeft \in Nat /\ dirtyLeft \in 0..PersistDebounce
  BY DEF TypeInv, TypeOK
<1>1. ASSUME UNCHANGED <<power, holdLeft, dirtyLeft>> PROVE DirtyInv'
  BY <1>1
<1>2. CASE DeadlineEvent
  <2>1. CASE OnSampleNow
    BY <1>0, <2>1, RequestHold DEF OnSampleNow
  <2>2. CASE OnCalibrate
    BY <1>0, <2>2, RequestHold DEF OnCalibrate
  <2>3. CASE OnFactoryReset
    BY <1>1, <2>3 DEF OnFactoryReset
  <2>4. CASE OnNothing
    BY <1>1, <2>4 DEF OnNothing
  <2>5. QED
    BY <1>2, <2>1, <2>2, <2>3, <2>4, DeadlineStep
<1>3. CASE ArmWake \/ ArmBoot
  BY <1>1, <1>3 DEF ArmWake, ArmBoot, Wait, GoOn
<1>4. CASE ButtonEvent
  BY <1>1, <1>4, ButtonStep DEF OnNothing
<1>5. CASE IcdEvent
  BY <1>1, <1>5 DEF IcdEvent, HandleIcd
<1>6. CASE StartCalibration \/ CaptureWet \/ EndCalibration
  BY <1>1, <1>6 DEF StartCalibration, CaptureWet, EndCalibration, GoOn
<1>7. CASE StartReading \/ ReadBattery \/ EndReading
  BY <1>1, <1>7 DEF StartReading, SampleDue, ReadBattery, EndReading
<1>8. CASE NothingDue \/ EndStartup
  BY <1>1, <1>8 DEF NothingDue, EndStartup, GoOn
<1>9. CASE PersistRebootCount
  BY <1>1, <1>9 DEF PersistRebootCount
<1>10. CASE Decide
  BY <1>1, <1>10, DecideStep
<1>11. CASE SendFalling \/ SendRising
  BY <1>1, <1>11 DEF SendFalling, SendRising
<1>12. CASE Message
  BY <1>0, <1>12 DEF Message
<1>13. CASE Register
  BY <1>1, <1>13 DEF Register
<1>14. CASE GoIdle
  BY <1>0, <1>14 DEF GoIdle
<1>15. CASE Poll
  BY <1>0, <1>15 DEF Poll
<1>16. CASE Tick
  BY <1>0, <1>16 DEF Tick, Less
<1>17. CASE UNCHANGED vars
  BY <1>1, <1>17 DEF vars
<1>18. CASE Person
  BY <1>1, <1>18, PersonStep
<1>19. CASE PowerDown
  BY <1>1, <1>19, PowerDownStep
<1>20. QED
  BY <1>2, <1>3, <1>4, <1>5, <1>6, <1>7, <1>8, <1>9, <1>10, <1>11, <1>12, <1>13, <1>14, <1>15, <1>16,
     <1>17, <1>18, <1>19, Steps, Zenon

(* A step keeps the loop's memory of the idle stack true.                     *)
LEMMA StepIdle ==
  ASSUME TypeInv, WakeInv, DueInv, IdleInv, [Next]_vars
  PROVE  IdleInv'
<1> USE Durations DEF app, task, stack, atPin, past, Awaits, NotIdle
<1>0. /\ phase \in {"wake", "operational"} /\ nextSample \in Nat /\ rebootCountDue \in Nat
      /\ left \in Nat /\ idleSince \in NotIdle..Settle /\ power \in {"Active", "Idle"}
      /\ holdLeft \in Nat /\ trueIdle \in 0..IdlePeriod
  BY DEF TypeInv, TypeOK
<1> DEFINE places == <<pc, phase, left, nextSample, calibrationRequested, rebootCountPersisted,
                       rebootCountDue, idleSince, icdChanged, power, holdLeft, trueIdle>>
<1>1. ASSUME UNCHANGED places PROVE IdleInv'
  BY <1>1 DEF IdleInv, Stale, Noticed, Calibrating
<1>2. ASSUME idleSince' = NotIdle PROVE IdleInv'
  BY <1>2 DEF IdleInv, Stale
<1>3. ASSUME UNCHANGED <<phase, idleSince, power, trueIdle>>, pc' # "startup",
             Stale => Noticed',
             idleSince # NotIdle => Calibrating'
      PROVE  IdleInv'
  BY <1>3 DEF IdleInv, Stale
<1>4. /\ idleSince # NotIdle => phase = "operational" /\ pc # "startup"
      /\ Stale => Noticed
      /\ idleSince # NotIdle => Calibrating
  BY <1>0 DEF IdleInv
<1>5. CASE ArmWake
  BY <1>2, <1>4, <1>5 DEF ArmWake, Wait, GoOn
<1>6. CASE ArmBoot
  <2>1. /\ pc = "arm" /\ phase = "operational" /\ pc' = "waiting" /\ left' = NextDeadline
        /\ UNCHANGED <<phase, idleSince, power, trueIdle, icdChanged, holdLeft>>
    BY <1>6 DEF ArmBoot, Wait
  <2>2. left' > 0
    <3>1. nextSample > 0
      BY <2>1 DEF DueInv
    <3>2. button \in Machines
      BY DEF TypeInv
    <3>3. QED
      BY <1>0, <2>1, <3>1, <3>2, NextDeadlineEarly
  <2>3. QED
    BY <1>3, <1>4, <2>1, <2>2 DEF Noticed, Calibrating
<1>7. CASE DeadlineEvent
  <2>1. /\ pc = "waiting" /\ left = 0 /\ UNCHANGED <<phase, idleSince, left, trueIdle>>
    BY <1>7, DeadlineStep
  <2>2. CASE idleSince = NotIdle
    BY <1>2, <2>1, <2>2
  <2>3. CASE idleSince # NotIdle
    <3>1. phase = "operational" /\ ~calibrationRequested
      BY <1>4, <2>1, <2>3 DEF DueInv
    <3>2. power = "Active" => icdChanged /\ holdLeft > SoilTime + BatteryTime
      BY <1>0, <1>4, <2>1, <2>3 DEF Stale, Noticed
    <3>3. CASE OnSampleNow
      <4>1. pc' = "step" /\ nextSample' = 0 /\ calibrationRequested' = calibrationRequested
        BY <3>1, <3>3 DEF OnSampleNow, Resume
      <4>2. power' = "Active" /\ holdLeft' \in Nat /\ holdLeft' >= ActiveThreshold /\ icdChanged'
        BY <1>0, <3>2, <3>3, RequestHold DEF OnSampleNow
      <4>3. Noticed' /\ Calibrating'
        BY <3>1, <4>1, <4>2 DEF Noticed, Calibrating
      <4>4. QED
        BY <2>1, <3>1, <4>1, <4>2, <4>3 DEF IdleInv
    <3>4. CASE OnCalibrate
      <4>1. pc' = "step" /\ calibrationRequested'
        BY <3>1, <3>4 DEF OnCalibrate, Resume
      <4>2. power' = "Active" /\ holdLeft' \in Nat /\ holdLeft' >= CalibrationHold /\ icdChanged'
        BY <1>0, <3>2, <3>4, RequestHold DEF OnCalibrate
      <4>3. Noticed' /\ Calibrating'
        BY <4>1, <4>2 DEF Noticed, Calibrating
      <4>4. QED
        BY <2>1, <3>1, <4>1, <4>2, <4>3 DEF IdleInv
    <3>5. CASE OnFactoryReset
      <4>1. pc' = "over" /\ UNCHANGED <<icdChanged, power, holdLeft>>
        BY <3>5 DEF OnFactoryReset
      <4>2. Calibrating' /\ (Stale => Noticed')
        BY <1>4, <4>1 DEF Noticed, Calibrating
      <4>3. QED
        BY <1>3, <2>1, <4>1, <4>2
    <3>6. CASE OnNothing
      <4>1. pc' = "step" /\ UNCHANGED <<icdChanged, power, holdLeft, calibrationRequested>>
        BY <3>1, <3>6 DEF OnNothing, Resume
      <4>2. Calibrating' /\ (Stale => Noticed')
        BY <1>0, <3>1, <3>2, <4>1 DEF Noticed, Calibrating, Stale
      <4>3. QED
        BY <1>3, <2>1, <4>1, <4>2
    <3>7. QED
      BY <1>7, <3>3, <3>4, <3>5, <3>6, DeadlineStep
  <2>4. QED
    BY <2>2, <2>3
<1>8. CASE ButtonEvent \/ IcdEvent
  <2>1. /\ pc = "waiting" /\ left > 0
        /\ UNCHANGED <<phase, idleSince, left, trueIdle, power, holdLeft, nextSample, calibrationRequested,
                       rebootCountPersisted, rebootCountDue>>
    BY <1>8, ButtonStep DEF OnNothing, IcdEvent, HandleIcd
  <2>2. CASE idleSince = NotIdle
    BY <1>2, <2>1, <2>2
  <2>3. CASE idleSince # NotIdle
    <3>1. phase = "operational" /\ ~calibrationRequested /\ nextSample > 0
          /\ (rebootCountPersisted \/ rebootCountDue > 0)
      BY <1>0, <1>4, <2>1, <2>3 DEF DueInv
    <3>2. pc' = "step"
      BY <1>8, <3>1, ButtonStep DEF OnNothing, Resume, IcdEvent, HandleIcd
    <3>3. Calibrating' /\ (Stale => Noticed')
      BY <1>4, <2>1, <3>1, <3>2 DEF Noticed, Calibrating
    <3>4. QED
      BY <1>3, <2>1, <3>2, <3>3
  <2>4. QED
    BY <2>2, <2>3
<1>9. CASE StartCalibration
  <2>1. /\ pc = "step" /\ calibrationRequested /\ pc' = "calDry" /\ left' = CaptureTime
        /\ UNCHANGED <<phase, idleSince, trueIdle, power, holdLeft, icdChanged>>
    BY <1>9 DEF StartCalibration, Begin
  <2>2. (idleSince # NotIdle => Calibrating') /\ (Stale => Noticed')
    BY <1>0, <1>4, <2>1 DEF Noticed, Calibrating
  <2>3. QED
    BY <1>3, <2>1, <2>2
<1>10. CASE CaptureWet
  <2>1. /\ pc = "calDry" /\ left = 0 /\ pc' = "calWet" /\ left' = CaptureTime
        /\ UNCHANGED <<phase, idleSince, trueIdle, power, holdLeft, icdChanged>>
    BY <1>10 DEF CaptureWet, Begin
  <2>2. (idleSince # NotIdle => Calibrating') /\ (Stale => Noticed')
    BY <1>0, <1>4, <2>1 DEF Noticed, Calibrating
  <2>3. QED
    BY <1>3, <2>1, <2>2
<1>11. CASE EndCalibration
  <2>1. /\ pc = "calWet" /\ left = 0 /\ pc' = "step"
        /\ UNCHANGED <<phase, idleSince, trueIdle, power, holdLeft, icdChanged, calibrationRequested>>
    BY <1>11 DEF EndCalibration, GoOn
  <2>2. ~calibrationRequested
    BY <2>1 DEF DueInv
  <2>3. (idleSince # NotIdle => Calibrating') /\ (Stale => Noticed')
    BY <1>0, <1>4, <2>1, <2>2 DEF Noticed, Calibrating, Stale
  <2>4. QED
    BY <1>3, <2>1, <2>3
<1>12. CASE StartReading
  <2>1. /\ pc = "step" /\ ~calibrationRequested /\ nextSample = 0 /\ pc' = "soil" /\ left' = SoilTime
        /\ UNCHANGED <<phase, idleSince, trueIdle, power, holdLeft, icdChanged>>
    BY <1>12 DEF StartReading, SampleDue, Begin
  <2>2. (idleSince # NotIdle => Calibrating') /\ (Stale => Noticed')
    BY <1>0, <1>4, <2>1 DEF Noticed, Calibrating
  <2>3. QED
    BY <1>3, <2>1, <2>2
<1>13. CASE ReadBattery
  <2>1. /\ pc = "soil" /\ left = 0 /\ pc' = "battery" /\ left' = BatteryTime
        /\ UNCHANGED <<phase, idleSince, trueIdle, power, holdLeft, icdChanged>>
    BY <1>13 DEF ReadBattery, Begin
  <2>2. (idleSince # NotIdle => Calibrating') /\ (Stale => Noticed')
    BY <1>0, <1>4, <2>1 DEF Noticed, Calibrating
  <2>3. QED
    BY <1>3, <2>1, <2>2
<1>14. CASE EndReading
  <2>1. /\ pc = "battery" /\ left = 0 /\ pc' = "step" /\ nextSample' = SamplePeriod
        /\ UNCHANGED <<phase, idleSince, trueIdle, power, holdLeft, icdChanged, calibrationRequested>>
    BY <1>14 DEF EndReading
  <2>2. ~calibrationRequested
    BY <2>1 DEF DueInv
  <2>3. (idleSince # NotIdle => Calibrating') /\ (Stale => Noticed')
    BY <1>0, <1>4, <2>1, <2>2 DEF Noticed, Calibrating
  <2>4. QED
    BY <1>3, <2>1, <2>3
<1>15. CASE NothingDue
  <2>1. CASE phase = "wake"
    BY <1>2, <1>4, <1>15, <2>1 DEF NothingDue
  <2>2. CASE phase = "operational"
    <3>1. /\ pc = "step" /\ pc' = "decide" /\ nextSample > 0
          /\ UNCHANGED <<phase, idleSince, trueIdle, power, holdLeft, icdChanged, rebootCountPersisted,
                         rebootCountDue>>
      BY <1>15, <2>2 DEF NothingDue
    <3>2. (idleSince # NotIdle => Calibrating') /\ (Stale => Noticed')
      BY <1>4, <3>1 DEF Noticed, Calibrating
    <3>3. QED
      BY <1>3, <3>1, <3>2
  <2>3. QED
    BY <1>0, <2>1, <2>2
<1>16. CASE EndStartup
  BY <1>2, <1>4, <1>16 DEF EndStartup, GoOn
<1>17. CASE PersistRebootCount
  <2>1. /\ pc = "decide" /\ ~rebootCountPersisted /\ rebootCountDue = 0 /\ pc' = "arm"
        /\ UNCHANGED <<phase, idleSince, trueIdle, power, holdLeft, icdChanged>>
    BY <1>17 DEF PersistRebootCount
  <2>2. (idleSince # NotIdle => Calibrating') /\ (Stale => Noticed')
    BY <1>4, <2>1 DEF Noticed, Calibrating
  <2>3. QED
    BY <1>3, <2>1, <2>2
<1>18. CASE Decide
  <2>1. /\ pc = "decide" /\ pc' \in {"arm", "tail"} /\ idleSince' = TrackIdle
        /\ UNCHANGED <<phase, trueIdle, power>>
    BY <1>18, DecideStep DEF StayUp, DrainAndStayUp, GoDown
  <2>2. phase = "operational"
    BY <2>1 DEF DueInv
  <2>3. CASE power = "Active"
    BY <1>2, <2>1, <2>3 DEF TrackIdle
  <2>4. CASE power = "Idle"
    <3>1. idleSince' <= trueIdle
      BY <1>0, <2>1, <2>4 DEF TrackIdle, IdleInv
    <3>2. Calibrating'
      BY <2>1 DEF Calibrating
    <3>3. QED
      BY <2>1, <2>2, <2>4, <3>1, <3>2 DEF IdleInv, Stale
  <2>5. QED
    BY <1>0, <2>3, <2>4
<1>19. CASE SendFalling \/ SendRising
  BY <1>1, <1>19 DEF SendFalling, SendRising
<1>20. CASE Message \/ Poll
  <2>1. /\ power' = "Active" /\ holdLeft' \in Nat /\ holdLeft' >= ActiveThreshold
        /\ Awaiting /\ pc # "startup"
        /\ UNCHANGED <<pc, phase, left, nextSample, calibrationRequested, rebootCountPersisted,
                       rebootCountDue, idleSince>>
    <3>1. /\ power' = "Active"
          /\ holdLeft' = ActiveThreshold \/ holdLeft' = IF holdLeft > ActiveThreshold THEN holdLeft ELSE ActiveThreshold
      BY <1>20 DEF Message, Poll
    <3>2. Awaiting /\ pc # "startup"
      BY <1>20, Zenon DEF Message, Poll, StackRuns
    <3>3. UNCHANGED <<pc, phase, left, nextSample, calibrationRequested, rebootCountPersisted,
                      rebootCountDue, idleSince>>
      BY <1>20 DEF Message, Poll
    <3>4. QED
      BY <1>0, <3>1, <3>2, <3>3
  <2>2. power = "Active" => holdLeft' >= holdLeft
    BY <1>0, <1>20 DEF Message, Poll
  <2>3. power = "Idle" \/ icdChanged => icdChanged'
    BY <1>20, Zenon DEF Message, Poll
  <2>4. CASE idleSince = NotIdle
    BY <1>2, <2>1, <2>4
  <2>5. CASE idleSince # NotIdle
    <3>1. pc \in {"waiting", "soil", "battery", "calDry", "calWet"}
      BY <2>1 DEF Awaiting
    <3>2. icdChanged'
      BY <1>0, <1>4, <2>3, <2>5, <3>1 DEF Stale, Noticed
    <3>3. Noticed'
      <4>1. CASE power = "Active"
        BY <1>0, <1>4, <2>1, <2>2, <2>5, <3>1, <3>2, <4>1 DEF Stale, Noticed
      <4>2. CASE power = "Idle"
        BY <1>0, <1>4, <2>1, <2>5, <3>1, <3>2, <4>2 DEF Noticed, Calibrating, DueInv
      <4>3. QED
        BY <1>0, <4>1, <4>2
    <3>4. Calibrating'
      BY <1>0, <1>4, <2>1, <2>2, <2>5, <3>1 DEF Calibrating
    <3>5. QED
      BY <1>4, <2>1, <2>5, <3>3, <3>4 DEF IdleInv
  <2>6. QED
    BY <2>4, <2>5
<1>21. CASE Register
  BY <1>1, <1>21 DEF Register
<1>22. CASE GoIdle
  <2>1. power = "Active" /\ holdLeft = 0 /\ UNCHANGED idleSince
    BY <1>22 DEF GoIdle
  <2>2. idleSince = NotIdle
    BY <1>4, <2>1 DEF Stale, Noticed
  <2>3. QED
    BY <1>2, <2>1, <2>2
<1>23. CASE Tick
  <2>1. /\ Awaiting /\ left > 0 /\ left' = left - 1 /\ (pc = "waiting" => ~icdChanged)
        /\ holdLeft' = Less(holdLeft, 1) /\ nextSample' = Less(nextSample, 1)
        /\ idleSince' = (IF idleSince \in {NotIdle, Settle} THEN idleSince ELSE idleSince + 1)
        /\ UNCHANGED <<pc, phase, calibrationRequested, icdChanged, power>>
    <3>1. Awaiting /\ Quiet
      BY <1>23, Zenon DEF Tick
    <3>2. /\ left' = left - 1 /\ holdLeft' = Less(holdLeft, 1) /\ nextSample' = Less(nextSample, 1)
          /\ idleSince' = (IF idleSince \in {NotIdle, Settle} THEN idleSince ELSE idleSince + 1)
          /\ UNCHANGED <<pc, phase, calibrationRequested, icdChanged, power>>
      BY <1>23 DEF Tick
    <3>3. QED
      BY <3>1, <3>2 DEF Quiet
  <2>2. trueIdle' = CASE power # "Idle" -> 0
                      [] trueIdle < IdlePeriod -> trueIdle + 1
                      [] OTHER -> trueIdle
    BY <1>23, Zenon DEF Tick
  <2>3. CASE idleSince = NotIdle
    BY <1>2, <2>1, <2>3
  <2>4. CASE idleSince # NotIdle
    <3>1. idleSince' \in 0..Settle /\ phase = "operational" /\ pc # "startup"
      BY <1>0, <1>4, <2>1, <2>4
    <3>2. power = "Idle" => idleSince' <= trueIdle'
      BY <1>0, <2>1, <2>2, <2>4 DEF IdleInv
    <3>3. Stale => Noticed'
      BY <1>0, <1>4, <2>1, <2>4 DEF Stale, Noticed, Calibrating, Less, Awaiting
    <3>4. Calibrating'
      BY <1>0, <1>4, <2>1, <2>4 DEF Calibrating, Less, Awaiting
    <3>5. QED
      BY <2>1, <2>4, <3>1, <3>2, <3>3, <3>4 DEF IdleInv, Stale
  <2>5. QED
    BY <2>3, <2>4
<1>24. CASE UNCHANGED vars
  BY <1>1, <1>24 DEF vars
<1>25. CASE Person
  BY <1>1, <1>25, PersonStep
<1>26. CASE PowerDown
  <2>1. /\ pc = "tail" /\ pc' = "over" /\ UNCHANGED <<phase, idleSince, power, trueIdle, holdLeft>>
    BY <1>26, PowerDownStep
  <2>2. (idleSince # NotIdle => Calibrating') /\ (Stale => Noticed')
    BY <1>4, <2>1 DEF Noticed, Calibrating
  <2>3. QED
    BY <1>3, <2>1, <2>2
<1>27. QED
  BY <1>5, <1>6, <1>7, <1>8, <1>9, <1>10, <1>11, <1>12, <1>13, <1>14, <1>15, <1>16, <1>17, <1>18, <1>19,
     <1>20, <1>21, <1>22, <1>23, <1>24, <1>25, <1>26, Steps, Zenon

\* The stack is settled from the decision to the sleep.
DownSettled ==
  outcome = "Sleep" \/ pc = "tail" => lit /\ power = "Idle" /\ trueIdle >= Settle /\ dirtyLeft = 0

(* A step falls asleep only with a stack that is settled.                     *)
LEMMA StepSettled ==
  ASSUME TypeInv, CountInv, IdleInv, DirtyInv, DownSettled, [Next]_vars
  PROVE  DownSettled'
<1> USE DEF app, task, stack, atPin, past, Awaits
<1>1. ASSUME pc # "over", pc' # "tail", outcome' = outcome PROVE DownSettled'
  BY <1>1 DEF CountInv, DownSettled
<1>2. CASE DeadlineEvent
  <2>1. pc = "waiting" /\ (outcome' = outcome \/ outcome' = "FactoryReset") /\ pc' # "tail"
    BY <1>2, DeadlineStep, DeadlineOutcome DEF OnSampleNow, OnCalibrate, OnFactoryReset, OnNothing, Resume
  <2>2. QED
    BY <1>1, <2>1 DEF DownSettled
<1>3. CASE Decide
  <2>1. pc = "decide" /\ UNCHANGED <<outcome, lit, power, trueIdle, dirtyLeft>>
    BY <1>3, DecideStep
  <2>2. CASE StayUp \/ DrainAndStayUp
    BY <1>1, <2>1, <2>2 DEF StayUp, DrainAndStayUp
  <2>3. CASE GoDown
    <3>1. /\ power \in {"Active", "Idle"} /\ idleSince \in NotIdle..Settle /\ trueIdle \in Nat
          /\ dirtyLeft \in Nat
      BY Durations DEF TypeInv, TypeOK
    <3>2. lit /\ power = "Idle" /\ TrackIdle >= Settle
      BY <2>3, Zenon DEF GoDown, MaySleep
    <3>3. idleSince # NotIdle /\ idleSince >= Settle
      BY <3>1, <3>2, Durations DEF TrackIdle, NotIdle
    <3>4. trueIdle >= Settle /\ dirtyLeft = 0
      BY <3>1, <3>2, <3>3, Durations DEF IdleInv, DirtyInv, NotIdle
    <3>5. QED
      BY <2>1, <3>2, <3>4 DEF DownSettled
  <2>4. QED
    BY <1>3, <2>2, <2>3, DecideStep
<1>4. CASE ArmWake \/ ArmBoot
  BY <1>1, <1>4 DEF ArmWake, ArmBoot, Wait, GoOn
<1>5. CASE ButtonEvent
  BY <1>1, <1>5, ButtonStep DEF OnNothing, Resume
<1>6. CASE IcdEvent
  BY <1>1, <1>6 DEF IcdEvent, HandleIcd, Resume
<1>7. CASE StartCalibration \/ CaptureWet \/ EndCalibration
  BY <1>1, <1>7 DEF StartCalibration, CaptureWet, EndCalibration, Begin, GoOn
<1>8. CASE StartReading \/ ReadBattery \/ EndReading
  BY <1>1, <1>8 DEF StartReading, SampleDue, ReadBattery, EndReading, Begin
<1>9. CASE NothingDue \/ EndStartup
  BY <1>1, <1>9 DEF NothingDue, EndStartup, GoOn, Begin
<1>10. CASE PersistRebootCount
  BY <1>1, <1>10 DEF PersistRebootCount
<1>11. CASE SendFalling \/ SendRising
  BY <1>1, <1>11 DEF SendFalling, SendRising, Awaiting
<1>12. CASE Message \/ Register \/ GoIdle \/ Poll
  BY <1>1, <1>12 DEF Message, Register, GoIdle, Poll, StackRuns, Awaiting
<1>13. CASE Tick
  BY <1>1, <1>13 DEF Tick, Awaiting
<1>14. CASE UNCHANGED vars
  BY <1>14 DEF vars, DownSettled
<1>15. CASE Person
  <2>1. UNCHANGED <<outcome, pc, lit, power, trueIdle, dirtyLeft>>
    BY <1>15, PersonStep
  <2>2. QED
    BY <2>1 DEF DownSettled
<1>16. CASE PowerDown
  <2>1. pc = "tail" /\ pc' = "over" /\ UNCHANGED <<lit, power, trueIdle, dirtyLeft>>
    BY <1>16, PowerDownStep
  <2>2. QED
    BY <2>1 DEF DownSettled
<1>17. QED
  BY <1>2, <1>3, <1>4, <1>5, <1>6, <1>7, <1>8, <1>9, <1>10, <1>11, <1>12, <1>13, <1>14, <1>15, <1>16, Steps,
     Zenon

(* The device sleeps only as a long-idle device whose stack has been idle,    *)
(* without a break, for the settle time, with nothing left to write           *)
(* (track_idle and sleep_for; BootLoop.SleepOnlySettled).                     *)
THEOREM BootSleepsSettled == Spec => []SleepOnlySettled
<1>1. Init => IdleInv /\ DirtyInv /\ DownSettled
  <2> SUFFICES ASSUME Init PROVE IdleInv /\ DirtyInv /\ DownSettled
    OBVIOUS
  <2>1. /\ idleSince = NotIdle /\ power = "Active" /\ dirtyLeft = 0 /\ outcome = "none" /\ pc = "arm"
        /\ holdLeft \in {WakeHold, ActiveThreshold}
    BY Zenon DEF Init
  <2>2. QED
    BY <2>1, Durations DEF IdleInv, Stale, DirtyInv, DownSettled
<1>2. TypeInv /\ DirtyInv /\ [Next]_vars => DirtyInv'
  BY StepDirty
<1>3. TypeInv /\ WakeInv /\ DueInv /\ IdleInv /\ [Next]_vars => IdleInv'
  BY StepIdle
<1>4. TypeInv /\ CountInv /\ IdleInv /\ DirtyInv /\ DownSettled /\ [Next]_vars => DownSettled'
  BY StepSettled
<1>5. DownSettled => SleepOnlySettled
  BY DEF DownSettled, SleepOnlySettled
<1>6. QED
  BY <1>1, <1>2, <1>3, <1>4, <1>5, BootDue, BootCount, PTL DEF Spec

-----------------------------------------------------------------------------
(* The sleep ends in time for the stack's poll. *)

\* An idle stack polls when its period is over, however much of it has gone.
PollInv ==
  power = "Idle" => /\ phase = "operational" /\ pc # "startup"
                    /\ trueIdle + idleLeft = IdlePeriod

(* A step keeps the two apart by the period.                                  *)
LEMMA StepPoll ==
  ASSUME TypeInv, WakeInv, PollInv, [Next]_vars
  PROVE  PollInv'
<1> USE Durations DEF app, task, stack, atPin, past, Awaits
<1>0. /\ power \in {"Active", "Idle"} /\ trueIdle \in 0..IdlePeriod /\ idleLeft \in Nat
  BY DEF TypeInv, TypeOK
<1>1. ASSUME UNCHANGED <<power, phase, trueIdle, idleLeft>>, pc' # "startup" PROVE PollInv'
  BY <1>1 DEF PollInv
<1>2. ASSUME power' = "Active" PROVE PollInv'
  BY <1>2 DEF PollInv
<1>3. CASE ArmWake \/ ArmBoot
  BY <1>1, <1>3 DEF ArmWake, ArmBoot, Wait, GoOn
<1>4. CASE DeadlineEvent
  <2>1. pc = "waiting" /\ UNCHANGED <<phase, trueIdle>>
    BY <1>4, DeadlineStep
  <2>2. CASE OnSampleNow \/ OnCalibrate
    BY <1>2, <2>2 DEF OnSampleNow, OnCalibrate, RequestActive
  <2>3. CASE OnFactoryReset \/ OnNothing
    BY <1>1, <2>1, <2>3 DEF OnFactoryReset, OnNothing, Resume
  <2>4. QED
    BY <1>4, <2>2, <2>3, DeadlineStep
<1>5. CASE ButtonEvent
  BY <1>1, <1>5, ButtonStep DEF OnNothing, Resume
<1>6. CASE IcdEvent
  BY <1>1, <1>6 DEF IcdEvent, HandleIcd, Resume
<1>7. CASE StartCalibration \/ CaptureWet \/ EndCalibration
  BY <1>1, <1>7 DEF StartCalibration, CaptureWet, EndCalibration, GoOn, Begin
<1>8. CASE StartReading \/ ReadBattery \/ EndReading
  BY <1>1, <1>8 DEF StartReading, SampleDue, ReadBattery, EndReading, Begin
<1>9. CASE NothingDue
  BY <1>0, <1>1, <1>9 DEF NothingDue, PollInv
<1>10. CASE EndStartup
  BY <1>1, <1>10 DEF EndStartup, GoOn
<1>11. CASE PersistRebootCount
  BY <1>1, <1>11 DEF PersistRebootCount
<1>12. CASE Decide
  <2>1. pc' \in {"arm", "tail"}
    BY <1>12, DecideStep DEF StayUp, DrainAndStayUp, GoDown
  <2>2. QED
    BY <1>1, <1>12, <2>1, DecideStep
<1>13. CASE SendFalling \/ SendRising
  BY <1>13 DEF SendFalling, SendRising, PollInv
<1>14. CASE Message \/ Poll
  BY <1>2, <1>14 DEF Message, Poll
<1>15. CASE Register
  BY <1>15 DEF Register, PollInv
<1>16. CASE GoIdle
  <2>1. phase = "operational" /\ pc # "startup"
    BY <1>16, Zenon DEF GoIdle, StackRuns
  <2>2. QED
    BY <1>16, <2>1 DEF GoIdle, PollInv
<1>17. CASE Tick
  <2>1. Awaiting /\ ((StackRuns /\ power = "Idle") => idleLeft > 0)
    BY <1>17, Zenon DEF Tick
  <2>2. UNCHANGED <<pc, phase, power>> /\ idleLeft' = Less(idleLeft, 1)
    BY <1>17 DEF Tick
  <2>3. trueIdle' = CASE power # "Idle" -> 0
                      [] trueIdle < IdlePeriod -> trueIdle + 1
                      [] OTHER -> trueIdle
    BY <1>17, Zenon DEF Tick
  <2>4. power = "Idle" => idleLeft > 0
    BY <2>1 DEF PollInv, StackRuns
  <2>5. QED
    BY <1>0, <2>2, <2>3, <2>4 DEF PollInv, Less
<1>18. CASE UNCHANGED vars
  BY <1>18 DEF vars, PollInv
<1>19. CASE Person
  BY <1>19, PersonStep DEF PollInv
<1>20. CASE PowerDown
  BY <1>1, <1>20, PowerDownStep
<1>21. QED
  BY <1>3, <1>4, <1>5, <1>6, <1>7, <1>8, <1>9, <1>10, <1>11, <1>12, <1>13, <1>14, <1>15, <1>16, <1>17,
     <1>18, <1>19, <1>20, Steps, Zenon

(* The smaller and the larger of two numbers.                                 *)
LEMMA OfTwo ==
  ASSUME NEW a \in Nat, NEW b \in Nat
  PROVE  /\ Min({a, b}) = IF a <= b THEN a ELSE b
         /\ Max({a, b}) = IF a <= b THEN b ELSE a
<1>1. Min({a, b}) = IF a <= b THEN a ELSE b
  <2>1. PICK m \in {a, b} : m = Min({a, b}) /\ \A y \in {a, b} : m <= y
    <3>1. \E m \in {a, b} : \A y \in {a, b} : m <= y
      OBVIOUS
    <3>2. QED
      BY <3>1 DEF Min
  <2>2. QED
    BY <2>1
<1>2. Max({a, b}) = IF a <= b THEN b ELSE a
  <2>1. PICK m \in {a, b} : m = Max({a, b}) /\ \A y \in {a, b} : m >= y
    <3>1. \E m \in {a, b} : \A y \in {a, b} : m >= y
      OBVIOUS
    <3>2. QED
      BY <3>1 DEF Max
  <2>2. QED
    BY <2>1
<1>3. QED
  BY <1>1, <1>2

(* A settled boot sleeps for what is left of the period.                      *)
LEMMA SleepsForPoll == TypeInv /\ PollInv /\ SleepOnlySettled => PollNotMissed
<1> SUFFICES ASSUME TypeInv, PollInv, SleepOnlySettled, outcome = "Sleep"
             PROVE  /\ SleepFor >= SleepMin
                    /\ trueIdle + SleepFor <= IdlePeriod \/ SleepFor = SleepMin
  BY DEF PollNotMissed
<1>1. idleLeft \in Nat /\ trueIdle \in Nat /\ trueIdle + idleLeft = IdlePeriod
  BY Durations DEF TypeInv, TypeOK, PollInv, SleepOnlySettled
<1>2. Min({IdlePeriod, idleLeft}) = idleLeft
  BY <1>1, OfTwo, Durations
<1>3. SleepFor = IF idleLeft <= SleepMin THEN SleepMin ELSE idleLeft
  BY <1>1, <1>2, OfTwo, Durations DEF SleepFor
<1>4. QED
  BY <1>1, <1>3, Durations

(* The sleep is over by the stack's poll, or is as short as it may be         *)
(* (sleep_for; BootLoop.PollNotMissed).                                       *)
THEOREM BootMissesNoPoll == Spec => []PollNotMissed
<1>1. Init => PollInv
  BY DEF Init, PollInv
<1>2. TypeInv /\ WakeInv /\ PollInv /\ [Next]_vars => PollInv'
  BY StepPoll
<1>3. QED
  BY <1>1, <1>2, SleepsForPoll, BootDue, BootSleepsSettled, PTL DEF Spec

-----------------------------------------------------------------------------
(* The answer is not too late. *)

\* How late a button deadline may be: one reading, and the wait for the next.
Latest == SoilTime + BatteryTime + SamplePeriod

\* A due deadline waits no longer than the next sample, and a reading that begins
\* with one finds it handled.
LateInv ==
  /\ calibrationRequested \/ pc \in {"calDry", "calWet"} =>
       button.state = "Idle" /\ overdue = 0 /\ pc # "waiting"
  /\ phase = "wake" =>
       /\ overdue = 0
       /\ HasDeadline(button) => button.waking
       /\ pc = "waiting" => WakingPressPending(button) /\ left = button.left
  /\ pc = "startup" => ~HasDeadline(button) /\ overdue = 0
  /\ phase = "operational" /\ pc \in {"arm", "waiting", "step", "decide"} => overdue + nextSample <= Latest
  /\ pc = "waiting" => left > 0 \/ DeadlineDue(button) \/ overdue = 0
  /\ pc = "step" /\ nextSample = 0 => overdue = 0
  /\ pc = "soil" => overdue + left <= SoilTime
  /\ pc = "battery" => overdue + left <= SoilTime + BatteryTime
  /\ overdue <= Latest

(* Whatever the next sample is, it is not too late by itself.                 *)
LEMMA InTime ==
  \A o : \A n \in 0..SamplePeriod : o = 0 => o + n <= Latest /\ o <= Latest
BY Durations DEF Latest

(* Only a closed click window asks for a calibration.                         *)
LEMMA CalibrateStep ==
  ASSUME TypeInv, DeadlineEvent, ~calibrationRequested, calibrationRequested'
  PROVE  DeadlineDue(button) /\ button'.state = "Idle"
<1>1. button \in ButtonValues
  BY DEF TypeInv, TypeOK
<1>2. /\ button' = OnDeadline(button)
      /\ \/ GestureAtDeadline(button) = "Calibrate"
         \/ OnSampleNow \/ OnFactoryReset \/ OnNothing
  BY Zenon DEF DeadlineEvent, HandleDeadline
<1>3. GestureAtDeadline(button) = "Calibrate"
  BY <1>2 DEF OnSampleNow, OnFactoryReset, OnNothing
<1>4. DeadlineDue(button) /\ button.state = "Window"
  BY <1>3 DEF GestureAtDeadline
<1>5. OnDeadline(button) = WindowClosed(button)
  BY <1>4 DEF OnDeadline
<1>6. QED
  BY <1>1, <1>2, <1>4, <1>5 DEF WindowClosed, Rest, ButtonValues

(* A press that woke the device stays the one, until it is decided.           *)
LEMMA KeepsWaking ==
  ASSUME NEW b \in ButtonValues, HasDeadline(b) => b.waking
  PROVE  /\ HasDeadline(OnDeadline(b)) => OnDeadline(b).waking
         /\ \A e \in Edges : HasDeadline(b) /\ HasDeadline(OnEdge(b, e)) => OnEdge(b, e).waking
<1> USE DEF HasDeadline, TimedStates, Rest
<1>1. HasDeadline(OnDeadline(b)) => OnDeadline(b).waking
  BY DEF OnDeadline, DeadlineDue, BelievePress, HoldElapsed, WindowClosed, ButtonValues
<1>2. ASSUME NEW e \in Edges, HasDeadline(b), HasDeadline(OnEdge(b, e)) PROVE OnEdge(b, e).waking
  <2>1. CASE b.state = "Debounce"
    BY <1>2, <2>1 DEF OnEdge, Glitch, Edges, ButtonValues
  <2>2. CASE b.state = "Held"
    BY <1>2, <2>2 DEF OnEdge, EndPress, Edges, ButtonValues
  <2>3. CASE b.state = "Window"
    BY <1>2, <2>3 DEF OnEdge, NextPress, BeginPress, Edges, ButtonValues
  <2>4. QED
    BY <1>2, <2>1, <2>2, <2>3
<1>3. QED
  BY <1>1, <1>2

(* A step keeps every answer as early as that.                                *)
LEMMA StepLate ==
  ASSUME TypeInv, WakeInv, DueInv, LateInv, [Next]_vars
  PROVE  LateInv'
<1> USE Durations DEF app, task, stack, atPin, past, Awaits, Latest
<1>0. /\ phase \in {"wake", "operational"} /\ nextSample \in 0..SamplePeriod /\ left \in Nat
      /\ overdue \in Nat /\ button \in ButtonValues /\ button \in Machines /\ button.left \in Nat
      /\ rebootCountDue \in Nat /\ idleSince \in Int
  BY DEF TypeInv, TypeOK, Machines, ButtonValues, NotIdle
<1>1. ASSUME UNCHANGED <<pc, phase, left, nextSample, calibrationRequested, button, overdue>>
      PROVE  LateInv'
  BY <1>1 DEF LateInv
<1>2. CASE ArmWake
  <2>1. CASE WakingPressPending(button)
    <3>1. /\ pc' = "waiting" /\ left' = button.left /\ phase = "wake"
          /\ UNCHANGED <<phase, nextSample, calibrationRequested, button, overdue>>
      BY <1>2, <2>1 DEF ArmWake, Wait
    <3>2. WakingPressPending(button') /\ overdue = 0 /\ button'.waking /\ ~calibrationRequested'
      BY <1>2, <2>1, <3>1 DEF LateInv, WakingPressPending, HasDeadline, TimedStates
    <3>3. QED
      BY <3>1, <3>2 DEF LateInv
  <2>2. CASE ~WakingPressPending(button)
    BY <1>0, <1>2, <2>2 DEF ArmWake, GoOn, LateInv
  <2>3. QED
    BY <2>1, <2>2
<1>3. CASE ArmBoot
  <2>1. /\ pc = "arm" /\ phase = "operational" /\ pc' = "waiting" /\ left' = NextDeadline
        /\ UNCHANGED <<phase, nextSample, calibrationRequested, button, overdue>>
    BY <1>3 DEF ArmBoot, Wait
  <2>2. nextSample > 0 /\ ~calibrationRequested
    BY <2>1 DEF DueInv
  <2>3. left' > 0
    BY <1>0, <2>1, <2>2, NextDeadlineEarly
  <2>4. QED
    BY <2>1, <2>2, <2>3 DEF LateInv
<1>4. CASE DeadlineEvent
  <2>1. /\ pc = "waiting" /\ left = 0 /\ button' = OnDeadline(button) /\ UNCHANGED <<phase, left>>
        /\ overdue' = (IF DeadlineDue(button) THEN 0 ELSE overdue) /\ ~calibrationRequested
    BY <1>4, DeadlineStep DEF LateInv
  <2>2. overdue' = 0
    BY <2>1 DEF LateInv
  <2>3. pc' \in {"over", "arm", "step"} /\ (phase = "operational" => pc' # "arm")
    BY <1>4, DeadlineStep DEF OnSampleNow, OnCalibrate, OnFactoryReset, OnNothing, Resume
  <2>4. nextSample' \in 0..SamplePeriod
    <3>1. CASE OnSampleNow
      BY <1>0, <3>1 DEF OnSampleNow
    <3>2. CASE OnCalibrate
      BY <1>0, <3>2 DEF OnCalibrate
    <3>3. CASE OnFactoryReset
      BY <1>0, <3>3 DEF OnFactoryReset
    <3>4. CASE OnNothing
      BY <1>0, <3>4 DEF OnNothing
    <3>5. QED
      BY <1>4, <3>1, <3>2, <3>3, <3>4, DeadlineStep
  <2>5. calibrationRequested' => button'.state = "Idle"
    BY <1>4, <2>1, CalibrateStep
  <2>6. phase = "wake" => (HasDeadline(button') => button'.waking)
    BY <1>0, <2>1, KeepsWaking DEF LateInv
  <2>7. pc' \notin {"calDry", "calWet", "waiting", "startup", "soil", "battery"}
    BY <2>3
  <2>8. overdue' + nextSample' <= Latest /\ overdue' <= Latest
    BY <2>2, <2>4, InTime, Zenon
  <2>9. phase' = "wake" =>
          /\ overdue' = 0
          /\ HasDeadline(button') => button'.waking
          /\ pc' = "waiting" => WakingPressPending(button') /\ left' = button'.left
    <3>1. phase' = phase /\ pc' # "waiting"
      BY <2>1, <2>7
    <3>2. QED
      BY <2>2, <2>6, <3>1, Zenon
  <2>10. calibrationRequested' \/ pc' \in {"calDry", "calWet"} =>
           button'.state = "Idle" /\ overdue' = 0 /\ pc' # "waiting"
    BY <2>2, <2>5, <2>7
  <2>11. QED
    BY <2>2, <2>7, <2>8, <2>9, <2>10, Zenon DEF LateInv
<1>5. CASE ButtonEvent
  <2>1. /\ pc = "waiting" /\ left > 0 /\ edges # <<>> /\ button' = OnEdge(button, Head(edges))
        /\ UNCHANGED <<phase, left, nextSample, calibrationRequested>>
        /\ overdue' = (IF DeadlineDue(button) /\ DeadlineDue(button') THEN overdue ELSE 0)
        /\ ~calibrationRequested
    BY <1>5, ButtonStep DEF LateInv, OnNothing
  <2>2. overdue' \in Nat /\ overdue' <= overdue
    BY <1>0, <2>1
  <2>3. (phase = "wake" => pc' = "arm") /\ (phase = "operational" => pc' = "step")
    BY <1>5, ButtonStep DEF OnNothing, Resume
  <2>4. Head(edges) \in Edges
    BY <2>1, HeadTailProperties DEF TypeInv, TypeOK
  <2>5. phase = "wake" => (HasDeadline(button') => button'.waking)
    BY <1>0, <2>1, <2>4, KeepsWaking DEF LateInv, WakingPressPending
  <2>6. phase = "operational" => nextSample > 0
    BY <1>0, <2>1 DEF DueInv
  <2>7. QED
    BY <1>0, <2>1, <2>2, <2>3, <2>5, <2>6 DEF LateInv
<1>6. CASE IcdEvent
  <2>1. /\ pc = "waiting" /\ left > 0 /\ (phase = "wake" => pc' = "arm")
        /\ (phase = "operational" => pc' = "step")
        /\ UNCHANGED <<phase, left, nextSample, calibrationRequested, button, overdue>>
    BY <1>6 DEF IcdEvent, HandleIcd, Resume
  <2>2. phase = "operational" => nextSample > 0
    BY <1>0, <2>1 DEF DueInv
  <2>3. QED
    BY <1>0, <2>1, <2>2 DEF LateInv
<1>7. CASE StartCalibration
  BY <1>0, <1>7 DEF StartCalibration, Begin, LateInv
<1>8. CASE CaptureWet
  BY <1>0, <1>8 DEF CaptureWet, Begin, LateInv
<1>9. CASE EndCalibration
  BY <1>0, <1>9 DEF EndCalibration, GoOn, LateInv
<1>10. CASE StartReading
  BY <1>0, <1>10 DEF StartReading, SampleDue, Begin, LateInv
<1>11. CASE ReadBattery
  BY <1>0, <1>11 DEF ReadBattery, Begin, LateInv
<1>12. CASE EndReading
  <2>1. /\ pc = "battery" /\ left = 0 /\ pc' = "step" /\ nextSample' = SamplePeriod
        /\ UNCHANGED <<phase, left, calibrationRequested, button, overdue>>
    BY <1>12 DEF EndReading
  <2>2. ~calibrationRequested
    BY <2>1 DEF DueInv
  <2>3. QED
    BY <1>0, <2>1, <2>2 DEF LateInv
<1>13. CASE NothingDue
  <2>1. /\ pc = "step" /\ ~calibrationRequested
        /\ UNCHANGED <<nextSample, calibrationRequested, button, overdue>>
    BY <1>13 DEF NothingDue
  <2>2. CASE phase = "wake"
    <3>1. ~WakingPressPending(button)
      BY <2>1, <2>2 DEF WakeInv, WakePhase
    <3>2. ~HasDeadline(button) /\ overdue = 0
      BY <2>2, <3>1 DEF LateInv, WakingPressPending
    <3>3. pc' = "startup" /\ phase' = "operational"
      BY <1>13, <2>2 DEF NothingDue, Begin
    <3>4. QED
      BY <2>1, <3>2, <3>3 DEF LateInv, HasDeadline
  <2>3. CASE phase = "operational"
    BY <1>0, <1>13, <2>1, <2>3 DEF NothingDue, LateInv
  <2>4. QED
    BY <1>0, <2>2, <2>3
<1>14. CASE EndStartup
  <2>1. /\ pc = "startup" /\ pc' = "step" /\ UNCHANGED <<phase, nextSample, calibrationRequested, button, overdue>>
    BY <1>14 DEF EndStartup, GoOn
  <2>2. overdue = 0 /\ phase = "operational" /\ ~calibrationRequested
    BY <2>1 DEF LateInv, DueInv
  <2>3. QED
    BY <1>0, <2>1, <2>2 DEF LateInv
<1>15. CASE PersistRebootCount
  <2>1. /\ pc = "decide" /\ pc' = "arm" /\ UNCHANGED <<phase, nextSample, calibrationRequested, button, overdue>>
    BY <1>15 DEF PersistRebootCount
  <2>2. QED
    BY <1>0, <2>1 DEF LateInv, DueInv
<1>16. CASE Decide
  <2>1. /\ pc = "decide" /\ pc' \in {"arm", "tail"} /\ UNCHANGED <<phase, nextSample, calibrationRequested, overdue>>
    BY <1>16, DecideStep DEF StayUp, DrainAndStayUp, GoDown
  <2>2. phase = "operational" /\ ~calibrationRequested
    BY <2>1 DEF DueInv
  <2>3. QED
    BY <1>0, <2>1, <2>2 DEF LateInv
<1>17. CASE SendFalling \/ SendRising
  BY <1>1, <1>17 DEF SendFalling, SendRising
<1>18. CASE Message \/ Register \/ GoIdle \/ Poll
  BY <1>1, <1>18 DEF Message, Register, GoIdle, Poll
<1>19. CASE Tick
  <2>1. Awaiting /\ left > 0
    BY <1>19, Zenon DEF Tick, Quiet
  <2>2. /\ left' = left - 1 /\ nextSample' = Less(nextSample, 1) /\ button' = Elapse(button, 1)
        /\ overdue' = (IF DeadlineDue(button) THEN overdue + 1 ELSE 0)
        /\ UNCHANGED <<pc, phase, calibrationRequested>>
    BY <1>19 DEF Tick
  <2>3. /\ button'.state = button.state /\ button'.waking = button.waking
        /\ button'.left = Less(button.left, 1)
    BY <1>0, <2>2 DEF Elapse, Less, ButtonValues
  <2>4. /\ HasDeadline(button') = HasDeadline(button)
        /\ WakingPressPending(button') = WakingPressPending(button)
        /\ DeadlineDue(button) => DeadlineDue(button')
    BY <1>0, <2>3 DEF HasDeadline, WakingPressPending, DeadlineDue, Less
  <2>5. CASE DeadlineDue(button)
    <3>1. overdue' = overdue + 1 /\ HasDeadline(button) /\ button.left = 0 /\ button.state # "Idle"
      BY <2>2, <2>5 DEF DeadlineDue, HasDeadline, TimedStates
    <3>2. phase = "operational" /\ pc \in {"waiting", "soil", "battery"}
      <4>1. pc \in {"waiting", "soil", "battery"}
        BY <2>1, <3>1 DEF Awaiting, LateInv
      <4>2. phase # "wake"
        BY <2>1, <3>1, <4>1 DEF LateInv, WakeInv, WakePhase, WakingPressPending
      <4>3. QED
        BY <1>0, <4>1, <4>2
    <3>3. ~calibrationRequested
      BY <3>1 DEF LateInv
    <3>4. pc = "waiting" => nextSample > 0
      BY <1>0, <2>1, <3>2 DEF DueInv
    <3>5. nextSample' = IF nextSample > 1 THEN nextSample - 1 ELSE 0
      BY <2>2 DEF Less
    <3>6. QED
      BY <1>0, <2>1, <2>2, <2>4, <2>5, <3>1, <3>2, <3>3, <3>4, <3>5 DEF LateInv
  <2>6. CASE ~DeadlineDue(button)
    <3>1. overdue' = 0
      BY <2>2, <2>6
    <3>2. nextSample' \in 0..SamplePeriod
      BY <1>0, <2>2 DEF Less
    <3>3. button.left > 0 => button'.left = button.left - 1
      BY <1>0, <2>3 DEF Less
    <3>4. phase = "wake" /\ pc = "waiting" => left' = button'.left
      BY <1>0, <2>1, <2>2, <3>3 DEF LateInv
    <3>5. left <= SoilTime + BatteryTime \/ pc \notin {"soil", "battery"}
      BY <1>0 DEF DueInv
    <3>6. (pc = "soil" => left <= SoilTime) /\ left' \in Nat
      BY <1>0, <2>1, <2>2 DEF DueInv
    <3>7. QED
      BY <1>0, <2>1, <2>2, <2>3, <2>4, <3>1, <3>2, <3>4, <3>5, <3>6 DEF LateInv
  <2>7. QED
    BY <2>5, <2>6
<1>20. CASE UNCHANGED vars
  BY <1>1, <1>20 DEF vars
<1>21. CASE Person
  BY <1>1, <1>21, PersonStep
<1>22. CASE PowerDown
  <2>1. /\ pc = "tail" /\ pc' = "over" /\ UNCHANGED <<phase, nextSample, calibrationRequested, button, overdue>>
    BY <1>22, PowerDownStep
  <2>2. ~calibrationRequested /\ phase = "operational"
    BY <2>1 DEF DueInv
  <2>3. QED
    BY <1>0, <2>1, <2>2 DEF LateInv
<1>23. QED
  BY <1>2, <1>3, <1>4, <1>5, <1>6, <1>7, <1>8, <1>9, <1>10, <1>11, <1>12, <1>13, <1>14, <1>15, <1>16,
     <1>17, <1>18, <1>19, <1>20, <1>21, <1>22, Steps, Zenon

(* A gesture that is due while the loop is busy is answered after one reading *)
(* and one sample period at the latest (next_deadline;                        *)
(* BootLoop.AnswerNotTooLate).                                                *)
THEOREM BootAnswersInTime == Spec => []AnswerNotTooLate
<1>1. Init => LateInv
  <2> SUFFICES ASSUME Init PROVE LateInv
    OBVIOUS
  <2>1. /\ pc = "arm" /\ phase = "wake" /\ overdue = 0 /\ ~calibrationRequested
        /\ button = NewButton(wake = "Button")
    BY Zenon DEF Init
  <2>2. HasDeadline(button) => button.waking
    BY <2>1 DEF NewButton, HasDeadline, TimedStates
  <2>3. QED
    BY <2>1, <2>2, Durations DEF LateInv, Latest
<1>2. TypeInv /\ WakeInv /\ DueInv /\ LateInv /\ [Next]_vars => LateInv'
  BY StepLate
<1>3. LateInv => AnswerNotTooLate
  BY DEF LateInv, Latest, AnswerNotTooLate
<1>4. QED
  BY <1>1, <1>2, <1>3, BootDue, PTL DEF Spec

-----------------------------------------------------------------------------
(* The boot loop over either set of ports. *)

Scripted == [at: Nat, edge: Edges]

OnSimPorts == ports = "SimPorts"

\* The types of the simulated world.
WorldTypes ==
  /\ ports \in {"EspPorts", "SimPorts"}
  /\ script \in Seq(Scripted)
  /\ litIn \in Nat
  /\ told \in [active: BOOLEAN, lit: BOOLEAN]
  /\ event \in {"none", "Icd", "Button", "Deadline"}

\* The edges to come, those that are due and then those of the script.
QueueLen == Len(edges) + Len(script)
Queue(k) == IF k <= Len(edges) THEN edges[k] ELSE script[k - Len(edges)].edge

(* A set of numbers' least one is one of them.                                *)
LEMMA MinOfNumbers ==
  ASSUME NEW S \in SUBSET Nat, S # {}
  PROVE  Min(S) \in S /\ \A y \in S : Min(S) <= y
BY LeastNumber DEF Min

(* No more edges are due than there are, and the first one is if it should be. *)
LEMMA DueEdges ==
  ASSUME WorldTypes, NEW d \in Nat
  PROVE  /\ Due(d) \in 0..Len(script)
         /\ script # <<>> /\ script[1].at <= d => Due(d) > 0
<1> DEFINE S == {Len(script)} \cup {i \in 0..(Len(script) - 1) : script[i + 1].at > d}
<1>1. Len(script) \in Nat
  BY LenProperties DEF WorldTypes
<1>2. S \in SUBSET Nat /\ S # {} /\ \A y \in S : y <= Len(script)
  BY <1>1
<1>3. Due(d) = Min(S)
  BY DEF Due
<1> HIDE DEF S
<1>4. Min(S) \in S
  BY <1>2, MinOfNumbers
<1>5. Min(S) \in Nat /\ Min(S) <= Len(script)
  BY <1>2, <1>4
<1>6. ASSUME script # <<>>, script[1].at <= d PROVE Due(d) > 0
  <2>1. Len(script) > 0 /\ script[1] \in Scripted
    BY <1>6, EmptySeq, ElementOfSeq DEF WorldTypes
  <2>2. 0 \notin S
    BY <1>1, <1>6, <2>1 DEF S, Scripted
  <2>3. QED
    BY <1>3, <1>4, <1>5, <2>2
<1>7. QED
  BY <1>1, <1>3, <1>5, <1>6

(* A script's presses alternate with its releases.                            *)
LEMMA PressedAlternates ==
  ASSUME NEW s \in Scripts
  PROVE  /\ Pressed(s) \in Seq(Scripted)
         /\ \A k \in 1..Len(Pressed(s)) : Pressed(s)[k].edge = IF k % 2 = 1 THEN "Falling" ELSE "Rising"
<1>1. s \in Seq([at: Nat, held: Nat])
  BY ScenarioTypes
<1>2. Len(s) \in Nat /\ \A j \in 1..Len(s) : s[j] \in [at: Nat, held: Nat]
  BY <1>1, LenProperties, ElementOfSeq
<1> DEFINE e(k) == IF k % 2 = 1 THEN [at |-> s[(k + 1) \div 2].at, edge |-> "Falling"]
                   ELSE [at |-> s[(k + 1) \div 2].at + s[(k + 1) \div 2].held, edge |-> "Rising"]
<1>3. ASSUME NEW k \in 1..(2 * Len(s)) PROVE e(k) \in Scripted
  <2>1. (k + 1) \div 2 \in 1..Len(s)
    BY <1>2
  <2>2. s[(k + 1) \div 2] \in [at: Nat, held: Nat]
    BY <1>2, <2>1
  <2>3. QED
    BY <2>2 DEF Scripted, Edges
<1>4. Pressed(s) = [k \in 1..(2 * Len(s)) |-> e(k)]
  BY DEF Pressed
<1>5. 2 * Len(s) \in Nat
  BY <1>2
<1>6. Pressed(s) \in Seq(Scripted) /\ Len(Pressed(s)) = 2 * Len(s)
  <2> HIDE DEF e
  <2>1. QED
    BY <1>3, <1>4, <1>5
<1>7. QED
  BY <1>4, <1>5, <1>6

(* The clock moves on: the queue of edges stays what it is.                   *)
LEMMA Unscrolled ==
  ASSUME WorldTypes, edges \in Seq(Edges), NEW d \in Nat, Unscroll(d)
  PROVE  /\ edges' \in Seq(Edges) /\ script' \in Seq(Scripted) /\ litIn' \in Nat
         /\ lit' <=> litIn' = 0
         /\ litIn = 0 => litIn' = 0
         /\ sent' \in {sent, "up", "down"} /\ pin' = sent' /\ latched' = FALSE
         /\ QueueLen' = QueueLen /\ \A k \in 1..QueueLen : Queue(k)' = Queue(k)
         /\ Len(edges') = Len(edges) + Due(d)
<1> DEFINE due == Due(d)
           more == [i \in 1..due |-> script[i].edge]
           rest == [i \in 1..(Len(script) - due) |-> [script[due + i] EXCEPT !.at = Less(@, d)]]
<1>1. due \in 0..Len(script)
  BY DueEdges
<1>2. /\ Len(edges) \in Nat /\ Len(script) \in Nat
      /\ \A i \in 1..Len(edges) : edges[i] \in Edges
      /\ \A i \in 1..Len(script) : script[i] \in Scripted
  BY LenProperties, ElementOfSeq DEF WorldTypes
<1>3. /\ edges' = edges \o more /\ script' = rest
      /\ litIn' = Less(litIn, d) /\ lit' = (litIn' = 0)
      /\ sent' = IF edges' = <<>> THEN sent
                 ELSE IF edges'[Len(edges')] = "Falling" THEN "down" ELSE "up"
      /\ pin' = sent' /\ latched' = FALSE
  BY Zenon DEF Unscroll
<1> HIDE DEF due
<1>4. more \in Seq(Edges) /\ Len(more) = due /\ \A i \in 1..due : more[i] = script[i].edge
  <2>1. \A i \in 1..due : script[i].edge \in Edges
    BY <1>1, <1>2 DEF Scripted
  <2>2. QED
    BY <1>1, <2>1
<1>5. /\ rest \in Seq(Scripted) /\ Len(rest) = Len(script) - due
      /\ \A i \in 1..(Len(script) - due) : rest[i].edge = script[due + i].edge
  <2>1. ASSUME NEW i \in 1..(Len(script) - due)
        PROVE  /\ [script[due + i] EXCEPT !.at = Less(@, d)] \in Scripted
               /\ [script[due + i] EXCEPT !.at = Less(@, d)].edge = script[due + i].edge
    <3>1. script[due + i] \in Scripted
      BY <1>1, <1>2
    <3>2. QED
      BY <3>1 DEF Scripted, Less
  <2>2. Len(script) - due \in Nat
    BY <1>1, <1>2
  <2> DEFINE e(i) == [script[due + i] EXCEPT !.at = Less(@, d)]
  <2>3. rest = [i \in 1..(Len(script) - due) |-> e(i)]
    OBVIOUS
  <2>4. \A i \in 1..(Len(script) - due) : e(i) \in Scripted /\ e(i).edge = script[due + i].edge
    BY <2>1
  <2> HIDE DEF e, rest
  <2>5. QED
    BY <2>2, <2>3, <2>4
<1> HIDE DEF more, rest
<1>6. /\ edges' \in Seq(Edges) /\ Len(edges') = Len(edges) + due
      /\ \A i \in 1..(Len(edges) + due) : edges'[i] = IF i <= Len(edges) THEN edges[i] ELSE more[i - Len(edges)]
  BY <1>3, <1>4, ConcatProperties
<1>7. QueueLen' = QueueLen
  BY <1>1, <1>2, <1>3, <1>5, <1>6 DEF QueueLen
<1>8. ASSUME NEW k \in 1..QueueLen PROVE Queue(k)' = Queue(k)
  <2>1. k \in 1..(Len(edges) + Len(script))
    BY DEF QueueLen
  <2>2. CASE k <= Len(edges)
    BY <1>1, <1>2, <1>6, <2>1, <2>2 DEF Queue
  <2>3. CASE k > Len(edges) /\ k <= Len(edges) + due
    <3>1. k - Len(edges) \in 1..due
      BY <1>1, <1>2, <2>1, <2>3
    <3>2. edges'[k] = more[k - Len(edges)]
      BY <1>1, <1>2, <1>6, <2>1, <2>3
    <3>3. edges'[k] = script[k - Len(edges)].edge
      BY <1>4, <3>1, <3>2
    <3>4. QED
      BY <1>1, <1>2, <1>6, <2>1, <2>3, <3>3 DEF Queue
  <2>4. CASE k > Len(edges) + due
    <3>1. k - (Len(edges) + due) \in 1..(Len(script) - due)
          /\ due + (k - (Len(edges) + due)) = k - Len(edges)
      BY <1>1, <1>2, <2>1, <2>4
    <3>2. script'[k - (Len(edges) + due)].edge = script[k - Len(edges)].edge
      BY <1>3, <1>5, <3>1
    <3>3. QED
      BY <1>1, <1>2, <1>6, <2>1, <2>4, <3>2 DEF Queue
  <2>5. QED
    BY <1>1, <1>2, <2>1, <2>2, <2>3, <2>4
<1>9. litIn' \in Nat /\ (lit' <=> litIn' = 0) /\ (litIn = 0 => litIn' = 0)
  <2>1. lit' <=> litIn' = 0
    BY <1>3, Zenon
  <2>2. litIn \in Nat /\ litIn' = Less(litIn, d)
    BY <1>3 DEF WorldTypes
  <2>3. QED
    BY <2>1, <2>2 DEF Less
<1>10. sent' \in {sent, "up", "down"} /\ pin' = sent' /\ latched' = FALSE
  BY <1>3, Zenon
<1>11. Len(edges') = Len(edges) + Due(d)
  BY <1>6 DEF due
<1>12. QED
  BY <1>1, <1>2, <1>3, <1>5, <1>6, <1>7, <1>8, <1>9, <1>10, <1>11

(* A step is one of the firmware's, one of the simulator's, or none.          *)
LEMMA EitherSteps ==
  ASSUME [EitherNext]_allVars
  PROVE  \/ ~OnSimPorts /\ [Next]_vars /\ UNCHANGED <<ports, world>>
         \/ OnSimPorts /\ UNCHANGED ports
            /\ (SimTask \/ Pass \/ NextPending \/ NextScripted \/ Deliver \/ EndWake \/ RunBoot)
         \/ UNCHANGED allVars
<1>1. CASE OnEsp(Next)
  <2>1. ports = "EspPorts" /\ Next /\ UNCHANGED <<ports, world>>
    BY <1>1, Zenon DEF OnEsp
  <2>2. ~OnSimPorts
    BY <2>1 DEF OnSimPorts
  <2>3. QED
    BY <2>1, <2>2, Zenon
<1>2. CASE OnSim(SimNext)
  BY <1>2, Zenon DEF OnSim, SimNext, OnSimPorts
<1>3. CASE Over /\ UNCHANGED <<ports, world>>
  BY <1>3, Zenon DEF Over, allVars
<1>4. CASE UNCHANGED allVars
  BY <1>4, Zenon
<1>5. QED
  BY <1>1, <1>2, <1>3, <1>4, Zenon DEF EitherNext

(* What the loop does between two calls of its ports is one of its own steps. *)
LEMMA SimTaskStep ==
  ASSUME SimTask
  PROVE  [Next]_vars /\ UNCHANGED world /\ pc # "waiting" /\ pc' # "startup"
<1> DEFINE steps == \/ ArmWake \/ ArmBoot
                    \/ StartCalibration \/ CaptureWet \/ EndCalibration
                    \/ StartReading \/ ReadBattery \/ EndReading
                    \/ phase = "operational" /\ NothingDue
                    \/ PersistRebootCount \/ Decide \/ PowerDown
<1>1. steps /\ UNCHANGED world
  BY Zenon DEF SimTask
<1>2. [Next]_vars
  BY <1>1, Zenon DEF Next, Task
<1>3. ArmWake \/ ArmBoot => pc # "waiting" /\ pc' # "startup"
  BY DEF ArmWake, ArmBoot, Wait, GoOn
<1>4. StartCalibration \/ CaptureWet \/ EndCalibration => pc # "waiting" /\ pc' # "startup"
  BY DEF StartCalibration, CaptureWet, EndCalibration, Begin, GoOn
<1>5. StartReading \/ ReadBattery \/ EndReading => pc # "waiting" /\ pc' # "startup"
  BY DEF StartReading, SampleDue, ReadBattery, EndReading, Begin
<1>6. phase = "operational" /\ NothingDue => pc # "waiting" /\ pc' # "startup"
  BY DEF NothingDue
<1>7. PersistRebootCount \/ Decide => pc # "waiting" /\ pc' # "startup"
  BY DecideStep DEF PersistRebootCount, StayUp, DrainAndStayUp, GoDown
<1>8. PowerDown => pc # "waiting" /\ pc' # "startup"
  BY PowerDownStep
<1>9. QED
  BY <1>1, <1>2, <1>3, <1>4, <1>5, <1>6, <1>7, <1>8, Zenon

(* A delivery is one of the three handlers; the deadline's is a step of the   *)
(* loop's own, once it is due.                                                *)
LEMMA DeliverStep ==
  ASSUME Deliver
  PROVE  /\ pc = "waiting" /\ event' = "none" /\ UNCHANGED <<script, litIn, boots>>
         /\ \/ /\ event = "Deadline" /\ HandleDeadline
               /\ told' = IF GestureAtDeadline(button) \in {"SampleNow", "Calibrate"} THEN View' ELSE told
            \/ event = "Button" /\ HandleEdge /\ UNCHANGED told
            \/ event = "Icd" /\ HandleIcd /\ UNCHANGED told
BY Zenon DEF Deliver

(* The handler of a deadline, once it is due, is the firmware's.              *)
LEMMA DueDelivery ==
  ASSUME pc = "waiting", left = 0, HandleDeadline
  PROVE  DeadlineEvent /\ [Next]_vars
BY Zenon DEF DeadlineEvent, Next, Task

(* The stack's window: it only ends.                                          *)
LEMMA Aged ==
  ASSUME TypeInv, NEW d \in Nat, AgeStack(d)
  PROVE  /\ power' \in {"Active", "Idle"} /\ holdLeft' \in Nat /\ idleLeft' \in Nat
         /\ trueIdle' \in 0..IdlePeriod
         /\ phase = "wake" \/ power = "Idle" => UNCHANGED power
<1>1. /\ power \in {"Active", "Idle"} /\ holdLeft \in Nat /\ idleLeft \in Nat /\ trueIdle \in 0..IdlePeriod
  BY DEF TypeInv, TypeOK
<1>2. CASE phase = "wake"
  <2>1. UNCHANGED <<power, holdLeft, idleLeft, trueIdle>>
    BY <1>2, Zenon DEF AgeStack
  <2>2. QED
    BY <1>1, <2>1
<1>3. CASE phase # "wake"
  <2> DEFINE over == Less(d, holdLeft)
             idle == power = "Idle" \/ holdLeft <= d
             soFar == IF power = "Idle" THEN trueIdle + d ELSE over
  <2>1. /\ holdLeft' = Less(holdLeft, d)
        /\ power' = IF idle THEN "Idle" ELSE "Active"
        /\ idleLeft' = IF idle THEN Less(IdlePeriod, soFar) ELSE idleLeft
        /\ trueIdle' = IF idle THEN Min({soFar, IdlePeriod}) ELSE 0
    BY <1>3, Zenon DEF AgeStack
  <2>2. soFar \in Nat
    BY <1>1, Durations DEF Less
  <2> HIDE DEF soFar
  <2>3. Min({soFar, IdlePeriod}) \in 0..IdlePeriod
    BY <2>2, OfTwo, Durations
  <2>4. holdLeft' \in Nat /\ idleLeft' \in Nat
    BY <1>1, <2>1, <2>2, Durations DEF Less
  <2>5. trueIdle' \in 0..IdlePeriod
    BY <2>1, <2>3, Durations
  <2>6. power' \in {"Active", "Idle"} /\ (power = "Idle" => power' = power)
    BY <2>1, Zenon
  <2>7. QED
    BY <1>3, <2>4, <2>5, <2>6
<1>4. QED
  BY <1>2, <1>3

(* What moving the clock by no more than the wait comes to.                   *)
LEMMA Advanced ==
  ASSUME TypeInv, WorldTypes, NEW d \in Nat, d <= left, Advance(d)
  PROVE  /\ Unscroll(d) /\ AgeStack(d)
         /\ button' = Elapse(button, d) /\ button' \in Machines
         /\ button'.state = button.state /\ button'.waking = button.waking
         /\ button'.left = IF button.left > d THEN button.left - d ELSE 0
         /\ nextSample' = Less(nextSample, d) /\ rebootCountDue' = Less(rebootCountDue, d)
         /\ idleSince' \in NotIdle..Settle /\ (idleSince' = NotIdle <=> idleSince = NotIdle)
         /\ left' = left - d /\ left' \in Nat
         /\ UNCHANGED <<sampleWithLed, calibrationRequested, rebootCountPersisted, pc, phase, outcome, dirtyLeft,
                        messages, presses, pressFor, wake, sinceFed, overdue, owed, wakeReadings, rebootWrites>>
<1>1. button \in Machines /\ left \in Nat /\ idleSince \in NotIdle..Settle
  BY DEF TypeInv, TypeOK
<1>2. /\ Unscroll(d) /\ AgeStack(d) /\ button' = Elapse(button, d)
      /\ nextSample' = Less(nextSample, d) /\ rebootCountDue' = Less(rebootCountDue, d)
      /\ idleSince' = (IF idleSince = NotIdle THEN NotIdle ELSE Min({idleSince + d, Settle}))
      /\ left' = left - d
      /\ UNCHANGED <<sampleWithLed, calibrationRequested, rebootCountPersisted, pc, phase, outcome, dirtyLeft,
                     messages, presses, pressFor, wake, sinceFed, overdue, owed, wakeReadings, rebootWrites>>
  BY Zenon DEF Advance
<1>3. idleSince' \in NotIdle..Settle /\ (idleSince' = NotIdle <=> idleSince = NotIdle)
  <2>1. CASE idleSince = NotIdle
    BY <1>2, <2>1, Durations DEF NotIdle
  <2>2. CASE idleSince # NotIdle
    <3>1. idleSince + d \in Nat
      BY <1>1, <2>2, Durations DEF NotIdle
    <3>2. Min({idleSince + d, Settle}) \in 0..Settle
      BY <3>1, OfTwo, Durations
    <3>3. QED
      BY <1>2, <2>2, <3>2, Durations DEF NotIdle
  <2>3. QED
    BY <2>1, <2>2
<1>4. left' \in Nat
  BY <1>1, <1>2
<1>5. QED
  BY <1>1, <1>2, <1>3, <1>4, ElapseMachine

(* The clock keeps the types.                                                 *)
LEMMA AdvanceTypes ==
  ASSUME TypeInv, WorldTypes, NEW d \in Nat, d <= left, Advance(d), icdChanged' \in BOOLEAN
  PROVE  TypeInv'
<1>0. /\ button \in Machines /\ AppTypes /\ TaskTypes /\ EdgeTypes
      /\ StackTypes /\ PinTypes /\ PastTypes
  BY TypeParts, Zenon DEF TypeInv
<1>1. /\ Unscroll(d) /\ AgeStack(d) /\ button' \in Machines
      /\ nextSample' = Less(nextSample, d) /\ rebootCountDue' = Less(rebootCountDue, d)
      /\ idleSince' \in NotIdle..Settle /\ left' \in Nat
      /\ UNCHANGED <<sampleWithLed, calibrationRequested, rebootCountPersisted, pc, phase, outcome, dirtyLeft,
                     messages, presses, pressFor, wake, sinceFed, overdue, owed, wakeReadings, rebootWrites>>
  BY Advanced
<1>2. /\ power' \in {"Active", "Idle"} /\ holdLeft' \in Nat /\ idleLeft' \in Nat
      /\ trueIdle' \in 0..IdlePeriod
  BY <1>1, Aged
<1>3. edges' \in Seq(Edges) /\ sent' \in {sent, "up", "down"} /\ pin' = sent' /\ latched' = FALSE
  BY <1>0, <1>1, Unscrolled DEF EdgeTypes
<1>4. lit' \in BOOLEAN
  BY <1>1, Zenon DEF Unscroll
<1>5. AppTypes'
  BY <1>0, <1>1, Durations DEF AppTypes, Less, Machines
<1>6. TaskTypes'
  BY <1>0, <1>1 DEF TaskTypes
<1>7. EdgeTypes'
  BY <1>3 DEF EdgeTypes
<1>8. StackTypes'
  BY <1>0, <1>1, <1>2, <1>4 DEF StackTypes
<1>9. PinTypes'
  BY <1>0, <1>1, <1>3 DEF PinTypes
<1>10. PastTypes'
  BY <1>0, <1>1, <1>2 DEF PastTypes
<1>11. QED
  BY <1>1, <1>5, <1>6, <1>7, <1>8, <1>9, <1>10, Zenon
  DEF TypeInv, TypeOK, AppTypes, TaskTypes, EdgeTypes, StackTypes, PinTypes, PastTypes

(* An edge keeps the types, whatever the time.                                *)
LEMMA EdgeKeepsTypes ==
  ASSUME TypeInv, pc = "waiting", edges # <<>>, HandleEdge
  PROVE  TypeInv'
<1> USE DEF app, task, stack, atPin, past
<1>0. /\ button \in Machines /\ AppTypes /\ TaskTypes /\ EdgeTypes
      /\ StackTypes /\ PinTypes /\ PastTypes
  BY TypeParts, Zenon DEF TypeInv
<1>1. /\ button' = OnEdge(button, Head(edges)) /\ edges' = Tail(edges) /\ OnNothing
      /\ overdue' = IF DeadlineDue(button) /\ DeadlineDue(button') THEN overdue ELSE 0
      /\ UNCHANGED <<rebootCountPersisted, rebootCountDue, idleSince, phase, left, atPin,
                     wake, trueIdle, sinceFed, owed, wakeReadings, rebootWrites>>
  BY Zenon DEF HandleEdge
<1>2. Head(edges) \in Edges /\ Tail(edges) \in Seq(Edges)
  BY <1>0, HeadTailProperties DEF EdgeTypes
<1>3. button' \in Machines /\ button' \in ButtonValues
  BY <1>0, <1>1, <1>2, EdgeMachine DEF Machines
<1>4. AppTypes'
  BY <1>0, <1>1, <1>3 DEF OnNothing, AppTypes
<1>5. TaskTypes'
  BY <1>0, <1>1 DEF OnNothing, Resume, TaskTypes, PCs
<1>6. EdgeTypes'
  BY <1>0, <1>1, <1>2 DEF OnNothing, EdgeTypes
<1>7. StackTypes' /\ PinTypes'
  BY <1>0, <1>1, TypesKept DEF OnNothing
<1>8. PastTypes'
  <2>1. overdue' \in Nat
    BY <1>0, <1>1 DEF PastTypes
  <2>2. QED
    BY <1>0, <1>1, <2>1 DEF PastTypes
<1>9. QED
  BY <1>3, <1>4, <1>5, <1>6, <1>7, <1>8, Zenon
  DEF TypeInv, TypeOK, AppTypes, TaskTypes, EdgeTypes, StackTypes, PinTypes, PastTypes

(* So does a change of the stack's.                                           *)
LEMMA IcdKeepsTypes ==
  ASSUME TypeInv, HandleIcd
  PROVE  TypeInv'
<1> USE DEF app, task, stack, atPin, past
<1>0. /\ button \in Machines /\ AppTypes /\ TaskTypes /\ EdgeTypes
      /\ StackTypes /\ PinTypes /\ PastTypes
  BY TypeParts, Zenon DEF TypeInv
<1>1. TaskTypes'
  BY <1>0 DEF HandleIcd, Resume, TaskTypes, PCs
<1>2. AppTypes' /\ StackTypes' /\ PinTypes' /\ PastTypes'
  BY <1>0, TypesKept DEF HandleIcd
<1>3. EdgeTypes' /\ button' \in Machines
  BY <1>0 DEF HandleIcd, EdgeTypes
<1>4. QED
  BY <1>1, <1>2, <1>3, Zenon
  DEF TypeInv, TypeOK, AppTypes, TaskTypes, EdgeTypes, StackTypes, PinTypes, PastTypes

(* The next scripted event comes no later than the deadline, and it is what   *)
(* its instant says.                                                          *)
LEMMA ScriptedStep ==
  ASSUME TypeInv, WorldTypes, NextScripted
  PROVE  /\ pc = "waiting" /\ event = "none" /\ ~icdChanged /\ View = told /\ UNCHANGED <<told, icdChanged>>
         /\ event' \in {"Button", "Icd", "Deadline"}
         /\ \E d \in Nat : /\ d <= left /\ Advance(d)
                           /\ edges # <<>> => d = 0
                           /\ event' = "Button" => edges' # <<>>
                           /\ event' = "Icd" => d \in IcdAt
                           /\ event' = "Deadline" => d = left
<1> DEFINE S == {left} \cup ButtonAt \cup IcdAt
           next == Min(S)
<1>0. /\ left \in Nat /\ holdLeft \in Nat /\ edges \in Seq(Edges) /\ litIn \in Nat /\ script \in Seq(Scripted)
  BY DEF TypeInv, TypeOK, WorldTypes
<1>1. /\ pc = "waiting" /\ event = "none" /\ ~icdChanged /\ View = told /\ UNCHANGED <<told, icdChanged>>
      /\ Advance(next)
      /\ event' = CASE next \in ButtonAt -> "Button"
                    [] next \in IcdAt \ ButtonAt -> "Icd"
                    [] OTHER -> "Deadline"
  BY Zenon DEF NextScripted
<1>2. ButtonAt \in SUBSET Nat /\ (edges # <<>> => ButtonAt = {0})
      /\ (edges = <<>> /\ script # <<>> => ButtonAt = {script[1].at})
      /\ (edges = <<>> /\ script = <<>> => ButtonAt = {})
  <2>1. ASSUME script # <<>> PROVE script[1].at \in Nat
    <3>1. Len(script) \in Nat \ {0}
      BY <1>0, <2>1, EmptySeq
    <3>2. script[1] \in Scripted
      BY <1>0, <3>1, ElementOfSeq
    <3>3. QED
      BY <3>2 DEF Scripted
  <2>2. edges # <<>> => ButtonAt = {0}
    BY Zenon DEF ButtonAt
  <2>3. edges = <<>> /\ script # <<>> => ButtonAt = {script[1].at}
    BY Zenon DEF ButtonAt
  <2>4. edges = <<>> /\ script = <<>> => ButtonAt = {}
    BY Zenon DEF ButtonAt
  <2>5. QED
    BY <2>1, <2>2, <2>3, <2>4
<1>3. IcdAt \in SUBSET Nat
  BY <1>0 DEF IcdAt
<1>4. S \in SUBSET Nat /\ S # {} /\ left \in S /\ (edges # <<>> => 0 \in S)
  BY <1>0, <1>2, <1>3
<1>5. \A y \in S : y \in {left} \cup ButtonAt \cup IcdAt
  OBVIOUS
<1> HIDE DEF S
<1>6. next \in S /\ \A y \in S : next <= y
  BY <1>4, MinOfNumbers
<1> HIDE DEF next
<1>7. next \in Nat /\ next <= left /\ (edges # <<>> => next = 0)
  <2>1. next \in Nat
    BY <1>4, <1>6
  <2>2. next <= left
    BY <1>4, <1>6
  <2>3. edges # <<>> => next <= 0
    BY <1>4, <1>6
  <2>4. QED
    BY <2>1, <2>2, <2>3
<1>8. /\ next \in ButtonAt => event' = "Button"
      /\ next \notin ButtonAt /\ next \in IcdAt => event' = "Icd"
      /\ next \notin ButtonAt /\ next \notin IcdAt => event' = "Deadline"
  BY <1>1
<1>9. event' \in {"Button", "Icd", "Deadline"}
  BY <1>8, Zenon
<1>10. event' = "Icd" => next \in IcdAt
  BY <1>8
<1>11. event' = "Deadline" => next = left
  BY <1>5, <1>6, <1>8
<1>12. ASSUME event' = "Button" PROVE edges' # <<>>
  <2>1. next \in ButtonAt
    BY <1>8, <1>12
  <2>2. Len(edges) \in Nat /\ (edges # <<>> => Len(edges) > 0) /\ Due(next) \in Nat
    BY <1>0, <1>7, LenProperties, EmptySeq, DueEdges
  <2>3. edges = <<>> => Due(next) > 0
    BY <1>2, <1>7, <2>1, DueEdges
  <2>4. edges' \in Seq(Edges) /\ Len(edges') = Len(edges) + Due(next)
    BY <1>0, <1>1, <1>7, Unscrolled DEF Advance
  <2>5. Len(edges') > 0
    BY <2>2, <2>3, <2>4
  <2>6. QED
    BY <2>5, EmptySeq
<1>13. QED
  BY <1>1, <1>7, <1>9, <1>10, <1>11, <1>12

(* The sleep's length is one.                                                 *)
LEMMA SleepLength == TypeInv => SleepFor \in Nat
<1> SUFFICES ASSUME TypeInv PROVE SleepFor \in Nat
  OBVIOUS
<1>1. idleLeft \in Nat
  BY DEF TypeInv, TypeOK
<1>2. Min({IdlePeriod, idleLeft}) \in Nat
  BY <1>1, OfTwo, Durations
<1>3. QED
  BY <1>2, OfTwo, Durations DEF SleepFor

(* What the next boot begins with.                                            *)
LEMMA RunBootStep ==
  ASSUME TypeInv, WorldTypes, RunBoot
  PROVE  /\ pc = "over" /\ outcome = "Sleep" /\ SleepFor \in Nat /\ Unscroll(SleepFor)
         /\ wake' = (IF edges' # <<>> /\ Head(edges') = "Falling" THEN "Button" ELSE "Timer")
         /\ button' = NewButton(wake' = "Button")
         /\ nextSample' = 0 /\ idleSince' = NotIdle
         /\ rebootCountPersisted' = TRUE /\ rebootCountDue' = HealthyAfter
         /\ pc' = "arm" /\ phase' = "wake" /\ left' = 0 /\ outcome' = "none"
         /\ power' = "Active" /\ idleLeft' = 0 /\ trueIdle' = 0 /\ icdChanged' = FALSE
         /\ told' = View'
         /\ sampleWithLed' = FALSE /\ calibrationRequested' = FALSE
         /\ wakeReadings' = 0 /\ rebootWrites' = 0
         /\ UNCHANGED <<holdLeft, dirtyLeft, messages, presses, pressFor, sinceFed, overdue, owed, event>>
BY SleepLength, Zenon DEF RunBoot

(* It begins with the types in order.                                         *)
LEMMA RunBootTypes ==
  ASSUME TypeInv, WorldTypes, RunBoot
  PROVE  TypeInv'
<1>0. /\ AppTypes /\ TaskTypes /\ EdgeTypes /\ StackTypes /\ PinTypes /\ PastTypes
  BY TypeParts, Zenon DEF TypeInv
<1> DEFINE d == SleepFor
<1>1. d \in Nat /\ Unscroll(d)
  BY RunBootStep
<1>2. edges' \in Seq(Edges) /\ sent' \in {sent, "up", "down"} /\ pin' = sent' /\ latched' = FALSE /\ litIn' \in Nat
  BY <1>0, <1>1, Unscrolled DEF EdgeTypes
<1>3. lit' \in BOOLEAN
  BY <1>1, Zenon DEF Unscroll
<1>4. wake' \in WakeCauses
  BY RunBootStep, Zenon DEF WakeCauses
<1>5. button' \in Machines
  <2>1. (wake' = "Button") \in BOOLEAN
    OBVIOUS
  <2>2. button' = NewButton(wake' = "Button")
    BY RunBootStep
  <2>3. QED
    BY <2>1, <2>2, NewMachine
<1>6. AppTypes'
  BY <1>5, RunBootStep, Durations DEF AppTypes, NotIdle, Machines
<1>7. TaskTypes'
  BY RunBootStep DEF TaskTypes, PCs
<1>8. EdgeTypes'
  BY <1>2, RunBootStep DEF EdgeTypes
<1>9. StackTypes'
  BY <1>0, <1>3, RunBootStep DEF StackTypes
<1>10. PinTypes'
  BY <1>0, <1>2, RunBootStep DEF PinTypes
<1>11. PastTypes'
  BY <1>0, <1>4, RunBootStep, Durations DEF PastTypes
<1>12. QED
  BY <1>5, <1>6, <1>7, <1>8, <1>9, <1>10, <1>11, Zenon
  DEF TypeInv, TypeOK, AppTypes, TaskTypes, EdgeTypes, StackTypes, PinTypes, PastTypes

\* An event is handled before anything else happens.
EventInv ==
  /\ ~OnSimPorts => event = "none"
  /\ event # "none" => pc = "waiting" /\ ~icdChanged
  /\ OnSimPorts /\ pc = "waiting" /\ event = "none" => left > 0
  /\ event = "Deadline" => left = 0
  /\ event = "Button" => edges # <<>>
  /\ event = "Icd" /\ phase = "wake" => left > 0

(* What the boot is shown of the stack is two flags.                          *)
LEMMA ViewTypes ==
  /\ TypeInv => View \in [active: BOOLEAN, lit: BOOLEAN]
  /\ TypeInv' => View' \in [active: BOOLEAN, lit: BOOLEAN]
<1>1. TypeInv => lit \in BOOLEAN
  BY DEF TypeInv, TypeOK
<1>2. TypeInv' => lit' \in BOOLEAN
  BY DEF TypeInv, TypeOK
<1>3. (power = "Active") \in BOOLEAN /\ (power' = "Active") \in BOOLEAN
  OBVIOUS
<1>4. QED
  BY <1>1, <1>2, <1>3 DEF View

(* Either program's step keeps the types.                                     *)
LEMMA EitherTypes ==
  ASSUME TypeInv, WorldTypes, EventInv, [EitherNext]_allVars
  PROVE  TypeInv' /\ WorldTypes'
<1> USE DEF world
<1> DEFINE Views == [active: BOOLEAN, lit: BOOLEAN]
<1>0. /\ left \in Nat /\ edges \in Seq(Edges) /\ script \in Seq(Scripted) /\ litIn \in Nat
      /\ told \in Views /\ ports \in {"EspPorts", "SimPorts"} /\ icdChanged \in BOOLEAN
      /\ event \in {"none", "Icd", "Button", "Deadline"}
  BY DEF TypeInv, TypeOK, WorldTypes
<1>1. ASSUME UNCHANGED <<ports, world>> PROVE WorldTypes'
  BY <1>1 DEF WorldTypes
<1>2. ASSUME UNCHANGED ports, script' \in Seq(Scripted), litIn' \in Nat, TypeInv', told' \in {View', told},
             event' \in {"none", "Icd", "Button", "Deadline"}
      PROVE  WorldTypes'
  <2>1. told' \in Views
    BY <1>0, <1>2, ViewTypes
  <2>2. QED
    BY <1>0, <1>2, <2>1 DEF WorldTypes
<1>3. CASE ~OnSimPorts /\ [Next]_vars /\ UNCHANGED <<ports, world>>
  BY <1>1, <1>3, StepTypes
<1>4. CASE UNCHANGED ports /\ SimTask
  BY <1>1, <1>4, StepTypes, SimTaskStep
<1>5. CASE UNCHANGED ports /\ Pass
  <2>1. Advance(left) /\ UNCHANGED event
    BY <1>5, Zenon DEF Pass
  <2>2. icdChanged' \in BOOLEAN
    BY <1>0, <1>5, Zenon DEF Pass, Sync
  <2>3. told' \in {View', told}
    BY <1>5, Zenon DEF Pass, Sync
  <2>4. TypeInv'
    BY <1>0, <2>1, <2>2, AdvanceTypes
  <2>5. script' \in Seq(Scripted) /\ litIn' \in Nat
    BY <1>0, <2>1, Unscrolled DEF Advance
  <2>6. QED
    BY <1>0, <1>2, <1>5, <2>1, <2>3, <2>4, <2>5
<1>6. CASE UNCHANGED ports /\ NextPending
  <2>1. UNCHANGED <<app, task, edges, stack, atPin, past, script, litIn, boots>>
        /\ event' = "Icd" /\ icdChanged' = FALSE /\ told' = View'
    BY <1>6 DEF NextPending, View, stack
  <2>2. AppTypes' /\ TaskTypes' /\ EdgeTypes' /\ StackTypes' /\ PinTypes' /\ PastTypes'
    <3>1. AppTypes /\ TaskTypes /\ EdgeTypes /\ StackTypes /\ PinTypes /\ PastTypes
      BY TypeParts, Zenon DEF TypeInv
    <3>2. EdgeTypes'
      BY <2>1, <3>1 DEF EdgeTypes
    <3>3. QED
      BY <2>1, <3>1, <3>2, TypesKept
  <2>3. TypeInv'
    <3>1. button' \in Machines
      BY <2>1 DEF TypeInv, app
    <3>2. QED
      BY <2>2, <3>1, Zenon
      DEF TypeInv, TypeOK, AppTypes, TaskTypes, EdgeTypes, StackTypes, PinTypes, PastTypes
  <2>4. QED
    BY <1>0, <1>2, <1>6, <2>1, <2>3
<1>7. CASE UNCHANGED ports /\ NextScripted
  <2>1. PICK d \in Nat : d <= left /\ Advance(d)
    BY <1>7, ScriptedStep
  <2>2. UNCHANGED <<told, icdChanged>> /\ event' \in {"Icd", "Button", "Deadline"}
    BY <1>7, ScriptedStep
  <2>3. TypeInv'
    BY <1>0, <2>1, <2>2, AdvanceTypes
  <2>4. script' \in Seq(Scripted) /\ litIn' \in Nat
    BY <1>0, <2>1, Unscrolled DEF Advance
  <2>5. QED
    BY <1>0, <1>2, <1>7, <2>2, <2>3, <2>4
<1>8. CASE UNCHANGED ports /\ Deliver
  <2>1. TypeInv'
    <3>1. CASE event = "Deadline" /\ HandleDeadline
      <4>1. pc = "waiting" /\ left = 0
        BY <1>8, <3>1, DeliverStep DEF EventInv
      <4>2. QED
        BY <3>1, <4>1, DueDelivery, StepTypes
    <3>2. CASE event = "Button" /\ HandleEdge
      <4>1. pc = "waiting" /\ edges # <<>>
        BY <1>8, <3>2, DeliverStep DEF EventInv
      <4>2. QED
        BY <3>2, <4>1, EdgeKeepsTypes
    <3>3. CASE event = "Icd" /\ HandleIcd
      BY <3>3, IcdKeepsTypes
    <3>4. QED
      BY <1>8, <3>1, <3>2, <3>3, DeliverStep
  <2>2. told' \in {View', told} /\ event' = "none" /\ UNCHANGED <<script, litIn, boots>>
    BY <1>8, DeliverStep, Zenon
  <2>3. QED
    BY <1>0, <1>2, <1>8, <2>1, <2>2
<1>9. CASE UNCHANGED ports /\ EndWake
  <2>1. /\ phase' = "operational" /\ holdLeft' = ActiveThreshold
        /\ UNCHANGED <<app, pc, left, outcome, edges, lit, power, idleLeft, dirtyLeft, messages, atPin, past,
                       script, litIn, event, boots>>
    BY <1>9 DEF EndWake
  <2>2. icdChanged' \in BOOLEAN /\ told' = View'
    BY <1>0, <1>9, Zenon DEF EndWake, Sync
  <2>3. TypeInv'
    BY <2>1, <2>2, Durations DEF TypeInv, TypeOK, app, atPin, past
  <2>4. QED
    BY <1>0, <1>2, <1>9, <2>1, <2>2, <2>3
<1>10. CASE UNCHANGED ports /\ RunBoot
  <2>1. TypeInv'
    BY <1>10, RunBootTypes
  <2>2. /\ SleepFor \in Nat /\ Unscroll(SleepFor) /\ told' = View' /\ UNCHANGED event
    BY <1>10, RunBootStep
  <2>3. script' \in Seq(Scripted) /\ litIn' \in Nat
    BY <1>0, <2>2, Unscrolled
  <2>4. QED
    BY <1>0, <1>2, <1>10, <2>1, <2>2, <2>3
<1>11. CASE UNCHANGED allVars
  BY <1>1, <1>11, StepTypes DEF allVars
<1>12. QED
  BY <1>3, <1>4, <1>5, <1>6, <1>7, <1>8, <1>9, <1>10, <1>11, EitherSteps, Zenon

(* A boot of either begins with the types in order.                           *)
LEMMA EitherBegins ==
  ASSUME EitherInit
  PROVE  TypeInv /\ WorldTypes /\ Init /\ event = "none"
         /\ (OnSimPorts => litIn \in LitTimes /\ script \in {Pressed(s) : s \in Scripts}
                           /\ wake # "Button" /\ lit = (litIn = 0) /\ told = View)
<1>1. Init /\ event = "none" /\ told = View
  BY Zenon DEF EitherInit, EspInit, SimInit
<1>2. TypeInv
  BY <1>1, InitTypes
<1>3. told \in [active: BOOLEAN, lit: BOOLEAN]
  BY <1>1, <1>2, ViewTypes
<1>4. CASE EspInit
  <2>1. ports = "EspPorts" /\ script = <<>> /\ litIn = 0
    BY <1>4, Zenon DEF EspInit
  <2>2. QED
    BY <1>1, <1>2, <1>3, <2>1, EmptySeq DEF WorldTypes, OnSimPorts
<1>5. CASE SimInit
  <2>1. /\ ports = "SimPorts" /\ litIn \in LitTimes /\ script \in {Pressed(s) : s \in Scripts}
        /\ wake # "Button" /\ lit = (litIn = 0) /\ told = View
    BY <1>5, Zenon DEF SimInit
  <2>2. script \in Seq(Scripted)
    BY <2>1, PressedAlternates
  <2>3. litIn \in Nat
    BY <2>1, ScenarioTypes
  <2>4. QED
    BY <1>1, <1>2, <1>3, <2>1, <2>2, <2>3 DEF WorldTypes
<1>6. QED
  BY <1>4, <1>5, Zenon DEF EitherInit

(* Either program keeps the wake phase, and what is due where, in order.      *)
LEMMA EitherDue ==
  ASSUME TypeInv, WorldTypes, EventInv, WakeInv, DueInv, [EitherNext]_allVars
  PROVE  WakeInv' /\ DueInv'
<1> USE Durations DEF world, app, task, stack, atPin, past, WakePCs
<1>0. /\ button \in Machines /\ phase \in {"wake", "operational"} /\ nextSample \in 0..SamplePeriod
      /\ rebootCountDue \in Nat /\ left \in Nat /\ wakeReadings \in Nat
  BY DEF TypeInv, TypeOK
<1>1. ASSUME [Next]_vars PROVE WakeInv' /\ DueInv'
  BY <1>1, StepWake, StepDue
<1>2. phase = "wake" => WakePhase
  BY DEF WakeInv
<1>3. ASSUME NEW d \in Nat, d <= left, Advance(d), pc \in {"waiting", "soil", "battery", "calDry", "calWet"}
      PROVE  WakeInv' /\ DueInv'
  <2>1. /\ button'.state = button.state /\ button'.waking = button.waking
        /\ nextSample' = Less(nextSample, d) /\ rebootCountDue' = Less(rebootCountDue, d)
        /\ left' = left - d
        /\ UNCHANGED <<calibrationRequested, rebootCountPersisted, pc, phase, wakeReadings>>
    BY <1>3, Advanced
  <2>2. WakingPressPending(button') = WakingPressPending(button)
    BY <2>1 DEF WakingPressPending, HasDeadline
  <2>3. WakeInv'
    BY <1>0, <1>2, <1>3, <2>1, <2>2 DEF WakeInv, WakePhase, Less
  <2>4. DueInv'
    BY <1>0, <1>3, <2>1 DEF DueInv, Less
  <2>5. QED
    BY <2>3, <2>4
<1>4. ASSUME pc = "waiting", UNCHANGED <<phase, wakeReadings, nextSample, calibrationRequested>>,
             pc' = IF phase = "wake" THEN "arm" ELSE "step"
      PROVE  WakeInv' /\ DueInv'
  BY <1>0, <1>2, <1>4 DEF WakeInv, WakePhase, DueInv
<1>5. CASE [Next]_vars
  BY <1>1, <1>5
<1>6. CASE SimTask
  BY <1>1, <1>6, SimTaskStep
<1>7. CASE Pass
  <2>1. Advance(left) /\ pc \in {"soil", "battery", "calDry", "calWet"}
    BY <1>7, Zenon DEF Pass
  <2>2. QED
    BY <1>0, <1>3, <2>1
<1>8. CASE NextPending
  <2>1. UNCHANGED <<button, nextSample, calibrationRequested, rebootCountPersisted, rebootCountDue, pc, phase,
                    left, wakeReadings>>
    BY <1>8 DEF NextPending
  <2>2. WakingPressPending(button') = WakingPressPending(button)
    BY <2>1
  <2>3. QED
    BY <2>1, <2>2 DEF WakeInv, WakePhase, DueInv
<1>9. CASE NextScripted
  BY <1>3, <1>9, ScriptedStep
<1>10. CASE Deliver
  <2>1. CASE event = "Deadline" /\ HandleDeadline
    <3>1. pc = "waiting" /\ left = 0
      BY <1>10, <2>1, DeliverStep DEF EventInv
    <3>2. QED
      BY <1>1, <2>1, <3>1, DueDelivery
  <2>2. CASE HandleEdge
    BY <1>4, <1>10, <2>2, DeliverStep DEF HandleEdge, OnNothing, Resume
  <2>3. CASE HandleIcd
    BY <1>4, <1>10, <2>3, DeliverStep DEF HandleIcd, Resume
  <2>4. QED
    BY <1>10, <2>1, <2>2, <2>3, DeliverStep
<1>11. CASE EndWake
  <2>1. /\ pc = "step" /\ phase = "wake" /\ ~calibrationRequested /\ nextSample > 0
        /\ phase' = "operational" /\ UNCHANGED <<pc, wakeReadings, calibrationRequested>>
    BY <1>11 DEF EndWake
  <2>2. QED
    BY <1>2, <2>1 DEF WakeInv, WakePhase, DueInv
<1>12. CASE RunBoot
  BY <1>12, RunBootStep DEF WakeInv, WakePhase, DueInv
<1>13. QED
  BY <1>1, <1>5, <1>6, <1>7, <1>8, <1>9, <1>10, <1>11, <1>12, EitherSteps, Zenon DEF allVars

\* A simulated boot is over as the firmware's is: with nothing left to read.
SleepInv ==
  /\ outcome # "none" => pc = "over"
  /\ outcome = "Sleep" \/ pc = "tail" => edges = <<>> /\ button.state = "Idle"

\* When the simulated stack is a long-idle device's; the wake phase waits only for the
\* press that ended a sleep.
LitInv ==
  /\ pc # "startup"
  /\ lit <=> litIn = 0
  /\ outcome = "Sleep" \/ pc = "tail" => lit
  /\ phase = "wake" => IF wake = "Button" THEN lit ELSE ~button.waking /\ pc # "waiting"
SimInv == OnSimPorts => SleepInv /\ LitInv

(* A simulated step keeps both.                                               *)
LEMMA EitherSim ==
  ASSUME TypeInv, WorldTypes, EventInv, DueInv, SimInv, [EitherNext]_allVars
  PROVE  SimInv'
<1> SUFFICES ASSUME OnSimPorts' PROVE SleepInv' /\ LitInv'
  BY DEF SimInv
<1> USE Durations DEF world, app, task, stack, atPin, past
<1>0. /\ button \in Machines /\ phase \in {"wake", "operational"} /\ lit \in BOOLEAN /\ edges \in Seq(Edges)
      /\ outcome \in {"none", "Sleep", "FactoryReset"}
  BY DEF TypeInv, TypeOK
<1>1. OnSimPorts /\ SleepInv /\ LitInv
  <2>1. UNCHANGED ports
    BY EitherSteps, Zenon DEF allVars
  <2>2. QED
    BY <2>1 DEF SimInv, OnSimPorts
<1>2. ASSUME pc # "over", UNCHANGED <<outcome, lit, litIn, phase, wake, button>>, pc' \notin {"startup", "tail"},
             phase = "wake" /\ wake # "Button" => pc' # "waiting"
      PROVE  SleepInv' /\ LitInv'
  BY <1>1, <1>2 DEF SleepInv, LitInv
<1>3. CASE SimTask
  <2>1. UNCHANGED litIn /\ pc' # "startup"
    BY <1>3, SimTaskStep
  <2>2. ASSUME ArmWake \/ ArmBoot PROVE SleepInv' /\ LitInv'
    <3>1. pc = "arm" /\ UNCHANGED <<outcome, lit, phase, wake, button>>
      BY <2>2 DEF ArmWake, ArmBoot, Wait, GoOn
    <3>2. phase = "wake" /\ wake # "Button" => pc' # "waiting"
      BY <1>1, <2>2, <3>1 DEF ArmWake, ArmBoot, GoOn, WakingPressPending, LitInv
    <3>3. pc' # "tail"
      BY <2>2 DEF ArmWake, ArmBoot, Wait, GoOn
    <3>4. QED
      BY <1>2, <2>1, <3>1, <3>2, <3>3
  <2>3. ASSUME StartCalibration \/ CaptureWet \/ EndCalibration PROVE SleepInv' /\ LitInv'
    BY <1>2, <2>1, <2>3 DEF StartCalibration, CaptureWet, EndCalibration, Begin, GoOn
  <2>4. ASSUME StartReading \/ ReadBattery \/ EndReading PROVE SleepInv' /\ LitInv'
    BY <1>2, <2>1, <2>4 DEF StartReading, SampleDue, ReadBattery, EndReading, Begin
  <2>5. ASSUME phase = "operational" /\ NothingDue PROVE SleepInv' /\ LitInv'
    BY <1>2, <2>1, <2>5 DEF NothingDue
  <2>6. ASSUME PersistRebootCount PROVE SleepInv' /\ LitInv'
    BY <1>2, <2>1, <2>6 DEF PersistRebootCount
  <2>7. ASSUME Decide PROVE SleepInv' /\ LitInv'
    <3>1. pc = "decide" /\ UNCHANGED <<lit, phase, wake, outcome>>
      BY <2>7, DecideStep
    <3>2. outcome = "none" /\ phase' # "wake" /\ phase = "operational"
      BY <1>1, <3>1 DEF SleepInv, DueInv
    <3>3. CASE StayUp \/ DrainAndStayUp
      BY <1>1, <2>1, <3>1, <3>2, <3>3 DEF StayUp, DrainAndStayUp, SleepInv, LitInv
    <3>4. CASE GoDown
      <4>1. lit /\ button' = Drain /\ Drain.state = "Idle" /\ edges' = <<>> /\ pc' = "tail" /\ outcome' = outcome
        BY <2>7, <3>4, DecideStep DEF GoDown, MaySleep, IsActive
      <4>2. QED
        BY <1>1, <2>1, <3>1, <3>2, <4>1 DEF SleepInv, LitInv
    <3>5. QED
      BY <2>7, <3>3, <3>4, DecideStep
  <2>8. ASSUME PowerDown PROVE SleepInv' /\ LitInv'
    <3>1. pc = "tail" /\ pc' = "over" /\ UNCHANGED <<edges, lit, phase, wake, button>>
      BY <2>8, PowerDownStep
    <3>2. phase = "operational"
      BY <3>1 DEF DueInv
    <3>3. QED
      BY <1>1, <2>1, <3>1, <3>2 DEF SleepInv, LitInv
  <2>9. QED
    BY <1>3, <2>2, <2>3, <2>4, <2>5, <2>6, <2>7, <2>8, Zenon DEF SimTask
<1>4. ASSUME NEW d \in Nat, d <= left, Advance(d), pc \notin {"over", "tail"}, phase = "wake" => wake = "Button" \/ pc # "waiting"
      PROVE  SleepInv' /\ LitInv'
  <2>1. /\ button'.waking = button.waking /\ UNCHANGED <<pc, phase, outcome, wake>>
    BY <1>4, Advanced DEF Advance
  <2>2. (lit' <=> litIn' = 0) /\ (litIn = 0 => litIn' = 0)
    BY <1>0, <1>4, Unscrolled DEF Advance
  <2>3. QED
    BY <1>1, <1>4, <2>1, <2>2 DEF SleepInv, LitInv
<1>5. CASE Pass
  <2>1. left \in Nat /\ Advance(left) /\ pc \notin {"over", "tail"} /\ pc # "waiting"
    BY <1>5 DEF Pass, TypeInv, TypeOK
  <2>2. QED
    BY <1>4, <2>1
<1>6. CASE NextPending
  <2>1. pc = "waiting" /\ UNCHANGED <<outcome, lit, litIn, phase, wake, button, pc>>
    BY <1>6 DEF NextPending
  <2>2. QED
    BY <1>1, <1>2, <2>1 DEF LitInv
<1>7. CASE NextScripted
  <2>1. PICK d \in Nat : d <= left /\ Advance(d) /\ pc = "waiting"
    BY <1>7, ScriptedStep
  <2>2. QED
    BY <1>1, <1>4, <2>1 DEF LitInv
<1>8. CASE Deliver
  <2>1. pc = "waiting" /\ UNCHANGED litIn
    BY <1>8, DeliverStep
  <2>2. outcome = "none" /\ (phase = "wake" => wake = "Button")
    BY <1>1, <2>1 DEF SleepInv, LitInv
  <2>3. ASSUME UNCHANGED <<outcome, lit, phase, wake>>, pc' \in {"arm", "step"} PROVE SleepInv' /\ LitInv'
    BY <1>1, <2>1, <2>2, <2>3 DEF SleepInv, LitInv
  <2>4. CASE HandleDeadline
    <3>1. UNCHANGED <<phase, wake>>
      BY <2>4 DEF HandleDeadline
    <3>2. CASE OnSampleNow
      BY <2>3, <3>1, <3>2 DEF OnSampleNow, RequestActive, Resume
    <3>3. CASE OnCalibrate
      BY <2>3, <3>1, <3>3 DEF OnCalibrate, RequestActive, Resume
    <3>4. CASE OnFactoryReset
      BY <1>1, <2>1, <2>2, <3>1, <3>4 DEF OnFactoryReset, SleepInv, LitInv
    <3>5. CASE OnNothing
      BY <2>3, <3>1, <3>5 DEF OnNothing, Resume
    <3>6. QED
      BY <2>4, <3>2, <3>3, <3>4, <3>5, Zenon DEF HandleDeadline
  <2>5. CASE HandleEdge
    BY <2>3, <2>5 DEF HandleEdge, OnNothing, Resume
  <2>6. CASE HandleIcd
    BY <2>3, <2>6 DEF HandleIcd, Resume
  <2>7. QED
    BY <1>8, <2>4, <2>5, <2>6, DeliverStep
<1>9. CASE EndWake
  <2>1. phase' = "operational" /\ pc = "step" /\ UNCHANGED <<pc, outcome, lit, litIn, edges, button>>
    BY <1>9 DEF EndWake
  <2>2. QED
    BY <1>1, <2>1 DEF SleepInv, LitInv
<1>10. CASE RunBoot
  <2>1. /\ outcome = "Sleep" /\ outcome' = "none" /\ pc' = "arm" /\ button' = NewButton(wake' = "Button")
        /\ SleepFor \in Nat /\ Unscroll(SleepFor)
    BY <1>10, RunBootStep
  <2>2. (lit' <=> litIn' = 0) /\ (litIn = 0 => litIn' = 0)
    BY <1>0, <2>1, Unscrolled
  <2>3. wake' # "Button" => ~button'.waking
    BY <2>1 DEF NewButton
  <2>4. QED
    BY <1>1, <2>1, <2>2, <2>3 DEF SleepInv, LitInv
<1>11. CASE UNCHANGED allVars
  BY <1>1, <1>11 DEF allVars, vars, SleepInv, LitInv
<1>12. QED
  BY <1>1, <1>3, <1>5, <1>6, <1>7, <1>8, <1>9, <1>10, <1>11, EitherSteps, Zenon

\* What the wake phase waits for is the waking press, and for as long as that is undecided.
WaitInv ==
  /\ pc = "waiting" /\ phase = "wake" => WakingPressPending(button) /\ left = button.left
  /\ pc = "arm" /\ phase = "wake" /\ WakingPressPending(button) => button.left > 0

(* A deadline or an edge leaves the waking press decided, or with a time to   *)
(* wait; an edge that is due with the deadline must be one that turns it.     *)
LEMMA StillToWait ==
  ASSUME NEW b \in Machines, WakingPressPending(b)
  PROVE  /\ b.left = 0 /\ WakingPressPending(OnDeadline(b)) => OnDeadline(b).left > 0
         /\ \A e \in Edges :
              /\ b.left > 0 \/ (b.state \in DownStates <=> e = "Rising")
              /\ WakingPressPending(OnEdge(b, e))
              => OnEdge(b, e).left > 0
<1>0. b \in ButtonValues /\ b.waking /\ b.state \in {"Debounce", "Held", "Window"} /\ b.left \in Nat
  BY DEF Machines, ButtonValues, WakingPressPending, HasDeadline, TimedStates
<1>1. ASSUME b.left = 0, WakingPressPending(OnDeadline(b)) PROVE OnDeadline(b).left > 0
  <2>1. DeadlineDue(b)
    BY <1>0, <1>1 DEF DeadlineDue, HasDeadline, TimedStates
  <2>2. CASE b.state = "Debounce"
    BY <1>0, <2>1, <2>2, Durations DEF OnDeadline, BelievePress, ButtonValues
  <2>3. CASE b.state = "Held"
    <3>1. OnDeadline(b) = HoldElapsed(b)
      BY <2>1, <2>3 DEF OnDeadline
    <3>2. ~OnDeadline(b).waking
      BY <1>0, <3>1 DEF HoldElapsed, ButtonValues
    <3>3. QED
      BY <1>1, <3>2 DEF WakingPressPending
  <2>4. CASE b.state = "Window"
    <3>1. OnDeadline(b) = WindowClosed(b)
      BY <2>1, <2>4 DEF OnDeadline
    <3>2. ~OnDeadline(b).waking
      BY <1>0, <3>1 DEF WindowClosed, Rest, ButtonValues
    <3>3. QED
      BY <1>1, <3>2 DEF WakingPressPending
  <2>5. QED
    BY <1>0, <2>2, <2>3, <2>4
<1>2. ASSUME NEW e \in Edges, b.left > 0 \/ (b.state \in DownStates <=> e = "Rising"),
             WakingPressPending(OnEdge(b, e))
      PROVE  OnEdge(b, e).left > 0
  <2>1. e \in {"Falling", "Rising"}
    BY DEF Edges
  <2>2. CASE e = "Falling" /\ b.state = "Window"
    BY <1>0, <2>2, EdgeTurns, Durations DEF Turns
  <2>3. CASE e = "Falling" /\ b.state # "Window"
    BY <1>0, <1>2, <2>3, EdgeTurns DEF DownStates
  <2>4. CASE e = "Rising" /\ b.state = "Window"
    BY <1>0, <1>2, <2>4, EdgeTurns DEF DownStates
  <2>5. CASE e = "Rising" /\ b.state = "Held"
    BY <1>0, <2>5, EdgeTurns, Durations DEF Turns
  <2>6. CASE e = "Rising" /\ b.state = "Debounce"
    <3>1. OnEdge(b, e).state = "Idle"
      BY <1>0, <2>6, EdgeTurns DEF Turns
    <3>2. QED
      BY <1>2, <3>1 DEF WakingPressPending, HasDeadline, TimedStates
  <2>7. QED
    BY <1>0, <2>1, <2>2, <2>3, <2>4, <2>5, <2>6
<1>3. QED
  BY <1>1, <1>2

(* A step of the loop's own keeps the wake phase waiting for the press.       *)
LEMMA StepWait ==
  ASSUME TypeInv, WaitInv, WakeInv, [Next]_vars
  PROVE  WaitInv'
<1> USE Durations DEF app, task, stack, atPin, past
<1>0. /\ button \in Machines /\ phase \in {"wake", "operational"} /\ edges \in Seq(Edges) /\ left \in Nat
  BY DEF TypeInv, TypeOK
<1>1. ASSUME UNCHANGED <<pc, phase, button, left>> PROVE WaitInv'
  BY <1>1 DEF WaitInv
<1>2. ASSUME pc' \notin {"arm", "waiting"} PROVE WaitInv'
  BY <1>2 DEF WaitInv
<1>3. ASSUME phase' # "wake" PROVE WaitInv'
  BY <1>3 DEF WaitInv
<1>4. ASSUME pc' = "arm", WakingPressPending(button') => button'.left > 0 PROVE WaitInv'
  BY <1>4 DEF WaitInv
<1>5. CASE ArmWake
  BY <1>1, <1>2, <1>5 DEF ArmWake, Wait, GoOn, WaitInv
<1>6. CASE ArmBoot
  BY <1>3, <1>6 DEF ArmBoot, Wait
<1>7. CASE DeadlineEvent
  <2>1. /\ pc = "waiting" /\ left = 0 /\ button' = OnDeadline(button) /\ UNCHANGED phase
        /\ pc' \in {"arm", "step", "over"}
    BY <1>7, DeadlineOutcome, DeadlineStep DEF OnSampleNow, OnCalibrate, OnFactoryReset, OnNothing, Resume
  <2>2. CASE phase = "wake" /\ pc' = "arm"
    <3>1. WakingPressPending(button) /\ button.left = 0
      BY <2>1, <2>2 DEF WaitInv
    <3>2. QED
      BY <1>0, <1>4, <2>1, <2>2, <3>1, StillToWait
  <2>3. QED
    BY <1>0, <1>2, <1>3, <2>1, <2>2
<1>8. CASE ButtonEvent
  <2>1. /\ pc = "waiting" /\ left > 0 /\ edges # <<>> /\ button' = OnEdge(button, Head(edges)) /\ UNCHANGED phase
        /\ pc' \in {"arm", "step"}
    BY <1>8 DEF ButtonEvent, HandleEdge, OnNothing, Resume
  <2>2. Head(edges) \in Edges
    BY <1>0, <2>1, HeadTailProperties
  <2>3. CASE phase = "wake" /\ pc' = "arm"
    <3>1. WakingPressPending(button) /\ button.left > 0
      BY <2>1, <2>3 DEF WaitInv
    <3>2. QED
      BY <1>0, <1>4, <2>1, <2>2, <2>3, <3>1, StillToWait
  <2>4. QED
    BY <1>0, <1>2, <1>3, <2>1, <2>3
<1>9. CASE IcdEvent
  BY <1>2, <1>9 DEF IcdEvent, HandleIcd, Resume, WaitInv
<1>10. CASE StartCalibration \/ CaptureWet \/ EndCalibration
  BY <1>2, <1>10 DEF StartCalibration, CaptureWet, EndCalibration, Begin, GoOn
<1>11. CASE StartReading \/ ReadBattery \/ EndReading
  BY <1>2, <1>11 DEF StartReading, SampleDue, ReadBattery, EndReading, Begin
<1>12. CASE NothingDue \/ EndStartup
  BY <1>2, <1>12 DEF NothingDue, EndStartup, Begin, GoOn
<1>13. CASE PersistRebootCount \/ Decide
  <2>1. pc = "decide" /\ UNCHANGED phase
    BY <1>13, DecideStep DEF PersistRebootCount
  <2>2. phase # "wake"
    BY <2>1 DEF WakeInv, WakePhase, WakePCs
  <2>3. QED
    BY <1>3, <2>1, <2>2
<1>14. CASE SendFalling \/ SendRising
  BY <1>1, <1>14 DEF SendFalling, SendRising
<1>15. CASE Message \/ Register \/ GoIdle \/ Poll
  BY <1>1, <1>15 DEF Message, Register, GoIdle, Poll
<1>16. CASE Tick
  <2>1. /\ button' = Elapse(button, 1) /\ left' = left - 1 /\ UNCHANGED <<pc, phase>> /\ pc # "arm"
    BY <1>16 DEF Tick, Awaiting, Awaits
  <2>2. CASE pc = "waiting" /\ phase = "wake"
    <3>1. WakingPressPending(button) /\ left = button.left /\ left > 0
      BY <1>16, <2>2 DEF WaitInv, Tick, Quiet
    <3>2. button'.state = button.state /\ button'.waking = button.waking
          /\ button'.left = IF button.left > 1 THEN button.left - 1 ELSE 0
      BY <1>0, <2>1, ElapseMachine
    <3>3. button'.left = left'
      BY <1>0, <2>1, <3>1, <3>2
    <3>4. WakingPressPending(button')
      BY <3>1, <3>2 DEF WakingPressPending, HasDeadline
    <3>5. QED
      BY <2>1, <2>2, <3>3, <3>4 DEF WaitInv
  <2>3. QED
    BY <1>2, <1>3, <2>1, <2>2
<1>17. CASE UNCHANGED vars
  BY <1>1, <1>17 DEF vars
<1>18. CASE Person
  BY <1>1, <1>18, PersonStep
<1>19. CASE PowerDown
  BY <1>2, <1>19, PowerDownStep
<1>20. QED
  BY <1>5, <1>6, <1>7, <1>8, <1>9, <1>10, <1>11, <1>12, <1>13, <1>14, <1>15, <1>16, <1>17, <1>18, <1>19, Steps,
     Zenon

\* The waking press of a simulated sleep: its edge is what ended the sleep, and it is
\* still in the queue when the machine already believes in the press.
Fresh ==
  /\ phase = "wake" /\ pc \in {"arm", "waiting"}
  /\ button.state = "Held" /\ button.waking /\ button.left > 0
  /\ edges # <<>> /\ Head(edges) = "Falling"

\* The simulated person releases what was pressed: the edges to come alternate, and the
\* first of them turns the machine.
Alternates == \A k \in 1..(QueueLen - 1) : Queue(k) # Queue(k + 1)
Turned == QueueLen > 0 => (button.state \in DownStates <=> Queue(1) = "Rising")
TurnInv == OnSimPorts => Alternates /\ (Turned \/ Fresh)

(* The queue's edges, and its head.                                           *)
LEMMA QueueEdges ==
  ASSUME WorldTypes, edges \in Seq(Edges)
  PROVE  /\ Len(edges) \in Nat /\ Len(script) \in Nat /\ QueueLen \in Nat
         /\ \A k \in 1..QueueLen : Queue(k) \in Edges
         /\ edges # <<>> => Len(edges) > 0 /\ QueueLen > 0 /\ Queue(1) = Head(edges)
<1>1. /\ Len(edges) \in Nat /\ Len(script) \in Nat
      /\ \A i \in 1..Len(edges) : edges[i] \in Edges
      /\ \A i \in 1..Len(script) : script[i] \in Scripted
  BY LenProperties, ElementOfSeq DEF WorldTypes
<1>2. ASSUME NEW k \in 1..QueueLen PROVE Queue(k) \in Edges
  <2>1. CASE k <= Len(edges)
    BY <1>1, <2>1 DEF Queue, QueueLen
  <2>2. CASE k > Len(edges)
    <3>1. k - Len(edges) \in 1..Len(script)
      BY <1>1, <2>2 DEF QueueLen
    <3>2. script[k - Len(edges)].edge \in Edges
      BY <1>1, <3>1 DEF Scripted
    <3>3. QED
      BY <1>1, <2>2, <3>2 DEF Queue
  <2>3. QED
    BY <1>1, <2>1, <2>2 DEF QueueLen
<1>3. ASSUME edges # <<>> PROVE Len(edges) > 0 /\ QueueLen > 0 /\ Queue(1) = Head(edges)
  <2>1. Len(edges) > 0
    BY <1>1, <1>3, EmptySeq
  <2>2. Head(edges) = edges[1]
    BY <1>3
  <2>3. QED
    BY <1>1, <2>1, <2>2 DEF Queue, QueueLen
<1>4. QED
  BY <1>1, <1>2, <1>3 DEF QueueLen

(* An edge that is taken leaves the others in their order.                    *)
LEMMA QueueTaken ==
  ASSUME WorldTypes, edges \in Seq(Edges), edges # <<>>, edges' = Tail(edges), UNCHANGED script
  PROVE  /\ QueueLen' = QueueLen - 1
         /\ \A k \in 1..(QueueLen - 1) : Queue(k)' = Queue(k + 1)
<1>1. /\ Len(edges) \in Nat /\ Len(script) \in Nat /\ Len(edges) > 0
  BY QueueEdges
<1>2. /\ Len(edges') = Len(edges) - 1
      /\ \A i \in 1..(Len(edges) - 1) : edges'[i] = edges[i + 1]
  BY HeadTailProperties
<1>3. QueueLen' = QueueLen - 1
  BY <1>1, <1>2 DEF QueueLen
<1>4. ASSUME NEW k \in 1..(QueueLen - 1) PROVE Queue(k)' = Queue(k + 1)
  <2>1. CASE k <= Len(edges) - 1
    BY <1>1, <1>2, <2>1 DEF Queue
  <2>2. CASE k > Len(edges) - 1
    <3>1. k - (Len(edges) - 1) = (k + 1) - Len(edges)
      BY <1>1
    <3>2. QED
      BY <1>1, <1>2, <2>2, <3>1 DEF Queue
  <2>3. QED
    BY <1>1, <2>1, <2>2 DEF QueueLen
<1>5. QED
  BY <1>3, <1>4

(* The drained edges leave those of the script.                               *)
LEMMA QueueDrained ==
  ASSUME WorldTypes, edges \in Seq(Edges), edges' = <<>>, UNCHANGED script
  PROVE  /\ QueueLen' = Len(script)
         /\ \A k \in 1..Len(script) : Queue(k)' = Queue(Len(edges) + k)
<1>1. Len(edges) \in Nat /\ Len(script) \in Nat
  BY QueueEdges
<1>2. Len(edges') = 0
  BY EmptySeq
<1>3. ASSUME NEW k \in 1..Len(script) PROVE Queue(k)' = Queue(Len(edges) + k)
  <2>1. ~(Len(edges) + k <= Len(edges)) /\ (Len(edges) + k) - Len(edges) = k /\ ~(k <= 0) /\ k - 0 = k
    BY <1>1
  <2>2. QED
    BY <1>1, <1>2, <2>1 DEF Queue
<1>4. QED
  BY <1>1, <1>2, <1>3 DEF QueueLen

(* The same edges to come, in the same order, keep alternating, and keep      *)
(* turning a machine that stays where it believes the pin to be.              *)
LEMMA QueueKept ==
  ASSUME Alternates, QueueLen' = QueueLen, \A k \in 1..QueueLen : Queue(k)' = Queue(k), QueueLen \in Nat
  PROVE  /\ Alternates'
         /\ Turned /\ (button'.state \in DownStates <=> button.state \in DownStates) => Turned'
<1>1. ASSUME NEW k \in 1..(QueueLen - 1) PROVE Queue(k)' # Queue(k + 1)'
  <2>1. k \in 1..QueueLen /\ k + 1 \in 1..QueueLen
    OBVIOUS
  <2>2. Queue(k)' = Queue(k) /\ Queue(k + 1)' = Queue(k + 1)
    BY <2>1
  <2>3. QED
    BY <2>2 DEF Alternates
<1>2. Alternates'
  BY <1>1 DEF Alternates
<1>3. QueueLen > 0 => Queue(1)' = Queue(1)
  OBVIOUS
<1>4. ASSUME Turned, button'.state \in DownStates <=> button.state \in DownStates PROVE Turned'
  BY <1>3, <1>4 DEF Turned
<1>5. QED
  BY <1>2, <1>4

(* A step of the simulated boot keeps its person's edges in turn.             *)
LEMMA EitherTurn ==
  ASSUME TypeInv, WorldTypes, EventInv, WakeInv, DueInv, WaitInv, SimInv, TurnInv, [EitherNext]_allVars
  PROVE  TurnInv'
<1> SUFFICES ASSUME OnSimPorts' PROVE Alternates' /\ (Turned' \/ Fresh')
  BY DEF TurnInv
<1> USE Durations DEF world, app, task, stack, atPin, past
<1>0. /\ button \in Machines /\ edges \in Seq(Edges) /\ left \in Nat /\ QueueLen \in Nat
      /\ Len(script) \in Nat /\ Len(edges) \in Nat /\ \A k \in 1..QueueLen : Queue(k) \in Edges
  BY QueueEdges DEF TypeInv, TypeOK
<1>1. OnSimPorts /\ Alternates /\ (Turned \/ Fresh) /\ SleepInv /\ LitInv
  <2>1. UNCHANGED ports
    BY EitherSteps, Zenon DEF allVars
  <2>2. QED
    BY <2>1 DEF TurnInv, SimInv, OnSimPorts
<1>2. ASSUME UNCHANGED <<edges, script>>
      PROVE  /\ Alternates'
             /\ Turned /\ (button'.state \in DownStates <=> button.state \in DownStates) => Turned'
  <2>1. QueueLen' = QueueLen
    BY <1>2 DEF QueueLen
  <2>2. \A k \in 1..QueueLen : Queue(k)' = Queue(k)
    BY <1>2 DEF Queue
  <2>3. QED
    BY <1>0, <1>1, <2>1, <2>2, QueueKept
<1>3. ASSUME UNCHANGED <<edges, script, button, phase>>, Fresh => pc' \in {"arm", "waiting"}
      PROVE  Alternates' /\ (Turned' \/ Fresh')
  BY <1>1, <1>2, <1>3 DEF Fresh
<1>4. CASE SimTask
  <2>0. UNCHANGED script
    BY <1>4, SimTaskStep
  <2>1. ASSUME ArmWake PROVE Alternates' /\ (Turned' \/ Fresh')
    <3>1. UNCHANGED <<edges, button, phase>>
      BY <2>1 DEF ArmWake, Wait, GoOn
    <3>2. Fresh => WakingPressPending(button)
      BY DEF Fresh, WakingPressPending, HasDeadline, TimedStates
    <3>3. Fresh => pc' = "waiting"
      BY <2>1, <3>2 DEF ArmWake, Wait
    <3>4. QED
      BY <1>3, <2>0, <3>1, <3>3
  <2>2. ASSUME ArmBoot PROVE Alternates' /\ (Turned' \/ Fresh')
    BY <1>3, <2>0, <2>2 DEF ArmBoot, Wait
  <2>3. ASSUME StartCalibration \/ CaptureWet \/ EndCalibration PROVE Alternates' /\ (Turned' \/ Fresh')
    <3>1. UNCHANGED <<edges, button, phase>> /\ pc \notin {"arm", "waiting"}
      BY <2>3 DEF StartCalibration, CaptureWet, EndCalibration, Begin, GoOn
    <3>2. QED
      BY <1>3, <2>0, <3>1 DEF Fresh
  <2>4. ASSUME StartReading \/ ReadBattery \/ EndReading PROVE Alternates' /\ (Turned' \/ Fresh')
    <3>1. UNCHANGED <<edges, button, phase>> /\ pc \notin {"arm", "waiting"}
      BY <2>4 DEF StartReading, SampleDue, ReadBattery, EndReading, Begin
    <3>2. QED
      BY <1>3, <2>0, <3>1 DEF Fresh
  <2>5. ASSUME phase = "operational" /\ NothingDue PROVE Alternates' /\ (Turned' \/ Fresh')
    <3>1. UNCHANGED <<edges, button, phase>> /\ pc \notin {"arm", "waiting"}
      BY <2>5 DEF NothingDue
    <3>2. QED
      BY <1>3, <2>0, <3>1 DEF Fresh
  <2>6. ASSUME PersistRebootCount PROVE Alternates' /\ (Turned' \/ Fresh')
    <3>1. UNCHANGED <<edges, button, phase>> /\ pc \notin {"arm", "waiting"}
      BY <2>6 DEF PersistRebootCount
    <3>2. QED
      BY <1>3, <2>0, <3>1 DEF Fresh
  <2>7. ASSUME Decide PROVE Alternates' /\ (Turned' \/ Fresh')
    <3>1. pc = "decide" /\ UNCHANGED phase
      BY <2>7, DecideStep
    <3>2. CASE StayUp
      <4>1. UNCHANGED <<edges, button>>
        BY <3>2 DEF StayUp
      <4>2. QED
        BY <1>3, <2>0, <3>1, <4>1 DEF Fresh
    <3>3. CASE DrainAndStayUp \/ GoDown
      <4>1. button' = Drain /\ edges' = <<>>
        BY <3>3 DEF DrainAndStayUp, GoDown
      <4>2. /\ QueueLen' = Len(script)
            /\ \A k \in 1..Len(script) : Queue(k)' = Queue(Len(edges) + k)
        BY <1>0, <2>0, <4>1, QueueDrained
      <4>3. ASSUME NEW k \in 1..(Len(script) - 1) PROVE Queue(k)' # Queue(k + 1)'
        <5>1. /\ k \in 1..Len(script) /\ k + 1 \in 1..Len(script)
              /\ Len(edges) + k \in 1..(QueueLen - 1) /\ (Len(edges) + k) + 1 = Len(edges) + (k + 1)
          BY <1>0 DEF QueueLen
        <5>2. Queue(k)' = Queue(Len(edges) + k) /\ Queue(k + 1)' = Queue(Len(edges) + (k + 1))
          BY <4>2, <5>1
        <5>3. QED
          BY <1>1, <5>1, <5>2 DEF Alternates
      <4>4. Alternates'
        BY <4>2, <4>3 DEF Alternates
      <4>5. Turned /\ button'.state \in DownStates <=> LastDown
        BY <1>0, <1>1, <3>1, <4>1, DrainMachine DEF Fresh
      <4>6. ASSUME Len(script) > 0 PROVE LastDown <=> Queue(1)' = "Rising"
        <5>1. Queue(1)' = Queue(Len(edges) + 1) /\ Len(edges) + 1 \in 1..QueueLen
          BY <1>0, <4>2, <4>6 DEF QueueLen
        <5>2. CASE edges = <<>>
          <6>1. Len(edges) + 1 = 1
            BY <5>2, EmptySeq
          <6>2. QueueLen > 0 /\ (LastDown <=> button.state \in DownStates) /\ Queue(1)' = Queue(1)
            BY <1>0, <5>1, <5>2, <6>1 DEF LastDown
          <6>3. Turned
            BY <1>1, <3>1 DEF Fresh
          <6>4. QED
            BY <6>2, <6>3 DEF Turned
        <5>3. CASE edges # <<>>
          <6>1. Len(edges) \in 1..(QueueLen - 1) /\ Len(edges) <= Len(edges)
            BY <1>0, <4>6, <5>3, QueueEdges DEF QueueLen
          <6>2. Queue(Len(edges)) # Queue(Len(edges) + 1)
            BY <1>1, <6>1 DEF Alternates
          <6>3. LastDown <=> Queue(Len(edges)) = "Falling"
            BY <5>3, <6>1 DEF LastDown, Queue
          <6>4. Queue(Len(edges)) \in Edges /\ Queue(Len(edges) + 1) \in Edges
            BY <1>0, <5>1, <6>1
          <6>5. QED
            BY <5>1, <6>2, <6>3, <6>4 DEF Edges
        <5>4. QED
          BY <5>2, <5>3
      <4>7. Turned'
        BY <1>0, <4>1, <4>2, <4>6, DrainMachine DEF Turned
      <4>8. QED
        BY <4>4, <4>7
    <3>4. QED
      BY <2>7, <3>2, <3>3, DecideStep
  <2>8. ASSUME PowerDown PROVE Alternates' /\ (Turned' \/ Fresh')
    <3>1. UNCHANGED <<edges, button, phase>> /\ pc \notin {"arm", "waiting"}
      BY <2>8, PowerDownStep
    <3>2. QED
      BY <1>3, <2>0, <3>1 DEF Fresh
  <2>9. QED
    BY <1>4, <2>1, <2>2, <2>3, <2>4, <2>5, <2>6, <2>7, <2>8, Zenon DEF SimTask
<1>5. ASSUME NEW d \in Nat, d <= left, Advance(d), edges # <<>> /\ pc = "waiting" => d = 0, pc # "arm"
      PROVE  Alternates' /\ (Turned' \/ Fresh')
  <2>1. /\ Unscroll(d) /\ button'.state = button.state /\ button'.waking = button.waking
        /\ button'.left = (IF button.left > d THEN button.left - d ELSE 0) /\ UNCHANGED <<pc, phase>>
    BY <1>5, Advanced
  <2>2. /\ QueueLen' = QueueLen /\ \A k \in 1..QueueLen : Queue(k)' = Queue(k)
        /\ edges' \in Seq(Edges) /\ Len(edges') = Len(edges) + Due(d) /\ Due(d) \in Nat
    <3>1. Due(d) \in Nat
      BY <1>0, DueEdges
    <3>2. QED
      BY <1>0, <2>1, <3>1, Unscrolled, Zenon
  <2>3. Alternates' /\ (Turned => Turned')
    BY <1>0, <1>1, <2>1, <2>2, QueueKept
  <2>4. ASSUME Fresh PROVE Fresh'
    <3>1. /\ phase = "wake" /\ pc = "waiting" /\ button.state = "Held" /\ button.waking /\ button.left > 0
          /\ edges # <<>> /\ Head(edges) = "Falling" /\ d = 0
      BY <1>5, <2>4 DEF Fresh
    <3>2. button'.left > 0
      BY <1>0, <2>1, <3>1 DEF Machines, ButtonValues
    <3>3. QueueLen > 0 /\ Queue(1) = Head(edges) /\ Len(edges) > 0
      BY <1>0, <3>1, QueueEdges
    <3>4. edges' # <<>> /\ Len(edges') > 0
      BY <1>0, <2>2, <3>3, EmptySeq
    <3>5. Queue(1)' = Queue(1)
      BY <1>0, <2>2, <3>3
    <3>6. Queue(1)' = Head(edges')
      BY <2>2, <3>4 DEF Queue
    <3>7. QED
      BY <2>1, <3>1, <3>2, <3>3, <3>4, <3>5, <3>6 DEF Fresh
  <2>5. QED
    BY <1>1, <2>3, <2>4
<1>6. CASE Pass
  <2>1. Advance(left) /\ pc \notin {"waiting", "arm"}
    BY <1>6 DEF Pass
  <2>2. QED
    BY <1>0, <1>5, <2>1
<1>7. CASE NextPending
  BY <1>3, <1>7 DEF NextPending
<1>8. CASE NextScripted
  <2>1. PICK d \in Nat : d <= left /\ Advance(d) /\ (edges # <<>> => d = 0) /\ pc = "waiting"
    BY <1>8, ScriptedStep
  <2>2. QED
    BY <1>5, <2>1
<1>9. CASE Deliver
  <2>0. pc = "waiting" /\ UNCHANGED script
    BY <1>9, DeliverStep
  <2>1. CASE event = "Deadline" /\ HandleDeadline
    <3>1. left = 0
      BY <2>1 DEF EventInv
    <3>2. ~Fresh
      BY <2>0, <3>1 DEF Fresh, WaitInv
    <3>3. button' = OnDeadline(button) /\ UNCHANGED edges
      BY <2>1 DEF HandleDeadline
    <3>4. button'.state \in DownStates <=> button.state \in DownStates
      BY <1>0, <3>3, DeadlineMachine
    <3>5. QED
      BY <1>1, <1>2, <2>0, <3>2, <3>3, <3>4
  <2>2. CASE event = "Button" /\ HandleEdge
    <3>1. edges # <<>> /\ button' = OnEdge(button, Head(edges)) /\ edges' = Tail(edges)
      BY <2>2 DEF EventInv, HandleEdge
    <3>2. /\ QueueLen' = QueueLen - 1
          /\ \A k \in 1..(QueueLen - 1) : Queue(k)' = Queue(k + 1)
      BY <1>0, <2>0, <3>1, QueueTaken
    <3>3. QueueLen > 0 /\ Queue(1) = Head(edges) /\ Head(edges) \in Edges
      BY <1>0, <3>1, QueueEdges
    <3>4. ASSUME NEW k \in 1..(QueueLen' - 1) PROVE Queue(k)' # Queue(k + 1)'
      <4>1. k \in 1..(QueueLen - 1) /\ k + 1 \in 1..(QueueLen - 1)
        BY <1>0, <3>2
      <4>2. Queue(k)' = Queue(k + 1) /\ Queue(k + 1)' = Queue((k + 1) + 1)
        BY <3>2, <4>1
      <4>3. QED
        BY <1>1, <4>1, <4>2 DEF Alternates
    <3>5. Alternates'
      BY <3>4 DEF Alternates
    <3>6. button'.state \in DownStates <=> Head(edges) = "Falling"
      BY <1>0, <3>1, <3>3, EdgeMachine
    <3>7. ASSUME QueueLen' > 0 PROVE button'.state \in DownStates <=> Queue(1)' = "Rising"
      <4>1. 1 \in 1..(QueueLen - 1) /\ 1 \in 1..QueueLen /\ 1 + 1 \in 1..QueueLen
        BY <1>0, <3>2, <3>7
      <4>2. Queue(1)' = Queue(1 + 1) /\ Queue(1) # Queue(1 + 1) /\ Queue(1 + 1) \in Edges
        BY <1>0, <1>1, <3>2, <4>1 DEF Alternates
      <4>3. QED
        BY <3>3, <3>6, <4>2 DEF Edges
    <3>8. QED
      BY <3>5, <3>7 DEF Turned
  <2>3. CASE event = "Icd" /\ HandleIcd
    <3>1. UNCHANGED <<edges, button, phase>> /\ (phase = "wake" => pc' = "arm")
      BY <2>3 DEF HandleIcd, Resume
    <3>2. QED
      BY <1>3, <2>0, <3>1 DEF Fresh
  <2>4. QED
    BY <1>9, <2>1, <2>2, <2>3, DeliverStep
<1>10. CASE EndWake
  <2>1. pc = "step" /\ UNCHANGED <<edges, script, button>>
    BY <1>10 DEF EndWake
  <2>2. Turned
    BY <1>1, <2>1 DEF Fresh
  <2>3. QED
    BY <1>2, <2>1, <2>2
<1>11. CASE RunBoot
  <2>1. /\ pc = "over" /\ outcome = "Sleep" /\ SleepFor \in Nat /\ Unscroll(SleepFor)
        /\ wake' = (IF edges' # <<>> /\ Head(edges') = "Falling" THEN "Button" ELSE "Timer")
        /\ button' = NewButton(wake' = "Button") /\ pc' = "arm" /\ phase' = "wake"
    BY <1>11, RunBootStep
  <2>2. /\ QueueLen' = QueueLen /\ \A k \in 1..QueueLen : Queue(k)' = Queue(k)
        /\ edges' \in Seq(Edges)
    BY <1>0, <2>1, Unscrolled
  <2>3. Alternates'
    BY <1>0, <1>1, <2>2, QueueKept
  <2>4. QueueLen > 0 => Queue(1) = "Falling"
    <3>1. Turned /\ button.state = "Idle"
      BY <1>1, <2>1 DEF Fresh, SleepInv
    <3>2. QueueLen > 0 => Queue(1) \in Edges
      BY <1>0
    <3>3. QED
      BY <3>1, <3>2 DEF Turned, DownStates, Edges
  <2>5. QueueLen' > 0 => Queue(1)' = "Falling"
    <3>1. QueueLen > 0 => 1 \in 1..QueueLen
      BY <1>0
    <3>2. QED
      BY <2>2, <2>4, <3>1
  <2>6. CASE edges' = <<>>
    <3>1. button'.state = "Idle"
      BY <2>1, <2>6 DEF NewButton
    <3>2. Turned'
      BY <2>5, <3>1 DEF Turned, DownStates
    <3>3. QED
      BY <2>3, <3>2
  <2>7. CASE edges' # <<>>
    <3>1. Len(edges') > 0 /\ Len(edges') \in Nat /\ Head(edges') = edges'[1]
      BY <2>2, <2>7, EmptySeq
    <3>2. QueueLen' > 0 /\ Queue(1)' = Head(edges')
      <4>1. script' \in Seq(Scripted)
        BY <1>0, <2>1, Unscrolled
      <4>2. Len(script') \in Nat
        BY <4>1, LenProperties
      <4>3. QED
        BY <3>1, <4>2 DEF QueueLen, Queue
    <3>3. wake' = "Button" /\ Head(edges') = "Falling"
      BY <2>1, <2>5, <2>7, <3>2
    <3>4. button'.state = "Held" /\ button'.waking /\ button'.left > 0
      BY <2>1, <3>3 DEF NewButton
    <3>5. QED
      BY <2>1, <2>3, <2>7, <3>3, <3>4 DEF Fresh
  <2>8. QED
    BY <2>6, <2>7
<1>12. CASE UNCHANGED allVars
  BY <1>3, <1>12 DEF allVars, vars, Fresh
<1>13. QED
  BY <1>1, <1>4, <1>6, <1>7, <1>8, <1>9, <1>10, <1>11, <1>12, EitherSteps, Zenon

(* Either program's wake phase waits for the waking press, and no longer than *)
(* for it.                                                                    *)
LEMMA EitherWait ==
  ASSUME TypeInv, WorldTypes, EventInv, WakeInv, WaitInv, TurnInv, [EitherNext]_allVars
  PROVE  WaitInv'
<1> USE Durations DEF world, app, task, stack, atPin, past
<1>0. /\ button \in Machines /\ edges \in Seq(Edges) /\ left \in Nat /\ phase \in {"wake", "operational"}
      /\ \A k \in 1..QueueLen : Queue(k) \in Edges
  BY QueueEdges DEF TypeInv, TypeOK
<1>1. ASSUME [Next]_vars PROVE WaitInv'
  BY <1>1, StepWait
<1>2. ASSUME pc' \notin {"arm", "waiting"} PROVE WaitInv'
  BY <1>2 DEF WaitInv
<1>3. ASSUME phase' # "wake" PROVE WaitInv'
  BY <1>3 DEF WaitInv
<1>4. ASSUME pc' = "arm", WakingPressPending(button') => button'.left > 0 PROVE WaitInv'
  BY <1>4 DEF WaitInv
<1>5. CASE SimTask
  BY <1>1, <1>5, SimTaskStep
<1>6. CASE Pass
  <2>1. pc' \notin {"arm", "waiting"}
    BY <1>6 DEF Pass, Advance
  <2>2. QED
    BY <1>2, <2>1
<1>7. CASE NextPending
  BY <1>7 DEF NextPending, WaitInv
<1>8. CASE NextScripted
  <2>1. PICK d \in Nat : d <= left /\ Advance(d) /\ pc = "waiting"
    BY <1>8, ScriptedStep
  <2>2. /\ button'.state = button.state /\ button'.waking = button.waking
        /\ button'.left = (IF button.left > d THEN button.left - d ELSE 0)
        /\ left' = left - d /\ UNCHANGED <<pc, phase>>
    BY <2>1, Advanced
  <2>3. CASE phase = "wake"
    <3>1. WakingPressPending(button) /\ left = button.left
      BY <2>1, <2>3 DEF WaitInv
    <3>2. button'.left = left'
      BY <1>0, <2>1, <2>2, <3>1
    <3>3. WakingPressPending(button')
      BY <2>2, <3>1 DEF WakingPressPending, HasDeadline
    <3>4. QED
      BY <2>1, <2>2, <3>2, <3>3 DEF WaitInv
  <2>4. QED
    BY <1>3, <2>2, <2>3
<1>9. CASE Deliver /\ OnSimPorts
  <2>0. pc = "waiting"
    BY <1>9, DeliverStep
  <2>1. CASE event = "Deadline" /\ HandleDeadline
    <3>1. left = 0
      BY <2>1 DEF EventInv
    <3>2. QED
      BY <1>1, <2>0, <2>1, <3>1, DueDelivery
  <2>2. CASE event = "Button" /\ HandleEdge
    <3>1. /\ edges # <<>> /\ button' = OnEdge(button, Head(edges)) /\ UNCHANGED phase
          /\ pc' \in {"arm", "step"}
      BY <2>2 DEF EventInv, HandleEdge, OnNothing, Resume
    <3>2. QueueLen > 0 /\ Queue(1) = Head(edges) /\ Head(edges) \in Edges
      BY <1>0, <3>1, QueueEdges, HeadTailProperties
    <3>3. CASE phase = "wake" /\ pc' = "arm"
      <4>1. WakingPressPending(button)
        BY <2>0, <3>3 DEF WaitInv
      <4>2. button.left > 0 \/ (button.state \in DownStates <=> Head(edges) = "Rising")
        BY <1>9, <3>2 DEF TurnInv, Turned, Fresh
      <4>3. WakingPressPending(button') => button'.left > 0
        BY <1>0, <3>1, <3>2, <4>1, <4>2, StillToWait
      <4>4. QED
        BY <1>4, <3>3, <4>3
    <3>4. QED
      BY <1>0, <1>2, <1>3, <3>1, <3>3
  <2>3. CASE event = "Icd" /\ HandleIcd
    <3>1. UNCHANGED <<phase, button>> /\ pc' \in {"arm", "step"}
      BY <2>3 DEF HandleIcd, Resume
    <3>2. CASE phase = "wake" /\ pc' = "arm"
      BY <1>4, <2>0, <2>3, <3>1, <3>2 DEF EventInv, WaitInv
    <3>3. QED
      BY <1>0, <1>2, <1>3, <3>1, <3>2
  <2>4. QED
    BY <1>9, <2>1, <2>2, <2>3, DeliverStep
<1>10. CASE EndWake
  BY <1>3, <1>10 DEF EndWake
<1>11. CASE RunBoot
  <2>1. pc' = "arm" /\ button' = NewButton(wake' = "Button")
    BY <1>11, RunBootStep
  <2>2. QED
    BY <1>4, <2>1 DEF NewButton, WakingPressPending, HasDeadline, TimedStates
<1>12. CASE UNCHANGED allVars
  BY <1>1, <1>12 DEF allVars
<1>13. QED
  BY <1>1, <1>5, <1>6, <1>7, <1>8, <1>9, <1>10, <1>11, <1>12, EitherSteps, Zenon

(* No wait that begins is for an instant that has gone.                       *)
LEMMA WaitsAhead ==
  ASSUME TypeInv, DueInv, WaitInv, [Next]_vars, pc = "arm", pc' = "waiting"
  PROVE  left' > 0
<1>0. /\ button \in Machines /\ phase \in {"wake", "operational"} /\ nextSample \in Nat
      /\ rebootCountDue \in Nat /\ idleSince \in Int
  BY Durations DEF TypeInv, TypeOK, NotIdle
<1>1. ArmWake \/ ArmBoot
  <2>1. DeadlineEvent \/ ButtonEvent \/ IcdEvent => pc # "arm"
    BY DEF DeadlineEvent, ButtonEvent, IcdEvent
  <2>2. StartCalibration \/ CaptureWet \/ EndCalibration \/ StartReading \/ ReadBattery \/ EndReading => pc # "arm"
    BY DEF StartCalibration, CaptureWet, EndCalibration, StartReading, SampleDue, ReadBattery, EndReading
  <2>3. NothingDue \/ EndStartup \/ PersistRebootCount \/ Decide => pc # "arm"
    BY DEF NothingDue, EndStartup, PersistRebootCount, Decide
  <2>4. SendFalling \/ SendRising \/ Message \/ Register \/ GoIdle \/ Poll \/ Tick => pc # "arm"
    BY DEF SendFalling, SendRising, Message, Register, GoIdle, Poll, StackRuns, Tick, Awaiting, Awaits
  <2>5. UNCHANGED vars \/ Person => pc' # "waiting"
    BY PersonStep DEF vars, task
  <2>6. PowerDown => pc # "arm"
    BY PowerDownStep
  <2>7. QED
    BY <2>1, <2>2, <2>3, <2>4, <2>5, <2>6, Steps, Zenon
<1>2. CASE ArmWake
  BY <1>2 DEF ArmWake, Wait, GoOn, WaitInv
<1>3. CASE ArmBoot
  <2>1. left' = NextDeadline /\ nextSample > 0
    BY <1>3 DEF ArmBoot, Wait, DueInv
  <2>2. QED
    BY <1>0, <2>1, NextDeadlineEarly
<1>4. QED
  BY <1>1, <1>2, <1>3

(* Of the loop's own steps only these begin a wait.                           *)
LEMMA SimTaskWaits ==
  ASSUME SimTask, pc' = "waiting"
  PROVE  pc = "arm"
<1>1. ArmWake \/ ArmBoot => pc = "arm"
  BY DEF ArmWake, ArmBoot
<1>2. StartCalibration \/ CaptureWet \/ EndCalibration => pc' # "waiting"
  BY DEF StartCalibration, CaptureWet, EndCalibration, Begin, GoOn
<1>3. StartReading \/ ReadBattery \/ EndReading => pc' # "waiting"
  BY DEF StartReading, SampleDue, ReadBattery, EndReading, Begin
<1>4. phase = "operational" /\ NothingDue => pc' # "waiting"
  BY DEF NothingDue
<1>5. PersistRebootCount \/ Decide => pc' # "waiting"
  BY DecideStep DEF PersistRebootCount, StayUp, DrainAndStayUp, GoDown
<1>6. PowerDown => pc' # "waiting"
  BY PowerDownStep
<1>7. QED
  BY <1>1, <1>2, <1>3, <1>4, <1>5, <1>6, Zenon DEF SimTask

(* An event is handled before anything else, and comes when it says.          *)
LEMMA EitherEvent ==
  ASSUME TypeInv, WorldTypes, EventInv, DueInv, WaitInv, SimInv, [EitherNext]_allVars
  PROVE  EventInv'
<1> USE Durations DEF world, app, task, stack, atPin, past
<1>0. /\ button \in Machines /\ left \in Nat /\ phase \in {"wake", "operational"} /\ litIn \in Nat
      /\ event \in {"none", "Icd", "Button", "Deadline"}
  BY DEF TypeInv, TypeOK, WorldTypes
<1>1. UNCHANGED ports
  BY EitherSteps, Zenon DEF allVars
<1>2. ASSUME event' = "none", OnSimPorts' /\ pc' = "waiting" => left' > 0 PROVE EventInv'
  BY <1>2 DEF EventInv
<1>3. CASE ~OnSimPorts /\ [Next]_vars /\ UNCHANGED <<ports, world>>
  BY <1>2, <1>3 DEF EventInv, OnSimPorts
<1>4. CASE SimTask /\ OnSimPorts
  <2>1. [Next]_vars /\ UNCHANGED event /\ pc # "waiting"
    BY <1>4, SimTaskStep
  <2>2. pc' = "waiting" => left' > 0
    BY <1>4, <2>1, SimTaskWaits, WaitsAhead
  <2>3. QED
    BY <1>2, <2>1, <2>2 DEF EventInv
<1>5. CASE Pass
  BY <1>2, <1>5 DEF Pass, Advance, EventInv
<1>6. CASE NextPending /\ OnSimPorts
  <2>1. pc = "waiting" /\ event = "none" /\ event' = "Icd" /\ icdChanged' = FALSE /\ UNCHANGED <<pc, left, phase>>
    BY <1>6 DEF NextPending
  <2>2. QED
    BY <1>1, <1>6, <2>1 DEF EventInv, OnSimPorts
<1>7. CASE NextScripted /\ OnSimPorts
  <2>1. PICK d \in Nat : /\ d <= left /\ Advance(d) /\ pc = "waiting" /\ ~icdChanged /\ UNCHANGED icdChanged
                         /\ event' \in {"Button", "Icd", "Deadline"}
                         /\ event' = "Button" => edges' # <<>>
                         /\ event' = "Icd" => d \in IcdAt
                         /\ event' = "Deadline" => d = left
    BY <1>7, ScriptedStep
  <2>2. left' = left - d /\ UNCHANGED <<pc, phase>>
    BY <2>1, Advanced
  <2>3. phase = "wake" => event' # "Icd"
    <3>1. phase = "wake" => litIn = 0
      BY <1>7, <2>1 DEF SimInv, LitInv
    <3>2. phase = "wake" => IcdAt = {}
      BY <3>1 DEF IcdAt
    <3>3. QED
      BY <2>1, <3>2
  <2>4. event' = "Deadline" => left' = 0
    BY <1>0, <2>1, <2>2
  <2>5. QED
    BY <1>1, <1>7, <2>1, <2>2, <2>3, <2>4 DEF EventInv, OnSimPorts
<1>8. CASE Deliver
  <2>1. event' = "none"
    BY <1>8, DeliverStep
  <2>2. pc' # "waiting"
    <3>1. HandleDeadline => pc' # "waiting"
      <4>1. OnSampleNow \/ OnCalibrate \/ OnFactoryReset \/ OnNothing => pc' # "waiting"
        BY DEF OnSampleNow, OnCalibrate, OnFactoryReset, OnNothing, Resume
      <4>2. QED
        BY <4>1, Zenon DEF HandleDeadline
    <3>2. HandleEdge \/ HandleIcd => pc' # "waiting"
      BY DEF HandleEdge, HandleIcd, OnNothing, Resume
    <3>3. QED
      BY <1>8, <3>1, <3>2, DeliverStep
  <2>3. QED
    BY <1>2, <2>1, <2>2
<1>9. CASE EndWake
  BY <1>2, <1>9 DEF EndWake, EventInv
<1>10. CASE RunBoot
  BY <1>2, <1>10, RunBootStep DEF EventInv
<1>11. CASE UNCHANGED allVars
  BY <1>11 DEF allVars, vars, EventInv, OnSimPorts
<1>12. QED
  BY <1>3, <1>4, <1>5, <1>6, <1>7, <1>8, <1>9, <1>10, <1>11, EitherSteps, Zenon

\* What the boot knows of the stack's power mode, by its settle time; and that it will
\* look again before it waits.
Agree == idleSince = NotIdle <=> power = "Active"
Looks ==
  /\ pc \in {"step", "decide"} \/ event = "Icd"
  /\ nextSample > 0 /\ ~calibrationRequested
  /\ rebootCountPersisted \/ rebootCountDue > 0

\* Nothing is left to tell the boot.
Known == ~icdChanged /\ (OnSimPorts => (told.active <=> power = "Active"))

ViewInv ==
  /\ phase = "wake" \/ pc = "startup" => idleSince = NotIdle /\ power = "Active"
  /\ OnSimPorts /\ power = "Active" => told.active
  /\ phase = "operational" /\ pc # "over" /\ Known => Agree \/ Looks

(* A step of the loop's own, or of the firmware's world, keeps the two views  *)
(* of the stack together.                                                     *)
LEMMA StepView ==
  ASSUME TypeInv, WakeInv, DueInv, ViewInv, [Next]_vars, UNCHANGED ports, event # "Icd",
         OnSimPorts => UNCHANGED <<told, power>> \/ (power' = "Active" /\ told'.active)
  PROVE  ViewInv'
<1> USE Durations DEF app, task, stack, atPin, past
<1>0. /\ phase \in {"wake", "operational"} /\ power \in {"Active", "Idle"} /\ icdChanged \in BOOLEAN
      /\ idleSince \in NotIdle..Settle /\ nextSample \in Nat /\ left \in Nat /\ rebootCountDue \in Nat
  BY DEF TypeInv, TypeOK
<1>1. OnSimPorts' /\ power' = "Active" => told'.active
  BY DEF ViewInv, OnSimPorts
<1>2. UNCHANGED <<power, icdChanged>> /\ Known' => Known
  <2> SUFFICES ASSUME UNCHANGED <<power, icdChanged>>, Known' PROVE Known
    OBVIOUS
  <2>1. OnSimPorts' <=> OnSimPorts
    BY DEF OnSimPorts
  <2>2. CASE ~OnSimPorts
    BY <2>2 DEF Known
  <2>3. CASE OnSimPorts /\ UNCHANGED <<told, power>>
    BY <2>1, <2>3 DEF Known
  <2>4. CASE OnSimPorts /\ power' = "Active" /\ told'.active
    BY <2>4 DEF Known, ViewInv
  <2>5. QED
    BY <2>2, <2>3, <2>4
<1>3. ASSUME UNCHANGED <<power, icdChanged, phase>>, idleSince' = NotIdle <=> idleSince = NotIdle,
             pc # "over" \/ pc' = "over", pc' = "startup" => pc = "startup",
             phase = "operational" /\ pc' # "over" /\ Looks => Looks'
      PROVE  ViewInv'
  <2>1. phase' = "wake" \/ pc' = "startup" => idleSince' = NotIdle /\ power' = "Active"
    BY <1>3 DEF ViewInv
  <2>2. ASSUME phase' = "operational", pc' # "over", Known' PROVE Agree' \/ Looks'
    <3>1. Known
      BY <1>2, <1>3, <2>2
    <3>2. Agree \/ Looks
      BY <1>3, <2>2, <3>1 DEF ViewInv
    <3>3. Agree => Agree'
      BY <1>3 DEF Agree
    <3>4. QED
      BY <1>3, <2>2, <3>2, <3>3
  <2>3. QED
    BY <1>1, <2>1, <2>2, Zenon DEF ViewInv
<1>4. ASSUME pc # "over", UNCHANGED <<power, icdChanged, phase, idleSince>>,
             pc' # "startup" \/ pc = "startup", ~Looks \/ phase = "wake"
      PROVE  ViewInv'
  BY <1>3, <1>4
<1>5. ASSUME icdChanged', phase' = "operational", pc' # "startup" PROVE ViewInv'
  BY <1>1, <1>5 DEF ViewInv, Known
<1>6. CASE ArmWake \/ ArmBoot
  BY <1>4, <1>6 DEF ArmWake, ArmBoot, Wait, GoOn, Looks
<1>7. CASE DeadlineEvent
  <2>1. /\ pc = "waiting" /\ UNCHANGED <<phase, idleSince>> /\ ~Looks
        /\ OnSampleNow \/ OnCalibrate \/ OnFactoryReset \/ OnNothing
    BY <1>7, DeadlineStep DEF Looks
  <2>2. ASSUME OnSampleNow \/ OnCalibrate PROVE ViewInv'
    <3>1. /\ power' = "Active" /\ icdChanged' = (IF power = "Idle" THEN TRUE ELSE icdChanged)
          /\ pc' \in {"arm", "step"}
      BY <2>2 DEF OnSampleNow, OnCalibrate, RequestActive, Resume
    <3>2. CASE power = "Active"
      BY <1>4, <2>1, <3>1, <3>2
    <3>3. CASE power # "Active"
      <4>1. icdChanged' /\ pc' # "startup"
        BY <1>0, <3>1, <3>3
      <4>2. phase' = "operational"
        BY <1>0, <2>1, <3>3 DEF ViewInv
      <4>3. QED
        BY <1>5, <4>1, <4>2
    <3>4. QED
      BY <3>2, <3>3
  <2>3. ASSUME OnFactoryReset PROVE ViewInv'
    BY <1>4, <2>1, <2>3 DEF OnFactoryReset
  <2>4. ASSUME OnNothing PROVE ViewInv'
    BY <1>4, <2>1, <2>4 DEF OnNothing, Resume
  <2>5. QED
    BY <2>1, <2>2, <2>3, <2>4
<1>8. CASE ButtonEvent
  BY <1>4, <1>8 DEF ButtonEvent, HandleEdge, OnNothing, Resume, Looks
<1>9. CASE IcdEvent
  <2>1. /\ pc = "waiting" /\ left > 0 /\ pc' = (IF phase = "wake" THEN "arm" ELSE "step")
        /\ UNCHANGED <<power, idleSince, phase, nextSample, calibrationRequested, rebootCountPersisted,
                       rebootCountDue>>
    BY <1>9 DEF IcdEvent, HandleIcd, Resume
  <2>2. phase = "operational" => Looks'
    BY <1>0, <2>1 DEF DueInv, Looks
  <2>3. QED
    BY <1>0, <1>1, <2>1, <2>2 DEF ViewInv
<1>10. CASE StartCalibration \/ CaptureWet \/ EndCalibration
  BY <1>4, <1>10 DEF StartCalibration, CaptureWet, EndCalibration, Begin, GoOn, Looks
<1>11. CASE StartReading \/ ReadBattery \/ EndReading
  BY <1>4, <1>11 DEF StartReading, SampleDue, ReadBattery, EndReading, Begin, Looks
<1>12. CASE NothingDue
  <2>1. /\ pc = "step" /\ UNCHANGED <<power, icdChanged, idleSince, nextSample, calibrationRequested,
                                       rebootCountPersisted, rebootCountDue>>
    BY <1>12 DEF NothingDue
  <2>2. CASE phase = "wake"
    <3>1. idleSince' = NotIdle /\ power' = "Active"
      BY <2>1, <2>2 DEF ViewInv
    <3>2. QED
      BY <1>1, <3>1 DEF ViewInv, Agree
  <2>3. CASE phase # "wake"
    <3>1. UNCHANGED phase /\ pc' = "decide"
      BY <1>12, <2>3 DEF NothingDue
    <3>2. Looks => Looks'
      BY <2>1, <3>1 DEF Looks
    <3>3. QED
      BY <1>3, <2>1, <3>1, <3>2
  <2>4. QED
    BY <2>2, <2>3
<1>13. CASE EndStartup
  <2>1. pc = "startup" /\ pc' = "step" /\ UNCHANGED <<power, icdChanged, idleSince, phase>>
    BY <1>13 DEF EndStartup, GoOn
  <2>2. ~Looks
    BY <2>1 DEF Looks
  <2>3. QED
    BY <1>4, <2>1, <2>2
<1>14. CASE PersistRebootCount
  BY <1>4, <1>14 DEF PersistRebootCount, Looks
<1>15. CASE Decide
  <2>1. pc = "decide" /\ idleSince' = TrackIdle /\ UNCHANGED <<power, phase>> /\ pc' # "startup"
    BY <1>15, DecideStep DEF StayUp, DrainAndStayUp, GoDown
  <2>2. phase = "operational"
    BY <2>1 DEF DueInv
  <2>3. Agree'
    BY <1>0, <2>1 DEF Agree, TrackIdle, NotIdle
  <2>4. QED
    BY <1>1, <2>1, <2>2, <2>3 DEF ViewInv
<1>16. CASE SendFalling \/ SendRising
  <2>1. Awaiting /\ UNCHANGED <<pc, phase, power, icdChanged, idleSince>>
    BY <1>16 DEF SendFalling, SendRising
  <2>2. QED
    BY <1>4, <2>1 DEF Looks, Awaiting, Awaits
<1>17. CASE Message
  <2>1. /\ Awaiting /\ phase = "operational" /\ pc # "startup" /\ power' = "Active"
        /\ icdChanged' = (IF power = "Idle" THEN TRUE ELSE icdChanged) /\ UNCHANGED <<pc, phase, idleSince>>
    BY <1>17 DEF Message, StackRuns
  <2>2. CASE power = "Active"
    BY <1>4, <2>1, <2>2 DEF Looks, Awaiting, Awaits
  <2>3. CASE power # "Active"
    BY <1>0, <1>5, <2>1, <2>3
  <2>4. QED
    BY <2>2, <2>3
<1>18. CASE Register
  <2>1. Awaiting /\ UNCHANGED <<pc, phase, power, icdChanged, idleSince>>
    BY <1>18 DEF Register, StackRuns
  <2>2. QED
    BY <1>4, <2>1 DEF Looks, Awaiting, Awaits
<1>19. CASE GoIdle \/ Poll
  BY <1>5, <1>19 DEF GoIdle, Poll, StackRuns
<1>20. CASE Tick
  <2>1. Awaiting /\ UNCHANGED <<pc, phase, power, icdChanged>>
        /\ idleSince' = IF idleSince \in {NotIdle, Settle} THEN idleSince ELSE idleSince + 1
    BY <1>20 DEF Tick
  <2>2. idleSince' = NotIdle <=> idleSince = NotIdle
    BY <1>0, <2>1 DEF NotIdle
  <2>3. ~Looks
    BY <2>1 DEF Looks, Awaiting, Awaits
  <2>4. QED
    BY <1>3, <2>1, <2>2, <2>3 DEF Awaiting, Awaits
<1>21. CASE UNCHANGED vars
  <2>1. UNCHANGED <<pc, phase, power, icdChanged, idleSince, nextSample, calibrationRequested,
                    rebootCountPersisted, rebootCountDue>>
    BY <1>21 DEF vars
  <2>2. Looks => Looks'
    BY <2>1 DEF Looks
  <2>3. QED
    BY <1>3, <2>1, <2>2
<1>22. CASE Person
  <2>1. UNCHANGED <<pc, phase, power, icdChanged, idleSince, nextSample, calibrationRequested,
                    rebootCountPersisted, rebootCountDue>>
    BY <1>22, PersonStep
  <2>2. Looks => Looks'
    BY <2>1 DEF Looks
  <2>3. QED
    BY <1>3, <2>1, <2>2
<1>23. CASE PowerDown
  <2>1. pc = "tail" /\ pc' = "over" /\ UNCHANGED <<phase, power, icdChanged, idleSince>>
    BY <1>23, PowerDownStep
  <2>2. QED
    BY <1>3, <2>1
<1>24. QED
  BY <1>22, <1>23, <1>6, <1>7, <1>8, <1>9, <1>10, <1>11, <1>12, <1>13, <1>14, <1>15, <1>16, <1>17, <1>18, <1>19, <1>20, <1>21,
     Steps, Zenon

(* The loop's own steps leave the simulated stack alone.                      *)
LEMMA SimTaskPower == SimTask => UNCHANGED power
<1> USE DEF stack
<1>1. ArmWake \/ ArmBoot => UNCHANGED power
  BY DEF ArmWake, ArmBoot, Wait, GoOn
<1>2. StartCalibration \/ CaptureWet \/ EndCalibration => UNCHANGED power
  BY DEF StartCalibration, CaptureWet, EndCalibration, GoOn
<1>3. StartReading \/ ReadBattery \/ EndReading => UNCHANGED power
  BY DEF StartReading, ReadBattery, EndReading
<1>4. NothingDue \/ PersistRebootCount \/ Decide => UNCHANGED power
  BY DecideStep DEF NothingDue, PersistRebootCount
<1>5. PowerDown => UNCHANGED power
  BY PowerDownStep
<1>6. QED
  BY <1>1, <1>2, <1>3, <1>4, <1>5, Zenon DEF SimTask

(* Either program keeps the two views of the stack together.                  *)
LEMMA EitherView ==
  ASSUME TypeInv, WorldTypes, EventInv, WakeInv, DueInv, ViewInv, [EitherNext]_allVars
  PROVE  ViewInv'
<1> USE Durations DEF world, app, task, stack, atPin, past
<1>0. /\ phase \in {"wake", "operational"} /\ power \in {"Active", "Idle"} /\ icdChanged \in BOOLEAN
      /\ idleSince \in NotIdle..Settle /\ nextSample \in Nat /\ left \in Nat /\ rebootCountDue \in Nat
      /\ told.active \in BOOLEAN /\ told.lit \in BOOLEAN
      /\ event \in {"none", "Icd", "Button", "Deadline"}
  BY DEF TypeInv, TypeOK, WorldTypes
<1>1. UNCHANGED ports /\ (OnSimPorts' <=> OnSimPorts)
  <2>1. UNCHANGED ports
    BY EitherSteps, Zenon DEF allVars
  <2>2. QED
    BY <2>1 DEF OnSimPorts
<1>2. View.active <=> power = "Active"
  BY DEF View
<1>3. View'.active <=> power' = "Active"
  BY DEF View
<1>4. CASE ~OnSimPorts /\ [Next]_vars /\ UNCHANGED <<ports, world>>
  BY <1>4, StepView DEF EventInv
<1>5. CASE SimTask
  BY <1>1, <1>5, SimTaskStep, SimTaskPower, StepView DEF EventInv
<1>6. ASSUME NEW d \in Nat, d <= left, Advance(d), pc \in {"waiting", "soil", "battery", "calDry", "calWet"},
             event # "Icd"
      PROVE  /\ UNCHANGED <<pc, phase>> /\ (idleSince' = NotIdle <=> idleSince = NotIdle)
             /\ power' \in {power, "Idle"} /\ (phase = "wake" => UNCHANGED power)
             /\ ~Looks
  BY <1>0, <1>6, Advanced, Aged DEF Looks
<1>7. ASSUME OnSimPorts, UNCHANGED <<pc, phase>>, pc # "over", pc # "startup",
             idleSince' = NotIdle <=> idleSince = NotIdle, ~Looks,
             power' \in {power, "Idle"}, phase = "wake" => UNCHANGED power,
             \/ UNCHANGED <<told, icdChanged>>
             \/ told' = View' /\ icdChanged' = (icdChanged \/ View' # told)
      PROVE  ViewInv'
  <2>1. OnSimPorts' /\ power' = "Active" => told'.active
    BY <1>0, <1>3, <1>7 DEF ViewInv
  <2>2. phase' = "wake" \/ pc' = "startup" => idleSince' = NotIdle /\ power' = "Active"
    BY <1>7 DEF ViewInv
  <2>3. ASSUME phase' = "operational", Known' PROVE Agree'
    <3>1. ~icdChanged' /\ (told'.active <=> power' = "Active")
      BY <1>1, <1>7, <2>3 DEF Known
    <3>2. ~icdChanged /\ (told.active <=> power' = "Active")
      <4>1. CASE UNCHANGED <<told, icdChanged>>
        BY <3>1, <4>1
      <4>2. CASE told' = View' /\ icdChanged' = (icdChanged \/ View' # told)
        <5>1. ~icdChanged /\ View' = told
          BY <3>1, <4>2, Zenon
        <5>2. QED
          BY <1>3, <5>1
      <4>3. QED
        BY <1>7, <4>1, <4>2
    <3>3. UNCHANGED power
      BY <1>0, <1>7, <3>2 DEF ViewInv
    <3>4. Known
      BY <3>2, <3>3 DEF Known
    <3>5. Agree
      BY <1>7, <2>3, <3>4 DEF ViewInv
    <3>6. QED
      BY <1>7, <3>3, <3>5 DEF Agree
  <2>4. QED
    BY <2>1, <2>2, <2>3, Zenon DEF ViewInv
<1>8. CASE Pass /\ OnSimPorts
  <2>1. /\ pc \in {"soil", "battery", "calDry", "calWet"} /\ Advance(left)
        /\ event = "none"
    BY <1>8 DEF Pass, EventInv
  <2>2. \/ UNCHANGED <<told, icdChanged>>
        \/ told' = View' /\ icdChanged' = (icdChanged \/ View' # told)
    BY <1>8, Zenon DEF Pass, Sync
  <2>3. left <= left /\ event # "Icd" /\ pc # "over" /\ pc # "startup"
        /\ pc \in {"waiting", "soil", "battery", "calDry", "calWet"}
    BY <1>0, <2>1
  <2>4. QED
    BY <1>0, <1>6, <1>7, <1>8, <2>1, <2>2, <2>3
<1>9. CASE NextPending /\ OnSimPorts
  <2>1. /\ pc = "waiting" /\ event = "none" /\ event' = "Icd" /\ told' = View'
        /\ UNCHANGED <<pc, phase, power, idleSince, nextSample, calibrationRequested, rebootCountPersisted,
                       rebootCountDue>>
    BY <1>9 DEF NextPending, View
  <2>2. left > 0
    BY <1>9, <2>1 DEF EventInv
  <2>3. phase = "operational" => Looks'
    BY <1>0, <2>1, <2>2 DEF DueInv, Looks
  <2>4. told'.active <=> power' = "Active"
    BY <1>3, <2>1
  <2>5. QED
    BY <2>1, <2>3, <2>4 DEF ViewInv
<1>10. CASE NextScripted /\ OnSimPorts
  <2>1. PICK d \in Nat : d <= left /\ Advance(d) /\ pc = "waiting" /\ event = "none"
                         /\ UNCHANGED <<told, icdChanged>>
    BY <1>10, ScriptedStep
  <2>2. event # "Icd" /\ pc # "over" /\ pc # "startup" /\ pc \in {"waiting", "soil", "battery", "calDry", "calWet"}
    BY <2>1
  <2>3. QED
    BY <1>6, <1>7, <1>10, <2>1, <2>2
<1>11. CASE Deliver /\ OnSimPorts
  <2>0. pc = "waiting"
    BY <1>11, DeliverStep
  <2>1. CASE event = "Deadline" /\ HandleDeadline
            /\ told' = IF GestureAtDeadline(button) \in {"SampleNow", "Calibrate"} THEN View' ELSE told
    <3>1. [Next]_vars
      BY <2>0, <2>1, DueDelivery DEF EventInv
    <3>2. CASE GestureAtDeadline(button) \in {"SampleNow", "Calibrate"}
      <4>1. OnSampleNow \/ OnCalibrate
        BY <2>1, <3>2, Zenon DEF HandleDeadline
      <4>2. power' = "Active"
        BY <4>1 DEF OnSampleNow, OnCalibrate, RequestActive
      <4>3. told'.active
        BY <1>3, <2>1, <3>2, <4>2
      <4>4. QED
        BY <1>1, <2>1, <3>1, <4>2, <4>3, StepView
    <3>3. CASE GestureAtDeadline(button) \notin {"SampleNow", "Calibrate"}
      <4>1. OnFactoryReset \/ OnNothing
        BY <2>1, <3>3 DEF HandleDeadline
      <4>2. UNCHANGED <<told, power>>
        BY <2>1, <3>3, <4>1 DEF OnFactoryReset, OnNothing
      <4>3. QED
        BY <1>1, <2>1, <3>1, <4>2, StepView
    <3>4. QED
      BY <3>2, <3>3
  <2>2. CASE event = "Button" /\ HandleEdge /\ UNCHANGED told
    <3>1. UNCHANGED <<power, icdChanged, idleSince, phase, told>> /\ pc' # "startup"
      BY <2>2 DEF HandleEdge, OnNothing, Resume
    <3>2. ~Looks /\ (Known' => Known) /\ (Agree => Agree')
      BY <1>1, <2>0, <2>2, <3>1 DEF Looks, Known, Agree
    <3>3. QED
      BY <1>1, <2>0, <3>1, <3>2 DEF ViewInv
  <2>3. CASE event = "Icd" /\ HandleIcd /\ UNCHANGED told
    <3>1. /\ pc' = (IF phase = "wake" THEN "arm" ELSE "step")
          /\ UNCHANGED <<power, idleSince, phase, told, nextSample, calibrationRequested, rebootCountPersisted,
                         rebootCountDue>>
      BY <2>3 DEF HandleIcd, Resume
    <3>2. ~icdChanged
      BY <2>3 DEF EventInv
    <3>3. (Known' => Known) /\ (Agree => Agree')
      BY <1>1, <3>1, <3>2 DEF Known, Agree
    <3>4. phase = "operational" /\ Looks => Looks'
      BY <3>1 DEF Looks
    <3>5. QED
      BY <1>0, <1>1, <2>0, <3>1, <3>3, <3>4 DEF ViewInv
  <2>4. QED
    BY <1>11, <2>1, <2>2, <2>3, DeliverStep
<1>12. CASE EndWake
  <2>1. /\ phase = "wake" /\ phase' = "operational" /\ pc = "step" /\ told' = View'
        /\ UNCHANGED <<pc, power, idleSince>>
    BY <1>12, Zenon DEF EndWake, Sync, app, stack
  <2>2. idleSince' = NotIdle /\ power' = "Active"
    BY <2>1 DEF ViewInv
  <2>3. told'.active
    BY <1>3, <2>1, <2>2
  <2>4. QED
    BY <2>1, <2>2, <2>3 DEF ViewInv, Agree
<1>13. CASE RunBoot
  <2>1. phase' = "wake" /\ pc' = "arm" /\ idleSince' = NotIdle /\ power' = "Active" /\ told' = View'
    BY <1>13, RunBootStep
  <2>2. told'.active
    BY <1>3, <2>1
  <2>3. QED
    BY <2>1, <2>2 DEF ViewInv
<1>14. CASE UNCHANGED allVars
  <2>1. UNCHANGED <<pc, phase, power, icdChanged, idleSince, nextSample, calibrationRequested,
                    rebootCountPersisted, rebootCountDue, told, event>>
    BY <1>14 DEF allVars, vars
  <2>2. (Known' <=> Known) /\ (Agree' <=> Agree) /\ (Looks' <=> Looks)
    BY <1>1, <2>1 DEF Known, Agree, Looks
  <2>3. QED
    BY <1>1, <2>1, <2>2 DEF ViewInv
<1>15. QED
  BY <1>4, <1>5, <1>8, <1>9, <1>10, <1>11, <1>12, <1>13, <1>14, EitherSteps, Zenon

(* A boot of either has seen or has yet to see the edges that lead to where   *)
(* they leave the pin, and it goes down only at rest.                         *)
LEMMA EitherPin ==
  ASSUME TypeInv, WorldTypes, EventInv, DueInv, SimInv, PinInv, [EitherNext]_allVars
  PROVE  PinInv'
<1> USE Durations DEF world, app, task, stack, atPin, past
<1>0. /\ button \in Machines /\ edges \in Seq(Edges) /\ sent \in {"up", "down"} /\ left \in Nat
      /\ outcome \in {"none", "Sleep", "FactoryReset"} /\ Len(edges) \in Nat
  BY LenProperties DEF TypeInv, TypeOK
<1>1. ASSUME pc # "over", pc' # "tail", UNCHANGED outcome, sent' = "down" <=> LastDown',
             sent' = "up" /\ pin' = "down" => latched'
      PROVE  PinInv'
  BY <1>1 DEF PinInv
<1>2. ASSUME pc # "over", pc' # "tail", UNCHANGED <<outcome, sent, pin, latched, edges, button>> PROVE PinInv'
  <2>1. LastDown' <=> LastDown
    BY <1>2 DEF LastDown
  <2>2. QED
    BY <1>1, <1>2, <2>1 DEF PinInv
<1>3. ASSUME NEW d \in Nat, Unscroll(d),
             edges = <<>> /\ edges' = <<>> => (button'.state \in DownStates <=> sent = "down")
      PROVE  (sent' = "down" <=> LastDown') /\ (sent' = "up" /\ pin' = "down" => latched')
  <2>1. /\ sent' = IF edges' = <<>> THEN sent
                   ELSE IF edges'[Len(edges')] = "Falling" THEN "down" ELSE "up"
        /\ pin' = sent'
    BY <1>3, Zenon DEF Unscroll
  <2>2. CASE edges' = <<>>
    <3>1. Len(edges') = Len(edges) + Due(d) /\ edges' \in Seq(Edges)
      BY <1>0, <1>3, Unscrolled, Zenon
    <3>2. Due(d) \in Nat
      BY <1>3, DueEdges
    <3>3. edges = <<>>
      BY <1>0, <2>2, <3>1, <3>2, EmptySeq
    <3>4. sent' = sent
      BY <2>1, <2>2
    <3>5. QED
      BY <1>3, <2>1, <2>2, <3>3, <3>4 DEF LastDown
  <2>3. CASE edges' # <<>>
    BY <2>1, <2>3 DEF LastDown
  <2>4. QED
    BY <2>2, <2>3
<1>4. ASSUME NEW d \in Nat, d <= left, Advance(d), pc \in Awaits PROVE PinInv'
  <2>1. Unscroll(d) /\ button'.state = button.state /\ UNCHANGED <<pc, outcome>>
    BY <1>4, Advanced
  <2>2. edges = <<>> => (button'.state \in DownStates <=> sent = "down")
    BY <2>1 DEF PinInv, LastDown
  <2>3. (sent' = "down" <=> LastDown') /\ (sent' = "up" /\ pin' = "down" => latched')
    BY <1>3, <2>1, <2>2
  <2>4. QED
    BY <1>1, <1>4, <2>1, <2>3 DEF Awaits
<1>5. ASSUME [Next]_vars PROVE PinInv'
  BY <1>5, StepPin
<1>6. CASE SimTask
  BY <1>5, <1>6, SimTaskStep
<1>7. CASE Pass
  <2>1. Advance(left) /\ pc \in Awaits /\ left <= left
    BY <1>0, <1>7 DEF Pass, Awaits
  <2>2. QED
    BY <1>0, <1>4, <2>1
<1>8. CASE NextPending
  BY <1>2, <1>8 DEF NextPending
<1>9. CASE NextScripted
  <2>1. PICK d \in Nat : d <= left /\ Advance(d) /\ pc = "waiting"
    BY <1>9, ScriptedStep
  <2>2. QED
    BY <1>4, <2>1 DEF Awaits
<1>10. CASE Deliver
  <2>0. pc = "waiting"
    BY <1>10, DeliverStep
  <2>1. CASE event = "Deadline" /\ HandleDeadline
    BY <1>5, <2>0, <2>1, DueDelivery DEF EventInv
  <2>2. CASE event = "Button" /\ HandleEdge
    <3>1. /\ edges # <<>> /\ button' = OnEdge(button, Head(edges)) /\ edges' = Tail(edges)
          /\ pc' # "tail" /\ UNCHANGED <<sent, pin, latched, outcome>>
      BY <2>2 DEF EventInv, HandleEdge, OnNothing, Resume
    <3>2. LastDown' <=> LastDown
      BY <1>0, <3>1, LastEdge
    <3>3. QED
      BY <1>1, <2>0, <3>1, <3>2 DEF PinInv
  <2>3. CASE HandleIcd
    BY <1>2, <2>0, <2>3 DEF HandleIcd, Resume
  <2>4. QED
    BY <1>10, <2>1, <2>2, <2>3, DeliverStep
<1>11. CASE EndWake
  BY <1>2, <1>11 DEF EndWake
<1>12. CASE RunBoot
  <2>1. /\ outcome = "Sleep" /\ outcome' = "none" /\ pc' = "arm" /\ SleepFor \in Nat /\ Unscroll(SleepFor)
        /\ button' = NewButton(wake' = "Button")
        /\ wake' = (IF edges' # <<>> /\ Head(edges') = "Falling" THEN "Button" ELSE "Timer")
    BY <1>12, RunBootStep
  <2>2. AtRest
    BY <2>1 DEF PinInv
  <2>3. edges' = <<>> => button'.state = "Idle"
    BY <2>1 DEF NewButton
  <2>4. sent # "down"
    BY <2>2 DEF PinInv, AtRest, LastDown, IsActive, DownStates
  <2>5. (sent' = "down" <=> LastDown') /\ (sent' = "up" /\ pin' = "down" => latched')
    BY <1>3, <2>1, <2>3, <2>4 DEF DownStates
  <2>6. QED
    BY <2>1, <2>5 DEF PinInv
<1>13. CASE UNCHANGED allVars
  BY <1>5, <1>13 DEF allVars
<1>14. QED
  BY <1>5, <1>6, <1>7, <1>8, <1>9, <1>10, <1>11, <1>12, <1>13, EitherSteps, Zenon

(* A boot of either counts its reboot once.                                   *)
LEMMA EitherCount ==
  ASSUME TypeInv, WorldTypes, EventInv, CountInv, [EitherNext]_allVars
  PROVE  CountInv'
<1> USE Durations DEF world, app, task, stack, atPin, past
<1>0. left \in Nat /\ rebootCountDue \in Nat
  BY DEF TypeInv, TypeOK
<1>1. ASSUME pc # "over", UNCHANGED <<rebootWrites, rebootCountPersisted, outcome, wake>>,
             rebootCountDue = 0 => rebootCountDue' = 0
      PROVE  CountInv'
  BY <1>1 DEF CountInv
<1>2. ASSUME [Next]_vars PROVE CountInv'
  BY <1>2, StepCount
<1>3. ASSUME NEW d \in Nat, d <= left, Advance(d), pc # "over" PROVE CountInv'
  <2>1. /\ rebootCountDue' = Less(rebootCountDue, d)
        /\ UNCHANGED <<rebootWrites, rebootCountPersisted, outcome, wake>>
    BY <1>3, Advanced
  <2>2. QED
    BY <1>1, <1>3, <2>1 DEF Less
<1>4. CASE SimTask
  BY <1>2, <1>4, SimTaskStep
<1>5. CASE Pass
  <2>1. Advance(left) /\ pc # "over" /\ left <= left
    BY <1>0, <1>5 DEF Pass
  <2>2. QED
    BY <1>0, <1>3, <2>1
<1>6. CASE NextPending
  BY <1>1, <1>6 DEF NextPending
<1>7. CASE NextScripted
  <2>1. PICK d \in Nat : d <= left /\ Advance(d) /\ pc = "waiting"
    BY <1>7, ScriptedStep
  <2>2. QED
    BY <1>3, <2>1
<1>8. CASE Deliver
  <2>0. pc = "waiting"
    BY <1>8, DeliverStep
  <2>1. CASE event = "Deadline" /\ HandleDeadline
    BY <1>2, <2>0, <2>1, DueDelivery DEF EventInv
  <2>2. CASE HandleEdge
    BY <1>1, <2>0, <2>2 DEF HandleEdge, OnNothing
  <2>3. CASE HandleIcd
    BY <1>1, <2>0, <2>3 DEF HandleIcd
  <2>4. QED
    BY <1>8, <2>1, <2>2, <2>3, DeliverStep
<1>9. CASE EndWake
  BY <1>1, <1>9 DEF EndWake
<1>10. CASE RunBoot
  BY <1>10, RunBootStep DEF CountInv
<1>11. CASE UNCHANGED allVars
  BY <1>2, <1>11 DEF allVars
<1>12. QED
  BY <1>2, <1>4, <1>5, <1>6, <1>7, <1>8, <1>9, <1>10, <1>11, EitherSteps, Zenon

\* What holds of a boot over either set of ports.
EitherInv ==
  /\ TypeInv /\ WorldTypes /\ EventInv /\ WakeInv /\ DueInv /\ WaitInv
  /\ SimInv /\ TurnInv /\ ViewInv /\ PinInv /\ CountInv

(* A boot of either begins so.                                                *)
LEMMA EitherInitInv == EitherInit => EitherInv
<1> SUFFICES ASSUME EitherInit PROVE EitherInv
  OBVIOUS
<1> USE Durations
<1>1. /\ TypeInv /\ WorldTypes /\ Init /\ event = "none"
      /\ OnSimPorts => /\ script \in {Pressed(s) : s \in Scripts} /\ wake # "Button" /\ lit = (litIn = 0)
                       /\ told = View
  BY EitherBegins
<1>2. /\ pc = "arm" /\ phase = "wake" /\ nextSample = 0 /\ wakeReadings = 0 /\ ~calibrationRequested
      /\ idleSince = NotIdle /\ power = "Active" /\ outcome = "none"
      /\ button = NewButton(wake = "Button") /\ edges \in Seq(Edges)
      /\ (wake # "Button" => edges = <<>>)
  BY <1>1 DEF Init, TypeInv, TypeOK
<1>3. EventInv /\ WakeInv /\ DueInv
  BY <1>1, <1>2 DEF EventInv, WakeInv, WakePhase, WakePCs, DueInv
<1>4. WaitInv
  BY <1>2 DEF WaitInv, NewButton, WakingPressPending, HasDeadline, TimedStates
<1>5. SimInv
  BY <1>1, <1>2 DEF SimInv, SleepInv, LitInv, NewButton
<1>6. ViewInv
  <2>1. View.active <=> power = "Active"
    BY DEF View
  <2>2. OnSimPorts => told.active
    BY <1>1, <1>2, <2>1
  <2>3. QED
    BY <1>2, <2>2 DEF ViewInv
<1>7. ASSUME OnSimPorts PROVE Alternates /\ Turned
  <2>1. PICK s \in Scripts : script = Pressed(s)
    BY <1>1, <1>7
  <2>2. \A k \in 1..Len(script) : script[k].edge = IF k % 2 = 1 THEN "Falling" ELSE "Rising"
    BY <2>1, PressedAlternates
  <2>3. edges = <<>> /\ Len(edges) = 0 /\ Len(script) \in Nat /\ button.state = "Idle"
    BY <1>1, <1>2, <1>7, LenProperties, EmptySeq DEF WorldTypes, NewButton
  <2>4. QueueLen = Len(script)
    BY <2>3 DEF QueueLen
  <2>5. ASSUME NEW k \in 1..Len(script) PROVE Queue(k) = IF k % 2 = 1 THEN "Falling" ELSE "Rising"
    <3>1. k - 0 = k /\ ~(k <= 0)
      OBVIOUS
    <3>2. Queue(k) = script[k].edge
      BY <2>3, <3>1 DEF Queue
    <3>3. QED
      BY <2>2, <3>2
  <2>6. ASSUME NEW k \in 1..(QueueLen - 1) PROVE Queue(k) # Queue(k + 1)
    <3>1. k \in 1..Len(script) /\ k + 1 \in 1..Len(script) /\ (k % 2 = 1 <=> (k + 1) % 2 # 1)
      BY <2>3, <2>4
    <3>2. QED
      BY <2>5, <3>1
  <2>7. ASSUME QueueLen > 0 PROVE Queue(1) = "Falling"
    <3>1. 1 \in 1..Len(script) /\ 1 % 2 = 1
      BY <2>3, <2>4, <2>7
    <3>2. QED
      BY <2>5, <3>1
  <2>8. QED
    BY <2>3, <2>6, <2>7 DEF Alternates, Turned, DownStates
<1>8. TurnInv
  BY <1>7 DEF TurnInv
<1>9. PinInv /\ CountInv
  BY <1>1, InitPin, InitCount
<1>10. QED
  BY <1>1, <1>3, <1>4, <1>5, <1>6, <1>8, <1>9 DEF EitherInv

(* A step of either keeps it so.                                              *)
LEMMA EitherStepInv == EitherInv /\ [EitherNext]_allVars => EitherInv'
BY EitherTypes, EitherEvent, EitherDue, EitherWait, EitherSim, EitherTurn, EitherView, EitherPin, EitherCount,
   Zenon DEF EitherInv

(* It always holds.                                                           *)
LEMMA EitherAlways == EitherSpec => []EitherInv
BY EitherInitInv, EitherStepInv, PTL DEF EitherSpec

(* Over either set of ports the state has its types: the boot loop's own, and *)
(* the scripted world's (world.rs).                                           *)
THEOREM EitherTypesHold == EitherSpec => [](TypeOK /\ WorldTypes)
<1>1. EitherInv => TypeOK /\ WorldTypes
  BY DEF EitherInv, TypeInv
<1>2. QED
  BY <1>1, EitherAlways, PTL

(* Over either set of ports, and whatever is scripted, a boot that waits with *)
(* nothing left to hear counts its settle time by the stack's present state   *)
(* (ports.rs and world.rs, next_event).                                       *)
THEOREM EitherViewFresh == EitherSpec => []ViewFresh
<1>1. EitherInv => ViewFresh
  <2> SUFFICES ASSUME EitherInv, pc = "waiting", phase = "operational", event = "none", ~icdChanged,
                      ports = "SimPorts" => View = told
               PROVE  idleSince = NotIdle <=> power = "Active"
    BY DEF ViewFresh
  <2>0. View.active <=> power = "Active"
    BY DEF View
  <2>1. Known
    BY <2>0 DEF Known, OnSimPorts
  <2>2. ~Looks
    BY DEF Looks
  <2>3. QED
    BY <2>1, <2>2 DEF EitherInv, ViewInv, Agree
<1>2. QED
  BY <1>1, EitherAlways, PTL

(* Over either set of ports no wait is for an instant that has gone, so the   *)
(* scripted world never meets "a wait nothing can end" (world.rs, next_event; *)
(* app.rs, next_deadline and run_wake).                                       *)
THEOREM EitherWaitsForLater == EitherSpec => WaitsForLater
<1>1. ASSUME EitherInv, [EitherNext]_allVars
      PROVE  [pc = "arm" /\ pc' = "waiting" => left' > 0]_vars
  <2>1. TypeInv /\ WorldTypes /\ DueInv /\ WaitInv
    BY <1>1 DEF EitherInv
  <2>2. ASSUME pc = "arm", pc' = "waiting" PROVE left' > 0
    <3>1. CASE [Next]_vars
      BY <2>1, <2>2, <3>1, WaitsAhead
    <3>2. CASE SimTask
      BY <2>1, <2>2, <3>2, SimTaskStep, WaitsAhead
    <3>3. Pass \/ NextPending \/ NextScripted \/ Deliver \/ EndWake \/ RunBoot => pc # "arm"
      BY DEF Pass, NextPending, NextScripted, Deliver, EndWake, RunBoot
    <3>4. QED
      BY <1>1, <2>2, <3>1, <3>2, <3>3, EitherSteps, Zenon DEF allVars
  <2>3. QED
    BY <2>2
<1>2. QED
  BY <1>1, EitherAlways, PTL DEF EitherSpec, WaitsForLater

(* The simulated device, too, reads exactly once before its stack starts, and *)
(* never before the press that woke it is decided (app.rs, run_wake).         *)
THEOREM EitherReadsOncePerWake == EitherSpec => []OneReadingPerWake
<1>1. EitherInv => OneReadingPerWake
  <2>1. EitherInv => phase \in {"wake", "operational"} /\ WakeInv
    BY DEF EitherInv, TypeInv, TypeOK
  <2>2. QED
    BY <2>1 DEF WakeInv, WakePhase, OneReadingPerWake
<1>2. QED
  BY <1>1, EitherAlways, PTL

(* It sleeps only at rest, boot after boot: whatever is pressed in its sleep  *)
(* is in its queue, or wakes it (app.rs, step; world.rs, run_until).          *)
THEOREM EitherSleepsAtRest == EitherSpec => []SleepOnlyAtRest
<1>1. EitherInv => SleepOnlyAtRest
  BY PinAtRest DEF EitherInv
<1>2. QED
  BY <1>1, EitherAlways, PTL

(* It counts a reboot once, and none for the boots that end its sleeps        *)
(* (app.rs, App::new and step; world.rs, run_until).                          *)
THEOREM EitherCountsOnce == EitherSpec => []RebootCountedOnce
<1>1. EitherInv => RebootCountedOnce
  BY DEF EitherInv, CountInv, RebootCountedOnce
<1>2. QED
  BY <1>1, EitherAlways, PTL

-----------------------------------------------------------------------------
(* The simulated device sleeps settled, and in time for its stack's poll. *)

\* No record ever waits in the simulated stack.
RecordInv == DirtyInv /\ (OnSimPorts => dirtyLeft = 0)

\* The loop's memory of the idle stack, while it has yet to hear what it was told.
HeardInv ==
  /\ phase = "wake" => idleSince = NotIdle
  /\ power = "Idle" /\ idleSince # NotIdle => idleSince <= trueIdle
  /\ Stale => /\ holdLeft > 0 /\ nextSample > 0 /\ ~calibrationRequested
              /\ rebootCountPersisted \/ rebootCountDue > 0

\* The memory is true, and no event of the script's finds it stale.
MemoryInv ==
  /\ IF event = "Icd" THEN HeardInv ELSE IdleInv
  /\ event \in {"Button", "Deadline"} => ~Stale

(* A simulated boot has no record to lose.                                    *)
LEMMA EitherRecord ==
  ASSUME TypeInv, WorldTypes, EventInv, RecordInv, [EitherNext]_allVars
  PROVE  RecordInv'
<1> USE DEF world, app, task, stack, atPin, past
<1>0. power \in {"Active", "Idle"} /\ left \in Nat /\ holdLeft \in Nat /\ dirtyLeft \in Nat
  BY Durations DEF TypeInv, TypeOK
<1>1. (OnSimPorts' <=> OnSimPorts) /\ power' \in {"Active", "Idle"} /\ holdLeft' \in Nat
  <2>1. UNCHANGED ports
    BY EitherSteps, Zenon DEF allVars
  <2>2. TypeInv'
    BY EitherTypes
  <2>3. QED
    BY <2>1, <2>2 DEF OnSimPorts, TypeInv, TypeOK
<1>2. ASSUME OnSimPorts, UNCHANGED dirtyLeft PROVE RecordInv'
  BY <1>1, <1>2 DEF RecordInv, DirtyInv
<1>3. ASSUME ~OnSimPorts, [Next]_vars PROVE RecordInv'
  BY <1>1, <1>3, StepDirty DEF RecordInv
<1>4. SimTask => UNCHANGED dirtyLeft
  <2>1. ArmWake \/ ArmBoot => UNCHANGED dirtyLeft
    BY DEF ArmWake, ArmBoot, Wait, GoOn
  <2>2. StartCalibration \/ CaptureWet \/ EndCalibration => UNCHANGED dirtyLeft
    BY DEF StartCalibration, CaptureWet, EndCalibration, GoOn
  <2>3. StartReading \/ ReadBattery \/ EndReading => UNCHANGED dirtyLeft
    BY DEF StartReading, ReadBattery, EndReading
  <2>4. NothingDue \/ PersistRebootCount \/ Decide => UNCHANGED dirtyLeft
    BY DecideStep DEF NothingDue, PersistRebootCount
  <2>5. PowerDown => UNCHANGED dirtyLeft
    BY PowerDownStep
  <2>6. QED
    BY <2>1, <2>2, <2>3, <2>4, <2>5, Zenon DEF SimTask
<1>5. Pass => UNCHANGED dirtyLeft
  BY <1>0, Advanced DEF Pass
<1>6. NextPending => UNCHANGED dirtyLeft
  BY DEF NextPending
<1>7. NextScripted => UNCHANGED dirtyLeft
  BY ScriptedStep, Advanced
<1>8. Deliver => UNCHANGED dirtyLeft
  <2>1. HandleDeadline => UNCHANGED dirtyLeft
    <3>1. OnSampleNow \/ OnCalibrate => UNCHANGED dirtyLeft
      BY DEF OnSampleNow, OnCalibrate, RequestActive
    <3>2. OnFactoryReset \/ OnNothing => UNCHANGED dirtyLeft
      BY DEF OnFactoryReset, OnNothing
    <3>3. QED
      BY <3>1, <3>2, Zenon DEF HandleDeadline
  <2>2. HandleEdge \/ HandleIcd => UNCHANGED dirtyLeft
    BY DEF HandleEdge, OnNothing, HandleIcd
  <2>3. QED
    BY <2>1, <2>2, DeliverStep
<1>9. EndWake => UNCHANGED dirtyLeft
  BY DEF EndWake
<1>10. RunBoot => UNCHANGED dirtyLeft
  BY RunBootStep
<1>11. CASE UNCHANGED allVars
  BY <1>11 DEF allVars, vars, RecordInv, DirtyInv, OnSimPorts
<1>12. QED
  BY <1>2, <1>3, <1>4, <1>5, <1>6, <1>7, <1>8, <1>9, <1>10, <1>11, EitherSteps, Zenon

(* How the clock moves the idle time, in the operational phase.               *)
LEMMA AgedIdle ==
  ASSUME TypeInv, NEW d \in Nat, AgeStack(d), phase # "wake"
  PROVE  /\ power = "Active" /\ holdLeft > d => power' = "Active" /\ holdLeft' = holdLeft - d
         /\ power' = "Idle" => trueIdle' + idleLeft' = IdlePeriod
         /\ power = "Idle" => /\ power' = "Idle"
                              /\ trueIdle' = IF trueIdle + d <= IdlePeriod THEN trueIdle + d ELSE IdlePeriod
<1>0. power \in {"Active", "Idle"} /\ holdLeft \in Nat /\ trueIdle \in 0..IdlePeriod
  BY DEF TypeInv, TypeOK
<1> DEFINE idle == power = "Idle" \/ holdLeft <= d
           soFar == IF power = "Idle" THEN trueIdle + d ELSE Less(d, holdLeft)
<1>1. /\ holdLeft' = Less(holdLeft, d)
      /\ power' = IF idle THEN "Idle" ELSE "Active"
      /\ idleLeft' = IF idle THEN Less(IdlePeriod, soFar) ELSE idleLeft
      /\ trueIdle' = IF idle THEN Min({soFar, IdlePeriod}) ELSE 0
  BY Zenon DEF AgeStack
<1>2. soFar \in Nat
  BY <1>0, Durations DEF Less
<1>3. Min({soFar, IdlePeriod}) = IF soFar <= IdlePeriod THEN soFar ELSE IdlePeriod
  BY <1>2, OfTwo, Durations
<1>4. power = "Idle" => soFar = trueIdle + d
  OBVIOUS
<1> HIDE DEF soFar
<1>5. power = "Active" /\ holdLeft > d => power' = "Active" /\ holdLeft' = holdLeft - d
  BY <1>0, <1>1 DEF Less
<1>6. power' = "Idle" => trueIdle' + idleLeft' = IdlePeriod
  BY <1>0, <1>1, <1>2, <1>3, Durations DEF Less
<1>7. power = "Idle" => power' = "Idle" /\ trueIdle' = IF soFar <= IdlePeriod THEN soFar ELSE IdlePeriod
  BY <1>1, <1>3
<1>8. QED
  BY <1>4, <1>5, <1>6, <1>7

(* The clock keeps the memory true.                                           *)
LEMMA AdvanceMemory ==
  ASSUME TypeInv, WorldTypes, NEW d \in Nat, d <= left, Advance(d), IdleInv
  PROVE  /\ phase' = "wake" => idleSince' = NotIdle
         /\ power' = "Idle" /\ idleSince' # NotIdle => power = "Active" \/ idleSince' <= trueIdle'
<1>0. /\ idleSince \in NotIdle..Settle /\ trueIdle \in 0..IdlePeriod /\ power \in {"Active", "Idle"}
      /\ phase \in {"wake", "operational"}
  BY DEF TypeInv, TypeOK
<1>1. /\ UNCHANGED phase /\ AgeStack(d) /\ (idleSince' = NotIdle <=> idleSince = NotIdle)
  BY Advanced
<1>2. phase' = "wake" => idleSince' = NotIdle
  BY <1>1 DEF IdleInv
<1>3. ASSUME power = "Idle", idleSince' # NotIdle PROVE idleSince' <= trueIdle'
  <2>1. idleSince \in 0..Settle /\ phase # "wake" /\ idleSince <= trueIdle
    BY <1>0, <1>1, <1>3 DEF IdleInv, NotIdle
  <2>2. idleSince' = IF idleSince + d <= Settle THEN idleSince + d ELSE Settle
    <3>1. idleSince' = Min({idleSince + d, Settle})
      BY <1>1, <1>3, Zenon DEF Advance
    <3>2. idleSince + d \in Nat
      BY <2>1, Durations
    <3>3. QED
      BY <3>1, <3>2, OfTwo, Durations
  <2>3. trueIdle' = IF trueIdle + d <= IdlePeriod THEN trueIdle + d ELSE IdlePeriod
    BY <1>1, <1>3, <2>1, AgedIdle
  <2>4. QED
    BY <1>0, <2>1, <2>2, <2>3, Durations
<1>4. QED
  BY <1>0, <1>2, <1>3

(* A wait that goes on, or ends in an event, has its reading and its reboot   *)
(* count still to come.                                                       *)
LEMMA WaitingDue ==
  ASSUME TypeInv, DueInv, pc = "waiting", phase = "operational", left > 0
  PROVE  nextSample > 0 /\ ~calibrationRequested /\ (rebootCountPersisted \/ rebootCountDue > 0)
BY DEF TypeInv, TypeOK, DueInv

(* Either program keeps the loop's memory of the idle stack true.             *)
LEMMA EitherMemory ==
  ASSUME TypeInv, WorldTypes, EventInv, WakeInv, DueInv, MemoryInv, [EitherNext]_allVars
  PROVE  MemoryInv'
<1> USE Durations DEF world, app, task, stack, atPin, past
<1>0. /\ phase \in {"wake", "operational"} /\ power \in {"Active", "Idle"} /\ icdChanged \in BOOLEAN
      /\ idleSince \in NotIdle..Settle /\ nextSample \in Nat /\ left \in Nat /\ rebootCountDue \in Nat
      /\ holdLeft \in Nat /\ trueIdle \in 0..IdlePeriod
      /\ event \in {"none", "Icd", "Button", "Deadline"}
  BY DEF TypeInv, TypeOK, WorldTypes
<1>1. ASSUME event' = "none", IdleInv' PROVE MemoryInv'
  BY <1>1 DEF MemoryInv
<1>2. ASSUME event # "Icd", event' = "none", [Next]_vars PROVE MemoryInv'
  <2>1. IdleInv
    BY <1>2 DEF MemoryInv
  <2>2. QED
    BY <1>1, <1>2, <2>1, StepIdle
<1>3. CASE ~OnSimPorts /\ [Next]_vars /\ UNCHANGED <<ports, world>>
  BY <1>2, <1>3 DEF EventInv
<1>4. CASE SimTask
  <2>1. event = "none" /\ event' = "none" /\ [Next]_vars
    BY <1>4, SimTaskStep DEF EventInv
  <2>2. QED
    BY <1>2, <2>1
<1>5. CASE Pass
  <2>1. /\ pc \in {"soil", "battery", "calDry", "calWet"} /\ UNCHANGED event
        /\ Advance(left)
        /\ IF pc = "battery" THEN UNCHANGED <<told, icdChanged>> ELSE Sync
    BY <1>5, Zenon DEF Pass
  <2>2. event = "none" /\ event' = "none" /\ IdleInv
    BY <2>1 DEF EventInv, MemoryInv
  <2>3. /\ AgeStack(left) /\ left' = 0 /\ (idleSince' = NotIdle <=> idleSince = NotIdle)
        /\ UNCHANGED <<pc, phase, calibrationRequested>>
    BY <1>0, <2>1, Advanced
  <2>4. /\ phase' = "wake" => idleSince' = NotIdle
        /\ power' = "Idle" /\ idleSince' # NotIdle => power = "Active" \/ idleSince' <= trueIdle'
    BY <1>0, <2>1, <2>2, AdvanceMemory
  <2>5. icdChanged => icdChanged'
    <3>1. pc # "battery" => icdChanged' = (icdChanged \/ View' # told)
      BY <2>1 DEF Sync
    <3>2. pc = "battery" => icdChanged' = icdChanged
      BY <2>1
    <3>3. QED
      BY <3>1, <3>2
  <2>6. CASE idleSince = NotIdle
    BY <1>1, <2>2, <2>3, <2>6 DEF IdleInv, Stale
  <2>7. CASE idleSince # NotIdle
    <3>1. phase = "operational" /\ Calibrating /\ (Stale => Noticed)
      BY <1>0, <2>2, <2>7 DEF IdleInv
    <3>2. power = "Active" => /\ holdLeft > left /\ icdChanged
                              /\ pc = "soil" => holdLeft > left + BatteryTime
      BY <1>0, <2>1, <2>7, <3>1 DEF Stale, Noticed, Calibrating
    <3>3. power = "Active" => power' = "Active" /\ holdLeft' = holdLeft - left
      BY <1>0, <2>3, <3>1, <3>2, AgedIdle
    <3>4. Calibrating'
      BY <1>0, <2>1, <2>3, <3>1, <3>3 DEF Calibrating
    <3>5. Stale' => power = "Active"
      <4>1. power = "Idle" => power' = "Idle"
        BY <1>0, <2>3, <3>1, AgedIdle
      <4>2. QED
        BY <1>0, <4>1 DEF Stale
    <3>6. Stale' => Noticed'
      BY <1>0, <2>1, <2>3, <2>5, <3>2, <3>3, <3>5 DEF Noticed
    <3>7. QED
      BY <1>1, <2>1, <2>2, <2>3, <2>4, <3>1, <3>3, <3>4, <3>6 DEF IdleInv
  <2>8. QED
    BY <2>6, <2>7
<1>6. CASE NextPending /\ OnSimPorts
  <2>1. pc = "waiting" /\ event = "none" /\ event' = "Icd"
        /\ UNCHANGED <<phase, idleSince, power, trueIdle, holdLeft, nextSample, calibrationRequested,
                       rebootCountPersisted, rebootCountDue>>
    BY <1>6 DEF NextPending
  <2>2. IdleInv /\ left > 0
    BY <1>6, <2>1 DEF MemoryInv, EventInv
  <2>3. Stale => phase = "operational" /\ holdLeft > 0
    BY <1>0, <2>2 DEF IdleInv, Stale, Noticed
  <2>4. HeardInv'
    BY <2>1, <2>2, <2>3, WaitingDue DEF HeardInv, IdleInv, Stale
  <2>5. QED
    BY <2>1, <2>4 DEF MemoryInv
<1>7. CASE NextScripted
  <2>1. pc = "waiting" /\ event = "none" /\ ~icdChanged /\ UNCHANGED icdChanged
        /\ event' \in {"Button", "Icd", "Deadline"}
    BY <1>7, ScriptedStep
  <2>2. PICK d \in Nat : d <= left /\ Advance(d)
    BY <1>7, ScriptedStep
  <2>3. IdleInv /\ ~Stale
    BY <2>1 DEF MemoryInv, IdleInv, Noticed
  <2>4. /\ AgeStack(d) /\ (idleSince' = NotIdle <=> idleSince = NotIdle) /\ UNCHANGED <<pc, phase>>
    BY <2>2, Advanced
  <2>5. /\ phase' = "wake" => idleSince' = NotIdle
        /\ power' = "Idle" /\ idleSince' # NotIdle => power = "Active" \/ idleSince' <= trueIdle'
    BY <2>2, <2>3, AdvanceMemory
  <2>6. ~Stale'
    <3>1. power = "Idle" => power' = "Idle"
      BY <2>2, <2>4, Aged
    <3>2. QED
      BY <1>0, <2>3, <2>4, <3>1 DEF Stale
  <2>7. power' = "Idle" /\ idleSince' # NotIdle => idleSince' <= trueIdle'
    BY <1>0, <2>3, <2>4, <2>5 DEF Stale
  <2>8. IdleInv' /\ HeardInv'
    BY <2>1, <2>4, <2>5, <2>6, <2>7 DEF IdleInv, HeardInv, Calibrating
  <2>9. QED
    BY <2>6, <2>8 DEF MemoryInv
<1>8. CASE Deliver
  <2>1. pc = "waiting" /\ event' = "none"
    BY <1>8, DeliverStep
  <2>2. CASE event = "Deadline" /\ HandleDeadline
    <3>1. [Next]_vars
      BY <2>1, <2>2, DueDelivery DEF EventInv
    <3>2. QED
      BY <1>2, <2>1, <2>2, <3>1
  <2>3. CASE event = "Button" /\ HandleEdge
    <3>1. UNCHANGED <<phase, idleSince, power, trueIdle, calibrationRequested>>
          /\ pc' = IF phase = "wake" THEN "arm" ELSE "step"
      BY <2>3 DEF HandleEdge, OnNothing, Resume
    <3>2. IdleInv /\ ~Stale
      BY <2>3 DEF MemoryInv
    <3>3. phase = "operational" => ~calibrationRequested
      BY <2>1 DEF DueInv
    <3>4. idleSince # NotIdle => Calibrating'
      BY <1>0, <3>1, <3>2, <3>3 DEF IdleInv, Calibrating
    <3>5. IdleInv'
      BY <1>0, <3>1, <3>2, <3>4 DEF IdleInv, Stale
    <3>6. QED
      BY <1>1, <2>1, <3>5
  <2>4. CASE event = "Icd" /\ HandleIcd
    <3>1. UNCHANGED <<phase, idleSince, power, trueIdle, holdLeft, nextSample, calibrationRequested,
                      rebootCountPersisted, rebootCountDue>>
          /\ pc' = IF phase = "wake" THEN "arm" ELSE "step"
      BY <2>4 DEF HandleIcd, Resume
    <3>2. HeardInv
      BY <2>4 DEF MemoryInv
    <3>3. phase = "operational" => ~calibrationRequested
      BY <2>1 DEF DueInv
    <3>4. idleSince # NotIdle => Calibrating'
      BY <1>0, <3>1, <3>2, <3>3 DEF HeardInv, Calibrating
    <3>5. Stale' => Noticed'
      BY <1>0, <3>1, <3>2 DEF HeardInv, Stale, Noticed
    <3>6. IdleInv'
      BY <1>0, <3>1, <3>2, <3>4, <3>5 DEF HeardInv, IdleInv
    <3>7. QED
      BY <1>1, <2>1, <3>6
  <2>5. QED
    BY <1>8, <2>2, <2>3, <2>4, DeliverStep
<1>9. CASE EndWake
  <2>1. pc = "step" /\ phase = "wake" /\ UNCHANGED <<idleSince, event>>
    BY <1>9 DEF EndWake
  <2>2. event = "none" /\ idleSince = NotIdle
    BY <2>1 DEF EventInv, MemoryInv, IdleInv
  <2>3. QED
    BY <1>1, <2>1, <2>2 DEF IdleInv, Stale
<1>10. CASE RunBoot
  <2>1. pc = "over" /\ idleSince' = NotIdle /\ UNCHANGED event
    BY <1>10, RunBootStep
  <2>2. event = "none"
    BY <2>1 DEF EventInv
  <2>3. QED
    BY <1>1, <2>1, <2>2 DEF IdleInv, Stale
<1>11. CASE UNCHANGED allVars
  BY <1>11 DEF allVars, vars, MemoryInv, HeardInv, IdleInv, Stale, Noticed, Calibrating
<1>12. QED
  BY <1>3, <1>4, <1>5, <1>6, <1>7, <1>8, <1>9, <1>10, <1>11, EitherSteps, Zenon

(* Either program falls asleep only with a stack that is settled.             *)
LEMMA EitherSettled ==
  ASSUME TypeInv, WorldTypes, EventInv, CountInv, RecordInv, MemoryInv, DownSettled, [EitherNext]_allVars
  PROVE  DownSettled'
<1> USE Durations DEF world, app, task, stack, atPin, past
<1>0. left \in Nat
  BY DEF TypeInv, TypeOK
<1>1. ASSUME pc # "over", pc' # "tail", outcome' = outcome PROVE DownSettled'
  BY <1>1 DEF CountInv, DownSettled
<1>2. ASSUME event # "Icd", [Next]_vars PROVE DownSettled'
  BY <1>2, StepSettled DEF MemoryInv, RecordInv
<1>3. CASE ~OnSimPorts /\ [Next]_vars /\ UNCHANGED <<ports, world>>
  BY <1>2, <1>3 DEF EventInv
<1>4. CASE SimTask
  BY <1>2, <1>4, SimTaskStep DEF EventInv
<1>5. CASE Pass
  <2>1. Advance(left) /\ left <= left /\ pc \notin {"over", "tail"}
    BY <1>0, <1>5 DEF Pass
  <2>2. UNCHANGED <<pc, outcome>>
    BY <1>0, <2>1, Advanced
  <2>3. QED
    BY <1>1, <2>1, <2>2
<1>6. CASE NextPending
  BY <1>1, <1>6 DEF NextPending
<1>7. CASE NextScripted
  <2>1. pc = "waiting" /\ UNCHANGED <<pc, outcome>>
    BY <1>7, ScriptedStep, Advanced
  <2>2. QED
    BY <1>1, <2>1
<1>8. CASE Deliver
  <2>1. pc = "waiting"
    BY <1>8, DeliverStep
  <2>2. CASE event = "Deadline" /\ HandleDeadline
    BY <1>2, <2>1, <2>2, DueDelivery DEF EventInv
  <2>3. CASE HandleEdge \/ HandleIcd
    BY <1>1, <2>1, <2>3 DEF HandleEdge, OnNothing, HandleIcd, Resume
  <2>4. QED
    BY <1>8, <2>2, <2>3, DeliverStep
<1>9. CASE EndWake
  BY <1>1, <1>9 DEF EndWake
<1>10. CASE RunBoot
  BY <1>10, RunBootStep DEF DownSettled
<1>11. CASE UNCHANGED allVars
  BY <1>11 DEF allVars, vars, DownSettled
<1>12. QED
  BY <1>3, <1>4, <1>5, <1>6, <1>7, <1>8, <1>9, <1>10, <1>11, EitherSteps, Zenon

(* Either program's idle stack has its poll when the period is over.          *)
LEMMA EitherPoll ==
  ASSUME TypeInv, WorldTypes, EventInv, WakeInv, SimInv, PollInv, [EitherNext]_allVars
  PROVE  PollInv'
<1> USE Durations DEF world, app, task, stack, atPin, past
<1>0. /\ power \in {"Active", "Idle"} /\ left \in Nat /\ phase \in {"wake", "operational"}
  BY DEF TypeInv, TypeOK
<1>1. ASSUME pc' # "startup", UNCHANGED <<phase, power, trueIdle, idleLeft>> PROVE PollInv'
  BY <1>1 DEF PollInv
<1>2. ASSUME [Next]_vars PROVE PollInv'
  BY <1>2, StepPoll
<1>3. ASSUME NEW d \in Nat, d <= left, Advance(d), pc # "startup" PROVE PollInv'
  <2>1. AgeStack(d) /\ UNCHANGED <<pc, phase>>
    BY <1>3, Advanced
  <2>2. CASE phase = "wake"
    <3>1. UNCHANGED <<power, trueIdle, idleLeft>>
      BY <2>1, <2>2, Zenon DEF AgeStack
    <3>2. QED
      BY <1>1, <1>3, <2>1, <3>1
  <2>3. CASE phase # "wake"
    <3>1. power' = "Idle" => trueIdle' + idleLeft' = IdlePeriod
      BY <2>1, <2>3, AgedIdle
    <3>2. QED
      BY <1>0, <1>3, <2>1, <2>3, <3>1 DEF PollInv
  <2>4. QED
    BY <2>2, <2>3
<1>4. CASE SimTask
  BY <1>2, <1>4, SimTaskStep
<1>5. CASE Pass
  BY <1>0, <1>3, <1>5 DEF Pass
<1>6. CASE NextPending
  BY <1>1, <1>6 DEF NextPending
<1>7. CASE NextScripted
  BY <1>3, <1>7, ScriptedStep
<1>8. CASE Deliver
  <2>1. pc = "waiting"
    BY <1>8, DeliverStep
  <2>2. CASE event = "Deadline" /\ HandleDeadline
    BY <1>2, <2>1, <2>2, DueDelivery DEF EventInv
  <2>3. CASE HandleEdge \/ HandleIcd
    BY <1>1, <2>3 DEF HandleEdge, OnNothing, HandleIcd, Resume
  <2>4. QED
    BY <1>8, <2>2, <2>3, DeliverStep
<1>9. CASE EndWake
  BY <1>0, <1>9 DEF EndWake, PollInv
<1>10. CASE RunBoot
  BY <1>10, RunBootStep DEF PollInv
<1>11. CASE UNCHANGED allVars
  BY <1>11 DEF allVars, vars, PollInv
<1>12. QED
  BY <1>2, <1>4, <1>5, <1>6, <1>7, <1>8, <1>9, <1>10, <1>11, EitherSteps, Zenon

\* The two halves of the sleep decision, over either set of ports.
SettledInv == RecordInv /\ MemoryInv /\ DownSettled /\ PollInv

(* A boot of either begins and goes on so.                                    *)
LEMMA EitherSettledInv == EitherSpec => [](EitherInv /\ SettledInv)
<1>1. EitherInit => SettledInv
  <2> SUFFICES ASSUME EitherInit PROVE SettledInv
    OBVIOUS
  <2>1. Init /\ event = "none"
    BY EitherBegins
  <2>2. /\ idleSince = NotIdle /\ power = "Active" /\ dirtyLeft = 0 /\ outcome = "none" /\ pc = "arm"
        /\ holdLeft \in {WakeHold, ActiveThreshold}
    BY <2>1, Zenon DEF Init
  <2>3. QED
    BY <2>1, <2>2, Durations DEF SettledInv, RecordInv, DirtyInv, MemoryInv, IdleInv, Stale, DownSettled,
                                 PollInv
<1>2. EitherInv /\ SettledInv /\ [EitherNext]_allVars => SettledInv'
  BY EitherRecord, EitherMemory, EitherSettled, EitherPoll, Zenon DEF EitherInv, SettledInv
<1>3. QED
  BY <1>1, <1>2, EitherAlways, PTL DEF EitherSpec

(* The simulated device, too, sleeps only as a long-idle device whose stack   *)
(* has been idle for the settle time: a change of power mode while it was     *)
(* busy reaches it before it decides (app.rs, track_idle and sleep_for;       *)
(* world.rs, sync_icd and next_event).                                        *)
THEOREM EitherSleepsSettled == EitherSpec => []SleepOnlySettled
<1>1. SettledInv => SleepOnlySettled
  BY DEF SettledInv, DownSettled, SleepOnlySettled
<1>2. QED
  BY <1>1, EitherSettledInv, PTL

(* Its sleep is over by its stack's poll, or as short as it may be (app.rs,   *)
(* sleep_for; world.rs, run_until).                                           *)
THEOREM EitherMissesNoPoll == EitherSpec => []PollNotMissed
<1>1. EitherInv /\ SettledInv => PollNotMissed
  BY SleepsForPoll DEF EitherInv, SettledInv, DownSettled, SleepOnlySettled
<1>2. QED
  BY <1>1, EitherSettledInv, PTL
=============================================================================
