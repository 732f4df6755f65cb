------------------------------ MODULE Simulator ------------------------------
(***************************************************************************)
(* The scripted world of sim/src/world.rs, the second implementation of    *)
(* the ports: "a simulator is a peer, not a mock" (docs/testing.md).  The  *)
(* boot loop is the one of BootLoop; the world below it moves its clock    *)
(* only because a port is called, and delivers edges and the stack's       *)
(* changes of mind from a script.  The last section runs the loop over     *)
(* either set of ports, and states what both have to promise it.           *)
(***************************************************************************)
EXTENDS BootLoop

CONSTANTS
  Scripts,   \* what a scenario scripts: sequences of presses [at, held]
  LitTimes,  \* when the device becomes a long-idle one: lit_at
  MaxBoots   \* bound: the boots that run_until runs

ASSUME ScenarioTypes ==
  /\ Scripts \subseteq Seq([at: Nat, held: Nat])
  /\ LitTimes \subseteq Nat /\ MaxBoots \in Nat

VARIABLES
  ports,     \* which set of ports the boot loop runs over
  script,    \* World.button: the edges to come, [at |-> time until then, edge]; those
             \* that are due are in edges
  litIn,     \* time until lit_at
  told,      \* icd_active and operating_mode_lit: what sync_icd saw last
  event,     \* what next_event returns, or "none"
  boots

world == <<script, litIn, told, event, boots>>
allVars == <<vars, ports, world>>

\* World::press for every press of the scenario.
Pressed(presses_) ==
  [k \in 1..(2 * Len(presses_)) |->
     LET press == presses_[(k + 1) \div 2]
     IN  IF k % 2 = 1 THEN [at |-> press.at, edge |-> "Falling"]
         ELSE [at |-> press.at + press.held, edge |-> "Rising"]]

\* What icd_state says.
View == [active |-> power = "Active", lit |-> lit]

SimInit ==
  /\ ports = "SimPorts"
  /\ litIn \in LitTimes /\ script \in {Pressed(s) : s \in Scripts}
  /\ Init /\ wake # "Button" /\ lit = (litIn = 0)
  /\ told = View
  /\ event = "none"
  /\ boots = 1

-----------------------------------------------------------------------------
(* The clock. *)

\* How many edges are due by then: edges leave the queue from its front only.
Due(d) == Min({Len(script)} \cup {i \in 0..(Len(script) - 1) : script[i + 1].at > d})

\* The clock moves on by d, and the script comes closer. No task stands between pin and
\* queue here.
Unscroll(d) ==
  LET due == Due(d)
  IN  /\ edges' = edges \o [i \in 1..due |-> script[i].edge]
      /\ script' = [i \in 1..(Len(script) - due) |->
                      [script[due + i] EXCEPT !.at = Less(@, d)]]
      /\ sent' = IF edges' = <<>> THEN sent
                 ELSE IF edges'[Len(edges')] = "Falling" THEN "down" ELSE "up"
      /\ pin' = sent' /\ latched' = FALSE
      /\ litIn' = Less(litIn, d)
      /\ lit' = (litIn' = 0)

\* The modelled stack is active until its window ends, and never by itself again. The
\* wake phase has no window to end.
AgeStack(d) ==
  IF phase = "wake" THEN UNCHANGED <<power, holdLeft, idleLeft, trueIdle>>
  ELSE LET over == Less(d, holdLeft)
           idle == power = "Idle" \/ holdLeft <= d
           soFar == IF power = "Idle" THEN trueIdle + d ELSE over
       IN  /\ holdLeft' = Less(holdLeft, d)
           /\ power' = IF idle THEN "Idle" ELSE "Active"
           /\ idleLeft' = IF idle THEN Less(IdlePeriod, soFar) ELSE idleLeft
           /\ trueIdle' = IF idle THEN Min({soFar, IdlePeriod}) ELSE 0

Advance(d) ==
  /\ Unscroll(d) /\ AgeStack(d)
  /\ button' = Elapse(button, d)
  /\ nextSample' = Less(nextSample, d)
  /\ rebootCountDue' = Less(rebootCountDue, d)
  /\ idleSince' = IF idleSince = NotIdle THEN NotIdle ELSE Min({idleSince + d, Settle})
  /\ left' = left - d
  /\ UNCHANGED <<sampleWithLed, calibrationRequested, rebootCountPersisted, pc, phase, outcome, dirtyLeft,
                 messages, presses, pressFor, wake, sinceFed, overdue, owed, wakeReadings, rebootWrites, boots>>

\* sync_icd: the change latches until the boot has heard of it.
Sync == told' = View' /\ icdChanged' = (icdChanged \/ View' # told)

\* delay and read_soil_mv let their time pass at once; so does read_battery_mv, which
\* does not look at the stack.
Pass ==
  /\ pc \in {"soil", "battery", "calDry", "calWet"} /\ left > 0
  /\ Advance(left)
  /\ IF pc = "battery" THEN UNCHANGED <<told, icdChanged>> ELSE Sync
  /\ UNCHANGED event

-----------------------------------------------------------------------------
(* next_event *)

ButtonAt ==
  CASE edges # <<>> -> {0} [] edges = <<>> /\ script # <<>> -> {script[1].at} [] OTHER -> {}

\* next_icd_at
IcdAt ==
  (IF power = "Active" /\ phase = "operational" THEN {holdLeft} ELSE {})
    \cup (IF litIn > 0 THEN {litIn} ELSE {})

\* A change that the boot has not heard of is returned before anything else.
NextPending ==
  /\ pc = "waiting" /\ event = "none"
  /\ icdChanged \/ View # told
  /\ event' = "Icd" /\ icdChanged' = FALSE /\ told' = View
  /\ UNCHANGED <<app, task, edges, stack, atPin, past, script, litIn, boots>>

\* Otherwise the clock moves to whatever comes first; of two at the same instant an
\* edge comes before a change of the stack's, and the deadline last.
NextScripted ==
  LET next == Min({left} \cup ButtonAt \cup IcdAt)
  IN  /\ pc = "waiting" /\ event = "none"
      /\ ~icdChanged /\ View = told
      /\ Advance(next)
      /\ event' = CASE next \in ButtonAt -> "Button"
                    [] next \in IcdAt \ ButtonAt -> "Icd"
                    [] OTHER -> "Deadline"
      /\ UNCHANGED <<told, icdChanged>>

\* on_event; request_active brings the modelled stack up to date.
Deliver ==
  /\ pc = "waiting" /\ event' = "none"
  /\ \/ /\ event = "Deadline" /\ HandleDeadline
        /\ told' = IF GestureAtDeadline(button) \in {"SampleNow", "Calibrate"} THEN View' ELSE told
     \/ event = "Button" /\ HandleEdge /\ UNCHANGED told
     \/ event = "Icd" /\ HandleIcd /\ UNCHANGED told
  /\ UNCHANGED <<script, litIn, boots>>

-----------------------------------------------------------------------------
(* The boots, one after the other. *)

\* drive, between the phases: the modelled stack starts, and its active window with it.
EndWake ==
  /\ pc = "step" /\ phase = "wake" /\ ~calibrationRequested /\ nextSample > 0
  /\ phase' = "operational"
  /\ holdLeft' = ActiveThreshold
  /\ UNCHANGED <<app, pc, left, outcome, edges, lit, power, idleLeft, dirtyLeft, messages, atPin, past,
                 script, litIn, event, boots>>
  /\ Sync

\* run_until: the clock sleeps through; an edge that is waiting then is what woke it.
RunBoot ==
  /\ pc = "over" /\ outcome = "Sleep" /\ boots < MaxBoots
  /\ boots' = boots + 1
  /\ Unscroll(SleepFor)
  /\ wake' = IF edges' # <<>> /\ Head(edges') = "Falling" THEN "Button" ELSE "Timer"
  /\ button' = NewButton(wake' = "Button")
  /\ nextSample' = 0 /\ idleSince' = NotIdle
  /\ rebootCountPersisted' = TRUE /\ rebootCountDue' = HealthyAfter
  /\ pc' = "arm" /\ phase' = "wake" /\ left' = 0 /\ outcome' = "none"
  /\ power' = "Active" /\ idleLeft' = 0 /\ trueIdle' = 0 /\ icdChanged' = FALSE
  /\ told' = View'
  /\ sampleWithLed' = FALSE /\ calibrationRequested' = FALSE
  /\ wakeReadings' = 0 /\ rebootWrites' = 0
  /\ UNCHANGED <<holdLeft, dirtyLeft, messages, presses, pressFor,
                 sinceFed, overdue, owed, event>>

\* What the boot loop does between two calls of its ports is BootLoop's.
SimTask ==
  /\ \/ ArmWake \/ ArmBoot
     \/ StartCalibration \/ CaptureWet \/ EndCalibration
     \/ StartReading \/ ReadBattery \/ EndReading
     \/ phase = "operational" /\ NothingDue
     \/ PersistRebootCount \/ Decide \/ PowerDown
  /\ UNCHANGED world

SimNext == SimTask \/ Pass \/ NextPending \/ NextScripted \/ Deliver \/ EndWake \/ RunBoot

-----------------------------------------------------------------------------
(* The boot loop over either set of ports. *)

EspInit ==
  /\ ports = "EspPorts" /\ Init
  /\ script = <<>> /\ litIn = 0 /\ told = View /\ event = "none" /\ boots = 1

OnEsp(A) == ports = "EspPorts" /\ A /\ UNCHANGED <<ports, world>>
OnSim(A) == ports = "SimPorts" /\ A /\ UNCHANGED ports

EitherInit == EspInit \/ SimInit

EitherNext == OnEsp(Next) \/ OnSim(SimNext) \/ (Over /\ UNCHANGED <<ports, world>>)

\* BootLoop's fairness; the simulator is a program that block_on drives.
EitherSpec ==
  /\ EitherInit /\ [][EitherNext]_allVars
  /\ WF_allVars(OnEsp(Task)) /\ WF_allVars(OnEsp(ButtonTask)) /\ WF_allVars(OnEsp(Tick))
  /\ WF_allVars(OnEsp(Poll)) /\ SF_allVars(OnEsp(GoIdle))
  /\ WF_allVars(OnSim(SimNext))

(* A boot that waits with nothing left to hear counts its settle time by the  *)
(* stack's present state: a change of power mode that came while it was busy, *)
(* or that its own gesture made, has reached it (ports.rs, next_event;        *)
(* world.rs, icd_changed).                                                    *)
ViewFresh ==
  pc = "waiting" /\ phase = "operational" /\ event = "none" /\ ~icdChanged
      /\ (ports = "SimPorts" => View = told)
    => (idleSince = NotIdle <=> power = "Active")
=============================================================================
