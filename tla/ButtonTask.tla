----------------------------- MODULE ButtonTask -----------------------------
(***************************************************************************)
(* How an edge gets from the pin to the gesture machine: the pin, the      *)
(* interrupt of esp-hal's wait_for_*_edge, the task of fw/src/button.rs,   *)
(* the channel, and the boot loop that takes edges out of it - or is busy  *)
(* with a reading or a calibration, while the task still runs - or finds   *)
(* the executor blocked by synchronous work (an erase, fw/src/flash.rs),   *)
(* while nothing runs but interrupts.                                      *)
(***************************************************************************)
EXTENDS ButtonFsm, Sequences

CONSTANTS
  EdgeDepth,   \* EDGE_QUEUE_DEPTH
  Woken,       \* whether a press woke the device: the cases considered
  MaxPresses   \* bound: how often the person presses

ASSUME TaskBounds ==
  /\ EdgeDepth \in Nat \ {0}
  /\ Woken \subseteq BOOLEAN
  /\ MaxPresses \in Nat

VARIABLES
  pin,      \* "up" or "down"
  at,       \* where the task is: "start", or what it waits for
  latched,  \* the interrupt it listens for has fired
  chan,     \* EDGE_CHANNEL
  button,   \* the boot loop's ButtonFsm
  loop,     \* what the boot loop does: "waits", "busy", "over"
  blocked,  \* the executor is in synchronous work
  missed,   \* the machine's deadline passed while the boot loop was busy
  heldFor,  \* how long the pin has been down, up to Debounce + Hold; 0 from the tick after
  reset,    \* FactoryReset was asked for: whether the pin was held for it
  presses,
  prompt    \* so far the pin has moved only when the task and the loop were ready for it,
            \* and no work has held the executor over an edge on its way

vars == <<pin, at, latched, chan, button, loop, blocked, missed, heldFor, reset, presses, prompt>>

Init ==
  \E woken \in Woken :
    /\ pin \in {"up", "down"}
    \* main.rs queues the release of a waking press that is already over.
    /\ chan = IF woken /\ pin = "up" THEN <<"Rising">> ELSE <<>>
    /\ button = NewButton(woken)
    /\ at = "start" /\ latched = FALSE
    /\ loop = "waits" /\ blocked = FALSE /\ missed = FALSE
    /\ heldFor = IF woken /\ pin = "down" THEN Debounce ELSE 0
    /\ reset = "none"
    /\ presses = 0
    /\ prompt = TRUE

-----------------------------------------------------------------------------
(* The task. One poll runs it from one await that is pending to the next.    *)

\* Mutant: the channel takes an edge it has no room for.
SendFallingAlways(c) == chan' = Append(c, "Falling") /\ at' = "rising"

\* send(Falling).await, and the wait for the rising edge.
SendFalling(c) ==
  IF Len(c) < EdgeDepth
  THEN chan' = Append(c, "Falling") /\ at' = "rising"
  ELSE chan' = c /\ at' = "sendFalling"

\* Mutant: the loop does not look whether the button is down already.
LoopHeadBlind(c) == chan' = c /\ at' = "falling"

\* The head of the loop: wait for the falling edge, unless the pin is down.
LoopHead(c) ==
  IF pin = "up" THEN chan' = c /\ at' = "falling" ELSE SendFalling(c)

\* Mutant: the task does not wait for room.
SendRisingOrDrop(c) ==
  IF Len(c) < EdgeDepth THEN LoopHead(Append(c, "Rising")) ELSE LoopHead(c)

\* send(Rising).await, and back to the head of the loop.
SendRising(c) ==
  IF Len(c) < EdgeDepth
  THEN LoopHead(Append(c, "Rising"))
  ELSE chan' = c /\ at' = "sendRising"

\* What wakes the task: its interrupt, or room in the channel.
TaskReady ==
  \/ at = "start"
  \/ at \in {"falling", "rising"} /\ latched
  \/ at \in {"sendFalling", "sendRising"} /\ Len(chan) < EdgeDepth

TaskPoll ==
  /\ TaskReady /\ ~blocked
  /\ latched' = FALSE
  /\ \/ at = "start" /\ LoopHead(chan)
     \/ at \in {"falling", "sendFalling"} /\ SendFalling(chan)
     \/ at \in {"rising", "sendRising"} /\ SendRising(chan)
  /\ UNCHANGED <<pin, button, loop, blocked, missed, heldFor, reset, presses, prompt>>

\* The boot loop can take an event.
Listening == loop = "waits" /\ ~blocked

\* A deadline that passed while the loop was busy is not waited for any more: it is
\* dealt with at some later event.
DeadlineFirst == DeadlineDue(button) /\ ~missed

-----------------------------------------------------------------------------
(* The pin and its interrupt (external): an edge fires only if the task      *)
(* listens for it at that moment.                                            *)

\* The task listens to the pin, nothing holds the executor, and the loop is through with
\* a deadline of this instant.
Ready ==
  /\ at \in {"falling", "rising"} /\ ~TaskReady /\ ~blocked
  /\ ~(Listening /\ DeadlineFirst)

Press ==
  /\ pin = "up" /\ presses < MaxPresses
  /\ prompt' = (prompt /\ Ready)
  /\ pin' = "down"
  /\ heldFor' = 0
  /\ presses' = presses + 1
  /\ latched' = IF at = "falling" THEN TRUE ELSE latched
  /\ UNCHANGED <<at, chan, button, loop, blocked, missed, reset>>

Release ==
  /\ pin = "down"
  /\ prompt' = (prompt /\ Ready)
  /\ pin' = "up"
  /\ latched' = IF at = "rising" THEN TRUE ELSE latched
  /\ UNCHANGED <<at, chan, button, loop, blocked, missed, heldFor, reset, presses>>

-----------------------------------------------------------------------------
(* The boot loop (BootLoop says what it does in between).                    *)

TakeEdge ==
  /\ Listening /\ chan # <<>> /\ ~DeadlineFirst
  /\ button' = OnEdge(button, Head(chan))
  /\ chan' = Tail(chan)
  /\ missed' = IF DeadlineDue(button') THEN missed ELSE FALSE
  /\ UNCHANGED <<pin, at, latched, loop, blocked, heldFor, reset, presses, prompt>>

TakeDeadline ==
  LET gesture == GestureAtDeadline(button)
  IN  /\ Listening /\ DeadlineDue(button) /\ (missed => chan = <<>>)
      /\ button' = OnDeadline(button)
      /\ missed' = FALSE
      /\ loop' = CASE gesture = "FactoryReset" -> "over" [] gesture = "none" -> "waits" [] OTHER -> "busy"
      /\ reset' = IF gesture # "FactoryReset" THEN reset
                  ELSE IF heldFor = Debounce + Hold \/ (presses = 0 /\ heldFor >= Hold)
                       THEN "held" ELSE "notHeld"
      /\ UNCHANGED <<pin, at, latched, chan, blocked, heldFor, presses, prompt>>

\* A reading or a calibration begins, and ends.
Work ==
  /\ Listening /\ ~DeadlineFirst
  /\ loop' = "busy"
  /\ UNCHANGED <<pin, at, latched, chan, button, blocked, missed, heldFor, reset, presses, prompt>>

Return ==
  /\ loop = "busy" /\ ~blocked
  /\ loop' = "waits"
  /\ UNCHANGED <<pin, at, latched, chan, button, blocked, missed, heldFor, reset, presses, prompt>>

\* Synchronous work holds the executor, and lets it go.
Block ==
  /\ ~blocked /\ loop # "over"
  /\ blocked' = TRUE
  /\ prompt' = (prompt /\ ~TaskReady /\ chan = <<>>)
  /\ UNCHANGED <<pin, at, latched, chan, button, loop, missed, heldFor, reset, presses>>

Unblock ==
  /\ blocked
  /\ blocked' = FALSE
  /\ UNCHANGED <<pin, at, latched, chan, button, loop, missed, heldFor, reset, presses, prompt>>

\* Time passes while nothing that runs has anything to do.
Tick ==
  /\ loop # "over"
  /\ blocked \/ (~TaskReady /\ (loop = "waits" => chan = <<>> /\ ~DeadlineFirst))
  /\ button' = Elapse(button, 1)
  /\ missed' = IF loop = "busy" /\ DeadlineDue(button') THEN TRUE ELSE missed
  /\ heldFor' = IF pin = "up" THEN 0 ELSE IF heldFor < Debounce + Hold THEN heldFor + 1 ELSE heldFor
  /\ UNCHANGED <<pin, at, latched, chan, loop, blocked, reset, presses, prompt>>

Over == loop = "over" /\ UNCHANGED vars

Next ==
  \/ TaskPoll \/ Press \/ Release \/ TakeEdge \/ TakeDeadline
  \/ Work \/ Return \/ Block \/ Unblock \/ Tick \/ Over

Spec == Init /\ [][Next]_vars

-----------------------------------------------------------------------------
TypeOK ==
  /\ pin \in {"up", "down"}
  /\ at \in {"start", "falling", "sendFalling", "rising", "sendRising"}
  /\ latched \in BOOLEAN
  /\ chan \in Seq(Edges) /\ Len(chan) <= EdgeDepth
  /\ button \in ButtonValues
  /\ loop \in {"waits", "busy", "over"} /\ blocked \in BOOLEAN /\ missed \in BOOLEAN
  /\ heldFor \in 0..(Debounce + Hold) /\ reset \in {"none", "held", "notHeld"}
  /\ presses \in Nat /\ prompt \in BOOLEAN

DownStates == {"Debounce", "Held", "WaitRelease"}

\* The machine once it has read what the channel holds.
CaughtUp ==
  LET after[n \in 0..Len(chan)] == IF n = 0 THEN button ELSE OnEdge(after[n - 1], chan[n])
  IN  after[Len(chan)]

(* The task and the machine agree on where the button is, up to what is in    *)
(* the channel, whatever the task missed at the pin: no edge is lost, doubled *)
(* or reordered between them (fw/src/button.rs, send; a full channel waits).  *)
(* Only a waking press begins with a machine that is ahead of the task.       *)
TaskAndMachineAgree ==
  at # "start" /\ loop # "over" /\ ~button.waking
    => (CaughtUp.state \in DownStates <=> at \in {"rising", "sendRising"})

(* As long as the task was back at the pin whenever it moved, the machine has *)
(* the pin right once it has read the channel, for however long the loop or   *)
(* the executor was busy in between (fw/src/button.rs, run).                  *)
PromptTaskIsRight ==
  prompt /\ at \in {"falling", "rising"} /\ ~latched
    => (CaughtUp.state \in DownStates <=> pin = "down")

(* tuning.rs: a factory reset is asked for by a button that is held for ten   *)
(* seconds.                                                                   *)
ResetMeansHeld == reset # "notHeld"
=============================================================================
