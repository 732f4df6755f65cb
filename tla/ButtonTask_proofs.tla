-------------------------- MODULE ButtonTask_proofs --------------------------
(***************************************************************************)
(* The button's task and the channel, for all durations, every depth of    *)
(* the channel and any number of presses: task and machine agree whatever  *)
(* the task misses, and they are right about the pin as long as it misses  *)
(* nothing.  Then a factory reset is asked for only by a button that has   *)
(* been held down for it, however long the boot loop was busy.             *)
(***************************************************************************)
EXTENDS ButtonTask, TLAPS, SequenceTheorems, WellFoundedInduction

-----------------------------------------------------------------------------
(* The machine's operators. *)

(* A new machine is one.                                                      *)
LEMMA NewMachine ==
  ASSUME NEW woken \in BOOLEAN
  PROVE  NewButton(woken) \in ButtonValues
BY ButtonTuning DEF NewButton, ButtonValues, ButtonStates

\* The machine u is one, in that state, and waits for as long.
Turns(u, s, l) == u \in ButtonValues /\ u.state = s /\ u.left = l

(* on_edge, by the state and the edge.                                        *)
LEMMA EdgeTurns ==
  ASSUME NEW b \in ButtonValues
  PROVE  /\ b.state \in {"Idle", "Window"} => Turns(OnEdge(b, "Falling"), "Debounce", Debounce)
         /\ b.state \in DownStates => OnEdge(b, "Falling") = b
         /\ b.state = "Held" => Turns(OnEdge(b, "Rising"), "Window", Window)
         /\ b.state \in {"Debounce", "WaitRelease"} => Turns(OnEdge(b, "Rising"), "Idle", 0)
         /\ b.state \in {"Idle", "Window"} => OnEdge(b, "Rising") = b
<1> USE ButtonTuning DEF Turns, OnEdge, BeginPress, NextPress, Glitch, EndPress, Rest, DownStates
<1>1. b.clicks \in Nat /\ b.clicks + 1 \in Nat
  BY DEF ButtonValues
<1>2. CASE b.state = "Idle"
  BY <1>2 DEF ButtonValues, ButtonStates
<1>3. CASE b.state = "Window"
  BY <1>1, <1>3 DEF ButtonValues, ButtonStates
<1>4. CASE b.state = "Debounce"
  BY <1>4 DEF ButtonValues, ButtonStates
<1>5. CASE b.state = "Held"
  BY <1>5 DEF ButtonValues, ButtonStates
<1>6. CASE b.state = "WaitRelease"
  BY <1>6 DEF ButtonValues, ButtonStates
<1>7. QED
  BY <1>2, <1>3, <1>4, <1>5, <1>6 DEF ButtonValues, ButtonStates

(* The machine believes in the edge it is shown, whatever it believed before. *)
LEMMA EdgeMachine ==
  ASSUME NEW b \in ButtonValues, NEW e \in Edges
  PROVE  /\ OnEdge(b, e) \in ButtonValues
         /\ OnEdge(b, e).state \in DownStates <=> e = "Falling"
<1>1. b.state \in {"Idle", "Window"} \cup DownStates
  BY DEF ButtonValues, ButtonStates, DownStates
<1>2. CASE e = "Falling"
  BY <1>1, <1>2, EdgeTurns DEF Turns, DownStates
<1>3. CASE e = "Rising"
  BY <1>1, <1>3, EdgeTurns DEF Turns, DownStates
<1>4. QED
  BY <1>2, <1>3 DEF Edges

(* on_deadline, by the state; it leaves the belief about the pin alone.       *)
LEMMA DeadlineTurns ==
  ASSUME NEW b \in ButtonValues, DeadlineDue(b)
  PROVE  /\ b.state = "Debounce" => Turns(OnDeadline(b), "Held", Hold)
         /\ b.state = "Held" => Turns(OnDeadline(b), "WaitRelease", 0)
         /\ b.state = "Window" => Turns(OnDeadline(b), "Idle", 0)
         /\ b.state \in {"Debounce", "Held", "Window"}
         /\ OnDeadline(b) \in ButtonValues
         /\ OnDeadline(b).state \in DownStates <=> b.state \in DownStates
<1> USE ButtonTuning DEF Turns, OnDeadline, BelievePress, HoldElapsed, WindowClosed, Rest
<1>1. b.state \in {"Debounce", "Held", "Window"}
  BY DEF DeadlineDue, HasDeadline, TimedStates
<1>2. b.state = "Debounce" => Turns(OnDeadline(b), "Held", Hold)
  BY DEF ButtonValues, ButtonStates
<1>3. b.state = "Held" => Turns(OnDeadline(b), "WaitRelease", 0)
  BY DEF ButtonValues, ButtonStates
<1>4. b.state = "Window" => Turns(OnDeadline(b), "Idle", 0)
  BY DEF ButtonValues, ButtonStates
<1>5. QED
  BY <1>1, <1>2, <1>3, <1>4 DEF DownStates

(* Time only brings the deadline closer.                                      *)
LEMMA ElapseMachine ==
  ASSUME NEW b \in ButtonValues
  PROVE  /\ Elapse(b, 1) \in ButtonValues
         /\ Elapse(b, 1).state = b.state /\ Elapse(b, 1).waking = b.waking
         /\ Elapse(b, 1).left = IF b.left > 1 THEN b.left - 1 ELSE 0
BY DEF Elapse, ButtonValues

-----------------------------------------------------------------------------
(* What is to be proved. *)

\* What the machine believes of the button when it has read the channel.
LastDown == IF chan = <<>> THEN button.state \in DownStates ELSE chan[Len(chan)] = "Falling"

DownAt == {"rising", "sendRising"}

\* A waking press that ended before the task's first poll, with no release queued:
\* nobody will tell the machine, and the hold asks for a reset.
Ahead ==
  /\ chan = <<>> /\ at \in {"start", "falling"}
  /\ loop = "over" \/ (button.waking /\ button.state = "Held")

AgreeInv == (LastDown <=> at \in DownAt) \/ Ahead

\* Where the pin is, by where a task stands that has missed nothing.
PinRight ==
  /\ at = "start" => ~latched /\ (LastDown => chan = <<>> /\ pin = "down")
  /\ at # "start" => (LastDown <=> at \in DownAt)
  /\ at = "falling" => (pin = "down" <=> latched)
  /\ at = "rising" => (pin = "up" <=> latched)
  /\ at = "sendFalling" => ~latched /\ pin = "down"
  /\ at = "sendRising" => ~latched /\ pin = "up"
PinInv == prompt => PinRight

-----------------------------------------------------------------------------
(* The channel. *)

(* A set of numbers has a least one.                                          *)
LEMMA LeastNumber ==
  ASSUME NEW T \in SUBSET Nat, T # {}
  PROVE  \E x \in T : \A y \in T : x <= y
<1> DEFINE R == {ss \in Nat \X Nat : ss[1] < ss[2]}
<1>1. IsWellFoundedOn(R, Nat)
  BY NatLessThanWellFounded DEF OpToRel
<1>2. PICK x \in T : \A y \in T : ~(<<y, x>> \in R)
  <2> HIDE DEF R
  <2>1. QED
    BY <1>1, WFMin
<1>3. ASSUME NEW y \in T PROVE x <= y
  <2>1. x \in Nat /\ y \in Nat
    OBVIOUS
  <2>2. ~(<<y, x>> \in R)
    BY <1>2
  <2>3. <<y, x>> \in Nat \X Nat /\ <<y, x>>[1] = y /\ <<y, x>>[2] = x
    BY <2>1
  <2>4. ~(y < x)
    BY <2>2, <2>3, Zenon
  <2>5. QED
    BY <2>1, <2>4
<1>4. QED
  BY <1>3

(* What holds of 0 and is passed on holds of every number.                    *)
LEMMA Counting ==
  ASSUME NEW G \in SUBSET Nat, 0 \in G, \A n \in G : n + 1 \in G
  PROVE  G = Nat
<1> SUFFICES ASSUME Nat \ G # {} PROVE FALSE
  OBVIOUS
<1>1. PICK x \in Nat \ G : \A y \in Nat \ G : x <= y
  BY LeastNumber
<1>2. x - 1 \in Nat
  BY <1>1
<1>3. x - 1 \in G
  BY <1>1, <1>2
<1>4. QED
  BY <1>1, <1>3

\* The machine after each of the edges in the channel.
Reads(f, n) ==
  f = [k \in 0..n |-> IF k = 0 THEN button ELSE OnEdge(f[k - 1], chan[k])]

(* There is such a function, edge by edge.                                    *)
LEMMA ReadsExist ==
  ASSUME NEW n \in Nat
  PROVE  \E f : Reads(f, n)
<1> DEFINE G == {m \in Nat : \E f : Reads(f, m)}
<1>1. 0 \in G
  <2> DEFINE f == [k \in 0..0 |-> button]
  <2>1. f = [k \in 0..0 |-> IF k = 0 THEN button ELSE OnEdge(f[k - 1], chan[k])]
    OBVIOUS
  <2>2. QED
    BY <2>1 DEF Reads
<1>2. ASSUME NEW m \in G PROVE m + 1 \in G
  <2>1. PICK f : Reads(f, m)
    OBVIOUS
  <2> DEFINE g == [k \in 0..(m + 1) |-> IF k <= m THEN f[k] ELSE OnEdge(f[m], chan[m + 1])]
  <2>2. ASSUME NEW k \in 0..(m + 1)
        PROVE  g[k] = IF k = 0 THEN button ELSE OnEdge(g[k - 1], chan[k])
    <3>1. CASE k = 0
      BY <2>1, <3>1 DEF Reads
    <3>2. CASE k # 0 /\ k <= m
      <4>1. k \in 0..m /\ k - 1 \in 0..m /\ k - 1 \in 0..(m + 1)
        BY <3>2
      <4>2. f[k] = OnEdge(f[k - 1], chan[k])
        BY <2>1, <3>2, <4>1 DEF Reads
      <4>3. QED
        BY <3>2, <4>1, <4>2
    <3>3. CASE k = m + 1
      <4>1. k - 1 = m /\ m \in 0..(m + 1) /\ k # 0 /\ ~(k <= m)
        BY <3>3
      <4>2. QED
        BY <3>3, <4>1
    <3>4. QED
      BY <3>1, <3>2, <3>3
  <2>3. g = [k \in 0..(m + 1) |-> IF k = 0 THEN button ELSE OnEdge(g[k - 1], chan[k])]
    BY <2>2
  <2>4. Reads(g, m + 1)
    BY <2>3 DEF Reads
  <2>5. QED
    BY <2>4
<1>3. G = Nat
  BY <1>1, <1>2, Counting
<1>4. QED
  BY <1>3

(* Where a machine that has read the channel believes the button: by the last *)
(* edge, whatever the others were.                                            *)
LEMMA CaughtUpAtLast ==
  ASSUME button \in ButtonValues, chan \in Seq(Edges)
  PROVE  CaughtUp.state \in DownStates <=> LastDown
<1>1. Len(chan) \in Nat /\ \A k \in 1..Len(chan) : chan[k] \in Edges
  BY ElementOfSeq, LenProperties
<1>2. PICK after : Reads(after, Len(chan)) /\ CaughtUp = after[Len(chan)]
  BY <1>1, ReadsExist DEF CaughtUp, Reads
<1>3. /\ after[0] = button
      /\ \A k \in 1..Len(chan) : after[k] = OnEdge(after[k - 1], chan[k])
  BY <1>1, <1>2 DEF Reads
<1> DEFINE G == {k \in Nat : k <= Len(chan) => after[k] \in ButtonValues}
<1>4. 0 \in G
  BY <1>3
<1>5. ASSUME NEW k \in G PROVE k + 1 \in G
  <2>1. CASE k + 1 <= Len(chan)
    <3>1. k <= Len(chan) /\ k + 1 \in 1..Len(chan) /\ (k + 1) - 1 = k
      BY <1>1, <2>1
    <3>2. after[k] \in ButtonValues /\ chan[k + 1] \in Edges
      BY <1>1, <3>1
    <3>3. after[k + 1] = OnEdge(after[k], chan[k + 1])
      BY <1>3, <3>1
    <3>4. after[k + 1] \in ButtonValues
      BY <3>2, <3>3, EdgeMachine
    <3>5. QED
      BY <3>4
  <2>2. CASE ~(k + 1 <= Len(chan))
    BY <2>2
  <2>3. QED
    BY <2>1, <2>2
<1>6. G = Nat
  BY <1>4, <1>5, Counting
<1>7. \A k \in 0..Len(chan) : after[k] \in ButtonValues
  BY <1>1, <1>6
<1>8. CASE chan = <<>>
  BY <1>2, <1>3, <1>8 DEF LastDown
<1>9. CASE chan # <<>>
  <2>1. Len(chan) \in 1..Len(chan) /\ Len(chan) - 1 \in 0..Len(chan)
    BY <1>1, <1>9, EmptySeq
  <2>2. CaughtUp = OnEdge(after[Len(chan) - 1], chan[Len(chan)])
    BY <1>2, <1>3, <2>1
  <2>3. QED
    BY <1>1, <1>7, <1>9, <2>1, <2>2, EdgeMachine DEF LastDown
<1>10. QED
  BY <1>8, <1>9

(* An edge that is sent is the last one in the channel.                       *)
LEMMA Sent ==
  ASSUME NEW c \in Seq(Edges), NEW e \in Edges
  PROVE  /\ Append(c, e) \in Seq(Edges) /\ Append(c, e) # <<>>
         /\ Len(Append(c, e)) = Len(c) + 1
         /\ Append(c, e)[Len(c) + 1] = e
         /\ \A i \in 1..Len(c) : Append(c, e)[i] = c[i]
BY AppendProperties, LenProperties, EmptySeq

(* The channel's edges, and when it is empty.                                 *)
LEMMA Channel ==
  ASSUME NEW c \in Seq(Edges)
  PROVE  /\ Len(c) \in Nat
         /\ \A i \in 1..Len(c) : c[i] \in Edges
         /\ c = <<>> <=> Len(c) = 0
BY ElementOfSeq, LenProperties, EmptySeq

(* What is left when an edge is taken.                                        *)
LEMMA Taken ==
  ASSUME NEW c \in Seq(Edges), c # <<>>
  PROVE  /\ Head(c) = c[1] /\ Head(c) \in Edges
         /\ Tail(c) \in Seq(Edges) /\ Len(Tail(c)) = Len(c) - 1
         /\ \A i \in 1..(Len(c) - 1) : Tail(c)[i] = c[i + 1]
<1>1. Len(c) \in Nat \ {0} /\ c[1] \in Edges
  BY Channel
<1>2. QED
  BY <1>1, HeadTailProperties

(* Taking an edge leaves the last one last.                                   *)
LEMMA LastStays ==
  ASSUME button \in ButtonValues, chan \in Seq(Edges), chan # <<>>,
         button' = OnEdge(button, Head(chan)), chan' = Tail(chan)
  PROVE  LastDown' <=> LastDown
<1>1. /\ Len(chan) \in Nat \ {0} /\ Head(chan) = chan[1] /\ Head(chan) \in Edges
      /\ chan' \in Seq(Edges) /\ Len(chan') = Len(chan) - 1
      /\ \A i \in 1..(Len(chan) - 1) : chan'[i] = chan[i + 1]
  BY Taken, Channel
<1>2. CASE Len(chan) = 1
  <2>1. chan' = <<>>
    BY <1>1, <1>2, Channel
  <2>2. LastDown' <=> button'.state \in DownStates
    BY <2>1 DEF LastDown
  <2>3. LastDown <=> Head(chan) = "Falling"
    BY <1>1, <1>2 DEF LastDown
  <2>4. QED
    BY <1>1, <2>2, <2>3, EdgeMachine
<1>3. CASE Len(chan) # 1
  <2>1. chan' # <<>> /\ Len(chan') \in 1..(Len(chan) - 1)
    BY <1>1, <1>3, Channel
  <2>2. chan'[Len(chan')] = chan[Len(chan)]
    BY <1>1, <2>1
  <2>3. QED
    BY <2>1, <2>2 DEF LastDown
<1>4. QED
  BY <1>2, <1>3

-----------------------------------------------------------------------------
(* The task's poll, by where it comes from and where it comes to. *)

(* From the pin to a falling edge, or from a press to its release and what is *)
(* at the pin by then.                                                        *)
LEMMA PollMoves ==
  ASSUME TypeOK, TaskPoll
  PROVE  \/ /\ at = "start" /\ pin = "up" /\ at' = "falling" /\ chan' = chan
         \/ /\ (at = "start" /\ pin = "down") \/ at \in {"falling", "sendFalling"}
            /\ \/ Len(chan) < EdgeDepth /\ at' = "rising" /\ chan' = Append(chan, "Falling")
               \/ Len(chan) >= EdgeDepth /\ at' = "sendFalling" /\ chan' = chan
         \/ /\ at \in {"rising", "sendRising"}
            /\ \/ Len(chan) >= EdgeDepth /\ at' = "sendRising" /\ chan' = chan
               \/ /\ Len(chan) < EdgeDepth /\ pin = "up"
                  /\ at' = "falling" /\ chan' = Append(chan, "Rising")
               \/ /\ Len(chan) + 1 < EdgeDepth /\ pin = "down"
                  /\ at' = "rising" /\ chan' = Append(Append(chan, "Rising"), "Falling")
               \/ /\ Len(chan) + 1 = EdgeDepth /\ pin = "down"
                  /\ at' = "sendFalling" /\ chan' = Append(chan, "Rising")
<1>1. chan \in Seq(Edges) /\ Len(chan) \in Nat /\ EdgeDepth \in Nat /\ "Rising" \in Edges
  BY Channel, TaskBounds DEF TypeOK, Edges
<1>2. Len(Append(chan, "Rising")) = Len(chan) + 1
  BY <1>1, Sent
<1>3. pin \in {"up", "down"}
  BY DEF TypeOK
<1>4. CASE at = "start" /\ LoopHead(chan)
  BY <1>1, <1>3, <1>4 DEF LoopHead, SendFalling
<1>5. CASE at \in {"falling", "sendFalling"} /\ SendFalling(chan)
  BY <1>1, <1>5 DEF SendFalling
<1>6. CASE at \in {"rising", "sendRising"} /\ SendRising(chan)
  <2>1. CASE Len(chan) < EdgeDepth
    BY <1>1, <1>2, <1>3, <1>6, <2>1 DEF SendRising, LoopHead, SendFalling
  <2>2. CASE ~(Len(chan) < EdgeDepth)
    BY <1>1, <1>6, <2>2 DEF SendRising
  <2>3. QED
    BY <2>1, <2>2
<1>7. QED
  BY <1>4, <1>5, <1>6 DEF TaskPoll

(* Each step of the task keeps the channel's bound.                           *)
LEMMA PollTypes ==
  ASSUME TypeOK, TaskPoll
  PROVE  /\ at' \in {"falling", "sendFalling", "rising", "sendRising"}
         /\ chan' \in Seq(Edges) /\ Len(chan') <= EdgeDepth
<1>1. /\ chan \in Seq(Edges) /\ Len(chan) \in Nat /\ EdgeDepth \in Nat /\ Len(chan) <= EdgeDepth
      /\ "Rising" \in Edges /\ "Falling" \in Edges
  BY Channel, TaskBounds DEF TypeOK, Edges
<1>2. /\ Append(chan, "Falling") \in Seq(Edges) /\ Len(Append(chan, "Falling")) = Len(chan) + 1
      /\ Append(chan, "Rising") \in Seq(Edges) /\ Len(Append(chan, "Rising")) = Len(chan) + 1
  BY <1>1, Sent
<1>3. /\ Append(Append(chan, "Rising"), "Falling") \in Seq(Edges)
      /\ Len(Append(Append(chan, "Rising"), "Falling")) = Len(chan) + 2
  BY <1>1, <1>2, Sent
<1>4. /\ at' \in {"falling", "sendFalling", "rising", "sendRising"}
      /\ chan' \in {chan, Append(chan, "Rising"), Append(chan, "Falling"),
                    Append(Append(chan, "Rising"), "Falling")}
      /\ chan' # chan => Len(chan) < EdgeDepth
      /\ chan' = Append(Append(chan, "Rising"), "Falling") => chan' = chan \/ Len(chan) + 1 < EdgeDepth
  <2>1. /\ Append(Append(chan, "Rising"), "Falling") # Append(chan, "Rising")
        /\ Append(Append(chan, "Rising"), "Falling") # Append(chan, "Falling")
    BY <1>1, <1>2, <1>3
  <2>2. QED
    BY <1>1, <2>1, PollMoves
<1>5. QED
  BY <1>1, <1>2, <1>3, <1>4

-----------------------------------------------------------------------------
(* The types. *)

(* The first state is typed: the channel takes the release that main queues.  *)
LEMMA InitTypes == Init => TypeOK
<1> SUFFICES ASSUME Init PROVE TypeOK
  OBVIOUS
<1>1. \E woken \in BOOLEAN : button = NewButton(woken)
  BY TaskBounds DEF Init
<1>2. button \in ButtonValues
  BY <1>1, NewMachine
<1>3. chan \in {<<>>, <<"Rising">>} /\ EdgeDepth \in Nat \ {0}
  BY TaskBounds DEF Init
<1>4. chan \in Seq(Edges) /\ Len(chan) <= EdgeDepth
  <2>1. CASE chan = <<>>
    BY <1>3, <2>1, EmptySeq
  <2>2. CASE chan = <<"Rising">>
    BY <1>3, <2>2 DEF Edges
  <2>3. QED
    BY <1>3, <2>1, <2>2
<1>5. heldFor \in 0..(Debounce + Hold)
  BY ButtonTuning DEF Init
<1>6. /\ pin \in {"up", "down"} /\ at = "start" /\ latched = FALSE /\ loop = "waits"
      /\ blocked = FALSE /\ missed = FALSE /\ reset = "none" /\ presses = 0 /\ prompt = TRUE
  BY DEF Init
<1>7. QED
  BY <1>2, <1>4, <1>5, <1>6 DEF TypeOK

(* A step keeps the types.                                                    *)
LEMMA StepTypes == TypeOK /\ [Next]_vars => TypeOK'
<1> SUFFICES ASSUME TypeOK, [Next]_vars PROVE TypeOK'
  OBVIOUS
<1> USE DEF TypeOK
<1>1. CASE TaskPoll
  <2>1. /\ at' \in {"falling", "sendFalling", "rising", "sendRising"}
        /\ chan' \in Seq(Edges) /\ Len(chan') <= EdgeDepth
    BY <1>1, PollTypes
  <2>2. QED
    BY <1>1, <2>1 DEF TaskPoll
<1>2. CASE Press
  <2>1. prompt' \in BOOLEAN /\ latched' \in BOOLEAN /\ heldFor' = 0
    BY <1>2, Zenon DEF Press
  <2>2. pin' = "down" /\ presses' \in Nat /\ UNCHANGED <<at, chan, button, loop, blocked, missed, reset>>
    BY <1>2 DEF Press
  <2>3. QED
    BY <2>1, <2>2, ButtonTuning
<1>3. CASE Release
  BY <1>3 DEF Release
<1>4. CASE TakeEdge
  <2>1. button' \in ButtonValues /\ chan' \in Seq(Edges) /\ Len(chan') <= EdgeDepth
    BY <1>4, Taken, Channel, EdgeMachine, TaskBounds DEF TakeEdge
  <2>2. QED
    BY <1>4, <2>1 DEF TakeEdge
<1>5. CASE TakeDeadline
  <2>1. button' \in ButtonValues
    BY <1>5, DeadlineTurns DEF TakeDeadline
  <2>2. QED
    BY <1>5, <2>1 DEF TakeDeadline
<1>6. CASE Work \/ Return \/ Block \/ Unblock \/ Over \/ UNCHANGED vars
  BY <1>6 DEF Work, Return, Block, Unblock, Over, vars
<1>7. CASE Tick
  <2>1. button' \in ButtonValues /\ heldFor' \in 0..(Debounce + Hold)
    BY <1>7, ElapseMachine, ButtonTuning DEF Tick
  <2>2. QED
    BY <1>7, <2>1 DEF Tick
<1>8. QED
  BY <1>1, <1>2, <1>3, <1>4, <1>5, <1>6, <1>7 DEF Next

(* The channel never holds more than its depth, and all keep their types      *)
(* (fw/src/button.rs, EDGE_QUEUE_DEPTH).                                      *)
THEOREM TaskTypes == Spec => []TypeOK
<1>1. QED
  BY InitTypes, StepTypes, PTL DEF Spec

-----------------------------------------------------------------------------
(* Task and machine agree. *)

(* What a poll leaves in the channel says where the task is.                  *)
LEMMA PollLast ==
  ASSUME TypeOK, TaskPoll
  PROVE  /\ at' \in DownAt <=> \/ chan' = chan /\ at' = "sendRising"
                               \/ chan' # chan /\ LastDown'
         /\ chan' # chan => chan' # <<>>
         /\ chan' = chan => (LastDown' <=> LastDown)
         /\ chan' = chan => at' \in {"sendFalling", "sendRising"} \/ at = "start"
         /\ at' \in {"sendFalling", "sendRising"} => chan' # <<>>
         /\ at' = "sendFalling" /\ chan' # chan => ~LastDown'
<1>1. /\ chan \in Seq(Edges) /\ Len(chan) \in Nat /\ EdgeDepth \in Nat \ {0}
      /\ "Rising" \in Edges /\ "Falling" \in Edges
  BY Channel, TaskBounds DEF TypeOK, Edges
<1>2. ASSUME NEW e \in Edges, chan' = Append(chan, e)
      PROVE  chan' # chan /\ chan' # <<>> /\ (LastDown' <=> e = "Falling")
  BY <1>1, <1>2, Sent DEF LastDown
<1>3. ASSUME chan' = Append(Append(chan, "Rising"), "Falling")
      PROVE  chan' # chan /\ chan' # <<>> /\ LastDown'
  <2>1. /\ Append(chan, "Rising") \in Seq(Edges) /\ Len(Append(chan, "Rising")) = Len(chan) + 1
    BY <1>1, Sent
  <2>2. /\ chan' # <<>> /\ Len(chan') = Len(chan) + 2 /\ chan'[Len(chan) + 2] = "Falling"
    BY <1>1, <1>3, <2>1, Sent
  <2>3. QED
    BY <1>1, <2>2 DEF LastDown
<1>4. chan' = chan => (LastDown' <=> LastDown)
  BY DEF TaskPoll, LastDown
<1>5. Len(chan) >= EdgeDepth => chan # <<>>
  BY <1>1, Channel
<1>6. QED
  BY <1>1, <1>2, <1>3, <1>4, <1>5, PollMoves DEF DownAt

(* The first machine agrees, or is ahead.                                     *)
LEMMA InitAgree == Init => AgreeInv
BY DEF Init, AgreeInv, Ahead, LastDown, DownAt, DownStates, NewButton

(* A step keeps them in agreement.                                            *)
LEMMA StepAgree == TypeOK /\ AgreeInv /\ [Next]_vars => AgreeInv'
<1> SUFFICES ASSUME TypeOK, AgreeInv, [Next]_vars PROVE AgreeInv'
  OBVIOUS
<1>1. CASE TaskPoll
  <2>1. UNCHANGED <<button, loop>>
    BY <1>1 DEF TaskPoll
  <2>2. CASE chan' # chan
    BY <1>1, <2>2, PollLast DEF AgreeInv
  <2>3. CASE chan' = chan /\ at = "start"
    BY <1>1, <2>1, <2>3, PollLast, PollMoves DEF AgreeInv, Ahead, DownAt
  <2>4. CASE chan' = chan /\ at # "start"
    <3>1. at' \in {"sendFalling", "sendRising"} /\ chan # <<>> /\ (LastDown' <=> LastDown)
      BY <1>1, <2>4, PollLast
    <3>2. (at \in {"falling", "sendFalling"} /\ at' = "sendFalling")
            \/ (at \in {"rising", "sendRising"} /\ at' = "sendRising")
      BY <1>1, <2>4, <3>1, PollMoves
    <3>3. QED
      BY <3>1, <3>2 DEF AgreeInv, Ahead, DownAt
  <2>5. QED
    BY <2>2, <2>3, <2>4
<1>2. CASE Press \/ Release \/ Work \/ Return \/ Block \/ Unblock \/ Over \/ UNCHANGED vars
  <2>1. UNCHANGED <<at, chan, button>> /\ (loop = "over" => loop' = "over")
    BY <1>2 DEF Press, Release, Work, Return, Block, Unblock, Over, Listening, vars
  <2>2. QED
    BY <2>1 DEF AgreeInv, Ahead, LastDown
<1>3. CASE TakeEdge
  <2>1. button \in ButtonValues /\ chan \in Seq(Edges) /\ chan # <<>> /\ UNCHANGED at
        /\ button' = OnEdge(button, Head(chan)) /\ chan' = Tail(chan)
    BY <1>3 DEF TakeEdge, TypeOK
  <2>2. QED
    BY <2>1, LastStays DEF AgreeInv, Ahead
<1>4. CASE TakeDeadline
  <2>1. /\ button \in ButtonValues /\ DeadlineDue(button) /\ button' = OnDeadline(button)
        /\ UNCHANGED <<at, chan>> /\ loop = "waits"
    BY <1>4 DEF TakeDeadline, Listening, TypeOK
  <2>2. LastDown' <=> LastDown
    BY <2>1, DeadlineTurns DEF LastDown
  <2>3. button.state = "Held" => loop' = "over"
    BY <1>4, <2>1 DEF TakeDeadline, GestureAtDeadline
  <2>4. QED
    BY <2>1, <2>2, <2>3 DEF AgreeInv, Ahead
<1>5. CASE Tick
  <2>1. UNCHANGED <<at, chan, loop>> /\ button'.state = button.state /\ button'.waking = button.waking
    BY <1>5, ElapseMachine DEF Tick, TypeOK
  <2>2. QED
    BY <2>1 DEF AgreeInv, Ahead, LastDown
<1>6. QED
  BY <1>1, <1>2, <1>3, <1>4, <1>5 DEF Next

(* Task and machine agree about the button up to what is in the channel,      *)
(* whatever the task missed at the pin and however full the channel was       *)
(* (fw/src/button.rs, run).                                                   *)
THEOREM TaskAgrees == Spec => []TaskAndMachineAgree
<1>1. TypeOK /\ AgreeInv => TaskAndMachineAgree
  <2> SUFFICES ASSUME TypeOK, AgreeInv, at # "start", loop # "over", ~button.waking
               PROVE  CaughtUp.state \in DownStates <=> at \in {"rising", "sendRising"}
    BY DEF TaskAndMachineAgree
  <2>1. LastDown <=> at \in DownAt
    BY DEF AgreeInv, Ahead
  <2>2. QED
    BY <2>1, CaughtUpAtLast DEF TypeOK, DownAt
<1>2. QED
  BY <1>1, TaskTypes, InitAgree, StepAgree, PTL DEF Spec

-----------------------------------------------------------------------------
(* A task that has missed nothing is right about the pin. *)

(* Before the first step only a machine that was told of a press believes in  *)
(* one, and then the button is down, or its release is queued.                *)
LEMMA InitPin == Init => PinInv
<1> SUFFICES ASSUME Init PROVE PinRight
  BY DEF PinInv
<1>1. at = "start" /\ latched = FALSE
  BY DEF Init
<1>2. PICK woken \in Woken :
        /\ pin \in {"up", "down"}
        /\ chan = IF woken /\ pin = "up" THEN <<"Rising">> ELSE <<>>
        /\ button = NewButton(woken)
  BY DEF Init
<1>3. LastDown => chan = <<>> /\ pin = "down"
  <2>1. CASE woken /\ pin = "up"
    <3>1. chan = <<"Rising">>
      BY <1>2, <2>1
    <3>2. chan # <<>> /\ chan[Len(chan)] = "Rising"
      BY <3>1
    <3>3. QED
      BY <3>2 DEF LastDown
  <2>2. CASE ~(woken /\ pin = "up")
    BY <1>2, <2>2 DEF LastDown, DownStates, NewButton
  <2>3. QED
    BY <2>1, <2>2
<1>4. QED
  BY <1>1, <1>3 DEF PinRight

(* The task polls: it looks at the pin, and says what it saw.                 *)
LEMMA PollPin ==
  ASSUME TypeOK, PinRight, TaskPoll
  PROVE  PinRight'
<1>1. /\ UNCHANGED <<pin, button>> /\ latched' = FALSE /\ pin \in {"up", "down"}
      /\ at \in {"falling", "rising"} => latched
  BY DEF TaskPoll, TaskReady, TypeOK
<1>2. LastDown' <=> at' \in DownAt
  <2>1. CASE chan' # chan
    BY <2>1, PollLast
  <2>2. CASE chan' = chan /\ at = "start"
    BY <1>1, <2>2, PollLast, PollMoves DEF PinRight, DownAt
  <2>3. CASE chan' = chan /\ at # "start"
    <3>1. LastDown' <=> LastDown
      BY <2>3, PollLast
    <3>2. at' \in DownAt <=> at \in DownAt
      BY <2>3, PollLast, PollMoves DEF DownAt
    <3>3. QED
      BY <2>3, <3>1, <3>2 DEF PinRight
  <2>4. QED
    BY <2>1, <2>2, <2>3
<1>3. CASE at = "start"
  BY <1>1, <1>2, <1>3, PollMoves DEF PinRight
<1>4. CASE at \in {"falling", "sendFalling"}
  BY <1>1, <1>2, <1>4, PollMoves DEF PinRight
<1>5. CASE at \in {"rising", "sendRising"}
  BY <1>1, <1>2, <1>5, PollMoves DEF PinRight
<1>6. QED
  BY <1>3, <1>4, <1>5 DEF TypeOK

(* A step keeps it so, or the task has missed something.                      *)
LEMMA StepPin == TypeOK /\ PinInv /\ [Next]_vars => PinInv'
<1> SUFFICES ASSUME TypeOK, PinInv, [Next]_vars, prompt' PROVE PinRight'
  BY DEF PinInv
<1>1. CASE TaskPoll
  BY <1>1, PollPin DEF PinInv, TaskPoll
<1>2. CASE Press
  <2>1. prompt /\ at \in {"falling", "rising"} /\ ~latched /\ pin = "up" /\ pin' = "down"
    BY <1>2 DEF Press, Ready, TaskReady
  <2>2. LastDown' <=> LastDown
    BY <1>2 DEF Press, LastDown
  <2>3. at = "falling" /\ at' = at /\ latched'
    BY <1>2, <2>1 DEF PinInv, PinRight, Press
  <2>4. QED
    BY <2>1, <2>2, <2>3 DEF PinInv, PinRight, DownAt
<1>3. CASE Release
  <2>1. prompt /\ at \in {"falling", "rising"} /\ ~latched /\ pin = "down" /\ pin' = "up"
    BY <1>3 DEF Release, Ready, TaskReady
  <2>2. LastDown' <=> LastDown
    BY <1>3 DEF Release, LastDown
  <2>3. at = "rising" /\ at' = at /\ latched'
    BY <1>3, <2>1 DEF PinInv, PinRight, Release
  <2>4. QED
    BY <2>1, <2>2, <2>3 DEF PinInv, PinRight, DownAt
<1>4. ASSUME prompt' => prompt, UNCHANGED <<pin, at, latched>>, LastDown' <=> LastDown,
             chan = <<>> => chan' = <<>>
      PROVE  PinRight'
  BY <1>4 DEF PinInv, PinRight
<1>5. CASE TakeEdge
  <2>1. /\ button \in ButtonValues /\ chan \in Seq(Edges) /\ chan # <<>>
        /\ button' = OnEdge(button, Head(chan)) /\ chan' = Tail(chan)
    BY <1>5 DEF TakeEdge, TypeOK
  <2>2. QED
    BY <1>4, <1>5, <2>1, LastStays DEF TakeEdge
<1>6. CASE TakeDeadline
  <2>1. button \in ButtonValues /\ DeadlineDue(button) /\ button' = OnDeadline(button) /\ chan' = chan
    BY <1>6 DEF TakeDeadline, TypeOK
  <2>2. LastDown' <=> LastDown
    BY <2>1, DeadlineTurns DEF LastDown
  <2>3. QED
    BY <1>4, <1>6, <2>2 DEF TakeDeadline
<1>7. CASE Tick
  <2>1. button'.state = button.state /\ chan' = chan
    BY <1>7, ElapseMachine DEF Tick, TypeOK
  <2>2. LastDown' <=> LastDown
    BY <2>1 DEF LastDown
  <2>3. QED
    BY <1>4, <1>7, <2>2 DEF Tick
<1>8. CASE Work \/ Return \/ Block \/ Unblock \/ Over \/ UNCHANGED vars
  <2>1. UNCHANGED <<pin, at, latched, chan, button>> /\ (prompt' => prompt)
    BY <1>8 DEF Work, Return, Block, Unblock, Over, vars
  <2>2. LastDown' <=> LastDown
    BY <2>1 DEF LastDown
  <2>3. QED
    BY <1>4, <2>1, <2>2
<1>9. QED
  BY <1>1, <1>2, <1>3, <1>5, <1>6, <1>7, <1>8 DEF Next

(* As long as the task was back at the pin whenever it moved, the machine has *)
(* the pin right once it has read the channel (fw/src/button.rs, run).        *)
THEOREM TaskIsRight == Spec => []PromptTaskIsRight
<1>1. TypeOK /\ PinInv => PromptTaskIsRight
  BY CaughtUpAtLast DEF TypeOK, PinInv, PinRight, PromptTaskIsRight, DownAt
<1>2. QED
  BY <1>1, TaskTypes, InitPin, StepPin, PTL DEF Spec

-----------------------------------------------------------------------------
(* A factory reset is asked for by a button that is held. *)

\* The edges of one press and the next take turns.
Alternate(c) == \A i \in 1..Len(c) : i > 1 => c[i] # c[i - 1]

\* The task rests at the pin, with nothing on its way to the machine.
Quiet == at \in {"falling", "rising"} /\ ~latched /\ chan = <<>>

\* A deadline that has come and is not forgotten.
DueNow == DeadlineDue(button) /\ ~missed

\* No release is on its way to the machine.
NoRelease == chan \in {<<>>, <<"Falling">>} /\ at # "sendRising"

\* The machine waits at least until the button has been down for that long.
Timed ==
  /\ button.state = "Debounce" => heldFor + button.left >= Debounce
  /\ button.state = "Held" => heldFor + button.left >= Debounce + Hold

\* A release that finds the channel full finds the machine at the press before it.
StuckInv ==
  at = "sendRising" =>
    /\ chan = <<"Falling">> => button.state \notin DownStates
    /\ chan = <<>> => button.state = "Debounce" /\ button.left = Debounce

HoldRight ==
  /\ Alternate(chan)
  /\ blocked => Quiet
  /\ DueNow => loop = "waits" /\ Quiet
  /\ NoRelease => Timed
  /\ StuckInv
  /\ reset # "notHeld"
HoldInv == prompt => HoldRight

(* tuning.rs says of a factory reset that the button is held for it, and it   *)
(* is, if the task was prompt: also when the loop was busy for the whole of   *)
(* the press, or when a press woke the device (TaskLostRelease shows what a   *)
(* late task does).                                                           *)
PromptResetMeansHeld == prompt => ResetMeansHeld

(* Another edge takes its turn.                                               *)
LEMMA AlternateAppend ==
  ASSUME NEW c \in Seq(Edges), NEW e \in Edges, Alternate(c), c # <<>> => c[Len(c)] # e
  PROVE  Alternate(Append(c, e))
<1>1. /\ Len(c) \in Nat /\ (c = <<>> <=> Len(c) = 0)
      /\ Len(Append(c, e)) = Len(c) + 1 /\ Append(c, e)[Len(c) + 1] = e
      /\ \A i \in 1..Len(c) : Append(c, e)[i] = c[i]
  BY Sent, Channel
<1>2. ASSUME NEW i \in 1..(Len(c) + 1), i > 1 PROVE Append(c, e)[i] # Append(c, e)[i - 1]
  <2>1. i - 1 \in 1..Len(c)
    BY <1>1, <1>2
  <2>2. CASE i = Len(c) + 1
    <3>1. i - 1 = Len(c) /\ c # <<>>
      BY <1>1, <2>1, <2>2
    <3>2. Append(c, e)[i] = e /\ Append(c, e)[i - 1] = c[Len(c)]
      BY <1>1, <2>1, <2>2, <3>1
    <3>3. QED
      BY <3>1, <3>2
  <2>3. CASE i \in 1..Len(c)
    <3>1. Append(c, e)[i] = c[i] /\ Append(c, e)[i - 1] = c[i - 1]
      BY <1>1, <2>1, <2>3
    <3>2. QED
      BY <1>2, <2>3, <3>1 DEF Alternate
  <2>4. QED
    BY <1>1, <1>2, <2>2, <2>3
<1>3. QED
  BY <1>1, <1>2 DEF Alternate

(* What is left when one is taken takes turns, too.                           *)
LEMMA AlternateTail ==
  ASSUME NEW c \in Seq(Edges), c # <<>>, Alternate(c)
  PROVE  Alternate(Tail(c))
<1>1. /\ Len(c) \in Nat \ {0} /\ Len(Tail(c)) = Len(c) - 1
      /\ \A i \in 1..(Len(c) - 1) : Tail(c)[i] = c[i + 1]
  BY Taken, Channel
<1>2. ASSUME NEW i \in 1..(Len(c) - 1), i > 1 PROVE Tail(c)[i] # Tail(c)[i - 1]
  <2>1. i - 1 \in 1..(Len(c) - 1) /\ i + 1 \in 1..Len(c) /\ i + 1 > 1 /\ (i + 1) - 1 = i
        /\ (i - 1) + 1 = i
    BY <1>1, <1>2
  <2>2. Tail(c)[i] = c[i + 1] /\ Tail(c)[i - 1] = c[i]
    BY <1>1, <1>2, <2>1
  <2>3. QED
    BY <2>1, <2>2 DEF Alternate
<1>3. QED
  BY <1>1, <1>2 DEF Alternate

(* A lone press in the channel.                                               *)
LEMMA LoneFalling ==
  ASSUME NEW c \in Seq(Edges)
  PROVE  c = <<"Falling">> <=> Len(c) = 1 /\ c[1] = "Falling"
<1>1. Len(<<"Falling">>) = 1 /\ <<"Falling">>[1] = "Falling" /\ <<"Falling">> \in Seq(Edges)
  BY DEF Edges
<1>2. ASSUME Len(c) = 1, c[1] = "Falling" PROVE c = <<"Falling">>
  BY <1>1, <1>2, SeqEqual
<1>3. QED
  BY <1>1, <1>2

(* A waking press has been held for the debounce, and needs the hold.         *)
LEMMA InitHold == Init => HoldInv
<1> SUFFICES ASSUME Init PROVE HoldRight
  BY DEF HoldInv
<1>1. at = "start" /\ blocked = FALSE /\ reset = "none"
  BY DEF Init
<1>2. PICK woken \in Woken :
        /\ pin \in {"up", "down"}
        /\ chan = IF woken /\ pin = "up" THEN <<"Rising">> ELSE <<>>
        /\ button = NewButton(woken)
        /\ heldFor = IF woken /\ pin = "down" THEN Debounce ELSE 0
  BY DEF Init
<1>3. ~DeadlineDue(button)
  BY <1>2, ButtonTuning DEF NewButton, DeadlineDue, HasDeadline, TimedStates
<1>4. CASE woken /\ pin = "up"
  <2>1. chan = <<"Rising">> /\ chan # <<>> /\ chan # <<"Falling">>
    BY <1>2, <1>4
  <2>2. Alternate(chan)
    BY <2>1 DEF Alternate
  <2>3. QED
    BY <1>1, <1>3, <2>1, <2>2 DEF HoldRight, NoRelease, StuckInv, DueNow
<1>5. CASE ~(woken /\ pin = "up")
  <2>1. chan = <<>>
    BY <1>2, <1>5
  <2>2. Alternate(chan)
    BY <2>1 DEF Alternate
  <2>3. Timed
    BY <1>2, <1>5, ButtonTuning DEF Timed, NewButton
  <2>4. QED
    BY <1>1, <1>3, <2>2, <2>3 DEF HoldRight, StuckInv, DueNow
<1>6. QED
  BY <1>4, <1>5

(* The task's poll sends the edges in turn, and takes no release away.        *)
LEMMA PollHold ==
  ASSUME TypeOK, PinRight, HoldRight, TaskPoll, EdgeDepth > 1
  PROVE  HoldRight'
<1>1. /\ chan \in Seq(Edges) /\ Len(chan) \in Nat /\ EdgeDepth \in Nat
      /\ "Rising" \in Edges /\ "Falling" \in Edges
      /\ chan = <<>> => Len(chan) = 0
  BY Channel, TaskBounds DEF TypeOK, Edges
<1>2. /\ UNCHANGED <<button, loop, blocked, missed, heldFor, reset>> /\ ~blocked
      /\ at = "start" \/ latched \/ at \in {"sendFalling", "sendRising"}
  BY DEF TaskPoll, TaskReady
<1>3. ~DueNow'
  BY <1>2 DEF DueNow, HoldRight, Quiet
<1>4. /\ Append(chan, "Rising") \in Seq(Edges)
      /\ Append(chan, "Rising") # <<>>
      /\ Len(Append(chan, "Rising")) = Len(chan) + 1
      /\ Append(chan, "Rising")[Len(chan) + 1] = "Rising"
      /\ Len(Append(chan, "Falling")) = Len(chan) + 1
      /\ Len(Append(Append(chan, "Rising"), "Falling")) = Len(chan) + 2
  BY <1>1, Sent
<1>5. chan # <<>> => /\ at \in {"start", "falling", "sendFalling"} => chan[Len(chan)] # "Falling"
                     /\ at \in {"rising", "sendRising"} => chan[Len(chan)] = "Falling"
  BY DEF PinRight, LastDown, DownAt
<1>6. Alternate(chan')
  <2>1. at \in {"start", "falling", "sendFalling"} => Alternate(Append(chan, "Falling"))
    BY <1>1, <1>5, AlternateAppend DEF HoldRight
  <2>2. at \in {"rising", "sendRising"} => Alternate(Append(chan, "Rising"))
    BY <1>1, <1>5, AlternateAppend DEF HoldRight
  <2>3. at \in {"rising", "sendRising"} => Alternate(Append(Append(chan, "Rising"), "Falling"))
    BY <1>1, <1>4, <2>2, AlternateAppend
  <2>4. QED
    BY <2>1, <2>2, <2>3, PollMoves DEF HoldRight
<1>7. NoRelease' => NoRelease
  <2>1. chan = <<"Falling">> => Len(chan) = 1
    BY <1>1, LoneFalling
  <2>2. Append(chan, "Rising") \notin {<<>>, <<"Falling">>}
    BY <1>1, <1>4, LoneFalling
  <2>3. Append(chan, "Falling") # <<>> /\ (Append(chan, "Falling") = <<"Falling">> => chan = <<>>)
    BY <1>1, <1>4, LoneFalling, Channel
  <2>4. Append(Append(chan, "Rising"), "Falling") \notin {<<>>, <<"Falling">>}
    BY <1>1, <1>4, LoneFalling, Sent, Channel
  <2>5. chan = <<>> \/ chan = <<"Falling">> => Len(chan) < EdgeDepth
    <3>1. 0 < EdgeDepth /\ 1 < EdgeDepth
      BY <1>1
    <3>2. QED
      BY <1>1, <2>1, <3>1
  <2>6. QED
    BY <1>1, <2>2, <2>3, <2>4, <2>5, PollMoves DEF NoRelease
<1>8. StuckInv'
  <2>1. ASSUME at' = "sendRising" PROVE chan' \notin {<<>>, <<"Falling">>}
    <3>1. chan' \in Seq(Edges) /\ Len(chan') >= EdgeDepth
      BY <1>1, <2>1, PollMoves, PollTypes
    <3>2. QED
      BY <1>1, <3>1, LoneFalling, Channel
  <2>2. QED
    BY <2>1 DEF StuckInv
<1>9. Timed' <=> Timed
  BY <1>2 DEF Timed
<1>10. QED
  BY <1>2, <1>3, <1>6, <1>7, <1>8, <1>9 DEF HoldRight

(* What the timing says carries over when the machine does not move.          *)
LEMMA SameHold ==
  ASSUME HoldRight, UNCHANGED <<at, chan, button, heldFor>>,
         blocked' => Quiet', DueNow' => loop' = "waits" /\ Quiet', reset' # "notHeld"
  PROVE  HoldRight'
<1>1. (NoRelease' <=> NoRelease) /\ (Timed' <=> Timed) /\ (StuckInv' <=> StuckInv)
  BY DEF NoRelease, Timed, StuckInv
<1>2. QED
  BY <1>1 DEF HoldRight

(* The pin moves while the task listens: the machine is not owed anything.    *)
LEMMA PinHold ==
  ASSUME TypeOK, PinRight, HoldRight, Ready, Press \/ Release
  PROVE  HoldRight'
<1>1. /\ UNCHANGED <<at, chan, button, loop, blocked, missed, reset>>
      /\ at \in {"falling", "rising"} /\ ~blocked /\ ~latched
  BY DEF Press, Release, Ready, TaskReady
<1>2. ~DueNow
  BY DEF Ready, DueNow, DeadlineFirst, Listening, HoldRight
<1>3. ~DueNow' /\ ~blocked'
  BY <1>1, <1>2 DEF DueNow
<1>4. CASE Press
  <2>1. at = "falling" /\ ~LastDown
    BY <1>1, <1>4 DEF Press, PinRight, DownAt
  <2>2. NoRelease => button.state \notin DownStates
    <3>1. CASE chan = <<>>
      BY <2>1, <3>1 DEF LastDown
    <3>2. CASE chan = <<"Falling">>
      BY <2>1, <3>2 DEF LastDown
    <3>3. QED
      BY <3>1, <3>2 DEF NoRelease
  <2>3. NoRelease' => Timed'
    BY <1>1, <2>2 DEF NoRelease, Timed, DownStates
  <2>4. Alternate(chan') /\ StuckInv' /\ reset' # "notHeld"
    BY <1>1, <2>1 DEF HoldRight, StuckInv
  <2>5. QED
    BY <1>3, <2>3, <2>4 DEF HoldRight
<1>5. CASE Release
  BY <1>1, <1>3, <1>5, SameHold DEF Release, HoldRight
<1>6. QED
  BY <1>4, <1>5

(* An edge is taken in turn: a release ends the press, and a press begins one *)
(* with the whole debounce before it.                                         *)
LEMMA EdgeHold ==
  ASSUME TypeOK, PinRight, HoldRight, TakeEdge
  PROVE  HoldRight'
<1>1. /\ UNCHANGED <<at, loop, blocked, heldFor, reset>> /\ ~blocked
      /\ chan \in Seq(Edges) /\ chan # <<>> /\ button \in ButtonValues
      /\ button' = OnEdge(button, Head(chan)) /\ chan' = Tail(chan)
      /\ missed' = IF DeadlineDue(button') THEN missed ELSE FALSE
      /\ ~DueNow /\ heldFor \in Nat
  BY ButtonTuning DEF TakeEdge, Listening, TypeOK, DeadlineFirst, DueNow
<1>2. /\ Head(chan) = chan[1] /\ Head(chan) \in Edges /\ Len(chan) \in Nat \ {0}
      /\ chan' \in Seq(Edges) /\ Len(chan') = Len(chan) - 1
      /\ \A i \in 1..(Len(chan) - 1) : chan'[i] = chan[i + 1]
  BY <1>1, Taken, Channel
<1>3. ~DueNow'
  <2>1. CASE button' = button
    BY <1>1, <2>1 DEF DueNow
  <2>2. CASE button' # button
    <3>1. \/ button'.state \in {"Debounce", "Window"} /\ button'.left > 0
          \/ button'.state = "Idle"
      BY <1>1, <1>2, <2>2, EdgeTurns, ButtonTuning DEF Turns, Edges, ButtonValues, ButtonStates, DownStates
    <3>2. QED
      BY <3>1 DEF DueNow, DeadlineDue, HasDeadline, TimedStates
  <2>3. QED
    BY <2>1, <2>2
<1>4. Alternate(chan')
  BY <1>1, AlternateTail DEF HoldRight
<1>5. CASE Head(chan) = "Falling"
  <2>1. button.state \in DownStates => button' = button
    BY <1>1, <1>5, EdgeTurns
  <2>2. button.state \notin DownStates => button'.state = "Debounce" /\ button'.left = Debounce
    BY <1>1, <1>5, EdgeTurns DEF Turns, ButtonValues, ButtonStates, DownStates
  <2>3. chan' # <<"Falling">>
    <3>1. SUFFICES ASSUME chan' = <<"Falling">> PROVE FALSE
      OBVIOUS
    <3>2. Len(chan') = 1 /\ chan'[1] = "Falling"
      <4>1. Len(<<"Falling">>) = 1 /\ <<"Falling">>[1] = "Falling"
        OBVIOUS
      <4>2. QED
        BY <3>1, <4>1
    <3>3. Len(chan) - 1 = 1 /\ Len(chan) \in Nat
      BY <1>2, <3>2
    <3>4. Len(chan) = 2
      BY <3>3
    <3>5. chan'[1] = chan[1 + 1]
      BY <1>2, <3>4
    <3>6. chan[2] = "Falling" /\ chan[1] = "Falling"
      BY <1>2, <1>5, <3>2, <3>5
    <3>7. QED
      BY <3>4, <3>6 DEF HoldRight, Alternate
  <2>4. chan' = <<>> => chan = <<"Falling">>
    BY <1>1, <1>2, <1>5, LoneFalling, Channel
  <2>5. NoRelease' => Timed'
    <3>1. SUFFICES ASSUME chan' = <<>>, at # "sendRising" PROVE Timed'
      BY <1>1, <2>3 DEF NoRelease
    <3>2. Timed
      BY <2>4, <3>1 DEF HoldRight, NoRelease
    <3>3. CASE button.state \in DownStates
      BY <1>1, <2>1, <3>2, <3>3 DEF Timed
    <3>4. CASE button.state \notin DownStates
      BY <1>1, <2>2, <3>4, ButtonTuning DEF Timed
    <3>5. QED
      BY <3>3, <3>4
  <2>6. StuckInv'
    <3>1. SUFFICES ASSUME at = "sendRising", chan' = <<>>
                   PROVE  button'.state = "Debounce" /\ button'.left = Debounce
      BY <1>1, <2>3 DEF StuckInv
    <3>2. button.state \notin DownStates
      BY <2>4, <3>1 DEF HoldRight, StuckInv
    <3>3. QED
      BY <2>2, <3>2
  <2>7. QED
    BY <1>1, <1>3, <1>4, <2>5, <2>6 DEF HoldRight
<1>6. CASE Head(chan) = "Rising"
  <2>1. button'.state \notin DownStates
    BY <1>1, <1>2, <1>6, EdgeMachine
  <2>2. Timed'
    BY <2>1 DEF Timed, DownStates
  <2>3. StuckInv'
    <3>1. SUFFICES ASSUME at = "sendRising" PROVE chan' # <<>>
      BY <1>1, <2>1 DEF StuckInv
    <3>2. LastDown
      BY <3>1 DEF PinRight, DownAt
    <3>3. Len(chan) # 1
      BY <1>1, <1>2, <1>6, <3>2 DEF LastDown
    <3>4. QED
      BY <1>2, <3>3, Channel
  <2>4. QED
    BY <1>1, <1>3, <1>4, <2>2, <2>3 DEF HoldRight
<1>7. QED
  BY <1>2, <1>5, <1>6 DEF Edges

(* A deadline that comes: a press is believed after the debounce, and a reset *)
(* is asked for after the hold on top of it.                                  *)
LEMMA DeadlineHold ==
  ASSUME TypeOK, PinRight, HoldRight, TakeDeadline
  PROVE  HoldRight'
<1>1. /\ UNCHANGED <<at, chan, blocked, heldFor>> /\ ~blocked /\ DeadlineDue(button)
      /\ button' = OnDeadline(button) /\ missed' = FALSE /\ button \in ButtonValues
      /\ button.left = 0 /\ (missed => chan = <<>>) /\ heldFor \in 0..(Debounce + Hold)
      /\ Debounce \in Nat \ {0} /\ Hold \in Nat \ {0} /\ Window \in Nat \ {0}
  BY ButtonTuning DEF TakeDeadline, Listening, TypeOK, DeadlineDue
<1>2. chan = <<>>
  BY <1>1 DEF HoldRight, DueNow, Quiet
<1>3. at # "sendRising"
  <2>1. SUFFICES ASSUME at = "sendRising" PROVE FALSE
    OBVIOUS
  <2>2. button.left = Debounce
    BY <1>2, <2>1 DEF HoldRight, StuckInv
  <2>3. QED
    BY <1>1, <2>2
<1>4. Timed
  BY <1>2, <1>3 DEF HoldRight, NoRelease
<1>5. ~DueNow'
  BY <1>1, DeadlineTurns DEF Turns, DueNow, DeadlineDue, HasDeadline, TimedStates
<1>6. Timed'
  <2>1. CASE button.state = "Debounce"
    BY <1>1, <1>4, <2>1, DeadlineTurns DEF Turns, Timed
  <2>2. CASE button.state # "Debounce"
    BY <1>1, <2>2, DeadlineTurns DEF Turns, Timed
  <2>3. QED
    BY <2>1, <2>2
<1>7. reset' # "notHeld"
  <2>1. CASE button.state = "Held"
    <3>1. heldFor = Debounce + Hold
      BY <1>1, <1>4, <2>1 DEF Timed
    <3>2. QED
      BY <3>1 DEF TakeDeadline, HoldRight
  <2>2. CASE button.state # "Held"
    <3>1. GestureAtDeadline(button) # "FactoryReset"
      BY <2>2 DEF GestureAtDeadline, ClickGesture
    <3>2. QED
      BY <3>1 DEF TakeDeadline, HoldRight
  <2>3. QED
    BY <2>1, <2>2
<1>8. QED
  BY <1>1, <1>2, <1>3, <1>5, <1>6, <1>7 DEF HoldRight, StuckInv

(* Time passes for the button and the machine alike.                          *)
LEMMA TickHold ==
  ASSUME TypeOK, PinRight, HoldRight, Tick, EdgeDepth > 1
  PROVE  HoldRight'
<1>1. /\ UNCHANGED <<pin, at, latched, chan, loop, blocked, reset>>
      /\ button' = Elapse(button, 1) /\ button \in ButtonValues
      /\ missed' = IF loop = "busy" /\ DeadlineDue(button') THEN TRUE ELSE missed
      /\ heldFor' = IF pin = "up" THEN 0
                    ELSE IF heldFor < Debounce + Hold THEN heldFor + 1 ELSE heldFor
      /\ loop # "over" /\ heldFor \in Nat /\ chan \in Seq(Edges)
      /\ pin \in {"up", "down"} /\ loop \in {"waits", "busy", "over"}
      /\ at \in {"start", "falling", "sendFalling", "rising", "sendRising"}
      /\ Debounce \in Nat /\ Hold \in Nat /\ EdgeDepth \in Nat
  BY ButtonTuning, TaskBounds DEF Tick, TypeOK
<1>2. blocked => Quiet
  BY DEF HoldRight
<1>3. ~blocked => ~TaskReady /\ (loop = "waits" => chan = <<>> /\ ~DeadlineFirst)
  BY DEF Tick
<1>4. /\ at # "start" /\ ~latched
      /\ at \in {"sendFalling", "sendRising"} => Len(chan) >= EdgeDepth
  BY <1>1, <1>2, <1>3, Channel DEF Quiet, TaskReady, PinRight
<1>5. at = "sendRising" => chan \notin {<<>>, <<"Falling">>}
  BY <1>1, <1>4, LoneFalling, Channel
<1>6. DueNow' => loop = "waits" /\ Quiet
  <2>1. SUFFICES ASSUME DueNow' PROVE loop = "waits" /\ Quiet
    OBVIOUS
  <2>2. loop = "waits"
    BY <1>1, <2>1 DEF DueNow
  <2>3. CASE blocked
    BY <1>2, <2>2, <2>3
  <2>4. CASE ~blocked
    <3>1. chan = <<>> /\ ~TaskReady
      BY <1>3, <2>2, <2>4
    <3>2. at \in {"falling", "rising"}
      BY <1>1, <1>4, <3>1, Channel
    <3>3. QED
      BY <1>4, <2>2, <3>1, <3>2 DEF Quiet
  <2>5. QED
    BY <2>3, <2>4
<1>7. NoRelease' => Timed'
  <2>1. SUFFICES ASSUME NoRelease, button.state \in {"Debounce", "Held"} PROVE Timed'
    BY <1>1, ElapseMachine DEF NoRelease, Timed
  <2>2. LastDown
    <3>1. CASE chan = <<>>
      BY <2>1, <3>1 DEF LastDown, DownStates
    <3>2. CASE chan = <<"Falling">>
      BY <3>2 DEF LastDown
    <3>3. QED
      BY <2>1, <3>1, <3>2 DEF NoRelease
  <2>3. at = "rising"
    BY <1>4, <2>1, <2>2 DEF PinRight, DownAt, NoRelease
  <2>4. pin = "down"
    BY <1>1, <1>4, <2>3 DEF PinRight
  <2>5. Timed /\ button.left \in Nat
    BY <1>1, <2>1 DEF HoldRight, ButtonValues
  <2>6. button'.left = (IF button.left > 1 THEN button.left - 1 ELSE 0) /\ button'.state = button.state
    BY <1>1, ElapseMachine
  <2>7. heldFor' >= heldFor /\ (heldFor < Debounce + Hold => heldFor' = heldFor + 1)
    BY <1>1, <2>4
  <2>8. CASE heldFor < Debounce + Hold
    <3>1. heldFor' = heldFor + 1 /\ button'.left >= button.left - 1
      BY <2>5, <2>6, <2>7, <2>8
    <3>2. QED
      BY <1>1, <2>5, <2>6, <3>1 DEF Timed
  <2>9. CASE ~(heldFor < Debounce + Hold)
    <3>1. heldFor' >= Debounce + Hold /\ button'.left >= 0 /\ heldFor' \in Nat
      BY <1>1, <2>4, <2>5, <2>6, <2>9
    <3>2. QED
      BY <1>1, <2>5, <2>6, <3>1 DEF Timed
  <2>10. QED
    BY <2>8, <2>9
<1>8. StuckInv'
  BY <1>1, <1>5 DEF StuckInv
<1>9. QED
  BY <1>1, <1>2, <1>6, <1>7, <1>8 DEF HoldRight, Quiet

(* A step keeps it so, or the task has missed something.                      *)
LEMMA StepHold ==
  ASSUME EdgeDepth > 1
  PROVE  TypeOK /\ PinInv /\ HoldInv /\ [Next]_vars => HoldInv'
<1> SUFFICES ASSUME TypeOK, PinInv, HoldInv, [Next]_vars, prompt' PROVE HoldRight'
  BY DEF HoldInv
<1>1. prompt /\ (Press \/ Release => Ready) /\ (Block => ~TaskReady /\ chan = <<>>)
  <2>1. prompt' => prompt
    BY Zenon DEF Next, vars, TaskPoll, Press, Release, TakeEdge, TakeDeadline, Work, Return, Block, Unblock, Tick, Over
  <2>2. Press \/ Release => Ready
    BY Zenon DEF Press, Release
  <2>3. Block => ~TaskReady /\ chan = <<>>
    BY Zenon DEF Block
  <2>4. QED
    BY <2>1, <2>2, <2>3
<1>2. PinRight /\ HoldRight
  BY <1>1 DEF PinInv, HoldInv
<1>3. CASE TaskPoll
  BY <1>2, <1>3, PollHold
<1>4. CASE Press \/ Release
  BY <1>1, <1>2, <1>4, PinHold
<1>5. CASE TakeEdge
  BY <1>2, <1>5, EdgeHold
<1>6. CASE TakeDeadline
  BY <1>2, <1>6, DeadlineHold
<1>7. CASE Tick
  BY <1>2, <1>7, TickHold
<1>8. CASE Work \/ Return
  <2>1. /\ UNCHANGED <<at, latched, chan, button, blocked, missed, heldFor, reset>> /\ ~blocked
        /\ ~DueNow
    BY <1>2, <1>8 DEF Work, Return, Listening, DeadlineFirst, DueNow, HoldRight
  <2>2. ~DueNow' /\ ~blocked' /\ reset' # "notHeld"
    BY <1>2, <2>1 DEF DueNow, HoldRight
  <2>3. QED
    BY <1>2, <2>1, <2>2, SameHold
<1>9. CASE Block \/ Unblock \/ Over \/ UNCHANGED vars
  <2>1. UNCHANGED <<at, latched, chan, button, loop, missed, heldFor, reset>>
    BY <1>9 DEF Block, Unblock, Over, vars
  <2>2. (Quiet' <=> Quiet) /\ (DueNow' <=> DueNow) /\ reset' # "notHeld"
    BY <1>2, <2>1 DEF Quiet, DueNow, HoldRight
  <2>3. blocked' => Quiet
    <3>1. CASE Block
      <4>1. at \in {"falling", "rising"} /\ ~latched
        <5>1. ~TaskReady /\ chan = <<>> /\ EdgeDepth \in Nat \ {0} /\ Len(chan) = 0
          BY <1>1, <3>1, TaskBounds, Channel DEF TypeOK
        <5>2. QED
          BY <5>1 DEF TaskReady, TypeOK
      <4>2. QED
        BY <1>1, <3>1, <4>1 DEF Quiet
    <3>2. CASE Unblock
      BY <3>2 DEF Unblock
    <3>3. CASE Over \/ UNCHANGED vars
      BY <1>2, <3>3 DEF Over, vars, HoldRight
    <3>4. QED
      BY <1>9, <3>1, <3>2, <3>3
  <2>4. QED
    BY <1>2, <2>1, <2>2, <2>3, SameHold DEF HoldRight
<1>10. QED
  BY <1>3, <1>4, <1>5, <1>6, <1>7, <1>8, <1>9 DEF Next

(* A factory reset is asked for by a button that has been held down for the   *)
(* debounce and the hold, as long as the task misses nothing: with a channel  *)
(* that holds more than one edge, however long the loop and the executor are  *)
(* busy (core/src/tuning.rs, BUTTON_FACTORY_RESET_HOLD; core/src/button.rs,   *)
(* on_deadline).  In a channel for one edge the release of a glitch waits     *)
(* outside it while the machine believes in the press.                        *)
THEOREM ResetIsMeant ==
  ASSUME EdgeDepth > 1
  PROVE  Spec => []PromptResetMeansHeld
<1>1. HoldInv => PromptResetMeansHeld
  BY DEF HoldInv, HoldRight, PromptResetMeansHeld, ResetMeansHeld
<1>2. TypeOK /\ PinInv /\ HoldInv /\ [Next]_vars => HoldInv'
  BY StepHold
<1>3. QED
  BY <1>1, <1>2, TaskTypes, InitPin, StepPin, InitHold, PTL DEF Spec
=============================================================================
