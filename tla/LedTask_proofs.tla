--------------------------- MODULE LedTask_proofs ---------------------------
(***************************************************************************)
(* The status LEDs, for every depth of the queue and all durations in the  *)
(* order that the tuning keeps: the cue of a reference is on show when the *)
(* reference is read, also in a second try right after the first, and a    *)
(* classification that waits for nothing is shown until the boot sleeps.   *)
(***************************************************************************)
EXTENDS LedTask, TLAPS, SequenceTheorems

-----------------------------------------------------------------------------
(* What is to be proved: how long a cue waits. *)

\* How long n commands take that are no cues, and n readings with their gestures.
Load(n) == n * ClassifyTime
Spent(n) == n * (GestureTime + SoilTime + BatteryTime)

Plain(c) == c \in Commands \ Cues

\* No cue among the first n commands in the queue.
PlainUpTo(n) == \A i \in 1..n : Plain(queue[i])
PlainQueue == PlainUpTo(Len(queue))

Reading == {"soil", "battery"}

\* How far the clocks may stand.
Clocks ==
  /\ pc = "loop" => wait = 0
  /\ pc = "soil" => wait <= SoilTime
  /\ pc = "battery" => wait <= BatteryTime
  /\ pc \in {"dryHold", "wetHold"} => wait <= CalHold /\ flows # 0
  /\ pc \in {"dryRead", "wetRead"} => wait <= SoilTime /\ flows # 0
  /\ pc \in Reading /\ withLed => gap = GestureTime
  /\ playing = "Dark" => left = 0
  /\ playing # "Dark" => left <= Duration(playing)

\* How long ago the reading or the capture that goes on has begun.
Planned ==
  IF pc = "soil" THEN SoilTime
  ELSE IF pc = "battery" THEN SoilTime + BatteryTime
  ELSE IF pc \in {"dryHold", "wetHold"} THEN CalHold
  ELSE IF pc \in {"dryRead", "wetRead"} THEN CalHold + SoilTime
  ELSE 0
Elapsed == Planned - wait

\* What a full queue takes that holds no cue.
FullQueue == Load(Depth)

\* For how long a cue may wait to begin: the first try's, and the second's.
Allowed ==
  IF flows = 2 THEN CalHold - 1
  ELSE IF pc \in {"dryHold", "dryRead"} THEN FullQueue
  ELSE IF SoilTime <= FullQueue THEN FullQueue - SoilTime ELSE 0

\* The cue c is the last in the queue, and begins in time.
Waiting(c) ==
  /\ queue # <<>> /\ queue[Len(queue)] = c /\ PlainUpTo(Len(queue) - 1)
  /\ left + Load(Len(queue) - 1) + Elapsed <= Allowed

\* The cue c was the last in the queue, and has begun in time.
Begun(c) ==
  /\ queue = <<>> /\ playing \in {c, "Dark"} /\ shown = c
  /\ playing = c => left + Elapsed <= Allowed + CueTime

\* A capture whose cue was dropped: what filled the queue is played meanwhile.
Drained ==
  /\ PlainQueue /\ playing # "Dry"
  /\ flows = 1 =>
       /\ playing # "Wet"
       /\ \/ playing = "Dark" /\ queue = <<>>
          \/ left + Load(Len(queue)) + Elapsed <= FullQueue + ClassifyTime
  /\ playing = "Wet" => left + Elapsed <= FullQueue

\* The time since the first try was long enough for the readings queued behind it; a
\* reading that is shown counts as soon as it is in the queue.
More == IF queue = <<>> THEN 0 ELSE Len(queue) - 1
Since ==
  IF pc \in Reading /\ withLed
    THEN IF pc = "soil" THEN GestureTime + Elapsed ELSE 0 - wait
    ELSE gap
BehindFirstTry == left + Spent(More) + 2 * SoilTime + Since <= FullQueue

Between ==
  /\ flows # 2 => PlainQueue /\ playing # "Dry"
  /\ playing = "Wet" => flows # 0 /\ (flows = 1 => BehindFirstTry)

CueInv ==
  /\ pc \in {"loop"} \cup Reading => Between
  /\ pc = "dryHold" => IF queued THEN Waiting("Dry") \/ Begun("Dry") ELSE Drained
  /\ pc = "dryRead" => IF queued THEN Begun("Dry") ELSE Drained
  /\ pc = "wetHold" => IF queued THEN Waiting("Wet") \/ Begun("Wet") ELSE flows = 2
  /\ pc = "wetRead" => IF queued THEN Begun("Wet") ELSE flows = 2
CueTwice == flows <= 2 => CueInv

-----------------------------------------------------------------------------
(* What is to be proved: how long a classification is shown. *)

NoClassify == \A i \in 1..Len(queue) : queue[i] # "Classify"
Window == ActiveHold + Settle

\* A reading that is shown keeps the boot awake for what is left of the window; its
\* classification is taken at once, and on for as long as the window has passed.
SoloInv ==
  /\ pc = "soil" /\ withLed => awake + SoilTime >= Window + wait
  /\ solo =>
       \/ /\ pc = "battery" /\ wait = BatteryTime /\ playing = "Dark" /\ queue = <<"Classify">>
          /\ awake + SoilTime >= Window
       \/ /\ NoClassify
          /\ playing = "Classify" => awake + (ClassifyTime + SoilTime) >= Window + left

-----------------------------------------------------------------------------
(* The tuning. *)

(* The durations and their order.                                             *)
LEMMA Durations ==
  /\ Depth \in Nat \ {0} /\ MaxFlows \in Nat /\ MaxFlows > 2
  /\ ErrorTime \in Nat \ {0} /\ ClassifyTime \in Nat \ {0} /\ CueTime \in Nat \ {0}
  /\ CalHold \in Nat \ {0} /\ SoilTime \in Nat \ {0} /\ BatteryTime \in Nat \ {0}
  /\ GestureTime \in Nat \ {0} /\ ActiveHold \in Nat \ {0} /\ Settle \in Nat \ {0}
  /\ ErrorTime <= ClassifyTime /\ CueTime <= CalHold /\ SoilTime + BatteryTime < ActiveHold
BY LedTuning DEF TuningOrder

(* One more of them takes so much longer.                                     *)
LEMMA Multiples ==
  ASSUME NEW n \in Nat, NEW t \in Nat
  PROVE  n * t \in Nat /\ (n + 1) * t = n * t + t /\ 0 * t = 0
OBVIOUS

(* And more of them no less.                                                  *)
LEMMA MoreTakesLonger ==
  ASSUME NEW m \in Nat, NEW n \in Nat, m <= n, NEW t \in Nat
  PROVE  m * t <= n * t
<1>1. PICK k \in Nat : n = m + k
  <2>1. n - m \in Nat /\ n = m + (n - m)
    OBVIOUS
  <2>2. QED
    BY <2>1
<1>2. n * t = m * t + k * t /\ m * t \in Nat /\ k * t \in Nat
  BY <1>1, Multiples
<1>3. QED
  BY <1>2

(* What comes one step later comes one step later on top of something.        *)
LEMMA LaterBy ==
  ASSUME NEW n \in Nat, NEW t \in Nat, NEW u \in Nat, u <= t + 1
  PROVE  n + u <= (n + t) + 1
OBVIOUS

(* What a queue of commands takes.                                            *)
LEMMA Loads ==
  /\ Load(0) = 0 /\ Spent(0) = 0
  /\ \A n \in Nat : Load(n) \in Nat /\ Load(n + 1) = Load(n) + ClassifyTime
  /\ \A n \in Nat :
       Spent(n) \in Nat /\ Spent(n + 1) = Spent(n) + GestureTime + SoilTime + BatteryTime
  /\ \A m, n \in Nat : m <= n => Load(m) <= Load(n)
<1>1. ClassifyTime \in Nat /\ GestureTime + SoilTime + BatteryTime \in Nat
      /\ GestureTime \in Nat /\ SoilTime \in Nat /\ BatteryTime \in Nat
  BY Durations
<1>2. \A n \in Nat : /\ n * ClassifyTime \in Nat
                     /\ (n + 1) * ClassifyTime = n * ClassifyTime + ClassifyTime
                     /\ 0 * ClassifyTime = 0
  BY <1>1, Multiples
<1> DEFINE R == GestureTime + SoilTime + BatteryTime
<1>3. \A n \in Nat : n * R \in Nat /\ (n + 1) * R = n * R + R /\ 0 * R = 0
  <2> HIDE DEF R
  <2>1. R \in Nat
    BY <1>1 DEF R
  <2>2. QED
    BY <2>1, Multiples
<1>4. \A n \in Nat : n * R + R = n * R + GestureTime + SoilTime + BatteryTime
  BY <1>1, <1>3
<1>5. \A m, n \in Nat : m <= n => m * ClassifyTime <= n * ClassifyTime
  BY <1>1, MoreTakesLonger
<1>6. QED
  BY <1>2, <1>3, <1>4, <1>5 DEF Load, Spent

(* A full queue is played within the hold, also before a second try.          *)
LEMMA FullQueueFits ==
  /\ FullQueue \in Nat /\ FullQueue < CalHold
  /\ FullQueue + ClassifyTime <= CalHold + SoilTime
  /\ \A n \in Nat : n + 1 <= Depth => Load(n) + ClassifyTime <= FullQueue
  /\ \A n \in Nat : n # 0 /\ n < Depth =>
       FullQueue + Load(n) < CalHold + 2 * SoilTime + GestureTime + Spent(n - 1)
<1>1. FullQueue \in Nat /\ FullQueue < CalHold
  BY Durations, Loads, LedTuning DEF FullQueue, Load, TuningOrder
<1>2. FullQueue + ClassifyTime <= CalHold + SoilTime
  <2>1. Load(Depth + 1) <= CalHold + SoilTime
    BY LedRetry DEF Load, RetryOrder
  <2>2. QED
    BY <2>1, Durations, Loads DEF FullQueue
<1>3. ASSUME NEW n \in Nat, n + 1 <= Depth PROVE Load(n) + ClassifyTime <= FullQueue
  <2>1. n + 1 \in Nat /\ Depth \in Nat
    BY Durations
  <2>2. Load(n + 1) <= Load(Depth)
    BY <1>3, <2>1, Loads
  <2>3. Load(n + 1) = Load(n) + ClassifyTime
    BY Loads
  <2>4. QED
    BY <2>2, <2>3 DEF FullQueue
<1>4. ASSUME NEW n \in Nat, n # 0, n < Depth
      PROVE  FullQueue + Load(n) < CalHold + 2 * SoilTime + GestureTime + Spent(n - 1)
  <2>1. n \in 1..(Depth - 1)
    BY <1>4, Durations
  <2>2. QED
    BY <2>1, LedRetry DEF FullQueue, Load, Spent, RetryOrder
<1>5. QED
  BY <1>1, <1>2, <1>3, <1>4

(* How long a command is played.                                              *)
LEMMA PlayingTimes ==
  ASSUME NEW c \in Commands
  PROVE  /\ Duration(c) \in Nat \ {0} /\ c # "Dark"
         /\ Plain(c) => Duration(c) <= ClassifyTime
         /\ c \in Cues => Duration(c) = CueTime
BY Durations DEF Duration, Commands, Cues, Plain

-----------------------------------------------------------------------------
(* The queue. *)

(* Its commands, and when it is empty.                                        *)
LEMMA QueueFacts ==
  ASSUME NEW q \in Seq(Commands)
  PROVE  /\ Len(q) \in Nat
         /\ \A i \in 1..Len(q) : q[i] \in Commands
         /\ q = <<>> <=> Len(q) = 0
BY ElementOfSeq, LenProperties, EmptySeq

(* A command is sent, or dropped by a full queue.                             *)
LEMMA SentLed ==
  ASSUME TypeOK, NEW c \in Commands, SendLed(c)
  PROVE  /\ queue' \in Seq(Commands) /\ Len(queue') <= Depth
         /\ HasRoom => /\ Len(queue') = Len(queue) + 1 /\ queue'[Len(queue) + 1] = c
                       /\ \A i \in 1..Len(queue) : queue'[i] = queue[i]
                       /\ queue' # <<>>
         /\ ~HasRoom => queue' = queue /\ Len(queue) = Depth
<1>1. queue \in Seq(Commands) /\ Len(queue) \in Nat /\ Len(queue) <= Depth /\ Depth \in Nat
  BY QueueFacts, Durations DEF TypeOK
<1>2. CASE HasRoom
  <2>1. queue' = Append(queue, c)
    BY <1>2 DEF SendLed
  <2>2. /\ Append(queue, c) \in Seq(Commands) /\ Len(Append(queue, c)) = Len(queue) + 1
        /\ Append(queue, c)[Len(queue) + 1] = c
        /\ \A i \in 1..Len(queue) : Append(queue, c)[i] = queue[i]
        /\ Append(queue, c) # <<>>
    BY <1>1, AppendProperties, LenProperties, EmptySeq
  <2>3. Len(queue) + 1 <= Depth
    BY <1>1, <1>2 DEF HasRoom
  <2>4. QED
    BY <1>2, <2>1, <2>2, <2>3
<1>3. CASE ~HasRoom
  BY <1>1, <1>3 DEF SendLed, HasRoom
<1>4. QED
  BY <1>2, <1>3

(* The next command is taken.                                                 *)
LEMMA TakenLed ==
  ASSUME TypeOK, Play
  PROVE  /\ Head(queue) = queue[1] /\ Head(queue) \in Commands /\ Len(queue) \in Nat \ {0}
         /\ queue' \in Seq(Commands) /\ Len(queue') = Len(queue) - 1
         /\ \A i \in 1..(Len(queue) - 1) : queue'[i] = queue[i + 1]
<1>1. queue \in Seq(Commands) /\ queue # <<>> /\ queue' = Tail(queue)
  BY DEF TypeOK, Play
<1>2. Len(queue) \in Nat \ {0} /\ \A i \in 1..Len(queue) : queue[i] \in Commands
  BY <1>1, QueueFacts
<1>3. /\ Tail(queue) \in Seq(Commands) /\ Len(Tail(queue)) = Len(queue) - 1
      /\ \A i \in 1..(Len(queue) - 1) : Tail(queue)[i] = queue[i + 1]
  BY <1>1, HeadTailProperties, LenProperties
<1>4. Head(queue) = queue[1]
  BY <1>1
<1>5. QED
  BY <1>1, <1>2, <1>3, <1>4

-----------------------------------------------------------------------------
(* The types and the clocks. *)

(* The first state, and every boot's: the queue holds what run_wake says.     *)
LEMMA BootQueue ==
  ASSUME NEW q, \E crashed \in BOOLEAN : q = AtBoot(crashed)
  PROVE  /\ q \in Seq(Commands) /\ Len(q) <= Depth
         /\ \A i \in 1..Len(q) : Plain(q[i]) /\ q[i] # "Classify"
<1>1. q = <<>> \/ q = <<"Crashed">>
  BY DEF AtBoot
<1>2. CASE q = <<>>
  BY <1>2, EmptySeq, Durations
<1>3. CASE q = <<"Crashed">>
  <2>1. q \in Seq(Commands) /\ Len(q) = 1 /\ q[1] = "Crashed"
    BY <1>3 DEF Commands
  <2>2. QED
    BY <2>1, Durations DEF Plain, Commands, Cues
<1>4. QED
  BY <1>1, <1>2, <1>3

(* The first state is typed.                                                  *)
LEMMA InitTypes == Init => TypeOK
<1> SUFFICES ASSUME Init PROVE TypeOK
  OBVIOUS
<1>1. queue \in Seq(Commands) /\ Len(queue) <= Depth
  BY BootQueue DEF Init
<1>2. GestureTime \in 0..GestureTime /\ 0 \in 0..MaxFlows
  BY Durations
<1>3. QED
  BY <1>1, <1>2 DEF Init, TypeOK, Places

(* A step keeps the types.                                                    *)
LEMMA StepTypes == TypeOK /\ [Next]_vars => TypeOK'
<1> SUFFICES ASSUME TypeOK, [Next]_vars PROVE TypeOK'
  OBVIOUS
<1>1. UNCHANGED queue => queue' \in Seq(Commands) /\ Len(queue') <= Depth
  BY DEF TypeOK
<1> USE DEF TypeOK, Places
<1>2. CASE StartReading
  <2>1. awake' \in Nat /\ withLed' \in BOOLEAN
    <3>1. ActiveHold + Settle \in Nat
      BY Durations
    <3>2. QED
      BY <1>2, <3>1 DEF StartReading, OpenWindow
  <2>2. QED
    BY <1>2, <2>1, Durations DEF StartReading, Go, leds
<1>3. CASE SampleSoil
  <2>1. queue' \in Seq(Commands) /\ Len(queue') <= Depth /\ solo' \in BOOLEAN
    BY <1>1, <1>3, SentLed DEF SampleSoil, Commands
  <2>2. QED
    BY <1>3, <2>1, Durations DEF SampleSoil, Go, leds
<1>4. CASE SampleBattery
  BY <1>4, Durations DEF SampleBattery, Go, leds
<1>5. CASE CaptureDry
  <2>1. queue' \in Seq(Commands) /\ Len(queue') <= Depth /\ queued' \in BOOLEAN
    BY <1>5, SentLed DEF CaptureDry, Commands, Cues, HasRoom
  <2>2. flows' \in 0..MaxFlows
    BY <1>5, Durations DEF CaptureDry
  <2>3. QED
    BY <1>5, <2>1, <2>2, Durations DEF CaptureDry, Go, leds
<1>6. CASE ReadDry
  BY <1>6, Durations DEF ReadDry, Go, leds
<1>7. CASE CaptureWet
  <2>1. queue' \in Seq(Commands) /\ Len(queue') <= Depth /\ queued' \in BOOLEAN
    BY <1>7, SentLed DEF CaptureWet, Commands, Cues, HasRoom
  <2>2. QED
    BY <1>7, <2>1, Durations DEF CaptureWet, Go, leds
<1>8. CASE ReadWet
  BY <1>8, Durations DEF ReadWet, Go, leds
<1>9. CASE EndCalibration
  <2>1. queue' \in Seq(Commands) /\ Len(queue') <= Depth
    BY <1>1, <1>9, SentLed DEF EndCalibration, Commands
  <2>2. QED
    BY <1>9, <2>1, Durations DEF EndCalibration, Go, leds
<1>10. CASE Reboot
  <2>1. queue' \in Seq(Commands) /\ Len(queue') <= Depth
    BY <1>10, BootQueue DEF Reboot
  <2>2. GestureTime \in 0..GestureTime /\ 0 \in 0..MaxFlows
    BY Durations
  <2>3. /\ pc' = "loop" /\ wait' = 0 /\ withLed' = FALSE /\ playing' = "Dark" /\ left' = 0
        /\ shown' = "Dark" /\ queued' = FALSE /\ flows' = 0 /\ gap' = GestureTime
        /\ awake' = 0 /\ solo' = FALSE
    BY <1>10 DEF Reboot
  <2>4. QED
    BY <2>1, <2>2, <2>3
<1>11. CASE Play
  <2>1. Len(queue') <= Depth /\ queue' \in Seq(Commands) /\ Head(queue) \in Commands
    <3>1. /\ queue' \in Seq(Commands) /\ Head(queue) \in Commands
          /\ Len(queue) \in Nat /\ Len(queue') = Len(queue) - 1
      BY <1>11, TakenLed
    <3>2. Len(queue) <= Depth /\ Depth \in Nat
      BY Durations
    <3>3. QED
      BY <3>1, <3>2
  <2>2. Duration(Head(queue)) \in Nat
    BY <2>1, PlayingTimes
  <2>3. playing' \in Commands \cup {"Dark"} /\ shown' \in Cues \cup {"Dark"} /\ left' \in Nat
    BY <1>11, <2>1, <2>2 DEF Play
  <2>4. QED
    BY <1>11, <2>1, <2>3 DEF Play, boot
<1>12. CASE Played
  BY <1>12 DEF Played, boot
<1>13. CASE Tick
  <2>1. wait' \in Nat /\ left' \in Nat /\ awake' \in Nat /\ gap' \in 0..GestureTime /\ flows' \in 0..MaxFlows
    BY <1>13, Durations DEF Tick, Less
  <2>2. QED
    BY <1>13, <2>1 DEF Tick
<1>14. CASE UNCHANGED vars
  BY <1>14 DEF vars, boot, leds
<1>15. QED
  BY <1>2, <1>3, <1>4, <1>5, <1>6, <1>7, <1>8, <1>9, <1>10, <1>11, <1>12, <1>13, <1>14 DEF Next

(* The queue never holds more than its depth, and all keep their types        *)
(* (fw/src/ports.rs, send_led; LED_QUEUE_DEPTH).                              *)
THEOREM LedTypes == Spec => []TypeOK
<1>1. QED
  BY InitTypes, StepTypes, PTL DEF Spec

(* No task waits longer than what it waits for.                               *)
LEMMA InitClocks == Init => Clocks
BY DEF Init, Clocks, Reading

(* A step keeps it so.                                                        *)
LEMMA StepClocks == TypeOK /\ Clocks /\ [Next]_vars => Clocks'
<1> SUFFICES ASSUME TypeOK, Clocks, [Next]_vars PROVE Clocks'
  OBVIOUS
<1> USE Durations DEF Clocks, Reading, Go, At
<1>1. wait \in Nat /\ left \in Nat /\ flows \in Nat /\ gap \in 0..GestureTime
  BY DEF TypeOK
<1>2. CASE StartReading
  BY <1>1, <1>2 DEF StartReading, leds
<1>3. CASE SampleSoil
  BY <1>1, <1>3 DEF SampleSoil, leds
<1>4. CASE SampleBattery
  BY <1>1, <1>4 DEF SampleBattery, leds
<1>5. CASE CaptureDry
  BY <1>1, <1>5 DEF CaptureDry, leds
<1>6. CASE ReadDry \/ CaptureWet \/ ReadWet \/ EndCalibration
  BY <1>1, <1>6 DEF ReadDry, CaptureWet, ReadWet, EndCalibration, leds
<1>7. CASE Reboot
  BY <1>7 DEF Reboot
<1>8. CASE Play
  <2>1. Head(queue) \in Commands /\ Duration(Head(queue)) \in Nat /\ Head(queue) # "Dark"
    BY <1>8, TakenLed, PlayingTimes
  <2>2. QED
    BY <1>1, <1>8, <2>1 DEF Play, boot
<1>9. CASE Played
  BY <1>1, <1>9 DEF Played, boot
<1>10. CASE Tick
  <2>1. pc = "loop" \/ flows' = flows
    BY <1>10 DEF Tick
  <2>2. wait' <= wait /\ left' <= left /\ (wait = 0 => wait' = 0) /\ (left = 0 => left' = 0)
    BY <1>1, <1>10 DEF Tick, Less
  <2>3. playing # "Dark" => Duration(playing) \in Nat
    BY PlayingTimes DEF TypeOK
  <2>4. gap = GestureTime => gap' = GestureTime
    BY <1>1, <1>10 DEF Tick
  <2>5. UNCHANGED <<pc, withLed, playing>> /\ wait' \in Nat /\ left' \in Nat
    BY <1>1, <1>10 DEF Tick, Less
  <2>6. QED
    BY <1>1, <2>1, <2>2, <2>3, <2>4, <2>5
<1>11. CASE UNCHANGED vars
  BY <1>11 DEF vars, boot, leds
<1>12. QED
  BY <1>2, <1>3, <1>4, <1>5, <1>6, <1>7, <1>8, <1>9, <1>10, <1>11 DEF Next

-----------------------------------------------------------------------------
(* The queue's cues. *)

(* A command that is no cue, behind commands that are none.                   *)
LEMMA SentPlain ==
  ASSUME TypeOK, PlainQueue, NEW c \in Commands, Plain(c), SendLed(c)
  PROVE  PlainQueue'
<1>1. Len(queue) \in Nat
  BY QueueFacts DEF TypeOK
<1>2. CASE HasRoom
  <2>1. SUFFICES ASSUME NEW i \in 1..(Len(queue) + 1) PROVE Plain(queue'[i])
    BY <1>2, SentLed DEF PlainQueue, PlainUpTo
  <2>2. CASE i = Len(queue) + 1
    BY <1>2, <2>2, SentLed
  <2>3. CASE i # Len(queue) + 1
    <3>1. i \in 1..Len(queue)
      BY <1>1, <2>3
    <3>2. QED
      BY <1>2, <3>1, SentLed DEF PlainQueue, PlainUpTo
  <2>4. QED
    BY <2>2, <2>3
<1>3. CASE ~HasRoom
  BY <1>3, SentLed DEF PlainQueue, PlainUpTo
<1>4. QED
  BY <1>2, <1>3

(* The task takes a command that is no cue, and leaves the others.            *)
LEMMA TakenPlain ==
  ASSUME TypeOK, PlainQueue, Play
  PROVE  PlainQueue' /\ Plain(playing')
<1>1. \A i \in 1..(Len(queue) - 1) : i + 1 \in 1..Len(queue) /\ queue'[i] = queue[i + 1]
  BY TakenLed
<1>2. Len(queue') = Len(queue) - 1 /\ Head(queue) = queue[1] /\ 1 \in 1..Len(queue)
  BY TakenLed
<1>3. QED
  BY <1>1, <1>2 DEF Play, PlainQueue, PlainUpTo

(* What is played, and what it means for how long.                            *)
LEMMA PlayedPlain ==
  ASSUME TypeOK, Clocks, playing \notin Cues
  PROVE  left <= ClassifyTime
<1>1. left \in Nat /\ ClassifyTime \in Nat /\ playing \in Commands \cup {"Dark"}
  BY Durations DEF TypeOK
<1>2. CASE playing = "Dark"
  BY <1>1, <1>2 DEF Clocks
<1>3. CASE playing # "Dark"
  <2>1. playing \in Commands /\ Plain(playing)
    BY <1>1, <1>3 DEF Plain
  <2>2. Duration(playing) \in Nat /\ Duration(playing) <= ClassifyTime /\ left <= Duration(playing)
    BY <1>3, <2>1, PlayingTimes DEF Clocks
  <2>3. QED
    BY <1>1, <2>2
<1>4. QED
  BY <1>2, <1>3

(* A cue comes closer by what is played before it, and begins in time.        *)
LEMMA PlayWaiting ==
  ASSUME TypeOK, Clocks, NEW c \in Cues, Waiting(c), Play, Elapsed \in Nat, Allowed \in Nat
  PROVE  Waiting(c)' \/ Begun(c)'
<1>1. /\ Elapsed' = Elapsed /\ Allowed' = Allowed /\ left = 0
      /\ queue' = Tail(queue) /\ playing' = Head(queue) /\ left' = Duration(Head(queue))
      /\ shown' = IF Head(queue) \in Cues THEN Head(queue) ELSE shown
  BY DEF Play, boot, Elapsed, Planned, Allowed, Clocks
<1>2. /\ Len(queue) \in Nat \ {0} /\ Len(queue') = Len(queue) - 1
      /\ Head(queue) = queue[1] /\ Head(queue) \in Commands
      /\ \A i \in 1..(Len(queue) - 1) : queue'[i] = queue[i + 1]
  BY TakenLed
<1>3. CueTime \in Nat /\ ClassifyTime \in Nat
  BY Durations
<1>4. CASE Len(queue) = 1
  <2>1. Head(queue) = c /\ Len(queue') = 0
    BY <1>2, <1>4 DEF Waiting
  <2>2. queue' = <<>>
    BY <2>1, TakenLed, QueueFacts
  <2>3. left' = CueTime
    BY <1>1, <1>2, <2>1, PlayingTimes
  <2>4. Load(Len(queue) - 1) = 0
    BY <1>4, Loads
  <2>5. left' + Elapsed' <= Allowed' + CueTime
    <3>1. left + Load(Len(queue) - 1) + Elapsed <= Allowed
      BY DEF Waiting
    <3>2. QED
      BY <1>1, <1>3, <2>3, <2>4, <3>1
  <2>6. QED
    BY <1>1, <2>1, <2>2, <2>5 DEF Begun
<1>5. CASE Len(queue) # 1
  <2>1. /\ Len(queue) - 1 \in 1..(Len(queue) - 1) /\ Len(queue) - 2 \in Nat
        /\ (Len(queue) - 1) + 1 = Len(queue) /\ (Len(queue) - 2) + 1 = Len(queue) - 1
        /\ 1 \in 1..(Len(queue) - 1)
    BY <1>2, <1>5
  <2>2. queue' # <<>> /\ queue'[Len(queue')] = c
    <3>1. queue'[Len(queue')] = queue[Len(queue)]
      BY <1>2, <2>1
    <3>2. queue' # <<>>
      BY <1>2, <2>1, TakenLed, QueueFacts
    <3>3. QED
      BY <3>1, <3>2 DEF Waiting
  <2>3. PlainUpTo(Len(queue) - 1)
    BY DEF Waiting
  <2>4. PlainUpTo(Len(queue) - 1)'
    <3>1. SUFFICES ASSUME NEW i \in 1..(Len(queue) - 2) PROVE Plain(queue'[i])
      BY <1>2 DEF PlainUpTo
    <3>2. i \in 1..(Len(queue) - 1) /\ i + 1 \in 1..(Len(queue) - 1)
      BY <1>2
    <3>3. queue'[i] = queue[i + 1]
      BY <1>2, <3>2
    <3>4. QED
      BY <2>3, <3>2, <3>3 DEF PlainUpTo
  <2>5. left' \in Nat /\ left' <= ClassifyTime
    <3>1. Plain(Head(queue))
      BY <1>2, <2>1, <2>3 DEF PlainUpTo
    <3>2. QED
      BY <1>1, <1>2, <3>1, PlayingTimes
  <2>6. Load(Len(queue) - 1) = Load(Len(queue) - 2) + ClassifyTime /\ Load(Len(queue) - 2) \in Nat
    BY <2>1, Loads
  <2>7. left + Load(Len(queue) - 1) + Elapsed <= Allowed
    BY DEF Waiting
  <2>8. Len(queue') - 1 = Len(queue) - 2
    BY <1>2
  <2>9. left' + Load(Len(queue') - 1) + Elapsed' <= Allowed'
    BY <1>1, <1>3, <2>5, <2>6, <2>7, <2>8
  <2>10. QED
    BY <2>2, <2>4, <2>9 DEF Waiting
<1>6. QED
  BY <1>4, <1>5

-----------------------------------------------------------------------------
(* Each cue in its time. *)

(* A cue never waits for the whole hold.                                      *)
LEMMA Ranges ==
  ASSUME TypeOK, Clocks
  PROVE  /\ Elapsed \in Nat /\ Allowed \in Nat /\ Allowed < CalHold
         /\ left \in Nat /\ wait \in Nat /\ gap \in Nat /\ flows \in Nat /\ Len(queue) \in Nat
         /\ queue \in Seq(Commands) /\ (queue = <<>> <=> Len(queue) = 0) /\ Len(queue) <= Depth
         /\ More \in Nat /\ Spent(More) \in Nat /\ Load(Len(queue)) \in Nat
<1>1. /\ left \in Nat /\ wait \in Nat /\ gap \in Nat /\ flows \in Nat /\ queue \in Seq(Commands)
      /\ Len(queue) <= Depth
  BY DEF TypeOK
<1>2. Len(queue) \in Nat /\ (queue = <<>> <=> Len(queue) = 0)
  BY <1>1, QueueFacts
<1>3. Elapsed \in Nat
  <2>1. Planned \in Nat /\ wait <= Planned
    BY <1>1, Durations DEF Planned, Clocks, TypeOK, Places
  <2>2. QED
    BY <1>1, <2>1 DEF Elapsed
<1>4. Allowed \in Nat /\ Allowed < CalHold
  BY Durations, FullQueueFits DEF Allowed
<1>5. More \in Nat
  BY <1>2 DEF More
<1>6. QED
  BY <1>1, <1>2, <1>3, <1>4, <1>5, Loads

(* An empty queue has no cue.                                                 *)
LEMMA EmptyPlain == queue = <<>> => PlainQueue
<1>1. queue = <<>> => Len(queue) = 0
  BY EmptySeq
<1>2. QED
  BY <1>1 DEF PlainQueue, PlainUpTo

(* A boot begins in the dark.                                                 *)
LEMMA InitCue == Init => CueTwice
<1> SUFFICES ASSUME Init PROVE CueInv
  BY DEF CueTwice
<1>1. PlainQueue
  BY BootQueue DEF Init, PlainQueue, PlainUpTo
<1>2. QED
  BY <1>1 DEF Init, CueInv, Between, Reading

(* A crash or a planned end ends in a boot.                                   *)
LEMMA RebootCue == Reboot => CueInv'
<1> SUFFICES ASSUME Reboot PROVE CueInv'
  OBVIOUS
<1>1. PlainQueue'
  BY BootQueue DEF Reboot, PlainQueue, PlainUpTo
<1>2. pc' = "loop" /\ playing' = "Dark"
  BY DEF Reboot
<1>3. QED
  BY <1>1, <1>2 DEF CueInv, Between, Reading

(* The task is through with a command.                                        *)
LEMMA PlayedCue ==
  ASSUME CueInv, Played
  PROVE  CueInv'
<1>1. /\ UNCHANGED <<pc, wait, withLed, queue, left, shown, queued, flows, gap>>
      /\ playing' = "Dark" /\ playing # "Dark"
  BY DEF Played, boot
<1>2. /\ Elapsed' = Elapsed /\ Allowed' = Allowed /\ (PlainQueue' <=> PlainQueue)
      /\ \A c \in Cues : (Waiting(c) => Waiting(c)') /\ (Begun(c) => Begun(c)')
  BY <1>1 DEF Elapsed, Planned, Allowed, PlainQueue, PlainUpTo, Waiting, Begun, Cues
<1>3. Drained => Drained'
  BY <1>1, <1>2 DEF Drained
<1>4. Between => Between'
  BY <1>1, <1>2 DEF Between
<1>5. QED
  BY <1>1, <1>2, <1>3, <1>4 DEF CueInv, Cues

(* The task takes the next command: no cue comes up too late.                 *)
LEMMA PlayCue ==
  ASSUME TypeOK, Clocks, CueInv, Play
  PROVE  CueInv'
<1>1. /\ UNCHANGED <<pc, wait, withLed, queued, flows, gap>>
      /\ playing = "Dark" /\ left = 0 /\ queue # <<>>
      /\ left' = Duration(Head(queue)) /\ playing' = Head(queue)
  BY DEF Play, boot, Clocks
<1>2. /\ Elapsed \in Nat /\ Allowed \in Nat /\ Elapsed' = Elapsed
  BY <1>1, Ranges DEF Elapsed, Planned
<1>3. \A c \in Cues : Waiting(c) => Waiting(c)' \/ Begun(c)'
  BY <1>2, PlayWaiting
<1>4. \A c \in Cues : ~Begun(c)
  BY <1>1 DEF Begun
<1>5. PlainQueue => PlainQueue' /\ playing' # "Dry" /\ playing' # "Wet"
  BY TakenPlain DEF Plain, Cues
<1>6. Between => Between'
  <2>1. CASE flows = 2
    BY <1>1, <2>1 DEF Between
  <2>2. CASE flows # 2
    BY <1>1, <1>5, <2>2 DEF Between
  <2>3. QED
    BY <2>1, <2>2
<1>7. Drained => Drained'
  <2>1. SUFFICES ASSUME Drained PROVE Drained'
    OBVIOUS
  <2>2. ASSUME flows = 1
        PROVE  left' + Load(Len(queue'))  + Elapsed' <= FullQueue + ClassifyTime
    <3>1. Plain(Head(queue)) /\ Head(queue) \in Commands
      BY <2>1, TakenPlain, TakenLed, <1>1 DEF Drained
    <3>2. left' \in Nat /\ left' <= ClassifyTime
      BY <1>1, <3>1, PlayingTimes
    <3>3. Len(queue') \in Nat /\ Len(queue') + 1 = Len(queue)
      BY TakenLed
    <3>4. Load(Len(queue)) = Load(Len(queue')) + ClassifyTime /\ Load(Len(queue')) \in Nat
      BY <3>3, Loads
    <3>5. left + Load(Len(queue)) + Elapsed <= FullQueue + ClassifyTime
      BY <1>1, <2>1, <2>2 DEF Drained
    <3>6. QED
      BY <1>1, <1>2, <3>2, <3>4, <3>5, Durations, FullQueueFits
  <2>3. QED
    BY <1>1, <1>5, <2>1, <2>2 DEF Drained
<1>8. QED
  BY <1>1, <1>3, <1>4, <1>6, <1>7 DEF CueInv, Cues

(* Time passes for the boot loop and the task alike.                          *)
LEMMA TickCue ==
  ASSUME TypeOK, Clocks, CueTwice, Tick
  PROVE  CueTwice'
<1>1. /\ UNCHANGED <<pc, withLed, queue, playing, shown, queued>>
      /\ wait' = Less(wait) /\ left' = Less(left)
      /\ wait > 0 \/ pc = "loop"
      /\ left > 0 \/ (playing = "Dark" /\ queue = <<>>)
      /\ gap' <= gap + 1 /\ gap' \in Nat
      /\ flows' = IF playing = "Dark" /\ pc = "loop" THEN 0 ELSE flows
  BY Durations DEF Tick, TypeOK
<1>2. CASE playing = "Dark" /\ pc = "loop"
  <2>1. queue' = <<>>
    BY <1>1, <1>2 DEF Clocks
  <2>2. PlainQueue'
    <3>1. PlainQueue /\ queue = <<>>
      BY <1>1, <2>1, EmptyPlain
    <3>2. QED
      BY <1>1, <3>1 DEF PlainQueue, PlainUpTo
  <2>3. QED
    BY <1>1, <1>2, <2>2 DEF CueTwice, CueInv, Between, Reading
<1>3. CASE ~(playing = "Dark" /\ pc = "loop") /\ flows <= 2
  <2>1. flows' = flows /\ CueInv
    BY <1>1, <1>3 DEF CueTwice
  <2>2. /\ Elapsed \in Nat /\ Allowed \in Nat /\ left \in Nat /\ wait \in Nat
        /\ Load(Len(queue)) \in Nat /\ Spent(More) \in Nat /\ gap \in Nat /\ Len(queue) \in Nat
    BY Ranges
  <2>3. Allowed' = Allowed /\ Load(Len(queue))' = Load(Len(queue)) /\ More' = More
        /\ (PlainQueue' <=> PlainQueue)
    BY <1>1, <2>1 DEF Allowed, More, PlainQueue, PlainUpTo
  <2>4. Elapsed' <= Elapsed + 1 /\ Elapsed' \in Nat
    <3>1. wait' \in Nat /\ (wait' = wait - 1 \/ wait' = wait)
      <4>1. CASE wait = 0
        BY <1>1, <4>1 DEF Less
      <4>2. CASE wait # 0
        BY <1>1, <2>2, <4>2 DEF Less
      <4>3. QED
        BY <4>1, <4>2
    <3>2. Planned' = Planned /\ Planned \in Nat
      BY <1>1, Durations DEF Planned
    <3>3. Elapsed = Planned - wait /\ Elapsed' = Planned - wait'
      BY <3>2 DEF Elapsed
    <3>4. wait \in Nat /\ Elapsed \in Nat
      BY <2>2
    <3>5. wait <= Planned
      BY <3>2, <3>3, <3>4
    <3>6. CASE wait' = wait - 1
      <4>1. Planned - (wait - 1) \in Nat /\ Planned - (wait - 1) <= (Planned - wait) + 1
        BY <3>2, <3>4, <3>5
      <4>2. QED
        BY <3>3, <3>6, <4>1
    <3>7. CASE wait' = wait
      <4>1. Elapsed' = Elapsed
        BY <3>3, <3>7
      <4>2. QED
        BY <3>4, <4>1
    <3>8. QED
      BY <3>1, <3>6, <3>7
  <2>5. left > 0 => left' + 1 = left /\ left' \in Nat
    BY <1>1, <2>2 DEF Less
  <2>6. ASSUME NEW c \in Cues, Waiting(c) PROVE Waiting(c)'
    <3>1. left > 0
      BY <1>1, <2>6 DEF Waiting
    <3>2. Load(Len(queue) - 1) \in Nat
      <4>1. Len(queue) - 1 \in Nat
        BY <2>2, <2>6, Ranges DEF Waiting
      <4>2. QED
        BY <4>1, Loads
    <3>3. left + Load(Len(queue) - 1) + Elapsed <= Allowed
      BY <2>6 DEF Waiting
    <3>4. left' + Load(Len(queue) - 1) + Elapsed' <= Allowed
      BY <2>2, <2>4, <2>5, <3>1, <3>2, <3>3
    <3>5. QED
      BY <1>1, <2>3, <2>6, <3>4 DEF Waiting, PlainUpTo
  <2>7. ASSUME NEW c \in Cues, Begun(c) PROVE Begun(c)'
    <3>1. ASSUME playing = c PROVE left' + Elapsed' <= Allowed + CueTime
      <4>1. left > 0 /\ left + Elapsed <= Allowed + CueTime
        BY <1>1, <2>7, <3>1 DEF Begun, Cues
      <4>2. QED
        BY <2>2, <2>4, <2>5, <4>1, Durations
    <3>2. QED
      BY <1>1, <2>3, <2>7, <3>1 DEF Begun
  <2>8. Drained => Drained'
    <3>1. SUFFICES ASSUME Drained PROVE Drained'
      OBVIOUS
    <3>2. ASSUME flows = 1
          PROVE  playing # "Wet" /\ ((playing = "Dark" /\ queue = <<>>)
                   \/ left' + Load(Len(queue)) + Elapsed' <= FullQueue + ClassifyTime)
      <4>1. CASE left > 0
        BY <2>2, <2>4, <2>5, <3>1, <3>2, <4>1, Durations, FullQueueFits DEF Drained, Clocks
      <4>2. CASE ~(left > 0)
        BY <1>1, <4>2
      <4>3. QED
        BY <4>1, <4>2
    <3>3. ASSUME playing = "Wet" PROVE left' + Elapsed' <= FullQueue
      <4>1. left > 0 /\ left + Elapsed <= FullQueue
        BY <1>1, <3>1, <3>3 DEF Drained
      <4>2. QED
        BY <2>2, <2>4, <2>5, <4>1, FullQueueFits
    <3>4. QED
      BY <1>1, <2>1, <2>3, <3>1, <3>2, <3>3 DEF Drained
  <2>9. pc \in {"loop"} \cup Reading /\ Between => Between'
    <3>1. SUFFICES ASSUME pc \in {"loop"} \cup Reading, Between PROVE Between'
      OBVIOUS
    <3>2. ASSUME playing = "Wet", flows = 1 PROVE BehindFirstTry'
      <4>1. left > 0 /\ BehindFirstTry
        BY <1>1, <3>1, <3>2 DEF Between
      <4>2. Since' <= Since + 1 /\ Since \in Int /\ Since' \in Int
        <5>1. CASE pc = "soil" /\ withLed
          <6>1. Since = GestureTime + Elapsed /\ Since' = GestureTime + Elapsed'
            BY <1>1, <5>1 DEF Since, Reading
          <6>2. GestureTime \in Nat /\ Elapsed \in Nat
            BY <2>2, Durations
          <6>3. Since \in Int
            BY <6>1, <6>2
          <6>4. Since' \in Int
            BY <2>4, <6>1, <6>2
          <6>5. Since' <= Since + 1
            BY <2>4, <6>1, <6>2, LaterBy
          <6>6. QED
            BY <6>3, <6>4, <6>5
        <5>2. CASE pc = "battery" /\ withLed
          <6>1. wait' + 1 = wait /\ wait' \in Nat
            BY <1>1, <2>2, <5>2 DEF Less
          <6>2. QED
            BY <1>1, <2>2, <5>2, <6>1 DEF Since, Reading
        <5>3. CASE ~(pc \in Reading /\ withLed)
          BY <1>1, <2>2, <5>3 DEF Since, Reading
        <5>4. QED
          BY <5>1, <5>2, <5>3 DEF Reading
      <4>3. left + Spent(More) + 2 * SoilTime + Since <= FullQueue
        BY <4>1 DEF BehindFirstTry
      <4>4. left' + Spent(More) + 2 * SoilTime + Since' <= FullQueue
        <5>1. left' + 1 = left /\ left' \in Nat
          BY <2>5, <4>1
        <5>2. FullQueue \in Nat /\ 2 * SoilTime \in Nat /\ Spent(More) \in Nat
          BY <2>2, Durations, FullQueueFits
        <5>3. QED
          BY <4>2, <4>3, <5>1, <5>2
      <4>5. QED
        BY <2>3, <4>4 DEF BehindFirstTry
    <3>3. QED
      BY <1>1, <2>1, <2>3, <3>1, <3>2 DEF Between
  <2>10. QED
    BY <1>1, <2>1, <2>6, <2>7, <2>8, <2>9 DEF CueTwice, CueInv, Cues
<1>4. CASE ~(playing = "Dark" /\ pc = "loop") /\ ~(flows <= 2)
  BY <1>1, <1>4 DEF CueTwice
<1>5. QED
  BY <1>2, <1>3, <1>4

(* A reading begins; a gesture's has waited for the gesture.                  *)
LEMMA StartReadingCue ==
  ASSUME TypeOK, Clocks, CueInv, StartReading
  PROVE  CueInv'
<1>1. /\ UNCHANGED <<playing, left, queue, flows, gap>>
      /\ pc = "loop" /\ pc' = "soil" /\ wait' = SoilTime
      /\ withLed' = FALSE \/ gap = GestureTime
  BY DEF StartReading, leds, At, Go
<1>2. Between /\ (PlainQueue' <=> PlainQueue) /\ More' = More
  BY <1>1 DEF CueInv, PlainQueue, PlainUpTo, More
<1>3. Since' = gap /\ Since = gap
  <2>1. Elapsed' = 0 /\ GestureTime + 0 = GestureTime
    BY <1>1, Durations DEF Elapsed, Planned
  <2>2. QED
    BY <1>1, <2>1 DEF Since, Reading
<1>4. BehindFirstTry' <=> BehindFirstTry
  BY <1>1, <1>2, <1>3 DEF BehindFirstTry
<1>5. QED
  BY <1>1, <1>2, <1>4 DEF CueInv, Between, Reading

(* The soil's reading is there: a shown one goes into the queue.              *)
LEMMA SampleSoilCue ==
  ASSUME TypeOK, Clocks, CueInv, SampleSoil, flows <= 2
  PROVE  CueInv'
<1>1. /\ UNCHANGED <<playing, left, flows, gap, withLed>>
      /\ pc = "soil" /\ wait = 0 /\ pc' = "battery" /\ wait' = BatteryTime
      /\ IF withLed THEN SendLed("Classify") ELSE UNCHANGED queue
  BY DEF SampleSoil, leds, At, Go
<1>2. Between
  BY <1>1 DEF CueInv, Reading
<1>3. PlainQueue => PlainQueue'
  <2>1. CASE withLed
    BY <1>1, <2>1, SentPlain DEF Plain, Commands, Cues
  <2>2. CASE ~withLed
    BY <1>1, <2>2 DEF PlainQueue, PlainUpTo
  <2>3. QED
    BY <2>1, <2>2
<1>4. ASSUME BehindFirstTry PROVE BehindFirstTry'
  <2>1. CASE withLed
    <3>1. Elapsed = SoilTime
      BY <1>1, Durations DEF Elapsed, Planned
    <3>2. left + Spent(More) + 2 * SoilTime + (GestureTime + SoilTime) <= FullQueue
      BY <1>1, <1>4, <2>1, <3>1 DEF BehindFirstTry, Since, Reading
    <3>3. More' = More \/ More' = More + 1
      <4>1. Len(queue) \in Nat /\ (queue = <<>> <=> Len(queue) = 0)
        BY Ranges
      <4>2. queue' = queue \/ (queue' # <<>> /\ Len(queue') = Len(queue) + 1)
        BY <1>1, <2>1, SentLed DEF Commands
      <4>3. CASE queue' = queue
        BY <4>3 DEF More
      <4>4. CASE queue' # <<>> /\ Len(queue') = Len(queue) + 1
        <5>1. More' = Len(queue)
          BY <4>1, <4>4 DEF More
        <5>2. QED
          BY <4>1, <5>1 DEF More
      <4>5. QED
        BY <4>2, <4>3, <4>4
    <3>4. /\ More \in Nat /\ Spent(More) \in Nat /\ left \in Nat
          /\ Spent(More + 1) = Spent(More) + GestureTime + SoilTime + BatteryTime
      BY Ranges, Loads
    <3>5. left + Spent(More') + 2 * SoilTime + (0 - BatteryTime) <= FullQueue
      <4>1. CASE More' = More
        BY <3>2, <3>4, <4>1, Durations, FullQueueFits
      <4>2. CASE More' = More + 1
        BY <3>2, <3>4, <4>2, Durations, FullQueueFits
      <4>3. QED
        BY <3>3, <4>1, <4>2
    <3>6. Since' = 0 - BatteryTime /\ left' = left
      BY <1>1, <2>1 DEF Since, Reading
    <3>7. QED
      BY <3>5, <3>6 DEF BehindFirstTry
  <2>2. CASE ~withLed
    BY <1>1, <1>4, <2>2 DEF BehindFirstTry, Since, More, Reading
  <2>3. QED
    BY <2>1, <2>2
<1>5. QED
  BY <1>1, <1>2, <1>3, <1>4 DEF CueInv, Between, Reading

(* The reading is over: the next gesture begins after it.                     *)
LEMMA SampleBatteryCue ==
  ASSUME TypeOK, Clocks, CueInv, SampleBattery
  PROVE  CueInv'
<1>1. /\ UNCHANGED <<playing, left, flows, queue, withLed>>
      /\ pc = "battery" /\ wait = 0 /\ pc' = "loop" /\ wait' = 0
      /\ gap' = IF withLed THEN 0 ELSE gap
  BY DEF SampleBattery, leds, At, Go
<1>2. Between /\ (PlainQueue' <=> PlainQueue) /\ More' = More
  BY <1>1 DEF CueInv, Reading, PlainQueue, PlainUpTo, More
<1>3. Since' = Since
  <2>1. 0 - 0 = 0
    OBVIOUS
  <2>2. QED
    BY <1>1, <2>1 DEF Since, Reading
<1>4. BehindFirstTry' <=> BehindFirstTry
  BY <1>1, <1>2, <1>3 DEF BehindFirstTry
<1>5. QED
  BY <1>1, <1>2, <1>4 DEF CueInv, Between, Reading

(* A cue that finds room behind commands that are none is the last.           *)
LEMMA SentCue ==
  ASSUME TypeOK, Clocks, PlainQueue, NEW c \in Cues, SendLed(c), HasRoom,
         left' = left, Elapsed' = 0,
         left + Load(Len(queue)) <= Allowed'
  PROVE  Waiting(c)'
<1>1. c \in Commands
  BY DEF Commands
<1>2. /\ Len(queue') = Len(queue) + 1 /\ queue'[Len(queue) + 1] = c
      /\ \A i \in 1..Len(queue) : queue'[i] = queue[i]
      /\ queue' # <<>>
  BY <1>1, SentLed
<1>3. Len(queue) \in Nat /\ left \in Nat /\ Load(Len(queue)) \in Nat
  BY Ranges
<1>4. Len(queue') - 1 = Len(queue) /\ queue'[Len(queue')] = c
  BY <1>2, <1>3
<1>5. PlainUpTo(Len(queue) - 1)'
  BY <1>2, <1>4 DEF PlainQueue, PlainUpTo
<1>6. left' + Load(Len(queue') - 1) + Elapsed' <= Allowed'
  <2>1. left + Load(Len(queue)) + 0 = left + Load(Len(queue))
    BY <1>3
  <2>2. QED
    BY <1>4, <2>1
<1>7. QED
  BY <1>2, <1>4, <1>5, <1>6 DEF Waiting

(* A calibration begins: in a second try the first one's last cue may still   *)
(* be on.                                                                     *)
LEMMA CaptureDryCue ==
  ASSUME TypeOK, Clocks, CueTwice, CaptureDry, flows' <= 2
  PROVE  CueInv'
<1>1. /\ UNCHANGED <<playing, left>> /\ SendLed("Dry") /\ (queued' <=> HasRoom)
      /\ pc = "loop" /\ gap = GestureTime /\ pc' = "dryHold" /\ wait' = CalHold
      /\ flows' = flows + 1 /\ flows \in {0, 1} /\ "Dry" \in Cues /\ "Dry" \in Commands
  BY Durations DEF CaptureDry, leds, At, Go, TypeOK, Cues, Commands
<1>2. Between
  BY <1>1 DEF CueTwice, CueInv
<1>3. PlainQueue /\ playing # "Dry"
  BY <1>1, <1>2 DEF Between
<1>4. Elapsed' = 0 /\ FullQueue <= Allowed' /\ (flows = 1 => Allowed' = CalHold - 1)
  BY <1>1, Durations, FullQueueFits DEF Elapsed, Planned, Allowed
<1>5. /\ left \in Nat /\ Len(queue) \in Nat /\ Load(Len(queue)) \in Nat /\ FullQueue \in Nat
      /\ (queue = <<>> <=> Len(queue) = 0) /\ Len(queue) <= Depth /\ CalHold \in Nat
      /\ ClassifyTime \in Nat /\ Spent(More) \in Nat /\ GestureTime \in Nat /\ SoilTime \in Nat
  BY Ranges, Durations, FullQueueFits
<1>6. playing # "Wet" => left <= ClassifyTime
  BY <1>3, PlayedPlain DEF Cues
<1>7. playing = "Wet" =>
        flows = 1 /\ left + Spent(More) + 2 * SoilTime + GestureTime <= FullQueue
  BY <1>1, <1>2 DEF Between, BehindFirstTry, Since, Reading
<1>8. CASE HasRoom
  <2>1. Len(queue) + 1 <= Depth /\ Depth \in Nat
    BY <1>5, <1>8, Durations DEF HasRoom
  <2>2. left + Load(Len(queue)) <= Allowed'
    <3>1. CASE playing # "Wet"
      <4>1. Load(Len(queue)) + ClassifyTime <= FullQueue
        BY <1>5, <2>1, FullQueueFits
      <4>2. left + Load(Len(queue)) <= FullQueue
        BY <1>5, <1>6, <3>1, <4>1
      <4>3. Allowed' \in Nat
        BY <1>1, Durations, FullQueueFits DEF Allowed
      <4>4. QED
        BY <1>4, <1>5, <4>2, <4>3
    <3>2. CASE playing = "Wet"
      <4>1. left + Load(Len(queue)) < CalHold
        <5>1. CASE queue = <<>>
          <6>1. Load(Len(queue)) = 0 /\ FullQueue < CalHold
            BY <1>5, <5>1, Loads, FullQueueFits
          <6>2. QED
            BY <1>5, <1>7, <3>2, <6>1
        <5>2. CASE queue # <<>>
          <6>1. FullQueue + Load(Len(queue)) < CalHold + 2 * SoilTime + GestureTime + Spent(Len(queue) - 1)
            BY <1>5, <2>1, <5>2, FullQueueFits
          <6>2. Spent(More) = Spent(Len(queue) - 1)
            BY <5>2 DEF More
          <6>3. QED
            BY <1>5, <1>7, <3>2, <6>1, <6>2
        <5>3. QED
          BY <5>1, <5>2
      <4>2. QED
        BY <1>4, <1>5, <1>7, <3>2, <4>1
    <3>3. QED
      BY <3>1, <3>2
  <2>3. Waiting("Dry")'
    BY <1>1, <1>3, <1>4, <1>8, <2>2, SentCue
  <2>4. QED
    BY <1>1, <1>8, <2>3 DEF CueInv, Reading
<1>9. CASE ~HasRoom
  <2>1. queue' = queue /\ Len(queue) = Depth
    BY <1>1, <1>9, SentLed
  <2>2. PlainQueue'
    BY <1>3, <2>1 DEF PlainQueue, PlainUpTo
  <2>3. left + Load(Len(queue)) + 0 <= FullQueue + ClassifyTime \/ playing = "Wet"
    <3>1. Load(Len(queue)) = FullQueue
      BY <2>1 DEF FullQueue
    <3>2. QED
      BY <1>5, <1>6, <3>1
  <2>4. playing = "Wet" => flows = 1 /\ left + 0 <= FullQueue
    BY <1>5, <1>7
  <2>5. flows' = 1 => flows = 0
    BY <1>1
  <2>6. Drained'
    BY <1>1, <1>3, <1>4, <2>1, <2>2, <2>3, <2>4, <2>5 DEF Drained
  <2>7. QED
    BY <1>1, <1>9, <2>6 DEF CueInv, Reading
<1>10. QED
  BY <1>8, <1>9

(* No cue still waits when its hold is over.                                  *)
LEMMA HoldIsOver ==
  ASSUME TypeOK, Clocks, NEW c \in Cues, Waiting(c), Elapsed = CalHold
  PROVE  FALSE
<1>1. Len(queue) - 1 \in Nat
  BY Ranges DEF Waiting
<1>2. Load(Len(queue) - 1) \in Nat
  BY <1>1, Loads
<1>3. left + Load(Len(queue) - 1) + CalHold <= Allowed
  BY DEF Waiting
<1>4. QED
  BY <1>2, <1>3, Ranges, Durations

(* The hold of the dry reference is over: its cue has begun.                  *)
LEMMA ReadDryCue ==
  ASSUME TypeOK, Clocks, CueInv, ReadDry
  PROVE  CueInv'
<1>1. /\ UNCHANGED <<withLed, playing, left, shown, queue, queued, flows, gap>>
      /\ pc = "dryHold" /\ wait = 0 /\ pc' = "dryRead" /\ wait' = SoilTime
  BY DEF ReadDry, leds, At, Go
<1>2. Elapsed = CalHold /\ Elapsed' = CalHold /\ Allowed' = Allowed
  BY <1>1, Durations DEF Elapsed, Planned, Allowed
<1>3. CASE queued
  <2>1. Begun("Dry")
    BY <1>1, <1>2, <1>3, HoldIsOver DEF CueInv, Cues
  <2>2. Begun("Dry")'
    BY <1>1, <1>2, <2>1 DEF Begun
  <2>3. QED
    BY <1>1, <1>3, <2>2 DEF CueInv, Reading
<1>4. CASE ~queued
  <2>1. Drained
    BY <1>1, <1>4 DEF CueInv
  <2>2. Drained'
    BY <1>1, <1>2, <2>1 DEF Drained, PlainQueue, PlainUpTo
  <2>3. QED
    BY <1>1, <1>4, <2>2 DEF CueInv, Reading
<1>5. QED
  BY <1>3, <1>4

(* The hold of the wet reference is over: its cue has begun.                  *)
LEMMA ReadWetCue ==
  ASSUME TypeOK, Clocks, CueInv, ReadWet
  PROVE  CueInv'
<1>1. /\ UNCHANGED <<withLed, playing, left, shown, queue, queued, flows, gap>>
      /\ pc = "wetHold" /\ wait = 0 /\ pc' = "wetRead" /\ wait' = SoilTime
  BY DEF ReadWet, leds, At, Go
<1>2. Elapsed = CalHold /\ Elapsed' = CalHold /\ Allowed' = Allowed
  BY <1>1, Durations DEF Elapsed, Planned, Allowed
<1>3. CASE queued
  <2>1. Begun("Wet")
    BY <1>1, <1>2, <1>3, HoldIsOver DEF CueInv, Cues
  <2>2. Begun("Wet")'
    BY <1>1, <1>2, <2>1 DEF Begun
  <2>3. QED
    BY <1>1, <1>3, <2>2 DEF CueInv, Reading
<1>4. CASE ~queued
  BY <1>1, <1>4 DEF CueInv, Reading
<1>5. QED
  BY <1>3, <1>4

(* The wet reference's cue waits for the dry one's, or, if that found no      *)
(* room, for what has been left of what filled the queue.                     *)
LEMMA CaptureWetCue ==
  ASSUME TypeOK, Clocks, CueInv, CaptureWet, flows <= 2
  PROVE  CueInv'
<1>1. /\ UNCHANGED <<playing, left, flows>> /\ SendLed("Wet") /\ (queued' <=> HasRoom)
      /\ pc = "dryRead" /\ wait = 0 /\ pc' = "wetHold" /\ wait' = CalHold
      /\ "Wet" \in Cues /\ "Wet" \in Commands
  BY DEF CaptureWet, leds, At, Go, Cues, Commands
<1>2. flows \in {1, 2}
  BY <1>1, Ranges DEF Clocks
<1>3. Elapsed = CalHold + SoilTime /\ Elapsed' = 0 /\ Allowed' \in Nat
  BY <1>1, Durations, FullQueueFits DEF Elapsed, Planned, Allowed
<1>4. /\ left \in Nat /\ Len(queue) \in Nat /\ Load(Len(queue)) \in Nat /\ FullQueue \in Nat
      /\ (queue = <<>> <=> Len(queue) = 0) /\ Len(queue) <= Depth /\ CalHold \in Nat
      /\ ClassifyTime \in Nat \ {0} /\ SoilTime \in Nat /\ CueTime \in Nat /\ Allowed \in Nat
      /\ Load(0) = 0 /\ CueTime <= CalHold /\ FullQueue < CalHold /\ Depth \in Nat \ {0}
      /\ FullQueue + ClassifyTime <= CalHold + SoilTime
  BY Ranges, Durations, FullQueueFits, Loads
<1>5. ASSUME PlainQueue, left + Load(Len(queue)) <= Allowed', HasRoom PROVE CueInv'
  <2>1. Waiting("Wet")'
    BY <1>1, <1>3, <1>5, SentCue
  <2>2. QED
    BY <1>1, <1>5, <2>1 DEF CueInv, Reading
<1>6. CASE queued
  <2>1. Begun("Dry")
    BY <1>1, <1>6 DEF CueInv
  <2>2. PlainQueue /\ HasRoom /\ Load(Len(queue)) = 0
    BY <1>4, <2>1, EmptyPlain DEF Begun, HasRoom
  <2>3. left <= Allowed'
    <3>1. CASE playing = "Dry"
      <4>1. left + (CalHold + SoilTime) <= Allowed + CueTime
        BY <1>3, <2>1, <3>1 DEF Begun
      <4>2. left + SoilTime <= Allowed
        BY <1>4, <4>1
      <4>3. CASE flows = 2
        <5>1. Allowed' = CalHold - 1 /\ Allowed = CalHold - 1
          BY <1>1, <4>3 DEF Allowed
        <5>2. QED
          BY <1>4, <4>2, <5>1
      <4>4. CASE flows = 1
        <5>1. Allowed = FullQueue
          BY <1>1, <4>4 DEF Allowed
        <5>2. Allowed' = FullQueue - SoilTime
          BY <1>1, <1>4, <4>2, <4>4, <5>1 DEF Allowed
        <5>3. QED
          BY <1>4, <4>2, <5>1, <5>2
      <4>5. QED
        BY <1>2, <4>3, <4>4
    <3>2. CASE playing # "Dry"
      BY <1>3, <2>1, <3>2 DEF Begun, Clocks
    <3>3. QED
      BY <3>1, <3>2
  <2>4. left + Load(Len(queue)) <= Allowed'
    BY <1>4, <2>2, <2>3
  <2>5. QED
    BY <1>5, <2>2, <2>4
<1>7. CASE ~queued
  <2>1. Drained
    BY <1>1, <1>7 DEF CueInv
  <2>2. playing # "Wet" /\ playing # "Dry" /\ PlainQueue
    BY <1>3, <1>4, <2>1 DEF Drained
  <2>3. left <= ClassifyTime
    BY <2>2, PlayedPlain DEF Cues
  <2>4. CASE flows = 1
    <3>1. left + Load(Len(queue)) = 0 /\ queue = <<>>
      <4>1. CASE playing = "Dark" /\ queue = <<>>
        BY <1>4, <4>1 DEF Clocks
      <4>2. CASE left + Load(Len(queue)) + Elapsed <= FullQueue + ClassifyTime
        <5>1. left = 0 /\ Load(Len(queue)) = 0
          BY <1>3, <1>4, <4>2
        <5>2. ASSUME Len(queue) # 0 PROVE FALSE
          <6>1. Len(queue) - 1 \in Nat /\ (Len(queue) - 1) + 1 = Len(queue)
            BY <1>4, <5>2
          <6>2. Load(Len(queue)) = Load(Len(queue) - 1) + ClassifyTime /\ Load(Len(queue) - 1) \in Nat
            BY <6>1, Loads
          <6>3. QED
            BY <1>4, <5>1, <6>2
        <5>3. QED
          BY <1>4, <5>1, <5>2
      <4>3. QED
        BY <2>1, <2>4, <4>1, <4>2 DEF Drained
    <3>2. left + Load(Len(queue)) <= Allowed' /\ HasRoom
      BY <1>3, <1>4, <3>1 DEF HasRoom
    <3>3. QED
      BY <1>5, <2>2, <3>2
  <2>5. CASE flows = 2
    <3>1. CASE HasRoom
      <4>1. Load(Len(queue)) + ClassifyTime <= FullQueue
        <5>1. Len(queue) + 1 <= Depth
          BY <1>4, <3>1 DEF HasRoom
        <5>2. QED
          BY <1>4, <5>1, FullQueueFits
      <4>2. Allowed' = CalHold - 1
        BY <1>1, <2>5 DEF Allowed
      <4>3. left + Load(Len(queue)) <= CalHold - 1
        BY <1>4, <2>3, <4>1
      <4>4. QED
        BY <1>5, <2>2, <3>1, <4>2, <4>3
    <3>2. CASE ~HasRoom
      BY <1>1, <2>5, <3>2 DEF CueInv, Reading
    <3>3. QED
      BY <3>1, <3>2
  <2>6. QED
    BY <1>2, <2>4, <2>5
<1>8. QED
  BY <1>6, <1>7

(* A calibration ends: what is left of its last cue is behind schedule by no  *)
(* more than the cue waited.                                                  *)
LEMMA EndCalibrationCue ==
  ASSUME TypeOK, Clocks, CueInv, EndCalibration, flows <= 2
  PROVE  CueInv'
<1>1. /\ UNCHANGED <<withLed, playing, left, flows>> /\ (SendLed("Rejected") \/ UNCHANGED queue)
      /\ pc = "wetRead" /\ wait = 0 /\ pc' = "loop" /\ wait' = 0 /\ gap' = 0
  BY DEF EndCalibration, leds, At, Go
<1>2. flows \in {1, 2}
  BY <1>1, Ranges DEF Clocks
<1>3. CASE flows = 2
  BY <1>1, <1>3 DEF CueInv, Between, Reading
<1>4. CASE flows = 1
  <2>1. Begun("Wet")
    BY <1>1, <1>4 DEF CueInv
  <2>2. queue = <<>> /\ playing \in {"Wet", "Dark"} /\ Len(queue) = 0
    BY <2>1, Ranges DEF Begun
  <2>3. PlainQueue'
    <3>1. CASE SendLed("Rejected")
      BY <2>2, <3>1, EmptyPlain, SentPlain DEF Plain, Commands, Cues
    <3>2. CASE UNCHANGED queue
      BY <2>2, <3>2, EmptyPlain DEF PlainQueue, PlainUpTo
    <3>3. QED
      BY <1>1, <3>1, <3>2
  <2>4. More' = 0
    <3>1. CASE SendLed("Rejected")
      <4>1. HasRoom
        BY <2>2, Durations DEF HasRoom
      <4>2. Len(queue') = 1
        BY <2>2, <3>1, <4>1, SentLed DEF Commands
      <4>3. QED
        BY <4>2 DEF More
    <3>2. CASE UNCHANGED queue
      BY <2>2, <3>2 DEF More
    <3>3. QED
      BY <1>1, <3>1, <3>2
  <2>5. playing = "Wet" => BehindFirstTry'
    <3>1. SUFFICES ASSUME playing = "Wet" PROVE BehindFirstTry'
      OBVIOUS
    <3>2. left + (CalHold + SoilTime) <= Allowed + CueTime
      <4>1. Elapsed = CalHold + SoilTime
        BY <1>1, Durations DEF Elapsed, Planned
      <4>2. QED
        BY <2>1, <3>1, <4>1 DEF Begun
    <3>3. Allowed = IF SoilTime <= FullQueue THEN FullQueue - SoilTime ELSE 0
      BY <1>1, <1>4 DEF Allowed
    <3>4. left + 2 * SoilTime <= FullQueue /\ left \in Nat
      <4>1. /\ left \in Nat /\ SoilTime \in Nat \ {0} /\ CalHold \in Nat /\ CueTime \in Nat
            /\ CueTime <= CalHold /\ FullQueue \in Nat /\ Allowed \in Nat
        BY Ranges, Durations, FullQueueFits
      <4>2. left + SoilTime <= Allowed
        BY <3>2, <4>1
      <4>3. QED
        BY <3>3, <4>1, <4>2
    <3>5. left + 0 + 2 * SoilTime + 0 <= FullQueue
      BY <3>4, Durations
    <3>6. Since' = 0 /\ Spent(More') = 0 /\ left' = left
      BY <1>1, <2>4, Loads DEF Since, Reading
    <3>7. QED
      BY <3>5, <3>6 DEF BehindFirstTry
  <2>6. QED
    BY <1>1, <1>4, <2>2, <2>3, <2>5 DEF CueInv, Between, Reading
<1>5. QED
  BY <1>2, <1>3, <1>4

(* A step keeps it so.                                                        *)
LEMMA StepCue == TypeOK /\ Clocks /\ CueTwice /\ [Next]_vars => CueTwice'
<1> SUFFICES ASSUME TypeOK, Clocks, CueTwice, [Next]_vars PROVE CueTwice'
  OBVIOUS
<1>1. CASE Tick
  BY <1>1, TickCue
<1>2. CASE Reboot
  BY <1>2, RebootCue DEF CueTwice
<1>3. CASE CaptureDry
  BY <1>3, CaptureDryCue DEF CueTwice
<1>4. CASE StartReading \/ SampleSoil \/ SampleBattery \/ ReadDry \/ CaptureWet \/ ReadWet
             \/ EndCalibration \/ Play \/ Played
  <2>1. SUFFICES ASSUME flows' <= 2 PROVE CueInv'
    BY DEF CueTwice
  <2>2. flows' = flows
    BY <1>4 DEF StartReading, SampleSoil, SampleBattery, ReadDry, CaptureWet, ReadWet,
                EndCalibration, Play, Played
  <2>3. flows <= 2 /\ CueInv
    BY <2>1, <2>2 DEF CueTwice
  <2>4. QED
    BY <1>4, <2>3, StartReadingCue, SampleSoilCue, SampleBatteryCue, ReadDryCue, CaptureWetCue,
       ReadWetCue, EndCalibrationCue, PlayCue, PlayedCue
<1>5. CASE UNCHANGED vars
  BY <1>5 DEF vars, boot, leds, CueTwice, CueInv, Between, Waiting, Begun, Drained, BehindFirstTry,
              PlainQueue, PlainUpTo, Elapsed, Planned, Allowed, More, Since
<1>6. QED
  BY <1>1, <1>2, <1>3, <1>4, <1>5 DEF Next

(* However many readings have been shown before, and also in a second try     *)
(* right after the first: when a reference is read whose cue found room in    *)
(* the channel, the cue has begun and the next one has not (README.md, Status *)
(* LEDs; core/src/calibration.rs, capture).                                   *)
THEOREM CueLeads == Spec => []CueLeadsReference
<1>1. CueTwice => CueLeadsReference
  BY DEF CueTwice, CueInv, Begun, CueLeadsReference
<1>2. QED
  BY <1>1, LedTypes, InitClocks, StepClocks, InitCue, StepCue, PTL DEF Spec

-----------------------------------------------------------------------------
(* A classification that waits for nothing. *)

(* Two clocks run down together.                                              *)
LEMMA RunDown ==
  ASSUME NEW a \in Nat, NEW w \in Nat, w # 0, NEW s \in Nat, NEW t \in Nat, a + s >= t + w
  PROVE  Less(a) + s >= t + Less(w)
<1>1. CASE a = 0
  BY <1>1 DEF Less
<1>2. CASE a # 0
  BY <1>2 DEF Less
<1>3. QED
  BY <1>1, <1>2

(* No other command is a classification.                                      *)
LEMMA SentOther ==
  ASSUME TypeOK, NoClassify, NEW c \in Commands, c # "Classify", SendLed(c)
  PROVE  NoClassify'
<1>1. Len(queue) \in Nat
  BY QueueFacts DEF TypeOK
<1>2. CASE HasRoom
  <2>1. SUFFICES ASSUME NEW i \in 1..(Len(queue) + 1) PROVE queue'[i] # "Classify"
    BY <1>2, SentLed DEF NoClassify
  <2>2. CASE i = Len(queue) + 1
    BY <1>2, <2>2, SentLed
  <2>3. CASE i # Len(queue) + 1
    <3>1. i \in 1..Len(queue)
      BY <1>1, <2>3
    <3>2. QED
      BY <1>2, <3>1, SentLed DEF NoClassify
  <2>4. QED
    BY <2>2, <2>3
<1>3. CASE ~HasRoom
  BY <1>3, SentLed DEF NoClassify
<1>4. QED
  BY <1>2, <1>3

(* A step keeps it so.                                                        *)
LEMMA StepSolo == TypeOK /\ Clocks /\ SoloInv /\ [Next]_vars => SoloInv'
<1> SUFFICES ASSUME TypeOK, Clocks, SoloInv, [Next]_vars PROVE SoloInv'
  OBVIOUS
<1>1. /\ awake \in Nat /\ wait \in Nat /\ left \in Nat /\ Window \in Nat /\ SoilTime \in Nat
      /\ ClassifyTime \in Nat /\ BatteryTime \in Nat \ {0} /\ ClassifyTime + SoilTime \in Nat
  BY Durations DEF TypeOK, Window
<1>2. CASE StartReading
  <2>1. /\ UNCHANGED <<queue, playing, left, solo>> /\ pc = "loop" /\ pc' = "soil" /\ wait' = SoilTime
        /\ (withLed' = FALSE /\ awake' = awake) \/ awake' = Window
    BY <1>2 DEF StartReading, leds, At, Go, OpenWindow, Window
  <2>2. playing = "Classify" => left <= ClassifyTime
    BY DEF Clocks, Duration, Cues
  <2>3. playing = "Classify" => Window + (ClassifyTime + SoilTime) >= Window + left
    BY <1>1, <2>2
  <2>4. Window + SoilTime >= Window + SoilTime
    BY <1>1
  <2>5. solo => NoClassify /\ (playing = "Classify" => awake + (ClassifyTime + SoilTime) >= Window + left)
    BY <2>1 DEF SoloInv
  <2>6. NoClassify' <=> NoClassify
    BY <2>1 DEF NoClassify
  <2>7. pc' = "soil" /\ withLed' => awake' + SoilTime >= Window + wait'
    BY <2>1, <2>4
  <2>8. solo' => NoClassify' /\ (playing' = "Classify" =>
                                   awake' + (ClassifyTime + SoilTime) >= Window + left')
    BY <2>1, <2>3, <2>5, <2>6
  <2>9. QED
    BY <2>7, <2>8 DEF SoloInv
<1>3. CASE SampleSoil
  <2>1. /\ UNCHANGED <<playing, left, withLed, awake>> /\ pc = "soil" /\ wait = 0
        /\ pc' = "battery" /\ wait' = BatteryTime
    BY <1>3 DEF SampleSoil, leds, At, Go
  <2>2. CASE withLed
    <3>1. SUFFICES ASSUME solo' PROVE SoloInv'
      BY <2>1 DEF SoloInv
    <3>2. queue = <<>> /\ playing = "Dark" /\ SendLed("Classify")
      BY <1>3, <2>2, <3>1 DEF SampleSoil
    <3>3. queue' = <<"Classify">>
      <4>1. HasRoom
        BY <3>2, Durations DEF HasRoom
      <4>2. QED
        BY <3>2, <4>1 DEF SendLed
    <3>4. awake + SoilTime >= Window
      BY <1>1, <2>1, <2>2 DEF SoloInv
    <3>5. QED
      BY <2>1, <3>2, <3>3, <3>4 DEF SoloInv
  <2>3. CASE ~withLed
    <3>1. UNCHANGED <<queue, solo>>
      BY <1>3, <2>3 DEF SampleSoil
    <3>2. QED
      BY <2>1, <3>1 DEF SoloInv, NoClassify
  <2>4. QED
    BY <2>2, <2>3
<1>4. CASE SampleBattery \/ ReadDry \/ ReadWet
  <2>1. /\ UNCHANGED <<queue, playing, left, awake, solo>> /\ pc' # "soil"
        /\ pc # "battery" \/ wait # BatteryTime
    BY <1>1, <1>4 DEF SampleBattery, ReadDry, ReadWet, leds, At, Go
  <2>2. QED
    BY <2>1 DEF SoloInv, NoClassify
<1>5. CASE CaptureDry \/ CaptureWet \/ EndCalibration
  <2>1. /\ UNCHANGED <<playing, left, awake, solo>> /\ pc' # "soil" /\ pc # "battery"
        /\ (\E c \in {"Dry", "Wet", "Rejected"} : SendLed(c)) \/ UNCHANGED queue
    BY <1>5 DEF CaptureDry, CaptureWet, EndCalibration, leds, At, Go
  <2>2. NoClassify => NoClassify'
    BY <2>1, SentOther DEF Commands, Cues, NoClassify
  <2>3. QED
    BY <2>1, <2>2 DEF SoloInv
<1>6. CASE Reboot
  BY <1>6 DEF Reboot, SoloInv
<1>7. CASE Play
  <2>1. /\ UNCHANGED <<pc, wait, withLed, awake, solo>>
        /\ playing = "Dark" /\ playing' = Head(queue) /\ left' = Duration(Head(queue))
    BY <1>7 DEF Play, boot
  <2>2. CASE pc = "battery" /\ wait = BatteryTime /\ queue = <<"Classify">> /\ awake + SoilTime >= Window
    <3>1. Head(queue) = "Classify" /\ queue' = <<>>
      BY <1>7, <2>2 DEF Play
    <3>2. left' = ClassifyTime
      BY <2>1, <3>1 DEF Duration, Cues
    <3>3. NoClassify'
      <4>1. Len(queue') = 0
        BY <3>1, EmptySeq
      <4>2. QED
        BY <4>1 DEF NoClassify
    <3>4. awake + (ClassifyTime + SoilTime) >= Window + ClassifyTime
      BY <1>1, <2>2
    <3>5. QED
      BY <2>1, <2>2, <3>2, <3>3, <3>4 DEF SoloInv
  <2>3. CASE NoClassify
    <3>1. /\ Len(queue) \in Nat \ {0} /\ Head(queue) = queue[1] /\ Len(queue') = Len(queue) - 1
          /\ \A i \in 1..(Len(queue) - 1) : i + 1 \in 1..Len(queue) /\ queue'[i] = queue[i + 1]
          /\ 1 \in 1..Len(queue)
      BY <1>7, TakenLed
    <3>2. playing' # "Classify" /\ NoClassify'
      BY <2>1, <2>3, <3>1 DEF NoClassify
    <3>3. QED
      BY <2>1, <3>2 DEF SoloInv
  <2>4. CASE ~solo
    BY <2>1, <2>4 DEF SoloInv
  <2>5. QED
    BY <2>2, <2>3, <2>4 DEF SoloInv
<1>8. CASE Played
  <2>1. UNCHANGED <<pc, wait, withLed, queue, awake, solo>> /\ playing # "Dark" /\ playing' = "Dark"
    BY <1>8 DEF Played, boot
  <2>2. QED
    BY <2>1 DEF SoloInv, NoClassify
<1>9. CASE Tick
  <2>1. /\ UNCHANGED <<pc, withLed, queue, playing, solo>>
        /\ wait' = Less(wait) /\ left' = Less(left) /\ awake' = Less(awake)
        /\ wait # 0 \/ pc = "loop"
        /\ left # 0 \/ (playing = "Dark" /\ queue = <<>>)
    BY <1>1, <1>9 DEF Tick
  <2>2. pc = "soil" /\ withLed => Less(awake) + SoilTime >= Window + Less(wait)
    BY <1>1, <2>1, RunDown DEF SoloInv
  <2>3. ASSUME solo
        PROVE  /\ NoClassify
               /\ playing = "Classify" => Less(awake) + (ClassifyTime + SoilTime) >= Window + Less(left)
    <3>1. queue # <<"Classify">> \/ playing # "Dark"
      BY <2>1 DEF Clocks
    <3>2. /\ NoClassify
          /\ playing = "Classify" => awake + (ClassifyTime + SoilTime) >= Window + left
      BY <2>3, <3>1 DEF SoloInv
    <3>3. QED
      BY <1>1, <2>1, <3>2, RunDown
  <2>4. NoClassify' <=> NoClassify
    BY <2>1 DEF NoClassify
  <2>5. QED
    BY <2>1, <2>2, <2>3, <2>4 DEF SoloInv
<1>10. CASE UNCHANGED vars
  BY <1>10 DEF vars, boot, leds, SoloInv, NoClassify
<1>11. QED
  BY <1>2, <1>3, <1>4, <1>5, <1>6, <1>7, <1>8, <1>9, <1>10 DEF Next

(* A classification that had nothing to wait for is on until the boot sleeps, *)
(* for all of the active window and the settle time but the reading's         *)
(* (README.md, Status LEDs; core/src/app.rs, on_event; fw/src/leds.rs, run).  *)
THEOREM ClassificationIsShown == Spec => []ClassificationShown
<1>1. Init => SoloInv
  BY DEF Init, SoloInv
<1>2. TypeOK /\ Clocks /\ SoloInv => ClassificationShown
  <2> SUFFICES ASSUME TypeOK, Clocks, SoloInv, solo, MaySleep, playing = "Classify"
               PROVE  ClassifyTime - left >= ActiveHold + Settle - SoilTime
    BY DEF ClassificationShown
  <2>1. awake + (ClassifyTime + SoilTime) >= Window + left /\ awake = 0
    BY DEF SoloInv, MaySleep
  <2>2. QED
    BY <2>1, Durations DEF TypeOK, Window
<1>3. QED
  BY <1>1, <1>2, LedTypes, InitClocks, StepClocks, StepSolo, PTL DEF Spec
=============================================================================
