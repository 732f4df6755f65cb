----------------------------- MODULE MCBootLoop -----------------------------
(* BootLoop with small durations in the order tuning.rs puts them; a tick is  *)
(* about a quarter of a second around the sleep decision; longer times shrink.*)
EXTENDS BootLoop

\* A calibration takes three presses, after the one that wakes the device; a message
\* comes in a boot with fewer.
MCPresses == [c \in WakeCauses |-> CASE c = "Button" -> 3 [] c = "Timer" -> 2 [] c = "Cold" -> 1]
MCMessages == [c \in WakeCauses |-> IF c = "Button" THEN 0 ELSE 1]

MCTimer == {"Timer"}
MCNone == [c \in MCTimer |-> 0]
MCOneEach == [c \in MCTimer |-> 1]
MCTwice == [c \in MCTimer |-> 2]
=============================================================================
