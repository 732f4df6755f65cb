----------------------------- MODULE MCSimulator -----------------------------
(* One boot of the firmware with one press, and three of the simulator's with *)
(* every script of up to one press, two kinds of three, and three lit_at.     *)
EXTENDS Simulator

MCTimer == {"Timer"}
MCCauses == {"Timer", "Cold"}
MCOnce == [c \in MCCauses |-> IF c = "Timer" THEN 1 ELSE 0]
MCMessage == [c \in MCCauses |-> 1]

OnePress == {<<[at |-> a, held |-> h]>> : a \in 1..20, h \in 1..6}
TripleClick(a, h) == <<[at |-> a, held |-> h], [at |-> a + h + 1, held |-> h], [at |-> a + 2*h + 2, held |-> h]>>
MCScripts == {<<>>} \cup OnePress \cup {TripleClick(a, 2) : a \in 1..20}
MCLitTimes == {0, 5, 9, 13}
=============================================================================
