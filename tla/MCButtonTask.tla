---------------------------- MODULE MCButtonTask ----------------------------
(* ButtonTask with a channel that a few presses fill, for boots that a press  *)
(* may have caused and for boots that none did.                               *)
EXTENDS ButtonTask

MCAnyBoot == BOOLEAN
MCOtherBoot == {FALSE}
=============================================================================
