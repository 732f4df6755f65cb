------------------------------ MODULE MCDevice ------------------------------
(* Device with CRASH_LOOP_BOOTS as it is and a counter of four bits for the   *)
(* u32.                                                                       *)
EXTENDS Device
=============================================================================
