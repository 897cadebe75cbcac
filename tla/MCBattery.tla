----------------------------- MODULE MCBattery -----------------------------
(* 3.0 V, two readings that both mean 3.7 V, and 6.0 V, which is narrowed. *)
EXTENDS Battery, TLC

MCReadings == {1900, 2300, 2301, 3700}
=============================================================================
