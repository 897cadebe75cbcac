------------------------------ MODULE MCInput ------------------------------
(* A count that starts over after two detents, a ring of three LEDs, and a *)
(* long press of one tick.                                                 *)
EXTENDS Input, TLC

MCLowLimit == -2
=============================================================================
