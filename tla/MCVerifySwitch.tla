--------------------------- MODULE MCVerifySwitch ---------------------------
(* VerifySwitch over every node code and order type the constants name, a   *)
(* few beyond them, and the code of a body without a state.                 *)
EXTENDS VerifySwitch

MCCodes == 0..101 \cup {None}      \* StatusConstant names 0 to 100
MCPoTypes == 0..31                 \* StatusConstant names 1 to 30
=============================================================================
