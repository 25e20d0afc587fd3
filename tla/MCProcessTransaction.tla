------------------------ MODULE MCProcessTransaction ------------------------
(* Instances of ProcessTransaction for TLC. *)
EXTENDS ProcessTransaction

CONSTANTS r1, r2

NoFaults == {}
FeesFault == {"getTotalFees"}
=============================================================================
