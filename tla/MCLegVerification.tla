------------------------- MODULE MCLegVerification -------------------------
(* Instances of LegVerification for TLC. *)
EXTENDS LegVerification

CONSTANTS a1, a2

\* The expected amounts are optional for a report, and only passed on.
ExpectedByAffirmation == [affirm |-> 2, verify |-> 0]
=============================================================================
