----------------------------- MODULE JsonNumber -----------------------------
(***************************************************************************)
(* What becomes of a BigNumber on its way to the proof server and of a     *)
(* number on its way back (confidential-proofs.utils.ts): `toNumber()` and *)
(* JSON give an IEEE double, which holds every integer up to 2^53 and only *)
(* the even ones up to 2^54.  MaxSafe stands for 2^53; a tie goes to the   *)
(* neighbour with the even significand, so to a multiple of 4.             *)
(***************************************************************************)
EXTENDS Naturals

CONSTANT MaxSafe

ASSUME MaxSafeAssumption == MaxSafe \in Nat /\ MaxSafe % 4 = 0

\* Defined up to 2 * MaxSafe, where doubles begin to skip even numbers too.
Number(n) ==
    IF n <= MaxSafe \/ n % 2 = 0 THEN n
    ELSE IF (n - 1) % 4 = 0 THEN n - 1 ELSE n + 1
=============================================================================
