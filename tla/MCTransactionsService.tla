----------------------- MODULE MCTransactionsService -----------------------
(* Instances of TransactionsService for TLC. *)
EXTENDS TransactionsService_proofs, TLC

CONSTANTS r1, r2

\* The requests are interchangeable: they only differ in the numbers they get.
RequestSymmetry == Permutations(Requests)

\* Calls whose failure leaves something behind.
LeakingFaults == {"createSubscription", "createEvent"}
AllFaults == CallNames
NoFaults == {}
=============================================================================
