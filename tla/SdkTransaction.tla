--------------------------- MODULE SdkTransaction ---------------------------
(***************************************************************************)
(* The Polymesh SDK's transaction object, as the REST API uses it.  The    *)
(* SDK mutates the object's status while `run()` is in flight and calls    *)
(* every status listener after each change.  The SDK is not part of the    *)
(* repository: the statuses are the ones its services test for, and the    *)
(* order is the one their tests drive.                                     *)
(***************************************************************************)

\* The statuses that src/transactions tells apart.
Statuses == {"Idle", "Unapproved", "Running",
             "Succeeded", "Failed", "Rejected", "Aborted"}

\* The list tested in handleTransactionStatusChange: nothing follows these.
TerminalStatuses == {"Aborted", "Failed", "Rejected", "Succeeded"}

\* The statuses that may follow s: the signer declines or the extrinsic is
\* dropped before it is signed, or it is signed, broadcast and settled.
NextStatuses(s) ==
    CASE s = "Idle"       -> {"Unapproved"}
      [] s = "Unapproved" -> {"Running", "Rejected", "Aborted"}
      [] s = "Running"    -> {"Succeeded", "Failed", "Aborted"}
      [] OTHER            -> {}

\* What assemblePayload puts in a status update for an object in status s:
\* the hash once signed, the block once included, the error if there is one.
Payload(s) ==
    [status |-> s,
     hash   |-> s \notin {"Rejected", "Unapproved", "Idle"},
     block  |-> s \in {"Succeeded", "Failed"},
     error  |-> s \in {"Aborted", "Failed", "Rejected"}]

Payloads == {Payload(s) : s \in Statuses}
=============================================================================
