--------------------------- MODULE TransactionFeed ---------------------------
(***************************************************************************)
(* What a client that submits a transaction with a webhook is promised: an *)
(* answer first, then a feed of status updates numbered from 1, each about *)
(* a status its own transaction really had, at most one of them terminal,  *)
(* and nothing more once the feed is closed.  Updates may be missing (the  *)
(* webhook was not active yet, or no longer) and may be stored out of      *)
(* order.  TransactionsService implements this specification.              *)
(***************************************************************************)
EXTENDS Naturals, SdkTransaction

CONSTANT Requests

VARIABLES
    state,      \* "none" until the request is answered, then "open", "closed"
    recorded,   \* the statuses recorded for each request's transaction
    next,       \* the number of each feed's next update
    sent        \* the updates sent, [nonce, status]

feedVars == <<state, recorded, next, sent>>

Init ==
    /\ state = [r \in Requests |-> "none"]
    /\ recorded = [r \in Requests |-> {}]
    /\ next = [r \in Requests |-> 1]
    /\ sent = [r \in Requests |-> {}]

\* The request is answered with update 0.
Open(r) ==
    /\ state[r] = "none"
    /\ state' = [state EXCEPT ![r] = "open"]
    /\ UNCHANGED <<recorded, next, sent>>

\* A status of the transaction is recorded, once, and only one terminal one.
Record(r, s) ==
    /\ state[r] # "none"
    /\ s \notin recorded[r]
    /\ s \in TerminalStatuses => recorded[r] \cap TerminalStatuses = {}
    /\ recorded' = [recorded EXCEPT ![r] = @ \cup {s}]
    /\ UNCHANGED state

\* The feed is not delivered to at this moment: the update is only recorded.
RecordOnly(r, s) ==
    /\ Record(r, s)
    /\ UNCHANGED <<next, sent>>

RecordAndSend(r, s) ==
    /\ Record(r, s)
    /\ state[r] = "open"
    /\ sent' = [sent EXCEPT ![r] = @ \cup {[nonce |-> next[r], status |-> s]}]
    /\ next' = [next EXCEPT ![r] = @ + 1]

\* A feed is closed once a terminal status has been recorded.
Close(r) ==
    /\ state[r] = "open"
    /\ recorded[r] \cap TerminalStatuses # {}
    /\ state' = [state EXCEPT ![r] = "closed"]
    /\ UNCHANGED <<recorded, next, sent>>

Next == \E r \in Requests :
    \/ Open(r)
    \/ \E s \in Statuses : RecordOnly(r, s) \/ RecordAndSend(r, s)
    \/ Close(r)

Spec == Init /\ [][Next]_feedVars
=============================================================================
