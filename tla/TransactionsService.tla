------------------------- MODULE TransactionsService -------------------------
(***************************************************************************)
(* The webhook half of TransactionsService: what `submit` does with        *)
(* processMode "submitWithCallback" (src/transactions/                     *)
(* transactions.service.ts).  A request resolves its signer, prepares the  *)
(* SDK transaction, registers a status listener under a fresh number,      *)
(* creates a subscription for that number, starts the transaction without  *)
(* waiting for it and answers with notification 0.  Each later status      *)
(* change starts an asynchronous handler of its own; the handler of a      *)
(* terminal status also drops the listener, removes the store entry and    *)
(* closes the subscriptions.  All of these interleave: every `await` below *)
(* is a point where any other request, handler or callback may run.        *)
(*                                                                         *)
(* Node runs one callback at a time, so the code between two awaits is one *)
(* action.  EventsService and SubscriptionsService are in a git submodule  *)
(* whose sources are not in the repository: they are modelled from the     *)
(* calls made here, and each call may fail if its name is in Faults.       *)
(*                                                                         *)
(* An operator whose comment starts with "Slip:" is not part of the        *)
(* specification: it is a plausible mistake in the definition that follows *)
(* it, kept to check that the properties would notice.                     *)
(***************************************************************************)
EXTENDS Naturals, FiniteSets, SdkTransaction

CONSTANTS
    Requests,   \* requests submitted with processMode submitWithCallback
    Outcomes,   \* statuses that the SDK may end a transaction with
    Faults      \* calls that may reject, by name

CallNames == {"getSigningAccount", "prepareProcedure", "createSubscription",
              "updateSubscription", "run", "createEvent", "findAll",
              "batchMarkAsDone"}

ASSUME OutcomesAssumption == Outcomes \subseteq TerminalStatuses
ASSUME FaultsAssumption == Faults \subseteq CallNames

VARIABLES
    pc,                \* where each request's call of submit stands
    reply,             \* what each request was answered
    currentId,         \* number given to the latest listener
    id,                \* the number a request's listener closes over, or 0
    transactionStore,  \* entries [id, tx] of the in-memory Map
    listening,         \* requests whose transaction still calls its listener
    txStatus,          \* status of each request's SDK transaction
    running,           \* requests whose transaction.run() is in flight
    handler,           \* where each handleTransactionStatusChange call stands
    found,             \* subscriptions that a markSubsAsDone call has found
    events,            \* events created, [scope, tx, status]
    sub,               \* the subscription created by each request
    inbox              \* notifications queued for each subscription

requestVars == <<pc, reply>>
storeVars   == <<currentId, id, transactionStore, listening>>
sdkVars     == <<txStatus, running>>
handlerVars == <<handler, found>>
notifyVars  == <<events, sub, inbox>>
vars == <<requestVars, storeVars, sdkVars, handlerVars, notifyVars>>

-----------------------------------------------------------------------------
PcStates == {"idle", "signing", "preparing", "creatingSub", "updatingSub",
             "responded"}

\* Either no answer yet, an error, or the notification with nonce 0.
NoReply     == [kind |-> "none"]
ErrorReply  == [kind |-> "error"]
Notified(p) == [kind |-> "notification", nonce |-> 0, payload |-> p]
Replies == {NoReply, ErrorReply} \cup {Notified(p) : p \in Payloads}

\* A handler awaits createEvent, then (for a terminal status) findAll and
\* batchMarkAsDone; "failed" is its catch block.
Stages == {"none", "creating", "finding", "marking", "done", "failed"}

SubStatuses == {"None", "Inactive", "Active", "Done", "Rejected"}
NoSub == [status |-> "None", scope |-> 0, nextNonce |-> 0, expired |-> FALSE]
Subs == [status : SubStatuses, scope : Nat, nextNonce : Nat, expired : BOOLEAN]

Entries == [id : Nat, tx : Requests]
Events  == [scope : Nat, tx : Requests, status : Statuses]
Notifications == [nonce : Nat, tx : Requests, payload : Payloads]

Init ==
    /\ pc = [r \in Requests |-> "idle"]
    /\ reply = [r \in Requests |-> NoReply]
    /\ currentId = 0
    /\ id = [r \in Requests |-> 0]
    /\ transactionStore = {}
    /\ listening = {}
    /\ txStatus = [r \in Requests |-> "Idle"]
    /\ running = {}
    /\ handler = [r \in Requests |-> [s \in Statuses |-> "none"]]
    /\ found = [r \in Requests |-> {}]
    /\ events = {}
    /\ sub = [r \in Requests |-> NoSub]
    /\ inbox = [r \in Requests |-> {}]

-----------------------------------------------------------------------------
(* submit, up to the prepared transaction. *)

Receive(r) ==
    /\ pc[r] = "idle"
    /\ pc' = [pc EXCEPT ![r] = "signing"]
    /\ UNCHANGED <<reply, storeVars, sdkVars, handlerVars, notifyVars>>

ResolveSigner(r) ==
    /\ pc[r] = "signing"
    /\ pc' = [pc EXCEPT ![r] = "preparing"]
    /\ UNCHANGED <<reply, storeVars, sdkVars, handlerVars, notifyVars>>

\* A rejected call ends the request.  None of these paths removes a listener
\* or a subscription that an earlier step has left behind.
Reject(r, state, call) ==
    /\ pc[r] = state
    /\ call \in Faults
    /\ pc' = [pc EXCEPT ![r] = "responded"]
    /\ reply' = [reply EXCEPT ![r] = ErrorReply]
    /\ UNCHANGED <<storeVars, sdkVars, handlerVars, notifyVars>>

GetSigningAccountFails(r)  == Reject(r, "signing", "getSigningAccount")
PrepareFails(r)            == Reject(r, "preparing", "prepareProcedure")
CreateSubscriptionFails(r) == Reject(r, "creatingSub", "createSubscription")
UpdateSubscriptionFails(r) == Reject(r, "updatingSub", "updateSubscription")

-----------------------------------------------------------------------------
(* submitAndSubscribe, from addListener to the answer. *)

\* Slip: numbers taken from the size of the Map.
NextIdRecycled == Cardinality(transactionStore) + 1

\* Slip: the counter runs the wrong way.
NextIdDown == currentId - 1

NextId == currentId + 1

\* Map.set: an entry with the same key would be replaced.
StoreSet(entry) ==
    {e \in transactionStore : e.id # entry.id} \cup {entry}

\* prepareProcedure resolves: addListener runs in the same callback, and
\* createSubscription is called.
PrepareAndAddListener(r) ==
    /\ pc[r] = "preparing"
    /\ currentId' = NextId
    /\ id' = [id EXCEPT ![r] = NextId]
    /\ transactionStore' = StoreSet([id |-> NextId, tx |-> r])
    /\ listening' = listening \cup {r}
    /\ pc' = [pc EXCEPT ![r] = "creatingSub"]
    /\ UNCHANGED <<reply, sdkVars, handlerVars, notifyVars>>

CreateSubscription(r) ==
    /\ pc[r] = "creatingSub"
    /\ sub' = [sub EXCEPT ![r] = [NoSub EXCEPT !.status = "Inactive",
                                               !.scope = id[r]]]
    /\ pc' = [pc EXCEPT ![r] = "updatingSub"]
    /\ UNCHANGED <<reply, storeVars, sdkVars, handlerVars, events, inbox>>

\* Slip: the subscription is left with the default nonce.
InitialNonceUnset == 0
InitialNonce == 1

\* Slip: run() is awaited, so that there is nothing to answer yet.
AnswerAfterRun(r) == UNCHANGED requestVars

\* Notification 0, with the status the transaction has by then.
AnswerInitial(r) ==
    /\ reply' = [reply EXCEPT ![r] = Notified(Payload(txStatus'[r]))]
    /\ pc' = [pc EXCEPT ![r] = "responded"]

\* updateSubscription resolves: run() is called, not awaited, and the answer
\* is assembled at once.  The synchronous prefix of run() may already have
\* moved the transaction to its first status and called the listener.
UpdateSubscriptionAndRun(r) ==
    /\ pc[r] = "updatingSub"
    /\ sub' = [sub EXCEPT ![r].nextNonce = InitialNonce]
    /\ running' = running \cup {r}
    /\ \/ UNCHANGED <<txStatus, handler>>
       \/ /\ txStatus' = [txStatus EXCEPT ![r] = "Unapproved"]
          /\ handler' = [handler EXCEPT ![r]["Unapproved"] = "creating"]
    /\ AnswerInitial(r)
    /\ UNCHANGED <<storeVars, found, events, inbox>>

-----------------------------------------------------------------------------
(* The SDK runs the transaction. *)

\* The SDK sets a status and calls the listener, whose synchronous part saves
\* the status, assembles the payload and calls createEvent.
StatusChange(r, s) ==
    /\ r \in running
    /\ s \in NextStatuses(txStatus[r])
    /\ s \in TerminalStatuses => s \in Outcomes
    /\ txStatus' = [txStatus EXCEPT ![r] = s]
    /\ running' = IF s \in TerminalStatuses THEN running \ {r} ELSE running
    /\ handler' = IF r \in listening
                  THEN [handler EXCEPT ![r][s] = "creating"]
                  ELSE handler
    /\ UNCHANGED <<requestVars, storeVars, found, notifyVars>>

\* run() rejects without a status change; the rejection is only logged.
RunFails(r) ==
    /\ "run" \in Faults
    /\ r \in running
    /\ running' = running \ {r}
    /\ UNCHANGED <<requestVars, storeVars, txStatus, handlerVars, notifyVars>>

-----------------------------------------------------------------------------
(* handleTransactionStatusChange, one call for each request and status. *)

\* The subscriptions to scope n in the given status that have not expired.
SubsIn(n, status) ==
    {q \in Requests : /\ sub[q].scope = n
                      /\ sub[q].status = status
                      /\ ~sub[q].expired}

ActiveSubs(n) == SubsIn(n, "Active")

\* Slip: the payload is assembled after the await, from the mutated object.
ReportedLate(r, s) == Payload(txStatus[r])

\* The payload is assembled before the await, while the status is still s.
Reported(r, s) == Payload(s)

\* EventsService: the event is stored and a notification with the next nonce
\* queued for every active subscription to its scope.
RecordEvent(r, s) ==
    /\ events' = events \cup {[scope |-> id[r], tx |-> r, status |-> s]}
    /\ inbox' = [q \in Requests |->
                   IF q \in ActiveSubs(id[r])
                   THEN inbox[q] \cup {[nonce |-> sub[q].nextNonce, tx |-> r,
                                       payload |-> Reported(r, s)]}
                   ELSE inbox[q]]
    /\ sub' = [q \in Requests |->
                 IF q \in ActiveSubs(id[r])
                 THEN [sub[q] EXCEPT !.nextNonce = @ + 1]
                 ELSE sub[q]]

\* transactionStore.get(n), as the set of the entries found.
TxData(n) == {e \in transactionStore : e.id = n}

\* Slip: every status change cleans up.
AlwaysCleansUp(s) == TRUE

CleansUp(s) == s \in TerminalStatuses

\* Slip: the entry stays in the store.
KeepEntry(r) == UNCHANGED transactionStore

DeleteEntry(r) == transactionStore' = transactionStore \ TxData(id[r])

CreateEvent(r, s) ==
    /\ handler[r][s] = "creating"
    /\ ~CleansUp(s)
    /\ RecordEvent(r, s)
    /\ handler' = [handler EXCEPT ![r][s] = "done"]
    /\ UNCHANGED <<requestVars, storeVars, sdkVars, found>>

\* The event of a terminal status is stored: the same callback drops the
\* listener and the store entry and calls findAll.
CreateTerminalEvent(r, s) ==
    /\ handler[r][s] = "creating"
    /\ CleansUp(s)
    /\ RecordEvent(r, s)
    /\ listening' = listening \ {e.tx : e \in TxData(id[r])}
    /\ DeleteEntry(r)
    /\ handler' = [handler EXCEPT ![r][s] = "finding"]
    /\ UNCHANGED <<requestVars, currentId, id, sdkVars, found>>

\* Slip: the subscriptions looked up are those not active yet.
InactiveFound(n) == SubsIn(n, "Inactive")

\* What findAll returns to markSubsAsDone.
ActiveFound(n) == ActiveSubs(n)

\* markSubsAsDone, between its two calls.
FindAll(r, s) ==
    /\ handler[r][s] = "finding"
    /\ found' = [found EXCEPT ![r] = ActiveFound(id[r])]
    /\ handler' = [handler EXCEPT ![r][s] = "marking"]
    /\ UNCHANGED <<requestVars, storeVars, sdkVars, notifyVars>>

BatchMarkAsDone(r, s) ==
    /\ handler[r][s] = "marking"
    /\ sub' = [q \in Requests |->
                 IF q \in found[r] THEN [sub[q] EXCEPT !.status = "Done"]
                                   ELSE sub[q]]
    /\ handler' = [handler EXCEPT ![r][s] = "done"]
    /\ UNCHANGED <<requestVars, storeVars, sdkVars, found, events, inbox>>

\* Slip: the clean-up is in a finally block.
CleanUpOnError(r) ==
    /\ DeleteEntry(r)
    /\ listening' = listening \ {r}
    /\ UNCHANGED <<currentId, id>>

\* The error is logged and nothing is undone.
LogOnly(r) == UNCHANGED storeVars

\* A call of the handler rejects.
HandlerFails(r, s, stage, call) ==
    /\ handler[r][s] = stage
    /\ call \in Faults
    /\ handler' = [handler EXCEPT ![r][s] = "failed"]
    /\ LogOnly(r)
    /\ UNCHANGED <<requestVars, sdkVars, found, notifyVars>>

CreateEventFails(r, s)     == HandlerFails(r, s, "creating", "createEvent")
FindAllFails(r, s)         == HandlerFails(r, s, "finding", "findAll")
BatchMarkAsDoneFails(r, s) == HandlerFails(r, s, "marking", "batchMarkAsDone")

-----------------------------------------------------------------------------
(* SubscriptionsService in the background: the webhook's handshake succeeds *)
(* or runs out of tries, and the time to live runs out.                     *)

SetSubStatus(r, status) ==
    /\ sub[r].status = "Inactive"
    /\ sub' = [sub EXCEPT ![r].status = status]
    /\ UNCHANGED <<requestVars, storeVars, sdkVars, handlerVars, events, inbox>>

Handshake(r)      == SetSubStatus(r, "Active")
HandshakeFails(r) == SetSubStatus(r, "Rejected")

Expire(r) ==
    /\ sub[r].status \in {"Inactive", "Active"}
    /\ ~sub[r].expired
    /\ sub' = [sub EXCEPT ![r].expired = TRUE]
    /\ UNCHANGED <<requestVars, storeVars, sdkVars, handlerVars, events, inbox>>

-----------------------------------------------------------------------------
RequestStep(r) ==
    \/ ResolveSigner(r) \/ GetSigningAccountFails(r)
    \/ PrepareAndAddListener(r) \/ PrepareFails(r)
    \/ CreateSubscription(r) \/ CreateSubscriptionFails(r)
    \/ UpdateSubscriptionAndRun(r) \/ UpdateSubscriptionFails(r)

SdkStep(r) == RunFails(r) \/ \E s \in Statuses : StatusChange(r, s)

HandlerStep(r, s) ==
    \/ CreateEvent(r, s) \/ CreateTerminalEvent(r, s) \/ CreateEventFails(r, s)
    \/ FindAll(r, s) \/ FindAllFails(r, s)
    \/ BatchMarkAsDone(r, s) \/ BatchMarkAsDoneFails(r, s)

WebhookStep(r) == Handshake(r) \/ HandshakeFails(r) \/ Expire(r)

Next == \E r \in Requests :
    \/ Receive(r)
    \/ RequestStep(r)
    \/ SdkStep(r)
    \/ \E s \in Statuses : HandlerStep(r, s)
    \/ WebhookStep(r)

Spec == Init /\ [][Next]_vars

\* Every call that is awaited settles, one way or the other.  Nothing is
\* assumed of the SDK, of the webhook's owner or of new requests.
Fairness == \A r \in Requests :
    /\ WF_vars(RequestStep(r))
    /\ \A s \in Statuses : WF_vars(HandlerStep(r, s))

FairSpec == Spec /\ Fairness

-----------------------------------------------------------------------------
(* Types. *)

\* Every variable holds a value of the shape the code gives it.
TypeOK ==
    /\ pc \in [Requests -> PcStates]
    /\ reply \in [Requests -> Replies]
    /\ currentId \in Nat
    /\ id \in [Requests -> Nat]
    /\ transactionStore \subseteq Entries
    /\ listening \subseteq Requests
    /\ txStatus \in [Requests -> Statuses]
    /\ running \subseteq Requests
    /\ handler \in [Requests -> [Statuses -> Stages]]
    /\ found \in [Requests -> SUBSET Requests]
    /\ events \subseteq Events
    /\ sub \in [Requests -> Subs]
    /\ inbox \in [Requests -> SUBSET Notifications]

-----------------------------------------------------------------------------
(* Safety. *)

\* The non-null assertion `transactionStore.get(id)!` is right: whenever the
\* handler of a terminal status has still to clean up, the store holds exactly
\* the entry of its own transaction, whatever other handlers have removed.
TerminalHandlerFindsEntry ==
    \A r \in Requests, s \in TerminalStatuses :
        handler[r][s] = "creating" =>
            TxData(id[r]) = {[id |-> id[r], tx |-> r]}

\* A transaction in flight is always watched: until its terminal status its
\* listener is registered, so that no status change goes unreported.
InFlightIsWatched ==
    \A r \in running :
        /\ r \in listening
        /\ [id |-> id[r], tx |-> r] \in transactionStore

\* A webhook is only ever told about the transaction its own request started,
\* however many requests and status handlers interleave.
NotificationsAreOwn ==
    \A r \in Requests : \A n \in inbox[r] : n.tx = r

\* With the answer as notification 0, the notifications of a subscription are
\* numbered 1, 2, ... without a gap and without a number used twice.
NoncesAreContiguous ==
    \A r \in Requests :
        /\ reply[r].kind = "notification" =>
               {n.nonce : n \in inbox[r]} = 1 .. (sub[r].nextNonce - 1)
        /\ \A m, n \in inbox[r] : m.nonce = n.nonce => m = n

\* No notification precedes the answer of the request that subscribed to it.
NoNotificationBeforeReply ==
    \A r \in Requests : inbox[r] # {} => reply[r].kind = "notification"

\* A transaction leaves the store, and its subscription is closed, only after
\* the event of the terminal status it really ended with has been stored.
TerminalEventStored(r) ==
    /\ txStatus[r] \in TerminalStatuses
    /\ [scope |-> id[r], tx |-> r, status |-> txStatus[r]] \in events

DoneOnlyAfterTerminalEvent ==
    \A r \in Requests :
        \/ sub[r].status = "Done"
        \/ id[r] # 0 /\ [id |-> id[r], tx |-> r] \notin transactionStore
        => TerminalEventStored(r)

-----------------------------------------------------------------------------
(* Liveness, under FairSpec. *)

\* Every request that resolves its signer is answered, whichever call fails.
EveryRequestIsAnswered ==
    \A r \in Requests : pc[r] = "signing" ~> pc[r] = "responded"

\* Once a transaction has ended, its listener and store entry go away, unless
\* the event of its terminal status could not be stored.
EndedTransactionsAreDropped ==
    \A r \in Requests :
        txStatus[r] \in TerminalStatuses ~>
            \/ /\ r \notin listening
               /\ [id |-> id[r], tx |-> r] \notin transactionStore
            \/ handler[r][txStatus[r]] = "failed"

\* A subscription that is active when its transaction's cleanup reaches findAll
\* is closed, unless it expires first or the cleanup fails.
ActiveSubscriptionIsClosed ==
    \A r \in Requests, s \in TerminalStatuses :
        handler[r][s] = "finding" /\ r \in ActiveSubs(id[r]) ~>
            \/ sub[r].status = "Done"
            \/ sub[r].expired
            \/ handler[r][s] = "failed"

-----------------------------------------------------------------------------
(* What the documentation says, and the code does not do. *)

\* README: with submitWithCallback the server responds "after submitting the
\* transaction to the mempool".
AcceptedMeansSubmitted ==
    \A r \in Requests :
        reply[r].kind = "notification" =>
            txStatus[r] \in {"Running"} \cup TerminalStatuses

-----------------------------------------------------------------------------
(* What a webhook is promised: the specification TransactionFeed. *)

feedState == [r \in Requests |->
    IF sub[r].status = "Done" THEN "closed"
    ELSE IF reply[r].kind = "notification" THEN "open" ELSE "none"]

feedRecorded == [r \in Requests |-> {e.status : e \in {x \in events : x.tx = r}}]

feedNext == [r \in Requests |->
    IF reply[r].kind = "notification" THEN sub[r].nextNonce ELSE 1]

feedSent == [r \in Requests |->
    {[nonce |-> n.nonce, status |-> n.payload.status] : n \in inbox[r]}]

Feed == INSTANCE TransactionFeed WITH
            state <- feedState, recorded <- feedRecorded,
            next <- feedNext, sent <- feedSent

\* Every behaviour of the service is one of the feed: updates are numbered,
\* belong to their transaction, and stop once it is closed.
ImplementsFeed == Feed!Spec
=============================================================================
