---------------------- MODULE TransactionsService_proofs ----------------------
(***************************************************************************)
(* Proofs of the safety properties of TransactionsService, for any set of  *)
(* requests, any outcomes and any faults.  The inductive invariant IInv    *)
(* ties the five places a request's number lives in (the listener, the     *)
(* store, the subscription, the events and the handlers) together.         *)
(***************************************************************************)
EXTENDS TransactionsService, TLAPS

Entry(r) == [id |-> id[r], tx |-> r]

\* A number is given once, and only by addListener.
IdsAreFresh ==
    /\ \A r \in Requests : id[r] <= currentId
    /\ \A q, r \in Requests : id[q] = id[r] /\ id[r] # 0 => q = r
    /\ \A r \in Requests :
          /\ pc[r] \in {"idle", "signing", "preparing"} => id[r] = 0
          /\ pc[r] \in {"creatingSub", "updatingSub"} => id[r] # 0

\* Entries, subscriptions and events carry the number of their own request.
NumbersAgree ==
    /\ \A e \in transactionStore : e.id = id[e.tx] /\ e.id # 0
    /\ \A r \in Requests :
          sub[r].status # "None" => sub[r].scope = id[r] /\ id[r] # 0
    /\ \A e \in events : e.scope = id[e.tx]

\* Nothing happens to a transaction before its request is answered.
NothingBeforeReply ==
    \A r \in Requests :
        reply[r].kind # "notification" =>
            /\ txStatus[r] = "Idle"
            /\ r \notin running
            /\ \A s \in Statuses : handler[r][s] = "none"
            /\ found[r] = {}
            /\ inbox[r] = {}
            /\ \A e \in events : e.tx # r

\* An answered request has its number and its subscription.
AnsweredIsSubscribed ==
    \A r \in Requests :
        /\ pc[r] = "updatingSub" => sub[r].status # "None"
        /\ reply[r].kind = "notification" =>
               /\ pc[r] = "responded"
               /\ id[r] # 0
               /\ sub[r].status # "None"
               /\ sub[r].nextNonce >= 1

\* Handlers only run for statuses the transaction has had, and only those of
\* the terminal status clean up.
HandledWasReached ==
    /\ \A r \in running : txStatus[r] \notin TerminalStatuses
    /\ \A r \in Requests :
          /\ handler[r]["Idle"] = "none"
          /\ handler[r]["Unapproved"] # "none" => txStatus[r] # "Idle"
          /\ handler[r]["Running"] # "none" =>
                 txStatus[r] \notin {"Idle", "Unapproved"}
          /\ \A s \in TerminalStatuses : handler[r][s] # "none" => txStatus[r] = s
          /\ \A s \in Statuses :
                handler[r][s] \in {"finding", "marking"} =>
                    s \in TerminalStatuses /\ TerminalEventStored(r)

\* An event is stored by the handler of its status.
EventWasHandled ==
    \A e \in events :
        /\ handler[e.tx][e.status] \notin {"none", "creating"}
        /\ e.status \in TerminalStatuses => txStatus[e.tx] = e.status

\* A listener and its store entry come and go together, and they only go in
\* the handler of the terminal status.
ListenerHasEntry ==
    \A r \in Requests :
        /\ r \in listening <=> Entry(r) \in transactionStore
        /\ id[r] # 0 /\ Entry(r) \notin transactionStore =>
               /\ TerminalEventStored(r)
               /\ handler[r][txStatus[r]] \notin {"none", "creating"}

\* The clean-up of a transaction finds and closes its own subscription only.
ClosedIsOwn ==
    \A r \in Requests :
        /\ found[r] \subseteq {r}
        /\ found[r] # {} => sub[r].status # "None" /\ TerminalEventStored(r)
        /\ sub[r].status = "Done" => TerminalEventStored(r)

\* The inductive invariant.
IInv ==
    /\ TypeOK
    /\ IdsAreFresh
    /\ NumbersAgree
    /\ NothingBeforeReply
    /\ AnsweredIsSubscribed
    /\ HandledWasReached
    /\ EventWasHandled
    /\ ListenerHasEntry
    /\ ClosedIsOwn
    /\ NotificationsAreOwn
    /\ NoncesAreContiguous

-----------------------------------------------------------------------------
\* The service starts with an empty store and no request.
LEMMA InitIInv == Init => IInv
<1> SUFFICES ASSUME Init PROVE IInv
  OBVIOUS
<1> USE DEF Init, NoReply, NoSub
<1>1. TypeOK
  BY DEF TypeOK, PcStates, Replies, Stages, Statuses, Subs, SubStatuses
<1>2. IdsAreFresh /\ NumbersAgree /\ NothingBeforeReply /\ AnsweredIsSubscribed
  BY DEF IdsAreFresh, NumbersAgree, NothingBeforeReply, AnsweredIsSubscribed
<1>3. HandledWasReached /\ EventWasHandled
  BY DEF HandledWasReached, EventWasHandled, Statuses, TerminalStatuses
<1>4. ListenerHasEntry /\ ClosedIsOwn /\ NotificationsAreOwn /\ NoncesAreContiguous
  BY DEF ListenerHasEntry, ClosedIsOwn, NotificationsAreOwn, NoncesAreContiguous
<1> QED
  BY <1>1, <1>2, <1>3, <1>4 DEF IInv

\* The steps of a request that only move it on or answer it with an error.
LEMMA MoveOnIInv ==
    ASSUME IInv, NEW r \in Requests,
           Receive(r) \/ ResolveSigner(r) \/ GetSigningAccountFails(r)
             \/ PrepareFails(r) \/ CreateSubscriptionFails(r)
             \/ UpdateSubscriptionFails(r)
    PROVE  IInv'
<1> USE DEF Reject, Receive, ResolveSigner, GetSigningAccountFails, PrepareFails,
            CreateSubscriptionFails, UpdateSubscriptionFails,
            storeVars, sdkVars, handlerVars, notifyVars
<1>0. /\ UNCHANGED <<storeVars, sdkVars, handlerVars, notifyVars>>
      /\ \A q \in Requests : reply'[q] = reply[q] \/
             (reply[q].kind # "notification" /\ reply'[q].kind # "notification")
  BY DEF IInv, TypeOK, AnsweredIsSubscribed, ErrorReply
<1>1. TypeOK'
  BY DEF IInv, TypeOK, PcStates, Replies
<1>2. IdsAreFresh'
  BY DEF IInv, TypeOK, IdsAreFresh
<1>3. NumbersAgree' /\ EventWasHandled' /\ HandledWasReached'
  BY <1>0 DEF IInv, NumbersAgree, EventWasHandled, HandledWasReached, TerminalEventStored
<1>4. NothingBeforeReply' /\ AnsweredIsSubscribed' /\ NoncesAreContiguous'
  BY <1>0 DEF IInv, TypeOK, NothingBeforeReply, AnsweredIsSubscribed, NoncesAreContiguous
<1>5. ListenerHasEntry' /\ ClosedIsOwn' /\ NotificationsAreOwn'
  BY <1>0 DEF IInv, ListenerHasEntry, ClosedIsOwn, NotificationsAreOwn, Entry,
              TerminalEventStored
<1> QED
  BY <1>1, <1>2, <1>3, <1>4, <1>5 DEF IInv

\* addListener gives the request a number that nothing carries yet.
LEMMA AddListenerIInv ==
    ASSUME IInv, NEW r \in Requests, PrepareAndAddListener(r)
    PROVE  IInv'
<1> DEFINE new == [id |-> currentId + 1, tx |-> r]
<1>1. /\ id[r] = 0 /\ reply[r].kind # "notification"
      /\ sub[r].status = "None" /\ found[r] = {}
      /\ r \notin running /\ inbox[r] = {}
      /\ \A s \in Statuses : handler[r][s] = "none"
      /\ \A e \in events : e.tx # r
  BY DEF PrepareAndAddListener, IInv, IdsAreFresh, AnsweredIsSubscribed,
         NumbersAgree, NothingBeforeReply
<1>2. \A e \in transactionStore : e.tx # r /\ e.id # currentId + 1
  BY <1>1 DEF IInv, TypeOK, Entries, NumbersAgree, IdsAreFresh
<1>3. /\ currentId' = currentId + 1
      /\ id' = [id EXCEPT ![r] = currentId + 1]
      /\ transactionStore' = transactionStore \cup {new}
      /\ listening' = listening \cup {r}
      /\ pc' = [pc EXCEPT ![r] = "creatingSub"]
      /\ UNCHANGED <<reply, sdkVars, handlerVars, notifyVars>>
  BY <1>2 DEF PrepareAndAddListener, NextId, StoreSet
<1> HIDE DEF new
<1>4. new \in Entries /\ new.id = currentId + 1 /\ new.tx = r
  BY DEF new, Entries, IInv, TypeOK
<1>5. TypeOK'
  BY <1>3, <1>4 DEF IInv, TypeOK, PcStates, sdkVars, handlerVars, notifyVars
<1>6. IdsAreFresh'
  BY <1>1, <1>3 DEF IInv, TypeOK, IdsAreFresh
<1>7. NumbersAgree'
  BY <1>1, <1>2, <1>3, <1>4 DEF IInv, TypeOK, NumbersAgree, Entries, Events,
     notifyVars
<1>8. NothingBeforeReply' /\ AnsweredIsSubscribed' /\ NoncesAreContiguous'
  BY <1>1, <1>3 DEF IInv, TypeOK, NothingBeforeReply, AnsweredIsSubscribed,
     NoncesAreContiguous, sdkVars, handlerVars, notifyVars
<1>9. \A q \in Requests \ {r} : TerminalEventStored(q)' = TerminalEventStored(q)
  BY <1>3 DEF IInv, TypeOK, TerminalEventStored, sdkVars, notifyVars
<1>10. HandledWasReached' /\ EventWasHandled'
  BY <1>1, <1>3, <1>9 DEF IInv, TypeOK, HandledWasReached, EventWasHandled,
     sdkVars, handlerVars, notifyVars
<1>11. \A q \in Requests \ {r} :
          Entry(q)' = Entry(q) /\ (Entry(q) \in transactionStore'
                                     <=> Entry(q) \in transactionStore)
  BY <1>3, <1>4 DEF IInv, TypeOK, Entry
<1>12. Entry(r)' \in transactionStore'
  BY <1>3 DEF IInv, TypeOK, Entry, new
<1>13. ListenerHasEntry'
  BY <1>3, <1>9, <1>11, <1>12 DEF IInv, TypeOK, ListenerHasEntry, sdkVars,
     handlerVars
<1>14. ClosedIsOwn' /\ NotificationsAreOwn'
  BY <1>1, <1>3, <1>9 DEF IInv, TypeOK, ClosedIsOwn, NotificationsAreOwn,
     handlerVars, notifyVars
<1> QED
  BY <1>5, <1>6, <1>7, <1>8, <1>10, <1>13, <1>14 DEF IInv

\* The subscription is created for the request's own number.
LEMMA CreateSubscriptionIInv ==
    ASSUME IInv, NEW r \in Requests, CreateSubscription(r)
    PROVE  IInv'
<1>1. /\ id[r] # 0 /\ reply[r].kind # "notification" /\ found[r] = {}
      /\ inbox[r] = {} /\ txStatus[r] = "Idle"
  BY DEF CreateSubscription, IInv, IdsAreFresh, AnsweredIsSubscribed,
         NothingBeforeReply
<1>2. /\ sub'[r] = [status |-> "Inactive", scope |-> id[r], nextNonce |-> 0,
                    expired |-> FALSE]
      /\ \A q \in Requests \ {r} : sub'[q] = sub[q]
      /\ sub' \in [Requests -> Subs]
  BY DEF CreateSubscription, NoSub, IInv, TypeOK, Subs, SubStatuses
<1>3. /\ pc' = [pc EXCEPT ![r] = "updatingSub"]
      /\ UNCHANGED <<reply, storeVars, sdkVars, handlerVars, events, inbox>>
  BY DEF CreateSubscription
<1> USE DEF storeVars, sdkVars, handlerVars
<1>4. TypeOK'
  BY <1>2, <1>3 DEF IInv, TypeOK, PcStates
<1>5. IdsAreFresh' /\ NumbersAgree'
  BY <1>1, <1>2, <1>3 DEF IInv, TypeOK, IdsAreFresh, NumbersAgree,
     CreateSubscription
<1>6. /\ NothingBeforeReply'
      /\ AnsweredIsSubscribed'
      /\ NoncesAreContiguous'
  <2>1. NothingBeforeReply'
    BY <1>3 DEF IInv, NothingBeforeReply
  <2>2. AnsweredIsSubscribed'
    BY <1>1, <1>2, <1>3 DEF IInv, TypeOK, AnsweredIsSubscribed
  <2>3. NoncesAreContiguous'
    BY <1>1, <1>2, <1>3 DEF IInv, NoncesAreContiguous
  <2> QED
    BY <2>1, <2>2, <2>3
<1>7. \A q \in Requests : TerminalEventStored(q)' = TerminalEventStored(q)
  BY <1>3 DEF TerminalEventStored
<1>8. HandledWasReached' /\ EventWasHandled' /\ ListenerHasEntry'
  BY <1>3, <1>7 DEF IInv, HandledWasReached, EventWasHandled, ListenerHasEntry,
     Entry
<1>9. ClosedIsOwn' /\ NotificationsAreOwn'
  BY <1>1, <1>2, <1>3, <1>7 DEF IInv, ClosedIsOwn, NotificationsAreOwn
<1> QED
  BY <1>4, <1>5, <1>6, <1>8, <1>9 DEF IInv

\* The webhook's handshake and expiry leave the numbers of its subscription.
LEMMA WebhookIInv ==
    ASSUME IInv, NEW r \in Requests, WebhookStep(r)
    PROVE  IInv'
<1>1. /\ sub[r].status # "None"
      /\ sub'[r].status \in {"Inactive", "Active", "Rejected"}
      /\ sub'[r].scope = sub[r].scope
      /\ sub'[r].nextNonce = sub[r].nextNonce
      /\ \A q \in Requests \ {r} : sub'[q] = sub[q]
      /\ sub' \in [Requests -> Subs]
  <2> USE DEF IInv, TypeOK, Subs, SubStatuses
  <2>1. CASE Handshake(r)
    BY <2>1 DEF Handshake, SetSubStatus
  <2>2. CASE HandshakeFails(r)
    BY <2>2 DEF HandshakeFails, SetSubStatus
  <2>3. CASE Expire(r)
    <3>1. sub' = [sub EXCEPT ![r].expired = TRUE]
      BY <2>3 DEF Expire
    <3>2. sub[r].status \in {"Inactive", "Active"}
      BY <2>3 DEF Expire
    <3>3. sub[r] \in Subs
      OBVIOUS
    <3>4. [sub[r] EXCEPT !.expired = TRUE] \in Subs
      BY <3>3
    <3> QED
      BY <3>1, <3>2, <3>3, <3>4
  <2> QED
    BY <2>1, <2>2, <2>3 DEF WebhookStep
<1>2. UNCHANGED <<requestVars, storeVars, sdkVars, handlerVars, events, inbox>>
  BY DEF WebhookStep, Handshake, HandshakeFails, SetSubStatus, Expire
<1> USE <1>2 DEF requestVars, storeVars, sdkVars, handlerVars
<1>3. TypeOK' /\ IdsAreFresh' /\ NothingBeforeReply'
  BY <1>1 DEF IInv, TypeOK, IdsAreFresh, NothingBeforeReply
<1>4. NumbersAgree' /\ AnsweredIsSubscribed' /\ NoncesAreContiguous'
  BY <1>1 DEF IInv, NumbersAgree, AnsweredIsSubscribed, NoncesAreContiguous
<1>5. \A q \in Requests : TerminalEventStored(q)' = TerminalEventStored(q)
  BY DEF TerminalEventStored
<1>6. HandledWasReached' /\ EventWasHandled' /\ ListenerHasEntry'
  BY <1>5 DEF IInv, HandledWasReached, EventWasHandled, ListenerHasEntry, Entry
<1>7. ClosedIsOwn' /\ NotificationsAreOwn'
  BY <1>1, <1>5 DEF IInv, ClosedIsOwn, NotificationsAreOwn
<1> QED
  BY <1>3, <1>4, <1>6, <1>7 DEF IInv

-----------------------------------------------------------------------------
\* A status that follows another is new, and nothing follows a terminal one.
LEMMA NextStatusesFacts ==
    ASSUME NEW t \in Statuses, NEW s \in NextStatuses(t)
    PROVE  /\ s \in Statuses
           /\ s # "Idle" /\ s # t
           /\ t \notin TerminalStatuses
           /\ s = "Unapproved" => t = "Idle"
           /\ s = "Running" => t = "Unapproved"
           /\ s \in TerminalStatuses \cup {"Running"} => t # "Idle"
  BY DEF NextStatuses, Statuses, TerminalStatuses

\* A request with a number shares it with no entry and no subscription but
\* its own.
LEMMA OwnNumber ==
    ASSUME IInv, NEW r \in Requests, id[r] # 0
    PROVE  /\ TxData(id[r]) = {Entry(r)} \cap transactionStore
           /\ \A status \in SubStatuses \ {"None"} : SubsIn(id[r], status) \subseteq {r}
<1>1. \A e \in transactionStore : e.id = id[r] => e = Entry(r)
  BY DEF IInv, TypeOK, Entries, Entry, NumbersAgree, IdsAreFresh
<1>2. TxData(id[r]) = {Entry(r)} \cap transactionStore
  BY <1>1 DEF TxData, Entry
<1>3. \A q \in Requests : sub[q].scope = id[r] /\ sub[q].status # "None" => q = r
  BY DEF IInv, TypeOK, NumbersAgree, IdsAreFresh
<1> QED
  BY <1>2, <1>3 DEF SubsIn

\* What holds of a request whose handler has something to do.
LEMMA HandledIsAnswered ==
    ASSUME IInv, NEW r \in Requests, NEW s \in Statuses, handler[r][s] # "none"
    PROVE  /\ reply[r].kind = "notification"
           /\ id[r] # 0
           /\ sub[r].status # "None"
           /\ sub[r].nextNonce >= 1
           /\ s \in TerminalStatuses => txStatus[r] = s
  BY DEF IInv, NothingBeforeReply, AnsweredIsSubscribed, HandledWasReached

-----------------------------------------------------------------------------
\* Starting the transaction and answering.
LEMMA UpdateSubscriptionAndRunIInv ==
    ASSUME IInv, NEW r \in Requests, UpdateSubscriptionAndRun(r)
    PROVE  IInv'
<1>1. /\ id[r] # 0 /\ reply[r].kind # "notification" /\ found[r] = {}
      /\ inbox[r] = {} /\ txStatus[r] = "Idle" /\ sub[r].status # "None"
      /\ \A s \in Statuses : handler[r][s] = "none"
      /\ \A e \in events : e.tx # r
  BY DEF UpdateSubscriptionAndRun, IInv, IdsAreFresh, AnsweredIsSubscribed,
         NothingBeforeReply
<1>2. /\ sub'[r].status = sub[r].status
      /\ sub'[r].scope = sub[r].scope
      /\ sub'[r].nextNonce = 1
      /\ \A q \in Requests \ {r} : sub'[q] = sub[q]
      /\ sub' \in [Requests -> Subs]
  <2>1. sub' = [sub EXCEPT ![r] = [sub[r] EXCEPT !.nextNonce = 1]]
    BY DEF UpdateSubscriptionAndRun, InitialNonce
  <2>2. sub[r] \in Subs
    BY DEF IInv, TypeOK
  <2>3. [sub[r] EXCEPT !.nextNonce = 1] \in Subs
    BY <2>2 DEF Subs
  <2> QED
    BY <2>1, <2>2, <2>3 DEF IInv, TypeOK, Subs
<1>3. /\ txStatus' \in [Requests -> Statuses]
      /\ handler' \in [Requests -> [Statuses -> Stages]]
      /\ txStatus'[r] \in {"Idle", "Unapproved"}
      /\ handler'[r]["Idle"] = "none"
      /\ handler'[r]["Unapproved"] # "none" => txStatus'[r] = "Unapproved"
      /\ \A s \in Statuses \ {"Unapproved"} : handler'[r][s] = "none"
      /\ handler'[r]["Unapproved"] \in {"none", "creating"}
      /\ \A q \in Requests \ {r} : txStatus'[q] = txStatus[q] /\ handler'[q] = handler[q]
  <2>1. CASE UNCHANGED <<txStatus, handler>>
    BY <1>1, <2>1 DEF IInv, TypeOK, Stages, Statuses
  <2>2. CASE /\ txStatus' = [txStatus EXCEPT ![r] = "Unapproved"]
             /\ handler' = [handler EXCEPT ![r]["Unapproved"] = "creating"]
    <3>1. "Unapproved" \in Statuses /\ "Idle" \in Statuses
          /\ "creating" \in Stages
      BY DEF Statuses, Stages
    <3>2. txStatus \in [Requests -> Statuses]
          /\ handler \in [Requests -> [Statuses -> Stages]]
      BY DEF IInv, TypeOK
    <3>3. /\ handler' \in [Requests -> [Statuses -> Stages]]
          /\ handler'[r]["Unapproved"] = "creating"
          /\ \A s \in Statuses \ {"Unapproved"} : handler'[r][s] = handler[r][s]
          /\ \A q \in Requests \ {r} : handler'[q] = handler[q]
      BY <2>2, <3>1, <3>2
    <3> QED
      BY <1>1, <2>2, <3>1, <3>2, <3>3
  <2> QED
    BY <2>1, <2>2 DEF UpdateSubscriptionAndRun
<1>4. /\ reply'[r].kind = "notification"
      /\ reply' \in [Requests -> Replies]
      /\ \A q \in Requests \ {r} : reply'[q] = reply[q]
      /\ pc' = [pc EXCEPT ![r] = "responded"]
      /\ running' = running \cup {r}
      /\ UNCHANGED <<storeVars, found, events, inbox>>
  <2>1. Notified(Payload(txStatus'[r])) \in Replies
    BY <1>3 DEF Replies, Payloads
  <2> QED
    BY <2>1 DEF UpdateSubscriptionAndRun, AnswerInitial, IInv, TypeOK, Notified
<1> USE <1>4 DEF storeVars
<1>5. TypeOK'
  BY <1>2, <1>3 DEF IInv, TypeOK, PcStates
<1>6. IdsAreFresh' /\ NumbersAgree'
  BY <1>1, <1>2 DEF IInv, TypeOK, IdsAreFresh, NumbersAgree
<1>7. NothingBeforeReply' /\ AnsweredIsSubscribed'
  BY <1>1, <1>2, <1>3 DEF IInv, TypeOK, NothingBeforeReply, AnsweredIsSubscribed
<1>8. NoncesAreContiguous'
  BY <1>1, <1>2 DEF IInv, NoncesAreContiguous
<1>9. /\ \A q \in Requests \ {r} : TerminalEventStored(q)' = TerminalEventStored(q)
      /\ ~TerminalEventStored(r) /\ ~TerminalEventStored(r)'
  BY <1>1, <1>3 DEF TerminalEventStored, TerminalStatuses
<1>10. HandledWasReached'
  <2>1. \A q \in running' : txStatus'[q] \notin TerminalStatuses
    BY <1>3 DEF IInv, TypeOK, HandledWasReached, TerminalStatuses
  <2>2. /\ handler'[r]["Running"] = "none"
        /\ \A t \in TerminalStatuses : handler'[r][t] = "none"
        /\ \A t \in Statuses : handler'[r][t] \notin {"finding", "marking"}
    BY <1>3 DEF Statuses, TerminalStatuses
  <2> QED
    BY <1>3, <1>9, <2>1, <2>2 DEF IInv, HandledWasReached
<1>11. EventWasHandled'
  BY <1>1, <1>3 DEF IInv, TypeOK, Events, EventWasHandled
<1>12. ListenerHasEntry' /\ ClosedIsOwn' /\ NotificationsAreOwn'
  <2>1. ListenerHasEntry'
    BY <1>1, <1>3, <1>9 DEF IInv, ListenerHasEntry, Entry
  <2>2. ClosedIsOwn'
    BY <1>1, <1>2, <1>9 DEF IInv, ClosedIsOwn
  <2>3. NotificationsAreOwn'
    BY DEF IInv, NotificationsAreOwn
  <2> QED
    BY <2>1, <2>2, <2>3
<1> QED
  BY <1>5, <1>6, <1>7, <1>8, <1>10, <1>11, <1>12 DEF IInv

\* A transaction in flight is answered, not terminal, and still watched.
LEMMA RunningFacts ==
    ASSUME IInv, NEW r \in running
    PROVE  /\ r \in Requests
           /\ reply[r].kind = "notification"
           /\ id[r] # 0
           /\ txStatus[r] \in Statuses \ TerminalStatuses
           /\ r \in listening
           /\ Entry(r) \in transactionStore
           /\ ~TerminalEventStored(r)
<1>1. /\ r \in Requests /\ reply[r].kind = "notification"
      /\ txStatus[r] \in Statuses \ TerminalStatuses
  BY DEF IInv, TypeOK, NothingBeforeReply, HandledWasReached
<1>2. id[r] # 0 /\ ~TerminalEventStored(r)
  BY <1>1 DEF IInv, AnsweredIsSubscribed, TerminalEventStored
<1> QED
  BY <1>1, <1>2 DEF IInv, ListenerHasEntry

\* A status change starts the one handler of that status.
LEMMA StatusChangeIInv ==
    ASSUME IInv, NEW r \in Requests, NEW s \in Statuses, StatusChange(r, s)
    PROVE  IInv'
<1>1. /\ reply[r].kind = "notification" /\ id[r] # 0
      /\ txStatus[r] \in Statuses /\ r \in listening
      /\ ~TerminalEventStored(r)
      /\ s \in NextStatuses(txStatus[r])
  BY RunningFacts DEF StatusChange
<1>2. /\ s # "Idle" /\ s # txStatus[r] /\ txStatus[r] \notin TerminalStatuses
      /\ s = "Unapproved" => txStatus[r] = "Idle"
      /\ s = "Running" => txStatus[r] = "Unapproved"
      /\ s \in TerminalStatuses \cup {"Running"} => txStatus[r] # "Idle"
  BY <1>1, NextStatusesFacts
<1>3. handler[r][s] = "none" /\ found[r] = {}
      /\ \A t \in TerminalStatuses : handler[r][t] = "none"
  BY <1>1, <1>2 DEF IInv, HandledWasReached, ClosedIsOwn, Statuses,
     TerminalStatuses
<1>4. /\ txStatus' = [txStatus EXCEPT ![r] = s]
      /\ handler' = [handler EXCEPT ![r][s] = "creating"]
      /\ running' \subseteq running
      /\ s \in TerminalStatuses => r \notin running'
      /\ UNCHANGED <<requestVars, storeVars, found, notifyVars>>
  BY <1>1 DEF StatusChange
<1> USE <1>4 DEF requestVars, storeVars, notifyVars
<1>5. TypeOK'
  BY DEF IInv, TypeOK, Stages
<1>6. /\ IdsAreFresh' /\ NumbersAgree' /\ AnsweredIsSubscribed'
      /\ NotificationsAreOwn' /\ NoncesAreContiguous'
  BY DEF IInv, IdsAreFresh, NumbersAgree, AnsweredIsSubscribed,
         NotificationsAreOwn, NoncesAreContiguous
<1>7. NothingBeforeReply'
  BY <1>1 DEF IInv, TypeOK, NothingBeforeReply
<1>8. /\ \A q \in Requests \ {r} : TerminalEventStored(q)' = TerminalEventStored(q)
      /\ \A e \in events : ~(e.tx = r /\ e.status = s)
      /\ \A e \in events : e.tx = r => e.status \notin TerminalStatuses
  BY <1>1, <1>2, <1>3 DEF IInv, TypeOK, TerminalEventStored, EventWasHandled
<1>9. HandledWasReached'
  <2>1. \A q \in running' : txStatus'[q] \notin TerminalStatuses
    BY DEF IInv, TypeOK, HandledWasReached
  <2>2. \A q \in Requests \ {r} :
           txStatus'[q] = txStatus[q] /\ handler'[q] = handler[q]
    BY DEF IInv, TypeOK
  <2>3. /\ txStatus'[r] = s
        /\ handler'[r][s] = "creating"
        /\ \A t \in Statuses \ {s} : handler'[r][t] = handler[r][t]
    BY DEF IInv, TypeOK
  <2>4. /\ handler'[r]["Idle"] = "none"
        /\ handler'[r]["Unapproved"] # "none" => s # "Idle"
        /\ handler'[r]["Running"] # "none" => s \notin {"Idle", "Unapproved"}
        /\ \A t \in TerminalStatuses : handler'[r][t] # "none" => s = t
        /\ \A t \in Statuses : handler'[r][t] \notin {"finding", "marking"}
    BY <1>1, <1>2, <1>3, <2>3 DEF IInv, HandledWasReached, Statuses,
       TerminalStatuses
  <2> QED
    BY <1>8, <2>1, <2>2, <2>3, <2>4 DEF IInv, HandledWasReached
<1>10. EventWasHandled'
  BY <1>8 DEF IInv, TypeOK, Events, EventWasHandled
<1>11. ListenerHasEntry' /\ ClosedIsOwn'
  BY <1>1, <1>3, <1>8 DEF IInv, TypeOK, ListenerHasEntry, ClosedIsOwn, Entry
<1> QED
  BY <1>5, <1>6, <1>7, <1>9, <1>10, <1>11 DEF IInv

\* A rejected run and a stuttering step leave every other variable alone.
LEMMA RunFailsIInv ==
    ASSUME IInv, UNCHANGED vars \/ \E r \in Requests : RunFails(r)
    PROVE  IInv'
<1>1. /\ running' \subseteq running
      /\ UNCHANGED <<requestVars, storeVars, txStatus, handlerVars, notifyVars>>
  BY DEF vars, sdkVars, RunFails
<1> USE <1>1 DEF requestVars, storeVars, handlerVars, notifyVars
<1>2. /\ TypeOK' /\ IdsAreFresh' /\ NumbersAgree' /\ AnsweredIsSubscribed'
      /\ NotificationsAreOwn' /\ NoncesAreContiguous'
  BY DEF IInv, TypeOK, IdsAreFresh, NumbersAgree, AnsweredIsSubscribed,
         NotificationsAreOwn, NoncesAreContiguous
<1>3. NothingBeforeReply' /\ HandledWasReached' /\ EventWasHandled'
  BY DEF IInv, NothingBeforeReply, HandledWasReached, EventWasHandled,
         TerminalEventStored
<1>4. ListenerHasEntry' /\ ClosedIsOwn'
  BY DEF IInv, ListenerHasEntry, ClosedIsOwn, Entry, TerminalEventStored
<1> QED
  BY <1>2, <1>3, <1>4 DEF IInv

-----------------------------------------------------------------------------
\* A stored event notifies the request's own subscription, or nobody.
LEMMA RecordEventFacts ==
    ASSUME IInv, NEW r \in Requests, NEW s \in Statuses,
           handler[r][s] = "creating", RecordEvent(r, s)
    PROVE  /\ events' = events \cup {[scope |-> id[r], tx |-> r, status |-> s]}
           /\ sub' \in [Requests -> Subs]
           /\ inbox' \in [Requests -> SUBSET Notifications]
           /\ \A q \in Requests \ {r} : sub'[q] = sub[q] /\ inbox'[q] = inbox[q]
           /\ sub'[r].status = sub[r].status
           /\ sub'[r].scope = sub[r].scope
           /\ \/ /\ sub'[r].nextNonce = sub[r].nextNonce
                 /\ inbox'[r] = inbox[r]
              \/ /\ sub'[r].nextNonce = sub[r].nextNonce + 1
                 /\ inbox'[r] = inbox[r] \cup
                       {[nonce |-> sub[r].nextNonce, tx |-> r,
                         payload |-> Payload(s)]}
<1>1. ActiveSubs(id[r]) \subseteq {r}
  BY OwnNumber, HandledIsAnswered DEF ActiveSubs, SubStatuses
<1>2. sub[r] \in Subs /\ sub[r].nextNonce \in Nat /\ inbox[r] \subseteq Notifications
  BY DEF IInv, TypeOK, Subs
<1>3. /\ [sub[r] EXCEPT !.nextNonce = @ + 1] \in Subs
      /\ [sub[r] EXCEPT !.nextNonce = @ + 1].nextNonce = sub[r].nextNonce + 1
      /\ [sub[r] EXCEPT !.nextNonce = @ + 1].status = sub[r].status
      /\ [sub[r] EXCEPT !.nextNonce = @ + 1].scope = sub[r].scope
  BY <1>2 DEF Subs
<1>4. [nonce |-> sub[r].nextNonce, tx |-> r, payload |-> Payload(s)] \in Notifications
  BY <1>2 DEF Notifications, Payloads
<1>5. /\ \A q \in Requests \ {r} : sub'[q] = sub[q] /\ inbox'[q] = inbox[q]
      /\ IF r \in ActiveSubs(id[r])
         THEN /\ sub'[r] = [sub[r] EXCEPT !.nextNonce = @ + 1]
              /\ inbox'[r] = inbox[r] \cup
                    {[nonce |-> sub[r].nextNonce, tx |-> r, payload |-> Payload(s)]}
         ELSE sub'[r] = sub[r] /\ inbox'[r] = inbox[r]
  BY <1>1 DEF RecordEvent, Reported
<1>6. sub' \in [Requests -> Subs] /\ inbox' \in [Requests -> SUBSET Notifications]
  <2>1. DOMAIN sub' = Requests /\ DOMAIN inbox' = Requests
        /\ sub' = [q \in Requests |-> sub'[q]]
        /\ inbox' = [q \in Requests |-> inbox'[q]]
    BY DEF RecordEvent
  <2>2. \A q \in Requests : sub'[q] \in Subs /\ inbox'[q] \subseteq Notifications
    BY <1>2, <1>3, <1>4, <1>5 DEF IInv, TypeOK
  <2> QED
    BY <2>1, <2>2
<1>7. events' = events \cup {[scope |-> id[r], tx |-> r, status |-> s]}
  BY DEF RecordEvent
<1> QED
  BY <1>3, <1>5, <1>6, <1>7

\* The two handlers of a stored event differ in what the terminal one drops.
LEMMA StoredIInv ==
    ASSUME IInv, NEW r \in Requests, NEW s \in Statuses,
           handler[r][s] = "creating", RecordEvent(r, s),
           NEW stage \in {"done", "finding"},
           stage = "finding" <=> s \in TerminalStatuses,
           handler' = [handler EXCEPT ![r][s] = stage],
           transactionStore' = IF stage = "finding"
                               THEN transactionStore \ {Entry(r)}
                               ELSE transactionStore,
           listening' = IF stage = "finding" THEN listening \ {r} ELSE listening,
           UNCHANGED <<requestVars, currentId, id, sdkVars, found>>
    PROVE  IInv'
<1> DEFINE event == [scope |-> id[r], tx |-> r, status |-> s]
<1>1. /\ reply[r].kind = "notification" /\ id[r] # 0
      /\ sub[r].status # "None" /\ sub[r].nextNonce >= 1
      /\ s \in TerminalStatuses => txStatus[r] = s
  BY HandledIsAnswered
<1>2. /\ events' = events \cup {event}
      /\ sub' \in [Requests -> Subs]
      /\ inbox' \in [Requests -> SUBSET Notifications]
      /\ \A q \in Requests \ {r} : sub'[q] = sub[q] /\ inbox'[q] = inbox[q]
      /\ sub'[r].status = sub[r].status
      /\ sub'[r].scope = sub[r].scope
      /\ \/ /\ sub'[r].nextNonce = sub[r].nextNonce
            /\ inbox'[r] = inbox[r]
         \/ /\ sub'[r].nextNonce = sub[r].nextNonce + 1
            /\ inbox'[r] = inbox[r] \cup
                  {[nonce |-> sub[r].nextNonce, tx |-> r,
                    payload |-> Payload(s)]}
  BY RecordEventFacts
<1>3. event \in Events /\ event.tx = r /\ event.status = s /\ event.scope = id[r]
  BY DEF Events, IInv, TypeOK
<1> HIDE DEF event
<1>4. /\ handler' \in [Requests -> [Statuses -> Stages]]
      /\ handler'[r][s] = stage
      /\ \A t \in Statuses \ {s} : handler'[r][t] = handler[r][t]
      /\ \A q \in Requests \ {r} : handler'[q] = handler[q]
  BY DEF IInv, TypeOK, Stages
<1>5. /\ UNCHANGED <<pc, reply, currentId, id, txStatus, running, found>>
      /\ transactionStore' \subseteq transactionStore
      /\ listening' \subseteq listening
      /\ sub[r].nextNonce \in Nat
      /\ sub'[r].nextNonce >= 1
  BY <1>1, <1>2 DEF requestVars, sdkVars, IInv, TypeOK, Subs
<1>6. TypeOK'
  BY <1>2, <1>3, <1>4, <1>5 DEF IInv, TypeOK
<1>7. IdsAreFresh' /\ AnsweredIsSubscribed'
  BY <1>1, <1>2, <1>5 DEF IInv, TypeOK, IdsAreFresh, AnsweredIsSubscribed
<1>8. NumbersAgree'
  BY <1>1, <1>2, <1>3, <1>5 DEF IInv, NumbersAgree
<1>9. NothingBeforeReply'
  BY <1>1, <1>2, <1>3, <1>4, <1>5 DEF IInv, NothingBeforeReply
<1>10. /\ \A q \in Requests : TerminalEventStored(q) => TerminalEventStored(q)'
       /\ stage = "finding" => TerminalEventStored(r)'
  BY <1>1, <1>2, <1>5 DEF TerminalEventStored, event
<1>11. HandledWasReached'
  <2>1. /\ \A q \in running' : txStatus'[q] \notin TerminalStatuses
        /\ "Idle" \in Statuses /\ "Unapproved" \in Statuses /\ "Running" \in Statuses
        /\ TerminalStatuses \subseteq Statuses
    BY <1>5 DEF IInv, HandledWasReached, Statuses, TerminalStatuses
  <2>2. \A t \in Statuses : handler'[r][t] = "none" <=> handler[r][t] = "none"
    BY <1>4
  <2>3. \A t \in Statuses : handler'[r][t] \in {"finding", "marking"} =>
           t \in TerminalStatuses /\ TerminalEventStored(r)'
    BY <1>4, <1>10 DEF IInv, HandledWasReached
  <2> QED
    BY <1>4, <1>5, <1>10, <2>1, <2>2, <2>3 DEF IInv, HandledWasReached
<1>12. EventWasHandled'
  BY <1>1, <1>2, <1>3, <1>4, <1>5 DEF IInv, TypeOK, Events, EventWasHandled
<1>13. ListenerHasEntry'
  <2>1. \A q \in Requests : Entry(q)' = Entry(q)
        /\ (Entry(q) = Entry(r) => q = r)
    BY <1>5 DEF Entry
  <2>2. \A q \in Requests \ {r} :
           /\ q \in listening' <=> q \in listening
           /\ Entry(q) \in transactionStore' <=> Entry(q) \in transactionStore
    BY <2>1
  <2>3. /\ r \in listening' <=> Entry(r) \in transactionStore'
        /\ Entry(r) \notin transactionStore' =>
              \/ Entry(r) \notin transactionStore
              \/ stage = "finding"
    BY DEF IInv, ListenerHasEntry
  <2>4. stage = "finding" => handler'[r][txStatus'[r]] = "finding"
    BY <1>1, <1>4, <1>5
  <2>5. handler[r][txStatus[r]] \notin {"none", "creating"} =>
           handler'[r][txStatus'[r]] \notin {"none", "creating"}
    BY <1>4, <1>5 DEF IInv, TypeOK
  <2> QED
    BY <1>4, <1>5, <1>10, <2>1, <2>2, <2>3, <2>4, <2>5 DEF IInv, ListenerHasEntry
<1>14. ClosedIsOwn' /\ NotificationsAreOwn'
  BY <1>2, <1>5, <1>10 DEF IInv, ClosedIsOwn, NotificationsAreOwn
<1>15. NoncesAreContiguous'
  <2>1. \A q \in Requests \ {r} :
           /\ reply'[q].kind = "notification" =>
                 {n.nonce : n \in inbox'[q]} = 1 .. (sub'[q].nextNonce - 1)
           /\ \A m, n \in inbox'[q] : m.nonce = n.nonce => m = n
    BY <1>2, <1>5 DEF IInv, NoncesAreContiguous
  <2>2. /\ {n.nonce : n \in inbox[r]} = 1 .. (sub[r].nextNonce - 1)
        /\ \A m, n \in inbox[r] : m.nonce = n.nonce => m = n
    BY <1>1 DEF IInv, NoncesAreContiguous
  <2>3. CASE sub'[r].nextNonce = sub[r].nextNonce /\ inbox'[r] = inbox[r]
    BY <2>1, <2>2, <2>3 DEF NoncesAreContiguous
  <2>4. CASE /\ sub'[r].nextNonce = sub[r].nextNonce + 1
             /\ inbox'[r] = inbox[r] \cup
                   {[nonce |-> sub[r].nextNonce, tx |-> r, payload |-> Payload(s)]}
    <3>1. {n.nonce : n \in inbox'[r]} =
             {n.nonce : n \in inbox[r]} \cup {sub[r].nextNonce}
      <4> DEFINE new == [nonce |-> sub[r].nextNonce, tx |-> r, payload |-> Payload(s)]
      <4>1. inbox'[r] = inbox[r] \cup {new} /\ new.nonce = sub[r].nextNonce
        BY <2>4
      <4> HIDE DEF new
      <4> QED
        BY <4>1
    <3>2. 1 .. sub[r].nextNonce = (1 .. (sub[r].nextNonce - 1)) \cup {sub[r].nextNonce}
      BY <1>1, <1>5
    <3>3. {n.nonce : n \in inbox'[r]} = 1 .. (sub'[r].nextNonce - 1)
      BY <1>5, <2>2, <2>4, <3>1, <3>2
    <3>4. \A n \in inbox[r] : n.nonce \in 1 .. (sub[r].nextNonce - 1)
      BY <2>2
    <3>5. \A n \in inbox[r] : n.nonce # sub[r].nextNonce
      BY <1>5, <3>4
    <3>6. \A m, n \in inbox'[r] : m.nonce = n.nonce => m = n
      BY <2>2, <2>4, <3>5
    <3> QED
      BY <2>1, <3>3, <3>6 DEF NoncesAreContiguous
  <2> QED
    BY <1>2, <2>3, <2>4
<1> QED
  BY <1>6, <1>7, <1>8, <1>9, <1>11, <1>12, <1>13, <1>14, <1>15 DEF IInv

\* createEvent resolves, for a status that is not terminal or one that is.
LEMMA CreateEventIInv ==
    ASSUME IInv, NEW r \in Requests, NEW s \in Statuses,
           CreateEvent(r, s) \/ CreateTerminalEvent(r, s)
    PROVE  IInv'
<1>1. handler[r][s] = "creating" /\ RecordEvent(r, s)
  BY DEF CreateEvent, CreateTerminalEvent
<1>2. CASE CreateEvent(r, s)
  <2>1. "done" = "finding" <=> s \in TerminalStatuses
    BY <1>2 DEF CreateEvent, CleansUp
  <2>2. /\ handler' = [handler EXCEPT ![r][s] = "done"]
        /\ UNCHANGED <<requestVars, storeVars, sdkVars, found>>
    BY <1>2 DEF CreateEvent
  <2> QED
    BY <1>1, <2>1, <2>2, StoredIInv DEF storeVars
<1>3. CASE CreateTerminalEvent(r, s)
  <2>1. s \in TerminalStatuses /\ txStatus[r] = s /\ id[r] # 0
    BY <1>1, <1>3, HandledIsAnswered DEF CreateTerminalEvent, CleansUp
  <2>2. Entry(r) \in transactionStore
    BY <1>1, <2>1 DEF IInv, ListenerHasEntry
  <2>3. TxData(id[r]) = {Entry(r)}
    BY <2>1, <2>2, OwnNumber
  <2>4. /\ handler' = [handler EXCEPT ![r][s] = "finding"]
        /\ transactionStore' = transactionStore \ {Entry(r)}
        /\ listening' = listening \ {r}
        /\ UNCHANGED <<requestVars, currentId, id, sdkVars, found>>
    BY <1>3, <2>3 DEF CreateTerminalEvent, DeleteEntry, Entry
  <2> QED
    BY <1>1, <2>1, <2>4, StoredIInv
<1> QED
  BY <1>2, <1>3

-----------------------------------------------------------------------------
\* A handler that has stored its event moves on or gives up; what it has found
\* is its own subscription or nothing.
LEMMA AfterEventIInv ==
    ASSUME IInv, NEW r \in Requests, NEW s \in Statuses,
           NEW stage \in {"marking", "done", "failed"},
           handler[r][s] \in {"creating", "finding", "marking"},
           stage # "failed" => handler[r][s] # "creating",
           stage = "marking" => s \in TerminalStatuses,
           handler' = [handler EXCEPT ![r][s] = stage],
           NEW mine \in SUBSET {r},
           mine # {} => handler[r][s] \in {"finding", "marking"},
           \/ found' = found
           \/ found' = [found EXCEPT ![r] = mine],
           \A q \in Requests :
              /\ sub'[q].scope = sub[q].scope
              /\ sub'[q].nextNonce = sub[q].nextNonce
              /\ \/ sub'[q].status = sub[q].status
                 \/ q \in mine /\ sub'[q].status = "Done",
           sub' \in [Requests -> Subs],
           UNCHANGED <<requestVars, storeVars, sdkVars, events, inbox>>
    PROVE  IInv'
<1>1. /\ reply[r].kind = "notification" /\ id[r] # 0
      /\ sub[r].status # "None"
      /\ s \in TerminalStatuses => txStatus[r] = s
      /\ handler[r][s] \in {"finding", "marking"} => TerminalEventStored(r)
  BY HandledIsAnswered DEF IInv, HandledWasReached
<1>2. /\ handler' \in [Requests -> [Statuses -> Stages]]
      /\ handler'[r][s] = stage
      /\ \A t \in Statuses \ {s} : handler'[r][t] = handler[r][t]
      /\ \A q \in Requests \ {r} : handler'[q] = handler[q]
  BY DEF IInv, TypeOK, Stages
<1>3. \A q \in Requests : TerminalEventStored(q)' = TerminalEventStored(q)
  BY DEF TerminalEventStored, sdkVars, storeVars
<1> USE DEF requestVars, storeVars, sdkVars
<1>4. TypeOK'
  <2>1. found' \in [Requests -> SUBSET Requests]
    BY DEF IInv, TypeOK
  <2> QED
    BY <1>2, <2>1 DEF IInv, TypeOK
<1>5. IdsAreFresh' /\ NotificationsAreOwn' /\ NoncesAreContiguous'
  BY DEF IInv, IdsAreFresh, NotificationsAreOwn, NoncesAreContiguous
<1>6. NumbersAgree' /\ AnsweredIsSubscribed'
  BY <1>1 DEF IInv, NumbersAgree, AnsweredIsSubscribed
<1>7. NothingBeforeReply'
  BY <1>1, <1>2 DEF IInv, TypeOK, NothingBeforeReply
<1>8. HandledWasReached'
  <2>1. /\ "Idle" \in Statuses /\ "Unapproved" \in Statuses /\ "Running" \in Statuses
        /\ TerminalStatuses \subseteq Statuses
    BY DEF Statuses, TerminalStatuses
  <2>2. \A t \in Statuses : handler'[r][t] = "none" <=> handler[r][t] = "none"
    BY <1>2
  <2>3. \A t \in Statuses : handler'[r][t] \in {"finding", "marking"} =>
           t \in TerminalStatuses /\ TerminalEventStored(r)
    BY <1>1, <1>2 DEF IInv, HandledWasReached
  <2> QED
    BY <1>2, <1>3, <2>1, <2>2, <2>3 DEF IInv, HandledWasReached
<1>9. EventWasHandled'
  BY <1>2 DEF IInv, TypeOK, Events, EventWasHandled
<1>10. ListenerHasEntry'
  <2>1. \A q \in Requests : handler[q][txStatus[q]] \notin {"none", "creating"} =>
           handler'[q][txStatus'[q]] \notin {"none", "creating"}
    BY <1>2 DEF IInv, TypeOK
  <2> QED
    BY <1>3, <2>1 DEF IInv, ListenerHasEntry, Entry
<1>11. ClosedIsOwn'
  BY <1>1, <1>3 DEF IInv, TypeOK, ClosedIsOwn
<1> QED
  BY <1>4, <1>5, <1>6, <1>7, <1>8, <1>9, <1>10, <1>11 DEF IInv

\* markSubsAsDone finds the active subscription of its own request, or none.
LEMMA FindAllIInv ==
    ASSUME IInv, NEW r \in Requests, NEW s \in Statuses, FindAll(r, s)
    PROVE  IInv'
<1>1. id[r] # 0 /\ s \in TerminalStatuses
  BY HandledIsAnswered DEF FindAll, IInv, HandledWasReached
<1>2. ActiveSubs(id[r]) \subseteq {r}
  BY <1>1, OwnNumber DEF ActiveSubs, SubStatuses
<1>3. /\ found' = [found EXCEPT ![r] = ActiveSubs(id[r])]
      /\ handler' = [handler EXCEPT ![r][s] = "marking"]
      /\ handler[r][s] = "finding"
      /\ UNCHANGED <<requestVars, storeVars, sdkVars, events, sub, inbox>>
  BY DEF FindAll, ActiveFound, notifyVars
<1> QED
  BY <1>1, <1>2, <1>3, AfterEventIInv DEF IInv, TypeOK

\* markSubsAsDone closes what it has found.
LEMMA BatchMarkAsDoneIInv ==
    ASSUME IInv, NEW r \in Requests, NEW s \in Statuses, BatchMarkAsDone(r, s)
    PROVE  IInv'
<1>1. found[r] \subseteq {r} /\ handler[r][s] = "marking"
  BY DEF BatchMarkAsDone, IInv, ClosedIsOwn
<1>2. \A q \in Requests :
         /\ sub'[q] \in Subs
         /\ sub'[q].scope = sub[q].scope
         /\ sub'[q].nextNonce = sub[q].nextNonce
         /\ \/ sub'[q].status = sub[q].status
            \/ q \in found[r] /\ sub'[q].status = "Done"
  <2> SUFFICES ASSUME NEW q \in Requests
               PROVE  /\ sub'[q] \in Subs
                      /\ sub'[q].scope = sub[q].scope
                      /\ sub'[q].nextNonce = sub[q].nextNonce
                      /\ \/ sub'[q].status = sub[q].status
                         \/ q \in found[r] /\ sub'[q].status = "Done"
    OBVIOUS
  <2>1. sub[q] \in Subs
    BY DEF IInv, TypeOK
  <2>2. sub'[q] = IF q \in found[r] THEN [sub[q] EXCEPT !.status = "Done"]
                                    ELSE sub[q]
    BY DEF BatchMarkAsDone
  <2> QED
    BY <2>1, <2>2 DEF Subs, SubStatuses
<1>3. sub' \in [Requests -> Subs]
  BY <1>2 DEF BatchMarkAsDone
<1>4. /\ found' = found
      /\ handler' = [handler EXCEPT ![r][s] = "done"]
      /\ UNCHANGED <<requestVars, storeVars, sdkVars, events, inbox>>
  BY DEF BatchMarkAsDone
<1> QED
  BY <1>1, <1>2, <1>3, <1>4, AfterEventIInv

\* A handler whose call rejects logs the error and leaves the rest alone.
LEMMA HandlerFailsIInv ==
    ASSUME IInv, NEW r \in Requests, NEW s \in Statuses,
           CreateEventFails(r, s) \/ FindAllFails(r, s) \/ BatchMarkAsDoneFails(r, s)
    PROVE  IInv'
<1>1. /\ handler[r][s] \in {"creating", "finding", "marking"}
      /\ handler' = [handler EXCEPT ![r][s] = "failed"]
      /\ found' = found
      /\ UNCHANGED <<requestVars, storeVars, sdkVars, events, sub, inbox>>
  BY DEF CreateEventFails, FindAllFails, BatchMarkAsDoneFails, HandlerFails,
         LogOnly, notifyVars
<1>2. {} \in SUBSET {r} /\ sub' \in [Requests -> Subs]
  BY <1>1 DEF IInv, TypeOK
<1> QED
  BY <1>1, <1>2, AfterEventIInv

-----------------------------------------------------------------------------
\* IInv is inductive: one case for each action.
LEMMA NextIInv == IInv /\ [Next]_vars => IInv'
<1> SUFFICES ASSUME IInv, [Next]_vars PROVE IInv'
  OBVIOUS
<1>1. CASE UNCHANGED vars
  BY <1>1, RunFailsIInv
<1>2. ASSUME NEW r \in Requests,
             Receive(r) \/ RequestStep(r) \/ SdkStep(r)
               \/ (\E s \in Statuses : HandlerStep(r, s)) \/ WebhookStep(r)
      PROVE  IInv'
  <2>1. CASE Receive(r)
    BY <2>1, MoveOnIInv
  <2>2. CASE RequestStep(r)
    BY <2>2, MoveOnIInv, AddListenerIInv, CreateSubscriptionIInv,
       UpdateSubscriptionAndRunIInv DEF RequestStep
  <2>3. CASE SdkStep(r)
    BY <2>3, RunFailsIInv, StatusChangeIInv DEF SdkStep
  <2>4. ASSUME NEW s \in Statuses, HandlerStep(r, s) PROVE IInv'
    BY <2>4, CreateEventIInv, FindAllIInv, BatchMarkAsDoneIInv,
       HandlerFailsIInv DEF HandlerStep
  <2>5. CASE WebhookStep(r)
    BY <2>5, WebhookIInv
  <2> QED
    BY <1>2, <2>1, <2>2, <2>3, <2>4, <2>5
<1> QED
  BY <1>1, <1>2 DEF Next

\* IInv holds in every reachable state, however many requests are submitted,
\* whichever calls fail and whatever statuses the SDK reports.
THEOREM Invariance == Spec => []IInv
<1>1. Init => IInv
  BY InitIInv
<1>2. IInv /\ [Next]_vars => IInv'
  BY NextIInv
<1> QED
  BY <1>1, <1>2, PTL DEF Spec

\* Every variable keeps the shape that the code gives it.
THEOREM TypeCorrectness == Spec => []TypeOK
<1>1. IInv => TypeOK
  BY DEF IInv
<1> QED
  BY <1>1, Invariance, PTL

\* handleTransactionStatusChange can rely on `transactionStore.get(id)!`.
THEOREM TerminalHandlerFindsItsEntry == Spec => []TerminalHandlerFindsEntry
<1>1. IInv => TerminalHandlerFindsEntry
  <2> SUFFICES ASSUME IInv, NEW r \in Requests, NEW s \in TerminalStatuses,
                      handler[r][s] = "creating"
               PROVE  TxData(id[r]) = {Entry(r)}
    BY DEF TerminalHandlerFindsEntry, Entry
  <2>1. s \in Statuses
    BY DEF Statuses, TerminalStatuses
  <2>2. id[r] # 0 /\ txStatus[r] = s
    BY <2>1, HandledIsAnswered
  <2>3. Entry(r) \in transactionStore
    BY <2>2 DEF IInv, ListenerHasEntry
  <2> QED
    BY <2>2, <2>3, OwnNumber
<1> QED
  BY <1>1, Invariance, PTL

\* No transaction in flight loses its listener or its store entry.
THEOREM TransactionsInFlightAreWatched == Spec => []InFlightIsWatched
<1>1. IInv => InFlightIsWatched
  BY RunningFacts DEF InFlightIsWatched, Entry
<1> QED
  BY <1>1, Invariance, PTL

\* No webhook is told about another request's transaction.
THEOREM WebhooksHearTheirOwn == Spec => []NotificationsAreOwn
<1>1. IInv => NotificationsAreOwn
  BY DEF IInv
<1> QED
  BY <1>1, Invariance, PTL

\* The nonces of a subscription number its notifications 1, 2, ... in full.
THEOREM NoncesNumberTheFeed == Spec => []NoncesAreContiguous
<1>1. IInv => NoncesAreContiguous
  BY DEF IInv
<1> QED
  BY <1>1, Invariance, PTL

\* The answer, nonce 0, comes before every queued notification.
THEOREM AnswerComesFirst == Spec => []NoNotificationBeforeReply
<1>1. IInv => NoNotificationBeforeReply
  BY DEF IInv, NothingBeforeReply, NoNotificationBeforeReply
<1> QED
  BY <1>1, Invariance, PTL

\* markSubsAsDone and transactionStore.delete only follow the stored event of
\* the status the transaction ended with.
THEOREM CleanUpFollowsTheEvent == Spec => []DoneOnlyAfterTerminalEvent
<1>1. IInv => DoneOnlyAfterTerminalEvent
  BY DEF IInv, ListenerHasEntry, ClosedIsOwn, DoneOnlyAfterTerminalEvent, Entry
<1> QED
  BY <1>1, Invariance, PTL

-----------------------------------------------------------------------------
(***************************************************************************)
(* TransactionsService implements TransactionFeed, under the mapping at    *)
(* the end of TransactionsService.  Only three actions show in the feed:   *)
(* the answer opens it, a stored event records a status (and sends it to   *)
(* an active webhook), and batchMarkAsDone closes it.  All others leave    *)
(* the four mapped variables as they are.                                  *)
(***************************************************************************)

feedVariables == <<feedState, feedRecorded, feedNext, feedSent>>

\* TransactionFeed extends SdkTransaction on its own.
LEMMA SameStatuses ==
    Feed!Statuses = Statuses /\ Feed!TerminalStatuses = TerminalStatuses
  BY DEF Feed!Statuses, Statuses, Feed!TerminalStatuses, TerminalStatuses

\* Before anything is submitted no feed is open and nothing is recorded.
LEMMA InitFeed == Init => Feed!Init
<1> SUFFICES ASSUME Init PROVE Feed!Init
  OBVIOUS
<1> USE DEF Init, NoSub, NoReply
<1>1. feedState = [r \in Requests |-> "none"]
  BY DEF feedState
<1>2. feedRecorded = [r \in Requests |-> {}]
  BY DEF feedRecorded
<1>3. feedNext = [r \in Requests |-> 1]
  BY DEF feedNext
<1>4. feedSent = [r \in Requests |-> {}]
  BY DEF feedSent
<1> QED
  BY <1>1, <1>2, <1>3, <1>4 DEF Feed!Init

\* A step that leaves the answers, the events, the inboxes and, of a
\* subscription, its nonce and whether it is done, does not show in the feed.
LEMMA HiddenStep ==
    ASSUME UNCHANGED <<events, inbox>>,
           \A r \in Requests :
              /\ reply'[r].kind = "notification" <=> reply[r].kind = "notification"
              /\ sub'[r].status = "Done" <=> sub[r].status = "Done"
              /\ sub'[r].nextNonce = sub[r].nextNonce
                 \/ reply[r].kind # "notification"
    PROVE  UNCHANGED feedVariables
<1>1. feedState' = feedState
  BY DEF feedState
<1>2. feedRecorded' = feedRecorded
  BY DEF feedRecorded
<1>3. feedNext' = feedNext
  BY DEF feedNext
<1>4. feedSent' = feedSent
  BY DEF feedSent
<1> QED
  BY <1>1, <1>2, <1>3, <1>4 DEF feedVariables

\* The answer opens the feed.
LEMMA AnswerOpens ==
    ASSUME IInv, NEW r \in Requests, UpdateSubscriptionAndRun(r)
    PROVE  Feed!Open(r)
<1>1. reply[r].kind # "notification" /\ txStatus[r] = "Idle"
  BY DEF UpdateSubscriptionAndRun, IInv, AnsweredIsSubscribed, NothingBeforeReply
<1>2. sub[r].status # "Done"
  BY <1>1 DEF IInv, ClosedIsOwn, TerminalEventStored, TerminalStatuses
<1>3. /\ sub'[r].status = sub[r].status /\ sub'[r].nextNonce = 1
      /\ \A q \in Requests \ {r} : sub'[q] = sub[q]
  BY DEF UpdateSubscriptionAndRun, InitialNonce, IInv, TypeOK, Subs
<1>4. /\ reply'[r].kind = "notification"
      /\ \A q \in Requests \ {r} : reply'[q] = reply[q]
      /\ UNCHANGED <<events, inbox>>
  BY DEF UpdateSubscriptionAndRun, AnswerInitial, Notified, IInv, TypeOK
<1>5. feedState[r] = "none" /\ feedState' = [feedState EXCEPT ![r] = "open"]
  BY <1>1, <1>2, <1>3, <1>4 DEF feedState
<1>6. feedNext' = feedNext
  BY <1>1, <1>3, <1>4 DEF feedNext
<1>7. feedRecorded' = feedRecorded /\ feedSent' = feedSent
  BY <1>4 DEF feedRecorded, feedSent
<1> QED
  BY <1>5, <1>6, <1>7 DEF Feed!Open

\* A stored event is recorded, and sent if the webhook is active.
LEMMA EventRecords ==
    ASSUME IInv, NEW r \in Requests, NEW s \in Statuses,
           handler[r][s] = "creating", RecordEvent(r, s), UNCHANGED reply
    PROVE  Feed!RecordOnly(r, s) \/ Feed!RecordAndSend(r, s)
<1>1. /\ reply[r].kind = "notification" /\ id[r] # 0
      /\ s \in TerminalStatuses => txStatus[r] = s
  BY HandledIsAnswered
<1>2. /\ \A e \in events : e.tx = r => e.status # s
      /\ s \in TerminalStatuses =>
            \A e \in events : e.tx = r => e.status \notin TerminalStatuses
  BY <1>1 DEF IInv, EventWasHandled
<1>3. feedState[r] # "none"
  BY <1>1 DEF feedState
<1>4. s \notin feedRecorded[r]
  BY <1>2 DEF feedRecorded
<1>5. s \in TerminalStatuses => feedRecorded[r] \cap TerminalStatuses = {}
  BY <1>2 DEF feedRecorded
<1>6. feedRecorded' = [feedRecorded EXCEPT ![r] = @ \cup {s}]
  <2> DEFINE new == [scope |-> id[r], tx |-> r, status |-> s]
  <2>1. events' = events \cup {new} /\ new.tx = r /\ new.status = s
    BY DEF RecordEvent
  <2> HIDE DEF new
  <2>2. \A q \in Requests \ {r} :
           {x \in events' : x.tx = q} = {x \in events : x.tx = q}
    BY <2>1
  <2>3. {x \in events' : x.tx = r} = {x \in events : x.tx = r} \cup {new}
    BY <2>1
  <2>4. {e.status : e \in {x \in events' : x.tx = r}} =
           {e.status : e \in {x \in events : x.tx = r}} \cup {s}
    BY <2>1, <2>3
  <2> QED
    BY <2>2, <2>4 DEF feedRecorded
<1>7. \A q \in Requests : sub'[q].status = sub[q].status
  BY RecordEventFacts
<1>8. feedState' = feedState
  BY <1>7 DEF feedState
<1>9. Feed!Record(r, s)
  BY <1>3, <1>4, <1>5, <1>6, <1>8, SameStatuses DEF Feed!Record
<1>10. CASE r \notin ActiveSubs(id[r])
  <2>1. ActiveSubs(id[r]) = {}
    BY <1>1, <1>10, OwnNumber DEF ActiveSubs, SubStatuses
  <2>2. \A q \in Requests : sub'[q] = sub[q] /\ inbox'[q] = inbox[q]
    BY <2>1 DEF RecordEvent
  <2>3. feedNext' = feedNext /\ feedSent' = feedSent
    BY <2>2 DEF feedNext, feedSent
  <2> QED
    BY <1>9, <2>3 DEF Feed!RecordOnly
<1>11. CASE r \in ActiveSubs(id[r])
  <2> DEFINE new == [nonce |-> sub[r].nextNonce, tx |-> r, payload |-> Payload(s)]
  <2>1. \A q \in Requests \ {r} : sub'[q] = sub[q] /\ inbox'[q] = inbox[q]
    BY RecordEventFacts
  <2>2. sub'[r].nextNonce = sub[r].nextNonce + 1
    BY <1>11 DEF RecordEvent, IInv, TypeOK, Subs
  <2>3. inbox'[r] = inbox[r] \cup {new}
    BY <1>11 DEF RecordEvent, Reported
  <2>4. new.nonce = sub[r].nextNonce /\ new.payload.status = s
    BY DEF Payload
  <2> HIDE DEF new
  <2>5. feedState[r] = "open"
    BY <1>1, <1>11 DEF feedState, ActiveSubs, SubsIn
  <2>6. feedNext' = [feedNext EXCEPT ![r] = @ + 1] /\ feedNext[r] = sub[r].nextNonce
    BY <1>1, <2>1, <2>2 DEF feedNext
  <2>7. {[nonce |-> n.nonce, status |-> n.payload.status] : n \in inbox'[r]} =
           {[nonce |-> n.nonce, status |-> n.payload.status] : n \in inbox[r]}
             \cup {[nonce |-> sub[r].nextNonce, status |-> s]}
    BY <2>3, <2>4
  <2>8. feedSent' = [feedSent EXCEPT ![r] =
                       @ \cup {[nonce |-> feedNext[r], status |-> s]}]
    BY <2>1, <2>6, <2>7 DEF feedSent
  <2> QED
    BY <1>9, <2>5, <2>6, <2>8 DEF Feed!RecordAndSend
<1> QED
  BY <1>10, <1>11

\* Marking the subscription done closes the feed, if it was still open.
LEMMA MarkingCloses ==
    ASSUME IInv, NEW r \in Requests, NEW s \in Statuses, BatchMarkAsDone(r, s)
    PROVE  Feed!Close(r) \/ UNCHANGED feedVariables
<1>1. /\ found[r] \subseteq {r} /\ TerminalEventStored(r)
      /\ reply[r].kind = "notification"
  BY HandledIsAnswered DEF BatchMarkAsDone, IInv, ClosedIsOwn, HandledWasReached
<1>2. \A q \in Requests :
         /\ sub'[q].nextNonce = sub[q].nextNonce
         /\ q \notin found[r] => sub'[q] = sub[q]
         /\ q \in found[r] => sub'[q].status = "Done"
  BY DEF BatchMarkAsDone, IInv, TypeOK, Subs
<1>3. UNCHANGED <<reply, events, inbox>>
  BY DEF BatchMarkAsDone, requestVars
<1>4. CASE r \notin found[r] \/ sub[r].status = "Done"
  <2>1. \A q \in Requests : sub'[q].status = "Done" <=> sub[q].status = "Done"
    BY <1>1, <1>2, <1>4
  <2> QED
    BY <1>2, <1>3, <2>1, HiddenStep
<1>5. CASE r \in found[r] /\ sub[r].status # "Done"
  <2>1. feedState[r] = "open" /\ feedState' = [feedState EXCEPT ![r] = "closed"]
    BY <1>1, <1>2, <1>3, <1>5 DEF feedState
  <2>2. txStatus[r] \in feedRecorded[r] \cap TerminalStatuses
    BY <1>1 DEF TerminalEventStored, feedRecorded
  <2>3. UNCHANGED <<feedRecorded, feedNext, feedSent>>
    BY <1>2, <1>3 DEF feedRecorded, feedNext, feedSent
  <2> QED
    BY <2>1, <2>2, <2>3, SameStatuses DEF Feed!Close
<1> QED
  BY <1>4, <1>5

-----------------------------------------------------------------------------
\* Every step of the service is a step of the feed or does not show in it.
LEMMA NextFeed == IInv /\ [Next]_vars => [Feed!Next]_feedVariables
<1> SUFFICES ASSUME IInv, [Next]_vars
             PROVE  Feed!Next \/ UNCHANGED feedVariables
  BY DEF feedVariables
<1>1. CASE UNCHANGED vars
  BY <1>1, HiddenStep DEF vars, requestVars, notifyVars
<1>2. ASSUME NEW r \in Requests,
             Receive(r) \/ RequestStep(r) \/ SdkStep(r)
               \/ (\E s \in Statuses : HandlerStep(r, s)) \/ WebhookStep(r)
      PROVE  Feed!Next \/ UNCHANGED feedVariables
  <2>1. ASSUME UNCHANGED <<reply, events, sub, inbox>>
        PROVE  UNCHANGED feedVariables
    BY <2>1, HiddenStep
  <2>2. CASE Receive(r) \/ ResolveSigner(r) \/ PrepareAndAddListener(r)
    BY <2>1, <2>2 DEF Receive, ResolveSigner, PrepareAndAddListener, notifyVars
  <2>3. CASE \/ GetSigningAccountFails(r) \/ PrepareFails(r)
             \/ CreateSubscriptionFails(r) \/ UpdateSubscriptionFails(r)
    <3>1. /\ pc[r] # "responded"
          /\ reply' = [reply EXCEPT ![r] = ErrorReply]
          /\ UNCHANGED <<events, sub, inbox>>
      BY <2>3 DEF GetSigningAccountFails, PrepareFails, CreateSubscriptionFails,
         UpdateSubscriptionFails, Reject, notifyVars
    <3>2. \A q \in Requests :
             reply'[q].kind = "notification" <=> reply[q].kind = "notification"
      BY <3>1 DEF ErrorReply, IInv, TypeOK, AnsweredIsSubscribed
    <3> QED
      BY <3>1, <3>2, HiddenStep
  <2>4. CASE CreateSubscription(r)
    <3>1. /\ reply[r].kind # "notification" /\ sub[r].status # "Done"
          /\ UNCHANGED <<reply, events, inbox>>
      BY <2>4 DEF CreateSubscription, IInv, AnsweredIsSubscribed, ClosedIsOwn,
         TerminalEventStored, NothingBeforeReply, TerminalStatuses
    <3>2. /\ sub'[r].status = "Inactive"
          /\ \A q \in Requests \ {r} : sub'[q] = sub[q]
      BY <2>4 DEF CreateSubscription, NoSub, IInv, TypeOK
    <3> QED
      BY <3>1, <3>2, HiddenStep
  <2>5. CASE UpdateSubscriptionAndRun(r)
    BY <2>5, AnswerOpens DEF Feed!Next
  <2>6. CASE SdkStep(r)
    BY <2>1, <2>6 DEF SdkStep, RunFails, StatusChange, requestVars, notifyVars
  <2>7. ASSUME NEW s \in Statuses, HandlerStep(r, s)
        PROVE  Feed!Next \/ UNCHANGED feedVariables
    <3>1. CASE CreateEvent(r, s) \/ CreateTerminalEvent(r, s)
      <4>1. Feed!RecordOnly(r, s) \/ Feed!RecordAndSend(r, s)
        BY <3>1, EventRecords DEF CreateEvent, CreateTerminalEvent, requestVars
      <4> QED
        BY <4>1, SameStatuses DEF Feed!Next
    <3>2. CASE BatchMarkAsDone(r, s)
      BY <3>2, MarkingCloses DEF Feed!Next
    <3>3. CASE \/ FindAll(r, s) \/ CreateEventFails(r, s)
               \/ FindAllFails(r, s) \/ BatchMarkAsDoneFails(r, s)
      BY <2>1, <3>3 DEF FindAll, CreateEventFails, FindAllFails,
         BatchMarkAsDoneFails, HandlerFails, requestVars, notifyVars
    <3> QED
      BY <2>7, <3>1, <3>2, <3>3 DEF HandlerStep
  <2>8. CASE WebhookStep(r)
    <3>1. UNCHANGED <<reply, events, inbox>>
      BY <2>8 DEF WebhookStep, Handshake, HandshakeFails, SetSubStatus, Expire,
         requestVars
    <3>2. /\ sub[r].status # "Done" /\ sub'[r].status # "Done"
          /\ sub'[r].nextNonce = sub[r].nextNonce
          /\ \A q \in Requests \ {r} : sub'[q] = sub[q]
      <4>1. sub[r] \in Subs /\ sub \in [Requests -> Subs]
        BY DEF IInv, TypeOK
      <4>2. CASE Handshake(r)
        BY <4>1, <4>2 DEF Handshake, SetSubStatus, Subs
      <4>3. CASE HandshakeFails(r)
        BY <4>1, <4>3 DEF HandshakeFails, SetSubStatus, Subs
      <4>4. CASE Expire(r)
        BY <4>1, <4>4 DEF Expire, Subs
      <4> QED
        BY <2>8, <4>2, <4>3, <4>4 DEF WebhookStep
    <3> QED
      BY <3>1, <3>2, HiddenStep
  <2> QED
    BY <1>2, <2>2, <2>3, <2>4, <2>5, <2>6, <2>7, <2>8 DEF RequestStep
<1> QED
  BY <1>1, <1>2 DEF Next

\* Every behaviour of the service is a feed: an answer, then updates numbered
\* from 1, each about a status the request's own transaction had, and no more
\* once the feed is closed.
THEOREM ServiceImplementsFeed == Spec => ImplementsFeed
<1>1. Init => Feed!Init
  BY InitFeed
<1>2. IInv /\ [Next]_vars => [Feed!Next]_feedVariables
  BY NextFeed
<1>3. [Feed!Next]_feedVariables <=> [Feed!Next]_(Feed!feedVars)
  BY DEF feedVariables, Feed!feedVars
<1> QED
  BY <1>1, <1>2, <1>3, Invariance, PTL DEF Spec, ImplementsFeed, Feed!Spec
=============================================================================
