-------------------------- MODULE RequestPipeline --------------------------
(***************************************************************************)
(* How the services carry out the endpoints: fetch the object, then either *)
(* submit the call in mode "submit" (as in ProcessTransaction, of which    *)
(* this keeps what other requests can notice) or query the object and      *)
(* assemble a report.  Between any two awaits the other requests proceed,  *)
(* and a call that was prepared may be refused by the time it is included. *)
(* The key pairs that the proof server makes are a call of the same kind,  *)
(* which nothing prepares.                                                 *)
(*                                                                         *)
(* An operator whose comment starts with "Slip:" is a plausible mistake in *)
(* the definition that follows it, kept for mutation checks only.          *)
(***************************************************************************)
EXTENDS Endpoints

CONSTANTS
    Requests,       \* requests to make
    Inputs,         \* what a request may ask for, as made by Endpoints
    InitialBook,    \* the chain and the proof server at the start
    Faults          \* calls that may fail for reasons of their own

PipelineCalls == {"fetch", "prepare", "getTotalFees", "run", "timeout", "query"}
PcStates == {"idle", "fetching", "preparing", "processing", "reading", "responded"}

NoInput == Answers([endpoint |-> "none"], NoObject, {})
NoReply == [kind |-> "none"]
Made(n)   == [kind |-> "ok", made |-> n]
Report(s) == [kind |-> "ok", values |-> s]
Error(e)  == [kind |-> "error", error |-> e]
Errors == {Error(e) : e \in {"notFound", "refused", "failed"}}
Nothing == [q \in {} |-> 0]

ASSUME FaultsAssumption == Faults \subseteq PipelineCalls
ASSUME BookAssumption == InitialBook \in Books
ASSUME InputsAssumption ==
    \A i \in Inputs : /\ i.call \in Calls \cup {NoCall}
                       /\ (i.call = NoCall) = (i.queries # {})
ASSUME RouteAssumption == \A i \in Inputs : i = Route(i.ask)
ASSUME LegsAssumption == IsFiniteSet(Legs)

VARIABLES
    book,       \* the chain and the proof server
    input,      \* what each request asks for
    pc,         \* where the request stands
    run,        \* the promise of run(), or of the request that makes a key
    made,       \* the number of the object that the call made
    read,       \* what the request has read, by query
    reply       \* what it was answered

vars == <<book, input, pc, run, made, read, reply>>

Init ==
    /\ book = InitialBook
    /\ input = [r \in Requests |-> NoInput]
    /\ pc = [r \in Requests |-> "idle"]
    /\ run = [r \in Requests |-> "none"]
    /\ made = [r \in Requests |-> 0]
    /\ read = [r \in Requests |-> Nothing]
    /\ reply = [r \in Requests |-> NoReply]

Goto(r, from, to) == pc[r] = from /\ pc' = [pc EXCEPT ![r] = to]

Respond(r, answer) ==
    /\ pc' = [pc EXCEPT ![r] = "responded"]
    /\ reply' = [reply EXCEPT ![r] = answer]

Call(r) == input[r].call

-----------------------------------------------------------------------------
(* Receipt and look-up. *)

\* Where a request goes once its object, if it has one, is at hand.
Proceed(i) ==
    IF i.call = NoCall THEN "reading"
    ELSE IF i.call.method = "createKey" THEN "processing" ELSE "preparing"

\* A key is requested from the proof server at once.
Receive(r, i) ==
    /\ input[r] = NoInput
    /\ input' = [input EXCEPT ![r] = i]
    /\ pc' = [pc EXCEPT ![r] = IF i.object = NoObject THEN Proceed(i) ELSE "fetching"]
    /\ run' = [run EXCEPT ![r] = IF pc'[r] = "processing" THEN "pending" ELSE "none"]
    /\ UNCHANGED <<book, made, read, reply>>

Fetch(r) ==
    /\ Goto(r, "fetching", Proceed(input[r]))
    /\ Exists(input[r].object, book)
    /\ UNCHANGED <<book, input, run, made, read, reply>>

NotFound(r) ==
    /\ pc[r] = "fetching"
    /\ ~Exists(input[r].object, book)
    /\ Respond(r, Error("notFound"))
    /\ UNCHANGED <<book, input, run, made, read>>

FetchFails(r) ==
    /\ pc[r] = "fetching" /\ "fetch" \in Faults
    /\ Respond(r, Error("failed"))
    /\ UNCHANGED <<book, input, run, made, read>>

-----------------------------------------------------------------------------
(* Submission. *)

\* Stands for both prepareProcedure calls and the start of Promise.all.
Prepare(r) ==
    /\ Goto(r, "preparing", "processing")
    /\ Allowed(Call(r), book)
    /\ run' = [run EXCEPT ![r] = "pending"]
    /\ UNCHANGED <<book, input, made, read, reply>>

PrepareRefused(r) ==
    /\ pc[r] = "preparing"
    /\ ~Allowed(Call(r), book)
    /\ Respond(r, Error("refused"))
    /\ UNCHANGED <<book, input, run, made, read>>

PrepareFails(r) ==
    /\ pc[r] = "preparing" /\ "prepare" \in Faults
    /\ Respond(r, Error("failed"))
    /\ UNCHANGED <<book, input, run, made, read>>

\* The call takes effect, whether or not the request is still open.
Include(r) ==
    /\ run[r] = "pending"
    /\ Allowed(Call(r), book)
    /\ book' = Effect(Call(r), book)
    /\ made' = [made EXCEPT ![r] = Result(Call(r), book)]
    /\ run' = [run EXCEPT ![r] = "resolved"]
    /\ UNCHANGED <<input, pc, read, reply>>

\* Slip: a rejection is only logged, as it is for webhook requests.
RejectIsLogged(r, answer) ==
    /\ run' = [run EXCEPT ![r] = "rejected"]
    /\ UNCHANGED <<pc, reply>>

\* run() rejects: this answers the request unless it was answered before.
RejectRun(r, answer) ==
    /\ run' = [run EXCEPT ![r] = "rejected"]
    /\ IF pc[r] = "processing" THEN Respond(r, answer) ELSE UNCHANGED <<pc, reply>>

Refuse(r) ==
    /\ run[r] = "pending"
    /\ ~Allowed(Call(r), book)
    /\ RejectRun(r, Error("refused"))
    /\ UNCHANGED <<book, input, made, read>>

RunFails(r) ==
    /\ run[r] = "pending" /\ "run" \in Faults
    /\ RejectRun(r, Error("failed"))
    /\ UNCHANGED <<book, input, made, read>>

\* The call goes on, and nobody hears of it any more.
GetTotalFeesFails(r) ==
    /\ pc[r] = "processing" /\ Call(r).method # "createKey"
    /\ "getTotalFees" \in Faults
    /\ Respond(r, Error("failed"))
    /\ UNCHANGED <<book, input, run, made, read>>

\* After ten seconds requestProofServer gives up; the proof server may not.
TimesOut(r) ==
    /\ pc[r] = "processing" /\ Call(r).method = "createKey"
    /\ "timeout" \in Faults
    /\ Respond(r, Error("failed"))
    /\ UNCHANGED <<book, input, run, made, read>>

\* Slip: the answer does not wait for run().
SettledAnyway(r) == pc[r] = "processing"

Settled(r) == pc[r] = "processing" /\ run[r] = "resolved"

\* handleServiceResult, and the resolvers that name the object made.
HandleServiceResult(r) ==
    /\ Settled(r)
    /\ Respond(r, Made(made[r]))
    /\ UNCHANGED <<book, input, run, made, read>>

-----------------------------------------------------------------------------
(* Reports. *)

\* The queries of Promise.all are answered one by one, in any order.
ReadField(r, q) ==
    /\ pc[r] = "reading"
    /\ q \in input[r].queries \ DOMAIN read[r]
    /\ read' = [read EXCEPT ![r] = WithAnswer(@, q, Value(q, book))]
    /\ UNCHANGED <<book, input, pc, run, made, reply>>

ReadFails(r) ==
    /\ pc[r] = "reading" /\ "query" \in Faults
    /\ Respond(r, Error("failed"))
    /\ UNCHANGED <<book, input, run, made, read>>

\* Slip: a report that has some of its fields is sent.
AnyRead(r) == pc[r] = "reading" /\ DOMAIN read[r] # {}

AllRead(r) == pc[r] = "reading" /\ DOMAIN read[r] = input[r].queries

\* fetchOwner throws where an account has no identity.
NoOwner(r) == \E q \in DOMAIN read[r] : q.query = "getIdentity" /\ read[r][q] = {}

Assemble(r) ==
    /\ AllRead(r)
    /\ Respond(r, IF NoOwner(r) THEN Error("notFound") ELSE Report(read[r]))
    /\ UNCHANGED <<book, input, run, made, read>>

-----------------------------------------------------------------------------
ServiceStep(r) ==
    \/ Fetch(r) \/ NotFound(r)
    \/ Prepare(r) \/ PrepareRefused(r) \/ HandleServiceResult(r)
    \/ (\E q \in input[r].queries : ReadField(r, q)) \/ Assemble(r)

ChainStep(r) == Include(r) \/ Refuse(r)

FaultStep(r) ==
    \/ FetchFails(r) \/ PrepareFails(r) \/ RunFails(r)
    \/ GetTotalFeesFails(r) \/ TimesOut(r) \/ ReadFails(r)

Next == \E r \in Requests :
    \/ \E i \in Inputs : Receive(r, i)
    \/ ServiceStep(r) \/ ChainStep(r) \/ FaultStep(r)

Spec == Init /\ [][Next]_vars

\* Every awaited call settles, except run(): see ProcessTransaction.
Fairness == \A r \in Requests : WF_vars(ServiceStep(r))

FairSpec == Spec /\ Fairness

-----------------------------------------------------------------------------
(* Properties. *)

\* Shapes of the state; in particular an answer is a number, a report or one of
\* three errors, and a promise of run() belongs to a request that has a call.
TypeOK ==
    /\ book \in Books
    /\ input \in [Requests -> Inputs \cup {NoInput}]
    /\ pc \in [Requests -> PcStates]
    /\ run \in [Requests -> {"none", "pending", "resolved", "rejected"}]
    /\ made \in [Requests -> Nat]
    /\ DOMAIN read = Requests /\ DOMAIN reply = Requests
    /\ \A r \in Requests :
        /\ DOMAIN read[r] \subseteq input[r].queries
        /\ reply[r] \in Errors \cup {NoReply, Made(made[r]), Report(read[r])}
        /\ run[r] # "none" => Call(r) # NoCall

-----------------------------------------------------------------------------
\* Apart from the steps in between, a request is what AtomicRequests promises.
Atomic == INSTANCE AtomicRequests WITH
    open <- {r \in Requests : pc[r] \notin {"idle", "responded"}},
    applied <- {r \in Requests : run[r] = "resolved"},
    seen <- read

\* The services implement AtomicRequests: whatever is awaited in between and
\* whatever fails, a call takes effect once and before its success is
\* answered, and a report shows what was read while its request was open.
ImplementsAtomicRequests == Atomic!Spec

Asked(r, endpoint) == input[r].ask.endpoint = endpoint
Succeeded(r, endpoint) == Asked(r, endpoint) /\ reply[r].kind = "ok"

\* Two requests that exclude each other: only one of them can have been done.
Conflict(r, s) ==
    \/ /\ input[r].ask.endpoint \in {"execute", "reject"}
       /\ input[s].ask.endpoint \in {"execute", "reject"}
       /\ input[r].ask.transaction = input[s].ask.transaction
    \/ /\ Asked(r, "affirm-leg") /\ input[r].ask = input[s].ask
    \/ /\ Asked(r, "link") /\ Asked(s, "link")
       /\ input[r].ask.account = input[s].ask.account

\* Of requests that execute or reject the same transaction, affirm the same
\* leg for the same party, or link the same account, at most one is told that
\* it succeeded, however their look-ups and preparations interleave.
ConflictsHaveOneWinner ==
    \A r, s \in Requests :
        r # s /\ Conflict(r, s) => ~(reply[r].kind = "ok" /\ reply[s].kind = "ok")

\* An answered freeze of the asset, or of a holder of it, that nobody has
\* asked to undo since the start.
FrozenFor(a, k) ==
    \/ /\ \E r \in Requests : Succeeded(r, "freeze") /\ input[r].ask.asset = a
       /\ ~\E r \in Requests : Asked(r, "unfreeze") /\ input[r].ask.asset = a
    \/ /\ \E r \in Requests : /\ Succeeded(r, "freeze-account")
                              /\ input[r].ask.asset = a /\ input[r].ask.account = k
       /\ ~\E r \in Requests : /\ Asked(r, "unfreeze-account")
                               /\ input[r].ask.asset = a /\ input[r].ask.account = k

\* Once a freeze was answered with success, no move of the frozen asset or
\* out of or into the frozen account takes effect any more, not even one that
\* was prepared before the freeze.
FrozenMeansNoTrading ==
    [][\A r \in Requests :
        Asked(r, "move-funds") /\ run[r] # "resolved" /\ run'[r] = "resolved" =>
            \A k \in {input[r].ask.from, input[r].ask.to} :
                ~FrozenFor(input[r].ask.asset, k)]_vars

\* r edited the list of allowed venues, and nobody asked for the opposite
\* edit of any of these venues.
Unopposed(r, opposite) ==
    ~\E s \in Requests : /\ Asked(s, opposite) /\ input[s].ask.asset = input[r].ask.asset
                         /\ input[s].ask.venues \cap input[r].ask.venues # {}

\* Concurrent edits of an asset's list of allowed venues do not undo each
\* other: every addition and every removal that was answered stays in force.
VenueEditsSurvive ==
    \A r \in Requests :
        /\ Succeeded(r, "add-allowed-venues") /\ Unopposed(r, "remove-allowed-venues") =>
              input[r].ask.venues \subseteq book.assets[input[r].ask.asset].allowed
        /\ Succeeded(r, "remove-allowed-venues") /\ Unopposed(r, "add-allowed-venues") =>
              input[r].ask.venues \cap book.assets[input[r].ask.asset].allowed = {}

\* r was told that transaction t waits for no affirmations.
ToldZero(r, t) ==
    /\ Succeeded(r, "pending-affirmation-count") /\ input[r].ask.transaction = t
    /\ \E q \in DOMAIN reply[r].values : reply[r].values[q] = 0

\* After a count of zero, executing the transaction is only refused when
\* somebody has rejected or executed it before.
ZeroMeansExecutable ==
    [][\A r \in Requests :
        /\ Asked(r, "execute")
        /\ \E s \in Requests : ToldZero(s, input[r].ask.transaction)
        /\ reply[r] = NoReply /\ reply'[r] = Error("refused")
        => ~Pending(input[r].ask.transaction, book)]_vars

\* Every request is answered, or waits for a call that has not settled.
EveryRequestIsAnswered ==
    \A r \in Requests :
        pc[r] \in PcStates \ {"idle", "responded"} ~>
            pc[r] = "responded" \/ run[r] = "pending"
=============================================================================
