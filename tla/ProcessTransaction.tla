------------------------- MODULE ProcessTransaction -------------------------
(***************************************************************************)
(* The request/response half of TransactionsService.submit: the process    *)
(* modes that answer with an outcome (src/transactions/                    *)
(* transactions.service.ts and transactions.util.ts).  The procedure is    *)
(* prepared by submit and then once more by processTransaction, which      *)
(* waits for the fees and, in mode "submit", for run() at the same time.   *)
(* Whichever of the two rejects first answers the request; the other goes  *)
(* on.  Mode "AMQP" hands the first procedure to the offline starter.      *)
(*                                                                         *)
(* An operator whose comment starts with "Slip:" is a plausible mistake in *)
(* the definition that follows it, kept for mutation checks only.          *)
(***************************************************************************)
EXTENDS Naturals, SdkTransaction

CONSTANTS
    Requests,   \* requests to submit
    Modes,      \* process modes they may ask for
    SdkCodes,   \* error codes the SDK may reject a call with
    Faults      \* calls that may reject, by name

AllModes == {"submit", "dryRun", "offline", "AMQP"}
ProcessCalls == {"getSigningAccount", "prepareProcedure", "getTotalFees", "run",
                 "toSignablePayload", "beginTransaction", "assemble"}

ASSUME ModesAssumption == Modes \subseteq AllModes
ASSUME ProcessFaultsAssumption == Faults \subseteq ProcessCalls

VARIABLES
    mode,       \* process mode of each request
    pc,         \* where each request's call stands
    reply,      \* what each request was answered
    cause,      \* the error that made a request fail, as it was thrown
    fees,       \* state of the promise of getTotalFees()
    run,        \* state of the promise of run()
    txStatus,   \* status of the procedure that is run
    prepared,   \* how many procedures were prepared for the request
    runs        \* how many of them run() was called on

vars == <<mode, pc, reply, cause, fees, run, txStatus, prepared, runs>>

-----------------------------------------------------------------------------
(* handleSdkError. *)

SdkError(c)   == [kind |-> "sdk", code |-> c]
AppError(cls) == [kind |-> "app", class |-> cls]
NoError       == [kind |-> "none"]

AppClasses == {"Validation", "Unprocessable", "NotFound", "Unauthorized",
               "Internal"}

\* The codes that handleSdkError tells apart, by the class they answer with;
\* "NotInSigningManager" is the General error recognised by its message.
ClassifiedCodes ==
    [Validation    |-> {"NoDataChange", "ValidationError", "EntityInUse",
                        "NotInSigningManager"},
     Unprocessable |-> {"InsufficientBalance", "UnmetPrerequisite", "LimitExceeded"},
     NotFound      |-> {"DataUnavailable"},
     Unauthorized  |-> {"NotAuthorized"}]

\* Slip: the switch has no default.
AppClassNoDefault(c) ==
    IF \E cls \in DOMAIN ClassifiedCodes : c \in ClassifiedCodes[cls]
    THEN CHOOSE cls \in DOMAIN ClassifiedCodes : c \in ClassifiedCodes[cls]
    ELSE "none"

AppClass(c) ==
    IF \E cls \in DOMAIN ClassifiedCodes : c \in ClassifiedCodes[cls]
    THEN CHOOSE cls \in DOMAIN ClassifiedCodes : c \in ClassifiedCodes[cls]
    ELSE "Internal"

\* Slip: application errors are not let through.
RemapError(e) == AppError(IF e.kind = "sdk" THEN AppClass(e.code) ELSE "Internal")

HandleSdkError(e) == IF e.kind = "app" THEN e ELSE AppError(AppClass(e.code))

Errors == {AppError(cls) : cls \in AppClasses} \cup {SdkError(c) : c \in SdkCodes}

-----------------------------------------------------------------------------
PcStates == {"idle", "signing", "preparing", "preparingAgain", "processing",
             "signingPayload", "queueing", "responded"}
Promises == {"none", "pending", "resolved", "rejected"}

Reply(kind, status) == [kind |-> kind, status |-> status]
ErrorReply(e)       == [kind |-> "error", error |-> e]
NoReply             == [kind |-> "none"]
Replies ==
    {NoReply} \cup {ErrorReply(e) : e \in Errors}
    \cup {Reply(k, s) : k \in {"result", "dryRun", "payload", "receipt"},
                        s \in Statuses}

Init ==
    /\ mode \in [Requests -> Modes]
    /\ pc = [r \in Requests |-> "idle"]
    /\ reply = [r \in Requests |-> NoReply]
    /\ cause = [r \in Requests |-> NoError]
    /\ fees = [r \in Requests |-> "none"]
    /\ run = [r \in Requests |-> "none"]
    /\ txStatus = [r \in Requests |-> "Idle"]
    /\ prepared = [r \in Requests |-> 0]
    /\ runs = [r \in Requests |-> 0]

Goto(r, from, to) == pc[r] = from /\ pc' = [pc EXCEPT ![r] = to]

Respond(r, answer) ==
    /\ pc' = [pc EXCEPT ![r] = "responded"]
    /\ reply' = [reply EXCEPT ![r] = answer]

\* Answer with an error e that was thrown and caught as `caught`.
RespondError(r, e, caught) ==
    /\ Respond(r, ErrorReply(caught))
    /\ cause' = [cause EXCEPT ![r] = e]

\* Promise.all only listens to its first rejection.
StillOpen(r) == pc[r] # "responded"

-----------------------------------------------------------------------------
(* submit *)

Receive(r) ==
    /\ Goto(r, "idle", "signing")
    /\ UNCHANGED <<mode, reply, cause, fees, run, txStatus, prepared, runs>>

ResolveSigner(r) ==
    /\ Goto(r, "signing", "preparing")
    /\ UNCHANGED <<mode, reply, cause, fees, run, txStatus, prepared, runs>>

\* The signing service's own error, thrown outside of the try block.
GetSigningAccountFails(r) ==
    /\ pc[r] = "signing"
    /\ "getSigningAccount" \in Faults
    /\ RespondError(r, AppError("NotFound"), AppError("NotFound"))
    /\ UNCHANGED <<mode, fees, run, txStatus, prepared, runs>>

Prepare(r) ==
    /\ Goto(r, "preparing", IF mode[r] = "AMQP" THEN "queueing" ELSE "preparingAgain")
    /\ prepared' = [prepared EXCEPT ![r] = @ + 1]
    /\ UNCHANGED <<mode, reply, cause, fees, run, txStatus, runs>>

\* Caught in prepareProcedure, and once more in the caller's catch block.
PrepareFails(r, c) ==
    /\ pc[r] \in {"preparing", "preparingAgain"}
    /\ "prepareProcedure" \in Faults
    /\ RespondError(r, SdkError(c), HandleSdkError(HandleSdkError(SdkError(c))))
    /\ UNCHANGED <<mode, fees, run, txStatus, prepared, runs>>

QueueTransaction(r) ==
    /\ pc[r] = "queueing"
    /\ Respond(r, Reply("receipt", txStatus[r]))
    /\ UNCHANGED <<mode, cause, fees, run, txStatus, prepared, runs>>

\* The promise is returned without being awaited: submit's catch block does
\* not see it reject.
BeginTransactionFails(r, c) ==
    /\ pc[r] = "queueing"
    /\ "beginTransaction" \in Faults
    /\ RespondError(r, SdkError(c), SdkError(c))
    /\ UNCHANGED <<mode, fees, run, txStatus, prepared, runs>>

-----------------------------------------------------------------------------
(* processTransaction *)

\* The modes in which the SDK signs and sends the procedure.
RunsIn(m) == m = "submit"

\* Slip: both prepared procedures are run.
RunCallsPerPrepared(r) == prepared'[r]

RunCalls(r) == 1

\* Promise.all starts getTotalFees() and, in mode "submit", run().
PrepareAgain(r) ==
    /\ Goto(r, "preparingAgain", "processing")
    /\ prepared' = [prepared EXCEPT ![r] = @ + 1]
    /\ fees' = [fees EXCEPT ![r] = "pending"]
    /\ IF RunsIn(mode[r])
       THEN /\ run' = [run EXCEPT ![r] = "pending"]
            /\ runs' = [runs EXCEPT ![r] = @ + RunCalls(r)]
       ELSE /\ run' = [run EXCEPT ![r] = "resolved"]
            /\ UNCHANGED runs
    /\ UNCHANGED <<mode, reply, cause, txStatus>>

GetTotalFees(r) ==
    /\ fees[r] = "pending"
    /\ fees' = [fees EXCEPT ![r] = "resolved"]
    /\ UNCHANGED <<mode, pc, reply, cause, run, txStatus, prepared, runs>>

\* Slip: Promise.allSettled, whose results are never looked at.
WaitForAll(r, c) == UNCHANGED <<pc, reply, cause>>

\* A promise of Promise.all rejects: it answers unless the other one has.
RejectAll(r, c) ==
    IF StillOpen(r)
    THEN RespondError(r, SdkError(c), HandleSdkError(SdkError(c)))
    ELSE UNCHANGED <<pc, reply, cause>>

GetTotalFeesFails(r, c) ==
    /\ fees[r] = "pending"
    /\ "getTotalFees" \in Faults
    /\ fees' = [fees EXCEPT ![r] = "rejected"]
    /\ RejectAll(r, c)
    /\ UNCHANGED <<mode, run, txStatus, prepared, runs>>

\* The SDK moves the transaction to a status that does not settle run().
Progress(r, s) ==
    /\ run[r] = "pending"
    /\ s \in NextStatuses(txStatus[r]) \ TerminalStatuses
    /\ txStatus' = [txStatus EXCEPT ![r] = s]
    /\ UNCHANGED <<mode, pc, reply, cause, fees, run, prepared, runs>>

Finalize(r) ==
    /\ run[r] = "pending"
    /\ "Succeeded" \in NextStatuses(txStatus[r])
    /\ txStatus' = [txStatus EXCEPT ![r] = "Succeeded"]
    /\ run' = [run EXCEPT ![r] = "resolved"]
    /\ UNCHANGED <<mode, pc, reply, cause, fees, prepared, runs>>

\* run() rejects: with a terminal status, or before there is one.
RunFails(r, s, c) ==
    /\ run[r] = "pending"
    /\ "run" \in Faults
    /\ \/ s = txStatus[r]
       \/ s \in NextStatuses(txStatus[r]) \cap (TerminalStatuses \ {"Succeeded"})
    /\ txStatus' = [txStatus EXCEPT ![r] = s]
    /\ run' = [run EXCEPT ![r] = "rejected"]
    /\ RejectAll(r, c)
    /\ UNCHANGED <<mode, fees, prepared, runs>>

\* Slip: the result is assembled once the fees are known.
FeesResolved(r) == fees[r] = "resolved"

BothResolved(r) == fees[r] = "resolved" /\ run[r] = "resolved"

\* The result is assembled; mode "offline" has one more call to await.
Assemble(r) ==
    /\ pc[r] = "processing"
    /\ BothResolved(r)
    /\ \/ /\ mode[r] = "offline"
          /\ Goto(r, "processing", "signingPayload")
          /\ UNCHANGED reply
       \/ mode[r] = "dryRun" /\ Respond(r, Reply("dryRun", txStatus[r]))
       \/ mode[r] = "submit" /\ Respond(r, Reply("result", txStatus[r]))
    /\ UNCHANGED <<mode, cause, fees, run, txStatus, prepared, runs>>

\* The SDK object is neither a transaction nor a batch.
AssembleFails(r) ==
    /\ pc[r] = "processing" /\ BothResolved(r) /\ mode[r] = "submit"
    /\ "assemble" \in Faults
    /\ RespondError(r, AppError("Internal"), HandleSdkError(AppError("Internal")))
    /\ UNCHANGED <<mode, fees, run, txStatus, prepared, runs>>

ToSignablePayload(r) ==
    /\ pc[r] = "signingPayload"
    /\ Respond(r, Reply("payload", txStatus[r]))
    /\ UNCHANGED <<mode, cause, fees, run, txStatus, prepared, runs>>

ToSignablePayloadFails(r, c) ==
    /\ pc[r] = "signingPayload"
    /\ "toSignablePayload" \in Faults
    /\ RespondError(r, SdkError(c), HandleSdkError(SdkError(c)))
    /\ UNCHANGED <<mode, fees, run, txStatus, prepared, runs>>

-----------------------------------------------------------------------------
RequestStep(r) ==
    \/ ResolveSigner(r) \/ GetSigningAccountFails(r)
    \/ Prepare(r) \/ PrepareAgain(r) \/ \E c \in SdkCodes : PrepareFails(r, c)
    \/ QueueTransaction(r) \/ \E c \in SdkCodes : BeginTransactionFails(r, c)
    \/ Assemble(r) \/ AssembleFails(r)
    \/ ToSignablePayload(r) \/ \E c \in SdkCodes : ToSignablePayloadFails(r, c)

FeesStep(r) == GetTotalFees(r) \/ \E c \in SdkCodes : GetTotalFeesFails(r, c)

SdkStep(r) ==
    \/ Finalize(r)
    \/ \E s \in Statuses : Progress(r, s) \/ \E c \in SdkCodes : RunFails(r, s, c)

Next == \E r \in Requests :
    Receive(r) \/ RequestStep(r) \/ FeesStep(r) \/ SdkStep(r)

Spec == Init /\ [][Next]_vars

\* Every awaited call settles.  Nothing is assumed of run(): a transaction
\* without mortality may stay in the pool for ever.
Fairness == \A r \in Requests : WF_vars(RequestStep(r)) /\ WF_vars(FeesStep(r))

FairSpec == Spec /\ Fairness

-----------------------------------------------------------------------------
(* Properties. *)

\* Shapes; in particular every error that is answered is an application error or
\* one the SDK threw, and at most two procedures are prepared.
TypeOK ==
    /\ mode \in [Requests -> Modes]
    /\ pc \in [Requests -> PcStates]
    /\ reply \in [Requests -> Replies]
    /\ cause \in [Requests -> Errors \cup {NoError}]
    /\ fees \in [Requests -> Promises]
    /\ run \in [Requests -> Promises]
    /\ txStatus \in [Requests -> Statuses]
    /\ prepared \in [Requests -> 0 .. 2]
    /\ runs \in [Requests -> 0 .. 2]

\* Preparing the procedure twice never submits it twice, and only mode
\* "submit" has the SDK sign and send anything.
SubmittedAtMostOnce ==
    \A r \in Requests :
        /\ runs[r] <= 1
        /\ mode[r] # "submit" => runs[r] = 0 /\ txStatus[r] = "Idle"

\* README: "submit" responds with 201 when the transaction has been
\* successfully finalized; so no result is given for any other outcome.
ResultMeansFinalized ==
    \A r \in Requests :
        reply[r].kind = "result" =>
            txStatus[r] = "Succeeded" /\ reply[r].status = "Succeeded"

\* An error that passes through two or three catch blocks reaches the client
\* in the class its SDK code stands for.
ErrorClassSurvives ==
    \A r \in Requests :
        reply[r].kind = "error" /\ mode[r] # "AMQP" =>
            reply[r].error = HandleSdkError(cause[r]) /\
            (cause[r].kind = "sdk" => reply[r].error.class = AppClass(cause[r].code))

\* Of the two promises that are awaited together the first to reject answers
\* the request, and nothing that the other one does later changes that; so a
\* rejection is never lost, and none comes after a success.
RejectionsAreAnswered ==
    \A r \in Requests :
        fees[r] = "rejected" \/ run[r] = "rejected" =>
            pc[r] = "responded" /\ reply[r].kind = "error"

\* Every request is answered, if run() settles.
AnsweredOnceSettled ==
    \A r \in Requests :
        pc[r] = "signing" ~> pc[r] = "responded" \/ run[r] = "pending"

-----------------------------------------------------------------------------
(* What the documentation and the tests say, and the code does not do. *)

\* README: the server will "respond with 201 when the transaction has been
\* successfully finalized".
FinalizedIsReported ==
    \A r \in Requests :
        pc[r] = "responded" /\ txStatus[r] = "Succeeded" =>
            reply[r].kind = "result"
=============================================================================
