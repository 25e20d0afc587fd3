---------------------- MODULE ProcessTransaction_proofs ----------------------
(***************************************************************************)
(* The safety of the request/response half of submit, for any requests,    *)
(* modes, error codes and faults.  A transaction can only move while run() *)
(* is pending, and run() is only ever started by the second preparation,   *)
(* in mode "submit", at a place that no request comes back to (Started);   *)
(* what is answered is then settled by what the promises were when it was  *)
(* answered, because neither changes afterwards (Answered).                *)
(***************************************************************************)
EXTENDS ProcessTransaction, TLAPS

\* What has been prepared, started and run by the time a request is somewhere.
Started ==
    \A r \in Requests :
        /\ pc[r] \in {"idle", "signing", "preparing"} => prepared[r] = 0
        /\ pc[r] \in {"preparingAgain", "queueing"} => prepared[r] = 1
        /\ pc[r] \in {"idle", "signing", "preparing", "preparingAgain", "queueing"} =>
              fees[r] = "none" /\ run[r] = "none"
        /\ pc[r] = "preparingAgain" => mode[r] # "AMQP"
        /\ pc[r] = "queueing" => mode[r] = "AMQP"
        /\ run[r] = "none" => runs[r] = 0
        /\ mode[r] # "submit" => run[r] \in {"none", "resolved"}
        /\ mode[r] = "submit" /\ run[r] = "resolved" => txStatus[r] = "Succeeded"

\* What an answer says of the promises and of the error that was thrown.
Answered ==
    \A r \in Requests :
        /\ reply[r].kind = "result" => mode[r] = "submit" /\ run[r] = "resolved"
        /\ cause[r] # NoError => cause[r].kind = "sdk" \/ cause[r].kind = "app"

\* A promise that has not settled belongs to a request that waits for it, or
\* has been answered with the rejection of the other one.
Heard ==
    /\ RejectionsAreAnswered
    /\ \A r \in Requests : fees[r] = "pending" \/ run[r] = "pending" =>
          pc[r] = "processing" \/ (pc[r] = "responded" /\ reply[r].kind = "error")

IInv ==
    /\ TypeOK /\ Started /\ Answered
    /\ SubmittedAtMostOnce /\ ResultMeansFinalized /\ ErrorClassSurvives

-----------------------------------------------------------------------------
(* handleSdkError. *)

\* Every code has a class, the unknown ones too.
LEMMA AppClassType ==
    ASSUME NEW c
    PROVE  AppClass(c) \in AppClasses
<1>1. DOMAIN ClassifiedCodes = {"Validation", "Unprocessable", "NotFound", "Unauthorized"}
  BY DEF ClassifiedCodes
<1>2. CASE \E cls \in DOMAIN ClassifiedCodes : c \in ClassifiedCodes[cls]
  <2>1. AppClass(c) \in DOMAIN ClassifiedCodes
    BY <1>2 DEF AppClass
  <2> QED
    BY <1>1, <2>1 DEF AppClasses
<1>3. CASE ~\E cls \in DOMAIN ClassifiedCodes : c \in ClassifiedCodes[cls]
  BY <1>3 DEF AppClass, AppClasses
<1> QED
  BY <1>2, <1>3

\* A second catch block changes nothing.
LEMMA HandledOnce ==
    ASSUME NEW c
    PROVE  /\ HandleSdkError(SdkError(c)) = AppError(AppClass(c))
           /\ HandleSdkError(HandleSdkError(SdkError(c))) = AppError(AppClass(c))
           /\ HandleSdkError(SdkError(c)) \in Errors
  BY AppClassType DEF HandleSdkError, SdkError, AppError, Errors

\* What an answered error is, once it was caught.
Caught(e, answered) ==
    /\ e \in Errors /\ answered \in Errors
    /\ answered = HandleSdkError(e)
    /\ e.kind = "sdk" => answered.class = AppClass(e.code)

LEMMA SdkErrorIsCaught ==
    ASSUME NEW c \in SdkCodes
    PROVE  /\ Caught(SdkError(c), HandleSdkError(SdkError(c)))
           /\ Caught(SdkError(c), HandleSdkError(HandleSdkError(SdkError(c))))
<1>1. SdkError(c) \in Errors
  BY DEF Errors
<1>2. SdkError(c).code = c /\ AppError(AppClass(c)).class = AppClass(c)
  BY DEF SdkError, AppError
<1> QED
  BY <1>1, <1>2, HandledOnce DEF Caught

LEMMA AppErrorIsCaught ==
    ASSUME NEW cls \in AppClasses
    PROVE  /\ Caught(AppError(cls), AppError(cls))
           /\ Caught(AppError(cls), HandleSdkError(AppError(cls)))
  BY DEF Caught, AppError, HandleSdkError, Errors

-----------------------------------------------------------------------------
(* The inductive invariant. *)

LEMMA InitImpliesIInv == Init => IInv
  BY ModesAssumption
  DEF Init, IInv, TypeOK, Started, Answered, SubmittedAtMostOnce, ResultMeansFinalized,
      ErrorClassSurvives, PcStates, Promises, Replies, NoReply, NoError, Statuses

\* An error is answered, and the promises stay what they are.
LEMMA RespondErrorIInv ==
    ASSUME IInv, NEW r \in Requests, NEW e \in Errors, NEW caught \in Errors,
           RespondError(r, e, caught), Caught(e, caught) \/ mode[r] = "AMQP",
           UNCHANGED <<mode, fees, run, txStatus, prepared, runs>>
    PROVE  IInv'
<1> USE DEF IInv, TypeOK
<1>0. /\ pc' = [pc EXCEPT ![r] = "responded"] /\ cause' = [cause EXCEPT ![r] = e]
      /\ reply' = [reply EXCEPT ![r] = [kind |-> "error", error |-> caught]]
  BY DEF RespondError, Respond, ErrorReply
<1>1. TypeOK'
  <2>1. [kind |-> "error", error |-> caught] \in Replies
    BY DEF Replies, ErrorReply
  <2> QED
    BY <1>0, <2>1 DEF PcStates
<1>2. Started'
  BY <1>0 DEF Started
<1>3. Answered'
  BY <1>0 DEF Answered, Errors, AppError, SdkError
<1>4. SubmittedAtMostOnce' /\ ResultMeansFinalized'
  BY <1>0 DEF SubmittedAtMostOnce, ResultMeansFinalized
<1>5. ErrorClassSurvives'
  BY <1>0 DEF ErrorClassSurvives, Caught
<1> QED
  BY <1>1, <1>2, <1>3, <1>4, <1>5

\* Something is answered that is not an error.
LEMMA RespondIInv ==
    ASSUME IInv, NEW r \in Requests, NEW k \in {"result", "dryRun", "payload", "receipt"},
           Respond(r, Reply(k, txStatus[r])),
           k = "result" => mode[r] = "submit" /\ run[r] = "resolved",
           UNCHANGED <<mode, cause, fees, run, txStatus, prepared, runs>>
    PROVE  IInv'
<1> USE DEF IInv, TypeOK
<1>0. /\ pc' = [pc EXCEPT ![r] = "responded"]
      /\ reply' = [reply EXCEPT ![r] = [kind |-> k, status |-> txStatus[r]]]
  BY DEF Respond, Reply
<1>1. TypeOK'
  <2>1. [kind |-> k, status |-> txStatus[r]] \in Replies
    BY DEF Replies, Reply
  <2> QED
    BY <1>0, <2>1 DEF PcStates
<1>2. Started'
  BY <1>0 DEF Started
<1>3. Answered'
  BY <1>0 DEF Answered
<1>4. SubmittedAtMostOnce'
  BY <1>0 DEF SubmittedAtMostOnce
<1>5. ResultMeansFinalized'
  BY <1>0 DEF ResultMeansFinalized, Started
<1>6. ErrorClassSurvives'
  BY <1>0 DEF ErrorClassSurvives
<1> QED
  BY <1>1, <1>2, <1>3, <1>4, <1>5, <1>6

\* Nothing is answered and nothing is learnt: the request goes on, or not.
LEMMA SilentIInv ==
    ASSUME IInv, UNCHANGED <<mode, reply, cause>>, TypeOK', Started', SubmittedAtMostOnce',
           \A r \in Requests :
               reply[r].kind = "result" => run'[r] = run[r] /\ txStatus'[r] = txStatus[r]
    PROVE  IInv'
<1>1. Answered' /\ ResultMeansFinalized'
  BY DEF IInv, Answered, ResultMeansFinalized
<1>2. ErrorClassSurvives'
  BY DEF IInv, ErrorClassSurvives
<1> QED
  BY <1>1, <1>2 DEF IInv

\* submit, up to the second preparation.
LEMMA SubmitIInv ==
    ASSUME IInv, NEW r \in Requests, Receive(r) \/ ResolveSigner(r) \/ Prepare(r) \/ PrepareAgain(r)
    PROVE  IInv'
<1> USE DEF IInv, TypeOK, Goto
<1>1. CASE Receive(r) \/ ResolveSigner(r)
  <2>1. TypeOK' /\ Started' /\ SubmittedAtMostOnce'
    BY <1>1 DEF Receive, ResolveSigner, Started, SubmittedAtMostOnce, PcStates
  <2> QED
    BY <1>1, <2>1, SilentIInv DEF Receive, ResolveSigner
<1>2. CASE Prepare(r)
  <2>1. TypeOK' /\ Started' /\ SubmittedAtMostOnce'
    BY <1>2 DEF Prepare, Started, SubmittedAtMostOnce, PcStates
  <2> QED
    BY <1>2, <2>1, SilentIInv DEF Prepare
<1>3. CASE PrepareAgain(r)
  <2>0. /\ pc[r] = "preparingAgain" /\ run[r] = "none" /\ runs[r] = 0 /\ prepared[r] = 1
        /\ pc' = [pc EXCEPT ![r] = "processing"] /\ prepared' = [prepared EXCEPT ![r] = 2]
        /\ fees' = [fees EXCEPT ![r] = "pending"]
        /\ UNCHANGED <<mode, reply, cause, txStatus>>
    <3>1. pc[r] = "preparingAgain" /\ run[r] = "none" /\ runs[r] = 0 /\ prepared[r] = 1
      BY <1>3 DEF PrepareAgain, Started
    <3>2. prepared[r] + 1 = 2
      BY <3>1
    <3> QED
      BY <1>3, <3>1, <3>2 DEF PrepareAgain
  <2>1. CASE mode[r] = "submit"
    <3>1. run' = [run EXCEPT ![r] = "pending"] /\ runs' = [runs EXCEPT ![r] = 1]
      BY <1>3, <2>0, <2>1 DEF PrepareAgain, RunsIn, RunCalls
    <3>2. TypeOK' /\ Started' /\ SubmittedAtMostOnce'
      BY <2>0, <2>1, <3>1 DEF Started, SubmittedAtMostOnce, PcStates, Promises
    <3>3. reply[r].kind # "result"
      BY <2>0 DEF Answered
    <3> QED
      BY <2>0, <3>1, <3>2, <3>3, SilentIInv
  <2>2. CASE mode[r] # "submit"
    <3>1. run' = [run EXCEPT ![r] = "resolved"] /\ runs' = runs
      BY <1>3, <2>2 DEF PrepareAgain, RunsIn
    <3>2. TypeOK' /\ Started' /\ SubmittedAtMostOnce'
      BY <2>0, <2>2, <3>1 DEF Started, SubmittedAtMostOnce, PcStates, Promises
    <3>3. reply[r].kind # "result"
      BY <2>0 DEF Answered
    <3> QED
      BY <2>0, <3>1, <3>2, <3>3, SilentIInv
  <2> QED
    BY <2>1, <2>2
<1> QED
  BY <1>1, <1>2, <1>3

\* What follows a status is a status.
LEMMA NextStatusesType ==
    ASSUME NEW s
    PROVE  NextStatuses(s) \subseteq Statuses
  BY DEF NextStatuses, Statuses

\* The promises of Promise.all, apart from their rejections.
LEMMA PromisesIInv ==
    ASSUME IInv, NEW r \in Requests,
           GetTotalFees(r) \/ Finalize(r) \/ \E s \in Statuses : Progress(r, s)
    PROVE  IInv'
<1> USE DEF IInv, TypeOK
<1>1. CASE GetTotalFees(r)
  <2>1. TypeOK' /\ Started' /\ SubmittedAtMostOnce'
    BY <1>1 DEF GetTotalFees, Started, SubmittedAtMostOnce, Promises
  <2> QED
    BY <1>1, <2>1, SilentIInv DEF GetTotalFees
<1>2. ASSUME run[r] = "pending"
      PROVE  mode[r] = "submit" /\ reply[r].kind # "result"
  BY <1>2 DEF Started, Answered
<1>3. CASE Finalize(r)
  <2>1. TypeOK' /\ Started' /\ SubmittedAtMostOnce'
    BY <1>2, <1>3 DEF Finalize, Started, SubmittedAtMostOnce, Promises, Statuses
  <2> QED
    BY <1>2, <1>3, <2>1, SilentIInv DEF Finalize
<1>4. CASE \E s \in Statuses : Progress(r, s)
  <2>1. TypeOK' /\ Started' /\ SubmittedAtMostOnce'
    BY <1>2, <1>4 DEF Progress, Started, SubmittedAtMostOnce
  <2> QED
    BY <1>2, <1>4, <2>1, SilentIInv DEF Progress
<1> QED
  BY <1>1, <1>3, <1>4

\* A promise of Promise.all rejects.
LEMMA RejectionIInv ==
    ASSUME IInv, NEW r \in Requests, NEW c \in SdkCodes,
           GetTotalFeesFails(r, c) \/ \E s \in Statuses : RunFails(r, s, c)
    PROVE  IInv'
<1> USE DEF IInv, TypeOK
<1> DEFINE answered == HandleSdkError(SdkError(c))
<1>0. /\ SdkError(c) \in Errors /\ answered \in Errors /\ Caught(SdkError(c), answered)
      /\ answered.class = AppClass(c) /\ SdkError(c).kind = "sdk"
  <2>1. SdkError(c) \in Errors /\ SdkError(c).kind = "sdk"
    BY DEF Errors, SdkError
  <2>2. answered = AppError(AppClass(c)) /\ answered \in Errors
    BY HandledOnce
  <2>3. AppError(AppClass(c)).class = AppClass(c)
    BY DEF AppError
  <2> QED
    BY <2>1, <2>2, <2>3, SdkErrorIsCaught
<1>1. /\ UNCHANGED <<mode, prepared, runs>> /\ RejectAll(r, c)
      /\ \/ fees' = [fees EXCEPT ![r] = "rejected"] /\ UNCHANGED <<run, txStatus>>
         \/ /\ run[r] = "pending" /\ run' = [run EXCEPT ![r] = "rejected"]
            /\ txStatus' \in [Requests -> Statuses]
            /\ \A q \in Requests : q # r => txStatus'[q] = txStatus[q]
            /\ UNCHANGED fees
      /\ pc[r] \notin {"idle", "signing", "preparing", "preparingAgain", "queueing"}
  <2>1. CASE GetTotalFeesFails(r, c)
    BY <2>1 DEF GetTotalFeesFails, Started
  <2>2. CASE \E s \in Statuses : RunFails(r, s, c)
    BY <2>2 DEF RunFails, Started
  <2> QED
    BY <2>1, <2>2
<1>2. \/ UNCHANGED <<pc, reply, cause>>
      \/ /\ pc' = [pc EXCEPT ![r] = "responded"] /\ cause' = [cause EXCEPT ![r] = SdkError(c)]
         /\ reply' = [reply EXCEPT ![r] = [kind |-> "error", error |-> answered]]
  BY <1>1 DEF RejectAll, RespondError, Respond, ErrorReply
<1>3. [kind |-> "error", error |-> answered] \in Replies
  BY <1>0 DEF Replies, ErrorReply
<1> HIDE DEF answered
<1>4. TypeOK'
  BY <1>0, <1>1, <1>2, <1>3 DEF Promises, PcStates
<1>5. Started'
  BY <1>1, <1>2 DEF Started
<1>6. Answered'
  BY <1>0, <1>1, <1>2 DEF Answered
<1>7. SubmittedAtMostOnce'
  BY <1>1, <1>2 DEF SubmittedAtMostOnce, Started
<1>8. ResultMeansFinalized'
  BY <1>1, <1>2 DEF ResultMeansFinalized, Answered
<1>9. ErrorClassSurvives'
  BY <1>0, <1>1, <1>2 DEF ErrorClassSurvives, Caught
<1> QED
  BY <1>4, <1>5, <1>6, <1>7, <1>8, <1>9

\* The answers.
LEMMA AnswersIInv ==
    ASSUME IInv, NEW r \in Requests,
           QueueTransaction(r) \/ Assemble(r) \/ ToSignablePayload(r)
    PROVE  IInv'
<1>1. CASE QueueTransaction(r)
  BY <1>1, RespondIInv DEF QueueTransaction
<1>2. CASE Assemble(r)
  <2>1. CASE mode[r] = "offline" /\ Goto(r, "processing", "signingPayload") /\ UNCHANGED reply
    <3>1. TypeOK' /\ Started' /\ SubmittedAtMostOnce'
      BY <1>2, <2>1
      DEF IInv, TypeOK, Goto, Assemble, BothResolved, Started, SubmittedAtMostOnce, PcStates
    <3> QED
      BY <1>2, <2>1, <3>1, SilentIInv DEF Assemble
  <2>2. CASE mode[r] = "dryRun" /\ Respond(r, Reply("dryRun", txStatus[r]))
    BY <1>2, <2>2, RespondIInv DEF Assemble
  <2>3. CASE mode[r] = "submit" /\ Respond(r, Reply("result", txStatus[r]))
    BY <1>2, <2>3, RespondIInv DEF Assemble, BothResolved
  <2> QED
    BY <1>2, <2>1, <2>2, <2>3 DEF Assemble
<1>3. CASE ToSignablePayload(r)
  BY <1>3, RespondIInv DEF ToSignablePayload
<1> QED
  BY <1>1, <1>2, <1>3

\* The errors that a catch block answers.
LEMMA FailuresIInv ==
    ASSUME IInv, NEW r \in Requests,
           \/ GetSigningAccountFails(r) \/ AssembleFails(r)
           \/ \E c \in SdkCodes :
                 PrepareFails(r, c) \/ BeginTransactionFails(r, c) \/ ToSignablePayloadFails(r, c)
    PROVE  IInv'
<1>0. \A c \in SdkCodes : SdkError(c) \in Errors
  BY DEF Errors
<1>1. CASE GetSigningAccountFails(r)
  <2>1. Caught(AppError("NotFound"), AppError("NotFound"))
    BY AppErrorIsCaught DEF AppClasses
  <2> QED
    BY <1>1, <2>1, RespondErrorIInv DEF GetSigningAccountFails, Caught
<1>2. CASE AssembleFails(r)
  <2>1. Caught(AppError("Internal"), HandleSdkError(AppError("Internal")))
    BY AppErrorIsCaught DEF AppClasses
  <2> QED
    BY <1>2, <2>1, RespondErrorIInv DEF AssembleFails, Caught
<1>3. ASSUME NEW c \in SdkCodes, PrepareFails(r, c) PROVE IInv'
  BY <1>3, SdkErrorIsCaught, RespondErrorIInv DEF PrepareFails, Caught
<1>4. ASSUME NEW c \in SdkCodes, BeginTransactionFails(r, c) PROVE IInv'
  BY <1>0, <1>4, RespondErrorIInv DEF BeginTransactionFails, IInv, Started
<1>5. ASSUME NEW c \in SdkCodes, ToSignablePayloadFails(r, c) PROVE IInv'
  BY <1>5, SdkErrorIsCaught, RespondErrorIInv DEF ToSignablePayloadFails, Caught
<1> QED
  BY <1>1, <1>2, <1>3, <1>4, <1>5

LEMMA StepKeepsIInv == IInv /\ [Next]_vars => IInv'
<1> SUFFICES ASSUME IInv, [Next]_vars PROVE IInv'
  OBVIOUS
<1>1. CASE UNCHANGED vars
  BY <1>1 DEF vars, IInv, TypeOK, Started, Answered, SubmittedAtMostOnce, ResultMeansFinalized,
     ErrorClassSurvives
<1>2. CASE Next
  BY <1>2, SubmitIInv, PromisesIInv, RejectionIInv, AnswersIInv, FailuresIInv
  DEF Next, RequestStep, FeesStep, SdkStep
<1> QED
  BY <1>1, <1>2

\* The rejections of Promise.all, action by action.
LEMMA StepKeepsHeard == IInv /\ Heard /\ [Next]_vars => Heard'
<1> SUFFICES ASSUME IInv, Heard, [Next]_vars PROVE Heard'
  OBVIOUS
<1> USE DEF IInv, TypeOK, Heard, RejectionsAreAnswered
<1>1. CASE UNCHANGED vars
  BY <1>1 DEF vars
<1>2. ASSUME NEW r \in Requests, Receive(r) \/ ResolveSigner(r) \/ Prepare(r) \/ PrepareAgain(r)
      PROVE  Heard'
  <2>1. CASE Receive(r) \/ ResolveSigner(r) \/ Prepare(r)
    BY <2>1 DEF Receive, ResolveSigner, Prepare, Goto, Started
  <2>2. CASE PrepareAgain(r)
    BY <2>2 DEF PrepareAgain, Goto, Started
  <2> QED
    BY <1>2, <2>1, <2>2
<1>3. ASSUME NEW r \in Requests,
             GetTotalFees(r) \/ Finalize(r) \/ \E s \in Statuses : Progress(r, s)
      PROVE  Heard'
  BY <1>3 DEF GetTotalFees, Finalize, Progress
<1>4. ASSUME NEW r \in Requests, NEW c \in SdkCodes,
             GetTotalFeesFails(r, c) \/ \E s \in Statuses : RunFails(r, s, c)
      PROVE  Heard'
  <2>1. CASE pc[r] # "responded"
    <3>1. /\ pc' = [pc EXCEPT ![r] = "responded"]
          /\ reply' = [reply EXCEPT ![r] = ErrorReply(HandleSdkError(SdkError(c)))]
      BY <1>4, <2>1 DEF GetTotalFeesFails, RunFails, RejectAll, StillOpen, RespondError, Respond
    <3>2. ErrorReply(HandleSdkError(SdkError(c))).kind = "error"
      BY DEF ErrorReply
    <3> QED
      BY <1>4, <3>1, <3>2 DEF GetTotalFeesFails, RunFails
  <2>2. CASE pc[r] = "responded"
    <3>1. UNCHANGED <<pc, reply>>
      BY <1>4, <2>2 DEF GetTotalFeesFails, RunFails, RejectAll, StillOpen
    <3> QED
      BY <1>4, <2>2, <3>1 DEF GetTotalFeesFails, RunFails
  <2> QED
    BY <2>1, <2>2
<1>5. ASSUME NEW r \in Requests,
             QueueTransaction(r) \/ Assemble(r) \/ ToSignablePayload(r)
      PROVE  Heard'
  BY <1>5 DEF QueueTransaction, Assemble, ToSignablePayload, BothResolved, Goto, Respond, Started
<1>6. ASSUME NEW r \in Requests,
             \/ GetSigningAccountFails(r) \/ AssembleFails(r)
             \/ \E c \in SdkCodes :
                   PrepareFails(r, c) \/ BeginTransactionFails(r, c) \/ ToSignablePayloadFails(r, c)
      PROVE  Heard'
  <2>1. /\ \E e : reply' = [reply EXCEPT ![r] = ErrorReply(e)]
        /\ pc' = [pc EXCEPT ![r] = "responded"] /\ UNCHANGED <<fees, run>>
    BY <1>6 DEF GetSigningAccountFails, AssembleFails, PrepareFails, BeginTransactionFails,
       ToSignablePayloadFails, RespondError, Respond
  <2>2. \A e : ErrorReply(e).kind = "error"
    BY DEF ErrorReply
  <2> QED
    BY <2>1, <2>2
<1> QED
  BY <1>1, <1>2, <1>3, <1>4, <1>5, <1>6 DEF Next, RequestStep, FeesStep, SdkStep

LEMMA Invariance == Spec => [](IInv /\ Heard)
<1>1. IInv /\ Heard /\ [Next]_vars => (IInv /\ Heard)'
  BY StepKeepsIInv, StepKeepsHeard
<1>2. Init => Heard
  BY DEF Init, Heard, RejectionsAreAnswered
<1> QED
  BY <1>1, <1>2, InitImpliesIInv, PTL DEF Spec

-----------------------------------------------------------------------------
\* The variables keep their types; every error that is answered is one of the
\* application's or one the SDK threw.
THEOREM TypeCorrectness == Spec => []TypeOK
<1>1. IInv => TypeOK
  BY DEF IInv
<1> QED
  BY <1>1, Invariance, PTL

\* Preparing twice never submits twice, and only mode "submit" submits.
THEOREM NothingIsSubmittedTwice == Spec => []SubmittedAtMostOnce
<1>1. IInv => SubmittedAtMostOnce
  BY DEF IInv
<1> QED
  BY <1>1, Invariance, PTL

\* A result is only answered for a transaction that is finalized.
THEOREM ResultsAreFinal == Spec => []ResultMeansFinalized
<1>1. IInv => ResultMeansFinalized
  BY DEF IInv
<1> QED
  BY <1>1, Invariance, PTL

\* However many catch blocks an error passes, it keeps the class of its code.
THEOREM ErrorClassesSurvive == Spec => []ErrorClassSurvives
<1>1. IInv => ErrorClassSurvives
  BY DEF IInv
<1> QED
  BY <1>1, Invariance, PTL

\* Whatever order the promises of any number of requests settle in, the first
\* to reject answers its request.
THEOREM NoRejectionIsLost == Spec => []RejectionsAreAnswered
<1>1. Heard => RejectionsAreAnswered
  BY DEF Heard
<1> QED
  BY <1>1, Invariance, PTL
=============================================================================
