----------------------- MODULE AppliedBalances_proofs -----------------------
(***************************************************************************)
(* Proofs of the safety properties of AppliedBalances, for any assets, any *)
(* values, any length of the result and any outcomes of the proof server.  *)
(* A decryption writes to the place of its own entry and field (Decrypted) *)
(* and is in flight until it has (Awaited), so it does not matter which of *)
(* them comes back last and completes the answer.                          *)
(***************************************************************************)
EXTENDS AppliedBalances, TLAPS

Typed ==
    /\ \E n \in Nat : n # 0 /\ applied \in [1 .. n -> Entries]
    /\ txState \in {"pending", "finalized", "failed"}
    /\ pc \in {"submitted", "lookingUp", "decrypting", "responded"}
    /\ inFlight \subseteq Indices \X Fields

\* What has been decrypted of an entry is what was encrypted in it.
Decrypted ==
    /\ DOMAIN decrypted = Indices
    /\ \A i \in Indices :
          /\ DOMAIN decrypted[i] \subseteq Fields
          /\ \A f \in DOMAIN decrypted[i] : decrypted[i][f] = DecryptedValue(i, f)

\* What is missing is in flight, as long as no error has been answered.
Awaited ==
    /\ pc \in {"submitted", "lookingUp"} =>
          inFlight = {} /\ \A i \in Indices : DOMAIN decrypted[i] = {}
    /\ pc = "decrypting" =>
          /\ \A i \in Indices, f \in Fields : <<i, f>> \in inFlight \/ f \in DOMAIN decrypted[i]
          /\ \E i \in Indices : DOMAIN decrypted[i] # Fields

DecryptedEntryIs(entry, i) ==
    /\ entry.amount = <<DecryptedValue(i, "amount")>>
    /\ entry.balance = <<DecryptedValue(i, "balance")>>

\* An entry of a report is that of the same place in the list.
Answered ==
    /\ reply.kind \in {"none", "error", "report"}
    /\ reply.kind = "error" =>
          reply.error \in {"transaction", "AppNotFound", "AppInternal", "TypeError"}
    /\ reply.kind = "report" =>
          /\ reply.balances \in [Indices -> Reported]
          /\ \A i \in Indices :
                /\ reply.balances[i].asset = applied[i].asset
                /\ \/ reply.balances[i].amount = <<>> /\ reply.balances[i].balance = <<>>
                   \/ DecryptedEntryIs(reply.balances[i], i)

IInv == Typed /\ Decrypted /\ Awaited /\ Answered

-----------------------------------------------------------------------------
LEMMA InitImpliesIInv == Init => IInv
<1> SUFFICES ASSUME Init PROVE IInv
  OBVIOUS
<1>1. PICK n \in 1 .. MaxEntries : applied \in [1 .. n -> Entries]
  BY DEF Init, EntryLists
<1>2. Typed
  <2>1. n \in Nat /\ n # 0
    OBVIOUS
  <2> QED
    BY <1>1, <2>1 DEF Init, Typed
<1>3. decrypted = [i \in Indices |-> [f \in {} |-> 0]]
  BY DEF Init
<1>4. DOMAIN decrypted = Indices /\ \A i \in Indices : DOMAIN decrypted[i] = {}
  BY <1>3
<1>5. Decrypted /\ Awaited /\ Answered
  BY <1>4 DEF Init, Decrypted, Awaited, Answered
<1> QED
  BY <1>2, <1>5 DEF IInv

\* An answer in the place of the last one; all else stays.
LEMMA RespondIInv ==
    ASSUME IInv, NEW answer, Respond(answer), UNCHANGED <<applied, decrypted>>,
           txState' \in {"pending", "finalized", "failed"}, inFlight' \subseteq inFlight,
           \/ answer.kind = "error" /\ answer.error \in {"transaction", "AppNotFound", "AppInternal", "TypeError"}
           \/ answer.kind = "report" /\ answer.balances = [i \in Indices |-> Plain(i)]
    PROVE  IInv'
<1>1. pc' = "responded" /\ reply' = answer /\ Indices' = Indices
  BY DEF Respond, Indices
<1>2. Typed' /\ Decrypted' /\ Awaited'
  BY <1>1 DEF IInv, Typed, Decrypted, Awaited, DecryptedValue
<1>3. CASE answer.kind = "error" /\ answer.error \in {"transaction", "AppNotFound", "AppInternal", "TypeError"}
  <2>1. Answered'
    BY <1>1, <1>3 DEF Answered
  <2> QED
    BY <1>2, <2>1 DEF IInv
<1>4. CASE answer.kind = "report" /\ answer.balances = [i \in Indices |-> Plain(i)]
  <2>1. \A i \in Indices : applied[i] \in Entries
    BY DEF IInv, Typed, Indices
  <2>2. \A i \in Indices : Plain(i) \in Reported /\ Plain(i).asset = applied[i].asset
                           /\ Plain(i).amount = <<>> /\ Plain(i).balance = <<>>
    BY <2>1 DEF Plain, Reported, Entries
  <2>3. reply'.balances \in [Indices -> Reported] /\ \A i \in Indices : reply'.balances[i] = Plain(i)
    BY <1>1, <1>4, <2>2
  <2>4. Answered'
    BY <1>1, <1>4, <2>2, <2>3 DEF Answered
  <2> QED
    BY <1>2, <2>4 DEF IInv
<1> QED
  BY <1>3, <1>4

LEMMA TransactionFailsIInv == IInv /\ TransactionFails => IInv'
<1> SUFFICES ASSUME IInv, TransactionFails PROVE IInv'
  OBVIOUS
<1>1. /\ Respond(Error("transaction")) /\ txState' = "failed"
      /\ UNCHANGED <<applied, inFlight, decrypted>>
  BY DEF TransactionFails
<1>2. Error("transaction").kind = "error" /\ Error("transaction").error = "transaction"
  BY DEF Error
<1> QED
  BY <1>1, <1>2, RespondIInv

LEMMA TransactionSucceedsIInv == IInv /\ TransactionSucceeds => IInv'
<1> SUFFICES ASSUME IInv, TransactionSucceeds PROVE IInv'
  OBVIOUS
<1>1. /\ pc = "submitted" /\ txState' = "finalized" /\ pc' = "lookingUp"
      /\ UNCHANGED <<applied, inFlight, decrypted, reply>> /\ Indices' = Indices
  BY DEF TransactionSucceeds, Indices
<1> QED
  BY <1>1 DEF IInv, Typed, Decrypted, Awaited, Answered, DecryptedValue, DecryptedEntryIs

LEMMA LookUpFailsIInv ==
    ASSUME IInv, NEW outcome \in Outcomes, LookUpFails(outcome)
    PROVE  IInv'
<1> DEFINE answer == Report([i \in Indices |-> Plain(i)])
<1>1. Respond(answer) /\ UNCHANGED <<applied, txState, inFlight, decrypted>>
  BY DEF LookUpFails
<1>2. answer.kind = "report" /\ answer.balances = [i \in Indices |-> Plain(i)]
  BY DEF Report
<1>3. txState' \in {"pending", "finalized", "failed"}
  BY <1>1 DEF IInv, Typed
<1> HIDE DEF answer
<1> QED
  BY <1>1, <1>2, <1>3, RespondIInv

LEMMA LookUpAccountIInv == IInv /\ LookUpAccount => IInv'
<1> SUFFICES ASSUME IInv, LookUpAccount PROVE IInv'
  OBVIOUS
<1>1. /\ pc = "lookingUp" /\ pc' = "decrypting" /\ inFlight' = Indices \X Fields
      /\ UNCHANGED <<applied, txState, decrypted, reply>> /\ Indices' = Indices
  BY DEF LookUpAccount, Indices
<1>2. 1 \in Indices /\ DOMAIN decrypted[1] # Fields
  <2>1. 1 \in Indices
    BY DEF IInv, Typed, Indices
  <2> QED
    BY <1>1, <2>1 DEF IInv, Awaited, Fields
<1>3. Awaited'
  BY <1>1, <1>2 DEF Awaited
<1>4. Typed' /\ Decrypted' /\ Answered'
  BY <1>1 DEF IInv, Typed, Decrypted, Answered, DecryptedValue, DecryptedEntryIs
<1> QED
  BY <1>3, <1>4 DEF IInv

LEMMA DecryptIInv ==
    ASSUME IInv, NEW i \in Indices, NEW f \in Fields, Decrypt(i, f)
    PROVE  IInv'
<1>1. /\ inFlight' = inFlight \ {<<i, f>>} /\ UNCHANGED <<applied, txState>> /\ Indices' = Indices
      /\ decrypted' = [decrypted EXCEPT ![i] =
             [g \in DOMAIN @ \cup {f} |-> IF g = f THEN DecryptedValue(i, f) ELSE @[g]]]
  BY DEF Decrypt, Indices
<1>2. /\ DOMAIN decrypted' = Indices
      /\ decrypted'[i] = [g \in DOMAIN decrypted[i] \cup {f} |->
                             IF g = f THEN DecryptedValue(i, f) ELSE decrypted[i][g]]
      /\ \A j \in Indices \ {i} : decrypted'[j] = decrypted[j]
  BY <1>1 DEF IInv, Decrypted
<1>3. \A j \in Indices :
         /\ DOMAIN decrypted'[j] \subseteq Fields
         /\ \A g \in DOMAIN decrypted'[j] : decrypted'[j][g] = DecryptedValue(j, g)
  BY <1>2 DEF IInv, Decrypted
<1>4. Decrypted'
  BY <1>1, <1>2, <1>3 DEF Decrypted, DecryptedValue
<1>5. \A j \in Indices, g \in Fields : <<j, g>> \in inFlight \/ g \in DOMAIN decrypted[j] =>
         <<j, g>> \in inFlight' \/ g \in DOMAIN decrypted'[j]
  BY <1>1, <1>2
<1>6. CASE pc = "decrypting" /\ \A j \in Indices : DOMAIN decrypted'[j] = Fields
  <2> DEFINE balances == [j \in Indices |-> Complete(j)]
  <2>1. pc' = "responded" /\ reply' = Report(balances)
    BY <1>6 DEF Decrypt, Respond
  <2>2. \A j \in Indices : /\ applied[j] \in Entries
                           /\ decrypted'[j]["amount"] = DecryptedValue(j, "amount")
                           /\ decrypted'[j]["balance"] = DecryptedValue(j, "balance")
    BY <1>3, <1>6 DEF IInv, Typed, Indices, Fields
  <2>3. \A j \in Indices : /\ Complete(j) \in Reported
                           /\ Complete(j).asset = applied[j].asset
                           /\ DecryptedEntryIs(Complete(j), j)
    BY <2>2 DEF Complete, DecryptedEntry, DecryptedEntryIs, DecryptedValue, Reported, Entries
  <2>4. /\ reply'.kind = "report" /\ reply'.balances \in [Indices -> Reported]
        /\ \A j \in Indices : reply'.balances[j] = Complete(j)
    BY <2>1, <2>3 DEF Report
  <2>5. Answered'
    <3>1. (\A j \in Indices : /\ reply.balances[j].asset = applied[j].asset
                              /\ DecryptedEntryIs(reply.balances[j], j))'
      BY <1>1, <2>3, <2>4 DEF DecryptedEntryIs, DecryptedValue
    <3> QED
      BY <1>1, <2>4, <3>1 DEF Answered
  <2>6. Typed' /\ Awaited'
    BY <1>1, <2>1 DEF IInv, Typed, Awaited
  <2> QED
    BY <1>4, <2>5, <2>6 DEF IInv
<1>7. CASE ~(pc = "decrypting" /\ \A j \in Indices : DOMAIN decrypted'[j] = Fields)
  <2>1. UNCHANGED <<pc, reply>>
    BY <1>7 DEF Decrypt
  <2>2. Typed' /\ Answered'
    BY <1>1, <2>1 DEF IInv, Typed, Answered, DecryptedValue, DecryptedEntryIs
  <2>3. pc \notin {"submitted", "lookingUp"}
    BY DEF Decrypt, IInv, Awaited
  <2>4. Awaited'
    BY <1>1, <1>5, <1>7, <2>1, <2>3 DEF IInv, Awaited
  <2> QED
    BY <1>4, <2>2, <2>4 DEF IInv
<1> QED
  BY <1>6, <1>7

LEMMA DecryptFailsIInv ==
    ASSUME IInv, NEW i \in Indices, NEW f \in Fields, NEW outcome \in Outcomes,
           DecryptFails(i, f, outcome)
    PROVE  IInv'
<1>1. /\ outcome # "ok" /\ inFlight' \subseteq inFlight
      /\ UNCHANGED <<applied, txState, decrypted>> /\ RejectResolver(outcome) /\ Indices' = Indices
  BY DEF DecryptFails, Indices
<1>2. ErrorOf(outcome) \in {"transaction", "AppNotFound", "AppInternal", "TypeError"}
  BY <1>1, AppliedOutcomesAssumption DEF AllOutcomes, ErrorOf
<1>3. txState' \in {"pending", "finalized", "failed"}
  BY <1>1 DEF IInv, Typed
<1>4. CASE pc = "decrypting"
  <2>1. Respond(Error(ErrorOf(outcome)))
    BY <1>1, <1>4 DEF RejectResolver
  <2>2. /\ Error(ErrorOf(outcome)).kind = "error"
        /\ Error(ErrorOf(outcome)).error = ErrorOf(outcome)
    BY DEF Error
  <2> QED
    BY <1>1, <1>2, <1>3, <2>1, <2>2, RespondIInv
<1>5. CASE pc # "decrypting"
  <2>1. UNCHANGED <<pc, reply>>
    BY <1>1, <1>5 DEF RejectResolver
  <2> QED
    BY <1>1, <1>5, <2>1 DEF IInv, Typed, Decrypted, Awaited, Answered, DecryptedValue, DecryptedEntryIs
<1> QED
  BY <1>4, <1>5

LEMMA StepKeepsIInv == IInv /\ [Next]_vars => IInv'
<1> SUFFICES ASSUME IInv, [Next]_vars PROVE IInv'
  OBVIOUS
<1>1. CASE UNCHANGED vars
  BY <1>1 DEF vars, IInv, Typed, Decrypted, Awaited, Answered, DecryptedValue, DecryptedEntryIs, Indices
<1>2. CASE Next
  BY <1>2, TransactionFailsIInv, TransactionSucceedsIInv, LookUpFailsIInv, LookUpAccountIInv,
     DecryptIInv, DecryptFailsIInv
  DEF Next, ProofServerStep
<1> QED
  BY <1>1, <1>2

LEMMA Invariance == Spec => []IInv
  BY InitImpliesIInv, StepKeepsIInv, PTL DEF Spec

-----------------------------------------------------------------------------
\* Types, whatever the proof server answers: a request ends in one of four
\* errors, or in a report with an entry for each balance that was applied.
THEOREM TypeCorrectness == Spec => []TypeOK
<1>1. IInv => TypeOK
  BY DEF IInv, Typed, Decrypted, Answered, TypeOK
<1> QED
  BY <1>1, Invariance, PTL

\* Up to 2^53 a number comes back from the proof server as it was.
AmountsAreSafe == Values \subseteq 0 .. MaxSafe

\* In whatever order the decryptions of any number of balances come back, each
\* is reported with its own asset, and unchanged if a JSON number can hold it.
THEOREM NothingIsMixedUp ==
    ASSUME AmountsAreSafe PROVE Spec => []DecryptedBelongsToItsAsset
<1>1. IInv => DecryptedBelongsToItsAsset
  <2> SUFFICES ASSUME IInv, reply.kind = "report", NEW i \in DOMAIN reply.balances
               PROVE  LET entry == reply.balances[i] IN
                      /\ entry.amount # <<>> <=> entry.balance # <<>>
                      /\ entry.amount # <<>> =>
                            \E j \in Indices :
                                /\ applied[j].asset = entry.asset
                                /\ entry.amount = <<applied[j].amount>>
                                /\ entry.balance = <<applied[j].balance>>
    BY DEF DecryptedBelongsToItsAsset
  <2>1. i \in Indices /\ reply.balances[i].asset = applied[i].asset /\ applied[i] \in Entries
    BY DEF IInv, Typed, Answered, Indices
  <2>2. CASE reply.balances[i].amount = <<>> /\ reply.balances[i].balance = <<>>
    BY <2>2
  <2>3. CASE DecryptedEntryIs(reply.balances[i], i)
    <3>1. applied[i].amount \in 0 .. MaxSafe /\ applied[i].balance \in 0 .. MaxSafe
      BY <2>1 DEF AmountsAreSafe, Entries
    <3>2. DecryptedValue(i, "amount") = applied[i].amount
      BY <3>1, MaxSafeAssumption DEF DecryptedValue, Number
    <3>3. DecryptedValue(i, "balance") = applied[i].balance
      BY <3>1, MaxSafeAssumption DEF DecryptedValue, Number
    <3>4. /\ reply.balances[i].amount = <<applied[i].amount>>
          /\ reply.balances[i].balance = <<applied[i].balance>>
      BY <2>3, <3>2, <3>3 DEF DecryptedEntryIs
    <3> QED
      BY <2>1, <3>4
  <2> QED
    BY <2>1, <2>2, <2>3 DEF IInv, Answered
<1> QED
  BY <1>1, Invariance, PTL

\* A request never waits with nothing in flight, whatever comes back and in
\* whatever order.
THEOREM NothingIsAwaitedInVain == Spec => []AwaitedIsInFlight
<1>1. IInv => AwaitedIsInFlight
  BY DEF IInv, Decrypted, Awaited, AwaitedIsInFlight
<1> QED
  BY <1>1, Invariance, PTL
=============================================================================
