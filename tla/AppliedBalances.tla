-------------------------- MODULE AppliedBalances --------------------------
(***************************************************************************)
(* POST /confidential-accounts/:id/incoming-balances/apply                 *)
(* (confidential-accounts.controller.ts): once the transaction that        *)
(* applies the incoming balances is finalized, its result lists, for each  *)
(* asset, the encrypted amount applied and the new encrypted balance.  The *)
(* resolver looks the account up at the proof server and, if it is there,  *)
(* has every amount and balance decrypted, all at the same time; otherwise *)
(* it answers without the decrypted values.                                *)
(*                                                                         *)
(* requestProofServer (confidential-proofs.service.ts) turns what comes    *)
(* back from the proof server, if anything does, into a value or an error. *)
(*                                                                         *)
(* An operator whose comment starts with "Slip:" is a plausible mistake in *)
(* the definition that follows it, kept for mutation checks only.          *)
(***************************************************************************)
EXTENDS Naturals, Sequences, FiniteSets, JsonNumber

CONSTANTS
    Assets,         \* confidential assets that may have an incoming balance
    Values,         \* amounts and balances
    MaxEntries,     \* bound on the length of the result
    Outcomes        \* outcomes of a proof server request that may occur

\* The server knows the account or decrypts the value; it does not know the
\* account; it answers with another status; it does not answer within 10 s.
AllOutcomes == {"ok", "notFound", "otherStatus", "noResponse"}
ASSUME AppliedOutcomesAssumption == Outcomes \subseteq AllOutcomes

Entries == [asset : Assets, amount : Values, balance : Values]
EntryLists == UNION {[1 .. n -> Entries] : n \in 1 .. MaxEntries}

VARIABLES
    applied,    \* the transaction's result, appliedAssetBalances
    txState,    \* "pending", "finalized" or "failed"
    pc,         \* where the request stands
    inFlight,   \* decrypt requests in flight, <<index, field>>
    decrypted,  \* what has been decrypted of each entry, by field
    arrivals,   \* history: the indices of the entries, as they were completed
    reply       \* what the request was answered

vars == <<applied, txState, pc, inFlight, decrypted, arrivals, reply>>

-----------------------------------------------------------------------------
Fields == {"amount", "balance"}
Indices == DOMAIN applied

Error(e) == [kind |-> "error", error |-> e]

\* Slip: the response is thrown as it is.
ErrorOfStatus(outcome) == outcome

\* What requestProofServer throws for an outcome that is not a success.  When
\* nothing comes back there is no error.response, and destructuring it throws.
ErrorOf(outcome) ==
    CASE outcome = "notFound"    -> "AppNotFound"
      [] outcome = "otherStatus" -> "AppInternal"
      [] outcome = "noResponse"  -> "TypeError"

\* No list names an asset twice: an account has one balance of each.
Init ==
    /\ applied \in {list \in EntryLists :
                       \A i, j \in DOMAIN list : list[i].asset = list[j].asset => i = j}
    /\ txState = "pending"
    /\ pc = "submitted"
    /\ inFlight = {}
    /\ decrypted = [i \in Indices |-> [f \in {} |-> 0]]
    /\ arrivals = <<>>
    /\ reply = [kind |-> "none"]

Respond(answer) ==
    /\ pc' = "responded"
    /\ reply' = answer

TransactionFails ==
    /\ pc = "submitted"
    /\ txState' = "failed"
    /\ Respond(Error("transaction"))
    /\ UNCHANGED <<applied, inFlight, decrypted, arrivals>>

\* submit returns the result, and the resolver asks for the account.
TransactionSucceeds ==
    /\ pc = "submitted"
    /\ txState' = "finalized"
    /\ pc' = "lookingUp"
    /\ UNCHANGED <<applied, inFlight, decrypted, arrivals, reply>>

-----------------------------------------------------------------------------
(* The resolver. *)

Plain(i) == [asset   |-> applied[i].asset,
             amount  |-> <<>>,
             balance |-> <<>>]

\* Slip: decryptedBalances is filled as the decryptions complete.
EntryInOrderOfArrival(i) == decrypted'[arrivals'[i]]

\* Promise.all keeps the order of the entries.
DecryptedEntry(i) == decrypted'[i]

Complete(i) == [asset   |-> applied[i].asset,
                amount  |-> <<DecryptedEntry(i)["amount"]>>,
                balance |-> <<DecryptedEntry(i)["balance"]>>]

Report(balances) == [kind |-> "report", balances |-> balances]

\* Any error of the look-up is caught, and without the account nothing is
\* decrypted.
LookUpFails(outcome) ==
    /\ pc = "lookingUp"
    /\ outcome # "ok"
    /\ Respond(Report([i \in Indices |-> Plain(i)]))
    /\ UNCHANGED <<applied, txState, inFlight, decrypted, arrivals>>

LookUpAccount ==
    /\ pc = "lookingUp"
    /\ "ok" \in Outcomes
    /\ inFlight' = Indices \X Fields
    /\ pc' = "decrypting"
    /\ UNCHANGED <<applied, txState, decrypted, arrivals, reply>>

DecryptedValue(i, f) == Number(applied[i][f])

\* One value comes back; the last one completes the answer, unless an error
\* has been answered already.
Decrypt(i, f) ==
    /\ <<i, f>> \in inFlight
    /\ "ok" \in Outcomes
    /\ inFlight' = inFlight \ {<<i, f>>}
    /\ decrypted' = [decrypted EXCEPT ![i] =
           [g \in DOMAIN @ \cup {f} |-> IF g = f THEN DecryptedValue(i, f) ELSE @[g]]]
    /\ arrivals' = IF DOMAIN decrypted'[i] = Fields THEN Append(arrivals, i) ELSE arrivals
    /\ IF pc = "decrypting" /\ \A j \in Indices : DOMAIN decrypted'[j] = Fields
       THEN Respond(Report([j \in Indices |-> Complete(j)]))
       ELSE UNCHANGED <<pc, reply>>
    /\ UNCHANGED <<applied, txState>>

\* Slip: a failed decryption leaves the request waiting.
KeepWaiting(outcome) == UNCHANGED <<pc, reply>>

\* Promise.all rejects with the first error, and so does the resolver.
RejectResolver(outcome) ==
    IF pc = "decrypting" THEN Respond(Error(ErrorOf(outcome))) ELSE UNCHANGED <<pc, reply>>

DecryptFails(i, f, outcome) ==
    /\ <<i, f>> \in inFlight
    /\ outcome # "ok"
    /\ inFlight' = inFlight \ {<<i, f>>}
    /\ RejectResolver(outcome)
    /\ UNCHANGED <<applied, txState, decrypted, arrivals>>

-----------------------------------------------------------------------------
ProofServerStep ==
    \/ LookUpAccount \/ \E o \in Outcomes : LookUpFails(o)
    \/ \E i \in Indices, f \in Fields :
          Decrypt(i, f) \/ \E o \in Outcomes : DecryptFails(i, f, o)

Next == TransactionFails \/ TransactionSucceeds \/ ProofServerStep

Spec == Init /\ [][Next]_vars

\* A request to the proof server settles, after 10 s at the latest.  Nothing
\* is assumed of the transaction.
FairSpec == Spec /\ WF_vars(ProofServerStep)

-----------------------------------------------------------------------------
(* Properties. *)

Reported == [asset : Assets, amount : {<<>>} \cup {<<Number(n)>> : n \in Values},
             balance : {<<>>} \cup {<<Number(n)>> : n \in Values}]

\* Shapes; in particular the errors that requestProofServer can end in, and a
\* report with one entry for each that was applied.
TypeOK ==
    /\ txState \in {"pending", "finalized", "failed"}
    /\ pc \in {"submitted", "lookingUp", "decrypting", "responded"}
    /\ inFlight \subseteq Indices \X Fields
    /\ \A i \in Indices : DOMAIN decrypted[i] \subseteq Fields
    /\ reply.kind \in {"none", "error", "report"}
    /\ reply.kind = "error" =>
          reply.error \in {"transaction", "AppNotFound", "AppInternal", "TypeError"}
    /\ reply.kind = "report" =>
          reply.balances \in [Indices -> Reported]

\* Each decrypted amount and balance is reported with the asset it belongs to,
\* whatever order the decryptions complete in.
DecryptedBelongsToItsAsset ==
    reply.kind = "report" =>
        \A i \in DOMAIN reply.balances :
            LET entry == reply.balances[i] IN
            /\ entry.amount # <<>> <=> entry.balance # <<>>
            /\ entry.amount # <<>> =>
                  \E j \in Indices :
                      /\ applied[j].asset = entry.asset
                      /\ entry.amount = <<applied[j].amount>>
                      /\ entry.balance = <<applied[j].balance>>

\* A request that waits for decryptions has one in flight: the one that comes
\* back last, with a value or an error, completes the answer.
AwaitedIsInFlight == pc = "decrypting" => inFlight # {}

\* The request is answered once its transaction is finalized.
AppliedIsAnswered == txState = "finalized" ~> pc = "responded"

-----------------------------------------------------------------------------
(* What a comment says, and the code does not do. *)

\* "If there is any error with the proof server then the amounts won't get
\* decrypted": so the error is not the answer.
ProofServerErrorsAreTolerated ==
    reply.kind = "error" => txState = "failed"
=============================================================================
