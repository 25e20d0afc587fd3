--------------------------- MODULE LegVerification ---------------------------
(***************************************************************************)
(* ConfidentialTransactionsService.verifyTransactionAmounts, decryptLeg    *)
(* and verifyAndAffirmLeg (src/confidential-transactions/                  *)
(* confidential-transactions.service.ts): one request that asks the proof  *)
(* server to decrypt the amounts of a transaction's proved legs with one   *)
(* key, all at the same time, and either reports them or affirms one leg   *)
(* if they are what the caller expects.  Meanwhile the sender may prove    *)
(* further legs and any party may reject the transaction.                  *)
(*                                                                         *)
(* The chain and the proof server are not part of the repository.  The     *)
(* server decrypts what is encrypted under the key and, when an expected   *)
(* amount is sent along, says whether it is the amount; without one its    *)
(* verdict may be either.                                                  *)
(*                                                                         *)
(* An operator whose comment starts with "Slip:" is a plausible mistake in *)
(* the definition that follows it, kept for mutation checks only.          *)
(***************************************************************************)
EXTENDS Naturals, Sequences, FiniteSets, SequencesExt, JsonNumber

CONSTANTS
    Endpoints,    \* of "verify" and "affirm", those that the request may be to
    LegCount,     \* legs are numbered from 0
    Assets,       \* every leg moves an amount of each of these
    Amounts,      \* amounts a sender may encrypt and a caller may expect
    MaxExpected,  \* bounds on a list of expected amounts, by endpoint
    Faults        \* of "decrypt" and "submit", the calls that may reject

ASSUME LegsAssumption ==
    /\ Endpoints \subseteq {"verify", "affirm"}
    /\ \A e \in Endpoints : MaxExpected[e] \in Nat
    /\ LegCount \in Nat /\ IsFiniteSet(Assets) /\ Amounts \subseteq Nat

Legs == 0 .. (LegCount - 1)
Expected == [asset : Assets, amount : Amounts]
ExpectedLists(e) == UNION {[1 .. n -> Expected] : n \in 0 .. MaxExpected[e]}

VARIABLES
    \* the chain
    auditor,    \* assets of each leg that the key is an auditor of
    receiver,   \* whether the key is the receiver of each leg
    amount,     \* what each leg moves of each asset
    proved,     \* legs the sender has affirmed with proofs
    txState,    \* "pending", or "rejected" by one of the parties
    affirmed,   \* legs affirmed by this request
    \* the request
    endpoint, target, expected,  \* its input: endpoint, leg, expected amounts
    pc,         \* where it stands
    details,    \* the legs getProofDetails returned as proved
    requests,   \* decrypt requests in flight, <<leg, asset>>
    responses,  \* each leg's responses, in the order they were pushed
    reply       \* what it was answered

chainVars == <<auditor, receiver, amount, proved, txState, affirmed>>
inputVars == <<auditor, receiver, amount, endpoint, target, expected>>
vars == <<chainVars, endpoint, target, expected, pc, details, requests,
          responses, reply>>

-----------------------------------------------------------------------------
\* Slip: only the receiver's own legs are decrypted.
EntitledAsReceiver(l, a) == receiver[l]

Entitled(l, a) == receiver[l] \/ a \in auditor[l]

\* Slip: the asset is not compared.
FindExpectedAny(l, a) ==
    IF expected[l] = <<>> THEN <<>> ELSE <<Head(expected[l]).amount>>

\* findExpectedAmount: the first entry of the list for the asset.
FindExpected(l, a) ==
    LET matches == {i \in DOMAIN expected[l] : expected[l][i].asset = a}
        first   == CHOOSE i \in matches : \A j \in matches : i <= j
    IN  IF matches = {} THEN <<>> ELSE <<expected[l][first].amount>>

\* Slip: isValid is left out of the response.
NotDecryptedUndefined(l, a, isProved) ==
    [leg |-> l, asset |-> a, isProved |-> isProved, decrypted |-> FALSE,
     amount |-> <<>>, valid |-> "undefined"]

NotDecrypted(l, a, isProved) ==
    [leg |-> l, asset |-> a, isProved |-> isProved, decrypted |-> FALSE,
     amount |-> <<>>, valid |-> "null"]

\* The amount that is sent along with a decrypt request, or none.
SentAmount(l, a) == [i \in DOMAIN FindExpected(l, a) |-> Number(FindExpected(l, a)[i])]

\* The proof server's possible verdicts on the true amount n, given what was
\* sent.  Whether it takes "nothing sent" for a match is up to the server.
ServerVerdicts(n, sent) ==
    IF sent = <<>> THEN {"valid", "invalid"}
    ELSE IF sent[1] = n THEN {"valid"} ELSE {"invalid"}

\* A response with the server's verdict and the amount it decrypted.
Decrypted(l, a, verdict) ==
    [leg |-> l, asset |-> a, isProved |-> TRUE, decrypted |-> TRUE,
     amount |-> <<Number(amount[l][a])>>, valid |-> verdict]

\* What every request comes with: a leg's expected amounts.
Expectations == expected \in [Legs -> ExpectedLists(endpoint)]

\* An affirmation names one leg, perhaps one that does not exist, and at least
\* one expected amount.
AffirmInput ==
    /\ endpoint = "affirm"
    /\ target \in 0 .. LegCount
    /\ Expectations
    /\ \A l \in Legs : expected[l] # <<>> <=> l = target

\* A report is about every leg and needs no expected amounts.
VerifyInput ==
    /\ endpoint = "verify"
    /\ target = 0
    /\ Expectations

\* What an affirmation does not look at is left at one value.
Init ==
    /\ endpoint \in Endpoints
    /\ AffirmInput \/ VerifyInput
    /\ auditor \in [Legs -> SUBSET Assets]
    /\ receiver \in [Legs -> BOOLEAN]
    /\ endpoint = "affirm" =>
           \A l \in Legs \ {target} : auditor[l] = {} /\ ~receiver[l]
    /\ amount \in [Legs -> [Assets -> Amounts]]
    /\ endpoint = "affirm" =>
           \A l \in Legs \ {target} : \A a \in Assets, n \in Amounts :
               amount[l][a] <= n
    /\ proved \in SUBSET Legs
    /\ txState = "pending"
    /\ affirmed = {}
    /\ pc = "fetching"
    /\ details = {}
    /\ requests = {}
    /\ responses = [l \in Legs |-> <<>>]
    /\ reply = [kind |-> "none"]

-----------------------------------------------------------------------------
(* The other parties. *)

SenderAffirms(l) ==
    /\ txState = "pending"
    /\ l \notin proved
    /\ proved' = proved \cup {l}
    /\ UNCHANGED <<inputVars, txState, affirmed, pc, details, requests,
                   responses, reply>>

PartyRejects ==
    /\ txState = "pending"
    /\ txState' = "rejected"
    /\ UNCHANGED <<inputVars, proved, affirmed, pc, details, requests,
                   responses, reply>>

-----------------------------------------------------------------------------
(* decryptLeg *)

Respond(answer) ==
    /\ pc' = "responded"
    /\ reply' = answer

Error(e) == [kind |-> "error", error |-> e]

\* The legs that are decrypted: all that are proved, or the one to affirm.
Decrypting(legs) == IF endpoint = "verify" THEN legs ELSE legs \cap {target}

\* What is known of leg l at once: for a pending leg, that nothing is proved;
\* for a proved one, which of its assets the key cannot decrypt.
ImmediateResponses(l, legs) ==
    IF l \in legs
    THEN LET others == {a \in Assets : ~Entitled(l, a)}
         IN  [i \in 1 .. Cardinality(others) |-> NotDecrypted(l, SetToSeq(others)[i], TRUE)]
    ELSE [i \in 1 .. Cardinality(Assets) |->
             NotDecrypted(l, SetToSeq(Assets)[i], FALSE)]

\* The requests to the proof server, one for each asset the key can decrypt.
DecryptRequests(legs) == {la \in Decrypting(legs) \X Assets : Entitled(la[1], la[2])}

\* getProofDetails resolves: all decrypt requests are sent.
GetProofDetails ==
    /\ pc = "fetching"
    /\ details' = proved
    /\ IF endpoint = "affirm" /\ target \notin proved
       THEN /\ Respond(Error("legNotProven"))
            /\ UNCHANGED <<requests, responses>>
       ELSE /\ pc' = "decrypting"
            /\ requests' = DecryptRequests(proved)
            /\ responses' = [l \in Legs |->
                   IF endpoint = "verify" \/ l = target
                   THEN ImmediateResponses(l, proved) ELSE <<>>]
            /\ UNCHANGED reply
    /\ UNCHANGED <<chainVars, endpoint, target, expected>>

\* A decrypt request is answered; the responses are pushed as they arrive.
ProofServerDecrypts(l, a) ==
    /\ <<l, a>> \in requests
    /\ requests' = requests \ {<<l, a>>}
    /\ \E verdict \in ServerVerdicts(amount[l][a], SentAmount(l, a)) :
          responses' = [responses EXCEPT ![l] = Append(@, Decrypted(l, a, verdict))]
    /\ UNCHANGED <<chainVars, endpoint, target, expected, pc, details, reply>>

\* Promise.all resolves once every asset of every leg has its response.
AllDecrypted ==
    \A l \in Decrypting(details) : Len(responses[l]) = Cardinality(Assets)

\* Slip: a failed request is logged and skipped.
SkipFailure == UNCHANGED <<pc, reply>>

\* Promise.all rejects at the first failure, if it has not answered yet.
RejectRequest == IF pc = "responded" THEN UNCHANGED <<pc, reply>>
                                     ELSE Respond(Error("proofServer"))

\* A decrypt request fails, and the endpoint with it: the other requests go
\* on, but nobody waits for them.
ProofServerFails(l, a) ==
    /\ "decrypt" \in Faults
    /\ <<l, a>> \in requests
    /\ requests' = requests \ {<<l, a>>}
    /\ RejectRequest
    /\ UNCHANGED <<chainVars, endpoint, target, expected, details, responses>>

-----------------------------------------------------------------------------
(* verifyTransactionAmounts *)

\* Slip: the responses are reported in the order the legs were returned in,
\* the pending ones first.
PendingFirst(rs) ==
    FlattenSeq([i \in 1 .. LegCount |-> SelectSeq(rs[i - 1], LAMBDA x : ~x.isProved)])
    \o FlattenSeq([i \in 1 .. LegCount |-> SelectSeq(rs[i - 1], LAMBDA x : x.isProved)])

\* The stable sort by leg.
SortedByLeg(rs) == FlattenSeq([i \in 1 .. LegCount |-> rs[i - 1]])

Report(rs) == [kind |-> "report", responses |-> rs]

ReportAmounts ==
    /\ pc = "decrypting" /\ endpoint = "verify"
    /\ AllDecrypted
    /\ Respond(Report(SortedByLeg(responses)))
    /\ UNCHANGED <<chainVars, endpoint, target, expected, details, requests, responses>>

-----------------------------------------------------------------------------
(* verifyAndAffirmLeg *)

\* Slip: only decrypted responses can fail, so a null verdict is let through.
FailedOnlyDecrypted(results) ==
    {i \in DOMAIN results : results[i].decrypted /\ results[i].valid = "invalid"}

\* results.filter(({ isValid }) => !isValid): null is a failure too.
FailedLegs(results) == {i \in DOMAIN results : results[i].valid # "valid"}

DecryptedResults(results) == {i \in DOMAIN results : results[i].decrypted}

DecryptedNotExpected(results, list) ==
    {results[i].asset : i \in DecryptedResults(results)} \ {e.asset : e \in ToSet(list)}

\* The checks, in their order, each with its own error.
Verdict(results, list) ==
    IF FailedLegs(results) # {} THEN "invalidLegs"
    ELSE IF Cardinality(DecryptedResults(results)) # Len(list) THEN "differentCount"
    ELSE IF DecryptedNotExpected(results, list) # {} THEN "differentAssets"
    ELSE "ok"

CheckAmounts ==
    /\ pc = "decrypting" /\ endpoint = "affirm"
    /\ AllDecrypted
    /\ LET verdict == Verdict(responses[target], expected[target]) IN
       IF verdict = "ok" THEN pc' = "affirming" /\ UNCHANGED reply
                         ELSE Respond(Error(verdict))
    /\ UNCHANGED <<chainVars, endpoint, target, expected, details, requests, responses>>

\* observerAffirmLeg: the transaction is fetched again and submitted, and the
\* chain takes the affirmation while the transaction is pending.
ObserverAffirmLeg ==
    /\ pc = "affirming"
    /\ IF txState = "pending"
       THEN /\ affirmed' = affirmed \cup {target}
            /\ Respond([kind |-> "affirmed"])
       ELSE /\ Respond(Error("chain"))
            /\ UNCHANGED affirmed
    /\ UNCHANGED <<inputVars, proved, txState, details, requests, responses>>

ObserverAffirmFails ==
    /\ pc = "affirming"
    /\ "submit" \in Faults
    /\ Respond(Error("submit"))
    /\ UNCHANGED <<chainVars, endpoint, target, expected, details, requests, responses>>

-----------------------------------------------------------------------------
ProofServerStep == \E l \in Legs, a \in Assets :
    ProofServerDecrypts(l, a) \/ ProofServerFails(l, a)

RequestStep ==
    GetProofDetails \/ ReportAmounts \/ CheckAmounts
    \/ ObserverAffirmLeg \/ ObserverAffirmFails

Next ==
    \/ \E l \in Legs : SenderAffirms(l)
    \/ PartyRejects
    \/ ProofServerStep
    \/ RequestStep

Spec == Init /\ [][Next]_vars

\* Calls settle: a request to the proof server has a time limit of 10 s.
FairSpec == Spec /\ WF_vars(RequestStep) /\ WF_vars(ProofServerStep)

-----------------------------------------------------------------------------
(* Properties. *)

Responses ==
    [leg : Legs, asset : Assets, isProved : BOOLEAN, decrypted : BOOLEAN,
     amount : {<<>>} \cup {<<Number(n)>> : n \in Amounts},
     valid : {"null", "valid", "invalid"}]

\* Shapes; in particular only proved legs are decrypted, and isValid is true,
\* false or null.
TypeOK ==
    /\ proved \subseteq Legs
    /\ details \subseteq proved
    /\ affirmed \subseteq Legs
    /\ txState \in {"pending", "rejected"}
    /\ pc \in {"fetching", "decrypting", "affirming", "responded"}
    /\ requests \subseteq Legs \X Assets
    /\ \A l \in Legs : ToSet(responses[l]) \subseteq Responses
    /\ reply.kind \in {"none", "error", "report", "affirmed"}

\* The endpoint's documentation: it "affirms if they are the expected amounts".
\* A leg is affirmed only when every amount it moves is the one the caller
\* expects, whatever order the decryptions finish in.
AffirmedAmountsAreExpected ==
    \A l \in affirmed : \A a \in Assets :
        [asset |-> a, amount |-> amount[l][a]] \in ToSet(expected[l])

\* Whatever the amounts, what is affirmed differs from what is expected by what
\* an IEEE double loses of it, so by one unit at most.
AffirmedAmountsAreNear ==
    \A l \in affirmed : \A a \in Assets : \E e \in ToSet(expected[l]) :
        /\ e.asset = a
        /\ amount[l][a] <= e.amount + 1 /\ e.amount <= amount[l][a] + 1

\* A caller who expects exactly the amounts of a leg that the key can decrypt
\* completely is not turned away by the checks.
CorrectAmountsAreAccepted ==
    reply.kind = "error" /\ endpoint = "affirm" /\ target \in Legs =>
        ~ /\ reply.error \in {"invalidLegs", "differentCount", "differentAssets"}
          /\ \A a \in Assets : Entitled(target, a)
          /\ Len(expected[target]) = Cardinality(Assets)
          /\ ToSet(expected[target]) =
                 {[asset |-> a, amount |-> amount[target][a]] : a \in Assets}

\* The report lists each asset of each leg exactly once, by leg, although its
\* entries come from concurrent requests that finish in any order.
ReportIsComplete ==
    reply.kind = "report" =>
        LET rs == reply.responses IN
        /\ Len(rs) = LegCount * Cardinality(Assets)
        /\ {<<rs[i].leg, rs[i].asset>> : i \in DOMAIN rs} = Legs \X Assets
        /\ \A i, j \in DOMAIN rs : i < j => rs[i].leg <= rs[j].leg

\* The report's documentation: an amount is decrypted "if the leg has been
\* proved and the specified key is either an auditor or the receiver"; and the
\* amount is the one the chain holds for that very leg and asset.
ReportIsTrue ==
    reply.kind = "report" =>
        \A x \in ToSet(reply.responses) :
            /\ x.decrypted <=>
                   x.isProved /\ (receiver[x.leg] \/ x.asset \in auditor[x.leg])
            /\ x.isProved => x.leg \in proved
            /\ x.decrypted => x.amount = <<amount[x.leg][x.asset]>>

\* Promise.all waits for a number of responses: until it has them all, one of
\* them is still on its way, so it does not wait in vain.
NothingIsAwaitedInVain ==
    pc = "decrypting" => AllDecrypted \/ requests # {}

\* The request is answered, even if a decryption fails.
RequestIsAnswered == pc = "fetching" ~> pc = "responded"
=============================================================================
