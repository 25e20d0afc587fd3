---------------------------- MODULE SenderProofs ----------------------------
(***************************************************************************)
(* The three requests that spend a confidential balance: senderAffirmLeg   *)
(* (confidential-transactions.service.ts), moveFunds                       *)
(* (confidential-accounts.service.ts) and burnConfidentialAsset            *)
(* (confidential-assets.service.ts).  Each reads encrypted balances, has   *)
(* the proof server make one proof per amount against the balance that was *)
(* read, and submits the proofs together.  An affirmation works through    *)
(* its amounts one after the other, a move has all of them in flight at    *)
(* once.  Between the read and the chain's check any other request or      *)
(* deposit may change the balance, and the proof is then stale.            *)
(*                                                                         *)
(* The chain and the proof server are not part of the repository.  A       *)
(* balance is a ciphertext: under its account's key, its value, and a      *)
(* version since the same value is never encrypted the same way twice.     *)
(* The chain takes all the proofs of a request or none, and checks each    *)
(* against the current ciphertext.                                         *)
(*                                                                         *)
(* An operator whose comment starts with "Slip:" is a plausible mistake in *)
(* the definition that follows it, kept for mutation checks only.          *)
(***************************************************************************)
EXTENDS Naturals, Sequences

CONSTANTS
    Requests,       \* requests that may be made at the same time
    Accounts,       \* confidential accounts
    Assets,         \* confidential assets
    Inputs,         \* what a request may ask for, see InputsAssumption
    InitialValue,   \* value of every balance at the start
    MaxDeposits,    \* bound on the deposits from elsewhere
    Faults          \* of "fetch", "getBalance", "proof" and "submit"

Items == [from : Accounts, to : Accounts, asset : Assets, amount : Nat]

\* kind: the request; legFound: whether the leg exists; legAssets: the assets
\* of the leg (both for an affirmation only); items: one for each amount.
RequestInputs(kind) == [kind : {kind}, legFound : BOOLEAN, legAssets : SUBSET Assets,
                        items : Seq(Items)]

\* An affirmation is of one leg, so between two accounts; a burn is of one
\* amount, and from one account.
AffirmInputs ==
    {x \in RequestInputs("affirm") :
        \A i, j \in DOMAIN x.items : /\ x.items[i].from = x.items[j].from
                                     /\ x.items[i].to = x.items[j].to}
MoveInputs == RequestInputs("move")
BurnInputs ==
    {x \in RequestInputs("burn") : Len(x.items) = 1 /\ x.items[1].from = x.items[1].to}

ASSUME InputsAssumption ==
    \A x \in Inputs : x \in AffirmInputs \/ x \in MoveInputs \/ x \in BurnInputs
ASSUME ValueAssumption == InitialValue \in Nat

VARIABLES
    balance,    \* the ciphertext of each account's balance of each asset
    deposits,   \* how often a balance has changed for another reason
    onChain,    \* requests whose proofs the chain has accepted
    input,      \* what each request asks for
    pc,         \* where each request stands
    stage,      \* where each of its items stands
    read,       \* the ciphertext read for each item
    reply,      \* what each request was answered
    atStart     \* history: the balances when the request came in

chainVars == <<balance, deposits, onChain>>
vars == <<chainVars, input, pc, stage, read, reply, atStart>>

-----------------------------------------------------------------------------
Ciphertexts == [key : Accounts, value : Nat, version : Nat]
NoCiphertext == [value |-> 0]

\* What replaces the ciphertext c when the balance becomes n.
NewCiphertext(c, n) == [key |-> c.key, value |-> n, version |-> c.version + 1]

Stages == {"waiting", "reading", "proving", "proved", "failed"}

ItemOf(r, i) == input[r].items[i]
ItemNumbers(r) == DOMAIN input[r].items
Spends(r, i, a, s) == ItemOf(r, i).from = a /\ ItemOf(r, i).asset = s
CurrentBalance(r, i) == balance[ItemOf(r, i).from][ItemOf(r, i).asset]

NoReply  == [kind |-> "none"]
Error(e) == [kind |-> "error", error |-> e]
Accepted == [kind |-> "result"]
Replies  == {NoReply, Accepted} \cup
    {Error(e) : e \in {"notFound", "invalidLeg", "assetNotInLeg", "getBalance",
                       "proof", "submit", "staleProof"}}

Init ==
    /\ balance = [a \in Accounts |-> [s \in Assets |->
                     [key |-> a, value |-> InitialValue, version |-> 0]]]
    /\ deposits = 0
    /\ onChain = {}
    /\ input \in [Requests -> Inputs]
    /\ pc = [r \in Requests |-> "idle"]
    /\ stage = [r \in Requests |-> [i \in ItemNumbers(r) |-> "waiting"]]
    /\ read = [r \in Requests |-> [i \in ItemNumbers(r) |-> NoCiphertext]]
    /\ reply = [r \in Requests |-> NoReply]
    /\ atStart = [r \in Requests |-> balance]

-----------------------------------------------------------------------------
Respond(r, answer) ==
    /\ pc' = [pc EXCEPT ![r] = "responded"]
    /\ reply' = [reply EXCEPT ![r] = answer]

Receive(r, kind) ==
    /\ pc[r] = "idle"
    /\ input[r].kind = kind
    /\ pc' = [pc EXCEPT ![r] = "fetching"]
    /\ atStart' = [atStart EXCEPT ![r] = balance]
    /\ UNCHANGED <<chainVars, input, stage, read, reply>>

ReceiveAffirmation(r) == Receive(r, "affirm")
ReceiveMove(r)        == Receive(r, "move")
ReceiveBurn(r)        == Receive(r, "burn")

\* The transaction and its legs, the accounts, or the asset are fetched.
FetchFails(r) ==
    /\ pc[r] = "fetching"
    /\ "fetch" \in Faults
    /\ Respond(r, Error("notFound"))
    /\ UNCHANGED <<chainVars, input, stage, read, atStart>>

InvalidLeg(r) ==
    /\ pc[r] = "fetching"
    /\ input[r].kind = "affirm" /\ ~input[r].legFound
    /\ Respond(r, Error("invalidLeg"))
    /\ UNCHANGED <<chainVars, input, stage, read, atStart>>

\* What is needed has been fetched: the given items begin, and the others wait.
Begin(r, kind, first) ==
    /\ pc[r] = "fetching"
    /\ input[r].kind = kind
    /\ pc' = [pc EXCEPT ![r] = IF ItemNumbers(r) = {} THEN "submitting" ELSE "proving"]
    /\ stage' = [stage EXCEPT ![r] = [i \in ItemNumbers(r) |->
                    IF i \in first THEN "reading" ELSE "waiting"]]
    /\ UNCHANGED <<chainVars, input, read, reply, atStart>>

\* The leg is there, and so is its sender: the loop starts.
FetchLeg(r) == input[r].legFound /\ Begin(r, "affirm", {1})

\* All moves start at the same time.
FetchAccounts(r) == Begin(r, "move", ItemNumbers(r))

FetchAsset(r) == Begin(r, "burn", {1})

-----------------------------------------------------------------------------
(* One item: read the balance, then have the proof made. *)

\* Slip: the failure of one item is left to the others to report.
FailLater(r, e) == UNCHANGED <<pc, reply>>

\* An affirmation's loop throws; a move's Promise.all rejects, once.
FailRequest(r, e) ==
    IF pc[r] = "proving" THEN Respond(r, Error(e)) ELSE UNCHANGED <<pc, reply>>

FailItem(r, i, e) ==
    /\ stage' = [stage EXCEPT ![r][i] = "failed"]
    /\ FailRequest(r, e)
    /\ UNCHANGED <<chainVars, input, read, atStart>>

\* The assets of the leg, as the transaction's model lists them.
AssetAuditors(r) == input[r].legAssets

InLeg(r, i) == input[r].kind = "affirm" => ItemOf(r, i).asset \in AssetAuditors(r)

\* The loop reaches an amount whose asset the leg does not have.
AssetNotInLeg(r, i) ==
    /\ stage[r][i] = "reading"
    /\ ~InLeg(r, i)
    /\ FailItem(r, i, "assetNotInLeg")

\* Slip: the balance is the receiver's.
ReceiverBalance(r, i) == balance[ItemOf(r, i).to][ItemOf(r, i).asset]

SenderBalance(r, i) == CurrentBalance(r, i)

ReadBalance(r, i) ==
    /\ stage[r][i] = "reading"
    /\ InLeg(r, i)
    /\ read' = [read EXCEPT ![r][i] = SenderBalance(r, i)]
    /\ stage' = [stage EXCEPT ![r][i] = "proving"]
    /\ UNCHANGED <<chainVars, input, pc, reply, atStart>>

ReadBalanceFails(r, i) ==
    /\ stage[r][i] = "reading"
    /\ InLeg(r, i)
    /\ "getBalance" \in Faults
    /\ FailItem(r, i, "getBalance")

\* Slip: the proof server is asked for more than the balance holds.
Unchecked(r, i) == TRUE

\* The proof server decrypts the balance and proves that it covers the amount.
Covered(r, i) == ItemOf(r, i).amount <= read[r][i].value

\* Slip: the proofs that could be made are submitted, and the others dropped.
SettledStage(s) == s \in {"proved", "failed"}

ReadyStage(s) == s = "proved"

\* The proofs are submitted when the last one is there; a loop goes on to its
\* next item.  Assets keep their auditors, so when these are read is left out.
GenerateProof(r, i) ==
    /\ stage[r][i] = "proving"
    /\ Covered(r, i)
    /\ stage' = [stage EXCEPT ![r] = [j \in ItemNumbers(r) |->
           IF j = i THEN "proved"
           ELSE IF j = i + 1 /\ stage[r][j] = "waiting" THEN "reading"
           ELSE stage[r][j]]]
    /\ pc' = IF \A j \in ItemNumbers(r) : ReadyStage(stage'[r][j])
             THEN [pc EXCEPT ![r] = "submitting"] ELSE pc
    /\ UNCHANGED <<chainVars, input, read, reply, atStart>>

GenerateProofFails(r, i) ==
    /\ stage[r][i] = "proving"
    /\ "proof" \in Faults \/ ~Covered(r, i)
    /\ FailItem(r, i, "proof")

-----------------------------------------------------------------------------
(* The chain. *)

\* No balance is spent from twice: the first spend makes the second's proof
\* stale.
SpendsEachBalanceOnce(r) ==
    \A i, j \in ItemNumbers(r) :
        Spends(r, i, ItemOf(r, j).from, ItemOf(r, j).asset) => i = j

ProofsAreCurrent(r) ==
    /\ SpendsEachBalanceOnce(r)
    /\ \A i \in ItemNumbers(r) : read[r][i] = CurrentBalance(r, i)

SpendBalances(r) ==
    /\ ProofsAreCurrent(r)
    /\ balance' = [a \in Accounts |-> [s \in Assets |->
           IF \E i \in ItemNumbers(r) : Spends(r, i, a, s)
           THEN LET spend == CHOOSE i \in ItemNumbers(r) : Spends(r, i, a, s)
                IN  NewCiphertext(balance[a][s], balance[a][s].value - ItemOf(r, spend).amount)
           ELSE balance[a][s]]]
    /\ onChain' = onChain \cup {r}

AcceptProofs(r) ==
    /\ pc[r] = "submitting"
    /\ SpendBalances(r)
    /\ Respond(r, Accepted)
    /\ UNCHANGED <<deposits, input, stage, read, atStart>>

RejectProofs(r) ==
    /\ pc[r] = "submitting"
    /\ ~ProofsAreCurrent(r)
    /\ Respond(r, Error("staleProof"))
    /\ UNCHANGED <<chainVars, input, stage, read, atStart>>

\* Some other call of submit fails, perhaps with the transaction on its way
\* (see ProcessTransaction).
SubmitFails(r) ==
    /\ pc[r] = "submitting"
    /\ "submit" \in Faults
    /\ pc' \in {[pc EXCEPT ![r] = "responded"], [pc EXCEPT ![r] = "abandoned"]}
    /\ reply' = [reply EXCEPT ![r] = Error("submit")]
    /\ UNCHANGED <<chainVars, input, stage, read, atStart>>

AcceptAbandoned(r) ==
    /\ pc[r] = "abandoned"
    /\ SpendBalances(r)
    /\ pc' = [pc EXCEPT ![r] = "responded"]
    /\ UNCHANGED <<deposits, input, stage, read, reply, atStart>>

\* A balance grows: the issuer issues, or incoming amounts are applied.
Deposit(a, s) ==
    /\ deposits < MaxDeposits
    /\ deposits' = deposits + 1
    /\ balance' = [balance EXCEPT ![a][s] = NewCiphertext(@, @.value + 1)]
    /\ UNCHANGED <<onChain, input, pc, stage, read, reply, atStart>>

IssueConfidentialAsset(a, s) == Deposit(a, s)
ApplyIncomingBalance(a, s)   == Deposit(a, s)

-----------------------------------------------------------------------------
ItemStep(r, i) ==
    \/ AssetNotInLeg(r, i)
    \/ ReadBalance(r, i) \/ ReadBalanceFails(r, i)
    \/ GenerateProof(r, i) \/ GenerateProofFails(r, i)

RequestStep(r) ==
    \/ FetchFails(r) \/ InvalidLeg(r)
    \/ FetchLeg(r) \/ FetchAccounts(r) \/ FetchAsset(r)
    \/ \E i \in ItemNumbers(r) : ItemStep(r, i)
    \/ AcceptProofs(r) \/ RejectProofs(r) \/ SubmitFails(r)

Next ==
    \/ \E r \in Requests :
          \/ ReceiveAffirmation(r) \/ ReceiveMove(r) \/ ReceiveBurn(r)
          \/ RequestStep(r) \/ AcceptAbandoned(r)
    \/ \E a \in Accounts, s \in Assets :
          IssueConfidentialAsset(a, s) \/ ApplyIncomingBalance(a, s)

Spec == Init /\ [][Next]_vars

\* Every call settles: the proof server's after 10 s at the latest, and the
\* chain includes or refuses what is submitted.
FairSpec == Spec /\ \A r \in Requests : WF_vars(RequestStep(r))

-----------------------------------------------------------------------------
(* Properties. *)

\* Shapes, and that no balance is ever overdrawn, since a value is a natural.
TypeOK ==
    /\ \A a \in Accounts, s \in Assets : balance[a][s] \in Ciphertexts
    /\ onChain \subseteq Requests
    /\ pc \in [Requests -> {"idle", "fetching", "proving", "submitting",
                         "abandoned", "responded"}]
    /\ \A r \in Requests :
          /\ stage[r] \in [ItemNumbers(r) -> Stages]
          /\ read[r] \in [ItemNumbers(r) -> Ciphertexts \cup {NoCiphertext}]
    /\ reply \in [Requests -> Replies]

\* A request is refused for a stale proof only if it lost a race (one of its
\* balances has changed since it came in) or spends one balance twice.
Disturbed(r) ==
    \E i \in ItemNumbers(r) :
        CurrentBalance(r, i) # atStart[r][ItemOf(r, i).from][ItemOf(r, i).asset]

RefusalMeansRace ==
    [][\A r \in Requests :
           reply'[r] = Error("staleProof") /\ reply[r] # reply'[r] =>
               Disturbed(r) \/ ~SpendsEachBalanceOnce(r)]_vars

\* Requests that race for balances do not all lose: without a deposit, one of
\* those that get as far as the chain is accepted.
RacesHaveAWinner ==
    \A r \in Requests :
        reply[r] = Error("staleProof") /\ SpendsEachBalanceOnce(r) =>
            onChain # {} \/ deposits > 0

\* The first answer is final: a proof that arrives after another of the same
\* request has failed changes nothing and gets nothing submitted.
NothingAfterTheAnswer ==
    [][\A r \in Requests : reply[r] # NoReply =>
           /\ reply'[r] = reply[r]
           /\ r \in onChain' \ onChain => reply[r] = Error("submit")]_vars

\* A request that waits for its proofs has an item under way: the loop of an
\* affirmation goes on to the next amount, and the last proof or the first
\* failure, whichever item it is of, ends the wait.
AnItemIsUnderWay ==
    \A r \in Requests : pc[r] = "proving" =>
        \E i \in ItemNumbers(r) : stage[r][i] \in {"reading", "proving"}

\* Every request is answered, whichever of its calls fail.
EveryRequestIsAnswered ==
    \A r \in Requests : pc[r] = "fetching" ~> reply[r] # NoReply
=============================================================================
