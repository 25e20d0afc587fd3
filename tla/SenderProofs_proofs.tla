------------------------ MODULE SenderProofs_proofs ------------------------
(***************************************************************************)
(* Theorems about SenderProofs, for any number of requests, accounts,      *)
(* assets and items, any inputs and any number of deposits.                *)
(***************************************************************************)
EXTENDS SenderProofs, WellFoundedInduction, TLAPS

Balances == [Accounts -> [Assets -> Ciphertexts]]

\* The variables' shapes, the ones TypeOK leaves out included.
Typed ==
    /\ input \in [Requests -> Inputs]
    /\ balance \in Balances
    /\ atStart \in [Requests -> Balances]
    /\ deposits \in Nat
    /\ DOMAIN stage = Requests
    /\ DOMAIN read = Requests
    /\ TypeOK

\* Where a request stands and where its items stand agree: it is submitted
\* when all are proved, and an item that still runs has a request that waits
\* for it or a failed sibling.
Progress ==
    \A r \in Requests :
        /\ pc[r] \in {"idle", "fetching"} =>
               \A i \in ItemNumbers(r) : stage[r][i] = "waiting"
        /\ pc[r] \in {"submitting", "abandoned"} =>
               \A i \in ItemNumbers(r) : stage[r][i] = "proved"
        /\ \A i \in ItemNumbers(r) : stage[r][i] \in {"reading", "proving"} =>
               pc[r] = "proving" \/ \E j \in ItemNumbers(r) : stage[r][j] = "failed"
        /\ pc[r] \in {"idle", "fetching", "proving", "submitting"} => reply[r] = NoReply
        /\ pc[r] = "abandoned" => reply[r] = Error("submit")

\* A ciphertext c is x, or x replaced it later.
Precedes(c, x) == c = x \/ c.version < x.version

\* A balance that has been read was current at some time since its request
\* came in, and a proof covers what was read.
Read ==
    \A r \in Requests :
        /\ \A a \in Accounts, s \in Assets : Precedes(atStart[r][a][s], balance[a][s])
        /\ \A i \in ItemNumbers(r) : stage[r][i] \in {"proving", "proved"} =>
               /\ read[r][i] \in Ciphertexts
               /\ Precedes(atStart[r][ItemOf(r, i).from][ItemOf(r, i).asset], read[r][i])
               /\ Precedes(read[r][i], CurrentBalance(r, i))
        /\ \A i \in ItemNumbers(r) : stage[r][i] = "proved" =>
               ItemOf(r, i).amount <= read[r][i].value

\* While no balance has changed, whatever was read is still current.
Untouched ==
    onChain = {} /\ deposits = 0 =>
        \A r \in Requests : \A i \in ItemNumbers(r) :
            stage[r][i] \in {"proving", "proved"} => read[r][i] = CurrentBalance(r, i)

\* While a request waits for its proofs, none of its items has failed, some
\* item has not been proved, and no item waits behind one that has been.
Looping ==
    \A r \in Requests : pc[r] = "proving" =>
        /\ \E i \in ItemNumbers(r) : stage[r][i] # "proved"
        /\ \A i \in ItemNumbers(r) :
              /\ stage[r][i] # "failed"
              /\ stage[r][i] = "waiting" => i # 1 /\ stage[r][i - 1] # "proved"

IInv == Typed /\ Progress /\ Read /\ Untouched /\ RacesHaveAWinner

-----------------------------------------------------------------------------
\* What a request's input is made of.
LEMMA InputsAreItems ==
    ASSUME input \in [Requests -> Inputs], NEW r \in Requests
    PROVE  /\ input[r].kind \in {"affirm", "move", "burn"}
           /\ ItemNumbers(r) \subseteq Nat
           /\ \A i \in ItemNumbers(r) :
                 /\ ItemOf(r, i) \in Items
                 /\ ItemOf(r, i).from \in Accounts
                 /\ ItemOf(r, i).to \in Accounts
                 /\ ItemOf(r, i).asset \in Assets
                 /\ ItemOf(r, i).amount \in Nat
<1>1. input[r] \in Inputs
  OBVIOUS
<1>2. input[r].items \in Seq(Items) /\ input[r].kind \in {"affirm", "move", "burn"}
  BY <1>1, InputsAssumption DEF AffirmInputs, MoveInputs, BurnInputs, RequestInputs
<1>3. DOMAIN input[r].items \subseteq Nat
  BY <1>2
<1>4. \A i \in DOMAIN input[r].items : input[r].items[i] \in Items
  BY <1>2
<1> QED
  BY <1>2, <1>3, <1>4 DEF ItemNumbers, ItemOf, Items

\* The proofs of a request that is accepted are of balances that cover them,
\* so the balances stay naturals, each with a new version.
LEMMA SpendingKeepsBalances ==
    ASSUME Typed, Progress, Read, NEW r \in Requests,
           pc[r] \in {"submitting", "abandoned"}, SpendBalances(r)
    PROVE  /\ balance' \in Balances
           /\ \A a \in Accounts, s \in Assets : Precedes(balance[a][s], balance'[a][s])
           /\ onChain' = onChain \cup {r}
<1> DEFINE Spent(a, s) == \E i \in ItemNumbers(r) : Spends(r, i, a, s)
           Spender(a, s) == CHOOSE i \in ItemNumbers(r) : Spends(r, i, a, s)
           After(a, s) ==
               IF Spent(a, s)
               THEN NewCiphertext(balance[a][s],
                                  balance[a][s].value - ItemOf(r, Spender(a, s)).amount)
               ELSE balance[a][s]
<1>1. balance' = [a \in Accounts |-> [s \in Assets |-> After(a, s)]]
  BY DEF SpendBalances
<1>2. ASSUME NEW a \in Accounts, NEW s \in Assets
      PROVE  After(a, s) \in Ciphertexts /\ Precedes(balance[a][s], After(a, s))
  <2>1. balance[a][s] \in Ciphertexts
    BY DEF Typed, TypeOK
  <2>2. CASE ~Spent(a, s)
    BY <2>1, <2>2 DEF Precedes
  <2>3. CASE Spent(a, s)
    <3> DEFINE i == Spender(a, s)
    <3>1. i \in ItemNumbers(r) /\ Spends(r, i, a, s)
      BY <2>3
    <3>2. CurrentBalance(r, i) = balance[a][s]
      BY <3>1 DEF CurrentBalance, Spends
    <3>3. read[r][i] = balance[a][s]
      BY <3>1, <3>2 DEF SpendBalances, ProofsAreCurrent
    <3>4. stage[r][i] = "proved"
      BY <3>1 DEF Progress
    <3>5. ItemOf(r, i).amount <= read[r][i].value
      BY <3>1, <3>4 DEF Read
    <3>6. ItemOf(r, i).amount \in Nat
      BY <3>1, InputsAreItems DEF Typed
    <3> HIDE DEF i
    <3> DEFINE n == ItemOf(r, i).amount
    <3>7. n \in Nat /\ n <= balance[a][s].value
      BY <3>3, <3>5, <3>6
    <3> HIDE DEF n
    <3>8. After(a, s) = NewCiphertext(balance[a][s], balance[a][s].value - n)
      BY <2>3 DEF n, i
    <3> QED
      BY <2>1, <3>7, <3>8 DEF Ciphertexts, Precedes, NewCiphertext
  <2> QED
    BY <2>2, <2>3
<1> HIDE DEF After
<1>3. onChain' = onChain \cup {r}
  BY DEF SpendBalances
<1> QED
  BY <1>1, <1>2, <1>3 DEF Balances

\* Every step leaves each balance as it is, or replaces it; and only an
\* acceptance or a deposit replaces one.
LEMMA BalancesGrowVersions ==
    ASSUME IInv, Next
    PROVE  /\ input' = input
           /\ balance' \in Balances
           /\ \A a \in Accounts, s \in Assets : Precedes(balance[a][s], balance'[a][s])
           /\ onChain \subseteq onChain' /\ onChain' \subseteq Requests
           /\ deposits' \in Nat
           /\ onChain' = {} /\ deposits' = 0 =>
                  onChain = {} /\ deposits = 0 /\ balance' = balance
<1> USE DEF IInv, Typed, TypeOK
<1>1. ASSUME NEW r \in Requests, AcceptProofs(r) \/ AcceptAbandoned(r)
      PROVE  /\ input' = input /\ balance' \in Balances /\ onChain' = onChain \cup {r}
             /\ \A a \in Accounts, s \in Assets : Precedes(balance[a][s], balance'[a][s])
             /\ deposits' = deposits
  <2>1. SpendBalances(r) /\ pc[r] \in {"submitting", "abandoned"}
    BY <1>1 DEF AcceptProofs, AcceptAbandoned
  <2> QED
    BY <1>1, <2>1, SpendingKeepsBalances DEF AcceptProofs, AcceptAbandoned
<1>2. ASSUME NEW a \in Accounts, NEW s \in Assets, Deposit(a, s)
      PROVE  /\ input' = input /\ balance' \in Balances /\ onChain' = onChain
             /\ \A b \in Accounts, t \in Assets : Precedes(balance[b][t], balance'[b][t])
             /\ deposits' = deposits + 1
  BY <1>2 DEF Deposit, Balances, Ciphertexts, Precedes, NewCiphertext
<1>3. ASSUME NEW r \in Requests,
             \/ ReceiveAffirmation(r) \/ ReceiveMove(r) \/ ReceiveBurn(r)
             \/ FetchFails(r) \/ InvalidLeg(r)
             \/ FetchLeg(r) \/ FetchAccounts(r) \/ FetchAsset(r)
             \/ \E i \in ItemNumbers(r) : ItemStep(r, i)
             \/ RejectProofs(r) \/ SubmitFails(r)
      PROVE  UNCHANGED <<chainVars, input>>
  BY <1>3 DEF ReceiveAffirmation, ReceiveMove, ReceiveBurn, Receive, FetchFails,
     InvalidLeg, FetchLeg, FetchAccounts, FetchAsset, Begin, ItemStep, AssetNotInLeg,
     ReadBalance, ReadBalanceFails, GenerateProof, GenerateProofFails, FailItem,
     RejectProofs, SubmitFails, chainVars
<1>4. UNCHANGED <<chainVars, input>> =>
          \A a \in Accounts, s \in Assets : Precedes(balance[a][s], balance'[a][s])
  BY DEF chainVars, Precedes
<1>5. CASE \E a \in Accounts, s \in Assets : Deposit(a, s)
  BY <1>2, <1>5
<1>6. CASE \E r \in Requests : AcceptProofs(r) \/ AcceptAbandoned(r)
  BY <1>1, <1>6
<1>7. CASE UNCHANGED <<chainVars, input>>
  BY <1>4, <1>7 DEF chainVars
<1> QED
  BY <1>3, <1>5, <1>6, <1>7 DEF Next, RequestStep, IssueConfidentialAsset,
     ApplyIncomingBalance

\* The initial states satisfy the invariant.
LEMMA InvariantHoldsInitially == Init => IInv
<1> SUFFICES ASSUME Init PROVE IInv
  OBVIOUS
<1>1. Typed
  BY ValueAssumption DEF Init, Typed, TypeOK, Balances, Ciphertexts, Stages, Replies,
     NoReply
<1>2. Progress
  BY DEF Init, Progress, ItemNumbers
<1>3. Read
  BY <1>1 DEF Init, Read, Precedes, Typed, Balances
<1>4. Untouched /\ RacesHaveAWinner
  BY DEF Init, Untouched, RacesHaveAWinner, NoReply, Error
<1> QED
  BY <1>1, <1>2, <1>3, <1>4 DEF IInv

\* What the steps do to a request's items, whoever takes them.
LEMMA InputsAreKept ==
    ASSUME input' = input
    PROVE  \A r, i : /\ ItemNumbers(r)' = ItemNumbers(r)
                     /\ ItemOf(r, i)' = ItemOf(r, i)
                     /\ SpendsEachBalanceOnce(r)' = SpendsEachBalanceOnce(r)
BY DEF ItemNumbers, ItemOf, SpendsEachBalanceOnce, Spends

\* Every step keeps the variables' shapes.
LEMMA TypedIsKept == ASSUME IInv, Next PROVE Typed'
<1> DEFINE Kept ==
        /\ atStart' \in [Requests -> Balances]
        /\ DOMAIN stage' = Requests
        /\ DOMAIN read' = Requests
        /\ pc' \in [Requests -> {"idle", "fetching", "proving", "submitting",
                                "abandoned", "responded"}]
        /\ \A q \in Requests :
              /\ stage'[q] \in [ItemNumbers(q) -> Stages]
              /\ read'[q] \in [ItemNumbers(q) -> Ciphertexts \cup {NoCiphertext}]
        /\ reply' \in [Requests -> Replies]
<1> USE DEF IInv, Typed, TypeOK
<1>a. SUFFICES Kept
  <2>1. \A q \in Requests : ItemNumbers(q)' = ItemNumbers(q)
    BY BalancesGrowVersions, InputsAreKept
  <2>2. \A a \in Accounts, s \in Assets : balance'[a][s] \in Ciphertexts
    BY BalancesGrowVersions DEF Balances
  <2> QED
    BY BalancesGrowVersions, <2>1, <2>2 DEF Ciphertexts, Balances
<1>b. \A r \in Requests : \A i \in ItemNumbers(r) : CurrentBalance(r, i) \in Ciphertexts
  BY InputsAreItems DEF CurrentBalance
<1>c. /\ NoReply \in Replies /\ Accepted \in Replies
      /\ \A e \in {"notFound", "invalidLeg", "assetNotInLeg", "getBalance",
                   "proof", "submit", "staleProof"} : Error(e) \in Replies
  BY DEF Replies
<1>1. ASSUME NEW r \in Requests, ReceiveAffirmation(r) \/ ReceiveMove(r) \/ ReceiveBurn(r)
      PROVE  Kept
  BY <1>1, <1>b, <1>c DEF ReceiveAffirmation, ReceiveMove, ReceiveBurn, Receive, Stages, chainVars
<1>2. ASSUME NEW r \in Requests, FetchFails(r) \/ InvalidLeg(r)
      PROVE  Kept
  BY <1>2, <1>b, <1>c DEF FetchFails, InvalidLeg, Respond, Stages, chainVars
<1>3. ASSUME NEW r \in Requests, NEW kind, NEW first, Begin(r, kind, first)
      PROVE  Kept
  <2>1. \A q \in Requests : stage'[q] \in [ItemNumbers(q) -> Stages]
    BY <1>3 DEF Begin, Stages
  <2>2. /\ DOMAIN stage' = Requests
        /\ pc' \in [Requests -> {"idle", "fetching", "proving", "submitting",
                                "abandoned", "responded"}]
    BY <1>3 DEF Begin
  <2> QED
    BY <1>3, <2>1, <2>2 DEF Begin
<1>4. ASSUME NEW r \in Requests, NEW i \in ItemNumbers(r),
             AssetNotInLeg(r, i) \/ ReadBalanceFails(r, i) \/ GenerateProofFails(r, i)
      PROVE  Kept
  <2>1. PICK e \in {"assetNotInLeg", "getBalance", "proof"} : FailItem(r, i, e)
    BY <1>4 DEF AssetNotInLeg, ReadBalanceFails, GenerateProofFails
  <2>2. \A q \in Requests : stage'[q] \in [ItemNumbers(q) -> Stages]
    BY <2>1 DEF FailItem, Stages
  <2>3. /\ pc' \in [Requests -> {"idle", "fetching", "proving", "submitting",
                                "abandoned", "responded"}]
        /\ reply' \in [Requests -> Replies]
    BY <2>1, <1>c DEF FailItem, FailRequest, Respond
  <2> QED
    BY <2>1, <2>2, <2>3 DEF FailItem
<1>5. ASSUME NEW r \in Requests, NEW i \in ItemNumbers(r), ReadBalance(r, i)
      PROVE  Kept
  BY <1>5, <1>b, <1>c DEF ReadBalance, SenderBalance, Stages, chainVars
<1>6. ASSUME NEW r \in Requests, NEW i \in ItemNumbers(r), GenerateProof(r, i)
      PROVE  Kept
  BY <1>6, <1>b, <1>c DEF GenerateProof, ReadyStage, Stages, chainVars
<1>7. ASSUME NEW r \in Requests, AcceptProofs(r)
      PROVE  Kept
  BY <1>7, <1>b, <1>c DEF AcceptProofs, Respond, Stages, chainVars
<1>8. ASSUME NEW r \in Requests, RejectProofs(r)
      PROVE  Kept
  BY <1>8, <1>b, <1>c DEF RejectProofs, Respond, Stages, chainVars
<1>9. ASSUME NEW r \in Requests, SubmitFails(r)
      PROVE  Kept
  BY <1>9, <1>b, <1>c DEF SubmitFails, Stages, chainVars
<1>10. ASSUME NEW r \in Requests, AcceptAbandoned(r)
      PROVE  Kept
  BY <1>10, <1>b, <1>c DEF AcceptAbandoned, Stages, chainVars
<1>11. ASSUME NEW a \in Accounts, NEW s \in Assets, Deposit(a, s)
      PROVE  Kept
  BY <1>11, <1>b, <1>c DEF Deposit, Stages, chainVars
<1> QED
  BY <1>1, <1>2, <1>3, <1>4, <1>5, <1>6, <1>7, <1>8, <1>9, <1>10, <1>11
     DEF Next, RequestStep, FetchLeg, FetchAccounts, FetchAsset, ItemStep, IssueConfidentialAsset, ApplyIncomingBalance

\* Every step keeps a request and its items in agreement.
LEMMA ProgressIsKept == ASSUME IInv, Next PROVE Progress'
<1> DEFINE Kept ==
      \A q \in Requests :
        /\ pc'[q] \in {"idle", "fetching"} =>
               \A j \in ItemNumbers(q) : stage'[q][j] = "waiting"
        /\ pc'[q] \in {"submitting", "abandoned"} =>
               \A j \in ItemNumbers(q) : stage'[q][j] = "proved"
        /\ \A j \in ItemNumbers(q) : stage'[q][j] \in {"reading", "proving"} =>
               pc'[q] = "proving" \/ \E k \in ItemNumbers(q) : stage'[q][k] = "failed"
        /\ pc'[q] \in {"idle", "fetching", "proving", "submitting"} => reply'[q] = NoReply
        /\ pc'[q] = "abandoned" => reply'[q] = Error("submit")
<1> USE DEF IInv, Typed, TypeOK, Progress
<1>a. SUFFICES Kept
  <2>1. \A q \in Requests : ItemNumbers(q)' = ItemNumbers(q)
    BY BalancesGrowVersions, InputsAreKept
  <2> QED
    BY <2>1 DEF Error, NoReply
<1>1. ASSUME NEW r \in Requests, ReceiveAffirmation(r) \/ ReceiveMove(r) \/ ReceiveBurn(r)
      PROVE  Kept
  BY <1>1 DEF ReceiveAffirmation, ReceiveMove, ReceiveBurn, Receive, Error, NoReply, chainVars
<1>2. ASSUME NEW r \in Requests, FetchFails(r) \/ InvalidLeg(r)
      PROVE  Kept
  BY <1>2 DEF FetchFails, InvalidLeg, Respond, Error, NoReply, chainVars
<1>3. ASSUME NEW r \in Requests, FetchLeg(r) \/ FetchAccounts(r) \/ FetchAsset(r)
      PROVE  Kept
  BY <1>3 DEF FetchLeg, FetchAccounts, FetchAsset, Begin, Error, NoReply, chainVars
<1>4. ASSUME NEW r \in Requests, NEW i \in ItemNumbers(r), AssetNotInLeg(r, i) \/ ReadBalanceFails(r, i) \/ GenerateProofFails(r, i)
      PROVE  Kept
  BY <1>4 DEF AssetNotInLeg, ReadBalanceFails, GenerateProofFails, FailItem, FailRequest, Respond, Error, NoReply, chainVars
<1>5. ASSUME NEW r \in Requests, NEW i \in ItemNumbers(r), ReadBalance(r, i)
      PROVE  Kept
  BY <1>5 DEF ReadBalance, SenderBalance, Error, NoReply, chainVars
<1>6. ASSUME NEW r \in Requests, NEW i \in ItemNumbers(r), GenerateProof(r, i)
      PROVE  Kept
  BY <1>6 DEF GenerateProof, ReadyStage, Error, NoReply, chainVars
<1>7. ASSUME NEW r \in Requests, AcceptProofs(r)
      PROVE  Kept
  BY <1>7 DEF AcceptProofs, Respond, Error, NoReply, chainVars
<1>8. ASSUME NEW r \in Requests, RejectProofs(r)
      PROVE  Kept
  BY <1>8 DEF RejectProofs, Respond, Error, NoReply, chainVars
<1>9. ASSUME NEW r \in Requests, SubmitFails(r)
      PROVE  Kept
  BY <1>9 DEF SubmitFails, Error, NoReply, chainVars
<1>10. ASSUME NEW r \in Requests, AcceptAbandoned(r)
      PROVE  Kept
  BY <1>10 DEF AcceptAbandoned, Error, NoReply, chainVars
<1>11. ASSUME NEW a \in Accounts, NEW s \in Assets, Deposit(a, s)
      PROVE  Kept
  BY <1>11 DEF Deposit, Error, NoReply, chainVars
<1> QED
  BY <1>1, <1>2, <1>3, <1>4, <1>5, <1>6, <1>7, <1>8, <1>9, <1>10, <1>11
     DEF Next, RequestStep, ItemStep, IssueConfidentialAsset, ApplyIncomingBalance

\* What a step does to the balances that requests work with: one that comes in
\* starts from the current balances, and an item that is being or has been proved
\* either keeps its balance or has just read the current one.
LEMMA ItemsReadOnce ==
    ASSUME IInv, Next
    PROVE  \A q \in Requests :
             /\ \/ atStart'[q] = atStart[q]
                \/ /\ atStart'[q] = balance /\ balance' = balance
                   /\ \A j \in ItemNumbers(q) : stage'[q][j] = "waiting"
             /\ \A j \in ItemNumbers(q) : stage'[q][j] \in {"proving", "proved"} =>
                   \/ stage[q][j] \in {"proving", "proved"} /\ read'[q][j] = read[q][j]
                   \/ /\ read'[q][j] = CurrentBalance(q, j)
                      /\ balance' = balance /\ atStart' = atStart
             /\ \A j \in ItemNumbers(q) : stage'[q][j] = "proved" =>
                   /\ read'[q][j] = read[q][j]
                   /\ stage[q][j] = "proved" \/ Covered(q, j)
<1> DEFINE Steps(q) ==
             /\ \/ atStart'[q] = atStart[q]
                \/ /\ atStart'[q] = balance /\ balance' = balance
                   /\ \A j \in ItemNumbers(q) : stage'[q][j] = "waiting"
             /\ \A j \in ItemNumbers(q) : stage'[q][j] \in {"proving", "proved"} =>
                   \/ stage[q][j] \in {"proving", "proved"} /\ read'[q][j] = read[q][j]
                   \/ /\ read'[q][j] = CurrentBalance(q, j)
                      /\ balance' = balance /\ atStart' = atStart
             /\ \A j \in ItemNumbers(q) : stage'[q][j] = "proved" =>
                   /\ read'[q][j] = read[q][j]
                   /\ stage[q][j] = "proved" \/ Covered(q, j)
<1> SUFFICES ASSUME NEW q \in Requests PROVE Steps(q)
  OBVIOUS
<1> USE DEF IInv, Typed, TypeOK, Progress
<1>1. ASSUME NEW r \in Requests, ReceiveAffirmation(r) \/ ReceiveMove(r) \/ ReceiveBurn(r)
      PROVE  Steps(q)
  BY <1>1 DEF ReceiveAffirmation, ReceiveMove, ReceiveBurn, Receive, chainVars
<1>2. ASSUME NEW r \in Requests, FetchFails(r) \/ InvalidLeg(r)
      PROVE  Steps(q)
  BY <1>2 DEF FetchFails, InvalidLeg, Respond, chainVars
<1>3. ASSUME NEW r \in Requests, FetchLeg(r) \/ FetchAccounts(r) \/ FetchAsset(r)
      PROVE  Steps(q)
  BY <1>3 DEF FetchLeg, FetchAccounts, FetchAsset, Begin, chainVars
<1>4. ASSUME NEW r \in Requests, NEW i \in ItemNumbers(r), AssetNotInLeg(r, i) \/ ReadBalanceFails(r, i) \/ GenerateProofFails(r, i)
      PROVE  Steps(q)
  BY <1>4 DEF AssetNotInLeg, ReadBalanceFails, GenerateProofFails, FailItem, FailRequest, Respond, chainVars
<1>5. ASSUME NEW r \in Requests, NEW i \in ItemNumbers(r), ReadBalance(r, i)
      PROVE  Steps(q)
  BY <1>5 DEF ReadBalance, SenderBalance, chainVars
<1>6. ASSUME NEW r \in Requests, NEW i \in ItemNumbers(r), GenerateProof(r, i)
      PROVE  Steps(q)
  BY <1>6 DEF GenerateProof, ReadyStage, chainVars
<1>7. ASSUME NEW r \in Requests, AcceptProofs(r)
      PROVE  Steps(q)
  BY <1>7 DEF AcceptProofs, Respond, chainVars
<1>8. ASSUME NEW r \in Requests, RejectProofs(r)
      PROVE  Steps(q)
  BY <1>8 DEF RejectProofs, Respond, chainVars
<1>9. ASSUME NEW r \in Requests, SubmitFails(r)
      PROVE  Steps(q)
  BY <1>9 DEF SubmitFails, chainVars
<1>10. ASSUME NEW r \in Requests, AcceptAbandoned(r)
      PROVE  Steps(q)
  BY <1>10 DEF AcceptAbandoned, chainVars
<1>11. ASSUME NEW a \in Accounts, NEW s \in Assets, Deposit(a, s)
      PROVE  Steps(q)
  BY <1>11 DEF Deposit, chainVars
<1> QED
  BY <1>1, <1>2, <1>3, <1>4, <1>5, <1>6, <1>7, <1>8, <1>9, <1>10, <1>11
     DEF Next, RequestStep, ItemStep, IssueConfidentialAsset, ApplyIncomingBalance

\* A later ciphertext of a balance comes after an earlier one's predecessor.
LEMMA PrecedesIsTransitive ==
    ASSUME NEW x \in Ciphertexts, NEW y \in Ciphertexts, NEW z \in Ciphertexts,
           Precedes(x, y), Precedes(y, z)
    PROVE  Precedes(x, z)
BY DEF Precedes, Ciphertexts

\* Whatever has been read stays between the start of its request and now.
LEMMA ReadIsKept == ASSUME IInv, Next PROVE Read'
<1>1. input' = input /\ balance' \in Balances
  BY BalancesGrowVersions
<1>2. \A q, i : ItemNumbers(q)' = ItemNumbers(q) /\ ItemOf(q, i)' = ItemOf(q, i)
  BY <1>1, InputsAreKept
<1>3. ASSUME NEW q \in Requests, NEW a \in Accounts, NEW s \in Assets
      PROVE  Precedes(atStart'[q][a][s], balance'[a][s])
  <2>1. Precedes(atStart[q][a][s], balance[a][s]) /\ Precedes(balance[a][s], balance'[a][s])
    BY BalancesGrowVersions DEF IInv, Read
  <2>2. /\ atStart[q][a][s] \in Ciphertexts /\ balance[a][s] \in Ciphertexts
        /\ balance'[a][s] \in Ciphertexts
    BY <1>1 DEF IInv, Typed, Balances
  <2>3. CASE atStart'[q] = atStart[q]
    BY <2>1, <2>2, <2>3, PrecedesIsTransitive
  <2>4. CASE atStart'[q] = balance /\ balance' = balance
    BY <2>4 DEF Precedes
  <2> QED
    BY <2>3, <2>4, ItemsReadOnce
<1>4. ASSUME NEW q \in Requests, NEW i \in ItemNumbers(q),
             stage'[q][i] \in {"proving", "proved"}
      PROVE  /\ read'[q][i] \in Ciphertexts
             /\ Precedes(atStart'[q][ItemOf(q, i).from][ItemOf(q, i).asset], read'[q][i])
             /\ Precedes(read'[q][i], balance'[ItemOf(q, i).from][ItemOf(q, i).asset])
  <2> DEFINE a == ItemOf(q, i).from
             s == ItemOf(q, i).asset
  <2>1. a \in Accounts /\ s \in Assets
    BY InputsAreItems DEF IInv, Typed
  <2>2. /\ balance[a][s] \in Ciphertexts /\ balance'[a][s] \in Ciphertexts
        /\ CurrentBalance(q, i) = balance[a][s]
    BY <1>1, <2>1 DEF IInv, Typed, Balances, CurrentBalance
  <2>3. atStart'[q] = atStart[q]
    BY <1>4, ItemsReadOnce
  <2>4. CASE stage[q][i] \in {"proving", "proved"} /\ read'[q][i] = read[q][i]
    <3>1. /\ read[q][i] \in Ciphertexts
          /\ Precedes(atStart[q][a][s], read[q][i])
          /\ Precedes(read[q][i], balance[a][s])
      BY <2>2, <2>4 DEF IInv, Read
    <3>2. Precedes(balance[a][s], balance'[a][s])
      BY <2>1, BalancesGrowVersions
    <3> QED
      BY <2>2, <2>3, <2>4, <3>1, <3>2, PrecedesIsTransitive
  <2>5. CASE read'[q][i] = CurrentBalance(q, i) /\ balance' = balance
    <3>1. Precedes(atStart[q][a][s], balance[a][s])
      BY <2>1 DEF IInv, Read
    <3> QED
      BY <2>2, <2>3, <2>5, <3>1 DEF Precedes
  <2> QED
    BY <1>4, <2>4, <2>5, ItemsReadOnce
<1>5. ASSUME NEW q \in Requests, NEW i \in ItemNumbers(q), stage'[q][i] = "proved"
      PROVE  ItemOf(q, i).amount <= read'[q][i].value
  BY <1>5, ItemsReadOnce DEF IInv, Read, Covered
<1> QED
  BY <1>2, <1>3, <1>4, <1>5 DEF Read, CurrentBalance

\* While no balance changes, what was read stays current.
LEMMA UntouchedIsKept == ASSUME IInv, Next PROVE Untouched'
<1> SUFFICES ASSUME onChain' = {}, deposits' = 0,
                    NEW q \in Requests, NEW i \in ItemNumbers(q)',
                    stage'[q][i] \in {"proving", "proved"}
             PROVE  read'[q][i] = CurrentBalance(q, i)'
  BY DEF Untouched
<1>1. input' = input /\ balance' = balance /\ onChain = {} /\ deposits = 0
  BY BalancesGrowVersions
<1>2. i \in ItemNumbers(q) /\ CurrentBalance(q, i)' = CurrentBalance(q, i)
  BY <1>1, InputsAreKept DEF CurrentBalance
<1> QED
  BY <1>1, <1>2, ItemsReadOnce DEF IInv, Untouched

\* An answer is given once; the chain takes an answered request's proofs only
\* if its submission failed on the way; and a proof is found stale by the chain.
LEMMA AnswersAreGivenOnce ==
    ASSUME IInv, Next
    PROVE  \A q \in Requests :
             /\ reply[q] # NoReply =>
                   reply'[q] = reply[q] /\ (q \in onChain' \ onChain => reply[q] = Error("submit"))
             /\ reply'[q] = Error("staleProof") => reply'[q] = reply[q] \/ RejectProofs(q)
<1> DEFINE Steps(q) ==
             /\ reply[q] # NoReply =>
                   reply'[q] = reply[q] /\ (q \in onChain' \ onChain => reply[q] = Error("submit"))
             /\ reply'[q] = Error("staleProof") => reply'[q] = reply[q] \/ RejectProofs(q)
<1> SUFFICES ASSUME NEW q \in Requests PROVE Steps(q)
  OBVIOUS
<1> USE DEF IInv, Typed, TypeOK, Progress
<1>1. ASSUME NEW r \in Requests, ReceiveAffirmation(r) \/ ReceiveMove(r) \/ ReceiveBurn(r)
      PROVE  Steps(q)
  BY <1>1 DEF ReceiveAffirmation, ReceiveMove, ReceiveBurn, Receive, Error, Accepted, SpendBalances, chainVars
<1>2. ASSUME NEW r \in Requests, FetchFails(r) \/ InvalidLeg(r)
      PROVE  Steps(q)
  BY <1>2 DEF FetchFails, InvalidLeg, Respond, Error, Accepted, SpendBalances, chainVars
<1>3. ASSUME NEW r \in Requests, FetchLeg(r) \/ FetchAccounts(r) \/ FetchAsset(r)
      PROVE  Steps(q)
  BY <1>3 DEF FetchLeg, FetchAccounts, FetchAsset, Begin, Error, Accepted, SpendBalances, chainVars
<1>4. ASSUME NEW r \in Requests, NEW i \in ItemNumbers(r), AssetNotInLeg(r, i) \/ ReadBalanceFails(r, i) \/ GenerateProofFails(r, i)
      PROVE  Steps(q)
  BY <1>4 DEF AssetNotInLeg, ReadBalanceFails, GenerateProofFails, FailItem, FailRequest, Respond, Error, Accepted, SpendBalances, chainVars
<1>5. ASSUME NEW r \in Requests, NEW i \in ItemNumbers(r), ReadBalance(r, i)
      PROVE  Steps(q)
  BY <1>5 DEF ReadBalance, SenderBalance, Error, Accepted, SpendBalances, chainVars
<1>6. ASSUME NEW r \in Requests, NEW i \in ItemNumbers(r), GenerateProof(r, i)
      PROVE  Steps(q)
  BY <1>6 DEF GenerateProof, ReadyStage, Error, Accepted, SpendBalances, chainVars
<1>7. ASSUME NEW r \in Requests, AcceptProofs(r)
      PROVE  Steps(q)
  BY <1>7 DEF AcceptProofs, Respond, Error, Accepted, SpendBalances, chainVars
<1>8. ASSUME NEW r \in Requests, RejectProofs(r)
      PROVE  Steps(q)
  BY <1>8 DEF RejectProofs, Respond, Error, Accepted, SpendBalances, chainVars
<1>9. ASSUME NEW r \in Requests, SubmitFails(r)
      PROVE  Steps(q)
  BY <1>9 DEF SubmitFails, Error, Accepted, SpendBalances, chainVars
<1>10. ASSUME NEW r \in Requests, AcceptAbandoned(r)
      PROVE  Steps(q)
  BY <1>10 DEF AcceptAbandoned, Error, Accepted, SpendBalances, chainVars
<1>11. ASSUME NEW a \in Accounts, NEW s \in Assets, Deposit(a, s)
      PROVE  Steps(q)
  BY <1>11 DEF Deposit, Error, Accepted, SpendBalances, chainVars
<1> QED
  BY <1>1, <1>2, <1>3, <1>4, <1>5, <1>6, <1>7, <1>8, <1>9, <1>10, <1>11
     DEF Next, RequestStep, ItemStep, IssueConfidentialAsset, ApplyIncomingBalance

\* A request that the chain refuses for a stale proof has read a balance that
\* is no longer current, or spends one balance twice.
LEMMA RefusedHasReadAnother ==
    ASSUME IInv, NEW r \in Requests, RejectProofs(r), SpendsEachBalanceOnce(r)
    PROVE  \E i \in ItemNumbers(r) : stage[r][i] = "proved" /\ read[r][i] # CurrentBalance(r, i)
BY DEF RejectProofs, ProofsAreCurrent, IInv, Progress

\* A request is refused for a race only after someone has won one.
LEMMA WinnersAreKept == ASSUME IInv, Next PROVE RacesHaveAWinner'
<1> SUFFICES ASSUME NEW r \in Requests, reply'[r] = Error("staleProof"),
                    SpendsEachBalanceOnce(r)', ~(onChain' # {} \/ deposits' > 0)
             PROVE  FALSE
  BY DEF RacesHaveAWinner, Error
<1>1. input' = input /\ deposits' \in Nat
  BY BalancesGrowVersions
<1>2. onChain' = {} /\ deposits' = 0
  BY <1>1
<1>3. onChain = {} /\ deposits = 0 /\ SpendsEachBalanceOnce(r)
  BY <1>1, <1>2, BalancesGrowVersions, InputsAreKept
<1>4. CASE reply'[r] = reply[r]
  BY <1>3, <1>4 DEF IInv, RacesHaveAWinner
<1>5. CASE RejectProofs(r)
  <2>1. PICK i \in ItemNumbers(r) : stage[r][i] = "proved" /\ read[r][i] # CurrentBalance(r, i)
    BY <1>3, <1>5, RefusedHasReadAnother
  <2> QED
    BY <1>3, <2>1 DEF IInv, Untouched
<1> QED
  BY <1>4, <1>5, AnswersAreGivenOnce

-----------------------------------------------------------------------------
\* The invariant holds in every reachable state.
LEMMA InvariantHolds == Spec => []IInv
<1>1. IInv /\ [Next]_vars => IInv'
  <2> SUFFICES ASSUME IInv, [Next]_vars PROVE IInv'
    OBVIOUS
  <2>1. CASE Next
    BY <2>1, TypedIsKept, ProgressIsKept, ReadIsKept, UntouchedIsKept, WinnersAreKept DEF IInv
  <2>2. CASE UNCHANGED vars
    <3> USE <2>2 DEF vars, chainVars, IInv
    <3>1. \A r, i : /\ ItemNumbers(r)' = ItemNumbers(r) /\ ItemOf(r, i)' = ItemOf(r, i)
                    /\ SpendsEachBalanceOnce(r)' = SpendsEachBalanceOnce(r)
      BY InputsAreKept
    <3>2. \A r, i : CurrentBalance(r, i)' = CurrentBalance(r, i)
      BY <3>1 DEF CurrentBalance
    <3>3. Typed'
      BY <3>1 DEF Typed, TypeOK
    <3>4. Progress'
      BY <3>1 DEF Progress
    <3>5. Read' /\ Untouched'
      BY <3>1, <3>2 DEF Read, Untouched
    <3>6. RacesHaveAWinner'
      BY <3>1 DEF RacesHaveAWinner
    <3> QED
      BY <3>3, <3>4, <3>5, <3>6
  <2> QED
    BY <2>1, <2>2
<1> QED
  BY <1>1, InvariantHoldsInitially, PTL DEF Spec

\* TypeOK: in particular no balance is overdrawn, although requests that spend
\* the same balance have their proofs made at the same time.
THEOREM NothingIsOverdrawn == Spec => []TypeOK
<1>1. IInv => TypeOK
  BY DEF IInv, Typed
<1> QED
  BY <1>1, InvariantHolds, PTL

\* RacesHaveAWinner: a stale proof means that some other request or deposit
\* got through.
THEOREM SomeoneWinsTheRace == Spec => []RacesHaveAWinner
<1>1. IInv => RacesHaveAWinner
  BY DEF IInv
<1> QED
  BY <1>1, InvariantHolds, PTL

\* RefusalMeansRace: a request is refused for a stale proof only if one of its
\* balances has changed since it came in, or it spends one balance twice.
THEOREM OnlyRacesAreRefused == Spec => RefusalMeansRace
<1> DEFINE Refusal ==
        \A r \in Requests :
            reply'[r] = Error("staleProof") /\ reply[r] # reply'[r] =>
                Disturbed(r) \/ ~SpendsEachBalanceOnce(r)
<1>1. IInv /\ [Next]_vars => [Refusal]_vars
  <2> SUFFICES ASSUME IInv, Next, NEW r \in Requests, reply'[r] = Error("staleProof"),
                      reply[r] # reply'[r], SpendsEachBalanceOnce(r)
               PROVE  Disturbed(r)
    OBVIOUS
  <2>1. RejectProofs(r)
    BY AnswersAreGivenOnce
  <2>2. PICK i \in ItemNumbers(r) : stage[r][i] = "proved" /\ read[r][i] # CurrentBalance(r, i)
    BY <2>1, RefusedHasReadAnother
  <2> DEFINE before == atStart[r][ItemOf(r, i).from][ItemOf(r, i).asset]
  <2>3. /\ read[r][i] \in Ciphertexts
        /\ Precedes(before, read[r][i]) /\ Precedes(read[r][i], CurrentBalance(r, i))
    BY <2>2 DEF IInv, Read
  <2>4. before \in Ciphertexts /\ CurrentBalance(r, i) \in Ciphertexts
    BY InputsAreItems DEF IInv, Typed, Balances, CurrentBalance
  <2>5. before # CurrentBalance(r, i)
    BY <2>2, <2>3, <2>4 DEF Precedes, Ciphertexts
  <2> QED
    BY <2>5 DEF Disturbed
<1> QED
  BY <1>1, InvariantHolds, PTL DEF Spec, RefusalMeansRace

\* NothingAfterTheAnswer: what a request is answered stays, and nothing is
\* submitted for it afterwards.
THEOREM AnswersAreFinal == Spec => NothingAfterTheAnswer
<1> DEFINE Final ==
        \A r \in Requests : reply[r] # NoReply =>
            /\ reply'[r] = reply[r]
            /\ r \in onChain' \ onChain => reply[r] = Error("submit")
<1>1. IInv /\ [Next]_vars => [Final]_vars
  BY AnswersAreGivenOnce
<1> QED
  BY <1>1, InvariantHolds, PTL DEF Spec, NothingAfterTheAnswer

-----------------------------------------------------------------------------
(* The loop. *)

\* The items are numbered from 1.
LEMMA ItemNumbersAreAnInterval ==
    ASSUME Typed, NEW r \in Requests
    PROVE  /\ ItemNumbers(r) = 1 .. Len(input[r].items) /\ Len(input[r].items) \in Nat
           /\ stage[r] \in [ItemNumbers(r) -> Stages]
<1>1. input[r] \in Inputs
  BY DEF Typed
<1>2. input[r].items \in Seq(Items)
  BY <1>1, InputsAssumption DEF AffirmInputs, MoveInputs, BurnInputs, RequestInputs
<1> QED
  BY <1>2 DEF ItemNumbers, Typed, TypeOK

LEMMA LoopingIsKept == ASSUME IInv, Looping, Next PROVE Looping'
<1> DEFINE Loops(q) ==
        pc'[q] = "proving" =>
            /\ \E i \in ItemNumbers(q) : stage'[q][i] # "proved"
            /\ \A i \in ItemNumbers(q) :
                  /\ stage'[q][i] # "failed"
                  /\ stage'[q][i] = "waiting" => i # 1 /\ stage'[q][i - 1] # "proved"
<1>a. SUFFICES ASSUME NEW q \in Requests PROVE Loops(q)
  <2>1. \A q \in Requests : ItemNumbers(q)' = ItemNumbers(q)
    BY BalancesGrowVersions, InputsAreKept
  <2> QED
    BY <2>1 DEF Looping
<1>b. pc'[q] = pc[q] /\ stage'[q] = stage[q] => Loops(q)
  BY DEF Looping
<1>c. pc'[q] # "proving" => Loops(q)
  OBVIOUS
<1>d. DOMAIN pc = Requests /\ DOMAIN stage = Requests
  BY DEF IInv, Typed, TypeOK
<1>e. /\ ItemNumbers(q) = 1 .. Len(input[q].items) /\ Len(input[q].items) \in Nat
      /\ stage[q] \in [ItemNumbers(q) -> Stages]
  BY ItemNumbersAreAnInterval DEF IInv
<1> HIDE DEF Loops
<1>1. ASSUME NEW r \in Requests, ReceiveAffirmation(r) \/ ReceiveMove(r) \/ ReceiveBurn(r)
      PROVE  Loops(q)
  BY <1>1, <1>b, <1>c, <1>d DEF ReceiveAffirmation, ReceiveMove, ReceiveBurn, Receive
<1>2. ASSUME NEW r \in Requests,
             \/ FetchFails(r) \/ InvalidLeg(r) \/ AcceptProofs(r) \/ RejectProofs(r)
             \/ SubmitFails(r) \/ AcceptAbandoned(r)
      PROVE  Loops(q)
  BY <1>2, <1>b, <1>c, <1>d DEF FetchFails, InvalidLeg, AcceptProofs, RejectProofs, SubmitFails,
     AcceptAbandoned, Respond
<1>3. ASSUME NEW a \in Accounts, NEW s \in Assets, Deposit(a, s)
      PROVE  Loops(q)
  BY <1>3, <1>b DEF Deposit
<1>4. ASSUME NEW r \in Requests, FetchLeg(r) \/ FetchAccounts(r) \/ FetchAsset(r)
      PROVE  Loops(q)
  <2>1. PICK first : \E kind : Begin(r, kind, first) /\ (first = {1} \/ first = ItemNumbers(r))
    BY <1>4 DEF FetchLeg, FetchAccounts, FetchAsset
  <2>2. CASE r # q
    BY <1>b, <1>d, <2>1, <2>2 DEF Begin
  <2>3. CASE r = q /\ ItemNumbers(q) = {}
    BY <1>c, <1>d, <2>1, <2>3 DEF Begin
  <2>4. CASE r = q /\ ItemNumbers(q) # {}
    <3>1. stage'[q] = [i \in ItemNumbers(q) |-> IF i \in first THEN "reading" ELSE "waiting"]
      BY <1>d, <2>1, <2>4 DEF Begin
    <3>2. 1 \in ItemNumbers(q) /\ 1 \in first
      BY <1>e, <2>1, <2>4
    <3>3. \A i \in ItemNumbers(q) : i # 1 => i - 1 \in ItemNumbers(q)
      BY <1>e
    <3> QED
      BY <3>1, <3>2, <3>3 DEF Loops
  <2> QED
    BY <2>2, <2>3, <2>4
<1>5. ASSUME NEW r \in Requests, NEW i \in ItemNumbers(r), NEW e, FailItem(r, i, e)
      PROVE  Loops(q)
  <2>1. CASE r # q
    BY <1>b, <1>d, <1>5, <2>1 DEF FailItem, FailRequest, Respond
  <2>2. CASE r = q
    <3>1. pc'[q] # "proving"
      BY <1>d, <1>5, <2>2 DEF FailItem, FailRequest, Respond
    <3> QED
      BY <1>c, <3>1
  <2> QED
    BY <2>1, <2>2
<1>6. ASSUME NEW r \in Requests, NEW i \in ItemNumbers(r), ReadBalance(r, i)
      PROVE  Loops(q)
  <2>0. /\ stage[r][i] = "reading" /\ stage' = [stage EXCEPT ![r][i] = "proving"] /\ pc' = pc
    BY <1>6 DEF ReadBalance
  <2>1. CASE r # q
    BY <1>b, <1>d, <2>0, <2>1
  <2>2. CASE r = q
    <3>1. /\ \A j \in ItemNumbers(q) : stage'[q][j] = IF j = i THEN "proving" ELSE stage[q][j]
          /\ \A j \in ItemNumbers(q) : j # 1 => j - 1 \in ItemNumbers(q)
      BY <1>d, <1>e, <2>0, <2>2
    <3> QED
      BY <1>e, <2>0, <2>2, <3>1 DEF Looping, Loops
  <2> QED
    BY <2>1, <2>2
<1>7. ASSUME NEW r \in Requests, NEW i \in ItemNumbers(r), GenerateProof(r, i)
      PROVE  Loops(q)
  <2>1. CASE r # q
    BY <1>b, <1>d, <1>7, <2>1 DEF GenerateProof
  <2>2. CASE r = q
    <3> SUFFICES ASSUME pc'[q] = "proving" PROVE Loops(q)
      BY <1>c
    <3>1. \A j \in ItemNumbers(q) :
              stage'[q][j] = IF j = i THEN "proved"
                             ELSE IF j = i + 1 /\ stage[q][j] = "waiting" THEN "reading"
                             ELSE stage[q][j]
      BY <1>d, <1>7, <2>2 DEF GenerateProof
    <3>2. pc[q] = "proving" /\ \E j \in ItemNumbers(q) : stage'[q][j] # "proved"
      BY <1>d, <1>7, <2>2 DEF GenerateProof, ReadyStage
    <3>3. ASSUME NEW j \in ItemNumbers(q)
          PROVE  /\ stage'[q][j] # "failed"
                 /\ stage'[q][j] = "waiting" => j # 1 /\ stage'[q][j - 1] # "proved"
      <4>1. stage[q][j] # "failed" /\ (stage[q][j] = "waiting" => j # 1 /\ stage[q][j - 1] # "proved")
        BY <3>2 DEF Looping
      <4>2. j # 1 => j - 1 \in ItemNumbers(q)
        BY <1>e
      <4>3. j - 1 = i => j = i + 1
        BY <1>e, <2>2
      <4> QED
        BY <3>1, <4>1, <4>2, <4>3
    <3> QED
      BY <3>2, <3>3 DEF Loops
  <2> QED
    BY <2>1, <2>2
<1> QED
  BY <1>1, <1>2, <1>3, <1>4, <1>5, <1>6, <1>7
  DEF Next, RequestStep, ItemStep, AssetNotInLeg, ReadBalanceFails, GenerateProofFails,
      IssueConfidentialAsset, ApplyIncomingBalance

\* AnItemIsUnderWay: a request with any number of items never waits with no
\* item being read or proved.  The first item that is not proved is under way.
THEOREM NoLoopStops == Spec => []AnItemIsUnderWay
<1>1. Init => Looping
  BY DEF Init, Looping
<1>2. IInv /\ Looping /\ [Next]_vars => Looping'
  <2> SUFFICES ASSUME IInv, Looping, UNCHANGED vars PROVE Looping'
    BY LoopingIsKept
  <2> QED
    BY DEF vars, chainVars, Looping, ItemNumbers
<1>3. IInv /\ Looping => AnItemIsUnderWay
  <2> SUFFICES ASSUME IInv, Looping, NEW r \in Requests, pc[r] = "proving"
               PROVE  \E i \in ItemNumbers(r) : stage[r][i] \in {"reading", "proving"}
    BY DEF AnItemIsUnderWay
  <2> DEFINE Open == {i \in ItemNumbers(r) : stage[r][i] # "proved"}
             Less == {ss \in Nat \X Nat : ss[1] < ss[2]}
  <2>1. /\ ItemNumbers(r) = 1 .. Len(input[r].items) /\ Len(input[r].items) \in Nat
        /\ stage[r] \in [ItemNumbers(r) -> Stages]
    BY ItemNumbersAreAnInterval DEF IInv
  <2>2. Open # {} /\ Open \in SUBSET Nat
    BY <2>1 DEF Looping
  <2>3. IsWellFoundedOn(Less, Nat)
    BY NatLessThanWellFounded DEF OpToRel
  <2>4. PICK i \in Open : \A j \in Open : <<j, i>> \notin Less
    BY <2>2, <2>3, WFMin
  <2>5. stage[r][i] \in {"waiting", "reading", "proving"}
    BY <2>1, <2>4 DEF Looping, Stages
  <2>6. stage[r][i] # "waiting"
    <3> SUFFICES ASSUME stage[r][i] = "waiting" PROVE FALSE
      OBVIOUS
    <3>1. i # 1 /\ stage[r][i - 1] # "proved"
      BY <2>4 DEF Looping
    <3>2. i - 1 \in ItemNumbers(r) /\ i - 1 < i /\ <<i - 1, i>> \in Nat \X Nat
      BY <2>1, <2>4, <3>1
    <3> QED
      BY <2>4, <3>1, <3>2
  <2> QED
    BY <2>4, <2>5, <2>6
<1> QED
  BY <1>1, <1>2, <1>3, InvariantHolds, PTL DEF Spec
=============================================================================
