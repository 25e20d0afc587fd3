----------------------- MODULE RequestPipeline_proofs -----------------------
(***************************************************************************)
(* RequestPipeline implements AtomicRequests, for any requests, inputs,    *)
(* faults and chain to start from.  What has to be shown besides the       *)
(* types is that the place a request has reached says what its promise may *)
(* be (Staged), and that the object a request has fetched is still there   *)
(* when its call takes effect (Fetched), because nothing is ever deleted.  *)
(***************************************************************************)
EXTENDS RequestPipeline, TLAPS

\* What a request that has got to some place has and has not done.
Staged ==
    \A r \in Requests :
        /\ input[r] = NoInput => pc[r] = "idle"
        /\ pc[r] \in {"idle", "fetching", "preparing", "reading"} => run[r] = "none"
        /\ pc[r] = "reading" => Call(r) = NoCall /\ input[r] \in Inputs
        /\ pc[r] \in {"preparing", "processing"} => Call(r) # NoCall
        /\ pc[r] = "responded" /\ run[r] = "pending" => reply[r] \in Errors
        /\ pc[r] # "responded" => reply[r] = NoReply

Present(r) == input[r].object # NoObject => Exists(input[r].object, book)

\* Whatever has an object to look up has found it before it goes on.
Fetched ==
    \A r \in Requests :
        pc[r] \in {"preparing", "processing", "reading"} \/ run[r] # "none" => Present(r)

IInv == TypeOK /\ Staged /\ Fetched

-----------------------------------------------------------------------------
(* The chain's operators. *)

LEMMA AppendKeeps ==
    ASSUME NEW S, NEW s \in Seq(S), NEW x \in S
    PROVE  Append(s, x) \in Seq(S) /\ DOMAIN s \subseteq DOMAIN Append(s, x)
  OBVIOUS

LEMMA ReplaceKeeps ==
    ASSUME NEW S, NEW s \in Seq(S), NEW i, NEW x, i \in DOMAIN s => x \in S
    PROVE  [s EXCEPT ![i] = x] \in Seq(S) /\ DOMAIN [s EXCEPT ![i] = x] = DOMAIN s
<1>1. s \in [1 .. Len(s) -> S] /\ Len(s) \in Nat
  OBVIOUS
<1>2. [s EXCEPT ![i] = x] \in [1 .. Len(s) -> S]
  BY <1>1
<1> QED
  BY <1>1, <1>2

\* No call deletes anything: whatever could be fetched can be fetched after it.
Grows(b, e) ==
    /\ DOMAIN b.assets \subseteq DOMAIN e.assets
    /\ b.venues <= e.venues
    /\ DOMAIN b.transactions \subseteq DOMAIN e.transactions

LEMMA AssetsReplaced ==
    ASSUME NEW b \in Books, NEW s \in Seq(Assets), DOMAIN b.assets \subseteq DOMAIN s
    PROVE  [b EXCEPT !.assets = s] \in Books /\ Grows(b, [b EXCEPT !.assets = s])
<1>1. [b EXCEPT !.assets = s] \in Books
  BY DEF Books
<1>2. Grows(b, [b EXCEPT !.assets = s])
  BY DEF Books, Grows
<1> QED
  BY <1>1, <1>2

LEMMA TransactionsReplaced ==
    ASSUME NEW b \in Books, NEW s \in Seq(Transactions),
           DOMAIN b.transactions \subseteq DOMAIN s
    PROVE  [b EXCEPT !.transactions = s] \in Books /\ Grows(b, [b EXCEPT !.transactions = s])
<1>1. [b EXCEPT !.transactions = s] \in Books
  BY DEF Books
<1>2. Grows(b, [b EXCEPT !.transactions = s])
  BY DEF Books, Grows
<1> QED
  BY <1>1, <1>2

LEMMA AssetSet ==
    ASSUME NEW b \in Books, NEW a, NEW x, a \in DOMAIN b.assets => x \in Assets
    PROVE  SetAsset(b, a, x) \in Books /\ Grows(b, SetAsset(b, a, x))
<1> DEFINE s == [b.assets EXCEPT ![a] = x]
<1>1. s \in Seq(Assets) /\ DOMAIN s = DOMAIN b.assets
  <2>1. b.assets \in Seq(Assets)
    BY DEF Books
  <2> QED
    BY <2>1, ReplaceKeeps
<1>2. SetAsset(b, a, x) = [b EXCEPT !.assets = s]
  BY DEF SetAsset
<1> HIDE DEF s
<1> QED
  BY <1>1, <1>2, AssetsReplaced

LEMMA TransactionSet ==
    ASSUME NEW b \in Books, NEW t, NEW x, t \in DOMAIN b.transactions => x \in Transactions
    PROVE  SetTransaction(b, t, x) \in Books /\ Grows(b, SetTransaction(b, t, x))
<1> DEFINE s == [b.transactions EXCEPT ![t] = x]
<1>1. s \in Seq(Transactions) /\ DOMAIN s = DOMAIN b.transactions
  <2>1. b.transactions \in Seq(Transactions)
    BY DEF Books
  <2> QED
    BY <2>1, ReplaceKeeps
<1>2. SetTransaction(b, t, x) = [b EXCEPT !.transactions = s]
  BY DEF SetTransaction
<1> HIDE DEF s
<1> QED
  BY <1>1, <1>2, TransactionsReplaced

LEMMA FilterType ==
    ASSUME NEW asset \in Assets, NEW args \in FilteringArgs
    PROVE  Filter(asset, args) \in Assets
<1>1. CASE args \in [enabled : BOOLEAN]
  BY <1>1 DEF Filter, Assets
<1>2. CASE args \in [allowedVenues : SUBSET Nat]
  BY <1>2 DEF Filter, Assets
<1>3. CASE args \in [disallowedVenues : SUBSET Nat]
  BY <1>3 DEF Filter, Assets
<1> QED
  BY <1>1, <1>2, <1>3 DEF FilteringArgs

LEMMA AssetAfterType ==
    ASSUME NEW c \in Calls, c.method \in AssetMethods, NEW asset \in Assets
    PROVE  AssetAfter(c, asset) \in Assets
<1>1. CASE c.method = "issue"
  BY <1>1 DEF AssetAfter, Assets
<1>2. CASE c.method \in {"freeze", "unfreeze"}
  BY <1>2 DEF AssetAfter, Assets
<1>3. CASE c.method \in {"freezeAccount", "unfreezeAccount"}
  <2>1. c.account \in Accounts
    BY <1>3 DEF Calls
  <2> QED
    BY <1>3, <2>1 DEF AssetAfter, Assets
<1>4. CASE c.method = "setVenueFiltering"
  <2>1. c.args \in FilteringArgs
    BY <1>4 DEF Calls
  <2> QED
    BY <1>4, <2>1, FilterType DEF AssetAfter
<1> QED
  BY <1>1, <1>2, <1>3, <1>4 DEF AssetMethods

LEMMA TransactionAfterType ==
    ASSUME NEW c \in Calls, c.method \in TransactionMethods, NEW t \in Transactions
    PROVE  TransactionAfter(c, t) \in Transactions
<1>1. CASE c.method = "affirmLeg"
  <2>1. <<c.leg, c.party>> \in Affirmations
    BY <1>1 DEF Calls, Affirmations
  <2> QED
    BY <1>1, <2>1 DEF TransactionAfter, Transactions
<1>2. CASE c.method = "reject"
  BY <1>2 DEF TransactionAfter, Transactions
<1>3. CASE c.method = "execute"
  BY <1>3 DEF TransactionAfter, Transactions
<1> QED
  BY <1>1, <1>2, <1>3 DEF TransactionMethods

LEMMA EffectOnBooks ==
    ASSUME NEW b \in Books, NEW c \in Calls
    PROVE  Effect(c, b) \in Books /\ Grows(b, Effect(c, b))
<1>0. /\ b.assets \in Seq(Assets) /\ b.transactions \in Seq(Transactions)
      /\ b.venues \in Nat /\ b.keys \in Nat
  BY DEF Books
<1>1. CASE c.method \in AssetMethods
  <2>1. c.asset \in DOMAIN b.assets => AssetAfter(c, b.assets[c.asset]) \in Assets
    BY <1>0, <1>1, AssetAfterType
  <2>2. Effect(c, b) = SetAsset(b, c.asset, AssetAfter(c, b.assets[c.asset]))
    BY <1>1 DEF Effect, AssetMethods, TransactionMethods
  <2> QED
    BY <2>1, <2>2, AssetSet
<1>2. CASE c.method \in TransactionMethods
  <2>1. c.transaction \in DOMAIN b.transactions =>
            TransactionAfter(c, b.transactions[c.transaction]) \in Transactions
    BY <1>0, <1>2, TransactionAfterType
  <2>2. Effect(c, b) = SetTransaction(b, c.transaction,
                                      TransactionAfter(c, b.transactions[c.transaction]))
    BY <1>2 DEF Effect, AssetMethods, TransactionMethods
  <2> QED
    BY <2>1, <2>2, TransactionSet
<1>3. CASE c.method = "createConfidentialAsset"
  <2> DEFINE s == Append(b.assets, NewAsset)
  <2>1. s \in Seq(Assets) /\ DOMAIN b.assets \subseteq DOMAIN s
    <3>1. NewAsset \in Assets
      BY DEF NewAsset, Assets
    <3> QED
      BY <1>0, <3>1, AppendKeeps
  <2>2. Effect(c, b) = [b EXCEPT !.assets = s]
    BY <1>3 DEF Effect, AssetMethods, TransactionMethods
  <2> HIDE DEF s
  <2> QED
    BY <2>1, <2>2, AssetsReplaced
<1>4. CASE c.method = "addTransaction"
  <2> DEFINE s == Append(b.transactions, NewTransaction)
  <2>1. s \in Seq(Transactions) /\ DOMAIN b.transactions \subseteq DOMAIN s
    <3>1. NewTransaction \in Transactions
      BY DEF NewTransaction, Transactions
    <3> QED
      BY <1>0, <3>1, AppendKeeps
  <2>2. Effect(c, b) = [b EXCEPT !.transactions = s]
    BY <1>4 DEF Effect, AssetMethods, TransactionMethods
  <2> HIDE DEF s
  <2> QED
    BY <2>1, <2>2, TransactionsReplaced
<1>5. CASE c.method = "createVenue"
  <2>1. Effect(c, b) = [b EXCEPT !.venues = @ + 1]
    BY <1>5 DEF Effect, AssetMethods, TransactionMethods
  <2> QED
    BY <2>1 DEF Books, Grows
<1>6. CASE c.method = "createKey"
  <2>1. Effect(c, b) = [b EXCEPT !.keys = @ + 1]
    BY <1>6 DEF Effect, AssetMethods, TransactionMethods
  <2> QED
    BY <2>1 DEF Books, Grows
<1>7. CASE c.method = "createConfidentialAccount"
  <2>1. Effect(c, b) = [b EXCEPT !.linked = @ \cup {<<c.account, c.identity>>}]
    BY <1>7 DEF Effect, AssetMethods, TransactionMethods
  <2>2. <<c.account, c.identity>> \in Accounts \X Identities
    BY <1>7 DEF Calls
  <2> QED
    BY <2>1, <2>2 DEF Books, Grows
<1>8. CASE c.method = "moveFunds"
  <2>1. Effect(c, b) = b
    BY <1>8 DEF Effect, AssetMethods, TransactionMethods
  <2> QED
    BY <1>0, <2>1 DEF Grows
<1> QED
  BY <1>1, <1>2, <1>3, <1>4, <1>5, <1>6, <1>7, <1>8
  DEF Calls, AssetMethods, TransactionMethods

LEMMA ResultType ==
    ASSUME NEW b \in Books, NEW c
    PROVE  Result(c, b) \in Nat
<1>1. Len(b.assets) \in Nat /\ Len(b.transactions) \in Nat /\ b.venues \in Nat /\ b.keys \in Nat
  BY DEF Books
<1> QED
  BY <1>1 DEF Result

LEMMA ExistsStays ==
    ASSUME NEW b \in Books, NEW e \in Books, Grows(b, e), NEW object, Exists(object, b)
    PROVE  Exists(object, e)
<1>1. b.venues \in Nat /\ e.venues \in Nat
  BY DEF Books
<1> QED
  BY <1>1 DEF Exists, Grows

-----------------------------------------------------------------------------
(* The inductive invariant. *)

LEMMA InitImpliesIInv == Init => IInv
  BY BookAssumption DEF Init, IInv, TypeOK, Staged, Fetched, Present, PcStates, NoInput, Answers,
     NoReply, Nothing, Call, NoObject

LEMMA StepKeepsIInv == IInv /\ [Next]_vars => IInv'
<1> SUFFICES ASSUME IInv, [Next]_vars PROVE IInv'
  OBVIOUS
<1> USE DEF IInv, TypeOK, Staged, Fetched, Present, PcStates, Call, Goto, Respond
<1>u. CASE UNCHANGED vars
  BY <1>u DEF vars, Exists
<1>1. ASSUME NEW r \in Requests, NEW i \in Inputs, Receive(r, i) PROVE IInv'
  <2>1. i # NoInput /\ input[r].queries = {} /\ DOMAIN read[r] = {}
    BY <1>1, InputsAssumption DEF Receive, NoInput, Answers
  <2>2. /\ pc[r] = "idle" /\ run[r] = "none" /\ reply[r] = NoReply
        /\ pc'[r] \in {"fetching", "reading", "preparing", "processing"}
        /\ i.object = NoObject \/ pc'[r] = "fetching"
        /\ pc'[r] = "reading" => i.call = NoCall
        /\ pc'[r] \in {"preparing", "processing"} => i.call # NoCall
        /\ run'[r] = IF pc'[r] = "processing" THEN "pending" ELSE "none"
    BY <1>1 DEF Receive, Proceed
  <2>3. \A q \in Requests \ {r} : /\ input'[q] = input[q] /\ pc'[q] = pc[q]
                                 /\ run'[q] = run[q]
    BY <1>1 DEF Receive
  <2>4. TypeOK'
    BY <1>1, <2>1, <2>2, <2>3 DEF Receive
  <2>5. Staged'
    BY <1>1, <2>1, <2>2, <2>3 DEF Receive
  <2>6. Fetched'
    BY <1>1, <2>1, <2>2, <2>3 DEF Receive, Exists
  <2> QED
    BY <2>4, <2>5, <2>6
<1>2. ASSUME NEW r \in Requests, Fetch(r) PROVE IInv'
  BY <1>2 DEF Fetch, Proceed, Error, Errors, NoReply, Exists
<1>3. ASSUME NEW r \in Requests, NotFound(r) PROVE IInv'
  BY <1>3 DEF NotFound, Error, Errors, NoReply, Exists
<1>4. ASSUME NEW r \in Requests, FetchFails(r) PROVE IInv'
  BY <1>4 DEF FetchFails, Error, Errors, NoReply, Exists
<1>5. ASSUME NEW r \in Requests, Prepare(r) PROVE IInv'
  BY <1>5 DEF Prepare, Error, Errors, NoReply, Exists
<1>6. ASSUME NEW r \in Requests, PrepareRefused(r) PROVE IInv'
  BY <1>6 DEF PrepareRefused, Error, Errors, NoReply, Exists
<1>7. ASSUME NEW r \in Requests, PrepareFails(r) PROVE IInv'
  BY <1>7 DEF PrepareFails, Error, Errors, NoReply, Exists
<1>8. ASSUME NEW r \in Requests, Refuse(r) PROVE IInv'
  BY <1>8 DEF Refuse, RejectRun, Error, Errors, NoReply, Exists
<1>9. ASSUME NEW r \in Requests, RunFails(r) PROVE IInv'
  BY <1>9 DEF RunFails, RejectRun, Error, Errors, NoReply, Exists
<1>10. ASSUME NEW r \in Requests, GetTotalFeesFails(r) PROVE IInv'
  BY <1>10 DEF GetTotalFeesFails, Error, Errors, NoReply, Exists
<1>11. ASSUME NEW r \in Requests, TimesOut(r) PROVE IInv'
  BY <1>11 DEF TimesOut, Error, Errors, NoReply, Exists
<1>12. ASSUME NEW r \in Requests, HandleServiceResult(r) PROVE IInv'
  BY <1>12 DEF HandleServiceResult, Settled, Error, Errors, NoReply, Exists
<1>13. ASSUME NEW r \in Requests, ReadFails(r) PROVE IInv'
  BY <1>13 DEF ReadFails, Error, Errors, NoReply, Exists
<1>14. ASSUME NEW r \in Requests, Assemble(r) PROVE IInv'
  BY <1>14 DEF Assemble, AllRead, Error, Errors, NoReply, Exists
<1>15. ASSUME NEW r \in Requests, Include(r) PROVE IInv'
  <2>0. Call(r) \in Calls
    BY <1>15, InputsAssumption DEF Include, NoInput, Answers
  <2>1. Grows(book, book') /\ book' \in Books
    BY <1>15, <2>0, EffectOnBooks DEF Include
  <2>2. \A q \in Requests : Present(q) => Present(q)'
    BY <1>15, <2>1, ExistsStays DEF Include
  <2>3. Result(Call(r), book) \in Nat
    BY ResultType
  <2> QED
    BY <1>15, <2>1, <2>2, <2>3 DEF Include
<1>16. ASSUME NEW r \in Requests, NEW q \in input[r].queries, ReadField(r, q) PROVE IInv'
  BY <1>16 DEF ReadField, WithAnswer
<1> QED
  BY <1>u, <1>1, <1>2, <1>3, <1>4, <1>5, <1>6, <1>7, <1>8, <1>9, <1>10, <1>11, <1>12, <1>13, <1>14, <1>15, <1>16 DEF Next, ServiceStep, ChainStep, FaultStep

\* In every state the types hold, every answer is a number, a report or one of
\* the errors, and only requests that submit something have a promise.
THEOREM TypeCorrectness == Spec => []TypeOK
<1>1. Init => IInv
  BY InitImpliesIInv
<1>2. IInv /\ [Next]_vars => IInv'
  BY StepKeepsIInv
<1>3. IInv => TypeOK
  BY DEF IInv
<1> QED
  BY <1>1, <1>2, <1>3, PTL DEF Spec

-----------------------------------------------------------------------------
(* The refinement. *)

LEMMA SameChain ==
    ASSUME NEW c, NEW b, NEW q, NEW o
    PROVE  /\ Atomic!Allowed(c, b) = Allowed(c, b)
           /\ Atomic!Effect(c, b) = Effect(c, b)
           /\ Atomic!Result(c, b) = Result(c, b)
           /\ Atomic!Value(q, b) = Value(q, b)
           /\ Atomic!Exists(o, b) = Exists(o, b)
<1>1. Atomic!Allowed(c, b) = Allowed(c, b)
  BY DEF Atomic!Allowed, Allowed, Atomic!Pending, Pending, Atomic!Missing, Missing,
     Atomic!Affirmations, Affirmations, Atomic!Parties, Parties
<1>2. Atomic!Effect(c, b) = Effect(c, b)
  BY DEF Atomic!Effect, Effect, Atomic!AssetMethods, AssetMethods,
     Atomic!TransactionMethods, TransactionMethods, Atomic!SetAsset, SetAsset,
     Atomic!SetTransaction, SetTransaction, Atomic!AssetAfter, AssetAfter,
     Atomic!TransactionAfter, TransactionAfter, Atomic!Filter, Filter,
     Atomic!NewAsset, NewAsset, Atomic!NewTransaction, NewTransaction
<1>3. Atomic!Result(c, b) = Result(c, b)
  BY DEF Atomic!Result, Result
<1>4. Atomic!Value(q, b) = Value(q, b)
  BY DEF Atomic!Value, Value, Atomic!Missing, Missing,
     Atomic!Affirmations, Affirmations, Atomic!Parties, Parties
<1>5. Atomic!Exists(o, b) = Exists(o, b)
  BY DEF Atomic!Exists, Exists
<1> QED
  BY <1>1, <1>2, <1>3, <1>4, <1>5

Opened  == {r \in Requests : pc[r] \notin {"idle", "responded"}}
Applied == {r \in Requests : run[r] = "resolved"}

\* An answer closes the request, and no other.
LEMMA AnswerCloses ==
    ASSUME TypeOK, NEW r \in Requests, pc' = [pc EXCEPT ![r] = "responded"]
    PROVE  Opened' = Opened \ {r}
  BY DEF Opened, TypeOK

\* Every error is one that a client may be given.
LEMMA ErrorDeclines ==
    ASSUME TypeOK, NEW r \in Requests, NEW e \in {"notFound", "refused", "failed"},
           pc[r] \notin {"idle", "responded"}, Respond(r, Error(e)),
           Applied' = Applied, UNCHANGED <<book, input, made, read>>
    PROVE  Atomic!Next
<1>1. Atomic!Close(r, Error(e))
  BY AnswerCloses DEF Atomic!Close, Respond, Opened, Applied
<1>2. Error(e) \in Atomic!Errors
  BY DEF Error, Atomic!Errors, Atomic!Error
<1>3. Atomic!Decline(r)
  BY <1>1, <1>2 DEF Atomic!Decline
<1> QED
  BY <1>3 DEF Atomic!Next

\* A step that leaves no trace the client could notice.
LEMMA SilentStep ==
    ASSUME Opened' = Opened, Applied' = Applied,
           UNCHANGED <<book, input, made, read, reply>>
    PROVE  UNCHANGED Atomic!vars
  BY DEF Atomic!vars, Opened, Applied

\* Initial states are initial states of AtomicRequests.
LEMMA InitRefines == Init => Atomic!Init
  BY DEF Init, Atomic!Init, NoInput, Answers, Atomic!NoInput, Atomic!NoObject, Atomic!NoCall,
     NoObject, NoCall, NoReply, Atomic!NoReply, Nothing

LEMMA StepRefines == IInv /\ [Next]_vars => [Atomic!Next]_(Atomic!vars)
<1> SUFFICES ASSUME IInv, [Next]_vars PROVE Atomic!Next \/ UNCHANGED Atomic!vars
  OBVIOUS
<1>t. TypeOK
  BY DEF IInv
<1>u. CASE UNCHANGED vars
  BY <1>u, SilentStep DEF vars, Opened, Applied
<1>1. ASSUME NEW r \in Requests, NEW i \in Inputs, Receive(r, i) PROVE Atomic!Next
  <2>1. run[r] = "none" /\ run'[r] # "resolved" /\ pc'[r] \notin {"idle", "responded"}
    BY <1>1 DEF IInv, Staged, TypeOK, Receive, Proceed
  <2>2. Opened' = Opened \cup {r} /\ Applied' = Applied
    BY <1>1, <2>1 DEF IInv, TypeOK, Receive, Opened, Applied
  <2>3. Atomic!Open(r, i)
    BY <1>1, <2>2 DEF Receive, Atomic!Open, Opened, Applied, NoInput, Answers,
       Atomic!NoInput, Atomic!NoObject, Atomic!NoCall, NoObject, NoCall
  <2> QED
    BY <2>3 DEF Atomic!Next
<1>2. ASSUME NEW r \in Requests, Fetch(r) \/ Prepare(r) PROVE UNCHANGED Atomic!vars
  <2>1. Opened' = Opened /\ Applied' = Applied
    BY <1>2 DEF IInv, TypeOK, Staged, Fetch, Prepare, Goto, Proceed, Opened, Applied
  <2> QED
    BY <1>2, <2>1, SilentStep DEF Fetch, Prepare
<1>3. ASSUME NEW r \in Requests, NotFound(r) PROVE Atomic!Next
  BY <1>t, <1>3, ErrorDeclines DEF NotFound, Applied
<1>4. ASSUME NEW r \in Requests, PrepareRefused(r) PROVE Atomic!Next
  BY <1>t, <1>4, ErrorDeclines DEF PrepareRefused, Applied
<1>5. ASSUME NEW r \in Requests,
             \/ FetchFails(r) \/ PrepareFails(r) \/ GetTotalFeesFails(r)
             \/ TimesOut(r) \/ ReadFails(r)
      PROVE  Atomic!Next
  BY <1>t, <1>5, ErrorDeclines
  DEF FetchFails, PrepareFails, GetTotalFeesFails, TimesOut, ReadFails, Applied
<1>6. ASSUME NEW r \in Requests, NEW e \in {"refused", "failed"},
             run[r] = "pending", RejectRun(r, Error(e)),
             UNCHANGED <<book, input, made, read>>
      PROVE  Atomic!Next \/ UNCHANGED Atomic!vars
  <2>1. Applied' = Applied
    BY <1>6 DEF IInv, TypeOK, RejectRun, Applied
  <2>2. CASE pc[r] = "processing"
    BY <1>t, <1>6, <2>1, <2>2, ErrorDeclines DEF RejectRun
  <2>3. CASE pc[r] # "processing"
    BY <1>6, <2>1, <2>3, SilentStep DEF RejectRun, Opened
  <2> QED
    BY <2>2, <2>3
<1>7. ASSUME NEW r \in Requests, Refuse(r) \/ RunFails(r)
      PROVE  Atomic!Next \/ UNCHANGED Atomic!vars
  BY <1>6, <1>7 DEF Refuse, RunFails
<1>8. ASSUME NEW r \in Requests, Include(r) PROVE Atomic!Next
  <2>1. Call(r) # NoCall /\ Present(r) /\ r \notin Applied
    BY <1>8 DEF IInv, TypeOK, Fetched, Include, Applied
  <2>2. Opened' = Opened /\ Applied' = Applied \cup {r}
    BY <1>8 DEF IInv, TypeOK, Include, Opened, Applied
  <2>3. Atomic!Apply(r)
    BY <1>8, <2>1, <2>2, SameChain
    DEF Include, Atomic!Apply, Atomic!Present, Present, Call, Opened, Applied,
        Atomic!NoCall, NoCall, Atomic!NoObject, NoObject
  <2> QED
    BY <2>3 DEF Atomic!Next
<1>9. ASSUME NEW r \in Requests, HandleServiceResult(r) PROVE Atomic!Next
  <2>0. /\ pc[r] = "processing" /\ Respond(r, Made(made[r]))
        /\ Applied' = Applied /\ UNCHANGED <<book, input, made, read>>
    BY <1>9 DEF HandleServiceResult, Settled, Applied
  <2>1. Atomic!Close(r, Made(made[r]))
    BY <1>t, <2>0, AnswerCloses DEF Atomic!Close, Respond, Opened, Applied
  <2>2. Atomic!Confirm(r)
    BY <1>9, <2>1 DEF HandleServiceResult, Settled, Atomic!Confirm, Applied,
       Atomic!Made, Made
  <2> QED
    BY <2>2 DEF Atomic!Next
<1>10. ASSUME NEW r \in Requests, NEW q \in input[r].queries, ReadField(r, q)
       PROVE  Atomic!Next
  <2>1. Present(r) /\ r \in Opened
    BY <1>10 DEF IInv, Fetched, ReadField, Opened
  <2>2. Atomic!Observe(r, q)
    BY <1>10, <2>1, SameChain
    DEF ReadField, Atomic!Observe, Atomic!Present, Present, Opened, Applied,
        Atomic!NoObject, NoObject, Atomic!WithAnswer, WithAnswer
  <2> QED
    BY <2>2 DEF Atomic!Next
<1>11. ASSUME NEW r \in Requests, Assemble(r) PROVE Atomic!Next
  <2>1. CASE NoOwner(r)
    BY <1>t, <1>11, <2>1, ErrorDeclines DEF Assemble, AllRead, Applied
  <2>2. CASE ~NoOwner(r)
    <3>0. /\ pc[r] = "reading" /\ Respond(r, Report(read[r]))
          /\ Applied' = Applied /\ UNCHANGED <<book, input, made, read>>
      BY <1>11, <2>2 DEF Assemble, AllRead, Applied
    <3>1. Atomic!Close(r, Report(read[r]))
      BY <1>t, <3>0, AnswerCloses DEF Atomic!Close, Respond, Opened, Applied
    <3>2. input[r].queries # {}
      BY <1>11, InputsAssumption DEF IInv, Staged, Assemble, AllRead, Call
    <3>3. Atomic!Inform(r)
      BY <1>11, <3>1, <3>2 DEF Assemble, AllRead, Atomic!Inform, Atomic!Report, Report
    <3> QED
      BY <3>3 DEF Atomic!Next
  <2> QED
    BY <2>1, <2>2
<1> QED
  BY <1>u, <1>1, <1>2, <1>3, <1>4, <1>5, <1>7, <1>8, <1>9, <1>10, <1>11
  DEF Next, ServiceStep, ChainStep, FaultStep

\* However the requests interleave and whatever fails, a client sees what
\* AtomicRequests promises: calls take effect once and before their success is
\* answered, and reports show what was there while the request was open.
THEOREM PipelineImplementsAtomicRequests == Spec => ImplementsAtomicRequests
<1>1. Init => IInv /\ Atomic!Init
  BY InitImpliesIInv, InitRefines
<1>2. IInv /\ [Next]_vars => IInv'
  BY StepKeepsIInv
<1>3. IInv /\ [Next]_vars => [Atomic!Next]_(Atomic!vars)
  BY StepRefines
<1> QED
  BY <1>1, <1>2, <1>3, PTL DEF Spec, ImplementsAtomicRequests, Atomic!Spec
=============================================================================
