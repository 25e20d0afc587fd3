----------------------- MODULE RequestEffects_proofs -----------------------
(***************************************************************************)
(* What a call has done stays done until a call that undoes it is asked    *)
(* for (Lasting).  From this follow, for any number of requests, that      *)
(* conflicting requests have one winner, that nothing moves after a freeze *)
(* was answered, that edits of the list of venues survive each other, and  *)
(* that a count of zero means the transaction can be executed.             *)
(***************************************************************************)
EXTENDS RequestPipeline_proofs, FiniteSetTheorems

AssetInForce(c, asset) ==
    /\ c.method = "freeze" => asset.frozen
    /\ c.method = "freezeAccount" => c.account \in asset.frozenAccounts
    /\ c.method = "setVenueFiltering" =>
          /\ "allowedVenues" \in DOMAIN c.args => c.args.allowedVenues \subseteq asset.allowed
          /\ "disallowedVenues" \in DOMAIN c.args =>
                c.args.disallowedVenues \cap asset.allowed = {}

TransactionInForce(c, transaction) ==
    /\ c.method \in {"execute", "reject"} => transaction.status # "Pending"
    /\ c.method = "affirmLeg" => <<c.leg, c.party>> \in transaction.affirmed

\* The book shows what call c did.
InForce(c, b) ==
    /\ c.method \in AssetMethods =>
          c.asset \in DOMAIN b.assets /\ AssetInForce(c, b.assets[c.asset])
    /\ c.method \in TransactionMethods =>
          /\ c.transaction \in DOMAIN b.transactions
          /\ TransactionInForce(c, b.transactions[c.transaction])
    /\ c.method = "createConfidentialAccount" => <<c.account, c.identity>> \in b.linked

\* One edit of the list of venues adds what the other removes.
Clash(x, y) ==
    /\ "disallowedVenues" \in DOMAIN x /\ "allowedVenues" \in DOMAIN y
    /\ x.disallowedVenues \cap y.allowedVenues # {}

\* Call c undoes what call d has done to an asset.
Undoes(c, d) ==
    /\ c.method \in AssetMethods /\ d.method \in AssetMethods /\ c.asset = d.asset
    /\ \/ c.method = "unfreeze" /\ d.method = "freeze"
       \/ c.method = "unfreezeAccount" /\ d.method = "freezeAccount" /\ c.account = d.account
       \/ /\ c.method = "setVenueFiltering" /\ d.method = "setVenueFiltering"
          /\ Clash(c.args, d.args) \/ Clash(d.args, c.args)

\* Nothing that was done is lost unless somebody asked for the opposite.
Lasting ==
    \A r \in Requests : run[r] = "resolved" =>
        InForce(Call(r), book) \/ \E s \in Requests : Undoes(Call(s), Call(r))

\* Two calls of which the chain takes only one.
Rivals(c, d) ==
    \/ /\ c.method \in {"execute", "reject"} /\ d.method \in {"execute", "reject"}
       /\ c.transaction = d.transaction
    \/ c.method = "affirmLeg" /\ c = d
    \/ /\ c.method = "createConfidentialAccount" /\ d.method = "createConfidentialAccount"
       /\ c.account = d.account

OneTaken ==
    \A r, s \in Requests :
        r # s /\ run[r] = "resolved" /\ run[s] = "resolved" => ~Rivals(Call(r), Call(s))

\* A success is only answered once the call was taken, or is a report.
SuccessIsTaken ==
    \A r \in Requests : reply[r].kind = "ok" =>
        IF Call(r) = NoCall THEN reply[r] = Report(read[r]) ELSE run[r] = "resolved"

\* After a count of zero no affirmation is missing any more.
ZeroStays ==
    \A r \in Requests : \A q \in DOMAIN read[r] :
        q.query = "getPendingAffirmsCount" /\ read[r][q] = 0 =>
            q.transaction \in DOMAIN book.transactions /\ Missing(q.transaction, book) = {}

EInv == IInv /\ Lasting /\ OneTaken /\ SuccessIsTaken /\ ZeroStays

-----------------------------------------------------------------------------
(* Effects on the book. *)

LEMMA CallTypes ==
    ASSUME NEW c \in Calls
    PROVE  /\ c.method = "setVenueFiltering" => c.args \in FilteringArgs
           /\ c.method \in {"freezeAccount", "unfreezeAccount"} => c.account \in Accounts
           /\ c.method = "createConfidentialAccount" => c.identity \in Identities
  BY DEF Calls

\* What a call does to an asset shows in the asset.
LEMMA AssetNow ==
    ASSUME NEW c \in Calls, c.method \in AssetMethods, NEW asset \in Assets
    PROVE  AssetInForce(c, AssetAfter(c, asset))
<1>1. CASE c.method \in {"issue", "unfreeze", "unfreezeAccount"}
  BY <1>1 DEF AssetInForce
<1>2. CASE c.method \in {"freeze", "freezeAccount"}
  BY <1>2 DEF AssetInForce, AssetAfter, Assets
<1>3. CASE c.method = "setVenueFiltering"
  <2>1. AssetAfter(c, asset) = Filter(asset, c.args) /\ c.args \in FilteringArgs
    BY <1>3, CallTypes DEF AssetAfter
  <2>2. CASE c.args \in [enabled : BOOLEAN]
    BY <1>3, <2>2 DEF AssetInForce
  <2>3. CASE c.args \in [allowedVenues : SUBSET Nat]
    BY <1>3, <2>1, <2>3 DEF AssetInForce, Filter, Assets
  <2>4. CASE c.args \in [disallowedVenues : SUBSET Nat]
    BY <1>3, <2>1, <2>4 DEF AssetInForce, Filter, Assets
  <2> QED
    BY <2>1, <2>2, <2>3, <2>4 DEF FilteringArgs
<1> QED
  BY <1>1, <1>2, <1>3 DEF AssetMethods

\* An edit of the venues leaves an edit in force with which it does not clash.
LEMMA FilterStays ==
    ASSUME NEW x \in FilteringArgs, NEW y \in FilteringArgs, NEW asset \in Assets,
           ~Clash(x, y), ~Clash(y, x)
    PROVE  /\ ("allowedVenues" \in DOMAIN y /\ y.allowedVenues \subseteq asset.allowed) =>
                  y.allowedVenues \subseteq Filter(asset, x).allowed
           /\ ("disallowedVenues" \in DOMAIN y /\ y.disallowedVenues \cap asset.allowed = {}) =>
                  y.disallowedVenues \cap Filter(asset, x).allowed = {}
           /\ Filter(asset, x).frozen = asset.frozen
           /\ Filter(asset, x).frozenAccounts = asset.frozenAccounts
<1>1. CASE x \in [enabled : BOOLEAN]
  BY <1>1 DEF Filter, Assets
<1>2. CASE x \in [allowedVenues : SUBSET Nat]
  <2>1. Filter(asset, x) = [asset EXCEPT !.allowed = @ \cup x.allowedVenues]
    BY <1>2 DEF Filter
  <2>2. "allowedVenues" \in DOMAIN x
    BY <1>2
  <2> QED
    BY <2>1, <2>2 DEF Clash, Assets
<1>3. CASE x \in [disallowedVenues : SUBSET Nat]
  <2>1. Filter(asset, x) = [asset EXCEPT !.allowed = @ \ x.disallowedVenues]
    BY <1>3 DEF Filter
  <2>2. "disallowedVenues" \in DOMAIN x
    BY <1>3
  <2> QED
    BY <2>1, <2>2 DEF Clash, Assets
<1> QED
  BY <1>1, <1>2, <1>3 DEF FilteringArgs

\* A call on an asset leaves another in force unless it undoes it.
LEMMA AssetStays ==
    ASSUME NEW c \in Calls, c.method \in AssetMethods, NEW d \in Calls, d.method \in AssetMethods,
           c.asset = d.asset, ~Undoes(c, d), NEW asset \in Assets, AssetInForce(d, asset)
    PROVE  AssetInForce(d, AssetAfter(c, asset))
<1>1. CASE c.method = "issue"
  BY <1>1 DEF AssetInForce, AssetAfter, Assets
<1>2. CASE c.method \in {"freeze", "unfreeze"}
  BY <1>2 DEF AssetInForce, AssetAfter, Assets, Undoes
<1>3. CASE c.method \in {"freezeAccount", "unfreezeAccount"}
  BY <1>3 DEF AssetInForce, AssetAfter, Assets, Undoes
<1>4. CASE c.method = "setVenueFiltering"
  <2>1. AssetAfter(c, asset) = Filter(asset, c.args) /\ c.args \in FilteringArgs
    BY <1>4, CallTypes DEF AssetAfter
  <2>2. CASE d.method = "setVenueFiltering"
    <3>1. d.args \in FilteringArgs /\ ~Clash(c.args, d.args) /\ ~Clash(d.args, c.args)
      BY <1>4, <2>2, CallTypes DEF Undoes
    <3> QED
      BY <2>1, <2>2, <3>1, FilterStays DEF AssetInForce
  <2>3. CASE d.method # "setVenueFiltering"
    <3>1. Filter(asset, c.args).frozen = asset.frozen
      BY <2>1, FilterStays DEF Clash, Filter, Assets
    <3>2. Filter(asset, c.args).frozenAccounts = asset.frozenAccounts
      BY <2>1 DEF Filter, Assets
    <3> QED
      BY <2>1, <2>3, <3>1, <3>2 DEF AssetInForce
  <2> QED
    BY <2>2, <2>3
<1> QED
  BY <1>1, <1>2, <1>3, <1>4 DEF AssetMethods

\* A call on a transaction shows in it, and leaves the others in force.
LEMMA TransactionNow ==
    ASSUME NEW c \in Calls, c.method \in TransactionMethods, NEW t \in Transactions
    PROVE  TransactionInForce(c, TransactionAfter(c, t))
  BY DEF TransactionInForce, TransactionAfter, Transactions, TransactionMethods

LEMMA TransactionStays ==
    ASSUME NEW c \in Calls, c.method \in TransactionMethods, NEW d, NEW t \in Transactions,
           TransactionInForce(d, t)
    PROVE  TransactionInForce(d, TransactionAfter(c, t))
  BY DEF TransactionInForce, TransactionAfter, Transactions, TransactionMethods

\* Affirmations are never taken back.
LEMMA AffirmationsStay ==
    ASSUME NEW c, c.method \in TransactionMethods, NEW t \in Transactions
    PROVE  t.affirmed \subseteq TransactionAfter(c, t).affirmed
  BY DEF TransactionAfter, Transactions, TransactionMethods

\* Where a call changes the book, and where it does not.
LEMMA EffectIsLocal ==
    ASSUME NEW b \in Books, NEW c \in Calls, NEW e, e = Effect(c, b)
    PROVE  /\ \A a \in DOMAIN b.assets :
                 e.assets[a] = IF c.method \in AssetMethods /\ c.asset = a
                               THEN AssetAfter(c, b.assets[a]) ELSE b.assets[a]
           /\ \A t \in DOMAIN b.transactions :
                 e.transactions[t] = IF c.method \in TransactionMethods /\ c.transaction = t
                                     THEN TransactionAfter(c, b.transactions[t])
                                     ELSE b.transactions[t]
           /\ b.linked \subseteq e.linked
<1>0. b.assets \in Seq(Assets) /\ b.transactions \in Seq(Transactions)
  BY DEF Books
<1>1. CASE c.method \in AssetMethods
  <2>1. e = [b EXCEPT !.assets = [@ EXCEPT ![c.asset] = AssetAfter(c, b.assets[c.asset])]]
    BY <1>1 DEF Effect, AssetMethods, TransactionMethods, SetAsset
  <2>2. c.method \notin TransactionMethods
    BY <1>1 DEF AssetMethods, TransactionMethods
  <2> QED
    BY <1>0, <1>1, <2>1, <2>2 DEF Books
<1>2. CASE c.method \in TransactionMethods
  <2>1. e = [b EXCEPT !.transactions =
                [@ EXCEPT ![c.transaction] = TransactionAfter(c, b.transactions[c.transaction])]]
    BY <1>2 DEF Effect, AssetMethods, TransactionMethods, SetTransaction
  <2>2. c.method \notin AssetMethods
    BY <1>2 DEF AssetMethods, TransactionMethods
  <2> QED
    BY <1>0, <1>2, <2>1, <2>2 DEF Books
<1>3. CASE c.method = "createConfidentialAsset"
  <2>1. e = [b EXCEPT !.assets = Append(@, NewAsset)]
    BY <1>3 DEF Effect, AssetMethods, TransactionMethods
  <2> QED
    BY <1>0, <1>3, <2>1 DEF Books, AssetMethods, TransactionMethods
<1>4. CASE c.method = "addTransaction"
  <2>1. e = [b EXCEPT !.transactions = Append(@, NewTransaction)]
    BY <1>4 DEF Effect, AssetMethods, TransactionMethods
  <2> QED
    BY <1>0, <1>4, <2>1 DEF Books, AssetMethods, TransactionMethods
<1>5. CASE c.method \in {"createVenue", "createKey", "createConfidentialAccount", "moveFunds"}
  <2>1. /\ e.assets = b.assets /\ e.transactions = b.transactions
        /\ b.linked \subseteq e.linked
    BY <1>5 DEF Effect, AssetMethods, TransactionMethods, Books
  <2> QED
    BY <1>5, <2>1 DEF AssetMethods, TransactionMethods
<1> QED
  BY <1>1, <1>2, <1>3, <1>4, <1>5 DEF Calls, AssetMethods, TransactionMethods

\* A call whose object exists shows in the book once it has taken effect.
LEMMA EffectInForce ==
    ASSUME NEW b \in Books, NEW c \in Calls,
           c.method \in AssetMethods => c.asset \in DOMAIN b.assets,
           c.method \in TransactionMethods => c.transaction \in DOMAIN b.transactions
    PROVE  InForce(c, Effect(c, b))
<1> DEFINE e == Effect(c, b)
<1>0. b.assets \in Seq(Assets) /\ b.transactions \in Seq(Transactions) /\ Grows(b, e)
  BY EffectOnBooks DEF Books
<1>1. CASE c.method \in AssetMethods
  <2>1. e.assets[c.asset] = AssetAfter(c, b.assets[c.asset])
    BY <1>1, EffectIsLocal
  <2>2. b.assets[c.asset] \in Assets /\ c.asset \in DOMAIN e.assets
    BY <1>0, <1>1 DEF Grows
  <2>3. AssetInForce(c, e.assets[c.asset])
    BY <1>1, <2>1, <2>2, AssetNow
  <2> QED
    BY <1>1, <2>2, <2>3 DEF InForce, AssetMethods, TransactionMethods
<1>2. CASE c.method \in TransactionMethods
  <2>1. e.transactions[c.transaction] = TransactionAfter(c, b.transactions[c.transaction])
    BY <1>2, EffectIsLocal
  <2>2. b.transactions[c.transaction] \in Transactions /\ c.transaction \in DOMAIN e.transactions
    BY <1>0, <1>2 DEF Grows
  <2>3. TransactionInForce(c, e.transactions[c.transaction])
    BY <1>2, <2>1, <2>2, TransactionNow
  <2> QED
    BY <1>2, <2>2, <2>3 DEF InForce, AssetMethods, TransactionMethods
<1>3. CASE c.method = "createConfidentialAccount"
  <2>1. e = [b EXCEPT !.linked = @ \cup {<<c.account, c.identity>>}]
    BY <1>3 DEF Effect, AssetMethods, TransactionMethods
  <2> QED
    BY <1>3, <2>1 DEF InForce, AssetMethods, TransactionMethods, Books
<1>4. CASE c.method \notin AssetMethods \cup TransactionMethods \cup {"createConfidentialAccount"}
  BY <1>4 DEF InForce
<1> QED
  BY <1>1, <1>2, <1>3, <1>4

\* A call leaves what others have done in force, unless it undoes it.
LEMMA OthersStayInForce ==
    ASSUME NEW b \in Books, NEW c \in Calls, NEW d \in Calls, InForce(d, b), ~Undoes(c, d)
    PROVE  InForce(d, Effect(c, b))
<1> DEFINE e == Effect(c, b)
<1>0. b.assets \in Seq(Assets) /\ b.transactions \in Seq(Transactions) /\ Grows(b, e)
  BY EffectOnBooks DEF Books
<1>1. ASSUME d.method \in AssetMethods
      PROVE  d.asset \in DOMAIN e.assets /\ AssetInForce(d, e.assets[d.asset])
  <2>1. d.asset \in DOMAIN b.assets /\ AssetInForce(d, b.assets[d.asset])
    BY <1>1 DEF InForce
  <2>2. b.assets[d.asset] \in Assets /\ d.asset \in DOMAIN e.assets
    BY <1>0, <2>1 DEF Grows
  <2>3. e.assets[d.asset] = IF c.method \in AssetMethods /\ c.asset = d.asset
                            THEN AssetAfter(c, b.assets[d.asset]) ELSE b.assets[d.asset]
    BY <2>1, EffectIsLocal
  <2>4. AssetInForce(d, e.assets[d.asset])
    BY <1>1, <2>1, <2>2, <2>3, AssetStays
  <2> QED
    BY <2>2, <2>4
<1>2. ASSUME d.method \in TransactionMethods
      PROVE  /\ d.transaction \in DOMAIN e.transactions
             /\ TransactionInForce(d, e.transactions[d.transaction])
  <2>1. /\ d.transaction \in DOMAIN b.transactions
        /\ TransactionInForce(d, b.transactions[d.transaction])
    BY <1>2 DEF InForce
  <2>2. b.transactions[d.transaction] \in Transactions /\ d.transaction \in DOMAIN e.transactions
    BY <1>0, <2>1 DEF Grows
  <2>3. e.transactions[d.transaction] =
            IF c.method \in TransactionMethods /\ c.transaction = d.transaction
            THEN TransactionAfter(c, b.transactions[d.transaction])
            ELSE b.transactions[d.transaction]
    BY <2>1, EffectIsLocal
  <2>4. TransactionInForce(d, e.transactions[d.transaction])
    BY <2>1, <2>2, <2>3, TransactionStays
  <2> QED
    BY <2>2, <2>4
<1>3. b.linked \subseteq e.linked
  BY EffectIsLocal
<1> QED
  BY <1>1, <1>2, <1>3 DEF InForce

\* The chain does not take a call whose rival is in force.
LEMMA RivalIsRefused ==
    ASSUME NEW b \in Books, NEW c \in Calls, NEW d \in Calls, InForce(d, b), Rivals(c, d)
    PROVE  ~Allowed(c, b)
<1>1. CASE /\ c.method \in {"execute", "reject"} /\ d.method \in {"execute", "reject"}
           /\ c.transaction = d.transaction
  BY <1>1 DEF InForce, TransactionInForce, TransactionMethods, Allowed, Pending
<1>2. CASE c.method = "affirmLeg" /\ c = d
  BY <1>2 DEF InForce, TransactionInForce, TransactionMethods, Allowed, Missing
<1>3. CASE /\ c.method = "createConfidentialAccount" /\ d.method = "createConfidentialAccount"
           /\ c.account = d.account
  <2>1. d.identity \in Identities /\ <<c.account, d.identity>> \in b.linked
    BY <1>3, CallTypes DEF InForce
  <2> QED
    BY <1>3, <2>1 DEF Allowed
<1> QED
  BY <1>1, <1>2, <1>3 DEF Rivals

-----------------------------------------------------------------------------
(* What requests are made of. *)

\* A request's object is what its call or its count is about, and a call that
\* undoes something was asked for.
Consistent(i) ==
    /\ i.call.method \in AssetMethods => i.object = AssetObject(i.call.asset)
    /\ i.call.method \in TransactionMethods => i.object = TransactionObject(i.call.transaction)
    /\ \A q \in i.queries : q.query = "getPendingAffirmsCount" =>
           i.object = TransactionObject(q.transaction)
    /\ i.call.method = "unfreeze" =>
           i.ask.endpoint = "unfreeze" /\ i.ask.asset = i.call.asset
    /\ i.call.method = "unfreezeAccount" =>
           /\ i.ask.endpoint = "unfreeze-account"
           /\ i.ask.asset = i.call.asset /\ i.ask.account = i.call.account
    /\ i.call.method = "setVenueFiltering" /\ "allowedVenues" \in DOMAIN i.call.args =>
           /\ i.ask.endpoint = "add-allowed-venues" /\ i.ask.asset = i.call.asset
           /\ i.ask.venues = i.call.args.allowedVenues
    /\ i.call.method = "setVenueFiltering" /\ "disallowedVenues" \in DOMAIN i.call.args =>
           /\ i.ask.endpoint = "remove-allowed-venues" /\ i.ask.asset = i.call.asset
           /\ i.ask.venues = i.call.args.disallowedVenues

LEMMA RouteIsConsistent ==
    ASSUME NEW ask
    PROVE  Consistent(Route(ask))
<1> USE DEF Consistent, Submits, Answers, NoCall, AssetMethods, TransactionMethods
<1>1. /\ Consistent(CreateConfidentialAsset) /\ Consistent(CreateVenue)
      /\ Consistent(CreateAccount) /\ Consistent(GetAccounts)
  BY DEF CreateConfidentialAsset, CreateVenue, CreateAccount, GetAccounts
<1>2. \A a : Consistent(Issue(a)) /\ Consistent(AssetDetails(a))
           /\ Consistent(VenueFilteringDetails(a))
  BY DEF Issue, AssetDetails, VenueFilteringDetails
<1>3. \A a, x : /\ Consistent(ToggleConfidentialVenueFiltering(a, x))
                /\ Consistent(AddAllowedVenues(a, x)) /\ Consistent(RemoveAllowedVenues(a, x))
  BY DEF ToggleConfidentialVenueFiltering, AddAllowedVenues, RemoveAllowedVenues,
     SetVenueFilteringDetails
<1>4. \A a : Consistent(FreezeConfidentialAsset(a)) /\ Consistent(UnfreezeConfidentialAsset(a))
  BY DEF FreezeConfidentialAsset, UnfreezeConfidentialAsset, ToggleFreezeConfidentialAsset
<1>5. \A a, k : /\ Consistent(FreezeConfidentialAccount(a, k))
                /\ Consistent(UnfreezeConfidentialAccount(a, k))
                /\ Consistent(IsConfidentialAccountFrozen(a, k))
  BY DEF FreezeConfidentialAccount, UnfreezeConfidentialAccount, IsConfidentialAccountFrozen,
     ToggleFreezeConfidentialAccountAsset
<1>6. \A v, s : Consistent(CreateConfidentialTransaction(v, s))
  BY DEF CreateConfidentialTransaction
<1>7. \A t, l, p : Consistent(SenderAffirmLeg(t, l)) /\ Consistent(ObserverAffirmLeg(t, l, p))
  BY DEF SenderAffirmLeg, ObserverAffirmLeg
<1>8. \A t : /\ Consistent(RejectTransaction(t)) /\ Consistent(ExecuteTransaction(t))
             /\ Consistent(TransactionDetails(t)) /\ Consistent(PendingAffirmsCount(t))
  BY DEF RejectTransaction, ExecuteTransaction, TransactionDetails, PendingAffirmsCount
<1>9. \A k, d : Consistent(LinkAccount(k, d)) /\ Consistent(GetOwner(k))
  BY DEF LinkAccount, GetOwner
<1>10. \A a, k, l : Consistent(MoveFunds(a, k, l))
  BY DEF MoveFunds
<1>11. Consistent(Answers(ask, NoObject, {}))
  OBVIOUS
<1> HIDE DEF Consistent, Submits, Answers
<1> QED
  BY <1>1, <1>2, <1>3, <1>4, <1>5, <1>6, <1>7, <1>8, <1>9, <1>10, <1>11 DEF Route

LEMMA InputsAreConsistent ==
    ASSUME NEW i \in Inputs \cup {NoInput}
    PROVE  Consistent(i)
<1>1. Consistent(NoInput)
  BY DEF Consistent, NoInput, Answers, NoCall, AssetMethods, TransactionMethods
<1> QED
  BY <1>1, RouteIsConsistent, RouteAssumption

\* Only a set without elements has none.
LEMMA NoneMissing ==
    ASSUME NEW t, NEW b, Cardinality(Missing(t, b)) = 0
    PROVE  Missing(t, b) = {}
<1>1. IsFiniteSet(Parties)
  <2>1. Parties = {"Sender"} \cup {"Receiver"} \cup {"Mediator"}
    BY DEF Parties
  <2> QED
    BY <2>1, FS_Singleton, FS_AddElement
<1>2. IsFiniteSet(Affirmations)
  BY <1>1, LegsAssumption, FS_Product DEF Affirmations
<1>3. IsFiniteSet(Missing(t, b))
  BY <1>2, FS_Subset DEF Missing
<1> QED
  BY <1>3, FS_EmptySet

-----------------------------------------------------------------------------
(* The inductive invariant. *)

LEMMA InitImpliesEInv == Init => EInv
<1> SUFFICES ASSUME Init PROVE EInv
  OBVIOUS
<1>1. IInv
  BY InitImpliesIInv
<1>2. Lasting /\ OneTaken /\ SuccessIsTaken /\ ZeroStays
  BY DEF Init, Lasting, OneTaken, SuccessIsTaken, ZeroStays, NoReply, Nothing
<1> QED
  BY <1>1, <1>2 DEF EInv

\* Requests that leave the book alone, and take nothing.
LEMMA QuietStep ==
    ASSUME EInv, UNCHANGED <<book, input>>, Applied' = Applied
    PROVE  Lasting' /\ OneTaken'
<1>1. \A r \in Requests : run'[r] = "resolved" <=> run[r] = "resolved"
  BY DEF Applied
<1> QED
  BY <1>1 DEF EInv, Lasting, OneTaken, Call

\* An error or nothing is answered.
LEMMA SilentOrError ==
    ASSUME EInv, Applied' = Applied, UNCHANGED <<book, input, read>>, NEW r \in Requests,
           reply' = reply \/ \E e \in Errors : reply' = [reply EXCEPT ![r] = e]
    PROVE  Lasting' /\ OneTaken' /\ SuccessIsTaken' /\ ZeroStays'
<1>1. Lasting' /\ OneTaken'
  BY QuietStep
<1>2. \A q \in Requests : run'[q] = "resolved" <=> run[q] = "resolved"
  BY DEF Applied
<1>3. \A q \in Requests : reply'[q].kind = "ok" => reply'[q] = reply[q]
  BY DEF EInv, IInv, TypeOK, Errors, Error
<1>4. SuccessIsTaken'
  BY <1>2, <1>3 DEF EInv, SuccessIsTaken, Call
<1>5. ZeroStays'
  BY DEF EInv, ZeroStays
<1> QED
  BY <1>1, <1>4, <1>5

LEMMA ReceiveEInv ==
    ASSUME EInv, NEW r \in Requests, NEW i \in Inputs, Receive(r, i)
    PROVE  Lasting' /\ OneTaken' /\ SuccessIsTaken' /\ ZeroStays'
<1>1. /\ run[r] = "none" /\ run'[r] # "resolved" /\ reply[r] = NoReply /\ input[r] = NoInput
      /\ DOMAIN read[r] = {}
  BY DEF EInv, IInv, Staged, TypeOK, Receive, NoInput, Answers
<1>2. \A q \in Requests : q # r => run'[q] = run[q] /\ input'[q] = input[q]
  BY DEF Receive
<1>3. book' = book /\ reply' = reply /\ read' = read
  BY DEF Receive
<1>4. \A s, q \in Requests : Undoes(Call(s), Call(q)) => Undoes(Call(s), Call(q))' \/ q = r
  <2>1. \A d : ~Undoes(NoInput.call, d)
    BY DEF Undoes, NoInput, Answers, NoCall, AssetMethods
  <2> QED
    BY <1>1, <1>2, <2>1 DEF Call
<1>5. Lasting'
  BY <1>1, <1>2, <1>3, <1>4 DEF EInv, Lasting, Call
<1>6. OneTaken'
  BY <1>1, <1>2 DEF EInv, OneTaken, Call
<1>7. SuccessIsTaken'
  BY <1>1, <1>2, <1>3 DEF EInv, SuccessIsTaken, Call, NoReply
<1>8. ZeroStays'
  BY <1>3 DEF EInv, ZeroStays
<1> QED
  BY <1>5, <1>6, <1>7, <1>8

\* The object of a call that is under way exists.
LEMMA ObjectIsThere ==
    ASSUME IInv, NEW r \in Requests, run[r] # "none"
    PROVE  /\ Call(r) \in Calls
           /\ Call(r).method \in AssetMethods => Call(r).asset \in DOMAIN book.assets
           /\ Call(r).method \in TransactionMethods =>
                  Call(r).transaction \in DOMAIN book.transactions
<1>1. input[r] \in Inputs /\ Present(r)
  BY DEF IInv, TypeOK, Fetched, Call, NoInput, Answers
<1>2. Call(r) \in Calls
  BY <1>1, InputsAssumption DEF IInv, TypeOK, Call
<1>3. Consistent(input[r])
  BY <1>1, InputsAreConsistent
<1> QED
  BY <1>1, <1>2, <1>3 DEF Consistent, Present, Exists, Call, AssetObject, TransactionObject, NoObject

LEMMA IncludeEInv ==
    ASSUME EInv, NEW r \in Requests, Include(r)
    PROVE  Lasting' /\ OneTaken' /\ SuccessIsTaken' /\ ZeroStays'
<1>0. /\ IInv /\ book \in Books /\ run[r] = "pending" /\ run'[r] = "resolved"
      /\ book' = Effect(Call(r), book) /\ Allowed(Call(r), book)
      /\ UNCHANGED <<input, read, reply>>
      /\ \A q \in Requests : q # r => run'[q] = run[q]
      /\ \A q \in Requests : Call(q)' = Call(q)
  BY DEF EInv, IInv, TypeOK, Include, Call
<1>1. /\ Call(r) \in Calls
      /\ Call(r).method \in AssetMethods => Call(r).asset \in DOMAIN book.assets
      /\ Call(r).method \in TransactionMethods =>
             Call(r).transaction \in DOMAIN book.transactions
  BY <1>0, ObjectIsThere
<1>2. \A q \in Requests : run[q] = "resolved" => Call(q) \in Calls
  BY <1>0, ObjectIsThere
<1>3. Lasting'
  <2>1. InForce(Call(r), book')
    BY <1>0, <1>1, EffectInForce
  <2>2. ASSUME NEW q \in Requests, run[q] = "resolved"
        PROVE  InForce(Call(q), book') \/ \E s \in Requests : Undoes(Call(s), Call(q))
    <3>1. CASE Undoes(Call(r), Call(q))
      BY <3>1
    <3>2. CASE ~Undoes(Call(r), Call(q)) /\ InForce(Call(q), book)
      BY <1>0, <1>1, <1>2, <2>2, <3>2, OthersStayInForce
    <3> QED
      BY <2>2, <3>1, <3>2 DEF EInv, Lasting
  <2> QED
    BY <1>0, <2>1, <2>2 DEF Lasting
<1>4. OneTaken'
  <2>1. ASSUME NEW q \in Requests, run[q] = "resolved",
               Rivals(Call(r), Call(q)) \/ Rivals(Call(q), Call(r))
        PROVE  FALSE
    <3>1. Rivals(Call(r), Call(q))
      BY <2>1 DEF Rivals
    <3>2. ~\E s \in Requests : Undoes(Call(s), Call(q))
      BY <3>1 DEF Rivals, Undoes, AssetMethods
    <3>3. InForce(Call(q), book)
      BY <2>1, <3>2 DEF EInv, Lasting
    <3> QED
      BY <1>0, <1>1, <1>2, <2>1, <3>1, <3>3, RivalIsRefused
  <2> QED
    BY <1>0, <2>1 DEF EInv, OneTaken
<1>5. SuccessIsTaken'
  BY <1>0 DEF EInv, SuccessIsTaken
<1>6. ZeroStays'
  <2>1. ASSUME NEW t, t \in DOMAIN book.transactions, Missing(t, book) = {}
        PROVE  t \in DOMAIN book'.transactions /\ Missing(t, book') = {}
    <3>1. t \in DOMAIN book'.transactions
      BY <1>0, <1>1, <2>1, EffectOnBooks DEF Grows
    <3>2. book.transactions[t] \in Transactions
      BY <1>0, <2>1 DEF Books
    <3>3. book.transactions[t].affirmed \subseteq book'.transactions[t].affirmed
      BY <1>0, <1>1, <2>1, <3>2, EffectIsLocal, AffirmationsStay
    <3> QED
      BY <2>1, <3>1, <3>3 DEF Missing
  <2> QED
    BY <1>0, <2>1 DEF EInv, ZeroStays
<1> QED
  BY <1>3, <1>4, <1>5, <1>6

LEMMA ReadFieldEInv ==
    ASSUME EInv, NEW r \in Requests, NEW q \in input[r].queries, ReadField(r, q)
    PROVE  Lasting' /\ OneTaken' /\ SuccessIsTaken' /\ ZeroStays'
<1>1. Lasting' /\ OneTaken'
  BY QuietStep DEF ReadField, Applied
<1>2. SuccessIsTaken'
  BY DEF EInv, SuccessIsTaken, ReadField, Call, IInv, Staged, NoReply, TypeOK
<1>3. ZeroStays'
  <2>1. Present(r) /\ input[r] \in Inputs
    BY DEF EInv, IInv, Staged, Fetched, ReadField
  <2>2. ASSUME q.query = "getPendingAffirmsCount", Value(q, book) = 0
        PROVE  q.transaction \in DOMAIN book.transactions /\ Missing(q.transaction, book) = {}
    <3>1. input[r].object = TransactionObject(q.transaction)
      BY <2>1, <2>2, InputsAreConsistent DEF Consistent
    <3>2. q.transaction \in DOMAIN book.transactions
      BY <2>1, <3>1 DEF Present, Exists, TransactionObject, NoObject
    <3>3. Value(q, book) = Cardinality(Missing(q.transaction, book))
      BY <2>2 DEF Value
    <3> QED
      BY <2>2, <3>2, <3>3, NoneMissing
  <2>3. \A s \in Requests : s # r => read'[s] = read[s]
    BY DEF ReadField
  <2>4. /\ DOMAIN read'[r] = DOMAIN read[r] \cup {q} /\ read'[r][q] = Value(q, book)
        /\ \A p \in DOMAIN read[r] : p # q => read'[r][p] = read[r][p]
    BY DEF EInv, IInv, TypeOK, ReadField, WithAnswer
  <2>5. book' = book
    BY DEF ReadField
  <2> QED
    BY <2>2, <2>3, <2>4, <2>5 DEF EInv, ZeroStays
<1> QED
  BY <1>1, <1>2, <1>3

LEMMA StepKeepsEInv == EInv /\ [Next]_vars => EInv'
<1> SUFFICES ASSUME EInv, [Next]_vars PROVE EInv'
  OBVIOUS
<1> DEFINE Kept == Lasting' /\ OneTaken' /\ SuccessIsTaken' /\ ZeroStays'
<1>i. IInv'
  BY StepKeepsIInv DEF EInv
<1>t. TypeOK
  BY DEF EInv, IInv
<1>u. CASE UNCHANGED vars
  BY <1>u DEF vars, EInv, Lasting, OneTaken, SuccessIsTaken, ZeroStays, Call, IInv, TypeOK,
     Staged, Fetched, Present, Exists
<1>1. ASSUME NEW r \in Requests, NEW i \in Inputs, Receive(r, i) PROVE Kept
  BY <1>1, ReceiveEInv
<1>2. ASSUME NEW r \in Requests, Fetch(r) \/ Prepare(r) PROVE Kept
  <2>1. Applied' = Applied
    BY <1>t, <1>2 DEF EInv, IInv, Staged, TypeOK, Fetch, Prepare, Goto, Applied
  <2> QED
    BY <1>2, <2>1, SilentOrError DEF Fetch, Prepare
<1>3. ASSUME NEW r \in Requests, NEW e \in {"notFound", "refused", "failed"},
             Respond(r, Error(e)), UNCHANGED <<book, input, run, made, read>>
      PROVE  Kept
  BY <1>3, SilentOrError DEF Respond, Errors, Applied
<1>4. ASSUME NEW r \in Requests,
             \/ NotFound(r) \/ FetchFails(r) \/ PrepareRefused(r) \/ PrepareFails(r)
             \/ GetTotalFeesFails(r) \/ TimesOut(r) \/ ReadFails(r)
      PROVE  Kept
  BY <1>3, <1>4
  DEF NotFound, FetchFails, PrepareRefused, PrepareFails, GetTotalFeesFails, TimesOut, ReadFails
<1>5. ASSUME NEW r \in Requests, Refuse(r) \/ RunFails(r) PROVE Kept
  <2>1. Applied' = Applied
    BY <1>t, <1>5 DEF TypeOK, Refuse, RunFails, RejectRun, Applied
  <2> QED
    BY <1>5, <2>1, SilentOrError DEF Refuse, RunFails, RejectRun, Respond, Errors
<1>6. ASSUME NEW r \in Requests, Include(r) PROVE Kept
  BY <1>6, IncludeEInv
<1>7. ASSUME NEW r \in Requests, HandleServiceResult(r) PROVE Kept
  <2>1. Lasting' /\ OneTaken'
    BY <1>7, QuietStep DEF HandleServiceResult, Applied
  <2>2. SuccessIsTaken'
    BY <1>t, <1>7
    DEF EInv, IInv, Staged, SuccessIsTaken, TypeOK, HandleServiceResult, Settled, Respond, Call
  <2>3. ZeroStays'
    BY <1>7 DEF EInv, ZeroStays, HandleServiceResult
  <2> QED
    BY <2>1, <2>2, <2>3
<1>8. ASSUME NEW r \in Requests, NEW q \in input[r].queries, ReadField(r, q) PROVE Kept
  BY <1>8, ReadFieldEInv
<1>9. ASSUME NEW r \in Requests, Assemble(r) PROVE Kept
  <2>1. Lasting' /\ OneTaken'
    BY <1>9, QuietStep DEF Assemble, Applied
  <2>2. Call(r) = NoCall
    BY <1>9 DEF EInv, IInv, Staged, Assemble, AllRead
  <2>3. SuccessIsTaken'
    BY <1>t, <1>9, <2>2
    DEF EInv, SuccessIsTaken, TypeOK, Assemble, Respond, Call, Error
  <2>4. ZeroStays'
    BY <1>9 DEF EInv, ZeroStays, Assemble
  <2> QED
    BY <2>1, <2>3, <2>4
<1>k. Kept \/ EInv'
  BY <1>u, <1>1, <1>2, <1>4, <1>5, <1>6, <1>7, <1>8, <1>9 DEF Next, ServiceStep, ChainStep, FaultStep
<1> QED
  BY <1>i, <1>k DEF EInv

LEMMA EffectsInvariance == Spec => []EInv
<1>1. EInv /\ [Next]_vars => EInv'
  BY StepKeepsEInv
<1> QED
  BY <1>1, InitImpliesEInv, PTL DEF Spec

-----------------------------------------------------------------------------
(* The properties. *)

\* What a successful answer to a request that submits something means.
LEMMA SuccessMeans ==
    ASSUME EInv, NEW r \in Requests, reply[r].kind = "ok", Call(r) # NoCall
    PROVE  /\ run[r] = "resolved" /\ input[r] \in Inputs
           /\ InForce(Call(r), book) \/ \E s \in Requests : Undoes(Call(s), Call(r))
  BY DEF EInv, SuccessIsTaken, Lasting, IInv, TypeOK, Call, NoInput, Answers

\* Of any number of requests that execute or reject a transaction, affirm a
\* leg for a party, or link an account, at most one is told that it succeeded.
THEOREM ConflictsAreDecided == Spec => []ConflictsHaveOneWinner
<1>1. ASSUME EInv PROVE ConflictsHaveOneWinner
  <2> SUFFICES ASSUME NEW r \in Requests, NEW s \in Requests, r # s, Conflict(r, s),
                      reply[r].kind = "ok", reply[s].kind = "ok"
               PROVE  FALSE
    BY DEF ConflictsHaveOneWinner
  <2>0. NoInput.ask.endpoint = "none"
    BY DEF NoInput, Answers
  <2>1. input[r] \in Inputs /\ input[s] \in Inputs
    BY <1>1, <2>0 DEF EInv, IInv, TypeOK, Conflict, Asked
  <2>2. input[r] = Route(input[r].ask) /\ input[s] = Route(input[s].ask)
    BY <2>1, RouteAssumption
  <2>3. Rivals(Call(r), Call(s)) /\ Call(r) # NoCall /\ Call(s) # NoCall
    <3>1. CASE /\ input[r].ask.endpoint \in {"execute", "reject"}
               /\ input[s].ask.endpoint \in {"execute", "reject"}
               /\ input[r].ask.transaction = input[s].ask.transaction
      <4>1. ASSUME NEW q \in {r, s}
            PROVE  /\ Call(q).method \in {"execute", "reject"}
                   /\ Call(q).transaction = input[q].ask.transaction
        BY <2>2, <3>1, <4>1 DEF Route, ExecuteTransaction, RejectTransaction, Submits, Call
      <4> QED
        BY <3>1, <4>1 DEF Rivals, NoCall
    <3>2. CASE Asked(r, "affirm-leg") /\ input[r].ask = input[s].ask
      <4>1. Call(r).method = "affirmLeg"
        BY <2>2, <3>2 DEF Asked, Route, SenderAffirmLeg, ObserverAffirmLeg, Submits, Call
      <4>2. Call(r) = Call(s)
        BY <2>2, <3>2 DEF Call
      <4> QED
        BY <4>1, <4>2 DEF Rivals, NoCall
    <3>3. CASE /\ Asked(r, "link") /\ Asked(s, "link")
               /\ input[r].ask.account = input[s].ask.account
      <4>1. ASSUME NEW q \in {r, s}
            PROVE  /\ Call(q).method = "createConfidentialAccount"
                   /\ Call(q).account = input[q].ask.account
        BY <2>2, <3>3, <4>1 DEF Asked, Route, LinkAccount, Submits, Call
      <4> QED
        BY <3>3, <4>1 DEF Rivals, NoCall
    <3> QED
      BY <3>1, <3>2, <3>3 DEF Conflict
  <2>4. run[r] = "resolved" /\ run[s] = "resolved"
    BY <1>1, <2>3, SuccessMeans
  <2> QED
    BY <1>1, <2>3, <2>4 DEF EInv, OneTaken
<1> QED
  BY <1>1, EffectsInvariance, PTL

\* However many requests edit an asset's list of allowed venues, each answered
\* edit stays in force that nobody asked to reverse.
THEOREM VenueEditsAreKept == Spec => []VenueEditsSurvive
<1>1. ASSUME EInv PROVE VenueEditsSurvive
  <2>1. ASSUME NEW r \in Requests, NEW s \in Requests,
               Call(r).method = "setVenueFiltering", Undoes(Call(s), Call(r))
        PROVE  /\ Call(s).method = "setVenueFiltering" /\ Call(s).asset = Call(r).asset
               /\ Clash(Call(s).args, Call(r).args) \/ Clash(Call(r).args, Call(s).args)
               /\ Consistent(input[s])
    BY <1>1, <2>1, InputsAreConsistent DEF Undoes, EInv, IInv, TypeOK
  <2>2. ASSUME NEW r \in Requests, Succeeded(r, "add-allowed-venues"),
               Unopposed(r, "remove-allowed-venues")
        PROVE  input[r].ask.venues \subseteq book.assets[input[r].ask.asset].allowed
    <3>1. /\ input[r] \in Inputs /\ input[r].ask.endpoint = "add-allowed-venues"
          /\ reply[r].kind = "ok"
      BY <1>1, <2>2 DEF Succeeded, Asked, EInv, IInv, TypeOK, NoInput, Answers
    <3>2. Call(r) = [method |-> "setVenueFiltering", asset |-> input[r].ask.asset,
                     args |-> [allowedVenues |-> input[r].ask.venues]]
      BY <3>1, RouteAssumption DEF Route, AddAllowedVenues, SetVenueFilteringDetails, Submits, Call
    <3>3. ~\E s \in Requests : Undoes(Call(s), Call(r))
      BY <2>1, <2>2, <3>2 DEF Unopposed, Asked, Clash, Consistent, Call
    <3>4. InForce(Call(r), book)
      BY <1>1, <3>1, <3>2, <3>3, SuccessMeans DEF NoCall
    <3> QED
      BY <3>2, <3>4 DEF InForce, AssetInForce, AssetMethods
  <2>3. ASSUME NEW r \in Requests, Succeeded(r, "remove-allowed-venues"),
               Unopposed(r, "add-allowed-venues")
        PROVE  input[r].ask.venues \cap book.assets[input[r].ask.asset].allowed = {}
    <3>1. /\ input[r] \in Inputs /\ input[r].ask.endpoint = "remove-allowed-venues"
          /\ reply[r].kind = "ok"
      BY <1>1, <2>3 DEF Succeeded, Asked, EInv, IInv, TypeOK, NoInput, Answers
    <3>2. Call(r) = [method |-> "setVenueFiltering", asset |-> input[r].ask.asset,
                     args |-> [disallowedVenues |-> input[r].ask.venues]]
      BY <3>1, RouteAssumption DEF Route, RemoveAllowedVenues, SetVenueFilteringDetails, Submits, Call
    <3>3. ~\E s \in Requests : Undoes(Call(s), Call(r))
      BY <2>1, <2>3, <3>2 DEF Unopposed, Asked, Clash, Consistent, Call
    <3>4. InForce(Call(r), book)
      BY <1>1, <3>1, <3>2, <3>3, SuccessMeans DEF NoCall
    <3> QED
      BY <3>2, <3>4 DEF InForce, AssetInForce, AssetMethods
  <2> QED
    BY <2>2, <2>3 DEF VenueEditsSurvive
<1> QED
  BY <1>1, EffectsInvariance, PTL

-----------------------------------------------------------------------------
(* The action properties. *)

\* What was answered for a freeze holds until somebody asks to lift it.
LEMMA FrozenIsShown ==
    ASSUME EInv, NEW a, NEW k, FrozenFor(a, k)
    PROVE  book.assets[a].frozen \/ k \in book.assets[a].frozenAccounts
<1>0. NoInput.ask.endpoint = "none"
  BY DEF NoInput, Answers
<1>1. \A s \in Requests : Consistent(input[s])
  BY InputsAreConsistent DEF EInv, IInv, TypeOK
<1>2. ASSUME NEW r \in Requests, Succeeded(r, "freeze"), input[r].ask.asset = a,
             ~\E s \in Requests : Asked(s, "unfreeze") /\ input[s].ask.asset = a
      PROVE  book.assets[a].frozen
  <2>1. Call(r) = [method |-> "freeze", asset |-> a]
    BY <1>0, <1>2, RouteAssumption
    DEF Succeeded, Asked, EInv, IInv, TypeOK, Route, FreezeConfidentialAsset,
        ToggleFreezeConfidentialAsset, Submits, Call
  <2>2. ~\E s \in Requests : Undoes(Call(s), Call(r))
    BY <1>1, <1>2, <2>1 DEF Undoes, Consistent, Asked, Call
  <2>3. InForce(Call(r), book)
    BY <1>2, <2>1, <2>2, SuccessMeans DEF Succeeded, NoCall
  <2> QED
    BY <2>1, <2>3 DEF InForce, AssetInForce, AssetMethods
<1>3. ASSUME NEW r \in Requests, Succeeded(r, "freeze-account"),
             input[r].ask.asset = a, input[r].ask.account = k,
             ~\E s \in Requests : /\ Asked(s, "unfreeze-account")
                                  /\ input[s].ask.asset = a /\ input[s].ask.account = k
      PROVE  k \in book.assets[a].frozenAccounts
  <2>1. Call(r) = [method |-> "freezeAccount", asset |-> a, account |-> k]
    BY <1>0, <1>3, RouteAssumption
    DEF Succeeded, Asked, EInv, IInv, TypeOK, Route, FreezeConfidentialAccount,
        ToggleFreezeConfidentialAccountAsset, Submits, Call
  <2>2. ~\E s \in Requests : Undoes(Call(s), Call(r))
    BY <1>1, <1>3, <2>1 DEF Undoes, Consistent, Asked, Call
  <2>3. InForce(Call(r), book)
    BY <1>3, <2>1, <2>2, SuccessMeans DEF Succeeded, NoCall
  <2> QED
    BY <2>1, <2>3 DEF InForce, AssetInForce, AssetMethods
<1> QED
  BY <1>2, <1>3 DEF FrozenFor

\* Only its inclusion resolves the promise of a call, and only a call that the
\* chain does not take is refused.
LEMMA WhatStepsDecide ==
    ASSUME TypeOK, Staged, [Next]_vars, NEW r \in Requests
    PROVE  /\ run[r] # "resolved" /\ run'[r] = "resolved" => Allowed(Call(r), book)
           /\ reply[r] = NoReply /\ reply'[r] = Error("refused") => ~Allowed(Call(r), book)
<1> USE DEF TypeOK, Respond, Error, NoReply
<1>u. CASE UNCHANGED vars
  BY <1>u DEF vars
<1>1. ASSUME NEW q \in Requests, NEW i \in Inputs, Receive(q, i)
      PROVE  reply' = reply /\ (run[r] # "resolved" => run'[r] # "resolved")
  BY <1>1 DEF Receive
<1>2. ASSUME NEW q \in Requests,
             \/ Fetch(q) \/ NotFound(q) \/ Prepare(q) \/ HandleServiceResult(q)
             \/ (\E p \in input[q].queries : ReadField(q, p)) \/ Assemble(q)
             \/ FetchFails(q) \/ PrepareFails(q) \/ GetTotalFeesFails(q)
             \/ TimesOut(q) \/ ReadFails(q)
      PROVE  /\ run[r] # "resolved" => run'[r] # "resolved"
             /\ reply[r] = NoReply => reply'[r] # Error("refused")
  BY <1>2 DEF Fetch, NotFound, Prepare, HandleServiceResult, ReadField, Assemble, FetchFails,
     PrepareFails, GetTotalFeesFails, TimesOut, ReadFails, Goto, Made, Report
<1>3. ASSUME NEW q \in Requests, Include(q)
      PROVE  /\ run[r] # "resolved" /\ run'[r] = "resolved" => Allowed(Call(r), book)
             /\ reply' = reply
  BY <1>3 DEF Include
<1>4. ASSUME NEW q \in Requests, PrepareRefused(q) \/ Refuse(q) \/ RunFails(q)
      PROVE  /\ run[r] # "resolved" => run'[r] # "resolved"
             /\ reply[r] = NoReply /\ reply'[r] = Error("refused") => ~Allowed(Call(r), book)
  BY <1>4 DEF PrepareRefused, Refuse, RunFails, RejectRun
<1> QED
  BY <1>u, <1>1, <1>2, <1>3, <1>4 DEF Next, ServiceStep, ChainStep, FaultStep

\* However many requests freeze, unfreeze and move, nothing moves after a
\* freeze was answered that nobody has asked to lift.
THEOREM FreezesAreObeyed == Spec => FrozenMeansNoTrading
<1>1. ASSUME EInv, [Next]_vars, NEW r \in Requests, Asked(r, "move-funds"),
             run[r] # "resolved", run'[r] = "resolved",
             NEW k \in {input[r].ask.from, input[r].ask.to},
             FrozenFor(input[r].ask.asset, k)
      PROVE  FALSE
  <2>1. Allowed(Call(r), book)
    BY <1>1, WhatStepsDecide DEF EInv, IInv
  <2>2. input[r] \in Inputs
    BY <1>1 DEF EInv, IInv, TypeOK, Asked, NoInput, Answers
  <2>3. Call(r) = [method |-> "moveFunds", asset |-> input[r].ask.asset,
                   from |-> input[r].ask.from, to |-> input[r].ask.to]
    BY <1>1, <2>2, RouteAssumption DEF Asked, Route, MoveFunds, Submits, Call
  <2>4. /\ ~book.assets[input[r].ask.asset].frozen
        /\ k \notin book.assets[input[r].ask.asset].frozenAccounts
    BY <1>1, <2>1, <2>3 DEF Allowed
  <2> QED
    BY <1>1, <2>4, FrozenIsShown
<1> DEFINE Obeyed ==
      \A r \in Requests :
        Asked(r, "move-funds") /\ run[r] # "resolved" /\ run'[r] = "resolved" =>
            \A k \in {input[r].ask.from, input[r].ask.to} :
                ~FrozenFor(input[r].ask.asset, k)
<1>2. EInv /\ [Next]_vars => [Obeyed]_vars
  BY <1>1
<1> QED
  BY <1>2, EffectsInvariance, PTL DEF Spec, FrozenMeansNoTrading

\* Whoever was told that nothing is missing is right for good.
LEMMA ZeroIsRight ==
    ASSUME EInv, NEW s \in Requests, NEW t, ToldZero(s, t)
    PROVE  Missing(t, book) = {}
<1>1. input[s] \in Inputs /\ Asked(s, "pending-affirmation-count") /\ input[s].ask.transaction = t
  BY DEF EInv, IInv, TypeOK, ToldZero, Succeeded, Asked, NoInput, Answers
<1>2. /\ input[s].queries = {[query |-> "getPendingAffirmsCount", transaction |-> t]}
      /\ Call(s) = NoCall
  BY <1>1, RouteAssumption DEF Asked, Route, PendingAffirmsCount, Answers, Call
<1>3. reply[s] = Report(read[s])
  BY <1>2 DEF EInv, SuccessIsTaken, ToldZero, Succeeded
<1>4. PICK q \in DOMAIN read[s] : read[s][q] = 0
  BY <1>3 DEF ToldZero, Report
<1>5. q = [query |-> "getPendingAffirmsCount", transaction |-> t]
  BY <1>2 DEF EInv, IInv, TypeOK
<1> QED
  BY <1>4, <1>5 DEF EInv, ZeroStays

\* Executing a transaction of which a count of zero was answered is refused
\* only when it is no longer pending, however many requests interleave.
THEOREM ZeroIsEnough == Spec => ZeroMeansExecutable
<1>1. ASSUME EInv, [Next]_vars, NEW r \in Requests, Asked(r, "execute"),
             \E s \in Requests : ToldZero(s, input[r].ask.transaction),
             reply[r] = NoReply, reply'[r] = Error("refused")
      PROVE  ~Pending(input[r].ask.transaction, book)
  <2>1. ~Allowed(Call(r), book)
    BY <1>1, WhatStepsDecide DEF EInv, IInv
  <2>2. input[r] \in Inputs
    BY <1>1 DEF EInv, IInv, TypeOK, Asked, NoInput, Answers
  <2>3. Call(r) = [method |-> "execute", transaction |-> input[r].ask.transaction]
    BY <1>1, <2>2, RouteAssumption DEF Asked, Route, ExecuteTransaction, Submits, Call
  <2>4. Missing(input[r].ask.transaction, book) = {}
    BY <1>1, ZeroIsRight
  <2> QED
    BY <2>1, <2>3, <2>4 DEF Allowed
<1> DEFINE Enough ==
      \A r \in Requests :
        /\ Asked(r, "execute")
        /\ \E s \in Requests : ToldZero(s, input[r].ask.transaction)
        /\ reply[r] = NoReply /\ reply'[r] = Error("refused")
        => ~Pending(input[r].ask.transaction, book)
<1>2. EInv /\ [Next]_vars => [Enough]_vars
  BY <1>1
<1> QED
  BY <1>2, EffectsInvariance, PTL DEF Spec, ZeroMeansExecutable
=============================================================================
