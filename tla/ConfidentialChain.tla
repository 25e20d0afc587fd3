------------------------- MODULE ConfidentialChain -------------------------
(***************************************************************************)
(* What the endpoints act on: the confidential assets, venues,             *)
(* transactions and account links on the chain, and the key pairs of the   *)
(* proof server.  Neither is part of the repository.  A call is what the   *)
(* code hands to TransactionsService.submit: an SDK method and its         *)
(* arguments.  The reasons to refuse one are those that the controllers    *)
(* document (ApiTransactionFailedResponse); the SDK checks them when a     *)
(* call is prepared and the chain checks them again when it is included.   *)
(***************************************************************************)
EXTENDS Naturals, Sequences, FiniteSets

CONSTANTS
    Accounts,     \* public keys of confidential accounts
    Identities,   \* identities that accounts are linked to
    Legs,         \* leg numbers of every transaction
    MaxSupply     \* limit on an asset's total supply

Parties  == {"Sender", "Receiver", "Mediator"}
Affirmations == Legs \X Parties

NewAsset == [supply |-> 0, frozen |-> FALSE, frozenAccounts |-> {},
             filtering |-> FALSE, allowed |-> {}]
NewTransaction == [status |-> "Pending", affirmed |-> {}]

Assets == [supply : Nat, frozen : BOOLEAN, frozenAccounts : SUBSET Accounts,
           filtering : BOOLEAN, allowed : SUBSET Nat]
Transactions == [status : {"Pending", "Executed", "Rejected"},
                 affirmed : SUBSET Affirmations]

\* Assets, venues and transactions are numbered from 1.
Books == [assets : Seq(Assets), venues : Nat, transactions : Seq(Transactions),
          linked : SUBSET (Accounts \X Identities), keys : Nat]

\* The arguments of setVenueFiltering are of one of three kinds.
FilteringArgs ==
    [enabled : BOOLEAN] \cup [allowedVenues : SUBSET Nat] \cup [disallowedVenues : SUBSET Nat]

Calls ==
    [method : {"createConfidentialAsset", "createVenue", "createKey"}]
    \cup [method : {"issue", "freeze", "unfreeze"}, asset : Nat]
    \cup [method : {"freezeAccount", "unfreezeAccount"}, asset : Nat, account : Accounts]
    \cup [method : {"setVenueFiltering"}, asset : Nat, args : FilteringArgs]
    \cup [method : {"addTransaction"}, venue : Nat, assets : SUBSET Nat]
    \cup [method : {"affirmLeg"}, transaction : Nat, leg : Legs, party : Parties]
    \cup [method : {"reject", "execute"}, transaction : Nat]
    \cup [method : {"createConfidentialAccount"}, account : Accounts, identity : Identities]
    \cup [method : {"moveFunds"}, asset : Nat, from : Accounts, to : Accounts]

NoCall == [method |-> "none"]

\* An object is fetched by its kind and number; <<>> if nothing is fetched.
Exists(object, b) ==
    \/ object[1] = "asset" /\ object[2] \in DOMAIN b.assets
    \/ object[1] = "venue" /\ object[2] \in 1 .. b.venues
    \/ object[1] = "transaction" /\ object[2] \in DOMAIN b.transactions
    \/ object[1] = "account" /\ object[2] \in Accounts

Pending(t, b) == b.transactions[t].status = "Pending"
Missing(t, b) == Affirmations \ b.transactions[t].affirmed

\* Whether the chain takes a call.
Allowed(c, b) ==
    /\ c.method = "issue" => b.assets[c.asset].supply < MaxSupply
    /\ c.method = "freeze" => ~b.assets[c.asset].frozen
    /\ c.method = "unfreeze" => b.assets[c.asset].frozen
    /\ c.method = "freezeAccount" => c.account \notin b.assets[c.asset].frozenAccounts
    /\ c.method = "unfreezeAccount" => c.account \in b.assets[c.asset].frozenAccounts
    /\ c.method = "addTransaction" =>
          \A a \in c.assets : b.assets[a].filtering => c.venue \in b.assets[a].allowed
    /\ c.method = "affirmLeg" =>
          /\ Pending(c.transaction, b)
          /\ <<c.leg, c.party>> \in Missing(c.transaction, b)
          /\ c.party # "Sender" => <<c.leg, "Sender">> \notin Missing(c.transaction, b)
    /\ c.method = "reject" => Pending(c.transaction, b)
    /\ c.method = "execute" => Pending(c.transaction, b) /\ Missing(c.transaction, b) = {}
    /\ c.method = "createConfidentialAccount" =>
          \A d \in Identities : <<c.account, d>> \notin b.linked
    /\ c.method = "moveFunds" =>
          /\ ~b.assets[c.asset].frozen
          /\ {c.from, c.to} \cap b.assets[c.asset].frozenAccounts = {}

\* setVenueFiltering switches the filter, or adds or removes venues.
Filter(asset, args) ==
    CASE "enabled" \in DOMAIN args -> [asset EXCEPT !.filtering = args.enabled]
      [] "allowedVenues" \in DOMAIN args ->
            [asset EXCEPT !.allowed = @ \cup args.allowedVenues]
      [] OTHER ->
            [asset EXCEPT !.allowed = @ \ args.disallowedVenues]

SetAsset(b, a, asset) == [b EXCEPT !.assets = [@ EXCEPT ![a] = asset]]
SetTransaction(b, t, transaction) ==
    [b EXCEPT !.transactions = [@ EXCEPT ![t] = transaction]]

\* What becomes of an asset or a transaction that a call is about.
AssetAfter(c, asset) ==
    CASE c.method = "issue" -> [asset EXCEPT !.supply = @ + 1]
      [] c.method \in {"freeze", "unfreeze"} ->
            [asset EXCEPT !.frozen = (c.method = "freeze")]
      [] c.method = "freezeAccount" ->
            [asset EXCEPT !.frozenAccounts = @ \cup {c.account}]
      [] c.method = "unfreezeAccount" ->
            [asset EXCEPT !.frozenAccounts = @ \ {c.account}]
      [] c.method = "setVenueFiltering" -> Filter(asset, c.args)

TransactionAfter(c, transaction) ==
    CASE c.method = "affirmLeg" ->
            [transaction EXCEPT !.affirmed = @ \cup {<<c.leg, c.party>>}]
      [] c.method = "reject"  -> [transaction EXCEPT !.status = "Rejected"]
      [] c.method = "execute" -> [transaction EXCEPT !.status = "Executed"]

AssetMethods == {"issue", "freeze", "unfreeze", "freezeAccount", "unfreezeAccount",
                 "setVenueFiltering"}
TransactionMethods == {"affirmLeg", "reject", "execute"}

\* What a call that is taken does.  Moved funds are SenderProofs' business.
Effect(c, b) ==
    CASE c.method \in AssetMethods ->
            SetAsset(b, c.asset, AssetAfter(c, b.assets[c.asset]))
      [] c.method \in TransactionMethods ->
            SetTransaction(b, c.transaction, TransactionAfter(c, b.transactions[c.transaction]))
      [] c.method = "createConfidentialAsset" ->
            [b EXCEPT !.assets = Append(@, NewAsset)]
      [] c.method = "createVenue" -> [b EXCEPT !.venues = @ + 1]
      [] c.method = "addTransaction" ->
            [b EXCEPT !.transactions = Append(@, NewTransaction)]
      [] c.method = "createConfidentialAccount" ->
            [b EXCEPT !.linked = @ \cup {<<c.account, c.identity>>}]
      [] c.method = "createKey" -> [b EXCEPT !.keys = @ + 1]
      [] c.method = "moveFunds" -> b

\* The number of the object that a call makes, or 0.
Result(c, b) ==
    CASE c.method = "createConfidentialAsset" -> Len(b.assets) + 1
      [] c.method = "createVenue"             -> b.venues + 1
      [] c.method = "addTransaction"          -> Len(b.transactions) + 1
      [] c.method = "createKey"               -> b.keys + 1
      [] OTHER                                -> 0

\* What a query returns.
Value(q, b) ==
    CASE q.query = "details" /\ "asset" \in DOMAIN q -> b.assets[q.asset].supply
      [] q.query = "isFrozen"             -> b.assets[q.asset].frozen
      [] q.query = "isAccountFrozen"      -> q.account \in b.assets[q.asset].frozenAccounts
      [] q.query = "getVenueFilteringDetails" ->
            [enabled |-> b.assets[q.asset].filtering,
             allowed |-> IF b.assets[q.asset].filtering THEN b.assets[q.asset].allowed ELSE {}]
      [] q.query = "details" /\ "transaction" \in DOMAIN q ->
            b.transactions[q.transaction].status
      [] q.query = "getPendingAffirmsCount" -> Cardinality(Missing(q.transaction, b))
      [] q.query = "getIdentity"          -> {d \in Identities : <<q.account, d>> \in b.linked}
      [] q.query = "accounts"             -> b.keys
=============================================================================
