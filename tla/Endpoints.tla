----------------------------- MODULE Endpoints -----------------------------
(***************************************************************************)
(* What each endpoint of the controllers makes of its parameters: the      *)
(* object the service fetches first, if any, and then either the call it   *)
(* passes to TransactionsService.submit or the queries it answers from.    *)
(* `ask` keeps what the client asked for, so that properties can compare   *)
(* it with what was done.                                                  *)
(*                                                                         *)
(* An operator whose comment starts with "Slip:" is a plausible mistake in *)
(* the definition that follows it, kept for mutation checks only.          *)
(***************************************************************************)
EXTENDS ConfidentialChain

Submits(ask, object, call) ==
    [ask |-> ask, object |-> object, call |-> call, queries |-> {}]
Answers(ask, object, queries) ==
    [ask |-> ask, object |-> object, call |-> NoCall, queries |-> queries]

\* The answer of one query is added to those that a report is made of.
WithAnswer(values, query, value) ==
    [q \in DOMAIN values \cup {query} |-> IF q = query THEN value ELSE values[q]]

NoObject == <<>>
AssetObject(a)       == <<"asset", a>>
VenueObject(v)       == <<"venue", v>>
TransactionObject(t) == <<"transaction", t>>
AccountObject(k)     == <<"account", k>>

-----------------------------------------------------------------------------
(* confidential-assets *)

CreateConfidentialAsset ==
    Submits([endpoint |-> "createConfidentialAsset"], NoObject,
            [method |-> "createConfidentialAsset"])

Issue(a) ==
    Submits([endpoint |-> "issue", asset |-> a], AssetObject(a),
            [method |-> "issue", asset |-> a])

\* Slip: whatever the parameters are called, the venues in them are allowed.
SetVenueFilteringAllows(ask, args) ==
    Submits(ask, AssetObject(ask.asset),
            [method |-> "setVenueFiltering", asset |-> ask.asset,
             args |-> IF "enabled" \in DOMAIN args THEN args ELSE [allowedVenues |-> ask.venues]])

SetVenueFilteringDetails(ask, args) ==
    Submits(ask, AssetObject(ask.asset),
            [method |-> "setVenueFiltering", asset |-> ask.asset, args |-> args])

ToggleConfidentialVenueFiltering(a, enabled) ==
    SetVenueFilteringDetails([endpoint |-> "venue-filtering", asset |-> a, enabled |-> enabled],
                             [enabled |-> enabled])

AddAllowedVenues(a, venues) ==
    SetVenueFilteringDetails([endpoint |-> "add-allowed-venues", asset |-> a, venues |-> venues],
                             [allowedVenues |-> venues])

RemoveAllowedVenues(a, venues) ==
    SetVenueFilteringDetails([endpoint |-> "remove-allowed-venues", asset |-> a, venues |-> venues],
                             [disallowedVenues |-> venues])

ToggleFreezeConfidentialAsset(ask, freeze) ==
    Submits(ask, AssetObject(ask.asset),
            [method |-> IF freeze THEN "freeze" ELSE "unfreeze", asset |-> ask.asset])

FreezeConfidentialAsset(a) ==
    ToggleFreezeConfidentialAsset([endpoint |-> "freeze", asset |-> a], TRUE)

UnfreezeConfidentialAsset(a) ==
    ToggleFreezeConfidentialAsset([endpoint |-> "unfreeze", asset |-> a], FALSE)

\* Slip: the flag is read the wrong way round.
ToggleFreezeSwapped(ask, freeze) ==
    Submits(ask, AssetObject(ask.asset),
            [method |-> IF freeze THEN "unfreezeAccount" ELSE "freezeAccount",
             asset |-> ask.asset, account |-> ask.account])

ToggleFreezeConfidentialAccountAsset(ask, freeze) ==
    Submits(ask, AssetObject(ask.asset),
            [method |-> IF freeze THEN "freezeAccount" ELSE "unfreezeAccount",
             asset |-> ask.asset, account |-> ask.account])

FreezeConfidentialAccount(a, k) ==
    ToggleFreezeConfidentialAccountAsset(
        [endpoint |-> "freeze-account", asset |-> a, account |-> k], TRUE)

UnfreezeConfidentialAccount(a, k) ==
    ToggleFreezeConfidentialAccountAsset(
        [endpoint |-> "unfreeze-account", asset |-> a, account |-> k], FALSE)

\* Auditors and mediators never change and are left out.
AssetDetails(a) ==
    Answers([endpoint |-> "asset", asset |-> a], AssetObject(a),
            {[query |-> "details", asset |-> a], [query |-> "isFrozen", asset |-> a]})

VenueFilteringDetails(a) ==
    Answers([endpoint |-> "get-venue-filtering", asset |-> a], AssetObject(a),
            {[query |-> "getVenueFilteringDetails", asset |-> a]})

IsConfidentialAccountFrozen(a, k) ==
    Answers([endpoint |-> "is-account-frozen", asset |-> a, account |-> k], AssetObject(a),
            {[query |-> "isAccountFrozen", asset |-> a, account |-> k]})

-----------------------------------------------------------------------------
(* confidential-venues and confidential-transactions *)

CreateVenue ==
    Submits([endpoint |-> "createVenue"], NoObject, [method |-> "createVenue"])

CreateConfidentialTransaction(v, assets) ==
    Submits([endpoint |-> "createConfidentialTransaction", venue |-> v, assets |-> assets],
            VenueObject(v), [method |-> "addTransaction", venue |-> v, assets |-> assets])

ObserverAffirmLeg(t, leg, party) ==
    Submits([endpoint |-> "affirm-leg", transaction |-> t, leg |-> leg, party |-> party],
            TransactionObject(t),
            [method |-> "affirmLeg", transaction |-> t, leg |-> leg, party |-> party])

\* The proofs, which are needed too, are in SenderProofs.
SenderAffirmLeg(t, leg) ==
    Submits([endpoint |-> "affirm-leg", transaction |-> t, leg |-> leg, party |-> "Sender"],
            TransactionObject(t),
            [method |-> "affirmLeg", transaction |-> t, leg |-> leg, party |-> "Sender"])

RejectTransaction(t) ==
    Submits([endpoint |-> "reject", transaction |-> t], TransactionObject(t),
            [method |-> "reject", transaction |-> t])

ExecuteTransaction(t) ==
    Submits([endpoint |-> "execute", transaction |-> t], TransactionObject(t),
            [method |-> "execute", transaction |-> t])

\* Legs do not change and are left out.
TransactionDetails(t) ==
    Answers([endpoint |-> "transaction", transaction |-> t], TransactionObject(t),
            {[query |-> "details", transaction |-> t]})

\* Slip: the count of another transaction.
PendingAffirmsOfFirst(t) ==
    Answers([endpoint |-> "pending-affirmation-count", transaction |-> t],
            TransactionObject(t), {[query |-> "getPendingAffirmsCount", transaction |-> 1]})

PendingAffirmsCount(t) ==
    Answers([endpoint |-> "pending-affirmation-count", transaction |-> t],
            TransactionObject(t), {[query |-> "getPendingAffirmsCount", transaction |-> t]})

-----------------------------------------------------------------------------
(* confidential-accounts *)

\* The key pair is made by the proof server.
CreateAccount ==
    Submits([endpoint |-> "createAccount"], NoObject, [method |-> "createKey"])

GetAccounts ==
    Answers([endpoint |-> "accounts"], NoObject, {[query |-> "accounts"]})

\* identity: the signer's.
LinkAccount(k, identity) ==
    Submits([endpoint |-> "link", account |-> k, identity |-> identity], NoObject,
            [method |-> "createConfidentialAccount", account |-> k, identity |-> identity])

GetOwner(k) ==
    Answers([endpoint |-> "owner", account |-> k], AccountObject(k),
            {[query |-> "getIdentity", account |-> k]})

MoveFunds(a, from, to) ==
    Submits([endpoint |-> "move-funds", asset |-> a, from |-> from, to |-> to],
            AccountObject(from),
            [method |-> "moveFunds", asset |-> a, from |-> from, to |-> to])

-----------------------------------------------------------------------------
\* What each request is handled by.
Route(ask) ==
    CASE ask.endpoint = "createConfidentialAsset" -> CreateConfidentialAsset
      [] ask.endpoint = "issue"               -> Issue(ask.asset)
      [] ask.endpoint = "venue-filtering"     ->
            ToggleConfidentialVenueFiltering(ask.asset, ask.enabled)
      [] ask.endpoint = "add-allowed-venues"  -> AddAllowedVenues(ask.asset, ask.venues)
      [] ask.endpoint = "remove-allowed-venues" -> RemoveAllowedVenues(ask.asset, ask.venues)
      [] ask.endpoint = "freeze"              -> FreezeConfidentialAsset(ask.asset)
      [] ask.endpoint = "unfreeze"            -> UnfreezeConfidentialAsset(ask.asset)
      [] ask.endpoint = "freeze-account"      -> FreezeConfidentialAccount(ask.asset, ask.account)
      [] ask.endpoint = "unfreeze-account"    -> UnfreezeConfidentialAccount(ask.asset, ask.account)
      [] ask.endpoint = "asset"               -> AssetDetails(ask.asset)
      [] ask.endpoint = "get-venue-filtering" -> VenueFilteringDetails(ask.asset)
      [] ask.endpoint = "is-account-frozen"   -> IsConfidentialAccountFrozen(ask.asset, ask.account)
      [] ask.endpoint = "createVenue"         -> CreateVenue
      [] ask.endpoint = "createConfidentialTransaction" ->
            CreateConfidentialTransaction(ask.venue, ask.assets)
      [] ask.endpoint = "affirm-leg"          ->
            IF ask.party = "Sender" THEN SenderAffirmLeg(ask.transaction, ask.leg)
            ELSE ObserverAffirmLeg(ask.transaction, ask.leg, ask.party)
      [] ask.endpoint = "reject"              -> RejectTransaction(ask.transaction)
      [] ask.endpoint = "execute"             -> ExecuteTransaction(ask.transaction)
      [] ask.endpoint = "transaction"         -> TransactionDetails(ask.transaction)
      [] ask.endpoint = "pending-affirmation-count" -> PendingAffirmsCount(ask.transaction)
      [] ask.endpoint = "createAccount"       -> CreateAccount
      [] ask.endpoint = "accounts"            -> GetAccounts
      [] ask.endpoint = "link"                -> LinkAccount(ask.account, ask.identity)
      [] ask.endpoint = "owner"               -> GetOwner(ask.account)
      [] ask.endpoint = "move-funds"          -> MoveFunds(ask.asset, ask.from, ask.to)
      [] OTHER                                -> Answers(ask, NoObject, {})
=============================================================================
