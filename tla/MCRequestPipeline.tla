------------------------- MODULE MCRequestPipeline -------------------------
(* Instances of RequestPipeline for TLC. *)
EXTENDS RequestPipeline

CONSTANTS r1, r2, k1, k2, k3, alice, bob

AllFaults == PipelineCalls

\* One asset, frozen for k3, whose list has venue 1; two venues; and two
\* transactions of one leg, affirmed by everybody and by the sender.
Start ==
    [assets |-> <<[NewAsset EXCEPT !.filtering = TRUE, !.allowed = {1},
                             !.frozenAccounts = {k3}]>>,
     venues |-> 2,
     transactions |->
        <<[NewTransaction EXCEPT !.affirmed = Affirmations],
          [NewTransaction EXCEPT !.affirmed = {<<0, "Sender">>}]>>,
     linked |-> {<<k1, alice>>},
     keys |-> 0]

SettlementInputs ==
    UNION {{SenderAffirmLeg(t, 0), ObserverAffirmLeg(t, 0, "Receiver"),
            ObserverAffirmLeg(t, 0, "Mediator"),
            RejectTransaction(t), ExecuteTransaction(t), PendingAffirmsCount(t)} : t \in 1 .. 2}
    \cup {CreateVenue, TransactionDetails(1), TransactionDetails(3),
          CreateConfidentialTransaction(1, {1}), CreateConfidentialTransaction(2, {1}),
          CreateConfidentialTransaction(3, {1})}

AccountInputs ==
    {CreateAccount, GetAccounts, LinkAccount(k2, alice), LinkAccount(k2, bob), GetOwner(k2),
     MoveFunds(1, k1, k2), MoveFunds(1, k1, k3)}

AssetInputs ==
    {CreateConfidentialAsset, Issue(1), Issue(2),
     ToggleConfidentialVenueFiltering(1, FALSE),
     AddAllowedVenues(1, {2}), RemoveAllowedVenues(1, {1}), RemoveAllowedVenues(1, {2}),
     FreezeConfidentialAsset(1), UnfreezeConfidentialAsset(1),
     FreezeConfidentialAccount(1, k1), UnfreezeConfidentialAccount(1, k1),
     FreezeConfidentialAccount(1, k3), UnfreezeConfidentialAccount(1, k3),
     AssetDetails(1), VenueFilteringDetails(1), IsConfidentialAccountFrozen(1, k1)}

AllInputs == SettlementInputs \cup AccountInputs \cup AssetInputs
=============================================================================
