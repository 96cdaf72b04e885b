--------------------------- MODULE MCAutoDelivery ---------------------------
(* AutoDelivery for TLC: two deposits of one holder in two assets.  The first  *)
(* is posted with the second one's asset.  The second is posted for either of  *)
(* two receivers, or with an amount that is not in canonical form, and names a *)
(* transfer that may not exist, be its own, or be the first deposit's.         *)
EXTENDS AutoDelivery

CONSTANTS alice, bob, carol, gold, silver

MCDepositOf == [d \in Deposits |-> [recipient |-> alice, amount |-> d,
                                    asset |-> IF d = 1 THEN gold ELSE silver]]

Wish(asset, receiver, canonical) ==
    [amount |-> 1, asset |-> asset, canonical |-> canonical, sender |-> alice,
     receiver |-> receiver]

MCTerms == [d \in Deposits |->
               IF d = 1 THEN {Wish(silver, bob, TRUE)}
               ELSE {Wish(silver, bob, TRUE), Wish(silver, carol, TRUE),
                     Wish(silver, bob, FALSE)}]

MCPostedIDs == [d \in Deposits |->
                   IF d = 1 THEN {NoTransferID} ELSE {2}]

MCMemos == {Memo(d) : d \in Deposits}

MCProfiles == {[denom |-> "ibc", enabled |-> TRUE, assets |-> RouteAssets,
                actions |-> {}, prefixes |-> {}]}
=============================================================================
