--------------------------------- MODULE MCCoins ---------------------------------
(***************************************************************************)
(* Instance of Coins for TLC: a viewer and an author, one post, one        *)
(* package, one checkout session and its event, one Google token.        *)
(***************************************************************************)
EXTENDS Coins, TLC

CONSTANTS alice, bob, post, pack, session, evt1, token

MCAuthor == [p \in Posts |-> bob]
MCSessionOf == [e \in StripeEvents |-> session]
MCProductOf == [t \in StoreTxns |-> pack]
MCKeys ==
  {<<op, p, u, x>> : op \in {"unlock:spend", "unlock:earn"},
                     p \in Posts, u \in Users, x \in Uuids}
    \cup {<<"purchase", e>> : e \in ExternalIds}
    \cup {<<"admin-adjust", u, k>> : u \in Users, k \in AdminKeys}
MCAdminAmounts == {-2}

\* The prices of coin-pricing.service.spec.ts, and on small posts: another video
\* never makes a post cheaper, whatever its tier.
MCVideos == [id: {1, 2}, width: {720, 1080, 2160}, height: {480}, duration: {1, 45}]

PriceOf(videos, category, production) ==
  LET inputs == AggregateVideos(videos)
  IN CostMinor(20, inputs.duration, inputs.quality, category, production)

ASSUME PricingChecked ==
  /\ CostMinor(20, 600, "P4K", "EDUCATIONAL_DIY", "PRO") = 624
  /\ CreatorShare(624) = 436
  /\ \A v, w \in MCVideos, category \in Categories, production \in Productions :
       PriceOf({v}, category, production) <= PriceOf({v, w}, category, production)

Symmetry == Permutations(Workers) \cup Permutations(Uuids)
=============================================================================
