---------------------------------- MODULE Pricing ----------------------------------
(***************************************************************************)
(* What a monetized post costs (src/src/coins/coin-pricing.service.ts) and *)
(* what it is computed from: the videos of the post, their lengths added   *)
(* up and the best of their tiers (src/src/file/file.service.ts,           *)
(* src/src/file/video-probe.ts).  Coins come in tenths (minor units).      *)
(*                                                                         *)
(* The service computes in doubles; every numerator is below 2^53 and a    *)
(* quotient that ends in exactly one half is exact, so that Math.round is  *)
(* the division below.                                                     *)
(***************************************************************************)
EXTENDS Integers
LOCAL INSTANCE FiniteSetsExt

Tiers == {"P720", "P1080", "P4K"}
Categories == {"ENTERTAINMENT", "EDUCATIONAL_DIY", "LIVE_EVENT"}
Productions == {"STANDARD", "PRO"}

\* Multipliers, in tenths.
QualityNum == [P720 |-> 10, P1080 |-> 12, P4K |-> 16]
CategoryNum == [ENTERTAINMENT |-> 10, EDUCATIONAL_DIY |-> 15, LIVE_EVENT |-> 20]
ProductionNum == [STANDARD |-> 10, PRO |-> 13]
QualityRank == [P720 |-> 1, P1080 |-> 2, P4K |-> 3]

\* By the longer edge.
DimensionsToStreamQuality(width, height) ==
  LET longSide == IF width > height THEN width ELSE height
  IN IF longSide >= 2160 THEN "P4K" ELSE IF longSide >= 1080 THEN "P1080" ELSE "P720"

\* aggregateVideoMonetizationInputs, of the files once probed: records of their id
\* and metadata.  Without a video that lasts there is nothing to price (duration
\* 0 stands for null).
AggregateVideos(videos) ==
  LET counted == {v \in videos : v.duration > 0}
      tiers == {"P720"} \cup {DimensionsToStreamQuality(v.width, v.height) : v \in counted}
  IN [duration |-> MapThenSumSet(LAMBDA v : v.duration, counted),
      quality |-> CHOOSE q \in tiers : \A t \in tiers : QualityRank[t] <= QualityRank[q]]

Denominator == 60 * 10 * 10 * 10

\* Math.round of a quotient that is not negative.
Rounded(numerator) == (2 * numerator + Denominator) \div (2 * Denominator)

CostNumerator(base, duration, quality, category, production) ==
  base * duration * (QualityNum[quality] * CategoryNum[category] * ProductionNum[production])

\* computeCostMinorForPost, which throws when the result is not positive.
CostMinor(base, duration, quality, category, production) ==
  Rounded(CostNumerator(base, duration, quality, category, production))

---------------------------------------------------------------------------
\* splitCreatorPlatform: the creator's share is rounded down.
CreatorShare(total) == (total * 70) \div 100

\* Mutant: the platform's share is rounded on its own.
PlatformFeeRounded(total) == (total * 30) \div 100

\* The platform keeps the rest.
PlatformFee(total) == total - CreatorShare(total)
=============================================================================
