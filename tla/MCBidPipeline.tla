---------------------------- MODULE MCBidPipeline ----------------------------
(***************************************************************************)
(* Two franchises, two bids in flight and two players, on a scale of 4     *)
(* lakhs where a wallet buys two players and both a tier and a wallet run  *)
(* out, with one amount between two lakhs.                                 *)
(***************************************************************************)
EXTENDS BidPipeline, TLC

CONSTANTS f1, f2, h1, h2, p1, p2

MCRole == p1 :> "batter" @@ p2 :> "wk"
MCOverseas == {p1, p2}
MCBasePrice == p1 :> 2 @@ p2 :> 4
MCAmounts == {2, 4, 5, 6}
MCSymmetry == Permutations({f1, f2}) \cup Permutations({h1, h2})
=============================================================================
