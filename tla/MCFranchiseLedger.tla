-------------------------- MODULE MCFranchiseLedger --------------------------
(***************************************************************************)
(* Two franchises and three players on a scale of 5 lakhs, in half lakhs   *)
(* so that a bid may fall between two whole ones: one overseas batter, one *)
(* overseas keeper and one Indian keeper, a squad of two, and one place in *)
(* every limited category, so that each cap, each tier bound and an empty  *)
(* wallet are reached.                                                     *)
(***************************************************************************)
EXTENDS FranchiseLedger, TLC

CONSTANTS f1, f2, p1, p2, p3, l1, l2

MCRole == p1 :> "batter" @@ p2 :> "wk" @@ p3 :> "wk"
MCOverseas == {p1, p2}
MCBasePrice == p1 :> 2 @@ p2 :> 2 @@ p3 :> 4
MCPrices == 2 .. 10
MCSymmetry == Permutations({f1, f2})
=============================================================================
