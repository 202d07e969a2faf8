--------------------------- MODULE MCAuctionFloor ---------------------------
(* Two players, two bids on a player, three controls and two runs: every   *)
(* pair of the engine, a bid, an expiry and a control can overlap, and a   *)
(* third control can meet what two have left.  One franchise: nothing here *)
(* tells bidders apart.  No symmetry: the main run checks liveness.        *)
EXTENDS AuctionFloor

CONSTANTS f1, r1, r2
=============================================================================
