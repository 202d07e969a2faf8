-------------------------- MODULE AscendingAuction --------------------------
(***************************************************************************)
(* What the bidding on a room's players promises: one lot at a time, each  *)
(* accepted bid above the whole lakhs of the last and within the rules for *)
(* its bidder, and the lot going to the last accepted bid for exactly its  *)
(* whole lakhs.                                                            *)
(***************************************************************************)
EXTENDS Eligibility

CONSTANTS Franchises, Amounts, NoPlayer, NoFranchise

VARIABLES
    lot,     \* the player bids are taken on, or NoPlayer
    price,   \* the standing bid
    leader,  \* its bidder
    states,  \* the FranchiseState of each franchise
    results  \* the closed lots, each with its buyer and price

vars == <<lot, price, leader, states, results>>

Init ==
    /\ lot = NoPlayer
    /\ price = 0
    /\ leader = NoFranchise
    /\ states = [f \in Franchises |-> FullState]
    /\ results = {}

Open(p) ==
    /\ lot = NoPlayer
    /\ \A r \in results : r.player # p
    /\ lot' = p
    /\ UNCHANGED <<price, leader, states, results>>

Raise(f, amount) ==
    /\ lot # NoPlayer
    /\ amount >= BasePrice[lot]
    /\ amount > Whole(price)
    /\ CanBid(states[f], lot, amount)
    /\ price' = amount
    /\ leader' = f
    /\ UNCHANGED <<lot, states, results>>

Knock ==
    /\ lot # NoPlayer
    /\ lot' = NoPlayer
    /\ states' = IF leader = NoFranchise THEN states
                 ELSE [states EXCEPT ![leader] = Deduct(@, lot, Whole(price))]
    /\ results' = results \cup {[player |-> lot, buyer |-> leader, price |-> Whole(price)]}
    /\ price' = 0
    /\ leader' = NoFranchise

Next ==
    \/ \E p \in Players : Open(p)
    \/ \E f \in Franchises, amount \in Amounts : Raise(f, amount)
    \/ Knock

Spec == Init /\ [][Next]_vars
=============================================================================
