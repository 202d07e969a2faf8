----------------------------- MODULE BidPipeline -----------------------------
(***************************************************************************)
(* The path of a bid through auction:bid_placed, split at its awaits, with *)
(* the bid lock, next to the engine that closes a player and puts up the   *)
(* next one.  Everything the steps read and write is in Redis; nothing     *)
(* but the lock keeps two handlers apart, and the engine takes no lock.    *)
(*                                                                         *)
(* The lock is two keys.  The Redis client keeps a mirror of every key in  *)
(* memory and lets the mirror decide SET ... NX; the release script runs   *)
(* on Redis when Redis is up, and leaves the mirror to its TTL.            *)
(*                                                                         *)
(* A handler that is rejected before it takes the lock just ends.  Which   *)
(* of the early returns it takes (no franchise, not a member, host away,   *)
(* no player, a failed rule) is not told apart.                            *)
(***************************************************************************)
EXTENDS Eligibility

CONSTANTS
    Franchises,
    Handlers,        \* bid_placed messages being handled
    Amounts,         \* the amounts bid
    NoPlayer, NoFranchise, Free,
    ExpiryRaces,     \* the countdown may run out while a bid is being handled
    SlowHandlers,    \* a handler may last longer than the pause after a sale
    LockExpires,     \* the lock's TTL may elapse under its holder
    TeardownsRace    \* a manager's teardown may delete a lock that is held

ASSUME AmountsAssumption == Amounts \subseteq Nat \ {0}

ASSUME PipelineAssumption ==
    /\ {ExpiryRaces, SlowHandlers, LockExpires, TeardownsRace} \subseteq BOOLEAN
    /\ NoPlayer \notin Players
    /\ NoFranchise \notin Franchises
    /\ Free \notin Handlers

VARIABLES
    healthy,       \* Redis is reachable; fixed for a behaviour
    mirror,        \* the bid lock in the client's memory
    key,           \* the bid lock in Redis
    currentPlayer, auctionState, currentBid, currentBidder,  \* Redis
    states,        \* Redis: the FranchiseState of each franchise
    handler,       \* the bid handlers
    engine,        \* the engine's place between two awaits
    entry,         \* the queue entry the engine is working on
    expiry,        \* the bid handleTimerExpiry has read, and the bidder
    shown,         \* the last PLAYER_UP or BID_UPDATE the clients received
    results        \* the PLAYER_SOLD and PLAYER_UNSOLD messages: history

lock == <<mirror, key>>
bidKeys == <<currentBid, currentBidder, auctionState>>
engineVars == <<engine, entry, expiry, results>>
vars == <<healthy, lock, currentPlayer, bidKeys, states, handler, engineVars, shown>>

Stage == {"loaded", "valid", "locked", "fresh",
          "bidSet", "bidderSet", "written", "tooLow"}

(* Between a won acquireLock and the releaseLock that follows. *)
Critical == {"locked", "fresh", "bidSet", "bidderSet", "written", "tooLow"}

Message == [stage : Stage, franchise : Franchises, player : Players, amount : Amounts,
            snapshot : FranchiseState]
Ended == [stage |-> "ended"]

EngineStep == {"pause", "playerSet", "stateSet", "zeroed", "open", "priceRead",
               "sold", "unsold", "done"}

TypeOK ==
    /\ healthy \in BOOLEAN
    /\ mirror \in Handlers \cup {Free}
    /\ key \in Handlers \cup {Free}
    /\ currentPlayer \in Players \cup {NoPlayer}
    /\ auctionState \in {"idle", "player_up", "bidding", "sold", "unsold", "complete"}
    /\ currentBid \in Amounts \cup {0}
    /\ currentBidder \in Franchises \cup {NoFranchise}
    /\ states \in [Franchises -> FranchiseState]
    /\ handler \in [Handlers -> Message \cup {Ended}]
    /\ engine \in EngineStep
    /\ entry \in Players \cup {NoPlayer}
    /\ expiry \in [bid : Amounts \cup {0}, bidder : Franchises \cup {NoFranchise}]
    /\ shown \in [player : Players \cup {NoPlayer}, bid : Amounts \cup {0},
                  bidder : Franchises \cup {NoFranchise}]
    /\ results \subseteq [player : Players, buyer : Franchises \cup {NoFranchise},
                          price : Nat]

Init ==
    /\ healthy \in BOOLEAN
    /\ mirror = Free
    /\ key = Free
    /\ currentPlayer = NoPlayer
    /\ auctionState = "idle"
    /\ currentBid = 0
    /\ currentBidder = NoFranchise
    /\ states = [f \in Franchises |-> FullState]
    /\ handler = [h \in Handlers |-> Ended]
    /\ engine = "pause"
    /\ entry = NoPlayer
    /\ expiry = [bid |-> 0, bidder |-> NoFranchise]
    /\ shown = [player |-> NoPlayer, bid |-> 0, bidder |-> NoFranchise]
    /\ results = {}

-----------------------------------------------------------------------------
(* The lock *)

(* Both copies carry the TTL they were set with. *)
ExpireLock ==
    /\ mirror # Free
    /\ LockExpires \/ handler[mirror].stage \notin Critical
    /\ mirror' = Free
    /\ key' = IF key = mirror THEN Free ELSE key
    /\ UNCHANGED <<healthy, currentPlayer, bidKeys, states, handler, engineVars, shown>>

(* teardownManager deletes the key whoever holds it: redis.del has no      *)
(* token.                                                                  *)
TeardownDeletesLock ==
    /\ TeardownsRace \/ \A h \in Handlers : handler[h].stage \notin Critical
    /\ mirror' = Free
    /\ key' = IF healthy THEN Free ELSE key
    /\ UNCHANGED <<healthy, currentPlayer, bidKeys, states, handler, engineVars, shown>>

(* Fault: SET without NX. *)
AcquireLockAnyway(h) ==
    /\ mirror' = h
    /\ key' = IF healthy THEN h ELSE key

(* redis.set(key, token, 'EX', ttl, 'NX'): the answer of Redis is ignored. *)
AcquireLock(h) ==
    /\ mirror = Free
    /\ mirror' = h
    /\ key' = IF healthy /\ key = Free THEN h ELSE key

(* The release script on Redis, or its fallback on the mirror. *)
ReleaseLock(h) ==
    /\ key' = IF healthy /\ key = h THEN Free ELSE key
    /\ mirror' = IF ~healthy /\ mirror = h THEN Free ELSE mirror

-----------------------------------------------------------------------------
(* auction:bid_placed *)

Goto(h, stage) == handler' = [handler EXCEPT ![h].stage = stage]

End(h) == handler' = [handler EXCEPT ![h] = Ended]

(* A client bids on the player it was shown.  Steps 1 to 4: the snapshot   *)
(* and the current player are read; the player must be the one bid on.     *)
Load(h, f, amount) ==
    /\ handler[h] = Ended
    /\ shown.player # NoPlayer
    /\ currentPlayer = shown.player
    /\ handler' = [handler EXCEPT ![h] =
                     [stage |-> "loaded", franchise |-> f, player |-> shown.player,
                      amount |-> amount, snapshot |-> states[f]]]
    /\ UNCHANGED <<healthy, lock, currentPlayer, bidKeys, states, engineVars, shown>>

(* Fault: the salary-cap rules are not asked. *)
ValidateAmount(h) ==
    LET m == handler[h]
    IN  /\ m.stage = "loaded"
        /\ ExpiryRaces \/ engine # "priceRead"
        /\ auctionState \in {"player_up", "bidding"}
        /\ m.amount >= BasePrice[m.player]
        /\ m.amount > Whole(currentBid)
        /\ Goto(h, "valid")
        /\ UNCHANGED <<healthy, lock, currentPlayer, bidKeys, states, engineVars, shown>>

(* validateBid *)
Validate(h) ==
    LET m == handler[h]
    IN  /\ m.stage = "loaded"
        /\ ExpiryRaces \/ engine # "priceRead"
        /\ auctionState \in {"player_up", "bidding"}
        /\ m.amount >= BasePrice[m.player]
        /\ m.amount > Whole(currentBid)
        /\ CanBid(m.snapshot, m.player, m.amount)
        /\ Goto(h, "valid")
        /\ UNCHANGED <<healthy, lock, currentPlayer, bidKeys, states, engineVars, shown>>

(* Rejected, before the lock or by the lock. *)
Reject(h) ==
    /\ \/ handler[h].stage = "loaded"
       \/ handler[h].stage = "valid" /\ mirror # Free
    /\ End(h)
    /\ UNCHANGED <<healthy, lock, currentPlayer, bidKeys, states, engineVars, shown>>

Acquire(h) ==
    /\ handler[h].stage = "valid"
    /\ AcquireLock(h)
    /\ Goto(h, "locked")
    /\ UNCHANGED <<healthy, currentPlayer, bidKeys, states, engineVars, shown>>

(* Fault: nothing is checked again under the lock. *)
CheckNothing(h) ==
    /\ handler[h].stage = "locked"
    /\ Goto(h, "fresh")
    /\ UNCHANGED <<healthy, lock, currentPlayer, bidKeys, states, engineVars, shown>>

(* Step 7: only the amount is checked again, against the whole lakhs of    *)
(* the standing bid.                                                       *)
CheckFresh(h) ==
    /\ handler[h].stage = "locked"
    /\ Goto(h, IF handler[h].amount > Whole(currentBid) THEN "fresh" ELSE "tooLow")
    /\ UNCHANGED <<healthy, lock, currentPlayer, bidKeys, states, engineVars, shown>>

(* Fault: the amount is taken for a raise. *)
AddBid(h) ==
    /\ handler[h].stage = "fresh"
    /\ currentBid' = currentBid + handler[h].amount
    /\ Goto(h, "bidSet")
    /\ UNCHANGED <<healthy, lock, currentPlayer, currentBidder, auctionState, states,
                   engineVars, shown>>

(* Step 8: pipeline.exec runs the three SETs one after the other. *)
SetBid(h) ==
    /\ handler[h].stage = "fresh"
    /\ currentBid' = handler[h].amount
    /\ Goto(h, "bidSet")
    /\ UNCHANGED <<healthy, lock, currentPlayer, currentBidder, auctionState, states,
                   engineVars, shown>>

SetBidder(h) ==
    /\ handler[h].stage = "bidSet"
    /\ currentBidder' = handler[h].franchise
    /\ Goto(h, "bidderSet")
    /\ UNCHANGED <<healthy, lock, currentPlayer, currentBid, auctionState, states,
                   engineVars, shown>>

SetBidding(h) ==
    /\ handler[h].stage = "bidderSet"
    /\ auctionState' = "bidding"
    /\ Goto(h, "written")
    /\ UNCHANGED <<healthy, lock, currentPlayer, currentBid, currentBidder, states,
                   engineVars, shown>>

(* Fault: the early return of a bid that is too low is missing. *)
ReleaseAndShow(h) ==
    /\ handler[h].stage \in {"written", "tooLow"}
    /\ ReleaseLock(h)
    /\ shown' = [player |-> handler[h].player, bid |-> handler[h].amount,
                 bidder |-> handler[h].franchise]
    /\ End(h)
    /\ UNCHANGED <<healthy, currentPlayer, bidKeys, states, engineVars>>

(* Steps 9 and 10: the lock is released, then BID_UPDATE is broadcast. *)
Release(h) ==
    /\ handler[h].stage \in {"written", "tooLow"}
    /\ ReleaseLock(h)
    /\ shown' = IF handler[h].stage = "written"
                THEN [player |-> handler[h].player, bid |-> handler[h].amount,
                      bidder |-> handler[h].franchise]
                ELSE shown
    /\ End(h)
    /\ UNCHANGED <<healthy, currentPlayer, bidKeys, states, engineVars>>

-----------------------------------------------------------------------------
(* The engine.  advanceToNextPlayer: four awaited writes, then PLAYER_UP. *)

Resolved == {r.player : r \in results}

NextPlayer(p) ==
    /\ engine = "pause"
    /\ p \notin Resolved
    /\ SlowHandlers \/ \A h \in Handlers : handler[h] = Ended
    /\ entry' = p
    /\ currentPlayer' = p
    /\ engine' = "playerSet"
    /\ UNCHANGED <<healthy, lock, bidKeys, states, handler, expiry, results, shown>>

SetPlayerUp ==
    /\ engine = "playerSet"
    /\ auctionState' = "player_up"
    /\ engine' = "stateSet"
    /\ UNCHANGED <<healthy, lock, currentPlayer, currentBid, currentBidder, states,
                   handler, entry, expiry, results, shown>>

ZeroBid ==
    /\ engine = "stateSet"
    /\ currentBid' = 0
    /\ engine' = "zeroed"
    /\ UNCHANGED <<healthy, lock, currentPlayer, currentBidder, auctionState, states,
                   handler, entry, expiry, results, shown>>

(* Fault: the last player's bidder stays. *)
KeepBidder ==
    /\ engine = "zeroed"
    /\ shown' = [player |-> entry, bid |-> 0, bidder |-> NoFranchise]
    /\ engine' = "open"
    /\ UNCHANGED <<healthy, lock, currentPlayer, bidKeys, states, handler, entry, expiry,
                   results>>

DeleteBidder ==
    /\ engine = "zeroed"
    /\ currentBidder' = NoFranchise
    /\ shown' = [player |-> entry, bid |-> 0, bidder |-> NoFranchise]
    /\ engine' = "open"
    /\ UNCHANGED <<healthy, lock, currentPlayer, currentBid, auctionState, states,
                   handler, entry, expiry, results>>

(* handleTimerExpiry: the bid is read, then the bidder.  Unless the expiry *)
(* races, no bid is between its validation and its broadcast meanwhile     *)
(* (see Validate for the converse).                                        *)
InFlight(h) == handler[h].stage \notin {"ended", "loaded"}

ReadPrice ==
    /\ engine = "open"
    /\ ExpiryRaces \/ \A h \in Handlers : ~InFlight(h)
    /\ expiry' = [bid |-> currentBid, bidder |-> NoFranchise]
    /\ engine' = "priceRead"
    /\ UNCHANGED <<healthy, lock, currentPlayer, bidKeys, states, handler, entry,
                   results, shown>>

(* The bidder is read and the auction state set: "sold" needs a bid whose  *)
(* whole lakhs are at least the base price, and a bidder.                  *)
ReadBidder ==
    /\ engine = "priceRead"
    /\ LET bought == Whole(expiry.bid) >= BasePrice[entry] /\ currentBidder # NoFranchise
       IN  /\ engine' = IF bought THEN "sold" ELSE "unsold"
           /\ auctionState' = engine'
    /\ expiry' = [expiry EXCEPT !.bidder = currentBidder]
    /\ UNCHANGED <<healthy, lock, currentPlayer, currentBid, currentBidder, states,
                   handler, entry, results, shown>>

(* The rest of processPlayerSold, and of processPlayerUnsold, up to the    *)
(* pause.                                                                  *)
Resolve ==
    /\ engine \in {"sold", "unsold"}
    /\ states' = IF engine = "unsold" THEN states
                 ELSE [states EXCEPT ![expiry.bidder] = Deduct(@, entry, Whole(expiry.bid))]
    /\ results' = results \cup
          {IF engine = "sold"
           THEN [player |-> entry, buyer |-> expiry.bidder, price |-> Whole(expiry.bid)]
           ELSE [player |-> entry, buyer |-> NoFranchise, price |-> 0]}
    /\ engine' = "pause"
    /\ UNCHANGED <<healthy, lock, currentPlayer, bidKeys, handler, entry, expiry, shown>>

(* endAuction *)
EndAuction ==
    /\ engine = "pause"
    /\ Resolved = Players
    /\ auctionState' = "complete"
    /\ engine' = "done"
    /\ UNCHANGED <<healthy, lock, currentPlayer, currentBid, currentBidder, states,
                   handler, entry, expiry, results, shown>>

-----------------------------------------------------------------------------

BidStep(h) ==
    \/ \E f \in Franchises, amount \in Amounts : Load(h, f, amount)
    \/ Validate(h)
    \/ Reject(h)
    \/ Acquire(h)
    \/ CheckFresh(h)
    \/ SetBid(h)
    \/ SetBidder(h)
    \/ SetBidding(h)
    \/ Release(h)

EngineNext ==
    \/ \E p \in Players : NextPlayer(p)
    \/ SetPlayerUp
    \/ ZeroBid
    \/ DeleteBidder
    \/ ReadPrice
    \/ ReadBidder
    \/ Resolve
    \/ EndAuction

Next ==
    \/ \E h \in Handlers : BidStep(h)
    \/ EngineNext
    \/ ExpireLock
    \/ TeardownDeletesLock

Spec == Init /\ [][Next]_vars

-----------------------------------------------------------------------------
(* lock.ts: only one bid of a room is processed at a time.  Two handlers   *)
(* never are between a won acquireLock and their releaseLock together.     *)
MutualExclusion ==
    \A g, h \in Handlers :
        handler[g].stage \in Critical /\ handler[h].stage \in Critical => g = h

(* A released lock can be taken again at once: when no bid is being        *)
(* written, acquireLock does not refuse.                                   *)
LockFreeWhenUnheld ==
    (\A h \in Handlers : handler[h].stage \notin Critical) => mirror = Free

(* The standing bid of a player only rises, as far as parseInt tells: each *)
(* new bid is above the whole lakhs of the last.  Only putting up the next *)
(* player takes it back to 0.                                              *)
BidsRise ==
    [][currentBid' # currentBid => currentBid' > Whole(currentBid) \/ engine = "stateSet"]_vars

(* What handleTimerExpiry sells, it sells for a bid its buyer may make by  *)
(* every rule of canBid, on the buyer's snapshot as it stands at the sale; *)
(* cut to whole lakhs it still is at least the base price.                 *)
SaleWithinRules ==
    engine = "sold" =>
        /\ CanBid(states[expiry.bidder], entry, expiry.bid)
        /\ Whole(expiry.bid) >= BasePrice[entry]

(* The sale is the last BID_UPDATE the room was shown: same player, same   *)
(* franchise, and the bid whose whole lakhs are the price.  A player       *)
(* passes unsold only when no bid on it was ever shown.                    *)
ResultAsShown ==
    /\ engine = "sold" =>
          shown = [player |-> entry, bid |-> expiry.bid, bidder |-> expiry.bidder]
    /\ engine = "unsold" =>
          shown = [player |-> entry, bid |-> 0, bidder |-> NoFranchise]

(* The ascending auction the pipeline implements.  A lot is open from      *)
(* PLAYER_UP to its resolution; a bid is raised at its first SET, and      *)
(* until the second lands its bidder is only in the handler.               *)
LotOpen == engine \in {"open", "priceRead", "sold", "unsold"}

HalfWritten == {h \in Handlers : handler[h].stage = "bidSet"}

Leader ==
    IF ~LotOpen THEN NoFranchise
    ELSE IF HalfWritten = {} THEN currentBidder
    ELSE handler[CHOOSE h \in HalfWritten : TRUE].franchise

Auction == INSTANCE AscendingAuction WITH
    lot <- IF LotOpen THEN entry ELSE NoPlayer,
    price <- IF LotOpen THEN currentBid ELSE 0,
    leader <- Leader

(* Bids are totally ordered, each within the rules, and every lot goes to  *)
(* the last of them, for its whole lakhs.                                  *)
ImplementsAuction == Auction!Spec
=============================================================================
