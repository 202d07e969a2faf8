--------------------------- MODULE FranchiseLedger ---------------------------
(***************************************************************************)
(* The wallets and squads of a room: the FranchiseState snapshots in Redis *)
(* that canBid reads on every bid, and the room_members / squad_players    *)
(* rows in PostgreSQL that a sale is written to behind the auction's back  *)
(* (recordPlayerSold is not awaited).  A snapshot that has left Redis is   *)
(* rebuilt from the database by whoever reads it next, in three awaited    *)
(* steps: SELECT the wallet, SELECT the squad, SET the snapshot.           *)
(*                                                                         *)
(* A bid is one step here: its check and its write.  BidPipeline splits it *)
(* at its awaits.                                                          *)
(***************************************************************************)
EXTENDS Eligibility

CONSTANTS
    Franchises,
    Loaders,      \* concurrent calls of loadFranchiseState that missed the cache
    Prices,       \* the amounts bid
    NoPlayer, NoBid, Missing, Idle,
    AllowRestart, \* the host may start an auction that is already running
    Quiet         \* the database keeps up with the auction, see Evict and Sell

ASSUME LedgerAssumption ==
    /\ Prices \subseteq Nat
    /\ AllowRestart \in BOOLEAN
    /\ Quiet \in BOOLEAN
    /\ NoPlayer \notin Players
    /\ Missing \notin FranchiseState

Bid == [franchise : Franchises, amount : Nat]
Sale == [franchise : Franchises, player : Players, price : Nat]
Reading == [franchise : Franchises, stage : {"wallet"}, wallet : Int]
Rebuilt == [franchise : Franchises, stage : {"squad"}, state : FranchiseState]

ASSUME NullsAssumption ==
    /\ NoBid \notin Bid
    /\ Idle \notin Reading \cup Rebuilt

VARIABLES
    started,   \* initAllFranchiseStates has run
    cache,     \* Redis: the snapshot of each franchise, or Missing
    wallets,   \* PostgreSQL: room_members.wallet_remaining_lakhs
    squads,    \* PostgreSQL: the squad_players rows of each member
    loader,    \* what each rebuild in flight has read so far
    block,     \* the player on the block
    leader,    \* the highest bid on it
    queue,     \* the players still to come
    recording, \* recordPlayerSold calls in flight
    failed,    \* sales whose transaction was rolled back: only logged
    sold,      \* the snapshot each franchise ought to have: history of the sales
    slips      \* the purchases of each franchise that slipped past their tier: history

vars == <<started, cache, wallets, squads, loader, block, leader, queue,
          recording, failed, sold, slips>>
history == <<sold, slips>>
dbVars == <<wallets, squads, recording, failed>>
floorVars == <<block, leader, queue>>

TypeOK ==
    /\ started \in BOOLEAN
    /\ cache \in [Franchises -> FranchiseState \cup {Missing}]
    /\ wallets \in [Franchises -> Int]
    /\ squads \in [Franchises -> SUBSET Row]
    /\ \A f \in Franchises : IsFiniteSet(squads[f])
    /\ loader \in [Loaders -> Reading \cup Rebuilt \cup {Idle}]
    /\ block \in Players \cup {NoPlayer}
    /\ leader \in Bid \cup {NoBid}
    /\ queue \subseteq Players
    /\ recording \subseteq Sale
    /\ failed \subseteq Sale
    /\ sold \in [Franchises -> FranchiseState]
    /\ slips \in [Franchises -> Nat]

Init ==
    /\ started = FALSE
    /\ cache = [f \in Franchises |-> Missing]
    /\ wallets = [f \in Franchises |-> WALLET_TOTAL]
    /\ squads = [f \in Franchises |-> {}]
    /\ loader = [l \in Loaders |-> Idle]
    /\ block = NoPlayer
    /\ leader = NoBid
    /\ queue = Players
    /\ recording = {}
    /\ failed = {}
    /\ sold = [f \in Franchises |-> FullState]
    /\ slips = [f \in Franchises |-> 0]

RecordingOf(f) == {s \in recording : s.franchise = f}

DbCaughtUp(f) == \A s \in recording \cup failed : s.franchise # f

Rebuilding(f) == \E l \in Loaders : loader[l] # Idle /\ loader[l].franchise = f

-----------------------------------------------------------------------------
(* initAllFranchiseStates and initializeQueue.  Neither the wallet column  *)
(* nor squad_players is reset.                                             *)
StartAuction ==
    /\ started => AllowRestart
    /\ started' = TRUE
    /\ cache' = [f \in Franchises |-> FullState]
    /\ queue' = Players
    /\ block' = NoPlayer
    /\ leader' = NoBid
    /\ UNCHANGED <<dbVars, loader, history>>

PlayerUp(p) ==
    /\ started
    /\ block = NoPlayer
    /\ p \in queue
    /\ block' = p
    /\ leader' = NoBid
    /\ queue' = queue \ {p}
    /\ UNCHANGED <<started, cache, dbVars, loader, history>>

(* The rules of validateBid on the cached snapshot, and the write. *)
ValidBid(f, amount) ==
    /\ amount >= BasePrice[block]
    /\ leader # NoBid => amount > Whole(leader.amount)
    /\ CanBid(cache[f], block, amount)

PlaceBid(f, amount) ==
    /\ block # NoPlayer
    /\ cache[f] # Missing
    /\ ValidBid(f, amount)
    /\ leader' = [franchise |-> f, amount |-> amount]
    /\ UNCHANGED <<started, cache, dbVars, loader, block, queue, history>>

(* handleTimerExpiry and processPlayerSold: the snapshot is charged with   *)
(* the whole lakhs of the bid, recordPlayerSold is left running.           *)
(* Quiet: a sale is on disk, and any rebuild of the snapshot has finished, *)
(* before the franchise buys again; the shortest distance between two      *)
(* sales is the three-second pause plus a countdown.                       *)
Sell ==
    /\ block # NoPlayer
    /\ leader # NoBid
    /\ LET f == leader.franchise
           price == Whole(leader.amount)
       IN  /\ cache[f] # Missing
           /\ Quiet => RecordingOf(f) = {} /\ ~Rebuilding(f)
           /\ cache' = [cache EXCEPT ![f] = Deduct(@, block, price)]
           /\ sold' = [sold EXCEPT ![f] = Deduct(@, block, price)]
           /\ slips' = [slips EXCEPT ![f] = IF SameTier(leader.amount) THEN @ ELSE @ + 1]
           /\ recording' = recording \cup
                 {[franchise |-> f, player |-> block, price |-> price]}
    /\ block' = NoPlayer
    /\ leader' = NoBid
    /\ UNCHANGED <<started, wallets, squads, failed, loader, queue>>

Unsold ==
    /\ block # NoPlayer
    /\ leader = NoBid
    /\ block' = NoPlayer
    /\ UNCHANGED <<started, cache, dbVars, loader, leader, queue, history>>

-----------------------------------------------------------------------------
(* recordPlayerSold: one transaction.  The wallet update carries its own   *)
(* guard and matches no row when the wallet is short: the squad row is     *)
(* committed all the same.  A second row for the same player breaks        *)
(* UNIQUE (room_member_id, player_id) and the transaction rolls back.      *)
CommitSaleStrict(s) ==  \* Fault: a charge that empties the wallet is skipped
    /\ s \in recording
    /\ \A r \in squads[s.franchise] : r.player # s.player
    /\ squads' = [squads EXCEPT ![s.franchise] =
                     @ \cup {[player |-> s.player, price |-> s.price]}]
    /\ wallets' = [wallets EXCEPT ![s.franchise] =
                     IF @ > s.price THEN @ - s.price ELSE @]
    /\ recording' = recording \ {s}
    /\ UNCHANGED <<started, failed, cache, loader, floorVars, history>>

CommitSale(s) ==
    /\ s \in recording
    /\ \A r \in squads[s.franchise] : r.player # s.player
    /\ squads' = [squads EXCEPT ![s.franchise] =
                     @ \cup {[player |-> s.player, price |-> s.price]}]
    /\ wallets' = [wallets EXCEPT ![s.franchise] =
                     IF @ >= s.price THEN @ - s.price ELSE @]
    /\ recording' = recording \ {s}
    /\ UNCHANGED <<started, failed, cache, loader, floorVars, history>>

(* The transaction fails for whatever reason; the caller logs it. *)
FailSale(s) ==
    /\ s \in recording
    /\ recording' = recording \ {s}
    /\ failed' = failed \cup {s}
    /\ UNCHANGED <<started, wallets, squads, cache, loader, floorVars, history>>

(* The snapshot is gone from Redis and from the client's memory.           *)
(* Quiet: not while a sale of the franchise is not on disk.                *)
Evict(f) ==
    /\ started
    /\ cache[f] # Missing
    /\ Quiet => DbCaughtUp(f)
    /\ cache' = [cache EXCEPT ![f] = Missing]
    /\ UNCHANGED <<started, dbVars, loader, floorVars, history>>

(* rebuildFranchiseStateFromDB, one action per awaited statement. *)
ReadWallet(l, f) ==
    /\ started
    /\ loader[l] = Idle
    /\ cache[f] = Missing
    /\ loader' = [loader EXCEPT ![l] =
                    [franchise |-> f, stage |-> "wallet", wallet |-> wallets[f]]]
    /\ UNCHANGED <<started, cache, dbVars, floorVars, history>>

ReadSquad(l) ==
    /\ loader[l] \in Reading
    /\ LET f == loader[l].franchise
       IN  loader' = [loader EXCEPT ![l] =
                        [franchise |-> f, stage |-> "squad",
                         state |-> Rebuild(loader[l].wallet, squads[f])]]
    /\ UNCHANGED <<started, cache, dbVars, floorVars, history>>

SetSnapshot(l) ==
    /\ loader[l] \in Rebuilt
    /\ cache' = [cache EXCEPT ![loader[l].franchise] = loader[l].state]
    /\ loader' = [loader EXCEPT ![l] = Idle]
    /\ UNCHANGED <<started, dbVars, floorVars, history>>

Next ==
    \/ StartAuction
    \/ \E p \in Players : PlayerUp(p)
    \/ \E f \in Franchises, amount \in Prices : PlaceBid(f, amount)
    \/ Sell
    \/ Unsold
    \/ \E s \in recording : CommitSale(s) \/ FailSale(s)
    \/ \E f \in Franchises : Evict(f)
    \/ \E l \in Loaders, f \in Franchises : ReadWallet(l, f)
    \/ \E l \in Loaders : ReadSquad(l) \/ SetSnapshot(l)

Spec == Init /\ [][Next]_vars

-----------------------------------------------------------------------------
(* Every franchise can still fill its squad with players at the minimum    *)
(* base price, whatever it has bought: the promise of canBid's rule 5,     *)
(* kept through sales that are charged later than they are bid.            *)
Solvent == \A f \in Franchises : CanStillFillSquad(sold[f])

(* No franchise ever holds more players of a limited category than its cap *)
(* (canBid's rules 1, 3 and 4), although caps are checked at bid time on   *)
(* the amount sent and the counters move at sale time by its whole lakhs.  *)
(* The bound is exact about the bids that slip between the two: each lets  *)
(* one player more into a tier with an upper bound, and a squad bought     *)
(* without one is within every cap.                                        *)
SquadsWithinCaps == \A f \in Franchises : WithinCaps(sold[f], slips[f])

(* The snapshot bids are checked on, charged at each sale or rebuilt from  *)
(* the database, is the one the sales so far add up to.                    *)
SnapshotExact ==
    started => \A f \in Franchises : cache[f] \in {sold[f], Missing}

(* recordPlayerSold's wallet update always finds its row: the guard        *)
(* wallet_remaining_lakhs >= price never silently skips a charge.          *)
ChargeNeverSkipped == \A s \in recording : wallets[s.franchise] >= s.price

(* Once every sale of a franchise is on disk, the database alone gives its *)
(* exact snapshot.                                                         *)
DatabaseExact ==
    \A f \in Franchises :
        DbCaughtUp(f) => Rebuild(wallets[f], squads[f]) = sold[f]
=============================================================================
