----------------------------- MODULE ClientStore -----------------------------
(***************************************************************************)
(* The auction page of one manager: its connection, the store the socket's *)
(* events are reduced into, the snapshot it asks for when it connects, and *)
(* the squads it loads over HTTP when it is opened.                        *)
(*                                                                         *)
(* The server is what the page can see of it: the Redis keys of the player *)
(* up, the manager's franchise snapshot, the sales, and the broadcasts,    *)
(* each made an await after the writes it tells of.  Writers follow one    *)
(* another here (their races are BidPipeline's and AuctionFloor's).  A     *)
(* socket delivers in order and loses what is under way when it drops.     *)
(*                                                                         *)
(* Three history variables say when what the page was given was already    *)
(* out of step: crossed (a snapshot older than an event it follows),       *)
(* skewed (a franchise snapshot with one sale more or less than the events *)
(* it follows), mixed (squads that were not those of the events shown).    *)
(***************************************************************************)
EXTENDS Naturals, Sequences, SequencesExt, FiniteSets

CONSTANTS
    Me,              \* the manager's franchise
    Rivals,          \* the other franchises
    None,
    Players,         \* the queue is 1 .. Players
    Keepers,         \* those of a role the rules limit
    MaxKeepers,      \* that limit
    MaxBid,          \* bound on the price of a player
    MaxDrops,        \* bound on the connections lost
    MaxControls,     \* bound on the pauses
    MaxUnread        \* bound on the events under way to the page

ASSUME ClientAssumption ==
    /\ None \notin Rivals \cup {Me} /\ Me \notin Rivals /\ None \notin Nat
    /\ None \notin [bought : Nat, keepers : Nat]
    /\ Players \in Nat \ {0} /\ Keepers \subseteq 1 .. Players
    /\ {MaxKeepers, MaxBid, MaxDrops, MaxControls, MaxUnread} \subseteq Nat

Franchises == Rivals \cup {Me}

Up == {"player_up", "bidding"}

States == Up \cup {"idle", "paused", "sold", "unsold", "complete"}

VARIABLES
    keys,            \* the Redis keys: player, bid, bidder, state
    mine,            \* the manager's franchise snapshot in Redis
    due,             \* the broadcast a handler has still to make
    sales,           \* the sales broadcast so far
    stored,          \* the positions of those in squad_players
    admitted,        \* the manager's socket is in the room's channels
    sync,            \* where the manager's state_sync_request is
    reading,         \* what that handler has read
    chan,            \* events sent to the manager's socket
    linked,          \* isConnected
    view,            \* the store: current player, bid, bidder, auction state
    own,             \* the store: myFranchiseState
    squads,          \* the store: squadPlayers
    load,            \* the page's HTTP load of the squads
    click,           \* a bid the page has sent
    drops, controls,
    crossed, skewed, mixed     \* history

auction == <<keys, mine, due, sales, controls>>
handler == <<sync, reading, skewed>>
store == <<view, own, squads>>
vars == <<auction, stored, admitted, handler, chan, linked, store, load, click,
          drops, crossed, mixed>>

Views == [player : 0 .. Players, bid : 0 .. MaxBid,
          bidder : Franchises \cup {None}, state : States]

Counters == [bought : 0 .. Players, keepers : 0 .. Players]

Sales == [franchise : Franchises, player : 1 .. Players]

(* initialState *)
Blank == [player |-> 0, bid |-> 0, bidder |-> None, state |-> "idle"]

Unread == [keys |-> Blank, mine |-> [bought |-> 0, keepers |-> 0]]

Charged(counters, p) ==
    [bought |-> counters.bought + 1,
     keepers |-> counters.keepers + IF p \in Keepers THEN 1 ELSE 0]

(* What the manager's purchases among the sales in s come to *)
CountersOf(s) ==
    LET ps == {s[i].player : i \in {j \in DOMAIN s : s[j].franchise = Me}}
    IN [bought |-> Cardinality(ps), keepers |-> Cardinality(ps \cap Keepers)]

Sale == [franchise |-> keys.bidder, player |-> keys.player]

TypeOK ==
    /\ keys \in Views /\ mine \in Counters
    /\ due \in {"none", "up", "bid", "charge", "sold", "unsold", "paused", "resumed", "complete"}
    /\ sales \in BoundedSeq(Sales, Players) /\ stored \subseteq DOMAIN sales
    /\ admitted \in BOOLEAN
    /\ sync \in {"none", "asked", "joined", "read", "loaded"}
    /\ reading \in [keys : Views, mine : Counters]
    /\ linked \in BOOLEAN /\ view \in Views /\ own \in Counters \cup {None}
    /\ squads \in BoundedSeq(Sales, 2 * Players)
    /\ load.at \in {"asked", "read", "done"} /\ load.rows \in BoundedSeq(Sales, Players)
    /\ click = None \/ click \in [player : 1 .. Players, amount : 1 .. MaxBid]
    /\ drops \in 0 .. MaxDrops /\ controls \in 0 .. MaxControls
    /\ {crossed, skewed, mixed} \subseteq BOOLEAN

(* The page is opened on a room whose auction is about to begin *)
Init ==
    /\ keys = Blank /\ mine = [bought |-> 0, keepers |-> 0] /\ due = "none"
    /\ sales = <<>> /\ stored = {}
    /\ admitted = FALSE /\ sync = "none" /\ reading = Unread
    /\ chan = <<>> /\ linked = FALSE
    /\ view = Blank /\ own = None /\ squads = <<>>
    /\ load = [at |-> "asked", rows |-> <<>>] /\ click = None
    /\ drops = 0 /\ controls = 0
    /\ crossed = FALSE /\ skewed = FALSE /\ mixed = FALSE

-----------------------------------------------------------------------------
(* The server *)

(* canBid and the amount, as the server and the button check them *)
MayBid(v, counters, player, amount) ==
    /\ v.state \in Up /\ player = v.player /\ amount > v.bid
    /\ player \in Keepers => counters.keepers < MaxKeepers

Write(new, broadcast) ==
    /\ due = "none"
    /\ keys' = new /\ due' = broadcast
    /\ UNCHANGED <<mine, sales, stored, admitted, handler, chan, linked, store,
                   load, drops, crossed, mixed>>

(* advanceToNextPlayer *)
PutUp ==
    /\ keys.state \in {"idle", "sold", "unsold"} /\ keys.player < Players
    /\ Write([player |-> keys.player + 1, bid |-> 0, bidder |-> None, state |-> "player_up"], "up")
    /\ UNCHANGED <<click, controls>>

(* bid_placed: another manager's, or the one this page has sent *)
BidBy(f, player, amount) ==
    /\ MayBid(keys, mine, player, amount)
    /\ Write([keys EXCEPT !.bid = amount, !.bidder = f, !.state = "bidding"], "bid")

RivalBid ==
    /\ \E f \in Rivals, a \in 1 .. MaxBid :
          /\ keys.state \in Up /\ a > keys.bid
          /\ Write([keys EXCEPT !.bid = a, !.bidder = f, !.state = "bidding"], "bid")
    /\ UNCHANGED <<click, controls>>

OwnBid ==
    /\ click # None /\ due = "none"
    /\ click' = None
    /\ IF MayBid(keys, mine, click.player, click.amount)
       THEN BidBy(Me, click.player, click.amount) /\ UNCHANGED controls
       ELSE UNCHANGED <<auction, stored, admitted, handler, chan, linked, store,
                        load, drops, crossed, mixed>>

(* handleTimerExpiry: the state is set, the sale is charged an await later *)
Expire ==
    /\ keys.state \in Up
    /\ IF keys.bidder # None
       THEN Write([keys EXCEPT !.state = "sold"], "charge")
       ELSE Write([keys EXCEPT !.state = "unsold"], "unsold")
    /\ UNCHANGED <<click, controls>>

Charge ==
    /\ due = "charge"
    /\ due' = "sold"
    /\ mine' = IF keys.bidder = Me THEN Charged(mine, keys.player) ELSE mine
    /\ UNCHANGED <<keys, sales, controls, stored, admitted, handler, chan, linked,
                   store, load, click, drops, crossed, mixed>>

Pause ==
    /\ keys.state \in Up /\ controls < MaxControls
    /\ Write([keys EXCEPT !.state = "paused"], "paused")
    /\ controls' = controls + 1
    /\ UNCHANGED click

Resume ==
    /\ keys.state = "paused"
    /\ Write([keys EXCEPT !.state = "bidding"], "resumed")
    /\ UNCHANGED <<click, controls>>

(* The queue is exhausted, or the host ends the auction *)
Complete ==
    /\ keys.state \notin {"idle", "complete"}
    /\ Write([keys EXCEPT !.state = "complete"], "complete")
    /\ UNCHANGED <<click, controls>>

Message ==
    CASE due = "up"   -> [type |-> due, player |-> keys.player]
      [] due = "bid"  -> [type |-> due, bid |-> keys.bid, bidder |-> keys.bidder]
      [] due = "sold" -> [type |-> due, sale |-> Sale, bought |-> mine.bought]
      [] OTHER        -> [type |-> due]

(* io.to(room).emit; the transaction of a sale is begun here, not awaited. *)
(* PLAYER_UP carries all a view holds.                                     *)
Broadcast ==
    /\ due \notin {"none", "charge"} /\ Len(chan) < MaxUnread
    /\ due' = "none"
    /\ sales' = IF due = "sold" THEN Append(sales, Sale) ELSE sales
    /\ chan' = IF admitted THEN Append(chan, Message) ELSE chan
    /\ crossed' = IF sync \in {"read", "loaded"}
                  THEN crossed \/ reading.keys # keys
                  ELSE crossed /\ due # "up"
    /\ mixed' = (mixed \/ (due = "sold" /\ ~admitted))
    /\ UNCHANGED <<keys, mine, controls, stored, admitted, handler, linked, store,
                   load, click, drops>>

Commit ==
    /\ \E i \in DOMAIN sales \ stored : stored' = stored \cup {i}
    /\ UNCHANGED <<auction, admitted, handler, chan, linked, store, load, click,
                   drops, crossed, mixed>>

-----------------------------------------------------------------------------
(* state_sync_request: into the channels, the four keys at once, the       *)
(* franchise snapshot, then the answer to this socket                      *)

Admit ==
    /\ sync = "asked"
    /\ sync' = "joined" /\ admitted' = TRUE
    /\ UNCHANGED <<auction, stored, reading, skewed, chan, linked, store, load, click,
                   drops, crossed, mixed>>

ReadKeys ==
    /\ sync = "joined"
    /\ sync' = "read" /\ reading' = [reading EXCEPT !.keys = keys]
    /\ crossed' = FALSE
    /\ UNCHANGED <<auction, stored, admitted, skewed, chan, linked, store, load, click,
                   drops, mixed>>

LoadSnapshot ==
    /\ sync = "read"
    /\ sync' = "loaded" /\ reading' = [reading EXCEPT !.mine = mine]
    /\ UNCHANGED <<auction, stored, admitted, skewed, chan, linked, store, load, click,
                   drops, crossed, mixed>>

Reply ==
    /\ sync = "loaded" /\ Len(chan) < MaxUnread
    /\ sync' = "none"
    /\ chan' = Append(chan, [type |-> "sync", keys |-> reading.keys, mine |-> reading.mine])
    /\ skewed' = (reading.mine # CountersOf(sales))
    /\ reading' = Unread
    /\ UNCHANGED <<auction, stored, admitted, linked, store, load, click,
                   drops, crossed, mixed>>

-----------------------------------------------------------------------------
(* The page *)

(* useSocket, and useAuction's effect once isConnected: one request *)
Connect ==
    /\ ~linked
    /\ linked' = TRUE /\ sync' = "asked"
    /\ UNCHANGED <<auction, stored, admitted, reading, skewed, chan, store, load,
                   click, drops, crossed, mixed>>

(* The effect's cleanup resets the store; what is under way is lost, but *)
(* for a bid that the server may have received.                          *)
Drop ==
    /\ linked /\ drops < MaxDrops
    /\ drops' = drops + 1
    /\ linked' = FALSE /\ admitted' = FALSE /\ sync' = "none" /\ chan' = <<>>
    /\ view' = Blank /\ own' = None /\ squads' = <<>>
    /\ click' \in {click, None}
    /\ crossed' = FALSE /\ skewed' = FALSE /\ mixed' = TRUE
    /\ reading' = Unread
    /\ UNCHANGED <<auction, stored, load>>

(* The store's reducers *)
(* Fault: the bid on the player before is left standing. *)
SetPlayerUpOnly(msg) == view' = [view EXCEPT !.player = msg.player, !.state = "player_up"]

SetPlayerUp(msg) ==
    view' = [player |-> msg.player, bid |-> 0, bidder |-> None, state |-> "player_up"]

UpdateBid(msg) ==
    view' = [view EXCEPT !.bid = msg.bid, !.bidder = msg.bidder, !.state = "bidding"]

SetState(state) == view' = [view EXCEPT !.state = state]

MarkAuctionComplete == view' = [view EXCEPT !.player = 0, !.state = "complete"]

(* Fault: every franchise's purchases are counted as the manager's. *)
MarkEverySale(msg) ==
    /\ SetState("sold")
    /\ squads' = Append(squads, msg.sale)
    /\ own' = IF own # None
              THEN [Charged(own, msg.sale.player) EXCEPT !.bought = msg.bought]
              ELSE own

(* The squad grows by the player; of the manager's own counters the total *)
(* is the payload's and the others are counted on.                        *)
MarkPlayerSold(msg) ==
    /\ SetState("sold")
    /\ squads' = Append(squads, msg.sale)
    /\ own' = IF own # None /\ msg.sale.franchise = Me
              THEN [Charged(own, msg.sale.player) EXCEPT !.bought = msg.bought]
              ELSE own

SyncState(msg) == view' = msg.keys /\ own' = msg.mine

Deliver ==
    /\ chan # <<>>
    /\ chan' = Tail(chan)
    /\ LET msg == Head(chan)
       IN /\ CASE msg.type = "up"       -> SetPlayerUp(msg)
               [] msg.type = "bid"      -> UpdateBid(msg)
               [] msg.type = "sold"     -> MarkPlayerSold(msg)
               [] msg.type = "unsold"   -> SetState("unsold")
               [] msg.type = "paused"   -> SetState("paused")
               [] msg.type = "resumed"  -> SetState("bidding")
               [] msg.type = "complete" -> MarkAuctionComplete
               [] msg.type = "sync"     -> SyncState(msg)
          /\ msg.type \notin {"sold", "sync"} => UNCHANGED own
          /\ msg.type # "sold" => UNCHANGED squads
    /\ UNCHANGED <<auction, stored, admitted, handler, linked, load, click, drops,
                   crossed, mixed>>

(* The rows of squad_players, oldest first *)
Rows ==
    LET order == SetToSortSeq(stored, <)
    IN [i \in DOMAIN order |-> sales[order[i]]]

(* GET /rooms/:code/squads, once, when the page is opened *)
ReadRows ==
    /\ load.at = "asked"
    /\ load' = [at |-> "read", rows |-> Rows]
    /\ UNCHANGED <<auction, stored, admitted, handler, chan, linked, store, click,
                   drops, crossed, mixed>>

(* The sales whose PLAYER_SOLD the page has been given *)
Shown == SubSeq(sales, 1, Len(sales) - Cardinality({i \in DOMAIN chan : chan[i].type = "sold"}))

(* Fault: the rows are added to what is shown. *)
AddSquadPlayers ==
    /\ load.at = "read"
    /\ squads' = squads \o load.rows /\ load' = [at |-> "done", rows |-> <<>>]
    /\ mixed' = (mixed \/ load.rows # Shown)
    /\ UNCHANGED <<auction, stored, admitted, handler, chan, linked, view, own,
                   click, drops, crossed>>

SetSquadPlayers ==
    /\ load.at = "read"
    /\ squads' = load.rows /\ load' = [at |-> "done", rows |-> <<>>]
    /\ mixed' = (mixed \/ load.rows # Shown)
    /\ UNCHANGED <<auction, stored, admitted, handler, chan, linked, view, own,
                   click, drops, crossed>>

(* useBidEligibility and the bid button: what the page can offer *)
Offer(amount) ==
    /\ own # None /\ view.player # 0 /\ view.bidder # Me
    /\ MayBid(view, own, view.player, amount)

Click ==
    /\ linked /\ click = None
    /\ \E a \in 1 .. MaxBid :
          Offer(a) /\ click' = [player |-> view.player, amount |-> a]
    /\ UNCHANGED <<auction, stored, admitted, handler, chan, linked, store, load,
                   drops, crossed, mixed>>

Next ==
    \/ PutUp \/ RivalBid \/ OwnBid \/ Expire \/ Charge \/ Pause \/ Resume \/ Complete
    \/ Broadcast \/ Commit
    \/ Admit \/ ReadKeys \/ LoadSnapshot \/ Reply
    \/ Connect \/ Drop \/ Deliver \/ ReadRows \/ SetSquadPlayers \/ Click

Spec == Init /\ [][Next]_vars

-----------------------------------------------------------------------------
(* Properties *)

(* Nothing is under way to the page *)
Settled == linked /\ sync = "none" /\ chan = <<>> /\ due = "none"

(* A page to which nothing is under way shows the server's player, bid,     *)
(* bidder and state (auctionStore.ts:169-345): whichever events it missed   *)
(* while it was away, whatever it was sent before its snapshot, and however *)
(* stale that snapshot, from the next player on.  An auction that is over   *)
(* shows no player.                                                         *)
ViewExact ==
    (Settled /\ ~crossed) =>
        \/ view = keys
        \/ keys.state = "complete" /\ view = [keys EXCEPT !.player = 0]

(* The manager's own counters, which the page's rules read, are what its    *)
(* purchases come to, unless its snapshot came with one sale too few or too *)
(* many for the events it follows (auctionHandler.ts:305-330).              *)
CountersExact == (Settled /\ ~skewed) => own = CountersOf(sales)

(* Until the connection is lost, and if the HTTP load agreed with the       *)
(* events shown, the squads shown are the sales, each once, in order        *)
(* (auctionStore.ts:221-228, 348-351; routes/rooms.ts:213-268).             *)
SquadsExact == (Settled /\ load.at = "done" /\ ~mixed) => squads = sales
=============================================================================
