# Verification of the IPL auction app

TLA+ specifications of the auction app in this repository, its server and the parts of its pages that
keep state, the TLC runs that check them on small
instances and the theorems TLAPS proves about them for instances of any size. File names below are
relative to the repository root; `backend/` stands for `apps/backend/src/`, `shared/` for
`packages/shared/src/` and `frontend/` for `apps/frontend/src/`.

1. [The system](#1-the-system) — parts, state, operations, interactions
2. [What is hard](#2-what-is-hard)
3. [The modules](#3-the-modules)
4. [The runs](#4-the-runs) — bounds, results, mutants
5. [Proofs](#5-proofs)
6. [Disagreements between code and documentation](#6-disagreements-between-code-and-documentation)
7. [What is not modelled](#7-what-is-not-modelled)
8. [Plan](#8-plan)

## 1. The system

A room of managers, each with a franchise, buys cricketers in a live auction. One Node process serves
HTTP and Socket.IO; PostgreSQL keeps what must last, Redis what the auction reads on every bid, and the
Redis client mirrors every key in the process's memory so that it works without Redis too. Handlers,
timer callbacks and the engine's continuations all run in one thread and interleave **at every `await`**.

| Part | Code | State | Operations | Talks to | Correct when |
|---|---|---|---|---|---|
| Salary-cap rules | `shared/validators/bidEligibility.ts`, `shared/constants/auction.ts` | none | `canBid`, `getBidTier` | read by the bid validator and by the client | an accepted bid can be paid, fits every cap, and leaves enough to fill the squad |
| Franchise snapshots | `backend/services/franchiseStateService.ts` | Redis: one `FranchiseState` per franchise | init, load, deduct, rebuild from the database | engine (deduct), bids (load), PostgreSQL | a snapshot is what the sales so far add up to |
| Sale persistence | `backend/db/queries/auction.ts` | `room_members.wallet_remaining_lakhs`, `squad_players`, `auction_queue`, audit rows | `recordPlayerSold` (one transaction, not awaited), queue updates | engine | every announced sale is charged once |
| Bid pipeline | `backend/socket/handlers/auctionHandler.ts` 73-254, `services/bidValidator.ts` | Redis: `currentPlayer`, `auctionState`, `currentBid`, `currentBidder` | `auction:bid_placed`, twelve awaited steps | lock, snapshots, timers, clients | bids are totally ordered; the player goes to the last one |
| Bid lock | `backend/redis/lock.ts` | Redis and the memory mirror: the lock key with a TTL | acquire (`SET NX EX`), release (script) | bid pipeline, teardown | at most one holder; free when nobody holds it |
| Auction engine | `backend/services/auctionEngine.ts` | the same keys, the continuation of its own `await`s | start, next player, expiry, sold, unsold, end, phase transition | queue, timers, snapshots, clients | each player resolved once, in order; the auction ends |
| Countdown | `backend/services/timerService.ts` | map room → interval; Redis: deadline, paused seconds | start, reset, clear, pause, resume, extend | engine, bids, host controls | one countdown per room; a pause with seconds left freezes it |
| Host controls | `auctionHandler.ts` 374-460 | none of its own | pause, resume, skip, extend, end | timers, engine | act on the current player only |
| Pool and queue | `backend/services/queueManager.ts` | Redis: the queue; PostgreSQL: queue rows and the pointer | generate pool, initialise, next, advance | engine | distinct players, quotas, pointer counts the resolved |
| Host dead-man switch | `backend/services/hostDeadManService.ts` | token, frozen time, 60 s timer | disconnect, reconnect, timeout | sockets, timers, rooms | exactly one of "host back" and "terminated" wins |
| Rooms and teardown | `backend/socket/handlers/roomHandler.ts`, `disconnectHandler.ts`, `services/teardownService.ts`, `db/queries/rooms.ts` | rooms, members, franchise claims, host | create, join, leave, claim, start, disconnect, succession | dead-man switch, engine | one host, one manager per franchise, status only moves forward |
| Redis client | `backend/redis/client.ts` | Redis, the memory mirror, health | get, set, del, eval, pipeline | everything | the two copies do not disagree where it matters |
| Client store | `frontend/stores/auctionStore.ts`, `hooks/useAuction.ts`, `hooks/useBidEligibility.ts` | the auction as one client shows it, its own counters, the squads | one reducer per server event, `syncState`, the squads' HTTP load | server events | shows what the server last decided |
| Accounts and sessions | `backend/routes/auth.ts`, `db/queries/users.ts`, `socket/middleware/socketAuth.ts`, `frontend/lib/api.ts`, `lib/socketClient.ts`, `hooks/useAuth.ts` | table users; a token in the browser's storage, shared by its tabs; a socket per tab | register, log in, Google sign-in, guard, REST call, handshake, log out | every route and socket | one account a mailbox; a page acts as the user it shows |
| Lobby and other pages | `frontend/app/` | what each page has loaded | load, take over broadcasts, filter | REST, sockets | the lobby shows the roster |
| History | `backend/db/queries/history.ts`, the results page | none: reads rows | list and ledger of finished auctions | PostgreSQL | wallet and spending add up, no sale is missing |
| Player table | `packages/database/seeds/seedPlayers.ts`, `backend/db/queries/players.ts`, `frontend/app/players/page.tsx` | table players | parse and upsert the spreadsheet, split, filter | pool generation | each row under its own category; seeding twice changes nothing |

How a player is sold: the engine writes the four keys and emits `PLAYER_UP`, starts a 30 s interval,
and returns. Bids run concurrently with each other; each validates on what it read, takes the lock,
re-reads the amount, writes, releases, broadcasts, and replaces the interval by one of 10 s. The
interval's last tick calls `handleTimerExpiry`, which reads bid and bidder **without the lock**, charges
the snapshot, moves the pointer, broadcasts, starts the database transaction without waiting for it,
sleeps 3 s and asks for the next player. Host controls, the dead-man switch and teardown act on the same
keys and the same interval at any moment.

Before that, managers join the room over HTTP, enter it on a socket, claim franchises and leave again;
each of these requests reads the room, awaits, acts, and broadcasts a list it has read. The host's
`room:start_auction` checks the members, activates the room, and three seconds later draws the pool and
the queue for the members there are. From then on a lost connection of the host opens a window of 60 s:
the countdown is frozen, the room waits, and either a `room:join` of the host or the timeout closes it.

## 2. What is hard

`PROJECT.json` lists each hazard at its line, with the properties that would catch it. In groups:

- **Interleaving at awaits.** Two bids past validation; an expiry inside the two writes of a bid; two
  `startTimer` calls around one Redis write; a control during a resolution.
- **Amounts.** Nothing checks that a bid is a whole number of lakhs; bids are compared and charged through
  `parseInt`, and the tier classifications disagree between their integer bounds.
- **Stale reads.** Under the lock only the amount is read again; a rebuild reads wallet and squad in two
  statements; the engine goes on with the entry it had before a sleep; a read answered before a delete
  writes the deleted value back into the mirror.
- **Two copies.** Redis and its mirror; snapshot and database rows; queue in Redis and pointer in PostgreSQL.
- **Partial failure.** `recordPlayerSold` fails and is only logged; a resolution throws and is only logged.
- **Long legal sequences.** Caps are checked when a bid is made and counted when it is sold, many sales
  later they must still add up; pause, resume, extend and skip in any order.
- **Liveness.** Nothing but the chain expiry → pause → next player → `startTimer` carries an auction on.
- **Timeouts that race.** The lock's TTL; the 60 s host window against the host's return, against a second
  lost connection, and against the engine, which may be between two players.
- **Snapshots against events.** A page is given a state that was read awaits before it was sent, while
  events overtake it; the squads come over HTTP and the sales over the socket.
- **Check, then act.** Joining, claiming, leaving and starting check members that another request is
  about to change; two sign-ups for one address both find it free.

## 3. The modules

| Module | Models |
|---|---|
| `Eligibility` | `canBid`, the three tier classifications, `deductFromFranchiseState`, the rebuild from rows — pure operators over records |
| `FranchiseLedger` | wallets, squads and snapshots of all franchises through sales, late and failing transactions, evictions and concurrent rebuilds |
| `AscendingAuction` | abstract: what the bidding promises (open a lot, raise it, knock it down) |
| `BidPipeline` | the bid handler split at its awaits, the two-copy lock, the engine split at its writes; implements `AscendingAuction` |
| `AuctionFloor` | the course of an auction: queue in Redis and in rows, pointer, intervals, resolutions, pauses, host controls; liveness |
| `HostDeadMan` | the host's connections, the dead-man switch and the presence check, call by call; liveness |
| `PlayerPool` | how many players of which role the pool draws: operators over counts |
| `RoomLifecycle` | members, franchises, host and status of a room through interleaved requests, and what a lobby page shows; extends `PlayerPool` |
| `RedisStore` | the Redis client on one key: Redis, the memory copy, commands in flight, changes of health |
| `ClientStore` | the auction page: connection, store, snapshot, HTTP load, against the server as the page sees it |
| `Sessions` | accounts, tokens, the tabs of one browser and their sockets |
| `History` | the list and the ledger of finished auctions: operators over rows |
| `Catalogue` | the player table from the spreadsheet: operators over rows |
| `MC*` | the instances TLC checks |
| `FranchiseLedgerProofs`, `BidPipelineProofs`, `AuctionFloorProofs`, `HostDeadManProofs`, `RoomLifecycleProofs`, `RedisStoreProofs`, `ClientStoreProofs`, `SessionsProofs` | the theorems and their lemmas, one module for each component that has state |

Operators marked `Fault:` are bugs that somebody could plausibly write in place of the operator that
follows them. No specification uses them; they stand beside the code's behaviour to show which property
catches which bug (section 4).

**Eligibility.** A player has a role, a nationality and a base price; a `FranchiseState` is the record
the code keeps in Redis, without `uncappedCount`, which no rule reads. The overseas, wicketkeeper and
tier limits are one function `Limit`. The source classifies a price into a tier in three places
(`getBidTier`, `deductFromFranchiseState`, and the SQL of the rebuild); the model keeps them apart as
`GetBidTier`, `SaleTier` and `RowsIn`, because whether they agree is a question.

*Amounts.* Nothing in the server asks for whole lakhs: the payload's `amountLakhs` (`auctionHandler.ts` 74)
goes through `validateBid` and into Redis as it is, and comes out of it through `parseInt`
(`bidValidator.ts` 90, `auctionHandler.ts` 165, `auctionEngine.ts` 177). An amount is therefore a natural
number of a unit of which a lakh has `LAKH`, so that 2499.5 is an amount; `Whole` is `parseInt`.
`GetBidTier` has the source's inclusive integer bounds (1999, 2499), so an amount strictly between such a
bound and the next lakh is `below15`. `SameTier(amount)` says that the bid and the sale put an amount in the
same tier, `WithinCaps(s, slips)` that each counter is within its limit, but for the `slips` counted.

**FranchiseLedger.** Actions and code: `StartAuction` (`initAllFranchiseStates`), `PlayerUp`, `PlaceBid`
(check and write in one step), `Sell` (`processPlayerSold`: charge the snapshot, start the transaction),
`CommitSale` / `FailSale` (`recordPlayerSold` and its rollback), `Evict` (the snapshot leaves Redis),
`ReadWallet`, `ReadSquad`, `SetSnapshot` (`rebuildFranchiseStateFromDB`). `sold` is history: what each
snapshot ought to be, `slips` how many sales of it the bid and the sale put in different tiers. Two
constants describe the environment. `AllowRestart`: the host may send `room:start_auction` to a running
room. `Quiet`: a snapshot leaves Redis only when the sales of that franchise are on disk, and nothing is
sold to a franchise while its snapshot is being rebuilt. Snapshots carry a 24 h TTL and are rewritten at
each sale, so an eviction next to a transaction in flight needs Redis to lose data within milliseconds of a
sale.

**BidPipeline.** One action per awaited step. `Load`, `Validate`, `Acquire`, `CheckFresh`, `SetBid`,
`SetBidder`, `SetBidding`, `Release` are a handler; `NextPlayer`, `SetPlayerUp`, `ZeroBid`,
`DeleteBidder`, `ReadPrice`, `ReadBidder`, `Resolve`, `EndAuction` the engine; `ExpireLock` and
`TeardownDeletesLock` what else touches the lock. `shown` is the last `PLAYER_UP` or `BID_UPDATE`.
The standing bid is the amount as it was sent; every comparison and the sale use its whole lakhs.
`healthy` is whether Redis is up, constant over a behaviour. Four constants say what may race:

| Constant | TRUE means | Why the main run has it FALSE |
|---|---|---|
| `ExpiryRaces` | the countdown may run out between a bid's validation and its broadcast | it breaks the sale (run `torn_sale`); FALSE shows the rest is sound |
| `SlowHandlers` | a handler may outlive the 3 s pause after a result | a handler takes milliseconds |
| `LockExpires` | the 5 s TTL may elapse under a holder | as above |
| `TeardownsRace` | a leaving manager's teardown may delete a lock that is held | it is the one assumption that is not about time: a leave that lands inside another manager's bid |

**AuctionFloor.** Each expiry, bid and control is a *run*; `run` holds each one's place between two
awaits. A run of the engine goes `expired → resolving → resolved → settled → advanced → asleep → next →
start → install`; a bid `bidding → start → install`; a resume `resuming → start → install`; an extension
enters at `start`, a skip at `expired`; a pause goes `freeze → stopped → frozen → undated`; an end
`ending`. `handle` is the interval in the timer map, as the callback it will call (the entry it was
started for, or `Requeue`, which asks for the pointer again; `RequeueSoon` is a resume's, which may be as
short as a second); `orphans` are the intervals that tick without being in the map. `deadline` and `paused`
are the two keys of the countdown. The action names follow the code: `Fire` and `Expire` (the last tick),
`StartTimer` / `Install` (`startTimer` before and after its await), `Resolve` (the result is announced),
`Settle` (the row's status), `Advance` (the pointer), `MarkNext` (the next row is active), `Wake`,
`Complete`, `PutUp`, `Check` / `Write` (a bid before and under the lock), `Pause` (reads the remaining
seconds) / `Stop` (the interval) / `Freeze` (`:paused`) / `Forget` (the deadline) / `MarkPaused` (the state),
`Resume` / `Unfreeze`, `Skip`, `Extend`, `End` / `Finish`.

*What overlaps.* The code lets the host act at any moment and so does the model: no control, bid or expiry
looks at what else is under way. `mixed`, a history, only notes which kinds of overlap there have been, and
each property names the kinds that break it:

| Overlap | What happened | What the code does then |
|---|---|---|
| `twice` | a resolution began during another (a skip in the sold pause) | sells the next player on the last bid (`skip_in_pause`) |
| `late` | a bid was checked before and written after its player was resolved, or a resume let bids in then | the bid stands for nobody, or for the next player |
| `pause` | a pause met another run, a bid or expiry came during it, or the host extended it | a bid in flight writes `bidding` and restarts the countdown of a paused auction |
| `deadline` | a pause found a countdown with no seconds left: after the deadline, before the tick | the interval is cleared, nothing is stored, a resume finds nothing: the auction stands still |
| `end` | an End met another run, or something began at or after it | the engine wakes and writes `player_up`, or a bid in flight writes `bidding`, over `complete` |

`Pause` reads the seconds as those already frozen or those up to the deadline, which may have passed
whenever one is set: the outcome "none" is always possible. Time is abstract: an interval in the map may run
out at any moment, except that while a player is being resolved or put up only a resumed one may, because
any other is a bid's or an extension's and its 10 s outlast the 3 s and 5 s sleeps after which the engine
replaces it. Two constants: `TimersOverlap` (a timer call may land in the await of a `startTimer`) and
`MaxOverlaps`, a bound of the search: bids and controls begin only until that many kinds have happened. The
queue is kept twice: `cache` in Redis, which `Evict` may lose at any moment, and `status`, the rows it is
rebuilt from (`rebuildQueueFromDB`) when `getNextPlayer` misses it. A bid's lock, the four writes of `PutUp`
and the fractions of a lakh are in `BidPipeline` and left out here. A manager who leaves changes nothing here:
`removeMemberFromRoom` deletes a row only in the lobby (`db/queries/rooms.ts` 277-282), so the buyer's row is
always found and the fall-through to `processPlayerUnsold` is unreachable from these steps.

**HostDeadMan.** Each handler and each timeout is a *call* that lives between its awaits: a lost
connection goes `reading → freezing → suspending → arming` (`ReadRoom`, `Freeze`, `Suspend`, `Arm`), the
host's return `returning → activating → resuming → marking` (`Return`, `Activate`, `Resume`, `Mark`), the
timeout `ringing → terminating → closing` (`CheckToken`, `Terminate`, `Close`). `token` is the value in
Redis, `alarm` the pending `setTimeout` with the token it carries. The host has several tabs; each page
greets the server with `room:join` and the sync request when its socket connects, and `Drop` runs the
disconnect handler, whose presence check fires 60 s later (`Check`). Of the engine there is a countdown, the
pause between players, and the end. The history `orderly` says that nothing has overlapped so far: one tab
at a time, lost during a countdown, with no call under way. The properties that need it say so; the others
hold whatever races. `Freeze` is `pauseTimer` with both outcomes: what it stores is what is frozen already or
what the countdown has left, which may be nothing although the interval still runs (`timerService.ts`
188). The history `missed` notes the second: the host was lost between the deadline and the last tick.

**RoomLifecycle** and **PlayerPool.** A request is in `request` between its awaits: joining, claiming,
listing and sending (a list that was read and is still to be broadcast or answered), checking, activating
and counting (a start), leaving and left (a teardown). `Load` is the page's `GET /rooms/:code`, `Enter` its
`room:join`. `shown` is what one lobby page has made of all this. `Remove` is the transaction of
`removeMemberFromRoom`, succession included; `Farewell` what the teardown does after it, on the status it
read before it. Histories: `emptied` (the last member has left), `crossed` (two requests have overlapped),
`raced` (a start was checking members that another request was about to change). `HostLost`, `HostTimeout`
and `EndAuction` are the auction's moves of the status, which `HostDeadMan` and `AuctionFloor` have in
detail. `PlayerPool` is the arithmetic of `generateCalibratedPlayerPool`: target, marquee share, quotas
rounded one by one, the two fill-ups. Which players the shuffles draw is left out.

**RedisStore.** One key, used as a string, a lock or a hash. A command changes the memory copy at once and,
when Redis is healthy, joins `sent`, which Redis answers in order (`Answer`; a `get` writes what it found
back into memory). `GoDown` and `ComeUp` are the connection's events. `truth` is the abstract register: the
value if every command took effect at once. `parted` and `behind` say when the copies may differ from it:
a write while a read was under way, a release script, a key that expired from one copy only, a change while
Redis was away.

**ClientStore.** The server is reduced to what one page can see: the four keys, its franchise's snapshot,
the sales, the rows in `squad_players`, and a broadcast that is `due` an await after the writes it tells of.
`Admit`, `ReadKeys`, `LoadSnapshot`, `Reply` are `state_sync_request` at its awaits. The page's reducers are
operators on a message (`SetPlayerUp`, `UpdateBid`, `MarkPlayerSold`, `SetState`, `MarkAuctionComplete`,
`SyncState`) which `Deliver` applies in order. `ReadRows` and `SetSquadPlayers` are the squads' load. `Drop`
loses what is under way and resets the store, as `useAuction` does. Histories: `crossed`, `skewed`, `mixed`
(see the module's header). Prices are whole lakhs here; for a bid that is not, see section 7.

**Sessions.** `Submit` sends a form; `CheckTaken`/`Register`, `Find`/`Compare` and `Look`/`Create`/`Rename`
are registration, login and the Google strategy at their awaits; `Deliver` stores the token the answer
brought. `Guard` and `Mount` are `AuthGuard` and the page's first effects, `Fetch` and `Show` a REST call
with the token stored by then, `Handshake` and `Cut` the socket with the token of its making, `Lapse` the
seven days. `rewritten` says that the storage was written after a page had read it.

**History** and **Catalogue** have no state of their own: they are operators, and what they promise is
checked as `ASSUME`s of `MCClientStore` and `MCRoomLifecycle` over all small inputs (section 4). The rank
`getHistoricalAuctions` gives an auction is its place in the list.

## 4. The runs

| Run | Instance | Expect | Shows |
|---|---|---|---|
| `ledger` | 2 franchises, 3 players, 2 rebuilds, amounts of 1 to 5 lakhs in halves, wallet of 5 lakhs, squad 2, one place per limited category | pass | caps, solvency, exact snapshots and an exact database |
| `bids` | 2 franchises, 2 bids in flight, 2 players, amounts 1, 2, 2.5 and 3 lakhs, wallet 4 | pass | mutual exclusion, rising bids, sales within the rules and as shown, refinement of `AscendingAuction` |
| `torn_sale` | the same, `ExpiryRaces` | violation of `SaleWithinRules` | section 6 |
| `held_lock` | as `bids` | violation of `LockFreeWhenUnheld` | section 6 |
| `floor` | 2 players, 1 franchise, 2 prices, 2 runs, 3 controls at any moment, the queue lost at any moment, bids and controls until two kinds of overlap have happened | pass | one timer, each player resolved once in order on its own bid, rows and pointer agree, pauses freeze, nothing stalls, completion is final and reached, each until the overlaps that break it |
| `two_timers` | the same, `TimersOverlap` | violation of `OneTimer` | section 6 |
| `skip_in_pause` | as `floor` | violation of `SkipKeepsToCurrent` | section 6 |
| `deadman` | 2 tabs, 2 calls at once, 2 connections lost, 1 player | pass | a waiting room has a live timeout and is decided; the window freezes and leaves nothing behind and the countdown goes on, unless the host was lost at the deadline |
| `lobby` | 3 users, 2 franchises, 2 requests at once, five player tables | pass | the host is a member, the roster is fixed by the start, the queue fits it, the pages show it |
| `redis` | 2 values, 4 commands in flight | pass | fallback and reads are exact unless a race parted the copies; no lock is granted twice |
| `client` | 2 players, one rival, prices 1-2, 1 pause, 1 lost connection, 3 unread events | pass | view, counters and squads are the server's |
| `session` | 2 mailboxes, one with an old Google account, 2 tabs, 2 tokens | pass | one account a mailbox, refusals have a cause, a page is one user's |

**The properties.**

- `ledger`: `Solvent` — every franchise can always fill its remaining places at the minimum base price;
  `SquadsWithinCaps` — and no cap is exceeded but by the sales of amounts that the bid and the sale classify
  differently; `SnapshotExact` — the snapshot bids are checked on is what the sales add up to, however
  charged or rebuilt; `ChargeNeverSkipped` — the guarded `UPDATE` always finds its row; `DatabaseExact` —
  once its sales are on disk, the database alone gives a franchise's snapshot.
- `bids`: `MutualExclusion`; `BidsRise` — above the whole lakhs of the bid before; `SaleWithinRules` — on
  the buyer's snapshot *at the sale*; `ResultAsShown` — a sale is the last `BID_UPDATE`, a player passes
  only when no bid on it was shown; `ImplementsAuction` — the refinement.
- `floor`: `OneTimer`; `ResolvedInOrder` — every player before the pointer was resolved exactly once, none
  from it on, and between two resolutions the queue rows say what was announced; `SoldOnOwnBid`;
  `PausedIsFrozen` — nothing that counts down or is under way can resolve a paused player, write a bid or
  restart the countdown, at any of the pause's own awaits; `NeverStalls` — an open auction has a countdown
  or a run that leads to one; `CompleteIsFinal`; `AuctionEnds` — it completes, unless the host leaves it
  paused. The exceptions (section 3): `twice` for the order; `twice`, `late` for the sale; `pause` for the
  pause; `deadline`, `end` for the two about going on; `end` for completion. None for `OneTimer`. Each
  property holds through every other overlap: a player is resolved once though a bid overrides a pause, and
  a pause freezes though an end was undone.
- `deadman`: `WaitingIsArmed` — a room that waits has a pending timeout whose token is the one in Redis,
  whatever raced; `WindowDecided` — a window is always closed; `WindowSound` — inside the window the
  countdown is frozen, outside nothing of the window is left and an active room counts down (a room whose
  host was lost at the deadline has, exactly, nothing frozen and no countdown afterwards);
  `HostAwayInWindow` — the window is not open while the host sits in the room; `NeverStuck` — a frozen
  countdown goes on or the room ends. `WindowSound`, `HostAwayInWindow` and `NeverStuck` for an `orderly`
  history: a host lost between two players is not frozen, two tabs can open a window on a host who is there,
  and a return that overlaps the timeout can leave the room active over a finished auction (`Activate`
  follows the status read before `Terminate`).
- `lobby`: `HostIsMember`; `RosterFixed` (action) — after the start nobody joins, leaves or changes
  franchise; `StartedForRoster` — every member has a franchise and the queue was made for as many managers
  as there are, from any table; both unless a join or a claim was under way while the start checked;
  `LobbyShown` — crown, members and franchises on the page are the room's, unless requests overlapped.
- `redis`: `FallbackExact` — the memory copy is what was last written, at every moment Redis may go away;
  `ReadsExact` — a read gives the register's value; `NeverGrantedTwice` (action) — a held lock goes to
  another only after release or expiry.
- `client`: `ViewExact`, `CountersExact`, `SquadsExact` — a page to which nothing is under way shows the
  server's player, bid, bidder and state; counts its own purchases right; lists every sale once, in order.
  Each excepts what the server itself sent out of step (`crossed`, `skewed`, `mixed`).
- `session`: `OneAccountPerMailbox`; `AnsweredForCause` — nobody is turned away except for a taken address,
  a wrong password, a name that does not fit or (Google only) a lost race, and whoever is let in gets the
  account of that mailbox; `OneIdentity` — the user shown, the one REST acts for, and the one the socket was
  admitted as are the same.

**Checked as assumptions.** TLC evaluates these before the run whose module states them: `PoolFits` (the pool
draws nobody twice, reaches its target when the table allows and exceeds it by two at most) for 0-12
managers over 105 tables; `ColumnMeans`, `SeedIsIdempotent`, `TableSplits` for every column of up to five of
five rows; `LedgerBalances` and `DetailIsComplete` for every order of up to four sales by two buyers at three
prices, with the reads at any two points of it. `PoolFits` is also proved, for every table (section 5).

**Bounds.** The ledger's scale is chosen so that each cap, each tier bound and an empty wallet are reached:
squads of two with one overseas place, one wicketkeeper and one place per tier, three tiers at 2, 3 and 4
lakhs of a wallet of 5. `LAKH` is 2: with half lakhs there is an amount strictly between a bound and the
next lakh (2.5), which is all the code can tell apart; a bid of it does exceed a cap in the run, so that
`SquadsWithinCaps` with `slips` left out is violated. Two bids in flight are what mutual exclusion is about,
and the lock makes a third wait like the second. On the floor two runs are what overlaps: a bid or a control
with a resolution, a sleep, a pause or an end; three controls let a pause be resumed and then anything
follow; two players are the one that is up and the next, which a late bid or a second resolution would
reach, and the queue ends after the second; one franchise is enough because a bid is told from another by
its player and price. One kind of overlap after another is explored, and the runs under way go on to their
end whatever they meet; the theorems of section 5 hold for any number of each, of overlaps too. `MaxPrice`
and `MaxControls` bound what the code leaves unbounded: bids end anyway when wallets do, controls need not.
Two calls in `deadman` and two requests in `lobby` are what a race needs; three users leave a successor and
somebody to join; two lost connections are the window and one that overlaps it. Four commands in flight are
a read, a write that passes it, a delete and the read that brings the value back. Two tokens let one tab
replace the other's; with three (9.6 million states, not part of the runs) the properties of `session` hold
as well. Two players in `client` are one under way and the next one that must wipe it; a third unread event
is the one behind the two that cross a snapshot. `MCRoomLifecycle` and `MCClientStore` fold states that
differ only in a variable no property reads any more (`MCView`).

**Fairness.** Two modules state any. `HostDeadMan`: weak fairness of each call, of the two timeouts and of
the engine's countdown; nothing makes the host come back. `AuctionFloor`: weak fairness of each run (a
promise that resolves is continued) and of the intervals (Node fires a timer that is not cleared). Nothing
makes anybody bid, or the host resume. With finitely many controls the liveness property then reads: the
auction completes or the host leaves it paused, unless a pause came at the deadline or an end was
overlapped. It assumes that database calls return; a resolution that throws ends in a log line
(`auctionEngine.ts` 193) and nothing continues the auction.

Deadlock is not checked where the modelled system may stop: after the last sale, on completion,
and in a pause nobody resumes.

**Mutants.** Each property of each passing run is violated when one mapped definition is replaced by its
`Fault:` neighbour: for example `SnapshotExact` by a rebuild that takes a tier's lower bound as excluded,
`BidsRise` by leaving out the check under the lock, `ResolvedInOrder` by a queue rebuilt from the pending
rows only, `PausedIsFrozen` by a pause that does not clear the interval, `WaitingIsArmed` by a timeout that
carries the token before, `AuctionEnds` by an off-by-one at the end of the queue.

## 5. Proofs

TLAPS proves these for all sets of franchises, players, users, tabs and values, any number of concurrent
activities, and all values of the limits that satisfy the named `ASSUME`s. Every invariant and every action
property of section 4 is the subject of a theorem; the three liveness properties are not.

| Theorem | States | Under |
|---|---|---|
| `LedgerTyped` | `TypeOK` of the ledger | nothing |
| `FranchisesStaySolvent`, `CapsHold`, `SnapshotsStayExact`, `DatabaseFollows`, `ChargesGoThrough` | `Solvent`, `SquadsWithinCaps`, `SnapshotExact`, `DatabaseExact`, `ChargeNeverSkipped` | `Settled` = `Quiet`, no restart |
| `DeductKeepsRules` | a purchase `canBid` allows, at any amount, leaves a wallet that can fill the squad; each capped counter stays, or grows to its cap at most, or is a middle tier's and the amount not `SameTier` | `canBid` |
| `RebuildAfterSale` | rebuilding with a sale added is charging it | – |
| `PipelineTyped` | `TypeOK` of the pipeline | nothing |
| `BidsExclude` | `MutualExclusion` | `LockKept` = the lock neither expires nor is deleted under its holder |
| `SalesWithinRules`, `ResultsAsShown`, `BidsOnlyRise`, `PipelineImplementsAuction` | the other properties of `bids` | `Orderly` = `LockKept`, no expiry in flight, handlers shorter than the pause |
| `FranchisesStayWithinRules` | every wallet able to fill its squad and every cap of `Binding` kept, in every state of the pipeline: all caps if each amount that may be bid is `SameTier`, all but the two middle tiers' otherwise | `Orderly` |
| `FloorTyped` | `TypeOK` of the floor | nothing |
| `TimersStayOne` | `OneTimer` | no timer call in the await of a `startTimer` |
| `QueueResolvedInOrder`, `SalesOnOwnBids`, `PauseFreezes`, `FloorNeverStalls`, `CompleteStaysComplete` | the other safety properties of `floor`: any control at any moment, each up to the overlaps it names | the same |
| `HostTyped`, `WaitingStaysArmed`, `WindowStaysSound`, `HostStaysAwayInWindow` | the safety properties of `deadman` | nothing |
| `PoolAlwaysFits` | `PoolFits` for every table and number of managers | nothing |
| `RoomTyped`, `HostStaysMember`, `RosterStaysFixed`, `StartsForRoster`, `LobbyIsShown` | the properties of `lobby` | nothing |
| `StoreTyped`, `FallbackStaysExact`, `CopiesReadAsOne`, `LockNeverGrantedTwice` | the properties of `redis`, and types | nothing |
| `ClientFollows`, `ViewStaysExact`, `CountersStayExact`, `SquadsStayExact` | the invariant and the properties of `client` | nothing |
| `SessionsTyped`, `MailboxesUnique`, `AnswersHaveCause`, `PagesHaveOneIdentity` | the properties of `session`, and types | nothing |

**The assumptions.** "Nothing" is nothing besides the `ASSUME`s on the constants: bounds are naturals,
`None`-like names are nobody's, players have a role and a base price, and six facts of the code.
`LimitsAssumption`: the tiers are ordered, and a full wallet fills a squad at the minimum price (12000 and
25 times 20 lakhs). `UnitsAssumption`: tier bounds and base prices are whole lakhs; amounts need not be.
`PoolAssumption`: 10 marquee players fit the smallest pool of 50, and that is no larger than the largest of
250. `RoomAssumption`: a table is a count for each role. `SessionsAssumption`: the accounts that are there
from the start belong to mailboxes. `LegacyAssumption`: no two of them to one, as `users.email` is UNIQUE.
The bounds of section 4 (`MaxPrice`, `MaxControls`, `MaxCommands`, `MaxRequests`, `MaxCalls`,
`MaxUnread`...) are parameters of the theorems and any natural number (for some, any but 0) will do, so no
bound of a run restricts what is proved. Where a theorem has a hypothesis (`Settled`, `LockKept`, `Orderly`,
`~TimersOverlap`), it is one of the environment's constants of section 3, with the reason given there;
without it the runs `torn_sale` and `two_timers` violate the property, or, for the ledger, Redis loses data
next to a sale or a running room is started again. Where a property excepts a history (`mixed` of the floor
and of the page, `orderly`, `missed`, `slips`, `raced`, `crossed`, `parted`, `skewed`, `rewritten`), the
exception is part of the property and the theorem covers every behaviour.

Except for types, hardly any property is inductive by itself. Each inductive invariant was checked by TLC as
an invariant of the component's run before it was proved.

**The ledger.** `DeductKeepsRules` is the heart: what a purchase that `canBid` allows on a snapshot does to
each counter and to the wallet, for any amount. It rests on `TiersAgree`: the tier of the bid and that of
the sale are the same except strictly inside the last lakh below the two upper bounds; the sale and the
rebuild always agree, because both see whole lakhs. A slip is counted where a sale is made, so that a
counter exceeds its cap by at most the slips (`WithinCaps`); for whole lakhs (`WholeLakhsSameTier`) there
are none. `RebuildAfterSale` says that rebuilding from the rows with a sale added is the same as charging
the sale. The properties are not inductive: `LedgerInv` adds that the standing bid is still allowed on its
bidder's *exact* snapshot (`LeaderEligible`), that a franchise has at most one transaction in flight
(`OneRecordingEach`), how the database trails the sales (`DatabaseLags`), and that what a rebuild has read
is still true (`LoadersExact`). The aggregate counts of `RowsIn` are cardinalities of finite sets, so no
induction over data was needed.

**The pipeline.** `LockHeld`: a handler in its critical section owns the mirror's copy of
the lock — the copy `SET NX` is decided on; mutual exclusion follows. `PipelineInv` says where the
engine stands and what the keys hold there (`EnginePlace`), that every handler past validation carries
values that are still current (`FlightsValid`), that what it has written is what Redis holds
(`WritesLanded`), that amount and bidder belong together unless a handler is between the two writes
(`PairWhole`), that clients have been shown exactly the standing bid when nothing is in flight
(`ShownCurrent`) and that what the expiry read is still so (`ExpiryCurrent`). The refinement maps a lot
to the time from `PLAYER_UP` to its resolution; a bid is raised at its first `SET`, and until the second
lands its bidder is taken from the handler. The abstract module's operators come in through `INSTANCE`,
so `SameCanBid`, `SameDeduct` and `SameFullState` identify them with the pipeline's own. With
`DeductKeepsRules`, a sale within the rules at its moment (`SaleAdmitted`) makes the caps and solvency
invariants of the split protocol too (`FranchisesStayWithinRules`): the ledger has bid and sale in one step
each, the pipeline proves them for every interleaving of the real ones.

**The floor.** No assumption is left about the host. The invariant comes in layers, each saying what holds
until its overlaps. `Ground` (always): types, a cache that is all of the queue or missing, and at most one
`startTimer` waiting, with no interval in the map; `TimersStayOne` follows, and `FloorTyped` is proved
apart, without any assumption. `Order` (until `twice`): one run at a time is the engine's, every entry a run
or the interval carries is the one at the pointer (the one before it after `advanceQueuePosition`), which
row trails which announcement between the two writes of `advanceQueue`. `Bids` (until `twice` or `late`):
the standing bid, and each bid under way, is on the player the engine is about to resolve. `Frozen` (until
`pause`): from the moment a pause has stopped the clock until a resume, nothing is under way but the pause's
own writes, a resume or an end. `Going` (until `deadline` or `end`): an auction that is open has an interval
or a run that leads to one. `Over` (until `end`): a complete auction has neither. A host that extends,
pauses and resumes before the first player is up makes the state `bidding`; that no bid is then made on
nobody rests on the handler's own look at the current player (`auctionHandler.ts` 123-130).

**The switch.** `Armed`: a waiting room has a timeout that carries its token, or a call under way that will
arm one or end the wait. That a fresh token is really new (`NewTokenIsNew`) is a pigeonhole: each call
carries at most one, and the call that makes it carries none; in the code it is a UUID. For the properties
of an `orderly` history, `Phases` lists the four situations there are: at rest, window shut, one call that
leaves, the calls of one page that comes back. Through all of them `missed` is carried along: a window has
frozen seconds exactly if it is false, and after it is true the room is active without a countdown, whatever
its host does.

**The room.** `RaceSeen` and `Alone` tie the histories to what is under way. `Closed`, `Ready` and
`Released` say that a start which passed its check sees every change that was let in before it; `PastLobby`
that the status never returns. `Carried` says what the one request that is under way still brings to the
lobby pages, and is what `LobbyShown` needs. `PoolAlwaysFits` is arithmetic: the rounded quotas exceed the
target by at most two, and the two fill-ups never draw more than is left.

**The Redis client.** `Lands`: unless the copies may have parted, what the commands under way will leave in
Redis is the register. It is stated by position: the last write under way decides, or, without one, what is
stored (`Base`). `GetsLast` says that only reads come behind the last write, `HeldIsRemembered` that a
granted lock is in memory.

**The page.** The store is compared with the server only when nothing is under way, so the invariant has to
say what the unread events will make of it. `StoreLeads` asks for a trail, a function from 0 to the number of
unread events: the page's store now, after one event, after two, and so on, whose last point is the server's.
An event that is sent makes the trail longer by one, one that is delivered takes its first step off; no
recursion is needed. `Announces` does the same for the squads, as a subsequence of the events that are sales;
`SnapshotCounts` follows the counters, `Connection`, `DueFits` and `SalesBehind` the rest.

**The session.** `Registered`: accounts only grow, keep their address, and their addresses are normal and
distinct, so what a request found stays found (`RequestsRely`). `TokensNamed`, `SocketsPlaced` and
`PagesAgree`: unless the storage was rewritten under it, a page, its call and its socket took the one token
that is stored.

**Only model-checked.** `AuctionEnds`, `WindowDecided`, `NeverStuck`: the prover has no support for
`ENABLED` and fairness. `ColumnMeans`, `SeedIsIdempotent`, `TableSplits`, `LedgerBalances`,
`DetailIsComplete`: `History` and `Catalogue` fold over sequences, which would need induction over data. The
types of the page are proved as part of `ClientInv` (`Types`).

## 6. Disagreements between code and documentation

- **`torn_sale`.** `auctionHandler.ts` 176 says the bid is written "atomically". The pipeline of
  `redis/client.ts` 308-318 awaits each `SET` in turn, and the expiry takes no lock: between the first
  and the second `SET` it sells the player to the previous bidder at the new bidder's price, past the
  previous bidder's limits.
- **`held_lock`.** `tests/11_bidding_pipeline_mutex_and_salary_caps.test.ts` 176 says a released lock can
  be taken again. With Redis up the release script deletes the key in Redis only, while `SET NX` asks the
  mirror, which keeps it until its TTL of 5 s: every bid after the first is refused for that long.
- **`two_timers`.** `timerService.ts` 5 and 28-29 promise one timer per room through
  `this.timers.has(roomId)`. The check and `timers.set` are on two sides of an await; two overlapping
  calls leave an interval that nothing can clear and that fires every second after its deadline.
- **`skip_in_pause`.** `README.md` 246: skip "Immediately resolves the current player". During the pause
  after a sale the entry at the pointer is the next player, and the bid keys still hold the last sale: the
  next player is sold, without having been put up, to the last buyer at the last price.

## 7. What is not modelled

- **Rendering and layout**: the pages' markup, the countdown ring's seconds, the bid history feed, overlays
  and styling. What a page keeps and shows of the auction, the lobby and the session is modelled.
- **Rows nothing reads during an auction**: `bid_events`, `bids`, deadlines kept for display.
- **Ready states and the presence of managers other than the host**: no decision about the room reads them.
  The host's presence is in `HostDeadMan`, because the deferred check reads it.
- **A restart of the server**: the countdown's deadline survives in Redis, but no code reads it to go on.
- **A resolution that throws** (`auctionEngine.ts` 193 logs it) and **a second `startAuction`** of a running
  room: nothing says what should happen; `FranchiseLedger` has the second as `AllowRestart`.
- **Hashing, signing, wording and order of error messages**: a rejected request just ends with its kind.
- **Migrations and one-off scripts**, except the unique keys and the seed.
- **Wall-clock time**: abstract throughout; what must not overtake what is said at each module.

Behaviour met while modelling for which there is no run of its own; the modules have the steps, and the
properties of section 4 say which histories they except for it:

- **A bid that is not a whole number of lakhs** passes a tier cap: with the tier-20-25 places taken, 2499.5
  is `below15` to `canBid` and is charged as 2499, in that tier (1999.5 likewise, for 15-20). `README.md`
  224-225 says "between" the bounds and `bidEligibility.ts` 87 says "integer lakhs", which nothing checks.
  After 100.5 a bid of 100.2 is accepted, and what was shown as 100.5 is sold at 100. On a page it stands as
  it was sent until a state sync, whose snapshot is `parseInt` of it (`auctionHandler.ts` 321). (`slips`,
  `Whole`)
- **A bid in flight overrides a pause**: checked before, it writes `bidding` (`auctionHandler.ts` 180) and
  restarts the countdown (202) of an auction that `README.md` 190 ("Pause Freeze Guarantee") calls frozen.
  An extension while paused does the same on the server; the page disables its button then. (`pause`)
- **A pause between the deadline and the tick that notices it** clears the interval and stores nothing
  (`timerService.ts` 187-188). The state stays `bidding`, a resume finds no seconds, and until a skip or an
  extension nothing counts down; `README.md` 244 promises "the exact frozen seconds". (`deadline`)
- **A host lost at that moment** does the same to the window: nothing is frozen, and after the host's return
  the room is active without a countdown, its Redis state still `waiting_host`. (`missed`)
- **An End in the pause after a result** is undone: the engine wakes and writes `player_up` over `complete`,
  and a bid in flight writes `bidding` over it (`README.md` 247: "Concludes the auction early"). The page
  shows no host controls once the auction is complete, but the pause of 3 s comes before that. (`end`)
- A return of the host that overlaps the timeout undoes the termination (`hostDeadManService.ts` 121 and 138,
  against its lines 17-18); a host lost between two players is not frozen (57). (`orderly`)
- A completed room can be set to `waiting_host` and `active` by calls that read it before
  (`db/queries/rooms.ts` 145-146 says "Cannot go backwards").
- A lost connection empties the page's squads until it is mounted again (`useAuction.ts` 131).

## 8. Plan

Done: the rules, the ledger, the bid pipeline with its refinement, the floor, the switch, the room's life, the
Redis client, the client's store, sessions, history and the player table; and the proofs of every safety
property the runs check.

Worth doing next:

1. A refinement from the ledger: `FranchiseLedger` as an `AscendingAuction` too, so that both detailed modules are
   shown to implement the one abstract auction.
2. The safety halves of `WindowDecided` and `NeverStuck`: for each undecided state, that a fair action is there
   to take (as a step predicate, without `ENABLED`).
