---------------------------- MODULE AuctionFloor ----------------------------
(***************************************************************************)
(* The course of an auction: players put up in the order of the queue, a   *)
(* countdown for each, bids that restart it, its expiry, the pause after a *)
(* result, and the host's controls.                                        *)
(*                                                                         *)
(* Every timer callback, bid and host control is an asynchronous run of    *)
(* its own; runs interleave at their awaits and share Redis, the queue     *)
(* pointer in PostgreSQL and the process's map of intervals.  Neither a    *)
(* control nor an expiry looks at what else is under way.  A bid is two    *)
(* steps and its timer reset here; BidPipeline splits it further.          *)
(*                                                                         *)
(* startTimer looks for a running interval, awaits Redis, and installs its *)
(* own.  An interval that is replaced in the map without being cleared     *)
(* ticks on: its expiry clears whatever the map holds, never itself.       *)
(***************************************************************************)
EXTENDS Integers, FiniteSets, Sequences

CONSTANTS
    N,               \* players in the queue
    Franchises,
    Runs,            \* asynchronous runs that may be under way at once
    MaxPrice,        \* bound on the bids on one player
    MaxControls,     \* bound on the host's controls
    MaxOverlaps,     \* bound on the kinds of overlap after which bids and controls stop
    NoPlayer, NoBid, NoTimer,
    Requeue,         \* the callback that resolves whoever is at the pointer
    RequeueSoon,     \* the same, of a countdown that may be as short as a second
    TimersOverlap    \* a timer call may land in the await of a startTimer

ASSUME QueueAssumption ==
    /\ N \in Nat \ {0} /\ MaxPrice \in Nat \ {0}
    /\ MaxControls \in Nat /\ MaxOverlaps \in Nat

ASSUME RunsAssumption == Runs # {}

ASSUME FlagsAssumption == TimersOverlap \in BOOLEAN

Entries == 0 .. N - 1

ASSUME NamesAssumption ==
    /\ NoPlayer \notin Entries
    /\ NoTimer \notin Entries \cup {Requeue, RequeueSoon}
    /\ Requeue \notin Entries
    /\ RequeueSoon \notin Entries
    /\ NoBid \notin [player : Entries, price : 1 .. MaxPrice, bidder : Franchises]

VARIABLES
    position,       \* rooms.current_queue_position
    status,         \* auction_queue.status of each entry
    cache,          \* the queue in Redis, empty if it is missing
    currentPlayer, auctionState, standing,   \* Redis; standing: bid and bidder
    deadline,       \* the timer_deadline key is set to a time that may be ahead
    paused,         \* the timer_deadline:paused key is set
    handle,         \* the interval in the timer map, as its callback
    orphans,        \* the intervals that tick and are not in the map
    run,            \* the asynchronous runs
    sales,          \* the PLAYER_SOLD messages: history
    hammered,       \* how often each player was resolved: history
    mixed,          \* what has overlapped so far, see Overlap: history
    controls        \* how many controls the host has used

queue == <<position, status, cache>>
timer == <<deadline, paused, handle, orphans>>
history == <<sales, hammered>>
vars == <<queue, currentPlayer, auctionState, standing, timer, run, history,
          mixed, controls>>

Bids == [player : Entries, price : 1 .. MaxPrice, bidder : Franchises]

(* What an expired countdown resolves: the entry it was started for, or    *)
(* the one at the pointer by then.                                         *)
Callback == Entries \cup {Requeue, RequeueSoon}

Idle == [at |-> "idle"]

Run ==
    {Idle}
    \cup [at : {"expired", "start", "install"}, callback : Callback]
    \cup [at : {"resolving", "next"}, entry : Entries]
    \cup [at : {"resolved", "settled", "advanced"}, entry : Entries, bid : Bids \cup {NoBid}]
    \cup [at : {"asleep", "stopped", "frozen", "undated", "resuming", "ending"}]
    \cup [at : {"freeze"}, left : BOOLEAN]
    \cup [at : {"bidding"}, bid : Bids]

(* Runs that met at a moment at which the code does not keep them apart:   *)
(*   "twice":    a resolution began during another                         *)
(*   "late":     a bid already checked was not yet written when its player *)
(*               was resolved, or bids were let in again by a resume after *)
(*               that                                                      *)
(*   "pause":    a pause began next to any run, or an expiry, a bid or a   *)
(*               control during a pause, or an extension while paused      *)
(*   "deadline": a pause stopped a countdown with no seconds left          *)
(*   "end":      an End button began next to any run, or a control, a bid  *)
(*               or an expiry began at or after it, or the queue ran out   *)
(*               next to a run or a countdown                              *)
Overlap == {"twice", "late", "pause", "deadline", "end"}

TypeOK ==
    /\ position \in Nat
    /\ status \in [Entries -> {"pending", "active", "sold", "unsold"}]
    /\ cache \in Seq(Entries)
    /\ currentPlayer \in Entries \cup {NoPlayer}
    /\ auctionState \in {"idle", "player_up", "bidding", "paused", "sold", "unsold",
                         "complete"}
    /\ standing \in Bids \cup {NoBid}
    /\ deadline \in BOOLEAN
    /\ paused \in BOOLEAN
    /\ handle \in Callback \cup {NoTimer}
    /\ orphans \subseteq Callback
    /\ run \in [Runs -> Run]
    /\ sales \subseteq [entry : Entries, bid : Bids]
    /\ hammered \in [Entries -> Nat]
    /\ mixed \subseteq Overlap
    /\ controls \in 0 .. MaxControls

First == CHOOSE r \in Runs : TRUE

(* startAuction has filled the queue, reset the keys and calls             *)
(* advanceToNextPlayer.                                                    *)
Init ==
    /\ position = 0
    /\ status = [e \in Entries |-> "pending"]
    /\ cache = [i \in 1 .. N |-> i - 1]
    /\ currentPlayer = NoPlayer
    /\ auctionState = "idle"
    /\ standing = NoBid
    /\ deadline = FALSE
    /\ paused = FALSE
    /\ handle = NoTimer
    /\ orphans = {}
    /\ run = [r \in Runs |-> IF r = First THEN [at |-> "asleep"] ELSE Idle]
    /\ sales = {}
    /\ hammered = [e \in Entries |-> 0]
    /\ mixed = {}
    /\ controls = 0

-----------------------------------------------------------------------------
At(r, stage) == run[r].at = stage

Goto(r, next) == run' = [run EXCEPT ![r] = next]

(* Which of the free places a run takes makes no difference.               *)
Free == CHOOSE r \in Runs : run[r] = Idle

Spawn(first) == \E r \in Runs : run[r] = Idle /\ r = Free /\ Goto(r, first)

AllIdle == \A r \in Runs : run[r] = Idle

(* A run of the engine between an expiry and the startTimer for the next   *)
(* player.                                                                 *)
Resolving ==
    \E r \in Runs :
        \/ run[r].at \in {"expired", "resolving", "resolved", "settled", "advanced",
                          "asleep", "next"}
        \/ At(r, "start") /\ run[r].callback \in Entries

(* A startTimer is waiting for Redis.                                      *)
Installing == \E r \in Runs : At(r, "install")

TimerFree == TimersOverlap \/ ~Installing

(* The bound on what is explored: bids and controls may begin.             *)
Exploring == Cardinality(mixed) =< MaxOverlaps

(* A pauseTimer, or an End, is under way.                                  *)
Pausing == \E r \in Runs : run[r].at \in {"freeze", "stopped", "frozen", "undated"}
Ending == \E r \in Runs : At(r, "ending")

(* A bid has been checked and is not yet written.                          *)
BidInFlight == \E r \in Runs : At(r, "bidding")

When(condition, overlap) == IF condition THEN {overlap} ELSE {}

-----------------------------------------------------------------------------
(* The queue *)

(* Fault: only the players still to come. *)
RebuildPending ==
    LET rows == [i \in 1 .. N |-> i - 1]
        ToCome(e) == status[e] = "pending"
    IN  SelectSeq(rows, ToCome)

(* Every row of auction_queue, in the order of its position.               *)
Rebuild == [i \in 1 .. N |-> i - 1]

(* getNextPlayer reads the queue through the cache and leaves it there.    *)
Queue == IF cache = <<>> THEN Rebuild ELSE cache

Exhausted == position >= Len(Queue)

NextEntry == Queue[position + 1]

(* The key lives 24 h, less when Redis is restarted or short of memory.    *)
Evict ==
    /\ cache # <<>>
    /\ cache' = <<>>
    /\ UNCHANGED <<position, status, currentPlayer, auctionState, standing, timer, run,
                   history, mixed, controls>>

-----------------------------------------------------------------------------
(* The countdown *)

(* The interval's last tick: clearTimer stops the interval in the map.     *)
(* While a player is resolved or put up, the interval in the map does not  *)
(* run out: its 10 s or more outlast the pauses of 3 s and 5 s after which *)
(* the engine replaces it.  Only a resumed countdown may be shorter.       *)
Fire(c) ==
    /\ \/ c = handle /\ (Resolving => c = RequeueSoon)
       \/ c \in orphans
    /\ TimerFree
    /\ handle' = NoTimer
    /\ mixed' = mixed \cup When(Resolving, "twice") \cup When(Pausing, "pause")
                     \cup When(Ending, "end")
    /\ Spawn([at |-> "expired", callback |-> c])
    /\ UNCHANGED <<queue, currentPlayer, auctionState, standing, deadline, paused,
                   orphans, history, controls>>

(* The deadline key is deleted and the callback finds its entry.           *)
Expire(r) ==
    /\ At(r, "expired")
    /\ deadline' = FALSE
    /\ LET c == run[r].callback
       IN  /\ Goto(r, IF c \in Entries THEN [at |-> "resolving", entry |-> c]
                      ELSE IF Exhausted THEN Idle
                      ELSE [at |-> "resolving", entry |-> NextEntry])
           /\ cache' = IF c \in Entries THEN cache ELSE Queue
    /\ UNCHANGED <<position, status, currentPlayer, auctionState, standing, paused, handle,
                   orphans, history, mixed, controls>>

(* Fault: the running interval is not looked for. *)
StartTimerBlindly(r) ==
    /\ At(r, "start")
    /\ TimerFree
    /\ Goto(r, [at |-> "install", callback |-> run[r].callback])
    /\ UNCHANGED <<queue, currentPlayer, auctionState, standing, timer,
                   history, mixed, controls>>

(* startTimer up to its await *)
StartTimer(r) ==
    /\ At(r, "start")
    /\ TimerFree
    /\ handle' = NoTimer
    /\ Goto(r, [at |-> "install", callback |-> run[r].callback])
    /\ UNCHANGED <<queue, currentPlayer, auctionState, standing, deadline, paused,
                   orphans, history, mixed, controls>>

(* ... and after it *)
Install(r) ==
    /\ At(r, "install")
    /\ deadline' = TRUE
    /\ orphans' = IF handle = NoTimer THEN orphans ELSE orphans \cup {handle}
    /\ handle' = run[r].callback
    /\ Goto(r, Idle)
    /\ UNCHANGED <<queue, currentPlayer, auctionState, standing, paused,
                   history, mixed, controls>>

-----------------------------------------------------------------------------
(* The engine *)

(* handleTimerExpiry and the first steps of a resolution.  The bidder has  *)
(* its member row: no row is deleted once the room has left the lobby.     *)
Resolve(r) ==
    /\ At(r, "resolving")
    /\ auctionState' = IF standing # NoBid THEN "sold" ELSE "unsold"
    /\ mixed' = mixed \cup When(BidInFlight, "late")
    /\ Goto(r, [at |-> "resolved", entry |-> run[r].entry, bid |-> standing])
    /\ UNCHANGED <<queue, currentPlayer, standing, timer, history, controls>>

(* resolveQueueEntry: the entry's row gets its outcome.                    *)
Settle(r) ==
    /\ At(r, "resolved")
    /\ status' = [status EXCEPT ![run[r].entry] =
                    IF run[r].bid = NoBid THEN "unsold" ELSE "sold"]
    /\ Goto(r, [run[r] EXCEPT !.at = "settled"])
    /\ UNCHANGED <<position, cache, currentPlayer, auctionState, standing, timer, history, mixed,
                   controls>>

(* advanceQueuePosition *)
Advance(r) ==
    /\ At(r, "settled")
    /\ position' = position + 1
    /\ hammered' = [hammered EXCEPT ![run[r].entry] = @ + 1]
    /\ Goto(r, [run[r] EXCEPT !.at = "advanced"])
    /\ UNCHANGED <<status, cache, currentPlayer, auctionState, standing, timer, sales,
                   mixed, controls>>

(* The rest of advanceQueue: the next entry is read and its row marked     *)
(* active; then PLAYER_SOLD or PLAYER_UNSOLD, and the pause.               *)
MarkNext(r) ==
    /\ At(r, "advanced")
    /\ cache' = Queue
    /\ status' = IF Exhausted THEN status ELSE [status EXCEPT ![NextEntry] = "active"]
    /\ sales' = IF run[r].bid = NoBid THEN sales
                ELSE sales \cup {[entry |-> run[r].entry, bid |-> run[r].bid]}
    /\ Goto(r, [at |-> "asleep"])
    /\ UNCHANGED <<position, currentPlayer, auctionState, standing, timer, hammered,
                   mixed, controls>>

(* Fault: off by one at the end of the queue. *)
WakeLate(r) ==
    /\ At(r, "asleep")
    /\ position =< Len(Queue)
    /\ cache' = Queue
    /\ Goto(r, [at |-> "next", entry |-> position])
    /\ UNCHANGED <<position, status, currentPlayer, auctionState, standing, timer,
                   history, mixed, controls>>

(* advanceToNextPlayer: getNextPlayer, and the interstitial of a phase     *)
(* transition, after which it goes on with the entry it has.               *)
Wake(r) ==
    /\ At(r, "asleep")
    /\ ~Exhausted
    /\ cache' = Queue
    /\ Goto(r, [at |-> "next", entry |-> NextEntry])
    /\ UNCHANGED <<position, status, currentPlayer, auctionState, standing, timer,
                   history, mixed, controls>>

OtherBusy(r) == \E q \in Runs \ {r} : run[q] # Idle

(* Fault: off by one at the end of the queue. *)
CompleteLate(r) ==
    /\ At(r, "asleep")
    /\ position > Len(Queue)
    /\ cache' = Queue
    /\ auctionState' = "complete"
    /\ mixed' = mixed \cup When(handle # NoTimer \/ OtherBusy(r), "end")
    /\ Goto(r, Idle)
    /\ UNCHANGED <<position, status, currentPlayer, standing, timer, history, controls>>

(* endAuction at the end of the queue *)
Complete(r) ==
    /\ At(r, "asleep")
    /\ Exhausted
    /\ cache' = Queue
    /\ auctionState' = "complete"
    /\ mixed' = mixed \cup When(handle # NoTimer \/ OtherBusy(r), "end")
    /\ Goto(r, Idle)
    /\ UNCHANGED <<position, status, currentPlayer, standing, timer, history, controls>>

(* Fault: the last player's bid stays. *)
PutUpOnly(r) ==
    /\ At(r, "next")
    /\ currentPlayer' = run[r].entry
    /\ auctionState' = "player_up"
    /\ Goto(r, [at |-> "start", callback |-> run[r].entry])
    /\ UNCHANGED <<queue, standing, timer, history, mixed, controls>>

PutUp(r) ==
    /\ At(r, "next")
    /\ currentPlayer' = run[r].entry
    /\ auctionState' = "player_up"
    /\ standing' = NoBid
    /\ Goto(r, [at |-> "start", callback |-> run[r].entry])
    /\ UNCHANGED <<queue, timer, history, mixed, controls>>

-----------------------------------------------------------------------------
(* The managers *)

Rises(price) == standing # NoBid => price > standing.price

(* A bid on the player that is up has passed every check but the last.     *)
Check(f) ==
    /\ currentPlayer # NoPlayer
    /\ auctionState \in {"player_up", "bidding"}
    /\ Exploring
    /\ \E price \in 1 .. MaxPrice :
          /\ Rises(price)
          /\ Spawn([at |-> "bidding",
                    bid |-> [player |-> currentPlayer, price |-> price, bidder |-> f]])
    /\ mixed' = mixed \cup When(Pausing, "pause") \cup When(Ending, "end")
    /\ UNCHANGED <<queue, currentPlayer, auctionState, standing, timer, history, controls>>

(* Under the lock only the amount is checked again; the bid is written and *)
(* its timer reset is on the way.                                          *)
Write(r) ==
    /\ At(r, "bidding")
    /\ IF Rises(run[r].bid.price)
       THEN /\ standing' = run[r].bid
            /\ auctionState' = "bidding"
            /\ Goto(r, [at |-> "start", callback |-> Requeue])
       ELSE /\ Goto(r, Idle)
            /\ UNCHANGED <<standing, auctionState>>
    /\ UNCHANGED <<queue, currentPlayer, timer, history, mixed, controls>>

-----------------------------------------------------------------------------
(* The host's controls.  None of them looks at the auction state or at     *)
(* what is under way: mixed only notes it.                                 *)

Control(overlap) ==
    /\ controls < MaxControls
    /\ Exploring
    /\ controls' = controls + 1
    /\ mixed' = mixed \cup overlap \cup When(Pausing, "pause")
                     \cup When(Ending \/ auctionState = "complete", "end")

(* pauseTimer reads the remaining seconds, frozen already or up to the     *)
(* deadline, which may have passed since it was set ...                    *)
Pause ==
    /\ Control(When(~AllIdle, "pause"))
    /\ \E ahead \in {deadline, FALSE} :
          /\ Spawn([at |-> "freeze", left |-> paused \/ ahead])
          /\ deadline' = IF paused THEN deadline ELSE ahead
    /\ UNCHANGED <<queue, currentPlayer, auctionState, standing, paused, handle, orphans,
                   history>>

(* Fault: the interval is not cleared. *)
StopNothing(r) ==
    /\ At(r, "freeze")
    /\ TimerFree
    /\ Goto(r, IF run[r].left THEN [at |-> "stopped"] ELSE Idle)
    /\ mixed' = mixed \cup When(~run[r].left /\ handle # NoTimer, "deadline")
    /\ UNCHANGED <<queue, currentPlayer, auctionState, standing, timer, history, controls>>

(* ... stops the clock, and is done if there are none; otherwise it stores *)
(* them, deletes the deadline and sets the state, with an await each.      *)
Stop(r) ==
    /\ At(r, "freeze")
    /\ TimerFree
    /\ handle' = NoTimer
    /\ Goto(r, IF run[r].left THEN [at |-> "stopped"] ELSE Idle)
    /\ mixed' = mixed \cup When(~run[r].left /\ handle # NoTimer, "deadline")
    /\ UNCHANGED <<queue, currentPlayer, auctionState, standing, deadline, paused,
                   orphans, history, controls>>

Freeze(r) ==
    /\ At(r, "stopped")
    /\ paused' = TRUE
    /\ Goto(r, [at |-> "frozen"])
    /\ UNCHANGED <<queue, currentPlayer, auctionState, standing, deadline, handle, orphans,
                   history, mixed, controls>>

Forget(r) ==
    /\ At(r, "frozen")
    /\ deadline' = FALSE
    /\ Goto(r, [at |-> "undated"])
    /\ UNCHANGED <<queue, currentPlayer, auctionState, standing, paused, handle, orphans,
                   history, mixed, controls>>

MarkPaused(r) ==
    /\ At(r, "undated")
    /\ auctionState' = "paused"
    /\ Goto(r, Idle)
    /\ UNCHANGED <<queue, currentPlayer, standing, timer, history, mixed, controls>>

(* resumeTimer finds seconds that were frozen ...                          *)
Resume ==
    /\ paused
    /\ Control({})
    /\ Spawn([at |-> "resuming"])
    /\ UNCHANGED <<queue, currentPlayer, auctionState, standing, timer, history>>

(* Fault: the countdown is not started again. *)
UnfreezeKeys(r) ==
    /\ At(r, "resuming")
    /\ paused' = FALSE
    /\ auctionState' = "bidding"
    /\ mixed' = mixed \cup When(Resolving, "late")
    /\ Goto(r, Idle)
    /\ UNCHANGED <<queue, currentPlayer, standing, deadline, handle, orphans, history,
                   controls>>

(* ... deletes them, lets bids in and starts a countdown of as many.       *)
Unfreeze(r) ==
    /\ At(r, "resuming")
    /\ paused' = FALSE
    /\ auctionState' = "bidding"
    /\ mixed' = mixed \cup When(Resolving, "late")
    /\ Goto(r, [at |-> "start", callback |-> RequeueSoon])
    /\ UNCHANGED <<queue, currentPlayer, standing, deadline, handle, orphans, history,
                   controls>>

(* The timer is cleared, and the entry at the pointer resolved as if it    *)
(* had expired.                                                            *)
Skip ==
    /\ Control(When(Resolving, "twice"))
    /\ TimerFree
    /\ handle' = NoTimer
    /\ paused' = FALSE
    /\ Spawn([at |-> "expired", callback |-> Requeue])
    /\ UNCHANGED <<queue, currentPlayer, auctionState, standing, deadline, orphans, history>>

Extend ==
    /\ Control(When(paused, "pause"))
    /\ Spawn([at |-> "start", callback |-> Requeue])
    /\ UNCHANGED <<queue, currentPlayer, auctionState, standing, timer, history>>

(* Fault: the countdown runs on. *)
EndKeys ==
    /\ Control(When(~AllIdle, "end"))
    /\ Spawn([at |-> "ending"])
    /\ UNCHANGED <<queue, currentPlayer, auctionState, standing, timer, history>>

(* The timer is cleared ...                                                *)
End ==
    /\ Control(When(~AllIdle, "end"))
    /\ TimerFree
    /\ handle' = NoTimer
    /\ Spawn([at |-> "ending"])
    /\ UNCHANGED <<queue, currentPlayer, auctionState, standing, deadline, paused, orphans,
                   history>>

(* ... the keys of the countdown deleted, and the auction is over.         *)
Finish(r) ==
    /\ At(r, "ending")
    /\ deadline' = FALSE
    /\ paused' = FALSE
    /\ auctionState' = "complete"
    /\ Goto(r, Idle)
    /\ UNCHANGED <<queue, currentPlayer, standing, handle, orphans, history, mixed,
                   controls>>

-----------------------------------------------------------------------------
RunStep(r) ==
    \/ Expire(r)
    \/ StartTimer(r)
    \/ Install(r)
    \/ Resolve(r)
    \/ Settle(r)
    \/ Advance(r)
    \/ MarkNext(r)
    \/ Wake(r)
    \/ Complete(r)
    \/ PutUp(r)
    \/ Write(r)
    \/ Stop(r)
    \/ Freeze(r)
    \/ Forget(r)
    \/ MarkPaused(r)
    \/ Unfreeze(r)
    \/ Finish(r)

Controls == Pause \/ Resume \/ Skip \/ Extend \/ End

Next ==
    \/ \E c \in Callback : Fire(c)
    \/ \E r \in Runs : RunStep(r)
    \/ \E f \in Franchises : Check(f)
    \/ Controls
    \/ Evict

(* A run goes on, and an interval ticks until it is cleared.  Nobody has   *)
(* to bid or to use a control.                                             *)
Fairness ==
    /\ \A r \in Runs : WF_vars(RunStep(r))
    /\ WF_vars(\E c \in Callback : Fire(c))

Spec == Init /\ [][Next]_vars /\ Fairness

-----------------------------------------------------------------------------
(* timerService.ts, its header: one timer per room at any time.  No        *)
(* interval ticks that clearTimer cannot stop.                             *)
OneTimer == orphans = {}

(* advanceQueue: every player before the pointer was resolved exactly      *)
(* once, and none from the pointer on, though the queue is lost from Redis *)
(* and rebuilt; between two resolutions the rows say what was announced.   *)
(* Unless a resolution began during another, whatever else overlapped.     *)
ResolvedInOrder ==
    "twice" \notin mixed =>
        /\ \A e \in Entries : hammered[e] = IF e < position THEN 1 ELSE 0
        /\ ~Resolving =>
              \A e \in Entries :
                  status[e] = IF e > position THEN "pending"
                              ELSE IF e = position
                                   THEN IF e = 0 THEN "pending" ELSE "active"
                              ELSE IF \E s \in sales : s.entry = e THEN "sold"
                              ELSE "unsold"

OwnBids == \A s \in sales : s.bid.player = s.entry

(* processPlayerSold: a player is sold only on a bid made on that player,  *)
(* whatever controls are used at whatever moment, unless a resolution      *)
(* began during another or while a bid on the player was being written.    *)
SoldOnOwnBid == mixed \cap {"twice", "late"} = {} => OwnBids

(* README: a skip resolves the current player.  A skip that begins during  *)
(* a resolution, and nothing else that overlaps, makes no sale on another  *)
(* player's bid.                                                           *)
SkipKeepsToCurrent == mixed \subseteq {"twice"} => OwnBids

(* pauseTimer: while the remaining seconds are frozen nothing counts down, *)
(* and nothing under way can resolve the player, write a bid or start a    *)
(* countdown other than the resume's; unless a pause met another run or    *)
(* the host extended the pause.                                            *)
PausedIsFrozen ==
    paused /\ "pause" \notin mixed =>
        /\ handle = NoTimer /\ orphans = {}
        /\ \A r \in Runs : run[r].at \in {"idle", "frozen", "undated", "freeze", "stopped",
                                          "resuming", "ending"}
        /\ ~Pausing => auctionState = "paused"

(* An auction that is neither over nor paused has a countdown, or a run    *)
(* that leads to one, unless a pause stopped a countdown that had just run *)
(* out, or an end overlapped something.                                    *)
NeverStalls ==
    /\ auctionState # "complete"
    /\ ~paused
    /\ mixed \cap {"deadline", "end"} = {}
    => handle # NoTimer \/ ~AllIdle

(* endAuction: what is complete is not taken up again, unless the end met  *)
(* another run.                                                            *)
CompleteIsFinal ==
    [][auctionState = "complete" /\ "end" \notin mixed => auctionState' = "complete"]_vars

(* However bids, expiries and controls interleave, the auction is over in  *)
(* the end unless the host leaves it paused, a pause found no seconds to   *)
(* freeze, or an end overlapped something.                                 *)
AuctionEnds ==
    \/ <>[](auctionState = "complete")
    \/ <>[]paused
    \/ <>(mixed \cap {"deadline", "end"} # {})
=============================================================================
