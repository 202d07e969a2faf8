------------------------- MODULE AuctionFloorProofs -------------------------
(***************************************************************************)
(* The floor's safety for every queue, every set of franchises, any number *)
(* of asynchronous runs and any bound on the host's controls, which may    *)
(* come at any moment.  All but the types assume that no timer call lands  *)
(* in the await of a startTimer; what else must not have overlapped is     *)
(* each property's own condition on mixed.                                 *)
(*                                                                         *)
(* The invariants are proved one by one, each from Ground (types, the      *)
(* queue and the one interval) and at most one other:                      *)
(*   Order:  one run at a time is the engine's, every entry a run or an    *)
(*           interval carries is the one at the pointer, and the rows of   *)
(*           the queue follow;                                             *)
(*   Bids:   between a result and the next player no bid is let in or on   *)
(*           its way, and otherwise every bid is on the player at the      *)
(*           pointer (from Order);                                         *)
(*   Frozen: a pause under way is alone and its clock is stopped;          *)
(*   Over:   an end under way is alone, and nothing is left after it;      *)
(*   Going:  something leads on to the next result, or to the end of the   *)
(*           queue (from Over).                                            *)
(***************************************************************************)
EXTENDS AuctionFloor, SequenceTheorems, TLAPS

EngineStages == {"expired", "resolving", "resolved", "settled", "advanced", "asleep", "next"}

(* From the result to the next player *)
Between == {"resolved", "settled", "advanced", "asleep", "next"}

PauseStages == {"freeze", "stopped", "frozen", "undated"}

OtherStages == {"idle", "start", "install", "bidding", "resuming", "ending"} \cup PauseStages

OfEngine(r) ==
    run[r].at \in EngineStages \/ (At(r, "start") /\ run[r].callback \in Entries)

QueueWhole == cache = <<>> \/ cache = Rebuild

(* One startTimer waits for Redis at a time, with no interval in the map.  *)
OneInstall ==
    /\ orphans = {}
    /\ \A r, s \in Runs : At(r, "install") /\ At(s, "install") => r = s
    /\ Installing => handle = NoTimer

Ground == TypeOK /\ QueueWhole /\ OneInstall

-----------------------------------------------------------------------------
(* The steps, each with the run that makes it and what becomes of the run. *)

Moved(r, x) ==
    /\ run' \in [Runs -> Run]
    /\ \A s \in Runs : run'[s] = IF s = r THEN x ELSE run[s]

EngineStep(r, x) ==
    \/ Expire(r) /\ (x = Idle \/ \E e \in Entries : x = [at |-> "resolving", entry |-> e])
    \/ Resolve(r) /\ x = [at |-> "resolved", entry |-> run[r].entry, bid |-> standing]
    \/ Settle(r) /\ x = [at |-> "settled", entry |-> run[r].entry, bid |-> run[r].bid]
    \/ Advance(r) /\ x = [at |-> "advanced", entry |-> run[r].entry, bid |-> run[r].bid]
    \/ MarkNext(r) /\ x = [at |-> "asleep"]
    \/ Wake(r) /\ x = [at |-> "next", entry |-> NextEntry]
    \/ Complete(r) /\ x = Idle
    \/ PutUp(r) /\ x = [at |-> "start", callback |-> run[r].entry]

(* An expiry and a skip begin a resolution. *)
Begin(r, x) ==
    /\ run[r] = Idle
    /\ \/ \E c \in Callback : Fire(c) /\ x = [at |-> "expired", callback |-> c]
       \/ Skip /\ x = [at |-> "expired", callback |-> Requeue]

ClockStep(r, x) ==
    \/ StartTimer(r) /\ x = [at |-> "install", callback |-> run[r].callback]
    \/ Install(r) /\ x = Idle

(* The steps that neither resolve a player nor put one up nor start a      *)
(* countdown *)
SideStep(r, x) ==
    \/ /\ run[r] = Idle
       /\ \/ \E f \in Franchises, bid \in Bids :
                /\ Check(f) /\ bid.player = currentPlayer
                /\ x = [at |-> "bidding", bid |-> bid]
          \/ \E left \in BOOLEAN :
                /\ Pause /\ (paused => left)
                /\ x = [at |-> "freeze", left |-> left]
          \/ Resume /\ x = [at |-> "resuming"]
          \/ Extend /\ x = [at |-> "start", callback |-> Requeue]
          \/ End /\ x = [at |-> "ending"]
    \/ Write(r) /\ x \in {Idle, [at |-> "start", callback |-> Requeue]}
    \/ Stop(r) /\ x = IF run[r].left THEN [at |-> "stopped"] ELSE Idle
    \/ Freeze(r) /\ x = [at |-> "frozen"]
    \/ Forget(r) /\ x = [at |-> "undated"]
    \/ MarkPaused(r) /\ x = Idle
    \/ Unfreeze(r) /\ x = [at |-> "start", callback |-> RequeueSoon]
    \/ Finish(r) /\ x = Idle

Step(r, x) == EngineStep(r, x) \/ Begin(r, x) \/ ClockStep(r, x) \/ SideStep(r, x)

(* What a run carries at each of its stages *)
LEMMA RunFields ==
  ASSUME run \in [Runs -> Run], NEW r \in Runs
  PROVE  /\ run[r].at \in EngineStages \cup OtherStages
         /\ run[r].at = "idle" <=> run[r] = Idle
         /\ run[r].at \in {"expired", "start", "install"} => run[r].callback \in Callback
         /\ run[r].at \in {"resolving", "resolved", "settled", "advanced", "next"}
               => run[r].entry \in Entries
         /\ run[r].at \in {"resolved", "settled", "advanced"}
               => /\ run[r].bid \in Bids \cup {NoBid}
                  /\ \A stage : [run[r] EXCEPT !.at = stage]
                         = [at |-> stage, entry |-> run[r].entry, bid |-> run[r].bid]
         /\ At(r, "freeze") => run[r].left \in BOOLEAN
         /\ At(r, "bidding") => run[r].bid \in Bids
  <1>1. run[r] \in Run
    OBVIOUS
  <1> QED
    BY <1>1 DEF Run, Idle, EngineStages, OtherStages, PauseStages, At

LEMMA GotoMoves ==
  ASSUME run \in [Runs -> Run], NEW r \in Runs, NEW x \in Run, Goto(r, x)
  PROVE  Moved(r, x)
  BY DEF Goto, Moved

(* A new run takes an idle place. *)
LEMMA SpawnMoves ==
  ASSUME run \in [Runs -> Run], NEW x \in Run, Spawn(x)
  PROVE  \E r \in Runs : run[r] = Idle /\ Moved(r, x)
  BY GotoMoves DEF Spawn

(* The queue read through the cache has entries only, whatever it has lost. *)
LEMMA QueueTyped ==
  ASSUME TypeOK
  PROVE  Queue \in Seq(Entries) /\ (~Exhausted => NextEntry \in Entries)
  <1>1. N \in Nat \ {0} /\ position \in Nat /\ cache \in Seq(Entries)
    BY QueueAssumption DEF TypeOK
  <1>2. Rebuild \in [1 .. N -> Entries]
    BY <1>1 DEF Rebuild, Entries
  <1>3. Rebuild \in Seq(Entries)
    BY <1>1, <1>2
  <1>4. Queue \in Seq(Entries)
    BY <1>1, <1>3 DEF Queue
  <1>5. ASSUME ~Exhausted PROVE NextEntry \in Entries
    <2>1. Len(Queue) \in Nat /\ position < Len(Queue)
      BY <1>1, <1>4, <1>5 DEF Exhausted
    <2>2. position + 1 \in 1 .. Len(Queue)
      BY <1>1, <2>1
    <2> QED
      BY <1>4, <2>2 DEF NextEntry
  <1> QED
    BY <1>4, <1>5

(* A queue that has lost nothing is the whole queue. *)
LEMMA QueueRead ==
  ASSUME TypeOK, QueueWhole
  PROVE  /\ Queue = Rebuild
         /\ Exhausted <=> position >= N
         /\ position < N => NextEntry = position /\ position \in Entries
  <1>1. N \in Nat \ {0} /\ position \in Nat
    BY QueueAssumption DEF TypeOK
  <1>2. Rebuild \in [1 .. N -> Entries]
    BY <1>1 DEF Rebuild, Entries
  <1>3. Queue = Rebuild
    BY DEF Queue, QueueWhole
  <1>4. Rebuild \in Seq(Entries) /\ Len(Rebuild) = N
    BY <1>1, <1>2
  <1>5. position < N => Rebuild[position + 1] = position /\ position \in Entries
    BY <1>1 DEF Rebuild, Entries
  <1> QED
    BY <1>1, <1>3, <1>4, <1>5 DEF Exhausted, NextEntry

(* Every step but an eviction moves one run. *)
LEMMA StepMoves ==
  ASSUME TypeOK, Next
  PROVE  Evict \/ \E r \in Runs, x \in Run : Moved(r, x) /\ Step(r, x)
  <1> USE DEF At
  <1> SUFFICES ASSUME ~Evict
               PROVE  \E r \in Runs, x \in Run : Moved(r, x) /\ Step(r, x)
    OBVIOUS
  <1>1. run \in [Runs -> Run] /\ Idle \in Run
    BY DEF TypeOK, Run
  <1>2. ASSUME NEW x \in Run, NEW r \in Runs, Goto(r, x), Step(r, x)
        PROVE  \E s \in Runs, y \in Run : Moved(s, y) /\ Step(s, y)
    BY <1>1, <1>2, GotoMoves
  <1>3. /\ [at |-> "start", callback |-> Requeue] \in Run
        /\ [at |-> "start", callback |-> RequeueSoon] \in Run
        /\ [at |-> "expired", callback |-> Requeue] \in Run
        /\ \A stage \in {"asleep", "stopped", "frozen", "undated", "resuming", "ending"} :
              [at |-> stage] \in Run
    BY DEF Run, Callback
  <1>4. CASE \E c \in Callback : Fire(c)
    <2>1. PICK c \in Callback : Fire(c)
      BY <1>4
    <2>2. [at |-> "expired", callback |-> c] \in Run
      BY DEF Run
    <2> QED
      BY <1>1, <2>1, <2>2, SpawnMoves DEF Fire, Step, Begin
  <1>5. CASE \E f \in Franchises : Check(f)
    <2>1. PICK f \in Franchises : Check(f)
      BY <1>5
    <2>2. currentPlayer \in Entries
      BY <2>1 DEF Check, TypeOK
    <2>3. PICK price \in 1 .. MaxPrice :
             Spawn([at |-> "bidding",
                    bid |-> [player |-> currentPlayer, price |-> price, bidder |-> f]])
      BY <2>1 DEF Check
    <2>4. PICK bid : bid = [player |-> currentPlayer, price |-> price, bidder |-> f]
      OBVIOUS
    <2>5. bid \in Bids /\ bid.player = currentPlayer
      BY <2>2, <2>4 DEF Bids
    <2>6. [at |-> "bidding", bid |-> bid] \in Run
      BY <2>5 DEF Run
    <2>7. PICK r \in Runs : run[r] = Idle /\ Moved(r, [at |-> "bidding", bid |-> bid])
      BY <1>1, <2>3, <2>4, <2>6, SpawnMoves
    <2> QED
      BY <2>1, <2>5, <2>6, <2>7 DEF Step, SideStep
  <1>6. CASE Pause
    <2>1. PICK ahead \in {deadline, FALSE} : Spawn([at |-> "freeze", left |-> paused \/ ahead])
      BY <1>6 DEF Pause
    <2>2. PICK left \in BOOLEAN : (paused => left) /\ left = (paused \/ ahead)
      BY DEF TypeOK
    <2>3. [at |-> "freeze", left |-> left] \in Run
      BY DEF Run
    <2>4. PICK r \in Runs : run[r] = Idle /\ Moved(r, [at |-> "freeze", left |-> left])
      BY <1>1, <2>1, <2>2, <2>3, SpawnMoves
    <2> QED
      BY <1>6, <2>2, <2>3, <2>4 DEF Step, SideStep
  <1>7. CASE Resume
    BY <1>1, <1>3, <1>7, SpawnMoves DEF Resume, Step, SideStep
  <1>8. CASE Extend
    BY <1>1, <1>3, <1>8, SpawnMoves DEF Extend, Step, SideStep
  <1>9. CASE End
    BY <1>1, <1>3, <1>9, SpawnMoves DEF End, Step, SideStep
  <1>10. CASE Skip
    BY <1>1, <1>3, <1>10, SpawnMoves DEF Skip, Step, Begin
  <1>11. ASSUME NEW r \in Runs, Expire(r)
         PROVE  \E s \in Runs, y \in Run : Moved(s, y) /\ Step(s, y)
    <2>1. run[r].callback \in Callback
      BY <1>1, <1>11, RunFields DEF Expire
    <2>2. \/ Goto(r, Idle)
          \/ \E e \in Entries : Goto(r, [at |-> "resolving", entry |-> e])
      <3>1. CASE run[r].callback \in Entries
        BY <1>11, <3>1 DEF Expire
      <3>2. CASE run[r].callback \notin Entries
        BY <1>11, <3>2, QueueTyped DEF Expire
      <3> QED
        BY <3>1, <3>2
    <2>3. \A e \in Entries : [at |-> "resolving", entry |-> e] \in Run
      BY DEF Run
    <2> QED
      BY <1>1, <1>2, <1>11, <2>2, <2>3 DEF Step, EngineStep
  <1>12. ASSUME NEW r \in Runs, StartTimer(r) \/ Install(r)
         PROVE  \E s \in Runs, y \in Run : Moved(s, y) /\ Step(s, y)
    <2>1. run[r].callback \in Callback
      BY <1>1, <1>12, RunFields DEF StartTimer, Install
    <2>2. [at |-> "install", callback |-> run[r].callback] \in Run
      BY <2>1 DEF Run
    <2> QED
      BY <1>1, <1>2, <1>12, <2>2 DEF StartTimer, Install, Step, ClockStep
  <1>13. ASSUME NEW r \in Runs, Resolve(r) \/ Settle(r) \/ Advance(r)
         PROVE  \E s \in Runs, y \in Run : Moved(s, y) /\ Step(s, y)
    <2>1. CASE Resolve(r)
      <3>1. run[r].entry \in Entries
        BY <1>1, <2>1, RunFields DEF Resolve
      <3>2. [at |-> "resolved", entry |-> run[r].entry, bid |-> standing] \in Run
        BY <3>1 DEF Run, TypeOK
      <3> QED
        BY <1>2, <2>1, <3>2 DEF Resolve, Step, EngineStep
    <2>2. CASE Settle(r) \/ Advance(r)
      <3>1. /\ run[r].entry \in Entries /\ run[r].bid \in Bids \cup {NoBid}
            /\ \A stage : [run[r] EXCEPT !.at = stage]
                   = [at |-> stage, entry |-> run[r].entry, bid |-> run[r].bid]
        BY <1>1, <2>2, RunFields DEF Settle, Advance
      <3>2. /\ [at |-> "settled", entry |-> run[r].entry, bid |-> run[r].bid] \in Run
            /\ [at |-> "advanced", entry |-> run[r].entry, bid |-> run[r].bid] \in Run
        BY <3>1 DEF Run
      <3>3. CASE Settle(r)
        <4>1. Goto(r, [at |-> "settled", entry |-> run[r].entry, bid |-> run[r].bid])
          BY <3>1, <3>3 DEF Settle
        <4> QED
          BY <1>2, <3>2, <3>3, <4>1 DEF Step, EngineStep
      <3>4. CASE Advance(r)
        <4>1. Goto(r, [at |-> "advanced", entry |-> run[r].entry, bid |-> run[r].bid])
          BY <3>1, <3>4 DEF Advance
        <4> QED
          BY <1>2, <3>2, <3>4, <4>1 DEF Step, EngineStep
      <3> QED
        BY <2>2, <3>3, <3>4
    <2> QED
      BY <1>13, <2>1, <2>2
  <1>14. ASSUME NEW r \in Runs, MarkNext(r) \/ Wake(r) \/ Complete(r) \/ PutUp(r)
         PROVE  \E s \in Runs, y \in Run : Moved(s, y) /\ Step(s, y)
    <2>1. CASE MarkNext(r) \/ Complete(r)
      BY <1>1, <1>2, <1>3, <2>1 DEF MarkNext, Complete, Step, EngineStep
    <2>2. CASE Wake(r)
      <3>1. [at |-> "next", entry |-> NextEntry] \in Run
        BY <2>2, QueueTyped DEF Wake, Run
      <3> QED
        BY <1>2, <2>2, <3>1 DEF Wake, Step, EngineStep
    <2>3. CASE PutUp(r)
      <3>1. run[r].entry \in Entries
        BY <1>1, <2>3, RunFields DEF PutUp
      <3>2. [at |-> "start", callback |-> run[r].entry] \in Run
        BY <3>1 DEF Run, Callback
      <3> QED
        BY <1>2, <2>3, <3>2 DEF PutUp, Step, EngineStep
    <2> QED
      BY <1>14, <2>1, <2>2, <2>3
  <1>15. ASSUME NEW r \in Runs, Write(r) \/ Stop(r)
         PROVE  \E s \in Runs, y \in Run : Moved(s, y) /\ Step(s, y)
    BY <1>1, <1>2, <1>3, <1>15 DEF Write, Stop, Step, SideStep
  <1>16. ASSUME NEW r \in Runs,
                Freeze(r) \/ Forget(r) \/ MarkPaused(r) \/ Unfreeze(r) \/ Finish(r)
         PROVE  \E s \in Runs, y \in Run : Moved(s, y) /\ Step(s, y)
    BY <1>1, <1>2, <1>3, <1>16
       DEF Freeze, Forget, MarkPaused, Unfreeze, Finish, Step, SideStep
  <1> QED
    BY <1>4, <1>5, <1>6, <1>7, <1>8, <1>9, <1>10, <1>11, <1>12, <1>13, <1>14, <1>15, <1>16
       DEF Next, RunStep, Controls

-----------------------------------------------------------------------------
(* Ground: types, the queue and the one interval                           *)

States == {"idle", "player_up", "bidding", "paused", "sold", "unsold", "complete"}

LEMMA TypedStep ==
  ASSUME TypeOK, [Next]_vars
  PROVE  TypeOK'
  <1> USE DEF At
  <1>1. run \in [Runs -> Run] /\ <<>> \in Seq(Entries)
    BY DEF TypeOK
  <1>2. CASE Evict \/ UNCHANGED vars
    BY <1>1, <1>2 DEF Evict, vars, queue, timer, history, TypeOK
  <1>3. ASSUME NEW r \in Runs, NEW x \in Run, Moved(r, x), Step(r, x)
        PROVE  TypeOK'
    <2>1. run' \in [Runs -> Run]
      BY <1>3 DEF Moved
    <2>2. mixed' \subseteq Overlap
      BY <1>3
         DEF Step, EngineStep, Begin, ClockStep, SideStep, Expire, Resolve, Settle, Advance,
             MarkNext, Wake, Complete, PutUp, Fire, Skip, StartTimer, Install, Check, Pause,
             Resume, Extend, End, Write, Stop, Freeze, Forget, MarkPaused, Unfreeze, Finish,
             Control, When, Overlap, timer, history, queue, TypeOK
    <2>3. /\ deadline' \in BOOLEAN /\ paused' \in BOOLEAN
          /\ auctionState' \in States
      BY <1>3
         DEF Step, EngineStep, Begin, ClockStep, SideStep, Expire, Resolve, Settle, Advance,
             MarkNext, Wake, Complete, PutUp, Fire, Skip, StartTimer, Install, Check, Pause,
             Resume, Extend, End, Write, Stop, Freeze, Forget, MarkPaused, Unfreeze, Finish,
             timer, history, queue, States, TypeOK
    <2>4. controls' \in 0 .. MaxControls
      <3>1. CASE controls' = controls
        BY <3>1 DEF TypeOK
      <3>2. CASE controls < MaxControls /\ controls' = controls + 1
        BY <3>2, QueueAssumption DEF TypeOK
      <3> QED
        BY <1>3, <3>1, <3>2
           DEF Step, EngineStep, Begin, ClockStep, SideStep, Expire, Resolve, Settle, Advance,
               MarkNext, Wake, Complete, PutUp, Fire, Skip, StartTimer, Install, Check, Pause,
               Resume, Extend, End, Write, Stop, Freeze, Forget, MarkPaused, Unfreeze, Finish,
               Control, timer, history, queue
    <2>5. CASE EngineStep(r, x)
      <3>1. handle' = handle /\ orphans' = orphans
        BY <2>5 DEF EngineStep, Expire, Resolve, Settle, Advance, MarkNext, Wake, Complete,
                    PutUp, timer
      <3>2. /\ run[r].at \in {"resolved", "settled", "advanced"} => run[r].bid \in Bids \cup {NoBid}
            /\ run[r].at \in {"resolved", "settled", "advanced", "next"} => run[r].entry \in Entries
        BY <1>1, RunFields
      <3>3. position' \in Nat /\ hammered' \in [Entries -> Nat]
        <4>1. CASE Advance(r)
          <5>1. hammered' = [hammered EXCEPT ![run[r].entry] = @ + 1] /\ position' = position + 1
            BY <4>1 DEF Advance
          <5>2. hammered \in [Entries -> Nat] /\ position \in Nat
            BY DEF TypeOK
          <5> QED
            BY <3>2, <4>1, <5>1, <5>2 DEF Advance
        <4>2. CASE ~Advance(r)
          BY <2>5, <4>2 DEF EngineStep, Expire, Resolve, Settle, MarkNext, Wake, Complete,
                            PutUp, history, queue, TypeOK
        <4> QED
          BY <4>1, <4>2
      <3>4. cache' \in Seq(Entries)
        BY <2>5, QueueTyped
           DEF EngineStep, Expire, Resolve, Settle, Advance, MarkNext, Wake, Complete, PutUp,
               queue, TypeOK
      <3>5. status' \in [Entries -> {"pending", "active", "sold", "unsold"}]
        BY <2>5
           DEF EngineStep, Expire, Resolve, Settle, Advance, MarkNext, Wake, Complete, PutUp,
               queue, TypeOK
      <3>6. /\ currentPlayer' \in Entries \cup {NoPlayer}
            /\ standing' \in Bids \cup {NoBid}
        BY <2>5, <3>2
           DEF EngineStep, Expire, Resolve, Settle, Advance, MarkNext, Wake, Complete, PutUp,
               TypeOK
      <3>7. sales' \subseteq [entry : Entries, bid : Bids]
        <4>1. CASE MarkNext(r) /\ run[r].bid # NoBid
          <5>1. [entry |-> run[r].entry, bid |-> run[r].bid] \in [entry : Entries, bid : Bids]
            BY <3>2, <4>1 DEF MarkNext
          <5> QED
            BY <4>1, <5>1 DEF MarkNext, TypeOK
        <4>2. CASE sales' = sales
          BY <4>2 DEF TypeOK
        <4> QED
          BY <2>5, <4>1, <4>2 DEF EngineStep, Expire, Resolve, Settle, Advance, MarkNext, Wake,
                                  Complete, PutUp, history
      <3> QED
        BY <2>1, <2>2, <2>3, <2>4, <3>1, <3>3, <3>4, <3>5, <3>6, <3>7 DEF TypeOK, States
    <2>6. CASE Begin(r, x) \/ ClockStep(r, x)
      <3>1. /\ UNCHANGED <<position, status, cache, currentPlayer, standing, sales, hammered>>
            /\ handle' \in {NoTimer} \cup Callback
            /\ orphans' \subseteq Callback
        BY <1>1, <2>6, RunFields, NamesAssumption
           DEF Begin, ClockStep, Fire, Skip, StartTimer, Install, queue, history, TypeOK
      <3> QED
        BY <2>1, <2>2, <2>3, <2>4, <3>1 DEF TypeOK, States
    <2>7. CASE SideStep(r, x)
      <3>1. /\ UNCHANGED <<position, status, cache, currentPlayer, orphans, sales, hammered>>
            /\ handle' \in {handle, NoTimer}
        BY <2>7 DEF SideStep, Check, Pause, Resume, Extend, End, Write, Stop, Freeze, Forget,
                    MarkPaused, Unfreeze, Finish, queue, timer, history
      <3>2. standing' \in Bids \cup {NoBid}
        <4>1. CASE Write(r)
          BY <1>1, <4>1, RunFields DEF Write, TypeOK
        <4>2. CASE standing' = standing
          BY <4>2 DEF TypeOK
        <4> QED
          BY <2>7, <4>1, <4>2
             DEF SideStep, Check, Pause, Resume, Extend, End, Stop, Freeze, Forget,
                 MarkPaused, Unfreeze, Finish
      <3> QED
        BY <2>1, <2>2, <2>3, <2>4, <3>1, <3>2 DEF TypeOK, States
    <2> QED
      BY <1>3, <2>5, <2>6, <2>7 DEF Step
  <1> QED
    BY <1>2, <1>3, StepMoves

LEMMA InitTyped == Init => TypeOK /\ QueueWhole
  <1> SUFFICES ASSUME Init PROVE TypeOK /\ QueueWhole
    OBVIOUS
  <1>1. N \in Nat \ {0} /\ MaxControls \in Nat
    BY QueueAssumption
  <1>2. cache = Rebuild
    BY DEF Init, Rebuild
  <1>3. Rebuild \in [1 .. N -> Entries]
    BY <1>1 DEF Rebuild, Entries
  <1>4. Rebuild \in Seq(Entries)
    BY <1>1, <1>3
  <1>5. run \in [Runs -> Run]
    BY DEF Init, Run
  <1>6. position \in Nat /\ controls \in 0 .. MaxControls
    BY <1>1 DEF Init
  <1>7. cache \in Seq(Entries) /\ QueueWhole
    BY <1>2, <1>4 DEF QueueWhole
  <1>8. /\ hammered \in [Entries -> Nat]
        /\ status \in [Entries -> {"pending", "active", "sold", "unsold"}]
    BY DEF Init
  <1> QED
    BY <1>5, <1>6, <1>7, <1>8 DEF Init, TypeOK

(* Types of the floor: no player is put up, sold or resolved that is not   *)
(* an entry of the queue, whatever overlaps and whatever the host does.    *)
THEOREM FloorTyped == Spec => []TypeOK
  <1>1. Init => TypeOK
    BY InitTyped
  <1>2. TypeOK /\ [Next]_vars => TypeOK'
    BY TypedStep
  <1> QED
    BY <1>1, <1>2, PTL DEF Spec

LEMMA QueueStaysWhole ==
  ASSUME TypeOK, QueueWhole, [Next]_vars
  PROVE  QueueWhole'
  <1>1. cache' \in {cache, Queue, <<>>}
    <2>1. CASE Evict \/ UNCHANGED vars
      BY <2>1 DEF Evict, vars, queue
    <2>2. ASSUME NEW r \in Runs, NEW x \in Run, Step(r, x)
          PROVE  cache' \in {cache, Queue}
      BY <2>2
         DEF Step, EngineStep, Begin, ClockStep, SideStep, Expire, Resolve, Settle, Advance,
             MarkNext, Wake, Complete, PutUp, Fire, Skip, StartTimer, Install, Check, Pause,
             Resume, Extend, End, Write, Stop, Freeze, Forget, MarkPaused, Unfreeze, Finish,
             queue
    <2> QED
      BY <2>1, <2>2, StepMoves
  <1> QED
    BY <1>1, QueueRead DEF QueueWhole, Rebuild

LEMMA OneInstallStep ==
  ASSUME ~TimersOverlap, TypeOK, OneInstall, [Next]_vars
  PROVE  OneInstall'
  <1> USE DEF At, OneInstall, Installing
  <1>1. CASE Evict \/ UNCHANGED vars
    BY <1>1 DEF Evict, vars, timer
  <1>2. ASSUME NEW r \in Runs, NEW x \in Run, Moved(r, x), Step(r, x)
        PROVE  OneInstall'
    <2>1. CASE ClockStep(r, x)
      <3>1. CASE StartTimer(r)
        BY <1>2, <3>1 DEF Moved, StartTimer, TimerFree
      <3>2. CASE Install(r) /\ x = Idle
        BY <1>2, <3>2 DEF Moved, Install, Idle
      <3> QED
        BY <2>1, <3>1, <3>2 DEF ClockStep
    <2>2. CASE EngineStep(r, x) \/ Begin(r, x) \/ SideStep(r, x)
      <3>1. orphans' = orphans /\ handle' \in {handle, NoTimer}
        BY <2>2
           DEF EngineStep, Begin, SideStep, Expire, Resolve, Settle, Advance, MarkNext, Wake,
               Complete, PutUp, Fire, Skip, Check, Pause, Resume, Extend, End, Write, Stop,
               Freeze, Forget, MarkPaused, Unfreeze, Finish, timer
      <3>2. x.at # "install"
        BY <2>2 DEF EngineStep, Begin, SideStep, Idle
      <3> QED
        BY <1>2, <3>1, <3>2 DEF Moved
    <2> QED
      BY <1>2, <2>1, <2>2 DEF Step
  <1> QED
    BY <1>1, <1>2, StepMoves

LEMMA InitGround == Init => Ground
  BY InitTyped DEF Ground, Init, OneInstall, Installing, At, Idle

LEMMA GroundStep ==
  ASSUME ~TimersOverlap, Ground, [Next]_vars
  PROVE  Ground'
  BY TypedStep, QueueStaysWhole, OneInstallStep DEF Ground

(* timerService.ts, its header: no interval escapes the map of timers, for *)
(* any number of bids, expiries and controls under way at any moment.      *)
THEOREM TimersStayOne ==
  ASSUME ~TimersOverlap
  PROVE  Spec => []OneTimer
  <1>1. Ground /\ [Next]_vars => Ground'
    BY GroundStep
  <1>2. Ground => OneTimer
    BY DEF Ground, OneInstall, OneTimer
  <1> QED
    BY <1>1, <1>2, InitGround, PTL DEF Spec

-----------------------------------------------------------------------------
(* Order: the queue is resolved entry by entry, unless a resolution begins *)
(* during another.                                                         *)

OneEngine == \A r, s \in Runs : OfEngine(r) /\ OfEngine(s) => r = s

AtPointer ==
    /\ position =< N
    /\ \A r \in Runs :
          /\ run[r].at \in {"expired", "start", "install"} /\ run[r].callback \in Entries
                => run[r].callback = position
          /\ run[r].at \in {"resolving", "resolved", "settled", "next"} => run[r].entry = position
          /\ At(r, "advanced") => run[r].entry + 1 = position
          /\ At(r, "install") /\ run[r].callback \in Entries => ~Resolving
    /\ handle \in Entries => handle = position /\ ~Resolving

Outcome(bid) == IF bid = NoBid THEN "unsold" ELSE "sold"

Announced(e) == \E s \in sales : s.entry = e

(* What the rows say of the players before the pointer, at it and after it *)
Hammered == \A e \in Entries : hammered[e] = IF e < position THEN 1 ELSE 0

SalesBehind == \A s \in sales : s.entry < position

ToCome == \A e \in Entries : e > position => status[e] = "pending"

Behind ==
    \A e \in Entries :
        e < position /\ (\A r \in Runs : At(r, "advanced") => run[r].entry # e)
           => status[e] = IF Announced(e) THEN "sold" ELSE "unsold"

AtHand ==
    (\A r \in Runs : run[r].at \notin {"settled", "advanced"})
       => \A e \in Entries : e = position => status[e] = IF e = 0 THEN "pending" ELSE "active"

InHand ==
    \A r \in Runs :
        /\ run[r].at \in {"settled", "advanced"} => status[run[r].entry] = Outcome(run[r].bid)
        /\ At(r, "advanced") =>
              /\ ~Announced(run[r].entry)
              /\ position < N => status[position] = "pending"

RowsFollow == Hammered /\ SalesBehind /\ ToCome /\ Behind /\ AtHand /\ InHand

Order == OneEngine /\ AtPointer /\ RowsFollow

(* What has overlapped stays so. *)
LEMMA MixedGrows ==
  ASSUME TypeOK, [Next]_vars
  PROVE  mixed \subseteq mixed'
  <1>1. CASE Evict \/ UNCHANGED vars
    BY <1>1 DEF Evict, vars
  <1>2. ASSUME NEW r \in Runs, NEW x \in Run, Step(r, x)
        PROVE  mixed \subseteq mixed'
    BY <1>2
       DEF Step, EngineStep, Begin, ClockStep, SideStep, Expire, Resolve, Settle, Advance,
           MarkNext, Wake, Complete, PutUp, Fire, Skip, StartTimer, Install, Check, Pause,
           Resume, Extend, End, Write, Stop, Freeze, Forget, MarkPaused, Unfreeze, Finish,
           Control
  <1> QED
    BY <1>1, <1>2, StepMoves

(* The rows stay right while the runs that are settling one keep still. *)
LEMMA RowsKept ==
  ASSUME RowsFollow, UNCHANGED <<position, status, sales, hammered>>,
         \A s \in Runs : {run[s].at, run'[s].at} \cap {"settled", "advanced"} # {}
                             => run'[s] = run[s]
  PROVE  RowsFollow'
  <1> USE DEF RowsFollow, At
  <1>1. Hammered' /\ SalesBehind' /\ ToCome'
    BY DEF Hammered, SalesBehind, ToCome
  <1>2. Behind'
    BY DEF Behind, Announced
  <1>3. AtHand'
    BY DEF AtHand
  <1>4. InHand'
    <2> SUFFICES ASSUME NEW s \in Runs, run'[s].at \in {"settled", "advanced"}
                 PROVE  /\ status[run[s].entry] = Outcome(run[s].bid)
                        /\ At(s, "advanced") =>
                              /\ ~Announced(run[s].entry)
                              /\ position < N => status[position] = "pending"
                        /\ run'[s] = run[s]
      BY DEF InHand, Announced, Outcome
    <2>1. run'[s] = run[s]
      OBVIOUS
    <2> QED
      BY <2>1 DEF InHand
  <1> QED
    BY <1>1, <1>2, <1>3, <1>4

(* While a run is the engine's, the others are bids', controls' or done:   *)
(* they carry no player to resolve, and neither does the interval.         *)
LEMMA EngineAlone ==
  ASSUME Ground, Order, NEW r \in Runs, OfEngine(r)
  PROVE  /\ Resolving
         /\ handle \notin Entries
         /\ \A s \in Runs : s # r =>
               /\ run[s].at \in OtherStages
               /\ run[s].at \in {"start", "install"} => run[s].callback \notin Entries
  <1> USE DEF Order, At
  <1>1. Resolving
    BY DEF OfEngine, Resolving, EngineStages
  <1>2. handle \notin Entries
    BY <1>1 DEF AtPointer
  <1>3. ASSUME NEW s \in Runs, s # r
        PROVE  /\ run[s].at \in OtherStages
               /\ run[s].at \in {"start", "install"} => run[s].callback \notin Entries
    <2>1. ~OfEngine(s)
      BY <1>3 DEF OneEngine
    <2>2. At(s, "install") => run[s].callback \notin Entries
      BY <1>1 DEF AtPointer
    <2> QED
      BY <2>1, <2>2, RunFields DEF OfEngine, Ground, TypeOK
  <1> QED
    BY <1>1, <1>2, <1>3

(* A step of bids, controls and evictions leaves the order alone. *)
LEMMA SideKeepsOrder ==
  ASSUME Ground, Order, NEW r \in Runs, NEW x, Moved(r, x), SideStep(r, x)
  PROVE  Order'
  <1> USE DEF Order, At
  <1>1. /\ UNCHANGED <<position, status, sales, hammered>>
        /\ handle' \in {handle, NoTimer}
    BY DEF SideStep, Check, Pause, Resume, Extend, End, Write, Stop, Freeze, Forget,
           MarkPaused, Unfreeze, Finish, queue, timer, history
  <1>2. /\ run[r].at \in OtherStages \ {"start", "install"}
        /\ x.at \in OtherStages \ {"install"}
        /\ x.at = "start" => x.callback \notin Entries
    <2>1. run[r].at \in OtherStages \ {"start", "install"}
      BY DEF SideStep, Write, Stop, Freeze, Forget, MarkPaused, Unfreeze, Finish,
             OtherStages, PauseStages, Idle
    <2>2. \/ x.at \in OtherStages \ {"start", "install"}
          \/ x.at = "start" /\ x.callback \in {Requeue, RequeueSoon}
      BY DEF SideStep, OtherStages, PauseStages, Idle
    <2> QED
      BY <2>1, <2>2, NamesAssumption DEF OtherStages
  <1>3. Resolving' <=> Resolving
    BY <1>2 DEF Resolving, Moved, OtherStages, PauseStages
  <1>4. OneEngine'
    BY <1>2 DEF OneEngine, OfEngine, Moved, OtherStages, PauseStages, EngineStages
  <1>5. AtPointer'
    BY <1>1, <1>2, <1>3, NamesAssumption DEF AtPointer, Moved, OtherStages, PauseStages
  <1>6. RowsFollow'
    BY <1>1, <1>2, RowsKept DEF Moved, OtherStages, PauseStages
  <1> QED
    BY <1>4, <1>5, <1>6

(* No other resolution is under way when one begins. *)
LEMMA BeginKeepsOrder ==
  ASSUME ~TimersOverlap, Ground, Order, NEW r \in Runs, NEW x, Moved(r, x), Begin(r, x),
         "twice" \notin mixed'
  PROVE  Order'
  <1> USE DEF Order, At
  <1>1. /\ UNCHANGED <<position, status, sales, hammered>>
        /\ handle' = NoTimer /\ ~Resolving /\ ~Installing
        /\ run[r] = Idle /\ x.at = "expired"
        /\ x.callback \in Entries => x.callback = handle
    <2>1. CASE \E c \in Callback : Fire(c) /\ x = [at |-> "expired", callback |-> c]
      <3>1. PICK c \in Callback : Fire(c) /\ x = [at |-> "expired", callback |-> c]
        BY <2>1
      <3>2. c = handle /\ ~Resolving
        BY <3>1 DEF Fire, When, Ground, OneInstall
      <3> QED
        BY <3>1, <3>2 DEF Begin, Fire, TimerFree, queue, history
    <2>2. CASE Skip /\ x = [at |-> "expired", callback |-> Requeue]
      <3>1. ~Resolving
        BY <2>2 DEF Skip, Control, When
      <3> QED
        BY <2>2, <3>1, NamesAssumption DEF Begin, Skip, TimerFree, queue, history
    <2> QED
      BY <2>1, <2>2 DEF Begin
  <1>2. OneEngine'
    BY <1>1 DEF OneEngine, OfEngine, Moved, Resolving, EngineStages
  <1>3. AtPointer'
    BY <1>1, NamesAssumption DEF AtPointer, Moved, Installing
  <1>4. RowsFollow'
    BY <1>1, RowsKept DEF Moved, Idle
  <1> QED
    BY <1>2, <1>3, <1>4

LEMMA ClockKeepsOrder ==
  ASSUME ~TimersOverlap, Ground, Order, NEW r \in Runs, NEW x, Moved(r, x), ClockStep(r, x)
  PROVE  Order'
  <1> USE DEF Order, At
  <1>1. UNCHANGED <<position, status, sales, hammered>>
    BY DEF ClockStep, StartTimer, Install, queue, history
  <1>2. RowsFollow'
    BY <1>1, RowsKept DEF ClockStep, StartTimer, Install, Moved, Idle
  <1>3. CASE StartTimer(r)
    <2>1. /\ run[r].at = "start" /\ ~Installing /\ handle' = NoTimer
          /\ x = [at |-> "install", callback |-> run[r].callback]
      BY <1>3 DEF StartTimer, TimerFree, ClockStep, Install
    <2>2. OneEngine'
      BY <2>1 DEF OneEngine, OfEngine, Moved, EngineStages
    <2>3. run[r].callback \in Entries => ~Resolving'
      BY <2>1 DEF OneEngine, OfEngine, Moved, Resolving, EngineStages
    <2>4. AtPointer'
      BY <1>1, <2>1, <2>3, NamesAssumption DEF AtPointer, Moved, Installing
    <2> QED
      BY <1>2, <2>2, <2>4
  <1>4. CASE Install(r)
    <2>1. /\ run[r].at = "install" /\ handle' = run[r].callback /\ x = Idle
      BY <1>4 DEF StartTimer, ClockStep, Install
    <2>2. OneEngine'
      BY <2>1 DEF OneEngine, OfEngine, Moved, EngineStages, Idle
    <2>3. Resolving' <=> Resolving
      BY <2>1 DEF Moved, Resolving, Idle
    <2>4. AtPointer'
      BY <1>1, <2>1, <2>3 DEF AtPointer, Moved, Idle
    <2> QED
      BY <1>2, <2>2, <2>4
  <1> QED
    BY <1>3, <1>4 DEF ClockStep

(* The engine's run goes on with the entry at the pointer. *)
LEMMA EngineInPlace ==
  ASSUME Ground, Order, NEW r \in Runs, NEW x, Moved(r, x), OfEngine(r),
         UNCHANGED <<position, handle>>,
         x.at \in {"idle", "resolving", "resolved", "settled", "asleep", "next", "start"},
         x.at \in {"resolving", "resolved", "settled", "next"} => x.entry = position,
         x.at = "start" => x.callback = position
  PROVE  OneEngine' /\ AtPointer'
  <1> USE DEF Order, At
  <1>1. /\ handle \notin Entries
        /\ \A s \in Runs : s # r =>
              /\ run[s].at \in OtherStages
              /\ run[s].at \in {"start", "install"} => run[s].callback \notin Entries
    BY EngineAlone
  <1>2. OneEngine'
    BY <1>1 DEF OneEngine, OfEngine, Moved, OtherStages, PauseStages, EngineStages
  <1>3. AtPointer'
    BY <1>1 DEF AtPointer, Moved, OtherStages, PauseStages
  <1> QED
    BY <1>2, <1>3

(* The steps of the engine that leave rows and pointer alone *)
LEMMA EngineKeepsOrder ==
  ASSUME Ground, Order, NEW r \in Runs, NEW x, Moved(r, x),
         \/ Expire(r)
         \/ Resolve(r) /\ x = [at |-> "resolved", entry |-> run[r].entry, bid |-> standing]
         \/ Wake(r) /\ x = [at |-> "next", entry |-> NextEntry]
         \/ Complete(r) /\ x = Idle
         \/ PutUp(r) /\ x = [at |-> "start", callback |-> run[r].entry]
  PROVE  Order'
  <1> USE DEF Order, At
  <1>1. UNCHANGED <<position, status, sales, hammered, handle>>
    BY DEF Expire, Resolve, Wake, Complete, PutUp, queue, timer, history
  <1>2. OfEngine(r)
    BY DEF OfEngine, EngineStages, Expire, Resolve, Wake, Complete, PutUp
  <1>3. /\ x.at \in {"idle", "resolving", "resolved", "next", "start"}
        /\ x.at \in {"resolving", "resolved", "next"} => x.entry = position
        /\ x.at = "start" => x.callback = position
    <2>1. CASE Expire(r)
      <3>1. run' = [run EXCEPT ![r] = IF run[r].callback \in Entries
                                      THEN [at |-> "resolving", entry |-> run[r].callback]
                                      ELSE IF Exhausted THEN Idle
                                      ELSE [at |-> "resolving", entry |-> NextEntry]]
        BY <2>1 DEF Expire, Goto
      <3>2. x = IF run[r].callback \in Entries
                THEN [at |-> "resolving", entry |-> run[r].callback]
                ELSE IF Exhausted THEN Idle
                ELSE [at |-> "resolving", entry |-> NextEntry]
        BY <3>1 DEF Moved, Ground, TypeOK
      <3>3. run[r].callback \in Entries => run[r].callback = position
        BY <2>1 DEF Expire, AtPointer
      <3>4. ~Exhausted => NextEntry = position
        BY QueueRead, QueueAssumption DEF Ground, TypeOK
      <3> QED
        BY <3>2, <3>3, <3>4 DEF Idle
    <2>2. CASE Resolve(r) \/ PutUp(r)
      BY <2>2 DEF Resolve, PutUp, Expire, Wake, Complete, AtPointer
    <2>3. CASE Wake(r) \/ Complete(r)
      <3>1. ~Exhausted => NextEntry = position
        BY QueueRead, QueueAssumption DEF Ground, TypeOK
      <3> QED
        BY <2>3, <3>1 DEF Resolve, PutUp, Expire, Wake, Complete, Idle
    <2> QED
      BY <2>1, <2>2, <2>3
  <1>4. OneEngine' /\ AtPointer'
    BY <1>1, <1>2, <1>3, EngineInPlace
  <1>5. RowsFollow'
    <2>1. run[r].at \notin {"settled", "advanced"}
      BY DEF Expire, Resolve, Wake, Complete, PutUp
    <2> QED
      BY <1>1, <1>3, <2>1, RowsKept DEF Moved
  <1> QED
    BY <1>4, <1>5

(* The entry's row gets its outcome. *)
LEMMA SettleKeepsOrder ==
  ASSUME Ground, Order, NEW r \in Runs, Settle(r),
         Moved(r, [at |-> "settled", entry |-> run[r].entry, bid |-> run[r].bid])
  PROVE  Order'
  <1> DEFINE e == run[r].entry
             x == [at |-> "settled", entry |-> e, bid |-> run[r].bid]
  <1> USE DEF Order, At
  <1>1. /\ run[r].at = "resolved" /\ OfEngine(r)
        /\ status' = [status EXCEPT ![e] = Outcome(run[r].bid)]
        /\ UNCHANGED <<position, handle, sales, hammered>>
    BY DEF Settle, timer, history, Outcome, OfEngine, EngineStages
  <1>2. e \in Entries /\ e = position
    BY <1>1, RunFields DEF AtPointer, Ground, TypeOK
  <1>3. OneEngine' /\ AtPointer'
    BY <1>1, <1>2, EngineInPlace
  <1>4. \A s \in Runs : s # r => run[s].at \notin {"settled", "advanced"}
    BY <1>1, EngineAlone DEF OtherStages, PauseStages
  <1>5. Hammered' /\ SalesBehind' /\ ToCome'
    BY <1>1, <1>2 DEF RowsFollow, Hammered, SalesBehind, ToCome, Ground, TypeOK
  <1>6. Behind'
    <2> SUFFICES ASSUME NEW f \in Entries, f < position
                 PROVE  status'[f] = IF Announced(f) THEN "sold" ELSE "unsold"
      BY <1>1 DEF Behind, Announced
    <2>1. f # e /\ status'[f] = status[f]
      BY <1>1, <1>2, QueueAssumption DEF Ground, TypeOK, Entries
    <2>2. \A s \in Runs : run[s].at # "advanced"
      BY <1>1, <1>4
    <2> QED
      BY <2>1, <2>2 DEF RowsFollow, Behind
  <1>7. AtHand'
    BY DEF AtHand, Moved
  <1>8. InHand'
    <2>1. ASSUME NEW s \in Runs, run'[s].at \in {"settled", "advanced"}
          PROVE  s = r
      BY <1>4, <2>1 DEF Moved
    <2>2. run'[r] = x
      BY DEF Moved
    <2>3. status'[e] = Outcome(x.bid)
      BY <1>1, <1>2 DEF Ground, TypeOK
    <2> QED
      BY <2>1, <2>2, <2>3 DEF InHand, Outcome
  <1> QED
    BY <1>3, <1>5, <1>6, <1>7, <1>8 DEF RowsFollow

(* The pointer moves on. *)
LEMMA AdvanceKeepsOrder ==
  ASSUME Ground, Order, NEW r \in Runs, Advance(r),
         Moved(r, [at |-> "advanced", entry |-> run[r].entry, bid |-> run[r].bid])
  PROVE  Order'
  <1> DEFINE e == run[r].entry
             x == [at |-> "advanced", entry |-> e, bid |-> run[r].bid]
  <1> USE DEF Order, At
  <1>1. /\ run[r].at = "settled" /\ OfEngine(r)
        /\ position' = position + 1
        /\ hammered' = [hammered EXCEPT ![e] = @ + 1]
        /\ UNCHANGED <<status, handle, sales>>
    BY DEF Advance, timer, OfEngine, EngineStages
  <1>2. e \in Entries /\ e = position /\ position \in Nat /\ position < N
    <2>1. e \in Entries /\ e = position /\ position \in Nat
      BY <1>1, RunFields DEF AtPointer, Ground, TypeOK
    <2> QED
      BY <2>1, QueueAssumption DEF Entries
  <1>3. /\ handle \notin Entries
        /\ \A s \in Runs : s # r =>
              /\ run[s].at \in OtherStages
              /\ run[s].at \in {"start", "install"} => run[s].callback \notin Entries
    BY <1>1, EngineAlone
  <1>4. OneEngine'
    BY <1>3 DEF OneEngine, OfEngine, Moved, OtherStages, PauseStages, EngineStages
  <1>5. AtPointer'
    BY <1>1, <1>2, <1>3, QueueAssumption DEF AtPointer, Moved, OtherStages, PauseStages
  <1>6. \A f \in Entries : f \in Int
    BY QueueAssumption DEF Entries
  <1>7. Hammered'
    BY <1>1, <1>2, <1>6 DEF RowsFollow, Hammered, Ground, TypeOK
  <1>8. SalesBehind' /\ ToCome'
    <2>1. \A s \in sales : s.entry \in Entries
      BY DEF Ground, TypeOK
    <2> QED
      BY <1>1, <1>2, <1>6, <2>1 DEF RowsFollow, SalesBehind, ToCome
  <1>9. Behind'
    <2> SUFFICES ASSUME NEW f \in Entries, f < position', f # e
                 PROVE  status[f] = IF Announced(f) THEN "sold" ELSE "unsold"
      BY <1>1 DEF Behind, Announced, Moved
    <2>1. f < position
      BY <1>1, <1>2, <1>6
    <2>2. \A s \in Runs : run[s].at # "advanced"
      BY <1>1, <1>3 DEF OtherStages, PauseStages
    <2> QED
      BY <2>1, <2>2 DEF RowsFollow, Behind
  <1>10. AtHand'
    BY DEF AtHand, Moved
  <1>11. InHand'
    <2>1. status[e] = Outcome(run[r].bid)
      BY <1>1 DEF RowsFollow, InHand
    <2>2. ~Announced(e)
      BY <1>2, <1>6 DEF RowsFollow, SalesBehind, Announced
    <2>3. position' < N => status[position'] = "pending"
      BY <1>1, <1>2, QueueAssumption DEF RowsFollow, ToCome, Entries
    <2>4. ASSUME NEW s \in Runs, run'[s].at \in {"settled", "advanced"}
          PROVE  s = r
      BY <1>3, <2>4 DEF Moved, OtherStages, PauseStages
    <2>5. run'[r] = x
      BY DEF Moved
    <2> QED
      BY <1>1, <2>1, <2>2, <2>3, <2>4, <2>5 DEF InHand, Outcome, Announced
  <1> QED
    BY <1>4, <1>5, <1>7, <1>8, <1>9, <1>10, <1>11 DEF RowsFollow

(* The next row becomes active, and the sale is announced. *)
LEMMA MarkNextKeepsOrder ==
  ASSUME Ground, Order, NEW r \in Runs, MarkNext(r), Moved(r, [at |-> "asleep"])
  PROVE  Order'
  <1> DEFINE e == run[r].entry
             b == run[r].bid
  <1> USE DEF Order, At
  <1>1. /\ run[r].at = "advanced" /\ OfEngine(r)
        /\ sales' = IF b = NoBid THEN sales ELSE sales \cup {[entry |-> e, bid |-> b]}
        /\ UNCHANGED <<position, handle, hammered>>
    BY DEF MarkNext, timer, OfEngine, EngineStages
  <1>2. e \in Entries /\ e + 1 = position /\ position \in Nat /\ position =< N
    BY <1>1, RunFields DEF AtPointer, Ground, TypeOK
  <1>3. OneEngine' /\ AtPointer'
    BY <1>1, EngineInPlace
  <1>4. \A s \in Runs : s # r => run[s].at \notin {"settled", "advanced"}
    BY <1>1, EngineAlone DEF OtherStages, PauseStages
  <1>5. /\ position = N => status' = status
        /\ position < N => status' = [status EXCEPT ![position] = "active"]
    <2>1. /\ Exhausted <=> position >= N
          /\ position < N => NextEntry = position
      BY QueueRead DEF Ground
    <2>2. status' = IF Exhausted THEN status ELSE [status EXCEPT ![NextEntry] = "active"]
      BY DEF MarkNext
    <2>3. N \in Nat
      BY QueueAssumption
    <2>4. CASE position = N
      BY <1>2, <2>1, <2>2, <2>3, <2>4
    <2>5. CASE position < N
      BY <1>2, <2>1, <2>2, <2>3, <2>5
    <2> QED
      BY <1>2, <2>3, <2>4, <2>5
  <1>6. \A f \in Entries : f \in Nat /\ f < N
    BY QueueAssumption DEF Entries
  <1>7. \A f \in Entries : f # position => status'[f] = status[f]
    BY <1>2, <1>5, QueueAssumption DEF Ground, TypeOK
  <1>8. Hammered' /\ ToCome'
    BY <1>1, <1>2, <1>6, <1>7 DEF RowsFollow, Hammered, ToCome
  <1>9. SalesBehind'
    BY <1>1, <1>2, <1>6 DEF RowsFollow, SalesBehind
  <1>10. Behind'
    <2> SUFFICES ASSUME NEW f \in Entries, f < position
                 PROVE  status'[f] = IF Announced(f)' THEN "sold" ELSE "unsold"
      BY <1>1 DEF Behind
    <2>1. status'[f] = status[f]
      BY <1>2, <1>6, <1>7
    <2>2. CASE f = e
      <3>1. ~Announced(e) /\ status[e] = Outcome(b)
        BY <1>1 DEF RowsFollow, InHand
      <3>2. CASE b = NoBid
        BY <1>1, <2>1, <2>2, <3>1, <3>2 DEF Announced, Outcome
      <3>3. CASE b # NoBid
        <4>1. [entry |-> e, bid |-> b] \in sales'
          BY <1>1, <3>3
        <4>2. Announced(f)'
          BY <2>2, <4>1 DEF Announced
        <4> QED
          BY <2>1, <2>2, <3>1, <3>3, <4>2 DEF Outcome
      <3> QED
        BY <3>2, <3>3
    <2>3. CASE f # e
      <3>1. Announced(f)' <=> Announced(f)
        BY <1>1, <2>3 DEF Announced
      <3>2. \A s \in Runs : run[s].at = "advanced" => run[s].entry # f
        BY <1>4, <2>3
      <3> QED
        BY <2>1, <3>1, <3>2 DEF RowsFollow, Behind
    <2> QED
      BY <2>2, <2>3
  <1>11. AtHand'
    <2> SUFFICES ASSUME NEW f \in Entries, f = position
                 PROVE  f # 0 /\ status'[f] = "active"
      BY <1>1 DEF AtHand
    <2>1. f # 0 /\ position < N
      BY <1>2, <1>6
    <2> QED
      BY <1>5, <2>1 DEF Ground, TypeOK
  <1>12. InHand'
    BY <1>4 DEF InHand, Moved
  <1> QED
    BY <1>3, <1>8, <1>9, <1>10, <1>11, <1>12 DEF RowsFollow

OrderInv == Ground /\ ("twice" \notin mixed => Order)

LEMMA OrderStep ==
  ASSUME ~TimersOverlap, OrderInv, [Next]_vars
  PROVE  OrderInv'
  <1>1. Ground'
    BY GroundStep DEF OrderInv
  <1> SUFFICES ASSUME "twice" \notin mixed' PROVE Order'
    BY <1>1 DEF OrderInv
  <1>2. Ground /\ Order /\ TypeOK
    BY MixedGrows DEF OrderInv, Ground
  <1>3. CASE Evict \/ UNCHANGED vars
    BY <1>2, <1>3
       DEF Evict, vars, queue, timer, history, Order, OneEngine, OfEngine, At, AtPointer,
           Resolving, RowsFollow, Hammered, SalesBehind, ToCome, Behind, AtHand, InHand,
           Announced
  <1>4. ASSUME NEW r \in Runs, NEW x \in Run, Moved(r, x), Step(r, x)
        PROVE  Order'
    <2>1. CASE EngineStep(r, x)
      <3>1. CASE Settle(r) /\ x = [at |-> "settled", entry |-> run[r].entry, bid |-> run[r].bid]
        BY <1>2, <1>4, <3>1, SettleKeepsOrder
      <3>2. CASE Advance(r) /\ x = [at |-> "advanced", entry |-> run[r].entry, bid |-> run[r].bid]
        BY <1>2, <1>4, <3>2, AdvanceKeepsOrder
      <3>3. CASE MarkNext(r) /\ x = [at |-> "asleep"]
        BY <1>2, <1>4, <3>3, MarkNextKeepsOrder
      <3> QED
        BY <1>2, <1>4, <2>1, <3>1, <3>2, <3>3, EngineKeepsOrder DEF EngineStep
    <2> QED
      BY <1>2, <1>4, <2>1, BeginKeepsOrder, ClockKeepsOrder, SideKeepsOrder DEF Step
  <1> QED
    BY <1>2, <1>3, <1>4, StepMoves

LEMMA InitOrder == Init => Order
  <1> SUFFICES ASSUME Init PROVE Order
    OBVIOUS
  <1>1. N \in Nat \ {0} /\ position = 0 /\ handle = NoTimer /\ sales = {}
    BY QueueAssumption DEF Init
  <1>2. \A r \in Runs : run[r].at \in {"idle", "asleep"} /\ (run[r].at = "asleep" => r = First)
    BY DEF Init, Idle
  <1>3. OneEngine
    BY <1>2 DEF OneEngine, OfEngine, EngineStages, At
  <1>4. AtPointer
    BY <1>1, <1>2, NamesAssumption DEF AtPointer, At
  <1>5. RowsFollow
    <2>1. \A e \in Entries : e \in Nat /\ hammered[e] = 0 /\ status[e] = "pending"
      BY <1>1 DEF Init, Entries
    <2> QED
      BY <1>1, <1>2, <2>1
         DEF RowsFollow, Hammered, SalesBehind, ToCome, Behind, AtHand, InHand, At, Announced
  <1> QED
    BY <1>3, <1>4, <1>5 DEF Order

(* advanceQueue: unless a resolution begins during another, every player   *)
(* before the pointer was resolved once and none from it on, and between   *)
(* two resolutions the rows are those outcomes; whatever bids, expiries,   *)
(* pauses, resumes, extensions and ends overlap and whenever the queue is  *)
(* lost from Redis.                                                        *)
THEOREM QueueResolvedInOrder ==
  ASSUME ~TimersOverlap
  PROVE  Spec => []ResolvedInOrder
  <1>1. OrderInv => ResolvedInOrder
    <2> SUFFICES ASSUME Ground, Order, "twice" \notin mixed PROVE ResolvedInOrder
      BY DEF OrderInv, ResolvedInOrder
    <2>1. \A e \in Entries : hammered[e] = IF e < position THEN 1 ELSE 0
      BY DEF Order, RowsFollow, Hammered
    <2>2. ASSUME ~Resolving, NEW e \in Entries
          PROVE  status[e] = IF e > position THEN "pending"
                             ELSE IF e = position THEN IF e = 0 THEN "pending" ELSE "active"
                             ELSE IF Announced(e) THEN "sold"
                             ELSE "unsold"
      <3>1. \A r \in Runs : run[r].at \notin {"settled", "advanced"}
        BY <2>2 DEF Resolving
      <3>2. e \in Int /\ position \in Int
        BY QueueAssumption DEF Entries, Ground, TypeOK
      <3>3. CASE e > position
        BY <3>2, <3>3 DEF Order, RowsFollow, ToCome
      <3>4. CASE e = position
        BY <3>1, <3>2, <3>4 DEF Order, RowsFollow, AtHand
      <3>5. CASE e < position
        BY <3>1, <3>2, <3>5 DEF Order, RowsFollow, Behind, At
      <3> QED
        BY <3>2, <3>3, <3>4, <3>5
    <2> QED
      BY <2>1, <2>2 DEF ResolvedInOrder, Announced
  <1>2. Init => OrderInv
    BY InitGround, InitOrder DEF OrderInv
  <1>3. OrderInv /\ [Next]_vars => OrderInv'
    BY OrderStep
  <1> QED
    BY <1>1, <1>2, <1>3, PTL DEF Spec

-----------------------------------------------------------------------------
(* Bids: from a result to the next player no bid is let in or on its way,  *)
(* and otherwise every bid is on the player at the pointer.                *)

Open == {"player_up", "bidding"}

InBetween == \E r \in Runs : run[r].at \in Between

Closed == InBetween => auctionState \notin Open /\ ~BidInFlight

OnPlayerUp ==
    ~InBetween /\ position < N =>
        /\ currentPlayer = position
        /\ standing # NoBid => standing.player = position
        /\ \A r \in Runs : At(r, "bidding") => run[r].bid.player = position

Carried ==
    \A r \in Runs :
        run[r].at \in {"resolved", "settled", "advanced"} /\ run[r].bid # NoBid
           => run[r].bid.player = run[r].entry

OnOwnBid == Closed /\ OnPlayerUp /\ Carried /\ OwnBids

BidsInv == OrderInv /\ (mixed \cap {"twice", "late"} = {} => OnOwnBid)

LEMMA SideKeepsBids ==
  ASSUME Ground, OnOwnBid, NEW r \in Runs, NEW x, Moved(r, x), SideStep(r, x),
         "late" \notin mixed'
  PROVE  OnOwnBid'
  <1> USE DEF OnOwnBid, At
  <1>1. /\ UNCHANGED <<position, currentPlayer, sales>>
        /\ run[r].at \in OtherStages /\ x.at \in OtherStages
    <2>1. UNCHANGED <<position, currentPlayer, sales>>
      BY DEF SideStep, Check, Pause, Resume, Extend, End, Write, Stop, Freeze, Forget,
             MarkPaused, Unfreeze, Finish, queue, history
    <2>2. run[r].at \in OtherStages
      BY DEF SideStep, Write, Stop, Freeze, Forget, MarkPaused, Unfreeze, Finish,
             OtherStages, PauseStages, Idle
    <2>3. x.at \in OtherStages
      BY DEF SideStep, OtherStages, PauseStages, Idle
    <2> QED
      BY <2>1, <2>2, <2>3
  <1>2. InBetween' <=> InBetween
    BY <1>1 DEF InBetween, Between, Moved, OtherStages, PauseStages
  <1>3. Carried' /\ OwnBids'
    BY <1>1 DEF Carried, OwnBids, Moved, OtherStages, PauseStages
  <1>4. CASE x.at = "bidding"
    <2>1. /\ auctionState \in Open /\ x.bid.player = currentPlayer
          /\ UNCHANGED <<auctionState, standing>>
      <3>1. PICK f \in Franchises, bid \in Bids :
               Check(f) /\ bid.player = currentPlayer /\ x = [at |-> "bidding", bid |-> bid]
        BY <1>4 DEF SideStep, Idle
      <3> QED
        BY <3>1 DEF Check, Open
    <2>2. ~InBetween
      BY <2>1 DEF Closed
    <2>3. Closed'
      BY <1>2, <2>2 DEF Closed
    <2>4. OnPlayerUp'
      BY <1>1, <1>2, <1>4, <2>1, <2>2 DEF OnPlayerUp, Moved
    <2> QED
      BY <1>3, <2>3, <2>4
  <1>5. CASE x.at # "bidding"
    <2>1. BidInFlight' => BidInFlight
      BY <1>5 DEF BidInFlight, Moved
    <2>2. auctionState' \in Open => auctionState \in Open \/ ~InBetween
      <3>1. CASE Write(r)
        BY <3>1 DEF Write, Closed, BidInFlight
      <3>2. CASE Unfreeze(r)
        <4>1. ~Resolving
          BY <3>2 DEF Unfreeze, When
        <4> QED
          BY <4>1 DEF Resolving, InBetween, Between
      <3>3. CASE ~Write(r) /\ ~Unfreeze(r)
        BY <3>3 DEF SideStep, Check, Pause, Resume, Extend, End, Stop, Freeze, Forget,
                    MarkPaused, Finish, Open
      <3> QED
        BY <3>1, <3>2, <3>3
    <2>3. Closed'
      BY <1>2, <2>1, <2>2 DEF Closed
    <2>4. standing' # standing => At(r, "bidding") /\ standing' = run[r].bid
      BY DEF SideStep, Check, Pause, Resume, Extend, End, Write, Stop, Freeze, Forget,
             MarkPaused, Unfreeze, Finish
    <2>5. OnPlayerUp'
      BY <1>1, <1>2, <1>5, <2>4 DEF OnPlayerUp, Moved
    <2> QED
      BY <1>3, <2>3, <2>5
  <1> QED
    BY <1>4, <1>5

LEMMA BeginKeepsBids ==
  ASSUME Ground, OnOwnBid, NEW r \in Runs, NEW x, Moved(r, x), Begin(r, x) \/ ClockStep(r, x)
  PROVE  OnOwnBid'
  <1> USE DEF OnOwnBid, At
  <1>1. /\ UNCHANGED <<position, currentPlayer, auctionState, standing, sales>>
        /\ run[r].at \in {"idle", "start", "install"}
        /\ x.at \in {"expired", "install", "idle"}
    <2>1. CASE Begin(r, x)
      <3>1. run[r].at = "idle" /\ x.at = "expired"
        BY <2>1 DEF Begin, Idle
      <3>2. UNCHANGED <<position, currentPlayer, auctionState, standing, sales>>
        BY <2>1 DEF Begin, Fire, Skip, queue, history
      <3> QED
        BY <3>1, <3>2
    <2>2. CASE ClockStep(r, x)
      BY <2>2 DEF ClockStep, StartTimer, Install, Idle, queue, history
    <2> QED
      BY <2>1, <2>2
  <1>2. /\ InBetween' <=> InBetween
        /\ BidInFlight' <=> BidInFlight
    BY <1>1 DEF InBetween, Between, BidInFlight, Moved
  <1>3. Carried' /\ OwnBids'
    BY <1>1 DEF Carried, OwnBids, Moved
  <1>4. Closed' /\ OnPlayerUp'
    BY <1>1, <1>2 DEF Closed, OnPlayerUp, Moved
  <1> QED
    BY <1>3, <1>4

LEMMA EngineKeepsBids ==
  ASSUME Ground, Order, OnOwnBid, NEW r \in Runs, NEW x, Moved(r, x), EngineStep(r, x),
         "late" \notin mixed'
  PROVE  OnOwnBid'
  <1> USE DEF OnOwnBid, At
  <1>1. OfEngine(r)
    BY DEF EngineStep, OfEngine, EngineStages, Expire, Resolve, Settle, Advance, MarkNext,
           Wake, Complete, PutUp
  <1>2. \A s \in Runs : s # r => run[s].at \in OtherStages
    BY <1>1, EngineAlone
  <1>3. /\ InBetween <=> run[r].at \in Between
        /\ InBetween' <=> x.at \in Between
    BY <1>2 DEF InBetween, Between, Moved, OtherStages, PauseStages
  <1>4. BidInFlight' <=> BidInFlight
    BY <1>1 DEF BidInFlight, Moved, OfEngine, EngineStages, EngineStep, Idle
  <1>5. CASE Expire(r)
    <2>1. /\ UNCHANGED <<position, currentPlayer, auctionState, standing, sales>>
          /\ run[r].at = "expired" /\ x.at \in {"idle", "resolving"}
      BY <1>5 DEF Expire, EngineStep, Idle, history, Resolve, Settle, Advance, MarkNext, Wake,
                  Complete, PutUp
    <2>2. Carried' /\ OwnBids'
      BY <2>1 DEF Carried, OwnBids, Moved
    <2>3. Closed' /\ OnPlayerUp'
      BY <1>3, <2>1 DEF Closed, OnPlayerUp, Between, Moved
    <2> QED
      BY <2>2, <2>3
  <1>6. CASE Resolve(r) /\ x = [at |-> "resolved", entry |-> run[r].entry, bid |-> standing]
    <2>1. /\ run[r].at = "resolving" /\ auctionState' \in {"sold", "unsold"} /\ ~BidInFlight
          /\ UNCHANGED <<position, currentPlayer, standing, sales>>
      BY <1>6 DEF Resolve, When, history, queue
    <2>2. run[r].entry \in Entries /\ run[r].entry = position
      BY <2>1, RunFields DEF Order, AtPointer, Ground, TypeOK
    <2>3. position < N
      BY <2>2, QueueAssumption DEF Entries
    <2>4. Carried'
      BY <1>3, <1>6, <2>1, <2>2, <2>3 DEF Carried, OnPlayerUp, Between, Moved
    <2>5. Closed' /\ OnPlayerUp' /\ OwnBids'
      BY <1>3, <1>4, <1>6, <2>1 DEF Closed, OnPlayerUp, OwnBids, Open, Between
    <2> QED
      BY <2>4, <2>5
  <1>7. CASE \/ Settle(r) /\ x = [at |-> "settled", entry |-> run[r].entry, bid |-> run[r].bid]
             \/ Advance(r) /\ x = [at |-> "advanced", entry |-> run[r].entry, bid |-> run[r].bid]
             \/ MarkNext(r) /\ x = [at |-> "asleep"]
             \/ Wake(r) /\ x = [at |-> "next", entry |-> NextEntry]
    <2>1. /\ run[r].at \in Between /\ x.at \in Between
          /\ auctionState' = auctionState
          /\ x.at \in {"settled", "advanced"} =>
                /\ run[r].at \in {"resolved", "settled"}
                /\ x.entry = run[r].entry /\ x.bid = run[r].bid
          /\ x.at # "resolved"
      BY <1>7 DEF Settle, Advance, MarkNext, Wake, Between
    <2>2. Closed' /\ OnPlayerUp'
      BY <1>3, <1>4, <2>1 DEF Closed, OnPlayerUp
    <2>3. Carried'
      BY <2>1 DEF Carried, Moved
    <2>4. OwnBids'
      BY <1>7 DEF OwnBids, Carried, Settle, Advance, MarkNext, Wake, history
    <2> QED
      BY <2>2, <2>3, <2>4
  <1>8. CASE Complete(r) /\ x = Idle
    <2>1. /\ run[r].at = "asleep" /\ auctionState' = "complete" /\ position' = position
          /\ sales' = sales
      BY <1>8 DEF Complete, history
    <2>2. ~(position < N)
      BY <1>8, QueueRead, QueueAssumption DEF Complete, Ground, TypeOK
    <2>3. Carried' /\ OwnBids'
      BY <1>8, <2>1 DEF Carried, OwnBids, Moved, Idle
    <2>4. OnPlayerUp'
      BY <2>1, <2>2 DEF OnPlayerUp
    <2>5. Closed'
      BY <1>3, <1>8 DEF Closed, Between, Idle
    <2> QED
      BY <2>3, <2>4, <2>5
  <1>9. CASE PutUp(r) /\ x = [at |-> "start", callback |-> run[r].entry]
    <2>1. /\ run[r].at = "next" /\ currentPlayer' = run[r].entry /\ standing' = NoBid
          /\ UNCHANGED <<position, sales>>
      BY <1>9 DEF PutUp, queue, history
    <2>2. ~BidInFlight
      BY <1>3, <2>1 DEF Closed, Between
    <2>3. run[r].entry = position
      BY <2>1 DEF Order, AtPointer
    <2>4. Closed'
      BY <1>3, <1>9 DEF Closed, Between
    <2>5. OnPlayerUp'
      BY <1>4, <2>1, <2>2, <2>3 DEF OnPlayerUp, BidInFlight
    <2>6. Carried' /\ OwnBids'
      BY <1>9, <2>1 DEF Carried, OwnBids, Moved
    <2> QED
      BY <2>4, <2>5, <2>6
  <1> QED
    BY <1>5, <1>6, <1>7, <1>8, <1>9 DEF EngineStep

LEMMA BidsStep ==
  ASSUME ~TimersOverlap, BidsInv, [Next]_vars
  PROVE  BidsInv'
  <1>1. OrderInv'
    BY OrderStep DEF BidsInv
  <1> SUFFICES ASSUME mixed' \cap {"twice", "late"} = {} PROVE OnOwnBid'
    BY <1>1 DEF BidsInv
  <1>2. Ground /\ TypeOK
    BY DEF BidsInv, OrderInv, Ground
  <1>3. Order /\ OnOwnBid
    BY <1>2, MixedGrows DEF BidsInv, OrderInv
  <1>4. CASE Evict \/ UNCHANGED vars
    BY <1>3, <1>4
       DEF Evict, vars, queue, timer, history, OnOwnBid, Closed, OnPlayerUp, Carried, OwnBids,
           InBetween, BidInFlight, At
  <1>5. ASSUME NEW r \in Runs, NEW x \in Run, Moved(r, x), Step(r, x)
        PROVE  OnOwnBid'
    BY <1>2, <1>3, <1>5, SideKeepsBids, BeginKeepsBids, EngineKeepsBids DEF Step
  <1> QED
    BY <1>2, <1>4, <1>5, StepMoves

(* processPlayerSold: a player is sold only on a bid made on that player,  *)
(* however bids, expiries and controls overlap, unless a resolution began  *)
(* during another or while a bid on the player was being written.          *)
THEOREM SalesOnOwnBids ==
  ASSUME ~TimersOverlap
  PROVE  Spec => []SoldOnOwnBid
  <1>1. Init => BidsInv
    <2> SUFFICES ASSUME Init PROVE OnOwnBid
      BY InitGround, InitOrder DEF BidsInv, OrderInv
    <2>1. \A r \in Runs : run[r].at \in {"idle", "asleep"}
      BY DEF Init, Idle
    <2>2. InBetween
      BY RunsAssumption DEF Init, InBetween, Between, First
    <2> QED
      BY <2>1, <2>2
         DEF Init, OnOwnBid, Closed, OnPlayerUp, Carried, OwnBids, BidInFlight, At, Open
  <1>2. BidsInv /\ [Next]_vars => BidsInv'
    BY BidsStep
  <1>3. BidsInv => SoldOnOwnBid
    BY DEF BidsInv, OnOwnBid, SoldOnOwnBid
  <1> QED
    BY <1>1, <1>2, <1>3, PTL DEF Spec

-----------------------------------------------------------------------------
(* Frozen: a pause that begins with nothing under way is alone to its end, *)
(* and what it stopped stays stopped.                                      *)

PauseAlone ==
    \A r, s \in Runs : run[r].at \in PauseStages /\ s # r => run[s] = Idle

ClockStopped ==
    \A r \in Runs : run[r].at \in {"stopped", "frozen", "undated"} => handle = NoTimer

KnowsPaused == \A r \in Runs : At(r, "freeze") /\ paused => run[r].left

StaysPaused ==
    paused =>
        /\ handle = NoTimer
        /\ \A r \in Runs : run[r].at \in PauseStages \cup {"idle", "resuming", "ending"}
        /\ ~Pausing => auctionState = "paused"

Frozen == PauseAlone /\ ClockStopped /\ KnowsPaused /\ StaysPaused

FrozenInv == Ground /\ ("pause" \notin mixed => Frozen)

(* Only the pause itself goes on while one is under way. *)
LEMMA OthersWait ==
  ASSUME PauseAlone, NEW r \in Runs, NEW x, Step(r, x), "pause" \notin mixed',
         run[r].at \notin PauseStages
  PROVE  ~Pausing
  <1> USE DEF At
  <1>1. CASE run[r] = Idle
    <2>1. \/ \E c \in Callback : Fire(c)
          \/ \E f \in Franchises : Check(f)
          \/ Pause \/ Resume \/ Extend \/ End \/ Skip
      BY <1>1
         DEF Step, EngineStep, Begin, ClockStep, SideStep, Expire, Resolve, Settle, Advance,
             MarkNext, Wake, Complete, PutUp, StartTimer, Install, Write, Stop, Freeze, Forget,
             MarkPaused, Unfreeze, Finish, Idle
    <2> QED
      BY <2>1 DEF Fire, Check, Pause, Resume, Extend, End, Skip, Control, When
  <1>2. CASE run[r] # Idle
    BY <1>2 DEF PauseAlone, Pausing, PauseStages
  <1> QED
    BY <1>1, <1>2

LEMMA FrozenStep ==
  ASSUME ~TimersOverlap, FrozenInv, [Next]_vars
  PROVE  FrozenInv'
  <1> USE DEF At, Frozen
  <1>1. Ground'
    BY GroundStep DEF FrozenInv
  <1> SUFFICES ASSUME "pause" \notin mixed' PROVE Frozen'
    BY <1>1 DEF FrozenInv
  <1>2. Ground /\ TypeOK /\ Frozen
    BY MixedGrows DEF FrozenInv, Ground
  <1>3. CASE Evict \/ UNCHANGED vars
    BY <1>2, <1>3
       DEF Evict, vars, timer, PauseAlone, ClockStopped, KnowsPaused, StaysPaused, Pausing
  <1>4. ASSUME NEW r \in Runs, NEW x \in Run, Moved(r, x), Step(r, x)
        PROVE  Frozen'
    <2>1. ASSUME ~Pausing, x.at \notin PauseStages, ~paused'
          PROVE  Frozen'
      <3>1. \A s \in Runs : run'[s].at \notin PauseStages
        BY <1>4, <2>1 DEF Moved, Pausing, PauseStages
      <3> QED
        BY <2>1, <3>1 DEF PauseAlone, ClockStopped, KnowsPaused, StaysPaused, PauseStages
    <2>2. CASE EngineStep(r, x) \/ ClockStep(r, x) \/ Write(r)
      <3>1. /\ run[r].at \notin PauseStages \cup {"idle", "resuming", "ending"}
            /\ paused' = paused
        BY <2>2
           DEF EngineStep, ClockStep, Expire, Resolve, Settle, Advance, MarkNext, Wake,
               Complete, PutUp, StartTimer, Install, Write, timer, PauseStages
      <3>2. ~Pausing /\ ~paused'
        BY <1>2, <1>4, <3>1, OthersWait DEF StaysPaused
      <3>3. x.at \notin PauseStages
        BY <1>4, <2>2, <3>1 DEF EngineStep, ClockStep, SideStep, Step, Begin, PauseStages, Idle,
               Stop, Freeze, Forget, MarkPaused, Unfreeze, Finish, Write
      <3> QED
        BY <2>1, <3>2, <3>3
    <2>3. CASE Begin(r, x)
      <3>1. run[r].at \notin PauseStages /\ x.at \notin PauseStages
        BY <2>3 DEF Begin, Idle, PauseStages
      <3>2. ~paused'
        <4>1. CASE Skip
          BY <4>1 DEF Skip
        <4>2. CASE \E c \in Callback : Fire(c)
          BY <1>2, <4>2, NamesAssumption
             DEF Fire, StaysPaused, Ground, OneInstall, Callback
        <4> QED
          BY <2>3, <4>1, <4>2 DEF Begin
      <3> QED
        BY <1>2, <1>4, <2>1, <3>1, <3>2, OthersWait
    <2>4. CASE Unfreeze(r) \/ Finish(r)
      <3>1. run[r].at \notin PauseStages /\ ~paused'
        BY <2>4 DEF Unfreeze, Finish, PauseStages
      <3>2. x.at \notin PauseStages
        BY <1>4, <2>4 DEF Step, EngineStep, Begin, ClockStep, SideStep, Unfreeze, Finish, Expire,
               Resolve, Settle, Advance, MarkNext, Wake, Complete, PutUp, StartTimer, Install,
               Write, Stop, Freeze, Forget, MarkPaused, PauseStages, Idle
      <3> QED
        BY <1>2, <1>4, <2>1, <3>1, <3>2, OthersWait
    <2>5. CASE /\ run[r] = Idle
               /\ \/ \E f \in Franchises, bid \in Bids :
                        Check(f) /\ x = [at |-> "bidding", bid |-> bid]
                  \/ Extend /\ x = [at |-> "start", callback |-> Requeue]
      <3>1. run[r].at \notin PauseStages /\ x.at \notin PauseStages
        BY <2>5 DEF Idle, PauseStages
      <3>2. ~Pausing
        BY <1>2, <1>4, <3>1, OthersWait
      <3>3. ~paused'
        <4>1. CASE Extend
          BY <4>1 DEF Extend, Control, When, timer
        <4>2. CASE \E f \in Franchises : Check(f)
          BY <1>2, <3>2, <4>2 DEF Check, StaysPaused, timer
        <4> QED
          BY <2>5, <4>1, <4>2
      <3> QED
        BY <2>1, <3>1, <3>2, <3>3
    <2>6. CASE /\ run[r] = Idle
               /\ \/ Resume /\ x = [at |-> "resuming"]
                  \/ End /\ x = [at |-> "ending"]
      <3>1. /\ run[r].at = "idle" /\ x.at \in {"resuming", "ending"}
            /\ handle' \in {handle, NoTimer}
            /\ UNCHANGED <<paused, auctionState>>
        BY <2>6 DEF Idle, Resume, End, timer
      <3>2. ~Pausing
        BY <1>2, <1>4, <3>1, OthersWait DEF PauseStages
      <3>3. \A s \in Runs : run'[s].at \notin PauseStages
        BY <1>4, <3>1, <3>2 DEF Moved, Pausing, PauseStages
      <3> QED
        BY <1>2, <1>4, <3>1, <3>2, <3>3
           DEF PauseAlone, ClockStopped, KnowsPaused, StaysPaused, PauseStages, Moved
    <2>7. CASE \E left \in BOOLEAN :
                  /\ run[r] = Idle
                  /\ Pause /\ (paused => left)
                  /\ x = [at |-> "freeze", left |-> left]
      <3>1. \A s \in Runs : run[s] = Idle
        BY <2>7 DEF Pause, Control, When, AllIdle
      <3>2. UNCHANGED <<handle, paused>>
        BY <2>7 DEF Pause
      <3>3. x.at = "freeze" /\ (paused => x.left)
        BY <2>7
      <3>4. run'[r] = x /\ \A s \in Runs : s # r => run'[s] = Idle
        BY <1>4, <3>1 DEF Moved
      <3>5. PauseAlone' /\ ClockStopped'
        BY <3>3, <3>4 DEF PauseAlone, ClockStopped, PauseStages, Idle
      <3>6. KnowsPaused'
        BY <3>2, <3>3, <3>4 DEF KnowsPaused, Idle
      <3>7. Pausing' /\ \A s \in Runs : run'[s].at \in {"freeze", "idle"}
        BY <3>3, <3>4 DEF Pausing, Idle
      <3>8. StaysPaused'
        BY <1>2, <3>2, <3>7 DEF StaysPaused, PauseStages
      <3> QED
        BY <3>5, <3>6, <3>8
    <2>8. ASSUME run[r].at \in PauseStages
          PROVE  /\ \A s \in Runs : s # r => run[s] = Idle /\ run'[s] = Idle
                 /\ run'[r] = x
                 /\ x.at = "idle" => ~Pausing'
      <3>1. \A s \in Runs : s # r => run[s] = Idle /\ run'[s] = Idle
        BY <1>2, <1>4, <2>8 DEF PauseAlone, Moved
      <3> QED
        BY <1>4, <3>1 DEF Moved, Pausing, Idle
    <2>9. CASE Stop(r) /\ x = IF run[r].left THEN [at |-> "stopped"] ELSE Idle
      <3>1. /\ run[r].at = "freeze" /\ run[r].at \in PauseStages /\ handle' = NoTimer
            /\ UNCHANGED <<paused, auctionState>>
        BY <2>9 DEF Stop, PauseStages
      <3>2. paused => x.at = "stopped"
        BY <1>2, <2>9, <3>1 DEF KnowsPaused
      <3>3. x.at \in {"stopped", "idle"}
        BY <2>9 DEF Idle
      <3> QED
        BY <2>8, <3>1, <3>2, <3>3
           DEF PauseAlone, ClockStopped, KnowsPaused, StaysPaused, PauseStages, Pausing, Idle
    <2>10. CASE \/ Freeze(r) /\ x = [at |-> "frozen"]
                \/ Forget(r) /\ x = [at |-> "undated"]
      <3>1. /\ run[r].at \in {"stopped", "frozen"} /\ run[r].at \in PauseStages
            /\ x.at \in {"frozen", "undated"} /\ handle' = handle
        BY <2>10 DEF Freeze, Forget, PauseStages
      <3>2. handle = NoTimer
        BY <1>2, <3>1 DEF ClockStopped
      <3>3. Pausing'
        BY <2>8, <3>1 DEF Pausing
      <3> QED
        BY <2>8, <3>1, <3>2, <3>3
           DEF PauseAlone, ClockStopped, KnowsPaused, StaysPaused, PauseStages, Idle
    <2>11. CASE MarkPaused(r) /\ x = Idle
      <3>1. /\ run[r].at = "undated" /\ run[r].at \in PauseStages
            /\ handle' = handle /\ auctionState' = "paused"
        BY <2>11 DEF MarkPaused, PauseStages, timer
      <3>2. handle = NoTimer
        BY <1>2, <3>1 DEF ClockStopped
      <3> QED
        BY <2>8, <2>11, <3>1, <3>2
           DEF PauseAlone, ClockStopped, KnowsPaused, StaysPaused, PauseStages, Idle
    <2> QED
      BY <1>4, <2>2, <2>3, <2>4, <2>5, <2>6, <2>7, <2>9, <2>10, <2>11 DEF Step, SideStep
  <1> QED
    BY <1>2, <1>3, <1>4, StepMoves

(* pauseTimer, README "Pause Freeze Guarantee": while the seconds are      *)
(* frozen nothing counts down and no run can resolve the player, write a   *)
(* bid or start a countdown but the resume's; unless a pause met another   *)
(* run or the host extended the pause.                                     *)
THEOREM PauseFreezes ==
  ASSUME ~TimersOverlap
  PROVE  Spec => []PausedIsFrozen
  <1>1. Init => FrozenInv
    BY InitGround
       DEF FrozenInv, Init, Frozen, PauseAlone, ClockStopped, KnowsPaused, StaysPaused, Idle,
           At, PauseStages
  <1>2. FrozenInv /\ [Next]_vars => FrozenInv'
    BY FrozenStep
  <1>3. FrozenInv => PausedIsFrozen
    BY DEF FrozenInv, Frozen, StaysPaused, PausedIsFrozen, Ground, OneInstall, PauseStages
  <1> QED
    BY <1>1, <1>2, <1>3, PTL DEF Spec

-----------------------------------------------------------------------------
(* Over: an end that begins with nothing under way is alone, and nothing   *)
(* is left to go on after it.                                              *)

EndAlone ==
    /\ \A r, s \in Runs : At(r, "ending") /\ s # r => run[s] = Idle
    /\ Ending => handle = NoTimer

NothingLeft == auctionState = "complete" => AllIdle /\ handle = NoTimer

Over == EndAlone /\ NothingLeft

OverInv == Ground /\ ("end" \notin mixed => Over)

(* Neither during an end nor after it does anything else begin. *)
LEMMA NothingBegins ==
  ASSUME Ground, Over, NEW r \in Runs, NEW x, Step(r, x), "end" \notin mixed'
  PROVE  auctionState # "complete" /\ (~At(r, "ending") => ~Ending)
  <1> USE DEF At, Over
  <1>1. CASE run[r] = Idle
    <2>1. \/ \E c \in Callback : Fire(c)
          \/ \E f \in Franchises : Check(f)
          \/ Pause \/ Resume \/ Extend \/ End \/ Skip
      BY <1>1
         DEF Step, EngineStep, Begin, ClockStep, SideStep, Expire, Resolve, Settle, Advance,
             MarkNext, Wake, Complete, PutUp, StartTimer, Install, Write, Stop, Freeze, Forget,
             MarkPaused, Unfreeze, Finish, Idle
    <2>2. CASE \E c \in Callback : Fire(c)
      BY <2>2, NamesAssumption
         DEF Fire, When, NothingLeft, Ground, OneInstall, Callback
    <2>3. CASE \E f \in Franchises : Check(f)
      BY <2>3 DEF Check, When
    <2>4. CASE Pause \/ Resume \/ Extend \/ End \/ Skip
      BY <2>4 DEF Pause, Resume, Extend, End, Skip, Control, When
    <2> QED
      BY <2>1, <2>2, <2>3, <2>4
  <1>2. CASE run[r] # Idle
    BY <1>2 DEF EndAlone, NothingLeft, Ending, AllIdle
  <1> QED
    BY <1>1, <1>2

LEMMA OverStep ==
  ASSUME ~TimersOverlap, OverInv, [Next]_vars
  PROVE  OverInv'
  <1> USE DEF At, Over
  <1>1. Ground'
    BY GroundStep DEF OverInv
  <1> SUFFICES ASSUME "end" \notin mixed' PROVE Over'
    BY <1>1 DEF OverInv
  <1>2. Ground /\ TypeOK /\ Over
    BY MixedGrows DEF OverInv, Ground
  <1>3. CASE Evict \/ UNCHANGED vars
    BY <1>2, <1>3 DEF Evict, vars, timer, EndAlone, Ending, NothingLeft, AllIdle
  <1>4. ASSUME NEW r \in Runs, NEW x \in Run, Moved(r, x), Step(r, x)
        PROVE  Over'
    <2>1. auctionState # "complete" /\ (~At(r, "ending") => ~Ending)
      BY <1>2, <1>4, NothingBegins
    <2>2. ASSUME ~Ending, x.at # "ending", auctionState' # "complete"
          PROVE  Over'
      BY <1>4, <2>2 DEF EndAlone, NothingLeft, Ending, Moved
    <2>3. CASE Complete(r) /\ x = Idle
      <3>1. /\ run[r].at = "asleep" /\ handle' = handle /\ handle = NoTimer
            /\ \A s \in Runs : s # r => run[s] = Idle
        BY <2>3 DEF Complete, When, OtherBusy, timer
      <3>2. \A s \in Runs : run'[s] = Idle
        BY <1>4, <2>3, <3>1 DEF Moved
      <3> QED
        BY <3>1, <3>2 DEF EndAlone, NothingLeft, Ending, AllIdle, Idle
    <2>4. CASE Finish(r) /\ x = Idle
      <3>1. /\ run[r].at = "ending" /\ handle' = handle /\ handle = NoTimer
            /\ \A s \in Runs : s # r => run[s] = Idle
        BY <1>2, <2>4 DEF Finish, EndAlone, Ending
      <3>2. \A s \in Runs : run'[s] = Idle
        BY <1>4, <2>4, <3>1 DEF Moved
      <3> QED
        BY <3>1, <3>2 DEF EndAlone, NothingLeft, Ending, AllIdle, Idle
    <2>5. CASE run[r] = Idle /\ End /\ x = [at |-> "ending"]
      <3>1. handle' = NoTimer /\ auctionState' = auctionState
        BY <2>5 DEF End
      <3>2. \A s \in Runs : run[s] = Idle
        BY <2>5 DEF End, Control, When, AllIdle
      <3> QED
        BY <1>4, <2>1, <3>1, <3>2 DEF EndAlone, NothingLeft, Moved, Idle
    <2>6. CASE ~Complete(r) /\ ~Finish(r) /\ ~(run[r] = Idle /\ x = [at |-> "ending"])
      <3>1. x.at # "ending"
        BY <1>4, <2>6 DEF Step, EngineStep, Begin, ClockStep, SideStep, Idle
      <3>2. run[r].at # "ending"
        BY <1>4, <2>6
           DEF Step, EngineStep, Begin, ClockStep, SideStep, Expire, Resolve, Settle, Advance,
               MarkNext, Wake, PutUp, StartTimer, Install, Write, Stop, Freeze, Forget,
               MarkPaused, Unfreeze, Idle
      <3>3. auctionState' # "complete"
        BY <1>4, <2>1, <2>6
           DEF Step, EngineStep, Begin, ClockStep, SideStep, Expire, Resolve, Settle, Advance,
               MarkNext, Wake, PutUp, Fire, Skip, StartTimer, Install, Check, Pause, Resume,
               Extend, End, Write, Stop, Freeze, Forget, MarkPaused, Unfreeze
      <3> QED
        BY <2>1, <2>2, <3>1, <3>2, <3>3
    <2>7. Complete(r) => x = Idle
      BY <1>4 DEF Step, EngineStep, Begin, ClockStep, SideStep, Complete, Expire, Resolve,
                  Settle, Advance, MarkNext, Wake, PutUp, StartTimer, Install, Write, Stop,
                  Freeze, Forget, MarkPaused, Unfreeze, Finish, Idle
    <2>8. Finish(r) => x = Idle
      BY <1>4 DEF Step, EngineStep, Begin, ClockStep, SideStep, Complete, Expire, Resolve,
                  Settle, Advance, MarkNext, Wake, PutUp, StartTimer, Install, Write, Stop,
                  Freeze, Forget, MarkPaused, Unfreeze, Finish, Idle
    <2>9. ASSUME run[r] = Idle, x = [at |-> "ending"]
          PROVE  End
      <3>1. x.at = "ending"
        BY <2>9
      <3> HIDE <2>9
      <3> QED
        BY <1>4, <3>1 DEF Step, EngineStep, Begin, ClockStep, SideStep, Idle
    <2> QED
      BY <2>3, <2>4, <2>5, <2>6, <2>7, <2>8, <2>9
  <1> QED
    BY <1>2, <1>3, <1>4, StepMoves

LEMMA InitOver == Init => OverInv
  BY InitGround
     DEF OverInv, Over, EndAlone, NothingLeft, Ending, Init, Idle, At

(* endAuction: what is complete is not taken up again, however the end was *)
(* reached, unless it met another run or a countdown, or a control came    *)
(* after it.                                                               *)
THEOREM CompleteStaysComplete ==
  ASSUME ~TimersOverlap
  PROVE  Spec => CompleteIsFinal
  <1>1. OverInv /\ [Next]_vars
          => [auctionState = "complete" /\ "end" \notin mixed => auctionState' = "complete"]_vars
    <2> SUFFICES ASSUME OverInv, [Next]_vars, auctionState = "complete", "end" \notin mixed
                 PROVE  auctionState' = "complete"
      OBVIOUS
    <2>1. Ground /\ TypeOK /\ \A r \in Runs : run[r] = Idle
      BY DEF OverInv, Over, NothingLeft, AllIdle, Ground
    <2>2. CASE Evict \/ UNCHANGED vars
      BY <2>2 DEF Evict, vars
    <2>3. ASSUME NEW r \in Runs, NEW x \in Run, Moved(r, x), Step(r, x)
          PROVE  auctionState' = "complete"
      <3>1. run[r].at = "idle"
        BY <2>1 DEF Idle
      <3> QED
        BY <2>3, <3>1
           DEF Step, EngineStep, Begin, ClockStep, SideStep, At, Expire, Resolve, Settle,
               Advance, MarkNext, Wake, Complete, PutUp, Fire, Skip, StartTimer, Install,
               Check, Pause, Resume, Extend, End, Write, Stop, Freeze, Forget, MarkPaused,
               Unfreeze, Finish
    <2> QED
      BY <2>1, <2>2, <2>3, StepMoves
  <1>2. OverInv /\ [Next]_vars => OverInv'
    BY OverStep
  <1> QED
    BY <1>1, <1>2, InitOver, PTL DEF Spec, CompleteIsFinal

-----------------------------------------------------------------------------
(* Going: something leads on, to the next result while there are players   *)
(* and to the end of the auction when there are none.                      *)

ToEnd == {"resolving", "resolved", "settled", "advanced", "asleep"}

Leads == ToEnd \cup {"expired", "next", "start", "install", "stopped", "ending"}

Going ==
    \/ auctionState = "complete"
    \/ \E r \in Runs : run[r].at \in ToEnd
    \/ /\ position < N
       /\ paused \/ handle # NoTimer \/ \E r \in Runs : run[r].at \in Leads

GoingInv == OverInv /\ (mixed \cap {"deadline", "end"} = {} => Going)

LEMMA GoingStep ==
  ASSUME ~TimersOverlap, GoingInv, [Next]_vars
  PROVE  GoingInv'
  <1> USE DEF At
  <1>1. OverInv'
    BY OverStep DEF GoingInv
  <1> SUFFICES ASSUME mixed' \cap {"deadline", "end"} = {} PROVE Going'
    BY <1>1 DEF GoingInv
  <1>2. Ground /\ TypeOK
    BY DEF GoingInv, OverInv, Ground
  <1>3. Over /\ Going
    BY <1>2, MixedGrows DEF GoingInv, OverInv
  <1>4. CASE Evict \/ UNCHANGED vars
    BY <1>3, <1>4 DEF Evict, vars, queue, timer, Going
  <1>5. ASSUME NEW r \in Runs, NEW x \in Run, Moved(r, x), Step(r, x)
        PROVE  Going'
    <2>1. auctionState # "complete"
      BY <1>2, <1>3, <1>5, NothingBegins
    <2>2. position \in Nat /\ N \in Nat /\ (Exhausted <=> position >= N)
      BY <1>2, QueueRead, QueueAssumption DEF Ground, TypeOK
    <2>3. ASSUME x.at \in ToEnd PROVE Going'
      BY <1>5, <2>3 DEF Going, Moved
    <2>4. ASSUME position' < N, x.at \in Leads PROVE Going'
      BY <1>5, <2>4 DEF Going, Moved
    <2>5. ASSUME NEW s \in Runs, s # r, run[s].at \in ToEnd PROVE Going'
      BY <1>5, <2>5 DEF Going, Moved
    <2>6. CASE run[r].at \in ToEnd
      <3>1. \/ x.at \in ToEnd
            \/ Wake(r) /\ x = [at |-> "next", entry |-> NextEntry]
            \/ Complete(r)
        BY <1>5, <2>6
           DEF Step, EngineStep, Begin, ClockStep, SideStep, Expire, PutUp, StartTimer, Install,
               Write, Stop, Freeze, Forget, MarkPaused, Unfreeze, Finish, ToEnd, Idle
      <3>2. CASE Wake(r) /\ x = [at |-> "next", entry |-> NextEntry]
        BY <2>2, <2>4, <3>2 DEF Wake, Leads
      <3>3. CASE Complete(r)
        BY <3>3 DEF Complete, Going
      <3> QED
        BY <2>3, <3>1, <3>2, <3>3
    <2>7. CASE \A s \in Runs : run[s].at \notin ToEnd
      <3>1. position < N /\ (paused \/ handle # NoTimer \/ \E s \in Runs : run[s].at \in Leads)
        BY <1>3, <2>1, <2>7 DEF Going
      <3>2. position' = position
        BY <1>5, <2>7
           DEF Step, EngineStep, Begin, ClockStep, SideStep, Expire, Resolve, Settle, Advance,
               MarkNext, Wake, Complete, PutUp, Fire, Skip, StartTimer, Install, Check, Pause,
               Resume, Extend, End, Write, Stop, Freeze, Forget, MarkPaused, Unfreeze, Finish,
               queue, ToEnd
      <3>3. CASE Begin(r, x)
        BY <2>4, <3>1, <3>2, <3>3 DEF Begin, Leads
      <3>4. CASE ClockStep(r, x)
        <4>1. CASE StartTimer(r)
          BY <2>4, <3>1, <3>2, <3>4, <4>1 DEF ClockStep, Leads, StartTimer, Install
        <4>2. CASE Install(r)
          <5>1. run[r].callback # NoTimer
            BY <1>2, <4>2, RunFields, NamesAssumption DEF Install, TypeOK, Callback
          <5> QED
            BY <3>1, <3>2, <4>2, <5>1 DEF Install, Going
        <4> QED
          BY <3>4, <4>1, <4>2 DEF ClockStep
      <3>5. CASE EngineStep(r, x)
        <4>1. CASE Expire(r)
          <5>1. ~Exhausted
            BY <2>2, <3>1
          <5>2. run'[r].at = "resolving"
            BY <1>2, <4>1, <5>1 DEF Expire, Goto, TypeOK
          <5> QED
            BY <5>2 DEF Going, ToEnd
        <4>2. CASE PutUp(r)
          BY <2>4, <2>7, <3>1, <3>2, <3>5, <4>2
             DEF EngineStep, PutUp, Expire, Resolve, Settle, Advance, MarkNext, Wake, Complete,
                 Leads
        <4> QED
          BY <2>7, <3>5, <4>1, <4>2
             DEF EngineStep, Resolve, Settle, Advance, MarkNext, Wake, Complete, ToEnd
      <3>6. CASE SideStep(r, x)
        <4>1. CASE Freeze(r)
          BY <3>1, <3>2, <4>1 DEF Freeze, Going
        <4>2. CASE Finish(r)
          BY <4>2 DEF Finish, Going
        <4>3. ASSUME ~Freeze(r), ~Finish(r), x.at \notin Leads
              PROVE  Going'
          <5>1. \/ /\ run[r] = Idle
                   /\ (\E f \in Franchises : Check(f)) \/ Pause \/ Resume
                \/ Write(r) \/ Forget(r) \/ MarkPaused(r)
                \/ Stop(r) /\ ~run[r].left
            BY <3>6, <4>3 DEF SideStep, Leads
          <5>2. run[r].at \notin Leads
            BY <5>1 DEF Write, Forget, MarkPaused, Stop, Leads, ToEnd, Idle
          <5>3. paused' = paused
            BY <5>1 DEF Check, Pause, Resume, Write, Forget, MarkPaused, Stop, timer
          <5>4. handle' = handle
            <6>1. CASE Stop(r) /\ ~run[r].left
              BY <6>1 DEF Stop, When
            <6> QED
              BY <5>1, <6>1 DEF Check, Pause, Resume, Write, Forget, MarkPaused, timer
          <5>5. (\E s \in Runs : run[s].at \in Leads) => \E s \in Runs : run'[s].at \in Leads
            BY <1>5, <5>2 DEF Moved
          <5> QED
            BY <3>1, <3>2, <5>3, <5>4, <5>5 DEF Going
        <4> QED
          BY <2>4, <3>1, <3>2, <4>1, <4>2, <4>3
      <3> QED
        BY <1>5, <3>3, <3>4, <3>5, <3>6 DEF Step
    <2> QED
      BY <2>5, <2>6, <2>7
  <1> QED
    BY <1>2, <1>4, <1>5, StepMoves

(* An auction that is neither over nor paused has a countdown, or a run    *)
(* that leads to one, whatever overlaps, unless a pause found no seconds   *)
(* to freeze or an end overlapped something.                               *)
THEOREM FloorNeverStalls ==
  ASSUME ~TimersOverlap
  PROVE  Spec => []NeverStalls
  <1>1. Init => GoingInv
    BY InitOver, RunsAssumption DEF GoingInv, Going, Init, ToEnd, First
  <1>2. GoingInv /\ [Next]_vars => GoingInv'
    BY GoingStep
  <1>3. GoingInv => NeverStalls
    BY DEF GoingInv, Going, NeverStalls, AllIdle, Idle, ToEnd, Leads
  <1> QED
    BY <1>1, <1>2, <1>3, PTL DEF Spec

=============================================================================
