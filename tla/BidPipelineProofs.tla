-------------------------- MODULE BidPipelineProofs --------------------------
(***************************************************************************)
(* The bid pipeline for any number of franchises, players and concurrent   *)
(* bids: what the lock gives as long as it is neither lost nor deleted     *)
(* under its holder, and what the whole pipeline gives when the countdown  *)
(* does not run out on a bid in flight.                                    *)
(***************************************************************************)
EXTENDS BidPipeline, FiniteSetTheorems, TLAPS

LockKept == ~LockExpires /\ ~TeardownsRace

Orderly == LockKept /\ ~ExpiryRaces /\ ~SlowHandlers

(* From NextPlayer to Resolve there is a player up, and the buyer of a     *)
(* sale is a franchise.                                                    *)
LotKnown ==
    /\ engine \notin {"pause", "done"} => entry \in Players
    /\ engine = "sold" => expiry.bidder \in Franchises

(* Whoever is past a won acquireLock is the one the mirror names. *)
LockHeld == \A h \in Handlers : handler[h].stage \in Critical => mirror = h

-----------------------------------------------------------------------------
(* Amounts in whole lakhs *)

(* parseInt keeps the whole lakhs of an amount, and less than a lakh is    *)
(* lost.                                                                   *)
LEMMA WholeBounds ==
  ASSUME NEW a \in Nat
  PROVE  /\ Whole(a) \in Nat /\ Whole(a) <= a
         /\ \E k \in Nat : Whole(a) = LAKH * k /\ a < LAKH * k + LAKH
  <1> DEFINE k == a \div LAKH
             r == a % LAKH
             p == LAKH * k
  <1>1. k \in Nat /\ r \in Nat /\ r < LAKH /\ a = p + r /\ LAKH \in Nat
    BY UnitsAssumption
  <1>2. p \in Nat
    BY <1>1
  <1>3. Whole(a) = a - r
    BY DEF Whole
  <1> HIDE DEF r, k
  <1>4. \A q \in Nat : a = q + r => a - r = q /\ q <= a /\ a < q + LAKH
    BY <1>1
  <1>5. Whole(a) = p /\ p <= a /\ a < p + LAKH
    <2> HIDE DEF p
    <2> QED
      BY <1>1, <1>2, <1>3, <1>4
  <1> QED
    BY <1>1, <1>2, <1>5

LEMMA WholeMultiple ==
  ASSUME NEW a \in Nat, a % LAKH = 0
  PROVE  Whole(a) = a /\ \E k \in Nat : a = LAKH * k
  <1>1. Whole(a) = a
    BY DEF Whole
  <1> QED
    BY <1>1, WholeBounds

LEMMA NextMultiple ==
  ASSUME NEW k \in Nat, NEW m \in Nat, k < m
  PROVE  LAKH * k + LAKH <= LAKH * m
  <1>1. \A d \in Nat : /\ LAKH * (k + 1 + d) = LAKH * k + LAKH + LAKH * d
                       /\ LAKH * d \in Nat /\ LAKH * k \in Nat
    BY UnitsAssumption
  <1>2. m - k - 1 \in Nat /\ k + 1 + (m - k - 1) = m
    OBVIOUS
  <1> QED
    BY <1>1, <1>2, UnitsAssumption

(* An amount that reaches a whole bound reaches it in whole lakhs.         *)
LEMMA WholeReaches ==
  ASSUME NEW a \in Nat, NEW b \in Nat, b % LAKH = 0, a >= b
  PROVE  Whole(a) >= b
  <1>1. PICK k \in Nat : Whole(a) = LAKH * k /\ a < LAKH * k + LAKH
    BY WholeBounds
  <1>2. PICK m \in Nat : b = LAKH * m
    BY WholeMultiple
  <1>3. ~(k < m)
    BY <1>1, <1>2, NextMultiple, UnitsAssumption
  <1>4. m < k => LAKH * m + LAKH <= LAKH * k
    BY NextMultiple
  <1>5. m < k \/ m = k
    BY <1>3
  <1> QED
    BY <1>1, <1>2, <1>4, <1>5, UnitsAssumption

-----------------------------------------------------------------------------
(* Snapshots are snapshots, full or charged. *)

LEMMA DeductType ==
  ASSUME NEW s \in FranchiseState, NEW p \in Players, NEW price \in Nat
  PROVE  Deduct(s, p, price) \in FranchiseState
  BY DEF Deduct, FranchiseState

LEMMA FullStateType == FullState \in FranchiseState
  BY LimitsAssumption DEF FullState, FranchiseState

-----------------------------------------------------------------------------
(* What a step of a handler does to the handlers. *)

LEMMA GotoMoves ==
  ASSUME handler \in [Handlers -> Message \cup {Ended}],
         NEW h \in Handlers, handler[h] # Ended,
         NEW s \in Stage, Goto(h, s)
  PROVE  /\ handler' \in [Handlers -> Message \cup {Ended}]
         /\ handler[h] \in Message
         /\ handler'[h] \in Message
         /\ handler'[h].stage = s
         /\ handler'[h].franchise = handler[h].franchise
         /\ handler'[h].player = handler[h].player
         /\ handler'[h].amount = handler[h].amount
         /\ handler'[h].snapshot = handler[h].snapshot
         /\ \A g \in Handlers : g # h => handler'[g] = handler[g]
  <1>1. handler[h] \in Message
    OBVIOUS
  <1>2. [handler[h] EXCEPT !.stage = s] \in Message
    BY <1>1 DEF Message
  <1>3. handler' = [handler EXCEPT ![h] = [handler[h] EXCEPT !.stage = s]]
    BY DEF Goto
  <1>4. handler'[h] = [handler[h] EXCEPT !.stage = s]
    BY <1>3
  <1>5. \A g \in Handlers : g # h => handler'[g] = handler[g]
    BY <1>3
  <1>6. handler' \in [Handlers -> Message \cup {Ended}]
    BY <1>2, <1>3
  <1> QED
    BY <1>1, <1>2, <1>4, <1>5, <1>6 DEF Message

LEMMA EndMoves ==
  ASSUME handler \in [Handlers -> Message \cup {Ended}],
         NEW h \in Handlers, End(h)
  PROVE  /\ handler' \in [Handlers -> Message \cup {Ended}]
         /\ handler'[h] = Ended
         /\ \A g \in Handlers : g # h => handler'[g] = handler[g]
  BY DEF End

LEMMA StageOf ==
  ASSUME handler \in [Handlers -> Message \cup {Ended}], NEW h \in Handlers
  PROVE  /\ handler[h].stage = "ended" <=> handler[h] = Ended
         /\ handler[h].stage # "ended" => handler[h] \in Message
         /\ handler[h].stage \in Stage \cup {"ended"}
  BY DEF Message, Ended, Stage

-----------------------------------------------------------------------------
(* Types *)

LEMMA AmountsNat == \A a \in Amounts \cup {0} : a \in Nat
  BY AmountsAssumption

(* A bid of at least a base price, which is in whole lakhs, still is at    *)
(* least the base price when it is cut to whole lakhs.                     *)
LEMMA BaseReached ==
  ASSUME NEW p \in Players, NEW bid \in Amounts \cup {0}, bid >= BasePrice[p]
  PROVE  Whole(bid) >= BasePrice[p]
  <1>1. BasePrice[p] \in Nat /\ BasePrice[p] % LAKH = 0
    BY PlayersAssumption, UnitsAssumption
  <1> QED
    BY <1>1, AmountsNat, WholeReaches

LEMMA InitTyped == Init => TypeOK /\ LotKnown
  BY PipelineAssumption, FullStateType DEF Init, TypeOK, LotKnown, EngineStep

LEMMA TypeStep ==
  ASSUME TypeOK, LotKnown, [Next]_vars
  PROVE  TypeOK' /\ LotKnown'
  <1> USE DEF TypeOK
  <1>1. CASE UNCHANGED vars
    BY <1>1 DEF vars, lock, bidKeys, engineVars, LotKnown
  <1>2. ASSUME NEW h \in Handlers, BidStep(h)
        PROVE  TypeOK' /\ LotKnown'
    <2> USE DEF lock, bidKeys, engineVars, LotKnown
    <2>1. ASSUME NEW f \in Franchises, NEW amount \in Amounts, Load(h, f, amount)
          PROVE  TypeOK' /\ LotKnown'
      <3> DEFINE m == [stage |-> "loaded", franchise |-> f, player |-> shown.player,
                       amount |-> amount, snapshot |-> states[f]]
      <3>1. m \in Message
        BY <2>1 DEF Message, Stage, Load
      <3>2. handler' = [handler EXCEPT ![h] = m]
        BY <2>1 DEF Load
      <3>3. handler' \in [Handlers -> Message \cup {Ended}]
        BY <3>1, <3>2
      <3> QED
        BY <2>1, <3>3 DEF Load
    <2>2. CASE Reject(h)
      BY <2>2, EndMoves DEF Reject
    <2>3. CASE Validate(h)
      <3>1. handler[h] # Ended /\ Goto(h, "valid") /\ "valid" \in Stage
        BY <2>3, StageOf DEF Validate, Stage, Ended
      <3> QED
        BY <2>3, <3>1, GotoMoves DEF Validate
    <2>4. CASE Acquire(h)
      <3>1. handler[h] # Ended /\ Goto(h, "locked") /\ "locked" \in Stage
        BY <2>4, StageOf DEF Acquire, Stage, Ended
      <3> QED
        BY <2>4, <3>1, GotoMoves DEF Acquire, AcquireLock
    <2>5. CASE CheckFresh(h)
      <3>1. PICK s \in {"fresh", "tooLow"} : Goto(h, s)
        BY <2>5 DEF CheckFresh
      <3>2. handler[h] # Ended /\ s \in Stage
        BY <2>5, StageOf DEF CheckFresh, Stage, Ended
      <3> QED
        BY <2>5, <3>1, <3>2, GotoMoves DEF CheckFresh
    <2>6. CASE SetBid(h)
      <3>1. handler[h] # Ended /\ Goto(h, "bidSet") /\ "bidSet" \in Stage
        BY <2>6, StageOf DEF SetBid, Stage, Ended
      <3>2. handler[h] \in Message /\ handler' \in [Handlers -> Message \cup {Ended}]
        BY <3>1, GotoMoves
      <3>3. handler[h].amount \in Amounts
        BY <3>2 DEF Message
      <3> QED
        BY <2>6, <3>2, <3>3 DEF SetBid
    <2>7. CASE SetBidder(h)
      <3>1. handler[h] # Ended /\ Goto(h, "bidderSet") /\ "bidderSet" \in Stage
        BY <2>7, StageOf DEF SetBidder, Stage, Ended
      <3>2. handler[h] \in Message /\ handler' \in [Handlers -> Message \cup {Ended}]
        BY <3>1, GotoMoves
      <3>3. handler[h].franchise \in Franchises
        BY <3>2 DEF Message
      <3> QED
        BY <2>7, <3>2, <3>3 DEF SetBidder
    <2>8. CASE SetBidding(h)
      <3>1. handler[h] # Ended /\ Goto(h, "written") /\ "written" \in Stage
        BY <2>8, StageOf DEF SetBidding, Stage, Ended
      <3> QED
        BY <2>8, <3>1, GotoMoves DEF SetBidding
    <2>9. CASE Release(h)
      <3>1. handler[h] \in Message
        BY <2>9, StageOf DEF Release
      <3>2. shown' \in [player : Players \cup {NoPlayer}, bid : Amounts \cup {0},
                        bidder : Franchises \cup {NoFranchise}]
        BY <2>9, <3>1 DEF Release, Message
      <3> QED
        BY <2>9, <3>2, EndMoves DEF Release, ReleaseLock
    <2> QED
      BY <1>2, <2>1, <2>2, <2>3, <2>4, <2>5, <2>6, <2>7, <2>8, <2>9 DEF BidStep
  <1>3. CASE EngineNext
    <2> USE DEF lock, bidKeys, engineVars, EngineStep, LotKnown
    <2>1. ASSUME NEW p \in Players, NextPlayer(p) PROVE TypeOK' /\ LotKnown'
      BY <2>1 DEF NextPlayer
    <2>2. CASE SetPlayerUp
      BY <2>2 DEF SetPlayerUp
    <2>3. CASE ZeroBid
      BY <2>3 DEF ZeroBid
    <2>4. CASE DeleteBidder
      BY <2>4 DEF DeleteBidder
    <2>5. CASE ReadPrice
      BY <2>5 DEF ReadPrice
    <2>6. CASE ReadBidder
      BY <2>6 DEF ReadBidder
    <2>7. CASE Resolve
      <3>0. engine \in {"sold", "unsold"}
        BY <2>7 DEF Resolve
      <3>1. Whole(expiry.bid) \in Nat /\ entry \in Players
        <4>1. expiry.bid \in Nat
          BY AmountsNat
        <4>2. entry \in Players
          BY <3>0
        <4> QED
          BY <4>1, <4>2, WholeBounds
      <3>2. engine = "sold" => /\ expiry.bidder \in Franchises
                               /\ states[expiry.bidder] \in FranchiseState
        OBVIOUS
      <3>3. engine = "sold" => Deduct(states[expiry.bidder], entry, Whole(expiry.bid)) \in FranchiseState
        BY <3>1, <3>2, DeductType
      <3>4. states' \in [Franchises -> FranchiseState]
        <4>1. CASE engine = "sold"
          <5>1. states' = [states EXCEPT ![expiry.bidder] =
                             Deduct(states[expiry.bidder], entry, Whole(expiry.bid))]
            BY <2>7, <4>1 DEF Resolve
          <5> QED
            BY <5>1, <3>3, <4>1
        <4> QED
          BY <2>7, <4>1 DEF Resolve
      <3>5. results' \subseteq [player : Players, buyer : Franchises \cup {NoFranchise},
                               price : Nat]
        BY <2>7, <3>1, <3>2 DEF Resolve
      <3> QED
        BY <2>7, <3>4, <3>5 DEF Resolve
    <2>8. CASE EndAuction
      BY <2>8 DEF EndAuction
    <2> QED
      BY <1>3, <2>1, <2>2, <2>3, <2>4, <2>5, <2>6, <2>7, <2>8 DEF EngineNext
  <1>4. CASE ExpireLock \/ TeardownDeletesLock
    BY <1>4 DEF ExpireLock, TeardownDeletesLock, lock, bidKeys, engineVars,
                LotKnown
  <1> QED
    BY <1>1, <1>2, <1>3, <1>4 DEF Next

(* Every variable of the pipeline keeps its type, whatever races.          *)
THEOREM PipelineTyped == Spec => []TypeOK
  <1>1. Init => TypeOK /\ LotKnown
    BY InitTyped
  <1>2. TypeOK /\ LotKnown /\ [Next]_vars => (TypeOK /\ LotKnown)'
    BY TypeStep
  <1> QED
    BY <1>1, <1>2, PTL DEF Spec
-----------------------------------------------------------------------------
(* The lock *)

LEMMA LockStep ==
  ASSUME LockKept, TypeOK, LockHeld, [Next]_vars
  PROVE  LockHeld'
  <1>0. handler \in [Handlers -> Message \cup {Ended}] /\ Free \notin Handlers
    BY PipelineAssumption DEF TypeOK
  <1>1. CASE UNCHANGED vars
    BY <1>1 DEF vars, lock, LockHeld
  <1>2. ASSUME NEW h \in Handlers, BidStep(h) PROVE LockHeld'
    <2>1. ASSUME NEW f \in Franchises, NEW amount \in Amounts, Load(h, f, amount)
          PROVE  LockHeld'
      <3>1. mirror' = mirror
        BY <2>1 DEF Load, lock
      <3>2. \A g \in Handlers : g # h => handler'[g] = handler[g]
        BY <2>1, <1>0 DEF Load
      <3>3. handler'[h].stage = "loaded"
        BY <2>1, <1>0 DEF Load
      <3> QED
        BY <3>1, <3>2, <3>3 DEF LockHeld, Critical
    <2>2. CASE Reject(h)
      BY <2>2, <1>0, EndMoves DEF Reject, lock, LockHeld, Critical, Ended
    <2>3. CASE Validate(h)
      <3>1. handler[h] # Ended /\ Goto(h, "valid") /\ "valid" \in Stage
        BY <2>3, <1>0, StageOf DEF Validate, Stage, Ended
      <3> QED
        BY <2>3, <3>1, <1>0, GotoMoves DEF Validate, lock, LockHeld, Critical
    <2>4. CASE Acquire(h)
      <3>1. handler[h] # Ended /\ Goto(h, "locked") /\ "locked" \in Stage
        BY <2>4, <1>0, StageOf DEF Acquire, Stage, Ended
      <3>2. \A g \in Handlers : handler[g].stage \notin Critical
        BY <2>4, <1>0 DEF Acquire, AcquireLock, LockHeld
      <3> QED
        BY <2>4, <3>1, <3>2, <1>0, GotoMoves DEF Acquire, AcquireLock, LockHeld
    <2>5. CASE CheckFresh(h)
      <3>1. PICK s \in {"fresh", "tooLow"} : Goto(h, s)
        BY <2>5 DEF CheckFresh
      <3>2. handler[h] # Ended /\ s \in Stage
        BY <2>5, <1>0, StageOf DEF CheckFresh, Stage, Ended
      <3> QED
        BY <2>5, <3>1, <3>2, <1>0, GotoMoves DEF CheckFresh, lock, LockHeld, Critical
    <2>6. CASE SetBid(h)
      <3>1. handler[h] # Ended /\ Goto(h, "bidSet") /\ "bidSet" \in Stage
        BY <2>6, <1>0, StageOf DEF SetBid, Stage, Ended
      <3> QED
        BY <2>6, <3>1, <1>0, GotoMoves DEF SetBid, lock, LockHeld, Critical
    <2>7. CASE SetBidder(h)
      <3>1. handler[h] # Ended /\ Goto(h, "bidderSet") /\ "bidderSet" \in Stage
        BY <2>7, <1>0, StageOf DEF SetBidder, Stage, Ended
      <3> QED
        BY <2>7, <3>1, <1>0, GotoMoves DEF SetBidder, lock, LockHeld, Critical
    <2>8. CASE SetBidding(h)
      <3>1. handler[h] # Ended /\ Goto(h, "written") /\ "written" \in Stage
        BY <2>8, <1>0, StageOf DEF SetBidding, Stage, Ended
      <3> QED
        BY <2>8, <3>1, <1>0, GotoMoves DEF SetBidding, lock, LockHeld, Critical
    <2>9. CASE Release(h)
      <3>1. handler[h].stage \in Critical /\ End(h)
        BY <2>9 DEF Release, Critical
      <3>2. \A g \in Handlers : g # h => handler[g].stage \notin Critical
        BY <3>1 DEF LockHeld
      <3>3. Ended.stage \notin Critical
        BY DEF Ended, Critical
      <3> QED
        BY <3>1, <3>2, <3>3, <1>0, EndMoves DEF LockHeld
    <2> QED
      BY <1>2, <2>1, <2>2, <2>3, <2>4, <2>5, <2>6, <2>7, <2>8, <2>9 DEF BidStep
  <1>3. CASE EngineNext
    <2>1. handler' = handler /\ mirror' = mirror
      BY <1>3 DEF EngineNext, NextPlayer, SetPlayerUp, ZeroBid, DeleteBidder, ReadPrice,
                  ReadBidder, Resolve, EndAuction, lock
    <2> QED
      BY <2>1 DEF LockHeld
  <1>4. CASE ExpireLock
    <2>1. \A g \in Handlers : handler[g].stage \notin Critical
      BY <1>4 DEF ExpireLock, LockHeld, LockKept
    <2> QED
      BY <1>4, <2>1 DEF ExpireLock, LockHeld
  <1>5. CASE TeardownDeletesLock
    BY <1>5 DEF TeardownDeletesLock, LockHeld, LockKept
  <1> QED
    BY <1>1, <1>2, <1>3, <1>4, <1>5 DEF Next

LEMMA LockInvariant ==
  ASSUME LockKept
  PROVE  Spec => [](TypeOK /\ LotKnown /\ LockHeld)
  <1>1. Init => TypeOK /\ LotKnown /\ LockHeld
    BY InitTyped DEF Init, LockHeld, Critical, Ended
  <1>2. (TypeOK /\ LotKnown /\ LockHeld) /\ [Next]_vars => (TypeOK /\ LotKnown /\ LockHeld)'
    BY TypeStep, LockStep
  <1> QED
    BY <1>1, <1>2, PTL DEF Spec

(* At most one bid of a room is between acquireLock and releaseLock, for   *)
(* any number of handlers and whatever the countdown does, as long as the  *)
(* lock is not lost or deleted under its holder.                           *)
THEOREM BidsExclude ==
  ASSUME LockKept
  PROVE  Spec => []MutualExclusion
  <1>1. LockHeld => MutualExclusion
    BY DEF LockHeld, MutualExclusion
  <1> QED
    BY <1>1, LockInvariant, PTL

-----------------------------------------------------------------------------

(* Where the engine is, and what it has put up. *)
Closed == {"sold", "unsold", "pause", "done", "playerSet"}
Preparing == {"playerSet", "stateSet", "zeroed"}

EnginePlace ==
    /\ engine \in Closed => auctionState \notin {"player_up", "bidding"}
    /\ engine \notin {"pause", "done"} => \A r \in results : r.player # entry
    /\ engine \in Preparing =>
          /\ currentPlayer = entry
          /\ \A h \in Handlers : handler[h] = Ended
    /\ engine = "zeroed" => currentBid = 0
    /\ LotOpen => shown.player = entry
    /\ ~LotOpen => shown.player = NoPlayer \/ shown.player \in Resolved

(* A bid past its validation was validated on this lot, on the snapshot    *)
(* its franchise still has.                                                *)
FlightsValid ==
    \A h \in Handlers :
        LET m == handler[h]
        IN  /\ m.stage = "loaded" /\ engine \in {"open", "priceRead"} =>
                  m.player = entry /\ m.snapshot = states[m.franchise]
            /\ InFlight(h) =>
                  /\ engine = "open"
                  /\ m.player = entry
                  /\ m.amount >= BasePrice[entry]
                  /\ CanBid(states[m.franchise], entry, m.amount)
            /\ m.stage = "fresh" => m.amount > Whole(currentBid)

(* How far the holder of the lock has got with its writes. *)
WritesLanded ==
    \A h \in Handlers :
        /\ handler[h].stage \in {"bidSet", "bidderSet", "written"} =>
              currentBid = handler[h].amount
        /\ handler[h].stage \in {"bidderSet", "written"} =>
              currentBidder = handler[h].franchise

(* The pair of keys, when no handler has written only half of it. *)
PairWhole ==
    LotOpen /\ (\A h \in Handlers : handler[h].stage # "bidSet") =>
        /\ currentBidder = NoFranchise => currentBid = 0
        /\ currentBidder # NoFranchise =>
              /\ currentBid >= BasePrice[entry]
              /\ CanBid(states[currentBidder], entry, currentBid)

ShownCurrent ==
    LotOpen /\ (\A h \in Handlers : handler[h].stage \notin {"bidSet", "bidderSet", "written"}) =>
        shown = [player |-> entry, bid |-> currentBid, bidder |-> currentBidder]

ExpiryCurrent ==
    /\ engine \in {"priceRead", "sold", "unsold"} => expiry.bid = currentBid
    /\ engine = "sold" => expiry.bidder = currentBidder /\ currentBidder # NoFranchise
    /\ engine = "unsold" => currentBidder = NoFranchise

PipelineInv ==
    /\ EnginePlace
    /\ FlightsValid
    /\ WritesLanded
    /\ PairWhole
    /\ ShownCurrent
    /\ ExpiryCurrent

LEMMA BidStepInv ==
  ASSUME Orderly, TypeOK, LotKnown, LockHeld, PipelineInv,
         NEW h \in Handlers, BidStep(h)
  PROVE  PipelineInv'
  <1> USE DEF PipelineInv, lock, bidKeys, engineVars
  <1>0. handler \in [Handlers -> Message \cup {Ended}]
    BY DEF TypeOK
  <1>l. handler[h].stage \in Critical =>
          \A g \in Handlers : g # h => handler[g].stage \notin Critical
    BY DEF LockHeld
  <1>1. ASSUME NEW f \in Franchises, NEW amount \in Amounts, Load(h, f, amount)
        PROVE  PipelineInv'
    <2>1. /\ handler'[h].stage = "loaded" /\ handler'[h].player = shown.player
          /\ handler'[h].franchise = f /\ handler'[h].snapshot = states[f]
          /\ handler[h].stage = "ended"
          /\ \A g \in Handlers : g # h => handler'[g] = handler[g]
      BY <1>1, <1>0 DEF Load, Ended
    <2>2. UNCHANGED <<currentPlayer, currentBid, currentBidder, auctionState, states, engine,
                      entry, expiry, results, shown>>
      BY <1>1 DEF Load
    <2>3. engine \notin Preparing
      BY <1>1 DEF Load, EnginePlace, Preparing, LotOpen, Resolved
    <2>4. EnginePlace'
      BY <2>2, <2>3 DEF EnginePlace, LotOpen, Resolved
    <2>5. FlightsValid'
      BY <2>1, <2>2 DEF FlightsValid, InFlight, EnginePlace, LotOpen
    <2>6. WritesLanded'
      BY <2>1, <2>2 DEF WritesLanded
    <2>7. PairWhole' /\ ShownCurrent' /\ ExpiryCurrent'
      BY <2>1, <2>2 DEF PairWhole, ShownCurrent, ExpiryCurrent, LotOpen
    <2> QED
      BY <2>4, <2>5, <2>6, <2>7
  <1>2. CASE Validate(h)
    <2>1. handler[h] # Ended /\ Goto(h, "valid") /\ "valid" \in Stage
      BY <1>2, <1>0, StageOf DEF Validate, Stage, Ended
    <2>2. /\ handler[h].stage = "loaded" /\ handler'[h].stage = "valid"
          /\ handler'[h].franchise = handler[h].franchise
          /\ handler'[h].player = handler[h].player
          /\ handler'[h].amount = handler[h].amount
          /\ handler'[h].snapshot = handler[h].snapshot
          /\ \A g \in Handlers : g # h => handler'[g] = handler[g]
      BY <2>1, <1>0, <1>2, GotoMoves DEF Validate
    <2>3. UNCHANGED <<currentPlayer, currentBid, currentBidder, auctionState, states, engine,
                      entry, expiry, results, shown>>
      BY <1>2 DEF Validate
    <2>4. engine = "open"
      <3>1. engine \notin Preparing /\ engine \notin Closed /\ engine # "priceRead"
        BY <1>2, <2>1 DEF Validate, EnginePlace, Orderly
      <3> QED
        BY <3>1 DEF TypeOK, EngineStep, Preparing, Closed
    <2>5. EnginePlace'
      BY <2>3, <2>4 DEF EnginePlace, LotOpen, Resolved, Preparing
    <2>6. FlightsValid'
      BY <2>2, <2>3, <2>4, <1>2 DEF FlightsValid, InFlight, Validate
    <2>7. WritesLanded'
      BY <2>2, <2>3 DEF WritesLanded
    <2>8. PairWhole' /\ ShownCurrent' /\ ExpiryCurrent'
      BY <2>2, <2>3 DEF PairWhole, ShownCurrent, ExpiryCurrent, LotOpen
    <2> QED
      BY <2>5, <2>6, <2>7, <2>8
  <1>3. CASE Reject(h)
    <2>1. /\ handler[h].stage \in {"loaded", "valid"} /\ handler'[h] = Ended
          /\ \A g \in Handlers : g # h => handler'[g] = handler[g]
      BY <1>3, <1>0, EndMoves DEF Reject
    <2>2. handler'[h].stage = "ended"
      BY <2>1 DEF Ended
    <2>3. UNCHANGED <<currentPlayer, currentBid, currentBidder, auctionState, states, engine,
                      entry, expiry, results, shown>>
      BY <1>3 DEF Reject
    <2>4. EnginePlace'
      BY <2>1, <2>3 DEF EnginePlace, LotOpen, Resolved
    <2>5. FlightsValid'
      BY <2>1, <2>2, <2>3 DEF FlightsValid, InFlight
    <2>6. WritesLanded'
      BY <2>1, <2>2, <2>3 DEF WritesLanded
    <2>7. PairWhole' /\ ShownCurrent' /\ ExpiryCurrent'
      BY <2>1, <2>2, <2>3 DEF PairWhole, ShownCurrent, ExpiryCurrent, LotOpen
    <2> QED
      BY <2>4, <2>5, <2>6, <2>7
  <1>4. CASE Acquire(h)
    <2>1. handler[h] # Ended /\ Goto(h, "locked") /\ "locked" \in Stage
      BY <1>4, <1>0, StageOf DEF Acquire, Stage, Ended
    <2>2. /\ handler[h].stage = "valid" /\ handler'[h].stage = "locked"
          /\ handler'[h].franchise = handler[h].franchise
          /\ handler'[h].player = handler[h].player
          /\ handler'[h].amount = handler[h].amount
          /\ handler'[h].snapshot = handler[h].snapshot
          /\ \A g \in Handlers : g # h => handler'[g] = handler[g]
      BY <2>1, <1>0, <1>4, GotoMoves DEF Acquire
    <2>3. /\ UNCHANGED <<currentPlayer, currentBid, currentBidder, auctionState, states, engine,
                         entry, expiry, results, shown>>
      BY <1>4 DEF Acquire
    <2>4. engine = "open" /\ handler[h].amount \in Nat /\ handler[h] \in Message
      BY <2>1, <2>2, <1>0, StageOf, AmountsNat DEF FlightsValid, InFlight, Message
    <2>5. EnginePlace'
      BY <2>3, <2>4 DEF EnginePlace, LotOpen, Resolved, Preparing, Closed
    <2>6. FlightsValid'
      BY <2>2, <2>3, <2>4, <1>l DEF FlightsValid, InFlight, Critical
    <2>7. WritesLanded'
      BY <2>2, <2>3, <1>l DEF WritesLanded, Critical
    <2>8. PairWhole'
      BY <2>2, <2>3, <2>4, <1>l DEF PairWhole, LotOpen, Critical
    <2>9. ShownCurrent' /\ ExpiryCurrent'
      BY <2>2, <2>3, <2>4 DEF ShownCurrent, ExpiryCurrent, LotOpen
    <2> QED
      BY <2>5, <2>6, <2>7, <2>8, <2>9
  <1>5. CASE CheckFresh(h)
    <2>0. PICK s \in {"fresh", "tooLow"} :
             Goto(h, s) /\ (s = "fresh" => handler[h].amount > Whole(currentBid))
      BY <1>5 DEF CheckFresh
    <2>1. handler[h] # Ended /\ s \in Stage
      BY <1>5, <1>0, StageOf DEF CheckFresh, Stage, Ended
    <2>2. /\ handler[h].stage = "locked" /\ handler'[h].stage = s
          /\ handler'[h].franchise = handler[h].franchise
          /\ handler'[h].player = handler[h].player
          /\ handler'[h].amount = handler[h].amount
          /\ handler'[h].snapshot = handler[h].snapshot
          /\ \A g \in Handlers : g # h => handler'[g] = handler[g]
      BY <2>0, <2>1, <1>0, <1>5, GotoMoves DEF CheckFresh
    <2>3. /\ UNCHANGED <<currentPlayer, currentBid, currentBidder, auctionState, states, engine,
                         entry, expiry, results, shown>>
      BY <1>5 DEF CheckFresh
    <2>4. engine = "open" /\ handler[h].amount \in Nat /\ handler[h] \in Message
      BY <2>1, <2>2, <1>0, StageOf, AmountsNat DEF FlightsValid, InFlight, Message
    <2>5. EnginePlace'
      BY <2>3, <2>4 DEF EnginePlace, LotOpen, Resolved, Preparing, Closed
    <2>6. FlightsValid'
      BY <2>0, <2>2, <2>3, <2>4, <1>l DEF FlightsValid, InFlight, Critical
    <2>7. WritesLanded'
      BY <2>0, <2>2, <2>3, <1>l DEF WritesLanded, Critical
    <2>8. PairWhole'
      BY <2>0, <2>2, <2>3, <2>4, <1>l DEF PairWhole, LotOpen, Critical
    <2>9. ShownCurrent' /\ ExpiryCurrent'
      BY <2>0, <2>2, <2>3, <2>4 DEF ShownCurrent, ExpiryCurrent, LotOpen
    <2> QED
      BY <2>5, <2>6, <2>7, <2>8, <2>9
  <1>6. CASE SetBid(h)
    <2>1. handler[h] # Ended /\ Goto(h, "bidSet") /\ "bidSet" \in Stage
      BY <1>6, <1>0, StageOf DEF SetBid, Stage, Ended
    <2>2. /\ handler[h].stage = "fresh" /\ handler'[h].stage = "bidSet"
          /\ handler'[h].franchise = handler[h].franchise
          /\ handler'[h].player = handler[h].player
          /\ handler'[h].amount = handler[h].amount
          /\ handler'[h].snapshot = handler[h].snapshot
          /\ \A g \in Handlers : g # h => handler'[g] = handler[g]
      BY <2>1, <1>0, <1>6, GotoMoves DEF SetBid
    <2>3. /\ UNCHANGED <<currentPlayer, currentBidder, auctionState, states, engine,
                         entry, expiry, results, shown>>
          /\ currentBid' = handler[h].amount
      BY <1>6 DEF SetBid
    <2>4. engine = "open" /\ handler[h].amount \in Nat /\ handler[h] \in Message
      BY <2>1, <2>2, <1>0, StageOf, AmountsNat DEF FlightsValid, InFlight, Message
    <2>5. EnginePlace'
      BY <2>3, <2>4 DEF EnginePlace, LotOpen, Resolved, Preparing, Closed
    <2>6. FlightsValid'
      BY <2>2, <2>3, <2>4, <1>l DEF FlightsValid, InFlight, Critical
    <2>7. WritesLanded'
      BY <2>2, <2>3, <1>l DEF WritesLanded, Critical
    <2>8. PairWhole'
      BY <2>2, <2>3, <2>4, <1>l DEF PairWhole, LotOpen, Critical
    <2>9. ShownCurrent' /\ ExpiryCurrent'
      BY <2>2, <2>3, <2>4 DEF ShownCurrent, ExpiryCurrent, LotOpen
    <2> QED
      BY <2>5, <2>6, <2>7, <2>8, <2>9
  <1>7. CASE SetBidder(h)
    <2>1. handler[h] # Ended /\ Goto(h, "bidderSet") /\ "bidderSet" \in Stage
      BY <1>7, <1>0, StageOf DEF SetBidder, Stage, Ended
    <2>2. /\ handler[h].stage = "bidSet" /\ handler'[h].stage = "bidderSet"
          /\ handler'[h].franchise = handler[h].franchise
          /\ handler'[h].player = handler[h].player
          /\ handler'[h].amount = handler[h].amount
          /\ handler'[h].snapshot = handler[h].snapshot
          /\ \A g \in Handlers : g # h => handler'[g] = handler[g]
      BY <2>1, <1>0, <1>7, GotoMoves DEF SetBidder
    <2>3. /\ UNCHANGED <<currentPlayer, currentBid, auctionState, states, engine,
                         entry, expiry, results, shown>>
          /\ currentBidder' = handler[h].franchise
      BY <1>7 DEF SetBidder
    <2>4. engine = "open" /\ handler[h].amount \in Nat /\ handler[h] \in Message
      BY <2>1, <2>2, <1>0, StageOf, AmountsNat DEF FlightsValid, InFlight, Message
    <2>5. EnginePlace'
      BY <2>3, <2>4 DEF EnginePlace, LotOpen, Resolved, Preparing, Closed
    <2>6. FlightsValid'
      BY <2>2, <2>3, <2>4, <1>l DEF FlightsValid, InFlight, Critical
    <2>7. WritesLanded'
      BY <2>2, <2>3, <1>l DEF WritesLanded, Critical
    <2>8. PairWhole'
      <3>1. currentBid = handler[h].amount
        BY <2>2 DEF WritesLanded
      <3>2. /\ handler[h].amount >= BasePrice[entry]
            /\ CanBid(states[handler[h].franchise], entry, handler[h].amount)
        BY <2>2 DEF FlightsValid, InFlight
      <3>3. handler[h].franchise # NoFranchise
        BY <2>4, PipelineAssumption DEF Message
      <3> QED
        BY <2>3, <3>1, <3>2, <3>3 DEF PairWhole
    <2>9. ShownCurrent' /\ ExpiryCurrent'
      BY <2>2, <2>3, <2>4 DEF ShownCurrent, ExpiryCurrent, LotOpen
    <2> QED
      BY <2>5, <2>6, <2>7, <2>8, <2>9
  <1>8. CASE SetBidding(h)
    <2>1. handler[h] # Ended /\ Goto(h, "written") /\ "written" \in Stage
      BY <1>8, <1>0, StageOf DEF SetBidding, Stage, Ended
    <2>2. /\ handler[h].stage = "bidderSet" /\ handler'[h].stage = "written"
          /\ handler'[h].franchise = handler[h].franchise
          /\ handler'[h].player = handler[h].player
          /\ handler'[h].amount = handler[h].amount
          /\ handler'[h].snapshot = handler[h].snapshot
          /\ \A g \in Handlers : g # h => handler'[g] = handler[g]
      BY <2>1, <1>0, <1>8, GotoMoves DEF SetBidding
    <2>3. /\ UNCHANGED <<currentPlayer, currentBid, currentBidder, states, engine,
                         entry, expiry, results, shown>>
          /\ auctionState' = "bidding"
      BY <1>8 DEF SetBidding
    <2>4. engine = "open" /\ handler[h].amount \in Nat /\ handler[h] \in Message
      BY <2>1, <2>2, <1>0, StageOf, AmountsNat DEF FlightsValid, InFlight, Message
    <2>5. EnginePlace'
      BY <2>3, <2>4 DEF EnginePlace, LotOpen, Resolved, Preparing, Closed
    <2>6. FlightsValid'
      BY <2>2, <2>3, <2>4, <1>l DEF FlightsValid, InFlight, Critical
    <2>7. WritesLanded'
      BY <2>2, <2>3, <1>l DEF WritesLanded, Critical
    <2>8. PairWhole'
      BY <2>2, <2>3, <2>4, <1>l DEF PairWhole, WritesLanded, FlightsValid, InFlight, Message, LotOpen, Critical
    <2>9. ShownCurrent' /\ ExpiryCurrent'
      BY <2>2, <2>3, <2>4 DEF ShownCurrent, ExpiryCurrent, LotOpen
    <2> QED
      BY <2>5, <2>6, <2>7, <2>8, <2>9
  <1>9. CASE Release(h)
    <2>1. /\ handler[h].stage \in {"written", "tooLow"} /\ handler'[h] = Ended
          /\ \A g \in Handlers : g # h => handler'[g] = handler[g]
      BY <1>9, <1>0, EndMoves DEF Release
    <2>2. handler'[h].stage = "ended" /\ handler[h].stage \in Critical
      BY <2>1 DEF Ended, Critical
    <2>3. UNCHANGED <<currentPlayer, currentBid, currentBidder, auctionState, states, engine,
                      entry, expiry, results>>
      BY <1>9 DEF Release
    <2>4. engine = "open"
      BY <2>1 DEF FlightsValid, InFlight
    <2>5. shown' = IF handler[h].stage = "written"
                   THEN [player |-> entry, bid |-> currentBid, bidder |-> currentBidder]
                   ELSE shown
      BY <1>9, <2>1 DEF Release, FlightsValid, InFlight, WritesLanded
    <2>6. EnginePlace'
      BY <2>3, <2>4, <2>5 DEF EnginePlace, LotOpen, Preparing, Closed
    <2>7. FlightsValid'
      BY <2>1, <2>2, <2>3 DEF FlightsValid, InFlight
    <2>8. WritesLanded'
      BY <2>1, <2>2, <2>3 DEF WritesLanded
    <2>9. PairWhole' /\ ExpiryCurrent'
      BY <2>1, <2>2, <2>3 DEF PairWhole, ExpiryCurrent, LotOpen
    <2>10. ShownCurrent'
      BY <2>1, <2>2, <2>3, <2>5, <1>l DEF ShownCurrent, LotOpen, Critical
    <2> QED
      BY <2>6, <2>7, <2>8, <2>9, <2>10
  <1> QED
    BY <1>1, <1>2, <1>3, <1>4, <1>5, <1>6, <1>7, <1>8, <1>9 DEF BidStep

LEMMA EngineStepInv ==
  ASSUME Orderly, TypeOK, LotKnown, PipelineInv, EngineNext
  PROVE  PipelineInv'
  <1> USE DEF PipelineInv, lock, bidKeys, engineVars
  <1>0. /\ handler \in [Handlers -> Message \cup {Ended}]
        /\ engine \in EngineStep
        /\ \A h \in Handlers : handler[h] = Ended => handler[h].stage = "ended"
    BY DEF TypeOK, Ended
  <1>1. ASSUME NEW p \in Players, NextPlayer(p) PROVE PipelineInv'
    <2>1. /\ engine = "pause" /\ engine' = "playerSet" /\ entry' = p /\ currentPlayer' = p
          /\ \A r \in results : r.player # p
          /\ \A h \in Handlers : handler[h] = Ended
          /\ UNCHANGED <<auctionState, currentBid, currentBidder, states, handler, results, shown>>
      BY <1>1 DEF NextPlayer, Orderly, Resolved
    <2>2. EnginePlace'
      BY <2>1 DEF EnginePlace, Closed, Preparing, LotOpen, Resolved
    <2>3. FlightsValid' /\ WritesLanded'
      BY <2>1, <1>0 DEF FlightsValid, WritesLanded, InFlight
    <2> QED
      BY <2>1, <2>2, <2>3 DEF PairWhole, ShownCurrent, ExpiryCurrent, LotOpen
  <1>2. CASE SetPlayerUp
    <2>1. /\ engine = "playerSet" /\ engine' = "stateSet" /\ auctionState' = "player_up"
          /\ UNCHANGED <<currentPlayer, currentBid, currentBidder, states, handler, entry,
                         results, shown>>
      BY <1>2 DEF SetPlayerUp
    <2>2. EnginePlace'
      BY <2>1 DEF EnginePlace, Closed, Preparing, LotOpen, Resolved
    <2>3. FlightsValid' /\ WritesLanded'
      BY <2>1 DEF FlightsValid, WritesLanded, InFlight
    <2> QED
      BY <2>1, <2>2, <2>3 DEF PairWhole, ShownCurrent, ExpiryCurrent, LotOpen
  <1>3. CASE ZeroBid
    <2>1. /\ engine = "stateSet" /\ engine' = "zeroed" /\ currentBid' = 0
          /\ UNCHANGED <<currentPlayer, auctionState, currentBidder, states, handler, entry,
                         results, shown>>
      BY <1>3 DEF ZeroBid
    <2>2. EnginePlace'
      BY <2>1 DEF EnginePlace, Closed, Preparing, LotOpen, Resolved
    <2>3. \A h \in Handlers : handler'[h].stage = "ended"
      BY <2>1, <1>0 DEF EnginePlace, Preparing
    <2>4. FlightsValid' /\ WritesLanded'
      BY <2>3 DEF FlightsValid, WritesLanded, InFlight
    <2> QED
      BY <2>1, <2>2, <2>4 DEF PairWhole, ShownCurrent, ExpiryCurrent, LotOpen
  <1>4. CASE DeleteBidder
    <2>1. /\ engine = "zeroed" /\ engine' = "open" /\ currentBidder' = NoFranchise
          /\ shown' = [player |-> entry, bid |-> 0, bidder |-> NoFranchise]
          /\ UNCHANGED <<currentPlayer, auctionState, currentBid, states, handler, entry, results>>
      BY <1>4 DEF DeleteBidder
    <2>2. EnginePlace'
      BY <2>1 DEF EnginePlace, Closed, Preparing, LotOpen
    <2>3. \A h \in Handlers : handler'[h].stage = "ended"
      BY <2>1, <1>0 DEF EnginePlace, Preparing
    <2>4. FlightsValid' /\ WritesLanded'
      BY <2>3 DEF FlightsValid, WritesLanded, InFlight
    <2>5. currentBid' = 0
      BY <2>1 DEF EnginePlace
    <2> QED
      BY <2>1, <2>2, <2>4, <2>5 DEF PairWhole, ShownCurrent, ExpiryCurrent
  <1>5. CASE ReadPrice
    <2>1. /\ engine = "open" /\ engine' = "priceRead" /\ expiry'.bid = currentBid
          /\ \A h \in Handlers : ~InFlight(h)
          /\ UNCHANGED <<currentPlayer, auctionState, currentBid, currentBidder, states, handler,
                         entry, results, shown>>
      BY <1>5 DEF ReadPrice, Orderly
    <2>2. EnginePlace'
      BY <2>1 DEF EnginePlace, Closed, Preparing, LotOpen, Resolved
    <2>3. FlightsValid' /\ WritesLanded'
      BY <2>1 DEF FlightsValid, WritesLanded, InFlight
    <2> QED
      BY <2>1, <2>2, <2>3 DEF PairWhole, ShownCurrent, ExpiryCurrent, LotOpen
  <1>6. CASE ReadBidder
    <2>1. PICK s \in {"sold", "unsold"} :
             /\ s = "sold" <=> Whole(expiry.bid) >= BasePrice[entry] /\ currentBidder # NoFranchise
             /\ engine' = s /\ auctionState' = s
      BY <1>6 DEF ReadBidder
    <2>2. /\ engine = "priceRead"
          /\ expiry' = [expiry EXCEPT !.bidder = currentBidder]
          /\ UNCHANGED <<currentPlayer, currentBid, currentBidder, states, handler,
                         entry, results, shown>>
      BY <1>6 DEF ReadBidder
    <2>3. expiry'.bid = expiry.bid /\ expiry'.bidder = currentBidder
      BY <2>2 DEF TypeOK
    <2>4. \A h \in Handlers : handler[h].stage \in {"ended", "loaded"}
      BY <2>2 DEF FlightsValid, InFlight
    <2>5. EnginePlace'
      BY <2>1, <2>2 DEF EnginePlace, Closed, Preparing, LotOpen, Resolved
    <2>6. FlightsValid' /\ WritesLanded'
      BY <2>1, <2>2, <2>4 DEF FlightsValid, WritesLanded, InFlight
    <2>7. PairWhole' /\ ShownCurrent'
      BY <2>1, <2>2, <2>4 DEF PairWhole, ShownCurrent, LotOpen
    <2>8. expiry.bid = currentBid
      BY <2>2 DEF ExpiryCurrent
    <2>9. currentBidder # NoFranchise => Whole(currentBid) >= BasePrice[entry]
      <3>1. currentBidder # NoFranchise => currentBid >= BasePrice[entry]
        BY <2>2, <2>4 DEF PairWhole, LotOpen
      <3> QED
        BY <2>2, <3>1, BaseReached DEF LotKnown, TypeOK
    <2>10. ExpiryCurrent'
      BY <2>1, <2>2, <2>3, <2>8, <2>9 DEF ExpiryCurrent
    <2> QED
      BY <2>5, <2>6, <2>7, <2>10
  <1>7. CASE Resolve
    <2>1. /\ engine \in {"sold", "unsold"} /\ engine' = "pause"
          /\ UNCHANGED <<currentPlayer, auctionState, currentBid, currentBidder, handler,
                         entry, expiry, shown>>
      BY <1>7 DEF Resolve
    <2>2. entry \in Resolved' /\ shown.player = entry
      <3>1. CASE engine = "sold"
        <4> DEFINE r == [player |-> entry, buyer |-> expiry.bidder, price |-> Whole(expiry.bid)]
        <4>1. r \in results' /\ r.player = entry
          BY <1>7, <3>1 DEF Resolve
        <4> QED
          BY <4>1, <3>1 DEF Resolved, EnginePlace, LotOpen
      <3>2. CASE engine = "unsold"
        <4> DEFINE r == [player |-> entry, buyer |-> NoFranchise, price |-> 0]
        <4>1. r \in results' /\ r.player = entry
          BY <1>7, <3>2 DEF Resolve
        <4> QED
          BY <4>1, <3>2 DEF Resolved, EnginePlace, LotOpen
      <3> QED
        BY <2>1, <3>1, <3>2
    <2>3. EnginePlace'
      BY <2>1, <2>2 DEF EnginePlace, Closed, Preparing, LotOpen
    <2>4. FlightsValid' /\ WritesLanded'
      BY <2>1 DEF FlightsValid, WritesLanded, InFlight
    <2> QED
      BY <2>1, <2>3, <2>4 DEF PairWhole, ShownCurrent, ExpiryCurrent, LotOpen
  <1>8. CASE EndAuction
    <2>1. /\ engine = "pause" /\ engine' = "done" /\ auctionState' = "complete"
          /\ UNCHANGED <<currentPlayer, currentBid, currentBidder, states, handler,
                         entry, results, shown>>
      BY <1>8 DEF EndAuction
    <2>2. EnginePlace'
      BY <2>1 DEF EnginePlace, Closed, Preparing, LotOpen, Resolved
    <2>3. FlightsValid' /\ WritesLanded'
      BY <2>1 DEF FlightsValid, WritesLanded, InFlight
    <2> QED
      BY <2>1, <2>2, <2>3 DEF PairWhole, ShownCurrent, ExpiryCurrent, LotOpen
  <1> QED
    BY <1>1, <1>2, <1>3, <1>4, <1>5, <1>6, <1>7, <1>8 DEF EngineNext

LEMMA PipelineStep ==
  ASSUME Orderly, TypeOK, LotKnown, LockHeld, PipelineInv, [Next]_vars
  PROVE  PipelineInv'
  <1>1. CASE \/ UNCHANGED vars
             \/ ExpireLock \/ TeardownDeletesLock
    <2>1. UNCHANGED <<currentPlayer, auctionState, currentBid, currentBidder, states, handler,
                      engine, entry, expiry, results, shown>>
      BY <1>1 DEF vars, lock, bidKeys, engineVars, ExpireLock, TeardownDeletesLock
    <2> QED
      BY <2>1 DEF PipelineInv, EnginePlace, LotOpen, Resolved, FlightsValid, InFlight,
                  WritesLanded, PairWhole, ShownCurrent, ExpiryCurrent
  <1> QED
    BY <1>1, BidStepInv, EngineStepInv DEF Next

LEMMA PipelineInit == Init => PipelineInv
  BY DEF Init, PipelineInv, EnginePlace, Closed, Preparing, LotOpen, Resolved, FlightsValid,
         InFlight, WritesLanded, PairWhole, ShownCurrent, ExpiryCurrent, Ended

FullInv == TypeOK /\ LotKnown /\ LockHeld /\ PipelineInv

LEMMA PipelineInvariant ==
  ASSUME Orderly
  PROVE  Spec => []FullInv
  <1>1. Init => FullInv
    BY InitTyped, PipelineInit DEF FullInv, Init, LockHeld, Critical, Ended
  <1>2. FullInv /\ [Next]_vars => FullInv'
    BY TypeStep, LockStep, PipelineStep DEF FullInv, Orderly
  <1> QED
    BY <1>1, <1>2, PTL DEF Spec

(* The buyer's snapshot admits the bid the expiry has read. *)
LEMMA SaleAdmitted ==
  ASSUME FullInv, engine = "sold"
  PROVE  /\ CanBid(states[expiry.bidder], entry, expiry.bid)
         /\ Whole(expiry.bid) >= BasePrice[entry]
  <1>1. \A h \in Handlers : handler[h].stage # "bidSet"
    BY DEF FullInv, PipelineInv, FlightsValid, InFlight
  <1>2. /\ expiry.bid = currentBid /\ expiry.bidder = currentBidder
        /\ currentBidder # NoFranchise
    BY DEF FullInv, PipelineInv, ExpiryCurrent
  <1>3. /\ currentBid >= BasePrice[entry]
        /\ CanBid(states[currentBidder], entry, currentBid)
    BY <1>1, <1>2 DEF FullInv, PipelineInv, PairWhole, LotOpen
  <1>4. entry \in Players /\ currentBid \in Amounts \cup {0}
    BY DEF FullInv, LotKnown, TypeOK
  <1> QED
    BY <1>2, <1>3, <1>4, BaseReached

(* A player is only ever sold for a bid its buyer may make by every rule   *)
(* of canBid at the moment of the sale.                                    *)
THEOREM SalesWithinRules ==
  ASSUME Orderly
  PROVE  Spec => []SaleWithinRules
  <1>1. FullInv => SaleWithinRules
    BY SaleAdmitted DEF SaleWithinRules
  <1> QED
    BY <1>1, PipelineInvariant, PTL

(* What is sold is what the room was last shown, and a player nobody buys  *)
(* is one nobody was shown to have bid on.                                 *)
THEOREM ResultsAsShown ==
  ASSUME Orderly
  PROVE  Spec => []ResultAsShown
  <1>1. FullInv => ResultAsShown
    <2> SUFFICES ASSUME FullInv, engine \in {"sold", "unsold"} PROVE ResultAsShown
      BY DEF ResultAsShown
    <2>1. \A h \in Handlers : handler[h].stage \notin {"bidSet", "bidderSet", "written"}
      BY DEF FullInv, PipelineInv, FlightsValid, InFlight
    <2>2. shown = [player |-> entry, bid |-> currentBid, bidder |-> currentBidder]
      BY <2>1 DEF FullInv, PipelineInv, ShownCurrent, LotOpen
    <2>3. engine = "unsold" => currentBidder = NoFranchise /\ currentBid = 0
      BY <2>1 DEF FullInv, PipelineInv, ExpiryCurrent, PairWhole, LotOpen
    <2> QED
      BY <2>2, <2>3 DEF FullInv, PipelineInv, ExpiryCurrent, ResultAsShown
  <1> QED
    BY <1>1, PipelineInvariant, PTL

(* The standing bid of a player only rises, to the lakh.                   *)
THEOREM BidsOnlyRise ==
  ASSUME Orderly
  PROVE  Spec => BidsRise
  <1>1. FullInv /\ [Next]_vars =>
          [currentBid' # currentBid =>
              currentBid' > Whole(currentBid) \/ engine = "stateSet"]_vars
    <2> SUFFICES ASSUME FullInv, Next, currentBid' # currentBid
                 PROVE  currentBid' > Whole(currentBid) \/ engine = "stateSet"
      OBVIOUS
    <2>1. ASSUME NEW h \in Handlers, BidStep(h) PROVE currentBid' > Whole(currentBid)
      <3>1. SetBid(h)
        BY <2>1 DEF BidStep, Load, Validate, Reject, Acquire, CheckFresh, SetBidder, SetBidding,
                    Release, bidKeys
      <3> QED
        BY <3>1 DEF SetBid, FullInv, PipelineInv, FlightsValid
    <2>2. CASE EngineNext
      BY <2>2 DEF EngineNext, NextPlayer, SetPlayerUp, ZeroBid, DeleteBidder, ReadPrice,
                  ReadBidder, Resolve, EndAuction, bidKeys
    <2>3. ~(ExpireLock \/ TeardownDeletesLock)
      BY DEF ExpireLock, TeardownDeletesLock, bidKeys
    <2> QED
      BY <2>1, <2>2, <2>3 DEF Next
  <1> QED
    BY <1>1, PipelineInvariant, PTL DEF Spec, BidsRise

-----------------------------------------------------------------------------
(* Every franchise obeys the rules in every state, not only at a sale: the *)
(* sale is charged for a bid canBid allows on the very snapshot that is    *)
(* charged.                                                                *)

(* Every limit is a natural number. *)
LEMMA LimitType == Limit \in [Limited -> Nat]
  BY LimitsAssumption DEF Limit, Limited

(* The two classifications of an amount, written down separately, agree    *)
(* except in the last lakh below a tier's bound: there the bid is checked  *)
(* against no tier with an upper bound.                                    *)
LEMMA TiersAgree ==
  ASSUME NEW amount \in Nat,
         amount >= TIER_25 \/ amount <= TIER_25 - LAKH,
         amount >= TIER_20 \/ amount <= TIER_20 - LAKH
  PROVE  SameTier(amount)
  <1>0. /\ {TIER_15, TIER_20, TIER_25} \subseteq Nat /\ TIER_15 <= TIER_20 /\ TIER_20 <= TIER_25
        /\ LAKH \in Nat \ {0}
        /\ Whole(amount) \in Nat /\ Whole(amount) <= amount
    BY LimitsAssumption, UnitsAssumption, WholeBounds
  <1>1. \A bound \in {TIER_15, TIER_20, TIER_25} : amount >= bound => Whole(amount) >= bound
    BY <1>0, UnitsAssumption, WholeReaches
  <1>2. CASE amount >= TIER_25
    BY <1>0, <1>1, <1>2 DEF SameTier, GetBidTier, SaleTier
  <1>3. CASE amount >= TIER_20 /\ ~(amount >= TIER_25)
    BY <1>0, <1>1, <1>3 DEF SameTier, GetBidTier, SaleTier
  <1>4. CASE amount >= TIER_15 /\ ~(amount >= TIER_20)
    BY <1>0, <1>1, <1>4 DEF SameTier, GetBidTier, SaleTier
  <1>5. CASE ~(amount >= TIER_15)
    BY <1>0, <1>5 DEF SameTier, GetBidTier, SaleTier
  <1> QED
    BY <1>0, <1>2, <1>3, <1>4, <1>5

(* Bids in whole lakhs are charged to the tier they are checked against.   *)
LEMMA WholeLakhsSameTier ==
  ASSUME NEW amount \in Nat, amount % LAKH = 0
  PROVE  SameTier(amount)
  <1>1. ASSUME NEW b \in {TIER_20, TIER_25}, ~(amount >= b)
        PROVE  amount <= b - LAKH
    <2>1. b \in Nat /\ b % LAKH = 0
      BY LimitsAssumption, UnitsAssumption
    <2>2. PICK k \in Nat : amount = LAKH * k
      BY WholeMultiple
    <2>3. PICK m \in Nat : b = LAKH * m
      BY <2>1, WholeMultiple
    <2>4. k < m \/ m < k \/ m = k
      OBVIOUS
    <2>5. m < k => LAKH * m + LAKH <= LAKH * k
      BY NextMultiple
    <2>6. k < m => LAKH * k + LAKH <= LAKH * m
      BY NextMultiple
    <2> QED
      BY <1>1, <2>1, <2>2, <2>3, <2>4, <2>5, <2>6, UnitsAssumption
  <1> QED
    BY <1>1, TiersAgree

(* What canBid promises of the sale of the amount it admits, whatever the  *)
(* number: charged with its whole lakhs, the franchise can still fill its  *)
(* squad, and a counter moves only below its limit, but for a tier with an *)
(* upper bound the amount was not checked against.                         *)
LEMMA DeductKeepsRules ==
  ASSUME NEW s \in FranchiseState, NEW p \in Players, NEW amount \in Nat,
         CanBid(s, p, amount)
  PROVE  LET d == Deduct(s, p, Whole(amount))
         IN  /\ CanStillFillSquad(d)
             /\ \A c \in Limited :
                   \/ d.count[c] = s.count[c]
                   \/ /\ d.count[c] = s.count[c] + 1
                      /\ s.count[c] < Limit[c] \/ (c \in Middle /\ ~SameTier(amount))
  <1> DEFINE price == Whole(amount)
             d == Deduct(s, p, price)
  <1>1. s.count \in [Category -> Nat] /\ s.wallet \in Int
    BY DEF FranchiseState
  <1>2. "squad" \in CompositionOf(p) /\ "squad" \in Limited /\ Limited \subseteq Category
    BY DEF CompositionOf, Limited, Category
  <1>w. price \in Nat /\ price <= amount
    BY WholeBounds
  <1> HIDE DEF price
  <1>3. ASSUME NEW c \in Limited
        PROVE  \/ d.count[c] = s.count[c]
               \/ /\ d.count[c] = s.count[c] + 1
                  /\ s.count[c] < Limit[c] \/ (c \in Middle /\ ~SameTier(amount))
    <2>1. CASE c \in CompositionOf(p)
      BY <2>1, <1>2 DEF Deduct, CanBid
    <2>2. CASE c = SaleTier(price)
      <3>1. d.count[c] = s.count[c] + 1
        BY <2>2, <1>2 DEF Deduct
      <3>2. SameTier(amount) => s.count[c] < Limit[c]
        BY <2>2 DEF SameTier, CanBid, price
      <3>3. ~SameTier(amount) => c # "tier25Plus"
        <4>1. c = "tier25Plus" => price >= TIER_25
          BY <2>2 DEF SaleTier
        <4>2. price >= TIER_25 => amount >= TIER_25
          BY <1>w, LimitsAssumption
        <4>3. amount >= TIER_25 => GetBidTier(amount) = "tier25Plus"
          BY LimitsAssumption, UnitsAssumption DEF GetBidTier
        <4> QED
          BY <2>2, <4>1, <4>2, <4>3 DEF SameTier, price
      <3>4. c \in {"tier25Plus", "tier20to25", "tier15to20"}
        BY <2>2 DEF SaleTier, Limited
      <3> QED
        BY <3>1, <3>2, <3>3, <3>4 DEF Middle
    <2>3. CASE c \notin CompositionOf(p) \cup {SaleTier(price)}
      BY <2>3, <1>2 DEF Deduct
    <2> QED
      BY <2>1, <2>2, <2>3
  <1>4. CanStillFillSquad(d)
    <2>1. d.wallet = s.wallet - price /\ d.count["squad"] = s.count["squad"] + 1
      BY <1>2 DEF Deduct
    <2>2. Limit["squad"] = SQUAD_MAX_SIZE
      BY DEF Limit, Limited
    <2>3. s.count["squad"] < SQUAD_MAX_SIZE /\ amount <= s.wallet
      BY <1>2, <2>2 DEF CanBid
    <2>4. s.count["squad"] \in Nat /\ SQUAD_MAX_SIZE \in Nat /\ MIN_BASE \in Nat
      BY <1>1, <1>2, LimitsAssumption
    <2> DEFINE slots == SQUAD_MAX_SIZE - s.count["squad"] - 1
               reserve == slots * MIN_BASE
    <2>5. slots \in Nat /\ SQUAD_MAX_SIZE - d.count["squad"] = slots
      BY <2>1, <2>3, <2>4
    <2>6. slots > 0 => s.wallet - amount >= reserve
      BY DEF CanBid, CanCompleteSquad
    <2>7. (slots = 0 => reserve = 0) /\ reserve \in Nat
      BY <2>4, <2>5
    <2>8. d.wallet >= reserve
      <3> HIDE DEF slots, reserve
      <3>1. s.wallet - price >= s.wallet - amount
        BY <1>1, <1>w
      <3> QED
        BY <3>1, <2>1, <2>3, <2>5, <2>6, <2>7, <1>1, <1>w
    <2> QED
      BY <2>5, <2>8 DEF CanStillFillSquad
  <1> QED
    BY <1>3, <1>4 DEF price

(* The limits that bind whatever numbers the clients bid. *)
Binding == IF \A amount \in Amounts : SameTier(amount) THEN Limited ELSE Limited \ Middle

FranchisesObeyRules ==
    \A f \in Franchises :
        /\ CanStillFillSquad(states[f])
        /\ \A c \in Binding : states[f].count[c] <= Limit[c]

(* A full wallet and an empty squad obey the rules. *)
LEMMA FullStateRules ==
  /\ CanStillFillSquad(FullState)
  /\ \A c \in Binding : FullState.count[c] <= Limit[c]
  <1>1. \A c \in Limited : FullState.count[c] = 0 /\ Limit[c] \in Nat
    BY LimitType DEF FullState, Category, Limited
  <1>2. FullState.count["squad"] = 0 /\ FullState.wallet = WALLET_TOTAL
    BY <1>1 DEF FullState, Limited
  <1>3. SQUAD_MAX_SIZE - 0 = SQUAD_MAX_SIZE
    BY LimitsAssumption
  <1>4. WALLET_TOTAL >= SQUAD_MAX_SIZE * MIN_BASE
    BY LimitsAssumption
  <1> QED
    BY <1>1, <1>2, <1>3, <1>4 DEF Binding, CanStillFillSquad

LEMMA RulesStep ==
  ASSUME FullInv, FranchisesObeyRules, [Next]_vars
  PROVE  FranchisesObeyRules'
  <1>1. CASE Resolve
    <2>1. CASE engine = "unsold"
      BY <1>1, <2>1 DEF Resolve, FranchisesObeyRules
    <2>2. CASE engine = "sold"
      <3> DEFINE b == expiry.bidder
                 d == Deduct(states[b], entry, Whole(expiry.bid))
      <3>1. /\ entry \in Players /\ b \in Franchises /\ states[b] \in FranchiseState
            /\ expiry.bid \in Nat /\ expiry.bid \in Amounts \cup {0}
        BY <2>2, AmountsNat DEF FullInv, TypeOK, LotKnown
      <3>2. CanStillFillSquad(d) /\ \A c \in Binding : d.count[c] <= Limit[c]
        <4>1. /\ CanStillFillSquad(d)
              /\ \A c \in Limited :
                    \/ d.count[c] = states[b].count[c]
                    \/ /\ d.count[c] = states[b].count[c] + 1
                       /\ \/ states[b].count[c] < Limit[c]
                          \/ c \in Middle /\ ~SameTier(expiry.bid)
          BY <2>2, <3>1, SaleAdmitted, DeductKeepsRules
        <4>2. Whole(0) = 0 /\ 0 % LAKH = 0
          BY UnitsAssumption DEF Whole
        <4>3. ~SameTier(expiry.bid) => Binding \cap Middle = {}
          BY <3>1, <4>2, WholeLakhsSameTier DEF Binding
        <4> HIDE DEF d
        <4>4. ASSUME NEW c \in Binding PROVE d.count[c] <= Limit[c]
          <5>1. c \in Limited /\ c \in Category
            BY DEF Binding, Category
          <5>2. states[b].count[c] \in Nat /\ Limit[c] \in Nat
            BY <3>1, <5>1, LimitType DEF FranchiseState
          <5>3. states[b].count[c] <= Limit[c]
            BY <3>1 DEF FranchisesObeyRules
          <5> QED
            BY <4>1, <4>3, <5>1, <5>2, <5>3
        <4> QED
          BY <4>1, <4>4
      <3>3. states' = [states EXCEPT ![b] = d] /\ states \in [Franchises -> FranchiseState]
        BY <1>1, <2>2 DEF Resolve, FullInv, TypeOK
      <3> HIDE DEF d, b
      <3>4. \A f \in Franchises : states'[f] = IF f = b THEN d ELSE states[f]
        BY <3>3
      <3> QED
        BY <3>2, <3>4 DEF FranchisesObeyRules
    <2> QED
      BY <1>1, <2>1, <2>2 DEF Resolve
  <1>2. CASE ~Resolve
    <2>1. UNCHANGED states
      BY <1>2 DEF Next, BidStep, Load, Validate, Reject, Acquire, CheckFresh, SetBid, SetBidder,
                  SetBidding, Release, EngineNext, NextPlayer, SetPlayerUp, ZeroBid,
                  DeleteBidder, ReadPrice, ReadBidder, EndAuction, ExpireLock,
                  TeardownDeletesLock, vars
    <2> QED
      BY <2>1 DEF FranchisesObeyRules
  <1> QED
    BY <1>1, <1>2

(* However the bids of a room interleave with the engine, and whatever     *)
(* numbers they are: every wallet can still fill its squad, and every      *)
(* squad stays within its size, the caps on overseas players, keepers and  *)
(* the top tier, and, if no bid falls in the last lakh below a tier's      *)
(* bound, within the caps of the other two tiers.                          *)
THEOREM FranchisesStayWithinRules ==
  ASSUME Orderly
  PROVE  Spec => []FranchisesObeyRules
  <1>1. Init => FranchisesObeyRules
    BY FullStateRules DEF Init, FranchisesObeyRules
  <1>2. FullInv /\ FranchisesObeyRules /\ [Next]_vars => FranchisesObeyRules'
    BY RulesStep
  <1> QED
    BY <1>1, <1>2, PipelineInvariant, PTL DEF Spec

-----------------------------------------------------------------------------
(* The refinement.  The auction's rules are those of the pipeline. *)

LEMMA SameWhole ==
  ASSUME NEW amount
  PROVE  Auction!Whole(amount) = Whole(amount)
  BY DEF Auction!Whole, Whole

LEMMA SameCanBid ==
  ASSUME NEW st, NEW p, NEW amount
  PROVE  Auction!CanBid(st, p, amount) <=> CanBid(st, p, amount)
  <1>1. Auction!CompositionOf(p) = CompositionOf(p)
    BY DEF Auction!CompositionOf, CompositionOf
  <1>2. Auction!GetBidTier(amount) = GetBidTier(amount)
    BY DEF Auction!GetBidTier, GetBidTier
  <1>3. Auction!Limited = Limited
    BY DEF Auction!Limited, Limited
  <1>4. Auction!Limit = Limit
    BY DEF Auction!Limit, Limit, Auction!Limited, Limited
  <1>5. Auction!CanCompleteSquad(st, amount) <=> CanCompleteSquad(st, amount)
    BY DEF Auction!CanCompleteSquad, CanCompleteSquad
  <1> QED
    BY <1>1, <1>2, <1>3, <1>4, <1>5 DEF Auction!CanBid, CanBid

LEMMA SameDeduct ==
  ASSUME NEW st, NEW p, NEW price
  PROVE  Auction!Deduct(st, p, price) = Deduct(st, p, price)
  <1>1. Auction!CompositionOf(p) = CompositionOf(p)
    BY DEF Auction!CompositionOf, CompositionOf
  <1>2. Auction!SaleTier(price) = SaleTier(price)
    BY DEF Auction!SaleTier, SaleTier
  <1>3. Auction!Category = Category
    BY DEF Auction!Category, Category, Auction!Limited, Limited, Auction!Unlimited, Unlimited
  <1> QED
    BY <1>1, <1>2, <1>3 DEF Auction!Deduct, Deduct

LEMMA SameFullState == Auction!FullState = FullState
  <1>1. Auction!Category = Category
    BY DEF Auction!Category, Category, Auction!Limited, Limited, Auction!Unlimited, Unlimited
  <1> QED
    BY <1>1 DEF Auction!FullState, FullState

LEMMA OnlyOne ==
  ASSUME NEW S, NEW x, S = {x}
  PROVE  (CHOOSE y \in S : TRUE) = x
  OBVIOUS

(* A step that neither opens nor closes the lot nor moves the pair. *)
LEMMA AuctionStutters ==
  ASSUME LotOpen' = LotOpen, LotOpen => entry' = entry,
         UNCHANGED <<currentBid, currentBidder, states, results>>,
         HalfWritten' = HalfWritten,
         \A g \in HalfWritten : handler'[g].franchise = handler[g].franchise
  PROVE  UNCHANGED Auction!vars
  <1>1. Leader' = Leader
    <2>1. CASE HalfWritten = {}
      BY <2>1 DEF Leader
    <2>2. CASE HalfWritten # {}
      <3>1. (CHOOSE h \in HalfWritten : TRUE) \in HalfWritten
        BY <2>2
      <3> QED
        BY <2>2, <3>1 DEF Leader
    <2> QED
      BY <2>1, <2>2
  <1> QED
    BY <1>1 DEF Auction!vars

LEMMA AuctionStep ==
  ASSUME Orderly, FullInv, [Next]_vars
  PROVE  [Auction!Next]_(Auction!vars)
  <1> USE DEF lock, bidKeys, engineVars
  <1>0. /\ handler \in [Handlers -> Message \cup {Ended}]
        /\ \A h \in Handlers : handler[h] = Ended => handler[h].stage = "ended"
        /\ Ended.stage = "ended"
    BY DEF FullInv, TypeOK, Ended
  <1>1. ASSUME NEW h \in Handlers, BidStep(h) PROVE [Auction!Next]_(Auction!vars)
    <2>l. handler[h].stage \in Critical =>
            \A g \in Handlers : g # h => handler[g].stage \notin Critical
      BY DEF FullInv, LockHeld
    <2>0. UNCHANGED <<engine, entry, states, results>>
      BY <1>1 DEF BidStep, Load, Validate, Reject, Acquire, CheckFresh, SetBid, SetBidder,
                  SetBidding, Release
    <2>1. CASE SetBid(h)
      <3>1. handler[h] # Ended /\ Goto(h, "bidSet") /\ "bidSet" \in Stage
        BY <2>1, <1>0, StageOf DEF SetBid, Stage
      <3>2. /\ handler'[h].stage = "bidSet"
            /\ handler'[h].franchise = handler[h].franchise
            /\ handler[h] \in Message
            /\ \A g \in Handlers : g # h => handler'[g] = handler[g]
        BY <3>1, <1>0, GotoMoves
      <3>3. handler[h].stage = "fresh"
        BY <2>1 DEF SetBid
      <3>4. HalfWritten' = {h}
        BY <3>2, <3>3, <2>l DEF HalfWritten, Critical
      <3>5. engine = "open" /\ entry \in Players /\ entry # NoPlayer
        BY <3>3, PipelineAssumption DEF FullInv, PipelineInv, FlightsValid, InFlight, LotKnown
      <3>6. Leader' = handler[h].franchise
        BY <3>2, <3>4, <3>5, <2>0, OnlyOne DEF Leader, LotOpen
      <3> DEFINE f == handler[h].franchise
                 amount == handler[h].amount
      <3>7. f \in Franchises /\ amount \in Amounts
        BY <3>2 DEF Message
      <3>8. /\ amount >= BasePrice[entry] /\ amount > Whole(currentBid)
            /\ CanBid(states[f], entry, amount)
        BY <3>3 DEF FullInv, PipelineInv, FlightsValid, InFlight
      <3>9. currentBid' = amount
        BY <2>1 DEF SetBid
      <3>10. LotOpen /\ LotOpen'
        BY <3>5, <2>0 DEF LotOpen
      <3>11. Auction!Raise(f, amount)
        BY <3>5, <3>6, <3>8, <3>9, <3>10, <2>0, SameCanBid, SameWhole DEF Auction!Raise
      <3> QED
        BY <3>7, <3>11 DEF Auction!Next
    <2>2. CASE SetBidder(h)
      <3>1. handler[h] # Ended /\ Goto(h, "bidderSet") /\ "bidderSet" \in Stage
        BY <2>2, <1>0, StageOf DEF SetBidder, Stage
      <3>2. /\ handler'[h].stage = "bidderSet"
            /\ \A g \in Handlers : g # h => handler'[g] = handler[g]
        BY <3>1, <1>0, GotoMoves
      <3>3. handler[h].stage = "bidSet" /\ currentBidder' = handler[h].franchise
            /\ currentBid' = currentBid
        BY <2>2 DEF SetBidder
      <3>4. HalfWritten = {h} /\ HalfWritten' = {}
        BY <3>2, <3>3, <2>l DEF HalfWritten, Critical
      <3>5. engine = "open"
        BY <3>3 DEF FullInv, PipelineInv, FlightsValid, InFlight
      <3>6. LotOpen /\ LotOpen'
        BY <3>5, <2>0 DEF LotOpen
      <3>7. Leader' = Leader
        BY <3>3, <3>4, <3>6, OnlyOne DEF Leader
      <3> QED
        BY <3>3, <3>6, <3>7, <2>0 DEF Auction!vars
    <2>3. CASE ~SetBid(h) /\ ~SetBidder(h)
      <3>1. UNCHANGED <<currentBid, currentBidder>>
        BY <1>1, <2>3 DEF BidStep, Load, Validate, Reject, Acquire, CheckFresh, SetBidding, Release
      <3>2. /\ handler[h].stage # "bidSet" /\ handler'[h].stage # "bidSet"
            /\ \A g \in Handlers : g # h => handler'[g] = handler[g]
        <4>1. ASSUME NEW f \in Franchises, NEW amount \in Amounts, Load(h, f, amount)
              PROVE  <3>2!:
          BY <4>1, <1>0 DEF Load
        <4>2. CASE Reject(h) \/ Release(h)
          BY <4>2, <1>0, EndMoves DEF Reject, Release
        <4>3. ASSUME NEW st \in Stage, Goto(h, st), st # "bidSet",
                     handler[h] # Ended, handler[h].stage # "bidSet"
              PROVE  <3>2!:
          BY <4>3, <1>0, GotoMoves
        <4>4. CASE Validate(h)
          BY <4>4, <4>3, <1>0, StageOf DEF Validate, Stage
        <4>5. CASE Acquire(h)
          BY <4>5, <4>3, <1>0, StageOf DEF Acquire, Stage
        <4>6. CASE CheckFresh(h)
          BY <4>6, <4>3, <1>0, StageOf DEF CheckFresh, Stage
        <4>7. CASE SetBidding(h)
          BY <4>7, <4>3, <1>0, StageOf DEF SetBidding, Stage
        <4> QED
          BY <1>1, <2>3, <4>1, <4>2, <4>4, <4>5, <4>6, <4>7 DEF BidStep
      <3>3. HalfWritten' = HalfWritten
        BY <3>2 DEF HalfWritten
      <3>4. \A g \in HalfWritten : handler'[g].franchise = handler[g].franchise
        BY <3>2 DEF HalfWritten
      <3>5. LotOpen' = LotOpen
        BY <2>0 DEF LotOpen
      <3> QED
        BY <3>1, <3>3, <3>4, <3>5, <2>0, AuctionStutters
    <2> QED
      BY <2>1, <2>2, <2>3
  <1>2. CASE DeleteBidder
    <2>1. /\ engine = "zeroed" /\ engine' = "open" /\ currentBidder' = NoFranchise
          /\ UNCHANGED <<currentBid, states, handler, entry, results>>
      BY <1>2 DEF DeleteBidder
    <2>2. currentBid = 0 /\ HalfWritten' = {} /\ \A r \in results : r.player # entry
      BY <2>1, <1>0 DEF FullInv, PipelineInv, EnginePlace, Preparing, HalfWritten
    <2>3. ~LotOpen /\ LotOpen'
      BY <2>1 DEF LotOpen
    <2>4. Leader = NoFranchise /\ Leader' = NoFranchise
      BY <2>1, <2>2, <2>3 DEF Leader
    <2>5. entry \in Players
      BY <2>1 DEF FullInv, LotKnown
    <2>6. Auction!Open(entry)
      BY <2>1, <2>2, <2>3, <2>4 DEF Auction!Open
    <2> QED
      BY <2>5, <2>6 DEF Auction!Next
  <1>3. CASE Resolve
    <2>1. /\ engine \in {"sold", "unsold"} /\ engine' = "pause"
          /\ LotOpen /\ ~LotOpen'
      BY <1>3 DEF Resolve, LotOpen
    <2>2. HalfWritten = {} /\ entry # NoPlayer
      BY <2>1, PipelineAssumption DEF FullInv, PipelineInv, FlightsValid, InFlight, HalfWritten, LotKnown
    <2>3. Leader = currentBidder /\ Leader' = NoFranchise
      BY <2>1, <2>2 DEF Leader
    <2>4. /\ expiry.bid = currentBid
          /\ engine = "sold" => expiry.bidder = currentBidder /\ currentBidder # NoFranchise
          /\ engine = "unsold" => currentBidder = NoFranchise /\ currentBid = 0
      BY <2>1, <2>2 DEF FullInv, PipelineInv, ExpiryCurrent, PairWhole, HalfWritten
    <2>w. Whole(0) = 0
      BY UnitsAssumption DEF Whole
    <2>5. results' = results \cup
             {[player |-> entry, buyer |-> currentBidder, price |-> Auction!Whole(currentBid)]}
      BY <1>3, <2>1, <2>4, <2>w, SameWhole DEF Resolve
    <2>6. states' = IF currentBidder = NoFranchise THEN states
                    ELSE [states EXCEPT ![currentBidder] =
                            Auction!Deduct(states[currentBidder], entry, Auction!Whole(currentBid))]
      BY <1>3, <2>1, <2>4, SameDeduct, SameWhole DEF Resolve
    <2>7. Auction!Knock
      BY <2>1, <2>2, <2>3, <2>5, <2>6 DEF Auction!Knock
    <2> QED
      BY <2>7 DEF Auction!Next
  <1>4. CASE \/ \E p \in Players : NextPlayer(p)
             \/ SetPlayerUp \/ ZeroBid \/ ReadPrice \/ ReadBidder \/ EndAuction
             \/ ExpireLock \/ TeardownDeletesLock \/ UNCHANGED vars
    <2>1. UNCHANGED <<currentBidder, states, results, handler>>
      BY <1>4 DEF NextPlayer, SetPlayerUp, ZeroBid, ReadPrice, ReadBidder, EndAuction,
                  ExpireLock, TeardownDeletesLock, vars
    <2>2. LotOpen' = LotOpen /\ (LotOpen => entry' = entry /\ currentBid' = currentBid)
      BY <1>4 DEF NextPlayer, SetPlayerUp, ZeroBid, ReadPrice, ReadBidder, EndAuction,
                  ExpireLock, TeardownDeletesLock, vars, LotOpen
    <2>3. Leader' = Leader
      BY <2>1, <2>2 DEF Leader, HalfWritten
    <2> QED
      BY <2>1, <2>2, <2>3 DEF Auction!vars
  <1> QED
    BY <1>1, <1>2, <1>3, <1>4 DEF Next, EngineNext

(* The pipeline implements the ascending auction: bids are totally         *)
(* ordered, each within the rules, and every lot goes to the last of them, *)
(* for its whole lakhs.                                                    *)
THEOREM PipelineImplementsAuction ==
  ASSUME Orderly
  PROVE  Spec => ImplementsAuction
  <1>1. Init => Auction!Init
    BY SameFullState DEF Init, Auction!Init, LotOpen, Leader
  <1>2. FullInv /\ [Next]_vars => [Auction!Next]_(Auction!vars)
    BY AuctionStep
  <1> QED
    BY <1>1, <1>2, PipelineInvariant, PTL DEF Spec, ImplementsAuction, Auction!Spec

=============================================================================
