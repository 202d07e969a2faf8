------------------------ MODULE FranchiseLedgerProofs ------------------------
(***************************************************************************)
(* The ledger's safety for every set of franchises, every pool of players  *)
(* and every value of the caps, when the database keeps up (Quiet) and an  *)
(* auction is started once.                                                *)
(*                                                                         *)
(* None of the properties is inductive alone.  A sale is charged with the  *)
(* price of the standing bid, so LeaderEligible says that the standing bid *)
(* still passes canBid on what its franchise has really bought; that needs *)
(* the snapshot it was checked on to be exact, hence SnapshotExact, hence  *)
(* what rebuilds in flight have read (LoadersExact) and what the database  *)
(* lacks (DatabaseLags).                                                   *)
(***************************************************************************)
EXTENDS FranchiseLedger, FiniteSetTheorems, TLAPS

BeforeStart ==
    ~started =>
        /\ block = NoPlayer /\ leader = NoBid
        /\ recording = {} /\ failed = {}
        /\ \A f \in Franchises : sold[f] = FullState /\ cache[f] = Missing
        /\ \A l \in Loaders : loader[l] = Idle

LeaderEligible ==
    leader # NoBid =>
        /\ block # NoPlayer
        /\ CanBid(sold[leader.franchise], block, leader.amount)

OneRecordingEach ==
    \A s, t \in recording : s.franchise = t.franchise => s = t

(* What the database holds of a franchise, next to what it has bought. *)
DatabaseLags ==
    \A f \in Franchises :
        /\ RecordingOf(f) = {} => wallets[f] >= sold[f].wallet
        /\ \A s \in RecordingOf(f) : wallets[f] >= sold[f].wallet + s.price
        /\ (\A s \in failed : s.franchise # f) =>
              /\ RecordingOf(f) = {} => Rebuild(wallets[f], squads[f]) = sold[f]
              /\ \A s \in RecordingOf(f) :
                    sold[f] = Deduct(Rebuild(wallets[f], squads[f]), s.player, s.price)

(* A missing snapshot can be rebuilt, and the rebuilds in flight will. *)
LoadersExact ==
    /\ \A f \in Franchises : started /\ cache[f] = Missing => DbCaughtUp(f)
    /\ \A l \in Loaders : loader[l] # Idle =>
          LET f == loader[l].franchise
          IN  /\ DbCaughtUp(f)
              /\ loader[l] \in Reading => loader[l].wallet = wallets[f]
              /\ loader[l] \in Rebuilt => loader[l].state = sold[f]

LedgerInv ==
    /\ TypeOK
    /\ BeforeStart
    /\ SnapshotExact
    /\ LeaderEligible
    /\ Solvent
    /\ SquadsWithinCaps
    /\ OneRecordingEach
    /\ DatabaseLags
    /\ LoadersExact

-----------------------------------------------------------------------------
(* The salary-cap rules, for every pool of players and every value of the   *)
(* limits                                                                   *)

(* Every limit is a natural number. *)
LEMMA LimitType == Limit \in [Limited -> Nat]
  BY LimitsAssumption DEF Limit, Limited

(* parseInt keeps the whole lakhs of an amount, and less than a lakh is    *)
(* lost.                                                                   *)
LEMMA WholeBounds ==
  ASSUME NEW a \in Nat
  PROVE  /\ Whole(a) \in Nat /\ Whole(a) <= a
         /\ \E k \in Nat : Whole(a) = LAKH * k /\ a < LAKH * k + LAKH
  <1> DEFINE k == a \div LAKH
             r == a % LAKH
             p == LAKH * k
  <1>1. k \in Nat /\ r \in Nat /\ r < LAKH /\ a = p + r /\ LAKH \in Nat
    BY UnitsAssumption
  <1>2. p \in Nat
    BY <1>1
  <1>3. Whole(a) = a - r
    BY DEF Whole
  <1> HIDE DEF r, k
  <1>4. \A q \in Nat : a = q + r => a - r = q /\ q <= a /\ a < q + LAKH
    BY <1>1
  <1>5. Whole(a) = p /\ p <= a /\ a < p + LAKH
    <2> HIDE DEF p
    <2> QED
      BY <1>1, <1>2, <1>3, <1>4
  <1> QED
    BY <1>1, <1>2, <1>5

LEMMA WholeMultiple ==
  ASSUME NEW a \in Nat, a % LAKH = 0
  PROVE  Whole(a) = a /\ \E k \in Nat : a = LAKH * k
  <1>1. Whole(a) = a
    BY DEF Whole
  <1> QED
    BY <1>1, WholeBounds

LEMMA NextMultiple ==
  ASSUME NEW k \in Nat, NEW m \in Nat, k < m
  PROVE  LAKH * k + LAKH <= LAKH * m
  <1>1. \A d \in Nat : /\ LAKH * (k + 1 + d) = LAKH * k + LAKH + LAKH * d
                       /\ LAKH * d \in Nat /\ LAKH * k \in Nat
    BY UnitsAssumption
  <1>2. m - k - 1 \in Nat /\ k + 1 + (m - k - 1) = m
    OBVIOUS
  <1> QED
    BY <1>1, <1>2, UnitsAssumption

(* An amount that reaches a whole bound reaches it in whole lakhs.         *)
LEMMA WholeReaches ==
  ASSUME NEW a \in Nat, NEW b \in Nat, b % LAKH = 0, a >= b
  PROVE  Whole(a) >= b
  <1>1. PICK k \in Nat : Whole(a) = LAKH * k /\ a < LAKH * k + LAKH
    BY WholeBounds
  <1>2. PICK m \in Nat : b = LAKH * m
    BY WholeMultiple
  <1>3. ~(k < m)
    BY <1>1, <1>2, NextMultiple, UnitsAssumption
  <1>4. m < k => LAKH * m + LAKH <= LAKH * k
    BY NextMultiple
  <1>5. m < k \/ m = k
    BY <1>3
  <1> QED
    BY <1>1, <1>2, <1>4, <1>5, UnitsAssumption

(* The two classifications of an amount, written down separately, agree    *)
(* except in the last lakh below a tier's bound: there the bid is checked  *)
(* against no tier with an upper bound.                                    *)
LEMMA TiersAgree ==
  ASSUME NEW amount \in Nat,
         amount >= TIER_25 \/ amount <= TIER_25 - LAKH,
         amount >= TIER_20 \/ amount <= TIER_20 - LAKH
  PROVE  SameTier(amount)
  <1>0. /\ {TIER_15, TIER_20, TIER_25} \subseteq Nat /\ TIER_15 <= TIER_20 /\ TIER_20 <= TIER_25
        /\ LAKH \in Nat \ {0}
        /\ Whole(amount) \in Nat /\ Whole(amount) <= amount
    BY LimitsAssumption, UnitsAssumption, WholeBounds
  <1>1. \A bound \in {TIER_15, TIER_20, TIER_25} : amount >= bound => Whole(amount) >= bound
    BY <1>0, UnitsAssumption, WholeReaches
  <1>2. CASE amount >= TIER_25
    BY <1>0, <1>1, <1>2 DEF SameTier, GetBidTier, SaleTier
  <1>3. CASE amount >= TIER_20 /\ ~(amount >= TIER_25)
    BY <1>0, <1>1, <1>3 DEF SameTier, GetBidTier, SaleTier
  <1>4. CASE amount >= TIER_15 /\ ~(amount >= TIER_20)
    BY <1>0, <1>1, <1>4 DEF SameTier, GetBidTier, SaleTier
  <1>5. CASE ~(amount >= TIER_15)
    BY <1>0, <1>5 DEF SameTier, GetBidTier, SaleTier
  <1> QED
    BY <1>0, <1>2, <1>3, <1>4, <1>5

(* Bids in whole lakhs are charged to the tier they are checked against.   *)
LEMMA WholeLakhsSameTier ==
  ASSUME NEW amount \in Nat, amount % LAKH = 0
  PROVE  SameTier(amount)
  <1>1. ASSUME NEW b \in {TIER_20, TIER_25}, ~(amount >= b)
        PROVE  amount <= b - LAKH
    <2>1. b \in Nat /\ b % LAKH = 0
      BY LimitsAssumption, UnitsAssumption
    <2>2. PICK k \in Nat : amount = LAKH * k
      BY WholeMultiple
    <2>3. PICK m \in Nat : b = LAKH * m
      BY <2>1, WholeMultiple
    <2>4. k < m \/ m < k \/ m = k
      OBVIOUS
    <2>5. m < k => LAKH * m + LAKH <= LAKH * k
      BY NextMultiple
    <2>6. k < m => LAKH * k + LAKH <= LAKH * m
      BY NextMultiple
    <2> QED
      BY <1>1, <2>1, <2>2, <2>3, <2>4, <2>5, <2>6, UnitsAssumption
  <1> QED
    BY <1>1, TiersAgree

(* Charging a snapshot gives a snapshot. *)
LEMMA DeductType ==
  ASSUME NEW s \in FranchiseState, NEW p \in Players, NEW price \in Nat
  PROVE  Deduct(s, p, price) \in FranchiseState
  BY DEF Deduct, FranchiseState

LEMMA FullStateType == FullState \in FranchiseState
  BY LimitsAssumption DEF FullState, FranchiseState

(* What canBid promises of the sale of the amount it admits, whatever the  *)
(* number: charged with its whole lakhs, the franchise can still fill its  *)
(* squad, and a counter moves only below its limit, but for a tier with an *)
(* upper bound the amount was not checked against.                         *)
LEMMA DeductKeepsRules ==
  ASSUME NEW s \in FranchiseState, NEW p \in Players, NEW amount \in Nat,
         CanBid(s, p, amount)
  PROVE  LET d == Deduct(s, p, Whole(amount))
         IN  /\ CanStillFillSquad(d)
             /\ \A c \in Limited :
                   \/ d.count[c] = s.count[c]
                   \/ /\ d.count[c] = s.count[c] + 1
                      /\ s.count[c] < Limit[c] \/ (c \in Middle /\ ~SameTier(amount))
  <1> DEFINE price == Whole(amount)
             d == Deduct(s, p, price)
  <1>1. s.count \in [Category -> Nat] /\ s.wallet \in Int
    BY DEF FranchiseState
  <1>2. "squad" \in CompositionOf(p) /\ "squad" \in Limited /\ Limited \subseteq Category
    BY DEF CompositionOf, Limited, Category
  <1>w. price \in Nat /\ price <= amount
    BY WholeBounds
  <1> HIDE DEF price
  <1>3. ASSUME NEW c \in Limited
        PROVE  \/ d.count[c] = s.count[c]
               \/ /\ d.count[c] = s.count[c] + 1
                  /\ s.count[c] < Limit[c] \/ (c \in Middle /\ ~SameTier(amount))
    <2>1. CASE c \in CompositionOf(p)
      BY <2>1, <1>2 DEF Deduct, CanBid
    <2>2. CASE c = SaleTier(price)
      <3>1. d.count[c] = s.count[c] + 1
        BY <2>2, <1>2 DEF Deduct
      <3>2. SameTier(amount) => s.count[c] < Limit[c]
        BY <2>2 DEF SameTier, CanBid, price
      <3>3. ~SameTier(amount) => c # "tier25Plus"
        <4>1. c = "tier25Plus" => price >= TIER_25
          BY <2>2 DEF SaleTier
        <4>2. price >= TIER_25 => amount >= TIER_25
          BY <1>w, LimitsAssumption
        <4>3. amount >= TIER_25 => GetBidTier(amount) = "tier25Plus"
          BY LimitsAssumption, UnitsAssumption DEF GetBidTier
        <4> QED
          BY <2>2, <4>1, <4>2, <4>3 DEF SameTier, price
      <3>4. c \in {"tier25Plus", "tier20to25", "tier15to20"}
        BY <2>2 DEF SaleTier, Limited
      <3> QED
        BY <3>1, <3>2, <3>3, <3>4 DEF Middle
    <2>3. CASE c \notin CompositionOf(p) \cup {SaleTier(price)}
      BY <2>3, <1>2 DEF Deduct
    <2> QED
      BY <2>1, <2>2, <2>3
  <1>4. CanStillFillSquad(d)
    <2>1. d.wallet = s.wallet - price /\ d.count["squad"] = s.count["squad"] + 1
      BY <1>2 DEF Deduct
    <2>2. Limit["squad"] = SQUAD_MAX_SIZE
      BY DEF Limit, Limited
    <2>3. s.count["squad"] < SQUAD_MAX_SIZE /\ amount <= s.wallet
      BY <1>2, <2>2 DEF CanBid
    <2>4. s.count["squad"] \in Nat /\ SQUAD_MAX_SIZE \in Nat /\ MIN_BASE \in Nat
      BY <1>1, <1>2, LimitsAssumption
    <2> DEFINE slots == SQUAD_MAX_SIZE - s.count["squad"] - 1
               reserve == slots * MIN_BASE
    <2>5. slots \in Nat /\ SQUAD_MAX_SIZE - d.count["squad"] = slots
      BY <2>1, <2>3, <2>4
    <2>6. slots > 0 => s.wallet - amount >= reserve
      BY DEF CanBid, CanCompleteSquad
    <2>7. (slots = 0 => reserve = 0) /\ reserve \in Nat
      BY <2>4, <2>5
    <2>8. d.wallet >= reserve
      <3> HIDE DEF slots, reserve
      <3>1. s.wallet - price >= s.wallet - amount
        BY <1>1, <1>w
      <3> QED
        BY <3>1, <2>1, <2>3, <2>5, <2>6, <2>7, <1>1, <1>w
    <2> QED
      BY <2>5, <2>8 DEF CanStillFillSquad
  <1> QED
    BY <1>3, <1>4 DEF price

(* A full wallet and an empty squad obey the rules. *)
LEMMA FullStateRules == WithinCaps(FullState, 0) /\ CanStillFillSquad(FullState)
  <1>1. \A c \in Limited : FullState.count[c] = 0 /\ Limit[c] \in Nat
    BY LimitType DEF FullState, Category, Limited
  <1>2. FullState.count["squad"] = 0 /\ FullState.wallet = WALLET_TOTAL
    BY <1>1 DEF FullState, Limited
  <1>3. SQUAD_MAX_SIZE - 0 = SQUAD_MAX_SIZE
    BY LimitsAssumption
  <1>4. WALLET_TOTAL >= SQUAD_MAX_SIZE * MIN_BASE
    BY LimitsAssumption
  <1> QED
    BY <1>1, <1>2, <1>3, <1>4 DEF WithinCaps, CanStillFillSquad

(* A squad that stays within its caps cannot be overspent. *)
LEMMA WalletNonNegative ==
  ASSUME NEW s \in FranchiseState, NEW n \in Nat, WithinCaps(s, n), CanStillFillSquad(s)
  PROVE  s.wallet >= 0
  <1>1. s.count["squad"] \in Nat /\ s.wallet \in Int
    BY DEF FranchiseState, Category, Limited
  <1>2. s.count["squad"] <= SQUAD_MAX_SIZE
    <2>1. "squad" \in Limited /\ "squad" \notin Middle /\ Limit["squad"] = SQUAD_MAX_SIZE
      BY DEF Limit, Limited, Middle
    <2> QED
      BY <2>1, LimitsAssumption DEF WithinCaps
  <1>3. SQUAD_MAX_SIZE - s.count["squad"] \in Nat /\ MIN_BASE \in Nat
    BY <1>1, <1>2, LimitsAssumption
  <1>4. \A a, b \in Nat : a * b \in Nat
    OBVIOUS
  <1>5. (SQUAD_MAX_SIZE - s.count["squad"]) * MIN_BASE \in Nat
    BY <1>3, <1>4
  <1> QED
    BY <1>1, <1>5 DEF CanStillFillSquad

-----------------------------------------------------------------------------
(* Rebuilding from an empty squad and an untouched wallet gives the full   *)
(* snapshot.                                                               *)
LEMMA RebuildEmpty == Rebuild(WALLET_TOTAL, {}) = FullState
  <1>1. \A c \in Category : RowsIn({}, c) = {}
    BY DEF RowsIn
  <1> QED
    BY <1>1, FS_EmptySet DEF Rebuild, FullState

LEMMA RebuildType ==
  ASSUME NEW wallet \in Int, NEW rows \in SUBSET Row, IsFiniteSet(rows)
  PROVE  Rebuild(wallet, rows) \in FranchiseState
  <1>1. ASSUME NEW c \in Category PROVE Cardinality(RowsIn(rows, c)) \in Nat
    <2>1. RowsIn(rows, c) \subseteq rows
      BY DEF RowsIn
    <2> QED
      BY <2>1, FS_Subset, FS_CardinalityType
  <1> QED
    BY <1>1 DEF Rebuild, FranchiseState

(* A row is counted in a category exactly when its sale was charged to it: *)
(* the tiers and categories of the rebuild are those of the deduction.     *)
LEMMA RowCounted ==
  ASSUME NEW c \in Category, NEW p \in Players, NEW price \in Nat,
         NEW rows, NEW r, r = [player |-> p, price |-> price]
  PROVE  RowsIn(rows \cup {r}, c) =
           IF c \in CompositionOf(p) \cup {SaleTier(price)}
           THEN RowsIn(rows, c) \cup {r}
           ELSE RowsIn(rows, c)
  <1> DEFINE Counted(x) == CASE c = "tier25Plus" -> x.price >= TIER_25
                             [] c = "tier20to25" -> x.price >= TIER_20 /\ x.price < TIER_25
                             [] c = "tier15to20" -> x.price >= TIER_15 /\ x.price < TIER_20
                             [] OTHER            -> c \in CompositionOf(x.player)
  <1>1. Counted(r) <=> c \in CompositionOf(p) \cup {SaleTier(price)}
    <2>0. {TIER_15, TIER_20, TIER_25} \subseteq Nat /\ TIER_15 <= TIER_20 /\ TIER_20 <= TIER_25
      BY LimitsAssumption
    <2>1. {"tier25Plus", "tier20to25", "tier15to20", "below15"} \cap CompositionOf(p) = {}
      BY DEF CompositionOf
    <2>2. SaleTier(price) \in {"tier25Plus", "tier20to25", "tier15to20", "below15"}
      BY DEF SaleTier
    <2>3. CASE c = "tier25Plus"
      BY <2>0, <2>1, <2>3 DEF SaleTier
    <2>4. CASE c = "tier20to25"
      BY <2>0, <2>1, <2>4 DEF SaleTier
    <2>5. CASE c = "tier15to20"
      BY <2>0, <2>1, <2>5 DEF SaleTier
    <2>6. CASE c \notin {"tier25Plus", "tier20to25", "tier15to20"}
      <3>1. c # "below15"
        BY DEF Category, Limited, Unlimited
      <3> QED
        BY <3>1, <2>2, <2>6
    <2> QED
      BY <2>3, <2>4, <2>5, <2>6
  <1>2. \A x : RowsIn(x, c) = {y \in x : Counted(y)}
    BY DEF RowsIn
  <1> HIDE DEF Counted
  <1> QED
    BY <1>1, <1>2

(* Committing a sale to the database is the same change, seen through the  *)
(* rebuild, as charging it to the snapshot.                                *)
LEMMA RebuildAfterSale ==
  ASSUME NEW wallet \in Int, NEW rows \in SUBSET Row, IsFiniteSet(rows),
         NEW p \in Players, NEW price \in Nat,
         \A r \in rows : r.player # p
  PROVE  Rebuild(wallet - price, rows \cup {[player |-> p, price |-> price]})
           = Deduct(Rebuild(wallet, rows), p, price)
  <1> DEFINE r == [player |-> p, price |-> price]
  <1>1. r \notin rows
    OBVIOUS
  <1>2. ASSUME NEW c \in Category
        PROVE  Cardinality(RowsIn(rows \cup {r}, c)) =
                 IF c \in CompositionOf(p) \cup {SaleTier(price)}
                 THEN Cardinality(RowsIn(rows, c)) + 1
                 ELSE Cardinality(RowsIn(rows, c))
    <2>1. RowsIn(rows, c) \subseteq rows
      BY DEF RowsIn
    <2>2. IsFiniteSet(RowsIn(rows, c)) /\ r \notin RowsIn(rows, c)
      BY <1>1, <2>1, FS_Subset
    <2>3. Cardinality(RowsIn(rows, c) \cup {r}) = Cardinality(RowsIn(rows, c)) + 1
      BY <2>2, FS_AddElement
    <2>4. RowsIn(rows \cup {r}, c) =
             IF c \in CompositionOf(p) \cup {SaleTier(price)}
             THEN RowsIn(rows, c) \cup {r}
             ELSE RowsIn(rows, c)
      BY RowCounted
    <2> QED
      BY <2>3, <2>4
  <1> HIDE DEF r
  <1>3. \A c \in Category : Rebuild(wallet, rows).count[c] = Cardinality(RowsIn(rows, c))
    BY DEF Rebuild
  <1>4. Rebuild(wallet, rows).wallet = wallet
    BY DEF Rebuild
  <1>5. Rebuild(wallet - price, rows \cup {r}) = Deduct(Rebuild(wallet, rows), p, price)
    BY <1>2, <1>3, <1>4 DEF Rebuild, Deduct
  <1> QED
    BY <1>5 DEF r

-----------------------------------------------------------------------------
(* The ledger *)

LEMMA StagesDisjoint ==
  \A r \in Reading : r \notin Rebuilt
  BY DEF Reading, Rebuilt

LEMMA TypeInit == Init => TypeOK
  <1> SUFFICES ASSUME Init PROVE TypeOK
    OBVIOUS
  <1>1. WALLET_TOTAL \in Int
    BY LimitsAssumption
  <1> QED
    BY <1>1, FullStateType, FS_EmptySet DEF Init, TypeOK

(* Every variable keeps its type, whatever the settings. *)
LEMMA TypeStep == TypeOK /\ [Next]_vars => TypeOK'
  <1> SUFFICES ASSUME TypeOK, [Next]_vars PROVE TypeOK'
    OBVIOUS
  <1> USE DEF TypeOK, dbVars, floorVars, history
  <1>1. CASE StartAuction
    BY <1>1, FullStateType DEF StartAuction
  <1>2. ASSUME NEW p \in Players, PlayerUp(p) PROVE TypeOK'
    BY <1>2 DEF PlayerUp
  <1>3. ASSUME NEW f \in Franchises, NEW amount \in Prices, PlaceBid(f, amount)
        PROVE  TypeOK'
    <2>1. leader' \in Bid
      BY <1>3, LedgerAssumption DEF PlaceBid, Bid
    <2> QED
      BY <1>3, <2>1 DEF PlaceBid
  <1>4. CASE Sell
    <2> DEFINE f == leader.franchise
               price == Whole(leader.amount)
    <2>1. f \in Franchises /\ price \in Nat /\ block \in Players
      BY <1>4, WholeBounds DEF Sell, Bid
    <2>2. cache[f] \in FranchiseState /\ sold[f] \in FranchiseState
      BY <1>4, <2>1 DEF Sell
    <2>3. Deduct(cache[f], block, price) \in FranchiseState
      BY <2>1, <2>2, DeductType
    <2>4. Deduct(sold[f], block, price) \in FranchiseState
      BY <2>1, <2>2, DeductType
    <2>5. [franchise |-> f, player |-> block, price |-> price] \in Sale
      BY <2>1 DEF Sale
    <2>6. /\ cache' = [cache EXCEPT ![f] = Deduct(cache[f], block, price)]
          /\ sold' = [sold EXCEPT ![f] = Deduct(sold[f], block, price)]
          /\ slips' = [slips EXCEPT ![f] = IF SameTier(leader.amount) THEN slips[f] ELSE slips[f] + 1]
          /\ recording' = recording \cup {[franchise |-> f, player |-> block, price |-> price]}
      BY <1>4, <2>1 DEF Sell
    <2> HIDE DEF f, price
    <2>7. cache' \in [Franchises -> FranchiseState \cup {Missing}]
      BY <2>3, <2>6
    <2>8. sold' \in [Franchises -> FranchiseState] /\ recording' \subseteq Sale
      BY <2>4, <2>5, <2>6
    <2>9. slips' \in [Franchises -> Nat]
      BY <2>1, <2>6
    <2> QED
      BY <1>4, <2>7, <2>8, <2>9 DEF Sell
  <1>5. CASE Unsold
    BY <1>5 DEF Unsold
  <1>6. ASSUME NEW s \in recording, CommitSale(s) PROVE TypeOK'
    <2>1. s.franchise \in Franchises /\ s.price \in Nat /\ s.player \in Players
      BY DEF Sale
    <2>2. [player |-> s.player, price |-> s.price] \in Row
      BY <2>1 DEF Row
    <2>3. wallets' \in [Franchises -> Int]
      BY <1>6, <2>1 DEF CommitSale
    <2>4. squads' \in [Franchises -> SUBSET Row]
      BY <1>6, <2>1, <2>2 DEF CommitSale
    <2>5. ASSUME NEW f \in Franchises PROVE IsFiniteSet(squads'[f])
      <3> DEFINE row == [player |-> s.player, price |-> s.price]
      <3>1. squads'[f] = squads[f] \/ squads'[f] = squads[f] \cup {row}
        BY <1>6, <2>1 DEF CommitSale
      <3>2. IsFiniteSet(squads[f])
        OBVIOUS
      <3> HIDE DEF row
      <3>3. IsFiniteSet(squads[f] \cup {row})
        BY <3>2, FS_AddElement
      <3> QED
        BY <3>1, <3>2, <3>3
    <2> QED
      BY <1>6, <2>3, <2>4, <2>5 DEF CommitSale
  <1>7. ASSUME NEW s \in recording, FailSale(s) PROVE TypeOK'
    BY <1>7 DEF FailSale
  <1>8. ASSUME NEW f \in Franchises, Evict(f) PROVE TypeOK'
    BY <1>8 DEF Evict
  <1>9. ASSUME NEW l \in Loaders, NEW f \in Franchises, ReadWallet(l, f) PROVE TypeOK'
    <2>1. [franchise |-> f, stage |-> "wallet", wallet |-> wallets[f]] \in Reading
      BY DEF Reading
    <2> QED
      BY <1>9, <2>1 DEF ReadWallet
  <1>10. ASSUME NEW l \in Loaders, ReadSquad(l) PROVE TypeOK'
    <2> DEFINE f == loader[l].franchise
    <2>1. f \in Franchises /\ loader[l].wallet \in Int
      BY <1>10 DEF ReadSquad, Reading
    <2>2. Rebuild(loader[l].wallet, squads[f]) \in FranchiseState
      BY <2>1, RebuildType
    <2>3. [franchise |-> f, stage |-> "squad",
           state |-> Rebuild(loader[l].wallet, squads[f])] \in Rebuilt
      BY <2>1, <2>2 DEF Rebuilt
    <2> QED
      BY <1>10, <2>3 DEF ReadSquad
  <1>11. ASSUME NEW l \in Loaders, SetSnapshot(l) PROVE TypeOK'
    BY <1>11 DEF SetSnapshot, Rebuilt
  <1>12. CASE UNCHANGED vars
    BY <1>12 DEF vars
  <1> QED
    BY <1>1, <1>2, <1>3, <1>4, <1>5, <1>6, <1>7, <1>8, <1>9, <1>10, <1>11, <1>12
       DEF Next

(* The ledger's variables are of their types in every reachable state,     *)
(* under every setting of Quiet and AllowRestart.                          *)
THEOREM LedgerTyped == Spec => []TypeOK
  BY TypeInit, TypeStep, PTL DEF Spec
-----------------------------------------------------------------------------

Settled == Quiet /\ ~AllowRestart

LEMMA InvInit == Init => LedgerInv
  <1> SUFFICES ASSUME Init PROVE LedgerInv
    OBVIOUS
  <1>1. TypeOK
    BY TypeInit
  <1>2. BeforeStart /\ SnapshotExact /\ LeaderEligible /\ OneRecordingEach
    BY DEF Init, BeforeStart, SnapshotExact, LeaderEligible, OneRecordingEach
  <1>3. Solvent /\ SquadsWithinCaps
    BY FullStateRules DEF Init, Solvent, SquadsWithinCaps
  <1>4. ASSUME NEW f \in Franchises
        PROVE  /\ wallets[f] = FullState.wallet /\ sold[f] = FullState
               /\ Rebuild(wallets[f], squads[f]) = FullState
               /\ RecordingOf(f) = {}
    BY RebuildEmpty DEF Init, FullState, RecordingOf
  <1>5. WALLET_TOTAL >= WALLET_TOTAL
    BY LimitsAssumption
  <1>6. DatabaseLags
    BY <1>4, <1>5 DEF Init, DatabaseLags, FullState
  <1>7. LoadersExact
    BY DEF Init, LoadersExact
  <1> QED
    BY <1>1, <1>2, <1>3, <1>6, <1>7 DEF LedgerInv

(* Steps of the auction floor that sell nothing leave the ledger alone. *)
LEMMA FloorFrame ==
  ASSUME LedgerInv, UNCHANGED <<started, cache, wallets, squads, loader,
                                recording, failed, sold, slips>>
  PROVE  /\ SnapshotExact' /\ Solvent' /\ SquadsWithinCaps'
         /\ OneRecordingEach' /\ DatabaseLags' /\ LoadersExact'
  <1>1. SnapshotExact' /\ Solvent' /\ SquadsWithinCaps'
    BY DEF LedgerInv, SnapshotExact, Solvent, SquadsWithinCaps
  <1>2. OneRecordingEach' /\ DatabaseLags'
    BY DEF LedgerInv, OneRecordingEach, DatabaseLags, RecordingOf
  <1>3. LoadersExact'
    BY DEF LedgerInv, LoadersExact, DbCaughtUp
  <1> QED
    BY <1>1, <1>2, <1>3

LEMMA StartInv ==
  ASSUME Settled, LedgerInv, TypeOK', StartAuction
  PROVE  LedgerInv'
  <1>1. /\ ~started /\ recording = {} /\ failed = {}
        /\ \A f \in Franchises : sold[f] = FullState
        /\ \A l \in Loaders : loader[l] = Idle
    BY DEF Settled, LedgerInv, BeforeStart, StartAuction
  <1>2. \A f \in Franchises : cache'[f] = FullState
    BY DEF StartAuction
  <1>3. UNCHANGED <<wallets, squads, recording, failed, loader, sold, slips>>
    BY DEF StartAuction, dbVars, history
  <1>4. BeforeStart' /\ LeaderEligible'
    BY DEF StartAuction, BeforeStart, LeaderEligible
  <1>5. SnapshotExact' /\ Solvent' /\ SquadsWithinCaps'
    BY <1>1, <1>2, <1>3 DEF LedgerInv, SnapshotExact, Solvent, SquadsWithinCaps
  <1>6. OneRecordingEach' /\ DatabaseLags'
    BY <1>3 DEF LedgerInv, OneRecordingEach, DatabaseLags, RecordingOf
  <1>7. LoadersExact'
    BY <1>1, <1>3 DEF LoadersExact, DbCaughtUp
  <1> QED
    BY <1>4, <1>5, <1>6, <1>7 DEF LedgerInv

LEMMA FloorInv ==
  ASSUME LedgerInv, TypeOK',
         \/ \E p \in Players : PlayerUp(p)
         \/ \E f \in Franchises, amount \in Prices : PlaceBid(f, amount)
         \/ Unsold
  PROVE  LedgerInv'
  <1>1. UNCHANGED <<started, cache, wallets, squads, loader, recording, failed, sold, slips>>
    BY DEF PlayerUp, PlaceBid, Unsold, dbVars, history
  <1>2. started
    BY DEF PlayerUp, PlaceBid, Unsold, LedgerInv, BeforeStart
  <1>3. LeaderEligible'
    <2>1. ASSUME NEW p \in Players, PlayerUp(p) PROVE LeaderEligible'
      BY <2>1 DEF PlayerUp, LeaderEligible
    <2>2. ASSUME NEW f \in Franchises, NEW amount \in Prices, PlaceBid(f, amount)
          PROVE  LeaderEligible'
      <3>1. cache[f] = sold[f]
        BY <1>2, <2>2 DEF LedgerInv, SnapshotExact, PlaceBid
      <3>2. CanBid(sold[f], block, amount)
        BY <2>2, <3>1 DEF PlaceBid, ValidBid
      <3>3. leader'.franchise = f /\ leader'.amount = amount
        BY <2>2 DEF PlaceBid
      <3>4. block' = block /\ sold' = sold /\ block # NoPlayer
        BY <2>2 DEF PlaceBid, history
      <3> QED
        BY <3>2, <3>3, <3>4 DEF LeaderEligible
    <2>3. ASSUME Unsold PROVE LeaderEligible'
      BY <2>3 DEF Unsold, LeaderEligible
    <2> QED
      BY <2>1, <2>2, <2>3
  <1>4. BeforeStart'
    BY <1>1, <1>2 DEF BeforeStart
  <1> QED
    BY <1>1, <1>3, <1>4, FloorFrame DEF LedgerInv

(* The sale is where every part of the invariant meets: the standing bid   *)
(* is eligible on the exact snapshot, which is charged.                    *)
LEMMA SellInv ==
  ASSUME Settled, LedgerInv, TypeOK', Sell
  PROVE  LedgerInv'
  <1>0. leader.franchise \in Franchises /\ leader.amount \in Nat /\ block \in Players
    BY DEF Sell, LedgerInv, TypeOK, Bid
  <1>a. Whole(leader.amount) \in Nat
    BY <1>0, WholeBounds
  <1>1. PICK f \in Franchises, amount \in Nat, price \in Nat, p \in Players :
           /\ f = leader.franchise /\ amount = leader.amount /\ price = Whole(amount)
           /\ p = block /\ started
    BY <1>0, <1>a DEF Sell, LedgerInv, BeforeStart
  <1> DEFINE s == [franchise |-> f, player |-> p, price |-> price]
             d == Deduct(sold[f], p, price)
  <1>2. sold[f] \in FranchiseState /\ cache[f] = sold[f]
    BY <1>1 DEF Sell, LedgerInv, TypeOK, SnapshotExact
  <1>3. RecordingOf(f) = {} /\ ~Rebuilding(f)
    BY <1>1 DEF Sell, Settled
  <1>4. CanBid(sold[f], p, amount)
    BY <1>1 DEF Sell, LedgerInv, LeaderEligible
  <1> DEFINE n == IF SameTier(amount) THEN slips[f] ELSE slips[f] + 1
  <1>5. WithinCaps(d, n) /\ CanStillFillSquad(d)
    <2>1. /\ CanStillFillSquad(d)
          /\ \A c \in Limited :
                \/ d.count[c] = sold[f].count[c]
                \/ /\ d.count[c] = sold[f].count[c] + 1
                   /\ sold[f].count[c] < Limit[c] \/ (c \in Middle /\ ~SameTier(amount))
      BY <1>1, <1>2, <1>4, DeductKeepsRules
    <2>2. WithinCaps(sold[f], slips[f]) /\ slips[f] \in Nat
      BY <1>1 DEF LedgerInv, SquadsWithinCaps, TypeOK
    <2> HIDE DEF d
    <2>3. ASSUME NEW c \in Limited
          PROVE  d.count[c] <= Limit[c] + (IF c \in Middle THEN n ELSE 0)
      <3>1. sold[f].count[c] \in Nat /\ Limit[c] \in Nat
        BY <1>2, LimitType DEF FranchiseState, Category
      <3>2. sold[f].count[c] <= Limit[c] + (IF c \in Middle THEN slips[f] ELSE 0)
        BY <2>2 DEF WithinCaps
      <3> QED
        BY <2>1, <2>2, <3>1, <3>2
    <2> QED
      BY <2>1, <2>3 DEF WithinCaps
  <1>6. d.wallet = sold[f].wallet - price /\ sold[f].wallet \in Int
    BY <1>2 DEF Deduct, FranchiseState
  <1>7. /\ sold' = [sold EXCEPT ![f] = d]
        /\ cache' = [cache EXCEPT ![f] = d]
        /\ slips' = [slips EXCEPT ![f] = n]
        /\ recording' = recording \cup {s}
        /\ UNCHANGED <<started, wallets, squads, failed, loader>>
        /\ leader' = NoBid
    BY <1>1, <1>2 DEF Sell, LedgerInv, TypeOK
  <1>8. s.franchise = f /\ s.player = p /\ s.price = price
    OBVIOUS
  <1> HIDE DEF d, s, n
  <1>9. /\ sold'[f] = d /\ cache'[f] = d /\ slips'[f] = n
        /\ \A g \in Franchises \ {f} :
              sold'[g] = sold[g] /\ cache'[g] = cache[g] /\ slips'[g] = slips[g]
    BY <1>1, <1>7 DEF LedgerInv, TypeOK
  <1>10. BeforeStart' /\ LeaderEligible'
    BY <1>1, <1>7 DEF BeforeStart, LeaderEligible
  <1>11. SnapshotExact'
    BY <1>1, <1>7, <1>9 DEF LedgerInv, SnapshotExact
  <1>12. Solvent' /\ SquadsWithinCaps'
    BY <1>5, <1>9 DEF LedgerInv, Solvent, SquadsWithinCaps
  <1>13. /\ RecordingOf(f)' = {s}
         /\ \A g \in Franchises \ {f} : RecordingOf(g)' = RecordingOf(g)
    BY <1>3, <1>7, <1>8 DEF RecordingOf
  <1>14. OneRecordingEach'
    BY <1>3, <1>7, <1>8 DEF LedgerInv, OneRecordingEach, RecordingOf
  <1>15. ASSUME NEW g \in Franchises
         PROVE  /\ RecordingOf(g)' = {} => wallets'[g] >= sold'[g].wallet
                /\ \A t \in RecordingOf(g)' : wallets'[g] >= sold'[g].wallet + t.price
                /\ (\A t \in failed' : t.franchise # g) =>
                      /\ RecordingOf(g)' = {} => Rebuild(wallets'[g], squads'[g]) = sold'[g]
                      /\ \A t \in RecordingOf(g)' :
                            sold'[g] = Deduct(Rebuild(wallets'[g], squads'[g]), t.player, t.price)
    <2>1. CASE g = f
      <3>1. /\ wallets[f] >= sold[f].wallet
            /\ (\A t \in failed : t.franchise # f) => Rebuild(wallets[f], squads[f]) = sold[f]
        BY <1>1, <1>3 DEF LedgerInv, DatabaseLags
      <3>2. wallets[f] \in Int
        BY <1>1 DEF LedgerInv, TypeOK
      <3>3. wallets[f] >= d.wallet + s.price
        BY <1>1, <1>6, <1>8, <3>1, <3>2
      <3>4. (\A t \in failed : t.franchise # f)
              => d = Deduct(Rebuild(wallets[f], squads[f]), s.player, s.price)
        BY <1>8, <3>1 DEF d
      <3> QED
        BY <2>1, <1>7, <1>9, <1>13, <3>3, <3>4
    <2>2. CASE g # f
      BY <2>2, <1>7, <1>9, <1>13 DEF LedgerInv, DatabaseLags
    <2> QED
      BY <2>1, <2>2
  <1>16. DatabaseLags'
    BY <1>15 DEF DatabaseLags
  <1>17. LoadersExact'
    <2>1. ASSUME NEW g \in Franchises, started, cache'[g] = Missing PROVE DbCaughtUp(g)'
      <3>1. g # f
        BY <1>1, <1>2, <1>9, <2>1, DeductType, LedgerAssumption DEF d
      <3>2. DbCaughtUp(g)
        BY <1>7, <1>9, <2>1, <3>1 DEF LedgerInv, LoadersExact
      <3> QED
        BY <1>7, <1>8, <3>1, <3>2 DEF DbCaughtUp
    <2>2. ASSUME NEW l \in Loaders, loader[l] # Idle
          PROVE  /\ loader[l].franchise # f
                 /\ DbCaughtUp(loader[l].franchise)'
                 /\ loader[l].franchise \in Franchises
      <3>1. loader[l].franchise # f
        BY <1>3, <2>2 DEF Rebuilding
      <3>2. DbCaughtUp(loader[l].franchise)
        BY <2>2 DEF LedgerInv, LoadersExact
      <3>3. loader[l].franchise \in Franchises
        BY <2>2 DEF LedgerInv, TypeOK, Reading, Rebuilt
      <3> QED
        BY <1>7, <1>8, <3>1, <3>2, <3>3 DEF DbCaughtUp
    <2> QED
      BY <1>7, <1>9, <2>1, <2>2 DEF LedgerInv, LoadersExact
  <1> QED
    BY <1>10, <1>11, <1>12, <1>14, <1>16, <1>17 DEF LedgerInv

(* The transaction that was running when the sale was charged lands: the   *)
(* database catches up with the snapshot.                                  *)
LEMMA CommitInv ==
  ASSUME LedgerInv, TypeOK', NEW s \in recording, CommitSale(s)
  PROVE  LedgerInv'
  <1>1. PICK f \in Franchises, p \in Players, price \in Nat :
           f = s.franchise /\ p = s.player /\ price = s.price
    BY DEF LedgerInv, TypeOK, Sale
  <1> DEFINE row == [player |-> p, price |-> price]
  <1>2. /\ squads' = [squads EXCEPT ![f] = squads[f] \cup {row}]
        /\ wallets' = [wallets EXCEPT ![f] =
                          IF wallets[f] >= price THEN wallets[f] - price ELSE wallets[f]]
        /\ recording' = recording \ {s}
        /\ UNCHANGED <<started, cache, loader, block, leader, failed, sold, slips>>
        /\ \A r \in squads[f] : r.player # p
    BY <1>1 DEF CommitSale, floorVars, history
  <1>3. /\ wallets[f] \in Int /\ squads[f] \in SUBSET Row /\ IsFiniteSet(squads[f])
        /\ sold[f] \in FranchiseState
    BY DEF LedgerInv, TypeOK
  <1>4. RecordingOf(f) = {s}
    BY <1>1 DEF RecordingOf, LedgerInv, OneRecordingEach
  <1>5. /\ RecordingOf(f)' = {}
        /\ \A g \in Franchises \ {f} : RecordingOf(g)' = RecordingOf(g)
    BY <1>1, <1>2, <1>4 DEF RecordingOf
  <1>6. wallets[f] >= sold[f].wallet + price /\ sold[f].wallet \in Int /\ sold[f].wallet >= 0
    BY <1>1, <1>3, <1>4, WalletNonNegative
       DEF LedgerInv, TypeOK, DatabaseLags, FranchiseState, Solvent, SquadsWithinCaps
  <1>7. wallets'[f] = wallets[f] - price /\ wallets'[f] >= sold[f].wallet
    BY <1>2, <1>3, <1>6 DEF LedgerInv, TypeOK
  <1>8. squads'[f] = squads[f] \cup {row}
    BY <1>2 DEF LedgerInv, TypeOK
  <1>9. (\A t \in failed : t.franchise # f)
           => Rebuild(wallets'[f], squads'[f]) = sold[f]
    <2>1. Rebuild(wallets[f] - price, squads[f] \cup {row})
             = Deduct(Rebuild(wallets[f], squads[f]), p, price)
      BY <1>2, <1>3, RebuildAfterSale
    <2>2. (\A t \in failed : t.franchise # f)
             => sold[f] = Deduct(Rebuild(wallets[f], squads[f]), p, price)
      BY <1>1, <1>4 DEF LedgerInv, DatabaseLags
    <2> QED
      BY <1>7, <1>8, <2>1, <2>2
  <1> HIDE DEF row
  <1>10. \A g \in Franchises \ {f} : wallets'[g] = wallets[g] /\ squads'[g] = squads[g]
    BY <1>2 DEF LedgerInv, TypeOK
  <1>11. SnapshotExact' /\ Solvent' /\ SquadsWithinCaps' /\ LeaderEligible'
    BY <1>2 DEF LedgerInv, SnapshotExact, Solvent, SquadsWithinCaps, LeaderEligible
  <1>12. OneRecordingEach'
    BY <1>2 DEF LedgerInv, OneRecordingEach
  <1>13. BeforeStart'
    BY <1>2 DEF LedgerInv, BeforeStart
  <1>14. ASSUME NEW g \in Franchises
         PROVE  /\ RecordingOf(g)' = {} => wallets'[g] >= sold'[g].wallet
                /\ \A t \in RecordingOf(g)' : wallets'[g] >= sold'[g].wallet + t.price
                /\ (\A t \in failed' : t.franchise # g) =>
                      /\ RecordingOf(g)' = {} => Rebuild(wallets'[g], squads'[g]) = sold'[g]
                      /\ \A t \in RecordingOf(g)' :
                            sold'[g] = Deduct(Rebuild(wallets'[g], squads'[g]), t.player, t.price)
    <2>1. CASE g = f
      BY <2>1, <1>2, <1>5, <1>7, <1>9
    <2>2. CASE g # f
      BY <2>2, <1>2, <1>5, <1>10 DEF LedgerInv, DatabaseLags
    <2> QED
      BY <2>1, <2>2
  <1>15. DatabaseLags'
    BY <1>14 DEF DatabaseLags
  <1>16. LoadersExact'
    <2>1. \A g \in Franchises : DbCaughtUp(g) => DbCaughtUp(g)'
      BY <1>2 DEF DbCaughtUp
    <2>2. ~DbCaughtUp(f)
      BY <1>1 DEF DbCaughtUp
    <2>3. \A l \in Loaders : loader[l] # Idle => loader[l].franchise \in Franchises \ {f}
      BY <2>2 DEF LedgerInv, LoadersExact, TypeOK, Reading, Rebuilt
    <2> QED
      BY <1>2, <1>10, <2>1, <2>3 DEF LedgerInv, LoadersExact
  <1> QED
    BY <1>11, <1>12, <1>13, <1>15, <1>16 DEF LedgerInv

(* A rolled-back transaction leaves a franchise whose database is behind   *)
(* for good; its snapshot stays exact.                                     *)
LEMMA FailInv ==
  ASSUME LedgerInv, TypeOK', NEW s \in recording, FailSale(s)
  PROVE  LedgerInv'
  <1>1. PICK f \in Franchises, price \in Nat : f = s.franchise /\ price = s.price
    BY DEF LedgerInv, TypeOK, Sale
  <1>2. /\ recording' = recording \ {s} /\ failed' = failed \cup {s}
        /\ UNCHANGED <<started, cache, loader, block, leader, wallets, squads, sold, slips>>
    BY DEF FailSale, floorVars, history
  <1>3. RecordingOf(f) = {s}
    BY <1>1 DEF RecordingOf, LedgerInv, OneRecordingEach
  <1>4. /\ RecordingOf(f)' = {}
        /\ \A g \in Franchises \ {f} : RecordingOf(g)' = RecordingOf(g)
    BY <1>1, <1>2, <1>3 DEF RecordingOf
  <1>5. wallets[f] >= sold[f].wallet
    <2>1. wallets[f] >= sold[f].wallet + price
      BY <1>1, <1>3 DEF LedgerInv, DatabaseLags
    <2>2. wallets[f] \in Int /\ sold[f].wallet \in Int
      BY DEF LedgerInv, TypeOK, FranchiseState
    <2> QED
      BY <2>1, <2>2
  <1>6. SnapshotExact' /\ Solvent' /\ SquadsWithinCaps' /\ LeaderEligible'
    BY <1>2 DEF LedgerInv, SnapshotExact, Solvent, SquadsWithinCaps, LeaderEligible
  <1>7. OneRecordingEach' /\ BeforeStart'
    BY <1>2 DEF LedgerInv, OneRecordingEach, BeforeStart
  <1>8. DatabaseLags'
    <2>1. ~(\A t \in failed' : t.franchise # f)
      BY <1>1, <1>2
    <2>2. \A g \in Franchises \ {f} :
             (\A t \in failed' : t.franchise # g) => \A t \in failed : t.franchise # g
      BY <1>2
    <2> QED
      BY <1>2, <1>4, <1>5, <2>1, <2>2 DEF LedgerInv, DatabaseLags
  <1>9. LoadersExact'
    <2>1. \A g \in Franchises : DbCaughtUp(g)' = DbCaughtUp(g)
      BY <1>2 DEF DbCaughtUp
    <2>2. \A l \in Loaders : loader[l] # Idle => loader[l].franchise \in Franchises
      BY DEF LedgerInv, TypeOK, Reading, Rebuilt
    <2> QED
      BY <1>2, <2>1, <2>2 DEF LedgerInv, LoadersExact
  <1> QED
    BY <1>6, <1>7, <1>8, <1>9 DEF LedgerInv

LEMMA EvictInv ==
  ASSUME Settled, LedgerInv, TypeOK', NEW f \in Franchises, Evict(f)
  PROVE  LedgerInv'
  <1>1. /\ cache' = [cache EXCEPT ![f] = Missing] /\ started /\ DbCaughtUp(f)
        /\ UNCHANGED <<started, wallets, squads, recording, failed, loader, block, leader, sold, slips>>
    BY DEF Evict, Settled, dbVars, floorVars, history
  <1>2. SnapshotExact' /\ Solvent' /\ SquadsWithinCaps' /\ LeaderEligible' /\ BeforeStart'
    BY <1>1 DEF LedgerInv, TypeOK, SnapshotExact, Solvent, SquadsWithinCaps,
                LeaderEligible, BeforeStart
  <1>3. OneRecordingEach' /\ DatabaseLags'
    BY <1>1 DEF LedgerInv, OneRecordingEach, DatabaseLags, RecordingOf
  <1>4. LoadersExact'
    <2>1. \A g \in Franchises : DbCaughtUp(g)' = DbCaughtUp(g)
      BY <1>1 DEF DbCaughtUp
    <2>2. \A l \in Loaders : loader[l] # Idle => loader[l].franchise \in Franchises
      BY DEF LedgerInv, TypeOK, Reading, Rebuilt
    <2>3. \A g \in Franchises \ {f} : cache'[g] = cache[g]
      BY <1>1 DEF LedgerInv, TypeOK
    <2> QED
      BY <1>1, <2>1, <2>2, <2>3 DEF LedgerInv, LoadersExact
  <1> QED
    BY <1>2, <1>3, <1>4 DEF LedgerInv

(* What a rebuild reads is exact, because only a snapshot the database can *)
(* reproduce is ever missing.                                              *)
LEMMA LoaderInv ==
  ASSUME LedgerInv, TypeOK', NEW l \in Loaders,
         \/ \E f \in Franchises : ReadWallet(l, f)
         \/ ReadSquad(l)
         \/ SetSnapshot(l)
  PROVE  LedgerInv'
  <1>1. UNCHANGED <<started, wallets, squads, recording, failed, block, leader, sold, slips>>
    BY DEF ReadWallet, ReadSquad, SetSnapshot, dbVars, floorVars, history
  <1>2. /\ Solvent' /\ SquadsWithinCaps' /\ LeaderEligible'
        /\ OneRecordingEach' /\ DatabaseLags'
    BY <1>1 DEF LedgerInv, Solvent, SquadsWithinCaps, LeaderEligible,
                OneRecordingEach, DatabaseLags, RecordingOf
  <1>3. \A g \in Franchises : DbCaughtUp(g)' = DbCaughtUp(g)
    BY <1>1 DEF DbCaughtUp
  <1>4. \A m \in Loaders : loader[m] # Idle => loader[m].franchise \in Franchises
    BY DEF LedgerInv, TypeOK, Reading, Rebuilt
  <1>5. started
    BY NullsAssumption DEF ReadWallet, ReadSquad, SetSnapshot, LedgerInv, BeforeStart
  <1>6. ASSUME NEW f \in Franchises, ReadWallet(l, f)
        PROVE  SnapshotExact' /\ LoadersExact'
    <2> DEFINE r == [franchise |-> f, stage |-> "wallet", wallet |-> wallets[f]]
    <2>1. loader' = [loader EXCEPT ![l] = r] /\ cache' = cache /\ cache[f] = Missing
      BY <1>6 DEF ReadWallet
    <2>2. r \in Reading /\ r.franchise = f /\ r.wallet = wallets[f] /\ r \notin Rebuilt
      BY StagesDisjoint DEF Reading, LedgerInv, TypeOK
    <2>3. DbCaughtUp(f)
      BY <1>5, <2>1 DEF LedgerInv, LoadersExact
    <2> HIDE DEF r
    <2>4. loader'[l] = r /\ \A m \in Loaders \ {l} : loader'[m] = loader[m]
      BY <2>1 DEF LedgerInv, TypeOK
    <2>5. SnapshotExact'
      BY <1>1, <2>1 DEF LedgerInv, SnapshotExact
    <2> QED
      BY <1>1, <1>3, <1>4, <2>1, <2>2, <2>3, <2>4, <2>5 DEF LedgerInv, LoadersExact
  <1>7. ASSUME ReadSquad(l)
        PROVE  SnapshotExact' /\ LoadersExact'
    <2>1. PICK f \in Franchises : f = loader[l].franchise
      BY <1>7 DEF ReadSquad, Reading
    <2> DEFINE r == [franchise |-> f, stage |-> "squad",
                     state |-> Rebuild(loader[l].wallet, squads[f])]
    <2>2. loader' = [loader EXCEPT ![l] = r] /\ cache' = cache
          /\ loader[l] \in Reading /\ loader[l] # Idle
      BY <1>7, <2>1, NullsAssumption DEF ReadSquad
    <2>3. DbCaughtUp(f) /\ loader[l].wallet = wallets[f]
      BY <2>1, <2>2 DEF LedgerInv, LoadersExact
    <2>4. Rebuild(wallets[f], squads[f]) = sold[f]
      BY <2>3 DEF LedgerInv, DatabaseLags, RecordingOf, DbCaughtUp
    <2>5. r.franchise = f /\ r.state = sold[f]
      BY <2>3, <2>4
    <2>6. r \notin Reading
      BY DEF Reading
    <2> HIDE DEF r
    <2>7. loader'[l] = r /\ \A m \in Loaders \ {l} : loader'[m] = loader[m]
      BY <2>2 DEF LedgerInv, TypeOK
    <2>8. SnapshotExact'
      BY <1>1, <2>2 DEF LedgerInv, SnapshotExact
    <2> QED
      BY <1>1, <1>3, <1>4, <2>2, <2>3, <2>5, <2>6, <2>7, <2>8 DEF LedgerInv, LoadersExact
  <1>8. ASSUME SetSnapshot(l)
        PROVE  SnapshotExact' /\ LoadersExact'
    <2>1. PICK f \in Franchises : f = loader[l].franchise
      BY <1>8 DEF SetSnapshot, Rebuilt
    <2>2. loader[l] # Idle /\ loader[l].state = sold[f]
      BY <1>8, <2>1, NullsAssumption DEF SetSnapshot, LedgerInv, LoadersExact
    <2>3. cache' = [cache EXCEPT ![f] = sold[f]] /\ loader' = [loader EXCEPT ![l] = Idle]
      BY <1>8, <2>1, <2>2 DEF SetSnapshot
    <2>4. /\ loader'[l] = Idle /\ cache'[f] = sold[f]
          /\ \A m \in Loaders \ {l} : loader'[m] = loader[m]
          /\ \A g \in Franchises \ {f} : cache'[g] = cache[g]
      BY <2>3 DEF LedgerInv, TypeOK
    <2>5. SnapshotExact'
      BY <1>1, <1>5, <2>4 DEF LedgerInv, SnapshotExact
    <2>6. sold[f] # Missing
      BY LedgerAssumption DEF LedgerInv, TypeOK
    <2> QED
      BY <1>1, <1>3, <1>4, <2>4, <2>5, <2>6 DEF LedgerInv, LoadersExact
  <1>9. BeforeStart'
    BY <1>1, <1>5 DEF BeforeStart
  <1> QED
    BY <1>2, <1>6, <1>7, <1>8, <1>9 DEF LedgerInv

LEMMA InvStep ==
  ASSUME Settled, LedgerInv, [Next]_vars
  PROVE  LedgerInv'
  <1>1. TypeOK'
    BY TypeStep DEF LedgerInv
  <1>2. CASE UNCHANGED vars
    <2>1. UNCHANGED <<started, cache, wallets, squads, loader, recording, failed, sold, slips,
                    block, leader>>
      BY <1>2 DEF vars
    <2>2. BeforeStart' /\ LeaderEligible'
      BY <2>1 DEF LedgerInv, BeforeStart, LeaderEligible
    <2> QED
      BY <1>1, <2>1, <2>2, FloorFrame DEF LedgerInv
  <1> QED
    BY <1>1, <1>2, StartInv, FloorInv, SellInv, CommitInv, FailInv, EvictInv, LoaderInv
       DEF Next

(* The four promises follow from the inductive invariant. *)
LEMMA InvImplies == LedgerInv => ChargeNeverSkipped /\ DatabaseExact
  <1> SUFFICES ASSUME LedgerInv PROVE ChargeNeverSkipped /\ DatabaseExact
    OBVIOUS
  <1>1. ASSUME NEW s \in recording PROVE wallets[s.franchise] >= s.price
    <2>1. PICK f \in Franchises, price \in Nat : f = s.franchise /\ price = s.price
      BY DEF LedgerInv, TypeOK, Sale
    <2>2. wallets[f] >= sold[f].wallet + price
      BY <2>1 DEF LedgerInv, DatabaseLags, RecordingOf
    <2>3. sold[f].wallet >= 0 /\ sold[f].wallet \in Int /\ wallets[f] \in Int
      BY WalletNonNegative DEF LedgerInv, TypeOK, FranchiseState, Solvent, SquadsWithinCaps
    <2> QED
      BY <2>1, <2>2, <2>3
  <1>2. DatabaseExact
    BY DEF LedgerInv, DatabaseLags, DatabaseExact, DbCaughtUp, RecordingOf
  <1> QED
    BY <1>1, <1>2 DEF ChargeNeverSkipped

LEMMA LedgerInvariant ==
  ASSUME Settled
  PROVE  Spec => []LedgerInv
  <1>1. LedgerInv /\ [Next]_vars => LedgerInv'
    BY InvStep
  <1> QED
    BY InvInit, <1>1, PTL DEF Spec

(* Whatever the pool, the caps and the bids: a franchise can always still  *)
(* fill its squad.                                                         *)
THEOREM FranchisesStaySolvent ==
  ASSUME Settled
  PROVE  Spec => []Solvent
  BY LedgerInvariant, PTL DEF LedgerInv

(* However many bids fall between two lakhs: no cap is exceeded by more    *)
(* than the bids that slipped past the tier they were charged to, and only *)
(* that of a tier with an upper bound.  Where every bid is whole, none     *)
(* does (WholeLakhsSameTier).                                              *)
THEOREM CapsHold ==
  ASSUME Settled
  PROVE  Spec => []SquadsWithinCaps
  BY LedgerInvariant, PTL DEF LedgerInv

(* The cached snapshot is exact, through evictions and rebuilds. *)
THEOREM SnapshotsStayExact ==
  ASSUME Settled
  PROVE  Spec => []SnapshotExact
  BY LedgerInvariant, PTL DEF LedgerInv

(* The guarded wallet update of recordPlayerSold always finds its row: no  *)
(* charge is silently skipped.                                             *)
THEOREM ChargesGoThrough ==
  ASSUME Settled
  PROVE  Spec => []ChargeNeverSkipped
  BY LedgerInvariant, InvImplies, PTL

(* A database that has caught up with a franchise's sales gives its exact  *)
(* snapshot.                                                               *)
THEOREM DatabaseFollows ==
  ASSUME Settled
  PROVE  Spec => []DatabaseExact
  BY LedgerInvariant, InvImplies, PTL

=============================================================================
