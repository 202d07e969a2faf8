----------------------------- MODULE Eligibility -----------------------------
(***************************************************************************)
(* The salary-cap rules every bid is checked against, and the two ways the *)
(* backend computes the snapshot they are checked on: incrementally, when  *)
(* a player is sold (deductFromFranchiseState), and from the squad rows of *)
(* the database, when the cached snapshot is missing                       *)
(* (rebuildFranchiseStateFromDB).                                          *)
(*                                                                         *)
(* The three places classify a price into a tier with three separate       *)
(* pieces of code; they stay three definitions here.                       *)
(*                                                                         *)
(* Money is counted in units of which LAKH make a lakh.  The constants and *)
(* the columns of the database are whole lakhs, but an amount bid is any   *)
(* number the client sends: nothing checks that it is whole.  canBid sees  *)
(* it as it was sent, and everything after reads it back with parseInt.    *)
(***************************************************************************)
EXTENDS Integers, FiniteSets

CONSTANTS
    LAKH,                \* the units of a lakh
    Players,             \* the players of the auction pool
    Role,                \* Role[p]: "wk", "batter", "pacer", "spinner" or "allrounder"
    Overseas,            \* the players whose nationality is 'overseas'
    BasePrice,           \* BasePrice[p]
    WALLET_TOTAL,        \* what each franchise starts with
    SQUAD_MAX_SIZE,
    OVERSEAS_MAX,
    WK_MAX,
    TIER_15, TIER_20, TIER_25,             \* lower bounds of the price tiers
    TIER_15_MAX, TIER_20_MAX, TIER_25_MAX, \* players allowed in each tier
    MIN_BASE             \* the minimum base price any player can have

Roles == {"wk", "batter", "pacer", "spinner", "allrounder"}

ASSUME PlayersAssumption ==
    /\ Role \in [Players -> Roles]
    /\ Overseas \subseteq Players
    /\ BasePrice \in [Players -> Nat]

ASSUME LimitsAssumption ==
    /\ {WALLET_TOTAL, SQUAD_MAX_SIZE, OVERSEAS_MAX, WK_MAX} \subseteq Nat
    /\ {TIER_15, TIER_20, TIER_25} \subseteq Nat
    /\ {TIER_15_MAX, TIER_20_MAX, TIER_25_MAX} \subseteq Nat
    /\ TIER_15 <= TIER_20 /\ TIER_20 <= TIER_25
    /\ MIN_BASE \in Nat
    /\ SQUAD_MAX_SIZE * MIN_BASE <= WALLET_TOTAL

ASSUME UnitsAssumption ==
    /\ LAKH \in Nat \ {0}
    /\ \A bound \in {TIER_15, TIER_20, TIER_25} : bound % LAKH = 0
    /\ \A p \in Players : BasePrice[p] % LAKH = 0

(* parseInt *)
Whole(amount) == amount - (amount % LAKH)

-----------------------------------------------------------------------------
(* A FranchiseState: the wallet, and one counter per category of           *)
(* acquisition.  "squad" counts every acquisition.                         *)

Limited == {"squad", "tier25Plus", "tier20to25", "tier15to20", "overseas", "wk"}
Unlimited == {"batter", "bowler", "allRounder"}
Category == Limited \cup Unlimited

FranchiseState == [wallet : Int, count : [Category -> Nat]]

Limit == [c \in Limited |->
            CASE c = "squad"      -> SQUAD_MAX_SIZE
              [] c = "tier25Plus" -> TIER_25_MAX
              [] c = "tier20to25" -> TIER_20_MAX
              [] c = "tier15to20" -> TIER_15_MAX
              [] c = "overseas"   -> OVERSEAS_MAX
              [] c = "wk"         -> WK_MAX]

FullState == [wallet |-> WALLET_TOTAL, count |-> [c \in Category |-> 0]]

(* The composition categories a player belongs to whatever its price. *)
CompositionOf(p) ==
    {"squad"}
      \cup (IF p \in Overseas THEN {"overseas"} ELSE {})
      \cup (CASE Role[p] = "wk"         -> {"wk"}
              [] Role[p] = "batter"     -> {"batter"}
              [] Role[p] = "allrounder" -> {"allRounder"}
              [] OTHER                  -> {"bowler"})

-----------------------------------------------------------------------------
(* canBid *)

(* The upper bounds are whole too, one lakh below the next tier (2499 and  *)
(* 1999), and inclusive: an amount between the last lakh of a tier and the *)
(* next tier is in neither.                                                *)
GetBidTier(amount) ==
    CASE amount >= TIER_25                       -> "tier25Plus"
      [] amount \in TIER_20 .. (TIER_25 - LAKH) -> "tier20to25"
      [] amount \in TIER_15 .. (TIER_20 - LAKH) -> "tier15to20"
      [] OTHER                                   -> "below15"

(* Fault: one place too few is kept for the rest of the squad. *)
CanCompleteSquadLess(s, amount) ==
    LET remainingSlots == SQUAD_MAX_SIZE - s.count["squad"] - 2
    IN  remainingSlots > 0 => s.wallet - amount >= remainingSlots * MIN_BASE

CanCompleteSquad(s, amount) ==
    LET remainingSlots == SQUAD_MAX_SIZE - s.count["squad"] - 1
    IN  remainingSlots > 0 => s.wallet - amount >= remainingSlots * MIN_BASE

(* Fault: a full category still admits one more. *)
CanBidAtCap(s, p, amount) ==
    /\ \A c \in (CompositionOf(p) \cup {GetBidTier(amount)}) \cap Limited :
          s.count[c] <= Limit[c]
    /\ amount <= s.wallet
    /\ CanCompleteSquad(s, amount)

(* Fault: rule 2 is missing, and rule 5 does not bind on the last place. *)
CanBidUnfunded(s, p, amount) ==
    /\ \A c \in (CompositionOf(p) \cup {GetBidTier(amount)}) \cap Limited :
          s.count[c] < Limit[c]
    /\ CanCompleteSquad(s, amount)

CanBid(s, p, amount) ==
    /\ \A c \in (CompositionOf(p) \cup {GetBidTier(amount)}) \cap Limited :
          s.count[c] < Limit[c]
    /\ amount <= s.wallet
    /\ CanCompleteSquad(s, amount)

-----------------------------------------------------------------------------
(* deductFromFranchiseState: the snapshot after p is bought at price. *)

SaleTier(price) ==
    IF price >= TIER_25 THEN "tier25Plus"
    ELSE IF price >= TIER_20 THEN "tier20to25"
    ELSE IF price >= TIER_15 THEN "tier15to20"
    ELSE "below15"

(* The tier a bid is checked against is the tier its sale is charged to. *)
SameTier(amount) == GetBidTier(amount) = SaleTier(Whole(amount))

(* Fault: the counters go down, as if they were places left. *)
DeductPlaces(s, p, price) ==
    [wallet |-> s.wallet - price,
     count  |-> [c \in Category |->
                    IF c \in CompositionOf(p) \cup {SaleTier(price)}
                    THEN s.count[c] - 1
                    ELSE s.count[c]]]

Deduct(s, p, price) ==
    [wallet |-> s.wallet - price,
     count  |-> [c \in Category |->
                    IF c \in CompositionOf(p) \cup {SaleTier(price)}
                    THEN s.count[c] + 1
                    ELSE s.count[c]]]

-----------------------------------------------------------------------------
(* rebuildFranchiseStateFromDB: the snapshot computed from the wallet      *)
(* column and the squad rows [player, price] of a franchise.               *)

Row == [player : Players, price : Nat]

(* Fault: the rebuild puts a price on a tier's bound below the tier. *)
RowsInStrict(rows, c) ==
    {r \in rows :
        CASE c = "tier25Plus" -> r.price > TIER_25
          [] c = "tier20to25" -> r.price > TIER_20 /\ r.price <= TIER_25
          [] c = "tier15to20" -> r.price > TIER_15 /\ r.price <= TIER_20
          [] OTHER            -> c \in CompositionOf(r.player)}

RowsIn(rows, c) ==
    {r \in rows :
        CASE c = "tier25Plus" -> r.price >= TIER_25
          [] c = "tier20to25" -> r.price >= TIER_20 /\ r.price < TIER_25
          [] c = "tier15to20" -> r.price >= TIER_15 /\ r.price < TIER_20
          [] OTHER            -> c \in CompositionOf(r.player)}

Rebuild(wallet, rows) ==
    [wallet |-> wallet,
     count  |-> [c \in Category |-> Cardinality(RowsIn(rows, c))]]

-----------------------------------------------------------------------------
(* What a snapshot must never lose.  A slip is a purchase that was not     *)
(* checked against the tier it is charged to; it can exceed the cap of     *)
(* that tier, one of the two with an upper bound, and of nothing else.     *)

Middle == {"tier20to25", "tier15to20"}

WithinCaps(s, slips) ==
    \A c \in Limited : s.count[c] <= Limit[c] + (IF c \in Middle THEN slips ELSE 0)

CanStillFillSquad(s) ==
    s.wallet >= (SQUAD_MAX_SIZE - s.count["squad"]) * MIN_BASE
=============================================================================
