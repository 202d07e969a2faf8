----------------------------- MODULE PlayerPool -----------------------------
(***************************************************************************)
(* The scarcity-calibrated player pool: how many marquee players and how   *)
(* many of each role are drawn from the table of players for a number of   *)
(* managers.  A table maps each category to its number of players; which   *)
(* of them are drawn is up to the shuffles and left out.  Products with    *)
(* the proportions are exact here; the code has them in floating point.    *)
(***************************************************************************)
EXTENDS Integers

CONSTANTS PlayersPerManager, ScarcityPercent, MinPoolSize, MaxPoolSize, MinMarquee

ASSUME PoolAssumption ==
    /\ {PlayersPerManager, ScarcityPercent, MinPoolSize, MaxPoolSize, MinMarquee} \subseteq Nat
    /\ MinMarquee =< MinPoolSize /\ MinPoolSize =< MaxPoolSize

Roles == {"batter", "pacer", "allrounder", "spinner", "wk"}

Table == [Roles \cup {"marquee"} -> Nat]

RoleWeight == [batter |-> 25, pacer |-> 25, allrounder |-> 22, spinner |-> 18, wk |-> 10]

Least(a, b) == IF a =< b THEN a ELSE b

Most(a, b) == IF a =< b THEN b ELSE a

(* Math.round of a percentage: halves go up. *)
Percent(p, n) == (p * n + 50) \div 100

InRoles(count) ==
    count["batter"] + count["pacer"] + count["allrounder"] + count["spinner"] + count["wk"]

CalculatePoolSize(managers) ==
    Least(MaxPoolSize,
          Most(MinPoolSize,
               Percent(ScarcityPercent, Most(1, managers) * PlayersPerManager)))

MarqueeFirst(managers, table) ==
    Least(table["marquee"], Most(MinMarquee, Percent(20, CalculatePoolSize(managers))))

RemainingSlots(managers, table) ==
    CalculatePoolSize(managers) - MarqueeFirst(managers, table)

(* The first pass: each role up to its quota *)
RoleQuotas(managers, table) ==
    LET slots == RemainingSlots(managers, table)
    IN  [r \in Roles |-> Least(table[r], Percent(RoleWeight[r], slots))]

(* ... then any role, until the slots are filled *)
GeneralCount(managers, table) ==
    LET first == InRoles(RoleQuotas(managers, table))
    IN  Most(first, Least(RemainingSlots(managers, table), InRoles(table)))

(* ... then marquee players again. *)
MarqueeCount(managers, table) ==
    LET first == MarqueeFirst(managers, table)
        needed == CalculatePoolSize(managers) - first - GeneralCount(managers, table)
    IN  first + Least(Most(0, needed), table["marquee"] - first)

PoolSize(managers, table) == MarqueeCount(managers, table) + GeneralCount(managers, table)

(* The pool never draws a player twice, has its target size when the table *)
(* has that many, and at most two more: the five quotas are rounded        *)
(* separately.                                                             *)
PoolFits(managers, table) ==
    LET target == CalculatePoolSize(managers)
        all == table["marquee"] + InRoles(table)
    IN  /\ MarqueeCount(managers, table) \in 0 .. table["marquee"]
        /\ GeneralCount(managers, table) \in 0 .. InRoles(table)
        /\ Least(target, all) =< PoolSize(managers, table)
        /\ PoolSize(managers, table) =< target + 2
=============================================================================
