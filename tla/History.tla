------------------------------ MODULE History ------------------------------
(***************************************************************************)
(* What is told of auctions that are over: the list of a user's auctions,  *)
(* the ledger of one of them, and the franchises of the results page.  All *)
(* of it is computed from rows that are read in separate statements, while *)
(* the last sales may still be on their way to the database.               *)
(*                                                                         *)
(* members is a sequence of [id, user, franchise, wallet] in the order     *)
(* they joined, rows one of [member, price] in the order of acquired_at.   *)
(***************************************************************************)
EXTENDS Integers, SequencesExt

CONSTANTS None, Purse

SquadOf(rows, m) == SelectSeq(rows, LAMBDA s : s.member = m)

Spent(rows) == FoldLeft(LAMBDA sum, s : sum + s.price, 0, rows)

HasClaimed(m) == m.franchise # None

-----------------------------------------------------------------------------
(* getHistoricalAuctions: rooms are given newest first.  What it calls the *)
(* rank is the place in this list.                                         *)
Historical(room, members, user) ==
    /\ room.status \in {"completed", "terminated"}
    /\ \/ \E i \in DOMAIN members : members[i].user = user
       \/ room.host = user

Summary(room, members, rows, user) ==
    LET mine == SelectSeq(members, LAMBDA m : m.user = user)
        squad == IF mine = <<>> THEN <<>> ELSE SquadOf(rows, mine[1].id)
    IN  [room |-> room,
         managerCount |-> IF members = <<>> THEN 1 ELSE Len(members),
         myFranchise |-> IF mine = <<>> THEN None ELSE mine[1].franchise,
         myFinalPurse |-> IF mine = <<>> THEN Purse ELSE mine[1].wallet,
         mySquadCount |-> Len(squad),
         totalSpent |-> Spent(squad)]

GetHistoricalAuctions(rooms, membersOf, rowsOf, user) ==
    LET over == SelectSeq(rooms, LAMBDA r : Historical(r, membersOf[r], user))
        entry(i) == Summary(over[i], membersOf[over[i]], rowsOf[over[i]], user)
    IN  [i \in 1 .. (IF Len(over) < 50 THEN Len(over) ELSE 50) |->
           [summary |-> entry(i), rank |-> i]]

-----------------------------------------------------------------------------
(* getHistoricalAuctionDetail *)

Team(m, rows) ==
    LET squad == SquadOf(rows, m.id)
    IN  [franchise |-> m.franchise, walletRemaining |-> m.wallet,
         totalSpent |-> Spent(squad), squadCount |-> Len(squad), squad |-> squad]

Teams(members, rows) ==
    LET claimed == SelectSeq(members, HasClaimed)
    IN  [i \in DOMAIN claimed |-> Team(claimed[i], rows)]

(* The five dearest, the earlier first of two at one price                 *)
TopBuys(members, rows) ==
    LET Dearer(i, j) == \/ rows[i].price > rows[j].price
                        \/ rows[i].price = rows[j].price /\ i < j
        order == SortSeq([i \in DOMAIN rows |-> i], Dearer)
        buyer(s) == SelectSeq(members, LAMBDA m : m.id = s.member)
        named(s) == IF buyer(s) = <<>> THEN None ELSE buyer(s)[1].franchise
    IN  [i \in 1 .. (IF Len(rows) < 5 THEN Len(rows) ELSE 5) |->
           [price |-> rows[order[i]].price, franchise |-> named(rows[order[i]])]]

(* The results page: whoever claimed a franchise or has a player of it.    *)
Participating(members, rows) ==
    {members[i].franchise : i \in {k \in DOMAIN members : HasClaimed(members[k])}}
    \cup {members[i].franchise :
            i \in {k \in DOMAIN members : SquadOf(rows, members[k].id) # <<>>}}

-----------------------------------------------------------------------------
(* The ledger of a room with these members after the first n sales, and    *)
(* what a reader sees that reads the members after i sales and the squads  *)
(* after j.                                                                *)
MembersAfter(members, sales, n) ==
    [k \in DOMAIN members |->
        [members[k] EXCEPT !.wallet = Purse - Spent(SquadOf(SubSeq(sales, 1, n), members[k].id))]]

(* A team's wallet and spending add up to the purse exactly if none of its *)
(* sales was committed between the two reads.                              *)
LedgerBalances(members, sales) ==
    \A i, j \in 0 .. Len(sales) : i =< j =>
        LET read == MembersAfter(members, sales, i)
            rows == SubSeq(sales, 1, j)
            between == SubSeq(sales, i + 1, j)
        IN  \A k \in DOMAIN read :
              LET team == Team(read[k], rows)
              IN  team.walletRemaining + team.totalSpent
                    = Purse + Spent(SquadOf(between, read[k].id))

(* Every sale is in one squad of the detail, as only a member who claimed  *)
(* a franchise buys; and no buy that is left out of the top is dearer than *)
(* one in it.                                                              *)
DetailIsComplete(members, rows) ==
    LET teams == Teams(members, rows)
        top == TopBuys(members, rows)
        dearer(p) == SelectSeq(rows, LAMBDA s : s.price > p)
    IN  /\ FoldLeft(LAMBDA n, t : n + t.squadCount, 0, teams) = Len(rows)
        /\ FoldLeft(LAMBDA n, t : n + t.totalSpent, 0, teams) = Spent(rows)
        /\ \A i \in DOMAIN top : top[i].franchise # None /\ Len(dearer(top[i].price)) < i
        /\ Participating(members, rows) = {teams[i].franchise : i \in DOMAIN teams}
=============================================================================
