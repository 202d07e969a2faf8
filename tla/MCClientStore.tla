---------------------------- MODULE MCClientStore ----------------------------
(* Two players, of whom the second is of the limited role; one rival; every *)
(* price from 1 to 2, one pause, one lost connection, three events unread.  *)
EXTENDS ClientStore, SequencesExt
CONSTANTS me, rival, none

MCRivals == {rival}
MCKeepers == {2}

(* The history of rooms with three members, of whom the last has claimed   *)
(* nothing and buys nothing, and up to four sales, or seven at two prices. *)
H == INSTANCE History WITH None <- none, Purse <- 12000

MCMembers ==
    <<[id |-> "a", user |-> "u", franchise |-> me, wallet |-> 12000],
      [id |-> "b", user |-> "v", franchise |-> rival, wallet |-> 12000],
      [id |-> "c", user |-> "w", franchise |-> none, wallet |-> 12000]>>

MCSales == [member : {"a", "b"}, price : {20, 300, 5000}]

ASSUME \A n \in 0 .. 4 : \A sold \in [1 .. n -> MCSales] :
           H!LedgerBalances(MCMembers, sold) /\ H!DetailIsComplete(MCMembers, sold)

ASSUME \A sold \in [1 .. 7 -> [member : {"a"}, price : {20, 300}]] :
           H!DetailIsComplete(MCMembers, sold)

(* The list has a user's finished rooms, also one it hosted and left.      *)
ASSUME LET room(s, h) == [status |-> s, host |-> h]
           rooms == <<room("active", "u"), room("completed", "u"), room("terminated", "v"),
                      room("completed", "v"), room("completed", "x"), room("terminated", "x")>>
           membersOf == [r \in ToSet(rooms) |-> IF r.host = "x" THEN <<>> ELSE MCMembers]
           rowsOf == [r \in ToSet(rooms) |-> <<[member |-> "b", price |-> 300]>>]
           list(user) == H!GetHistoricalAuctions(rooms, membersOf, rowsOf, user)
       IN  /\ Len(list("u")) = 3 /\ Len(list("x")) = 2
           /\ \A i \in 1 .. 3 : list("v")[i].summary.totalSpent = 300
           /\ \A i \in 1 .. 2 : list("x")[i].summary.myFinalPurse = 12000

(* Once the squads cannot be exact, they and what they are loaded from are *)
(* not looked at: nothing else depends on them.                            *)
MCView ==
    <<auction, admitted, handler, chan, linked, view, own, click, drops, crossed,
      IF mixed THEN <<>> ELSE <<squads, load, stored>>>>
=============================================================================
