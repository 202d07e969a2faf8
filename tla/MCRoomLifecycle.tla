--------------------------- MODULE MCRoomLifecycle ---------------------------
(* Three users, of whom two can be managers at once, two requests at once,  *)
(* and tables with too few players, one short role, and more than enough.   *)
EXTENDS RoomLifecycle, TLC
CONSTANTS u1, u2, u3, f1, f2

MCUsers == {u1, u2, u3}
MCFranchises == {f1, f2}
MCSymmetry == Permutations(MCUsers) \cup Permutations(MCFranchises)

Players(marquee, batter, pacer, allrounder, spinner, wk) ==
    [marquee |-> marquee, batter |-> batter, pacer |-> pacer,
     allrounder |-> allrounder, spinner |-> spinner, wk |-> wk]

MCTables ==
    {Players(40, 60, 60, 60, 60, 30), Players(8, 60, 60, 60, 60, 30),
     Players(12, 20, 20, 1, 3, 0), Players(60, 2, 2, 2, 2, 2), Players(3, 1, 0, 1, 0, 0)}

(* The pool for every size of a room, and more tables *)
ASSUME \A n \in 0 .. 12, m \in {0, 3, 8, 10, 13, 50, 70}, k \in {0, 4, 9, 30, 80}, w \in {0, 2, 25} :
           PoolFits(n, Players(m, k, 30, k, 15, w))

(* The table of players from every column of up to five of these rows: two *)
(* headers, one of them one by its price only, and two names of which one  *)
(* comes at two prices.                                                    *)
C == INSTANCE Catalogue

MCRows ==
    {[name |-> "pacers", words |-> {"pacers", "overseas", "premium"},
      price |-> [unit |-> "none", amount |-> 0]],
     [name |-> "wk", words |-> {"wk", "uncapped"}, price |-> [unit |-> "heading", amount |-> 0]],
     [name |-> "p", words |-> {}, price |-> [unit |-> "cr", amount |-> 2]],
     [name |-> "p", words |-> {}, price |-> [unit |-> "bare", amount |-> 10]],
     [name |-> "q", words |-> {}, price |-> [unit |-> "bare", amount |-> 9]]}

ASSUME \A n \in 0 .. 5 : \A rows \in [1 .. n -> MCRows] :
           C!ColumnMeans(rows) /\ C!SeedIsIdempotent(rows) /\ C!TableSplits(rows)

(* Once two requests have overlapped, what the pages show is not looked at. *)
MCView == <<room, queue, request, IF crossed THEN <<>> ELSE shown, emptied, crossed, raced>>
=============================================================================
