----------------------------- MODULE Catalogue -----------------------------
(***************************************************************************)
(* The table of players, as the seed script makes it from a spreadsheet:   *)
(* columns in which a row is the header of a category or a player with a   *)
(* price, categories whose words say role, nationality and rank, and an    *)
(* upsert by name.  A row is [name, words, price]; words is the set of the *)
(* words the script looks for that occur in the name, and a price is       *)
(* [unit, amount], where "heading" is the heading of a price column.       *)
(***************************************************************************)
EXTENDS Integers, SequencesExt

Default == 20

(* parsePriceLakhs: a bare number below ten is in crores.                  *)
ParsePriceLakhs(price) ==
    CASE price.unit = "none" -> Default
      [] price.unit = "cr" -> price.amount * 100
      [] price.unit = "lakh" -> price.amount
      [] price.unit = "bare" -> IF price.amount < 10 THEN price.amount * 100
                                ELSE price.amount

(* deriveRole looks for the roles in this order.                           *)
RoleWords ==
    <<[role |-> "batter", words |-> {"batters", "batting"}],
      [role |-> "pacer", words |-> {"pacers", "bowlers"}],
      [role |-> "spinner", words |-> {"spinners"}],
      [role |-> "allrounder", words |-> {"allrounders"}],
      [role |-> "wk", words |-> {"wicket", "wk"}]>>

DeriveRole(category) ==
    LET found == SelectSeq(RoleWords, LAMBDA e : e.words \cap category # {})
    IN  IF found = <<>> THEN "batter" ELSE found[1].role

IsMarquee(category) == {"premium", "marquee"} \cap category # {}

IsCapped(category) == "uncapped" \notin category

Nationality(category) ==
    IF {"overseas", "retired"} \cap category # {} THEN "overseas" ELSE "indian"

(* A header of bowlers or of keepers as "wk" is one by its price only.     *)
IsHeader(row) ==
    \/ row.price.unit = "heading"
    \/ {"batters", "pacers", "spinners", "allrounders", "wicket", "retired"}
         \cap row.words # {}

Player(row, category) ==
    [name |-> row.name, category |-> category, role |-> DeriveRole(category),
     nationality |-> Nationality(category), isMarquee |-> IsMarquee(category),
     isCapped |-> IsCapped(category), basePrice |-> ParsePriceLakhs(row.price)]

(* One pass down a column, with the current category                       *)
ParseColumn(rows) ==
    LET Step(acc, row) ==
            IF IsHeader(row) THEN [acc EXCEPT !.category = <<row.words>>]
            ELSE IF acc.category = <<>> THEN acc
            ELSE [acc EXCEPT !.players = Append(@, Player(row, acc.category[1]))]
    IN  FoldLeft(Step, [category |-> <<>>, players |-> <<>>], rows).players

(* INSERT ... ON CONFLICT (name) DO UPDATE, one player after the other     *)
Upsert(players) ==
    LET Step(table, p) ==
            [n \in DOMAIN table \cup {p.name} |-> IF n = p.name THEN p ELSE table[n]]
    IN  FoldLeft(Step, <<>>, players)

(* getAllPlayers *)
GetAllPlayers(table) ==
    LET marquee == {n \in DOMAIN table : table[n].isMarquee}
    IN  [marquee |-> marquee, general |-> DOMAIN table \ marquee]

(* The catalogue page *)
Filter(table, role, nationality) ==
    {n \in DOMAIN table : /\ role \in {"all", table[n].role}
                          /\ nationality \in {"all", table[n].nationality}}

-----------------------------------------------------------------------------
(* A player belongs to the last header above it, the rows above the first  *)
(* header to nobody, and what the table has of a name is its last row.     *)
ColumnMeans(rows) ==
    LET headed == {i \in DOMAIN rows :
                     ~IsHeader(rows[i]) /\ \E h \in 1 .. i : IsHeader(rows[h])}
        header(i) == CHOOSE h \in 1 .. i :
                        /\ IsHeader(rows[h])
                        /\ \A k \in h + 1 .. i : ~IsHeader(rows[k])
        last(n) == CHOOSE i \in headed :
                      /\ rows[i].name = n
                      /\ \A k \in headed : rows[k].name = n => k =< i
        table == Upsert(ParseColumn(rows))
    IN  /\ DOMAIN table = {rows[i].name : i \in headed}
        /\ \A n \in DOMAIN table :
              table[n] = Player(rows[last(n)], rows[header(last(n))].words)

(* Seeding the same rows again changes nothing, whatever was there before. *)
SeedIsIdempotent(rows) ==
    LET players == ParseColumn(rows)
    IN  Upsert(players \o players) = Upsert(players)

(* The two queues of an auction share no player and miss none, and the     *)
(* page's filters by role split the table.                                 *)
TableSplits(rows) ==
    LET table == Upsert(ParseColumn(rows))
        queues == GetAllPlayers(table)
        roles == {RoleWords[i].role : i \in DOMAIN RoleWords}
    IN  /\ queues.marquee \cap queues.general = {}
        /\ queues.marquee \cup queues.general = DOMAIN table
        /\ UNION {Filter(table, r, "all") : r \in roles} = DOMAIN table
        /\ \A r, q \in roles : r # q => Filter(table, r, "all") \cap Filter(table, q, "all") = {}
=============================================================================
