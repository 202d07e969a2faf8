-------------------------- MODULE ClientStoreProofs --------------------------
(***************************************************************************)
(* The auction page for any queue, any rivals and any number of prices,    *)
(* pauses, lost connections and unread events.  The properties are about a *)
(* page to which nothing is under way; the invariant says what it will     *)
(* show once everything under way has been delivered.  A trail through the *)
(* unread events has the store after each of them, so that no recursion is *)
(* needed: an event that is sent makes it longer, one that is delivered    *)
(* takes its first step.                                                   *)
(***************************************************************************)
EXTENDS ClientStore, FiniteSetTheorems, SequenceTheorems, TLAPS

Tally == [bought : Nat, keepers : Nat]

Event ==
    [type : {"up"}, player : 1 .. Players]
    \cup [type : {"bid"}, bid : 1 .. MaxBid, bidder : Franchises]
    \cup [type : {"sold"}, sale : Sales, bought : Nat]
    \cup [type : {"unsold", "paused", "resumed", "complete"}]
    \cup [type : {"sync"}, keys : Views, mine : Tally]

Requests == [player : Nat, amount : 1 .. MaxBid]

Types ==
    /\ keys \in Views /\ mine \in Tally
    /\ due \in {"none", "up", "bid", "charge", "sold", "unsold", "paused", "resumed", "complete"}
    /\ sales \in Seq(Sales)
    /\ sync \in {"none", "asked", "joined", "read", "loaded"}
    /\ reading \in [keys : Views, mine : Tally]
    /\ chan \in Seq(Event)
    /\ admitted \in BOOLEAN /\ linked \in BOOLEAN
    /\ view \in Views /\ own \in Tally \cup {None}
    /\ click \in Requests \cup {None}
    /\ {crossed, skewed, mixed} \subseteq BOOLEAN

(* Where the page stands between connecting and its snapshot *)
Connection ==
    /\ admitted <=> linked /\ sync # "asked"
    /\ sync # "none" => linked
    /\ ~admitted => chan = <<>>

(* What the keys hold while a broadcast is due *)
DueFits ==
    /\ keys.state \notin {"idle", "complete"} => keys.player # 0
    /\ due = "up" => keys.bid = 0 /\ keys.bidder = None /\ keys.state = "player_up"
    /\ due = "bid" => keys.bid # 0 /\ keys.bidder # None /\ keys.state = "bidding"
    /\ due \in {"charge", "sold"} => keys.bidder # None /\ keys.state = "sold"
    /\ due \in {"unsold", "paused", "complete"} => keys.state = due
    /\ due = "resumed" => keys.state = "bidding"

(* A player is sold once. *)
SalesBehind ==
    \A i \in 1 .. Len(sales) :
        /\ sales[i].player =< keys.player
        /\ keys.state \in Up \cup {"paused"} \/ due \in {"charge", "sold"}
              => sales[i].player # keys.player

(* The snapshot is charged before the sale is broadcast. *)
SnapshotCounts ==
    mine = CountersOf(IF due = "sold" THEN Append(sales, Sale) ELSE sales)

StateOf(type) == IF type = "resumed" THEN "bidding" ELSE type

(* The reducers *)
ViewAfter(v, m) ==
    IF m.type = "up"
    THEN [player |-> m.player, bid |-> 0, bidder |-> None, state |-> "player_up"]
    ELSE IF m.type = "bid"
    THEN [player |-> v.player, bid |-> m.bid, bidder |-> m.bidder, state |-> "bidding"]
    ELSE IF m.type = "sync" THEN m.keys
    ELSE [player |-> IF m.type = "complete" THEN 0 ELSE v.player,
          bid |-> v.bid, bidder |-> v.bidder, state |-> StateOf(m.type)]

OwnAfter(o, m) ==
    IF m.type = "sync" THEN m.mine
    ELSE IF m.type = "sold" /\ o # None /\ m.sale.franchise = Me
    THEN [bought |-> m.bought,
          keepers |-> o.keepers + IF m.sale.player \in Keepers THEN 1 ELSE 0]
    ELSE o

(* From the store x, a the events in c lead to y, b. *)
Trail(c, x, a, y, b) ==
    \E v \in [0 .. Len(c) -> Views], o \in [0 .. Len(c) -> Tally \cup {None}] :
        /\ v[0] = x /\ o[0] = a
        /\ v[Len(c)] = y /\ o[Len(c)] = b
        /\ \A i \in 1 .. Len(c) :
              /\ v[i] = ViewAfter(v[i - 1], c[i])
              /\ o[i] = OwnAfter(o[i - 1], c[i])

(* v once the broadcast that is due has come, too *)
Told(v) ==
    IF due = "none" THEN v
    ELSE IF due = "charge"
    THEN [player |-> v.player, bid |-> v.bid, bidder |-> v.bidder, state |-> "sold"]
    ELSE ViewAfter(v, Message)

Shows(v) == v = keys \/ (keys.state = "complete" /\ v = [keys EXCEPT !.player = 0])

ViewLeads(y) ==
    ~crossed =>
        /\ linked /\ sync = "none" => Shows(Told(y))
        /\ sync \in {"read", "loaded"} => Shows(Told(reading.keys))

OwnLeads(b) == ~skewed /\ linked /\ sync = "none" => b = CountersOf(sales)

StoreLeads ==
    \E y \in Views, b \in Tally \cup {None} :
        Trail(chan, view, own, y, b) /\ ViewLeads(y) /\ OwnLeads(b)

SoldIn(c) == {i \in 1 .. Len(c) : c[i].type = "sold"}

(* The sales announced by the events in c are those of s after the first k. *)
Announces(c, s, k) ==
    \E n \in [0 .. Len(c) -> 0 .. Len(s)] :
        /\ n[0] = k /\ n[Len(c)] = Len(s)
        /\ \A i \in 1 .. Len(c) :
              IF c[i].type = "sold" THEN n[i] = n[i - 1] + 1 /\ c[i].sale = s[n[i]]
              ELSE n[i] = n[i - 1]

SquadsFollow ==
    \E k \in 0 .. Len(sales) :
        /\ Announces(chan, sales, k)
        /\ Cardinality(SoldIn(chan)) = Len(sales) - k
        /\ ~mixed /\ load.at = "done" => squads = SubSeq(sales, 1, k)

ClientInv ==
    /\ Types
    /\ Connection
    /\ DueFits
    /\ SalesBehind
    /\ SnapshotCounts
    /\ StoreLeads
    /\ SquadsFollow

-----------------------------------------------------------------------------
(* Events *)

LEMMA EventFields ==
  ASSUME NEW m \in Event
  PROVE  /\ m.type \in {"up", "bid", "sold", "unsold", "paused", "resumed", "complete", "sync"}
         /\ m.type = "up" => m.player \in 1 .. Players
         /\ m.type = "bid" => m.bid \in 1 .. MaxBid /\ m.bidder \in Franchises
         /\ m.type = "sold" => m.sale \in Sales /\ m.bought \in Nat
         /\ m.type = "sync" => m.keys \in Views /\ m.mine \in Tally
  BY DEF Event

(* A view is its four fields. *)
LEMMA ViewFields ==
  ASSUME NEW v \in Views
  PROVE  /\ v.player \in 0 .. Players /\ v.bid \in 0 .. MaxBid
         /\ v.bidder \in Franchises \cup {None} /\ v.state \in States
         /\ v = [player |-> v.player, bid |-> v.bid, bidder |-> v.bidder, state |-> v.state]
  BY DEF Views

LEMMA ViewBid ==
  ASSUME NEW v \in Views, NEW bid, NEW bidder
  PROVE  [v EXCEPT !.bid = bid, !.bidder = bidder, !.state = "bidding"] =
            [player |-> v.player, bid |-> bid, bidder |-> bidder, state |-> "bidding"]
  <1> DEFINE w == [v EXCEPT !.bid = bid, !.bidder = bidder, !.state = "bidding"]
  <1>1. DOMAIN v = {"player", "bid", "bidder", "state"}
    BY DEF Views
  <1>2. DOMAIN w = {"player", "bid", "bidder", "state"}
    BY <1>1
  <1>3. w.player = v.player /\ w.bid = bid /\ w.bidder = bidder /\ w.state = "bidding"
    BY <1>1
  <1>4. w = [x \in {"player", "bid", "bidder", "state"} |-> w[x]]
    BY <1>2
  <1> HIDE DEF w
  <1>5. w = [player |-> w.player, bid |-> w.bid, bidder |-> w.bidder, state |-> w.state]
    BY <1>4
  <1>6. w = [player |-> v.player, bid |-> bid, bidder |-> bidder, state |-> "bidding"]
    BY <1>3, <1>5
  <1> QED
    BY <1>6 DEF w

LEMMA ViewOver ==
  ASSUME NEW v \in Views
  PROVE  [v EXCEPT !.player = 0, !.state = "complete"] =
            [player |-> 0, bid |-> v.bid, bidder |-> v.bidder, state |-> "complete"]
  <1> DEFINE w == [v EXCEPT !.player = 0, !.state = "complete"]
  <1>1. DOMAIN v = {"player", "bid", "bidder", "state"}
    BY DEF Views
  <1>2. DOMAIN w = {"player", "bid", "bidder", "state"}
    BY <1>1
  <1>3. w.player = 0 /\ w.bid = v.bid /\ w.bidder = v.bidder /\ w.state = "complete"
    BY <1>1
  <1>4. w = [x \in {"player", "bid", "bidder", "state"} |-> w[x]]
    BY <1>2
  <1> HIDE DEF w
  <1>5. w = [player |-> w.player, bid |-> w.bid, bidder |-> w.bidder, state |-> w.state]
    BY <1>4
  <1>6. w = [player |-> 0, bid |-> v.bid, bidder |-> v.bidder, state |-> "complete"]
    BY <1>3, <1>5
  <1> QED
    BY <1>6 DEF w

LEMMA AfterTyped ==
  ASSUME NEW v \in Views, NEW o \in Tally \cup {None}, NEW m \in Event
  PROVE  ViewAfter(v, m) \in Views /\ OwnAfter(o, m) \in Tally \cup {None}
  <1>1. m.type \in {"up", "bid", "sold", "unsold", "paused", "resumed", "complete", "sync"}
    BY EventFields
  <1>2. ViewAfter(v, m) \in Views
    <2>1. CASE m.type = "up"
      BY <2>1, EventFields, ClientAssumption DEF ViewAfter, Views, States, Up
    <2>2. CASE m.type = "bid"
      BY <2>2, EventFields, ViewFields DEF ViewAfter, Views, States, Up
    <2>3. CASE m.type = "sync"
      BY <2>3, EventFields DEF ViewAfter
    <2>4. CASE m.type \in {"sold", "unsold", "paused", "resumed", "complete"}
      <3>1. StateOf(m.type) \in States
        BY <2>4 DEF StateOf, States, Up
      <3>2. (IF m.type = "complete" THEN 0 ELSE v.player) \in 0 .. Players
        BY ViewFields, ClientAssumption
      <3> QED
        BY <2>4, <3>1, <3>2, ViewFields DEF ViewAfter, Views
    <2> QED
      BY <1>1, <2>1, <2>2, <2>3, <2>4
  <1>3. OwnAfter(o, m) \in Tally \cup {None}
    <2>1. CASE m.type = "sync"
      BY <2>1, EventFields DEF OwnAfter
    <2>2. CASE m.type = "sold" /\ o # None /\ m.sale.franchise = Me
      <3>1. m.bought \in Nat /\ o.keepers \in Nat
        BY <2>2, EventFields DEF Tally
      <3>2. o.keepers + (IF m.sale.player \in Keepers THEN 1 ELSE 0) \in Nat
        BY <3>1
      <3> QED
        BY <2>2, <3>1, <3>2 DEF OwnAfter, Tally
    <2> QED
      BY <2>1, <2>2 DEF OwnAfter
  <1> QED
    BY <1>2, <1>3

(* Trails *)

LEMMA TrailEmpty ==
  ASSUME NEW x \in Views, NEW a \in Tally \cup {None}
  PROVE  Trail(<<>>, x, a, x, a)
  <1> DEFINE v == [i \in 0 .. 0 |-> x]
             o == [i \in 0 .. 0 |-> a]
  <1>1. /\ v \in [0 .. Len(<<>>) -> Views] /\ o \in [0 .. Len(<<>>) -> Tally \cup {None}]
        /\ v[0] = x /\ o[0] = a /\ Len(<<>>) = 0
    OBVIOUS
  <1>2. 1 .. 0 = {}
    OBVIOUS
  <1> HIDE DEF v, o
  <1> QED
    BY <1>1, <1>2 DEF Trail

LEMMA TrailStays ==
  ASSUME NEW x, NEW a, NEW y, NEW b, Trail(<<>>, x, a, y, b)
  PROVE  y = x /\ b = a
  BY DEF Trail

LEMMA TrailAppend ==
  ASSUME NEW c \in Seq(Event), NEW m \in Event, NEW x, NEW a, NEW y, NEW b,
         Trail(c, x, a, y, b)
  PROVE  /\ y \in Views /\ b \in Tally \cup {None}
         /\ Trail(Append(c, m), x, a, ViewAfter(y, m), OwnAfter(b, m))
  <1>1. PICK v \in [0 .. Len(c) -> Views], o \in [0 .. Len(c) -> Tally \cup {None}] :
           /\ v[0] = x /\ o[0] = a
           /\ v[Len(c)] = y /\ o[Len(c)] = b
           /\ \A i \in 1 .. Len(c) :
                 /\ v[i] = ViewAfter(v[i - 1], c[i])
                 /\ o[i] = OwnAfter(o[i - 1], c[i])
    BY DEF Trail
  <1> DEFINE d == Append(c, m)
             n == Len(c)
             v1 == [i \in 0 .. n + 1 |-> IF i = n + 1 THEN ViewAfter(y, m) ELSE v[i]]
             o1 == [i \in 0 .. n + 1 |-> IF i = n + 1 THEN OwnAfter(b, m) ELSE o[i]]
  <1>2. /\ n \in Nat /\ Len(d) = n + 1 /\ d[n + 1] = m
        /\ \A i \in 1 .. n : d[i] = c[i]
    BY AppendProperties
  <1>3. y \in Views /\ b \in Tally \cup {None}
    BY <1>1, <1>2
  <1>4. ViewAfter(y, m) \in Views /\ OwnAfter(b, m) \in Tally \cup {None}
    BY <1>3, AfterTyped
  <1>5. v1 \in [0 .. n + 1 -> Views] /\ o1 \in [0 .. n + 1 -> Tally \cup {None}]
    BY <1>1, <1>2, <1>4
  <1>6. /\ v1[0] = x /\ o1[0] = a
        /\ v1[n + 1] = ViewAfter(y, m) /\ o1[n + 1] = OwnAfter(b, m)
    BY <1>1, <1>2
  <1>7. ASSUME NEW i \in 1 .. n + 1
        PROVE  v1[i] = ViewAfter(v1[i - 1], d[i]) /\ o1[i] = OwnAfter(o1[i - 1], d[i])
    <2>1. CASE i = n + 1
      <3>1. v1[n] = y /\ o1[n] = b /\ i - 1 = n
        BY <1>1, <1>2, <2>1
      <3> QED
        BY <1>2, <1>6, <2>1, <3>1
    <2>2. CASE i # n + 1
      <3>1. /\ i \in 1 .. n /\ i - 1 \in 0 .. n /\ i - 1 # n + 1
            /\ v1[i] = v[i] /\ o1[i] = o[i] /\ v1[i - 1] = v[i - 1] /\ o1[i - 1] = o[i - 1]
        BY <1>2, <2>2
      <3> QED
        BY <1>1, <1>2, <3>1
    <2> QED
      BY <2>1, <2>2
  <1> HIDE DEF v1, o1, d
  <1>8. Trail(d, x, a, ViewAfter(y, m), OwnAfter(b, m))
    <2>1. v1 \in [0 .. Len(d) -> Views] /\ o1 \in [0 .. Len(d) -> Tally \cup {None}]
      BY <1>2, <1>5
    <2>2. v1[Len(d)] = ViewAfter(y, m) /\ o1[Len(d)] = OwnAfter(b, m)
      BY <1>2, <1>6
    <2>3. \A i \in 1 .. Len(d) :
             v1[i] = ViewAfter(v1[i - 1], d[i]) /\ o1[i] = OwnAfter(o1[i - 1], d[i])
      BY <1>2, <1>7
    <2> QED
      BY <1>6, <2>1, <2>2, <2>3 DEF Trail
  <1> QED
    BY <1>3, <1>8 DEF d

LEMMA TrailTail ==
  ASSUME NEW c \in Seq(Event), c # <<>>, NEW x, NEW a, NEW y, NEW b, Trail(c, x, a, y, b)
  PROVE  Trail(Tail(c), ViewAfter(x, Head(c)), OwnAfter(a, Head(c)), y, b)
  <1>1. PICK v \in [0 .. Len(c) -> Views], o \in [0 .. Len(c) -> Tally \cup {None}] :
           /\ v[0] = x /\ o[0] = a
           /\ v[Len(c)] = y /\ o[Len(c)] = b
           /\ \A i \in 1 .. Len(c) :
                 /\ v[i] = ViewAfter(v[i - 1], c[i])
                 /\ o[i] = OwnAfter(o[i - 1], c[i])
    BY DEF Trail
  <1> DEFINE d == Tail(c)
             n == Len(d)
             v1 == [i \in 0 .. n |-> v[i + 1]]
             o1 == [i \in 0 .. n |-> o[i + 1]]
  <1>2. /\ n \in Nat /\ Len(c) = n + 1 /\ Head(c) = c[1]
        /\ \A i \in 1 .. n : d[i] = c[i + 1]
    BY HeadTailProperties, EmptySeq
  <1> HIDE DEF d
  <1>3. v1 \in [0 .. n -> Views] /\ o1 \in [0 .. n -> Tally \cup {None}]
    BY <1>1, <1>2
  <1>4. v1[0] = ViewAfter(x, Head(c)) /\ o1[0] = OwnAfter(a, Head(c))
    <2>1. v1[0] = v[1] /\ o1[0] = o[1] /\ 1 \in 1 .. Len(c) /\ 1 - 1 = 0
      BY <1>2
    <2> QED
      BY <1>1, <1>2, <2>1
  <1>5. v1[n] = y /\ o1[n] = b
    BY <1>1, <1>2
  <1>6. ASSUME NEW i \in 1 .. n
        PROVE  v1[i] = ViewAfter(v1[i - 1], d[i]) /\ o1[i] = OwnAfter(o1[i - 1], d[i])
    <2>1. /\ i + 1 \in 1 .. Len(c) /\ (i + 1) - 1 = i /\ (i - 1) + 1 = i
          /\ i \in 0 .. n /\ i - 1 \in 0 .. n
      BY <1>2
    <2>2. /\ v1[i] = v[i + 1] /\ o1[i] = o[i + 1]
          /\ v1[i - 1] = v[i] /\ o1[i - 1] = o[i]
      BY <2>1
    <2>3. /\ v[i + 1] = ViewAfter(v[i], c[i + 1])
          /\ o[i + 1] = OwnAfter(o[i], c[i + 1])
      BY <1>1, <2>1
    <2> QED
      BY <1>2, <2>2, <2>3
  <1> HIDE DEF v1, o1
  <1>7. Trail(d, ViewAfter(x, Head(c)), OwnAfter(a, Head(c)), y, b)
    BY <1>3, <1>4, <1>5, <1>6 DEF Trail
  <1> QED
    BY <1>7 DEF d

(* Announcements *)

LEMMA AnnouncesEmpty ==
  ASSUME NEW s \in Seq(Sales)
  PROVE  Announces(<<>>, s, Len(s)) /\ \A k : Announces(<<>>, s, k) => k = Len(s)
  <1> DEFINE n == [i \in 0 .. 0 |-> Len(s)]
  <1>1. Len(s) \in 0 .. Len(s) /\ Len(<<>>) = 0
    BY LenProperties
  <1>2. n \in [0 .. Len(<<>>) -> 0 .. Len(s)] /\ n[0] = Len(s)
    BY <1>1
  <1>3. 1 .. 0 = {}
    OBVIOUS
  <1> HIDE DEF n
  <1> QED
    BY <1>1, <1>2, <1>3 DEF Announces

LEMMA AnnouncesAppend ==
  ASSUME NEW c \in Seq(Event), NEW m \in Event, NEW s \in Seq(Sales), NEW s2, NEW k,
         Announces(c, s, k),
         s2 = IF m.type = "sold" THEN Append(s, m.sale) ELSE s
  PROVE  Announces(Append(c, m), s2, k)
  <1>1. PICK n \in [0 .. Len(c) -> 0 .. Len(s)] :
           /\ n[0] = k /\ n[Len(c)] = Len(s)
           /\ \A i \in 1 .. Len(c) :
                 IF c[i].type = "sold" THEN n[i] = n[i - 1] + 1 /\ c[i].sale = s[n[i]]
                 ELSE n[i] = n[i - 1]
    BY DEF Announces
  <1> DEFINE d == Append(c, m)
             l == Len(c)
             n1 == [i \in 0 .. l + 1 |-> IF i = l + 1 THEN Len(s2) ELSE n[i]]
  <1>2. /\ l \in Nat /\ Len(d) = l + 1 /\ d[l + 1] = m
        /\ \A i \in 1 .. l : d[i] = c[i]
    BY AppendProperties
  <1>3. /\ Len(s) \in Nat /\ Len(s2) \in Nat
        /\ Len(s2) = IF m.type = "sold" THEN Len(s) + 1 ELSE Len(s)
        /\ m.type = "sold" => s2[Len(s2)] = m.sale
        /\ \A j \in 1 .. Len(s) : s2[j] = s[j]
    <2>1. CASE m.type = "sold"
      BY <2>1, EventFields, AppendProperties, LenProperties
    <2>2. CASE m.type # "sold"
      BY <2>2, LenProperties
    <2> QED
      BY <2>1, <2>2
  <1>4. n1 \in [0 .. Len(d) -> 0 .. Len(s2)]
    <2>1. ASSUME NEW i \in 0 .. l + 1 PROVE n1[i] \in 0 .. Len(s2)
      <3>1. CASE i = l + 1
        BY <1>3, <3>1
      <3>2. CASE i # l + 1
        <4>1. i \in 0 .. l
          BY <1>2, <3>2
        <4>2. n[i] \in 0 .. Len(s)
          BY <1>1, <4>1
        <4> QED
          BY <1>3, <3>2, <4>2
      <3> QED
        BY <3>1, <3>2
    <2> QED
      BY <1>2, <2>1
  <1>5. n1[0] = k /\ n1[Len(d)] = Len(s2)
    BY <1>1, <1>2
  <1>6. ASSUME NEW i \in 1 .. Len(d)
        PROVE  IF d[i].type = "sold" THEN n1[i] = n1[i - 1] + 1 /\ d[i].sale = s2[n1[i]]
               ELSE n1[i] = n1[i - 1]
    <2>1. CASE i = l + 1
      <3>1. n1[i] = Len(s2) /\ n1[i - 1] = Len(s) /\ d[i] = m
        BY <1>1, <1>2, <2>1
      <3> QED
        BY <1>3, <3>1
    <2>2. CASE i # l + 1
      <3>1. /\ i \in 1 .. l /\ i - 1 \in 0 .. l /\ i \in 0 .. l
            /\ n1[i] = n[i] /\ n1[i - 1] = n[i - 1] /\ d[i] = c[i]
        BY <1>2, <2>2
      <3>2. IF c[i].type = "sold" THEN n[i] = n[i - 1] + 1 /\ c[i].sale = s[n[i]]
            ELSE n[i] = n[i - 1]
        BY <1>1, <3>1
      <3>3. n[i] \in 0 .. Len(s) /\ n[i - 1] \in 0 .. Len(s)
        BY <1>1, <3>1
      <3>4. c[i].type = "sold" => s2[n[i]] = s[n[i]]
        <4>1. c[i].type = "sold" => n[i] \in 1 .. Len(s)
          BY <1>3, <3>2, <3>3
        <4> QED
          BY <1>3, <4>1
      <3> QED
        BY <3>1, <3>2, <3>4
    <2> QED
      BY <2>1, <2>2
  <1> HIDE DEF n1, d
  <1>7. Announces(d, s2, k)
    BY <1>4, <1>5, <1>6 DEF Announces
  <1> QED
    BY <1>7 DEF d

LEMMA AnnouncesTail ==
  ASSUME NEW c \in Seq(Event), c # <<>>, NEW s \in Seq(Sales), NEW k, Announces(c, s, k)
  PROVE  /\ Head(c).type = "sold" =>
               /\ k + 1 =< Len(s) /\ Head(c).sale = s[k + 1]
               /\ Announces(Tail(c), s, k + 1)
         /\ Head(c).type # "sold" => Announces(Tail(c), s, k)
  <1>1. PICK n \in [0 .. Len(c) -> 0 .. Len(s)] :
           /\ n[0] = k /\ n[Len(c)] = Len(s)
           /\ \A i \in 1 .. Len(c) :
                 IF c[i].type = "sold" THEN n[i] = n[i - 1] + 1 /\ c[i].sale = s[n[i]]
                 ELSE n[i] = n[i - 1]
    BY DEF Announces
  <1> DEFINE d == Tail(c)
             l == Len(d)
             n1 == [i \in 0 .. l |-> n[i + 1]]
  <1>2. /\ l \in Nat /\ Len(c) = l + 1 /\ Head(c) = c[1]
        /\ \A i \in 1 .. l : d[i] = c[i + 1]
    BY HeadTailProperties, EmptySeq
  <1>3. Len(s) \in Nat
    BY LenProperties
  <1> HIDE DEF d
  <1>4. n1 \in [0 .. l -> 0 .. Len(s)]
    BY <1>1, <1>2
  <1>5. n1[0] = n[1] /\ n1[l] = Len(s) /\ 1 \in 1 .. Len(c) /\ 1 - 1 = 0
    BY <1>1, <1>2
  <1>6. ASSUME NEW i \in 1 .. l
        PROVE  IF d[i].type = "sold" THEN n1[i] = n1[i - 1] + 1 /\ d[i].sale = s[n1[i]]
               ELSE n1[i] = n1[i - 1]
    <2>1. /\ i + 1 \in 1 .. Len(c) /\ (i + 1) - 1 = i /\ (i - 1) + 1 = i
          /\ i \in 0 .. l /\ i - 1 \in 0 .. l
      BY <1>2
    <2>2. n1[i] = n[i + 1] /\ n1[i - 1] = n[i] /\ d[i] = c[i + 1]
      BY <1>2, <2>1
    <2>3. IF c[i + 1].type = "sold" THEN n[i + 1] = n[i] + 1 /\ c[i + 1].sale = s[n[i + 1]]
          ELSE n[i + 1] = n[i]
      BY <1>1, <2>1
    <2> QED
      BY <2>2, <2>3
  <1> HIDE DEF n1
  <1>7. Announces(d, s, n[1])
    BY <1>4, <1>5, <1>6 DEF Announces
  <1>8. IF c[1].type = "sold" THEN n[1] = k + 1 /\ c[1].sale = s[n[1]] ELSE n[1] = k
    BY <1>1, <1>5
  <1>9. n[1] \in 0 .. Len(s)
    BY <1>1, <1>2
  <1> QED
    BY <1>2, <1>3, <1>7, <1>8, <1>9 DEF d

LEMMA SoldFinite ==
  ASSUME NEW c \in Seq(Event)
  PROVE  IsFiniteSet(SoldIn(c)) /\ Cardinality(SoldIn(c)) \in Nat
  <1>1. IsFiniteSet(1 .. Len(c)) /\ SoldIn(c) \in SUBSET (1 .. Len(c))
    BY FS_Interval, LenProperties DEF SoldIn
  <1> QED
    BY <1>1, FS_Subset, FS_CardinalityType

LEMMA SoldAppend ==
  ASSUME NEW c \in Seq(Event), NEW m \in Event
  PROVE  Cardinality(SoldIn(Append(c, m))) =
            IF m.type = "sold" THEN Cardinality(SoldIn(c)) + 1 ELSE Cardinality(SoldIn(c))
  <1> DEFINE d == Append(c, m)
             l == Len(c)
  <1>1. /\ l \in Nat /\ Len(d) = l + 1 /\ d[l + 1] = m
        /\ \A i \in 1 .. l : d[i] = c[i]
    BY AppendProperties
  <1> HIDE DEF d
  <1>2. l + 1 \notin SoldIn(c)
    BY <1>1 DEF SoldIn
  <1>3. SoldIn(d) = IF m.type = "sold" THEN SoldIn(c) \cup {l + 1} ELSE SoldIn(c)
    <2>1. \A i : i \in 1 .. l + 1 <=> i \in 1 .. l \/ i = l + 1
      BY <1>1
    <2>2. \A i : i \in SoldIn(d) <=> i \in SoldIn(c) \/ (i = l + 1 /\ m.type = "sold")
      BY <1>1, <2>1 DEF SoldIn
    <2> HIDE DEF l
    <2> QED
      BY <2>2
  <1> QED
    BY <1>2, <1>3, SoldFinite, FS_AddElement DEF d

LEMMA SoldTail ==
  ASSUME NEW c \in Seq(Event), c # <<>>
  PROVE  Cardinality(SoldIn(c)) =
            IF Head(c).type = "sold" THEN Cardinality(SoldIn(Tail(c))) + 1
            ELSE Cardinality(SoldIn(Tail(c)))
  <1> DEFINE d == Tail(c)
             l == Len(d)
             later == SoldIn(c) \ {1}
             f == [i \in SoldIn(d) |-> i + 1]
  <1>1. /\ l \in Nat /\ Len(c) = l + 1 /\ Head(c) = c[1]
        /\ \A i \in 1 .. l : d[i] = c[i + 1]
    BY HeadTailProperties, EmptySeq
  <1>2. d \in Seq(Event)
    BY HeadTailProperties
  <1> HIDE DEF d
  <1>3. \A i \in SoldIn(d) : i \in 1 .. l /\ i + 1 \in later
    BY <1>1 DEF SoldIn
  <1>4. \A j \in later : j - 1 \in SoldIn(d) /\ j \in Nat
    BY <1>1 DEF SoldIn
  <1>5. f \in Bijection(SoldIn(d), later)
    <2>1. f \in [SoldIn(d) -> later]
      BY <1>3
    <2>2. \A a, b \in SoldIn(d) : f[a] = f[b] => a = b
      BY <1>3
    <2>3. \A j \in later : \E i \in SoldIn(d) : f[i] = j
      BY <1>4
    <2> HIDE DEF f, later
    <2>4. f \in Injection(SoldIn(d), later)
      BY <2>1, <2>2 DEF Injection, IsInjective
    <2>5. f \in Surjection(SoldIn(d), later)
      BY <2>1, <2>3 DEF Surjection
    <2> QED
      BY <2>4, <2>5 DEF Bijection
  <1>6. Cardinality(later) = Cardinality(SoldIn(d))
    <2> HIDE DEF f, later
    <2>1. ExistsBijection(SoldIn(d), later)
      BY <1>5 DEF ExistsBijection
    <2> QED
      BY <1>2, <2>1, SoldFinite, FS_Bijection
  <1>7. 1 \in SoldIn(c) <=> Head(c).type = "sold"
    BY <1>1 DEF SoldIn
  <1>8. Cardinality(later) =
           IF 1 \in SoldIn(c) THEN Cardinality(SoldIn(c)) - 1 ELSE Cardinality(SoldIn(c))
    BY SoldFinite, FS_RemoveElement
  <1> HIDE DEF later
  <1> QED
    BY <1>2, <1>6, <1>7, <1>8, SoldFinite DEF d

(* The manager's purchases *)

PlayersOf(s) == {s[i].player : i \in {j \in DOMAIN s : s[j].franchise = Me}}

LEMMA PlayersFinite ==
  ASSUME NEW s \in Seq(Sales)
  PROVE  PlayersOf(s) \subseteq 1 .. Players /\ IsFiniteSet(PlayersOf(s))
  <1>1. ASSUME NEW i \in DOMAIN s PROVE s[i].player \in 1 .. Players
    <2>1. i \in 1 .. Len(s)
      BY LenProperties
    <2>2. s[i] \in Sales
      BY <2>1, ElementOfSeq
    <2> QED
      BY <2>2 DEF Sales
  <1>2. PlayersOf(s) \subseteq 1 .. Players
    BY <1>1 DEF PlayersOf
  <1>3. IsFiniteSet(1 .. Players)
    BY FS_Interval, ClientAssumption
  <1> QED
    BY <1>2, <1>3, FS_Subset

LEMMA CountersFields ==
  ASSUME NEW s \in Seq(Sales)
  PROVE  /\ CountersOf(s) = [bought |-> Cardinality(PlayersOf(s)),
                             keepers |-> Cardinality(PlayersOf(s) \cap Keepers)]
         /\ CountersOf(s) \in Tally
  <1>1. IsFiniteSet(PlayersOf(s) \cap Keepers)
    <2>1. PlayersOf(s) \cap Keepers \in SUBSET PlayersOf(s)
      OBVIOUS
    <2> QED
      BY <2>1, PlayersFinite, FS_Subset
  <1> QED
    BY <1>1, PlayersFinite, FS_CardinalityType DEF CountersOf, PlayersOf, Tally

LEMMA CountersAppend ==
  ASSUME NEW s \in Seq(Sales), NEW x \in Sales,
         \A i \in 1 .. Len(s) : s[i].player # x.player
  PROVE  CountersOf(Append(s, x)) =
            IF x.franchise = Me THEN Charged(CountersOf(s), x.player) ELSE CountersOf(s)
  <1> DEFINE t == Append(s, x)
             l == Len(s)
  <1>1. /\ t \in Seq(Sales) /\ l \in Nat /\ DOMAIN t = 1 .. l + 1 /\ DOMAIN s = 1 .. l
        /\ t[l + 1] = x /\ \A i \in 1 .. l : t[i] = s[i]
    BY AppendProperties, LenProperties
  <1> HIDE DEF t
  <1>2. PlayersOf(t) = IF x.franchise = Me THEN PlayersOf(s) \cup {x.player} ELSE PlayersOf(s)
    <2>1. \A i : i \in 1 .. l + 1 <=> i \in 1 .. l \/ i = l + 1
      BY <1>1
    <2>2. \A p : p \in PlayersOf(t) <=> \E i \in DOMAIN t : t[i].franchise = Me /\ p = t[i].player
      BY DEF PlayersOf
    <2>3. \A p : p \in PlayersOf(s) <=> \E i \in DOMAIN s : s[i].franchise = Me /\ p = s[i].player
      BY DEF PlayersOf
    <2>4. \A p : p \in PlayersOf(t) <=> p \in PlayersOf(s) \/ (x.franchise = Me /\ p = x.player)
      BY <1>1, <2>1, <2>2, <2>3
    <2>5. CASE x.franchise = Me
      <3>1. \A p : p \in PlayersOf(t) <=> p \in PlayersOf(s) \cup {x.player}
        BY <2>4, <2>5
      <3>2. PlayersOf(t) = PlayersOf(s) \cup {x.player}
        BY <3>1
      <3> QED
        BY <2>5, <3>2
    <2>6. CASE x.franchise # Me
      BY <2>4, <2>6, Zenon
    <2> QED
      BY <2>5, <2>6
  <1>3. x.player \notin PlayersOf(s)
    BY <1>1 DEF PlayersOf
  <1>4. CASE x.franchise = Me
    <2>1. Cardinality(PlayersOf(t)) = Cardinality(PlayersOf(s)) + 1
      BY <1>2, <1>3, <1>4, PlayersFinite, FS_AddElement
    <2> DEFINE ks == PlayersOf(s) \cap Keepers
    <2>2. IsFiniteSet(ks) /\ Cardinality(ks) \in Nat
      <3>1. ks \in SUBSET PlayersOf(s)
        OBVIOUS
      <3> QED
        BY <3>1, PlayersFinite, FS_Subset, FS_CardinalityType
    <2>3. x.player \notin ks
      BY <1>3
    <2>4. PlayersOf(t) = PlayersOf(s) \cup {x.player}
      BY <1>2, <1>4
    <2>5. Cardinality(PlayersOf(t) \cap Keepers) =
             Cardinality(ks) + IF x.player \in Keepers THEN 1 ELSE 0
      <3>1. CASE x.player \in Keepers
        <4>1. PlayersOf(t) \cap Keepers = ks \cup {x.player}
          BY <2>4, <3>1
        <4> HIDE DEF ks
        <4>2. Cardinality(ks \cup {x.player}) = Cardinality(ks) + 1
          BY <2>2, <2>3, FS_AddElement
        <4> QED
          BY <3>1, <4>1, <4>2
      <3>2. CASE x.player \notin Keepers
        <4>1. PlayersOf(t) \cap Keepers = ks
          BY <2>4, <3>2
        <4> HIDE DEF ks
        <4>2. Cardinality(ks) + 0 = Cardinality(ks)
          BY <2>2
        <4> QED
          BY <3>2, <4>1, <4>2
      <3> QED
        BY <3>1, <3>2
    <2>6. /\ CountersOf(s).bought = Cardinality(PlayersOf(s))
          /\ CountersOf(s).keepers = Cardinality(ks)
      BY CountersFields
    <2>7. CountersOf(t) = [bought |-> Cardinality(PlayersOf(t)),
                           keepers |-> Cardinality(PlayersOf(t) \cap Keepers)]
      BY <1>1, CountersFields
    <2> HIDE DEF ks
    <2> QED
      BY <1>4, <2>1, <2>5, <2>6, <2>7 DEF Charged, t
  <1>5. CASE x.franchise # Me
    BY <1>1, <1>2, <1>5, CountersFields DEF t
  <1> QED
    BY <1>4, <1>5

(* Squads *)

LEMMA PrefixAppend ==
  ASSUME NEW s \in Seq(Sales), NEW x \in Sales, NEW k \in 0 .. Len(s)
  PROVE  SubSeq(Append(s, x), 1, k) = SubSeq(s, 1, k)
  <1> DEFINE t == Append(s, x)
             p == SubSeq(t, 1, k)
             q == SubSeq(s, 1, k)
  <1>1. Len(s) \in Nat /\ \A i \in 1 .. Len(s) : t[i] = s[i] /\ s[i] \in Sales
    BY AppendProperties, LenProperties, ElementOfSeq
  <1> HIDE DEF t
  <1>2. \A i \in 1 .. k : s[i] \in Sales /\ t[i] \in Sales /\ t[i] = s[i]
    BY <1>1
  <1>3. /\ p \in Seq(Sales) /\ Len(p) = IF 1 <= k THEN k - 1 + 1 ELSE 0
        /\ \A i \in 1 .. k - 1 + 1 : p[i] = t[1 + i - 1]
    BY <1>1, <1>2, SubSeqProperties
  <1>4. /\ q \in Seq(Sales) /\ Len(q) = IF 1 <= k THEN k - 1 + 1 ELSE 0
        /\ \A i \in 1 .. k - 1 + 1 : q[i] = s[1 + i - 1]
    BY <1>1, <1>2, SubSeqProperties
  <1> HIDE DEF p, q
  <1>5. \A i \in 1 .. Len(p) : p[i] = q[i]
    BY <1>1, <1>2, <1>3, <1>4
  <1>6. p = q
    BY <1>3, <1>4, <1>5, SeqEqual
  <1> QED
    BY <1>6 DEF p, q, t

LEMMA PrefixNext ==
  ASSUME NEW s \in Seq(Sales), NEW k \in 0 .. Len(s), k + 1 =< Len(s)
  PROVE  Append(SubSeq(s, 1, k), s[k + 1]) = SubSeq(s, 1, k + 1)
  <1> DEFINE q == SubSeq(s, 1, k)
             r == SubSeq(s, 1, k + 1)
  <1>1. Len(s) \in Nat /\ \A i \in 1 .. Len(s) : s[i] \in Sales
    BY LenProperties, ElementOfSeq
  <1>2. \A i \in 1 .. k + 1 : s[i] \in Sales
    BY <1>1
  <1>3. \A i \in 1 .. k : s[i] \in Sales
    BY <1>1
  <1>4. /\ q \in Seq(Sales) /\ Len(q) = k
        /\ \A i \in 1 .. k - 1 + 1 : q[i] = s[1 + i - 1]
    BY <1>1, <1>3, SubSeqProperties
  <1>5. /\ r \in Seq(Sales) /\ Len(r) = k + 1
        /\ \A i \in 1 .. k + 1 - 1 + 1 : r[i] = s[1 + i - 1]
    BY <1>1, <1>2, SubSeqProperties
  <1> HIDE DEF q, r
  <1>6. PICK e \in Sales : e = s[k + 1]
    BY <1>1
  <1> DEFINE a == Append(q, e)
  <1>7. /\ a \in Seq(Sales) /\ Len(a) = k + 1
        /\ \A i \in 1 .. k : a[i] = q[i]
        /\ a[k + 1] = e
    BY <1>4, AppendProperties
  <1> HIDE DEF a
  <1>8. \A i \in 1 .. Len(a) : a[i] = r[i]
    BY <1>4, <1>5, <1>6, <1>7
  <1>9. a = r
    BY <1>5, <1>7, <1>8, SeqEqual
  <1> QED
    BY <1>6, <1>9 DEF a, q, r

(* The broadcast that is due *)

LEMMA MessageFits ==
  ASSUME Types, DueFits, due \notin {"none", "charge"}
  PROVE  /\ Message \in Event /\ Message.type = due
         /\ due = "up" => Message.player = keys.player
         /\ due = "bid" => Message.bid = keys.bid /\ Message.bidder = keys.bidder
         /\ due = "sold" => /\ Message.sale = Sale /\ Message.bought = mine.bought
                            /\ Sale \in Sales
  <1>1. keys \in Views /\ mine.bought \in Nat
    BY DEF Types, Tally
  <1>2. /\ keys.player \in 0 .. Players /\ keys.bid \in 0 .. MaxBid
        /\ keys.bidder \in Franchises \cup {None}
    BY <1>1, ViewFields
  <1>3. Players \in Nat /\ MaxBid \in Nat
    BY ClientAssumption
  <1>4. CASE due = "up"
    <2>1. keys.player \in 1 .. Players
      BY <1>2, <1>3, <1>4 DEF DueFits
    <2> QED
      BY <1>4, <2>1 DEF Message, Event
  <1>5. CASE due = "bid"
    <2>1. keys.bid \in 1 .. MaxBid /\ keys.bidder \in Franchises
      BY <1>2, <1>3, <1>5 DEF DueFits
    <2> QED
      BY <1>5, <2>1 DEF Message, Event
  <1>6. CASE due = "sold"
    <2>1. keys.player \in 1 .. Players /\ keys.bidder \in Franchises
      BY <1>2, <1>3, <1>6 DEF DueFits
    <2>2. Sale \in Sales
      BY <2>1 DEF Sale, Sales
    <2> QED
      BY <1>1, <1>6, <2>2 DEF Message, Event
  <1>7. CASE due \in {"unsold", "paused", "resumed", "complete"}
    BY <1>7 DEF Message, Event
  <1> QED
    BY <1>4, <1>5, <1>6, <1>7 DEF Types

(* Reading the keys while a broadcast is due: the page catches up with it. *)
LEMMA KeysLead ==
  ASSUME Types, DueFits
  PROVE  Shows(Told(keys))
  <1>1. keys = [player |-> keys.player, bid |-> keys.bid, bidder |-> keys.bidder,
                state |-> keys.state]
    BY ViewFields DEF Types
  <1>2. CASE due = "none"
    BY <1>2 DEF Told, Shows
  <1>3. CASE due = "charge"
    BY <1>1, <1>3 DEF Told, Shows, DueFits
  <1>4. CASE due \in {"up", "bid"}
    <2>1. Told(keys) = ViewAfter(keys, Message)
      BY <1>4 DEF Told
    <2>2. ViewAfter(keys, Message) = keys
      BY <1>1, <1>4, MessageFits DEF ViewAfter, DueFits
    <2> QED
      BY <2>1, <2>2 DEF Shows
  <1>5. CASE due \in {"sold", "unsold", "paused", "resumed"}
    <2>1. Told(keys) = ViewAfter(keys, Message)
      BY <1>5 DEF Told
    <2>2. keys.state = StateOf(due)
      BY <1>5 DEF DueFits, StateOf
    <2>3. ViewAfter(keys, Message) = keys
      BY <1>1, <1>5, <2>2, MessageFits DEF ViewAfter
    <2> QED
      BY <2>1, <2>3 DEF Shows
  <1>6. CASE due = "complete"
    <2>1. Told(keys) = ViewAfter(keys, Message)
      BY <1>6 DEF Told
    <2>2. ViewAfter(keys, Message) =
             [player |-> 0, bid |-> keys.bid, bidder |-> keys.bidder, state |-> "complete"]
      BY <1>6, MessageFits DEF ViewAfter, StateOf
    <2>3. keys.state = "complete"
      BY <1>6 DEF DueFits
    <2>4. [keys EXCEPT !.player = 0] =
             [player |-> 0, bid |-> keys.bid, bidder |-> keys.bidder, state |-> "complete"]
      BY <2>3 DEF Types, Views
    <2> QED
      BY <2>1, <2>2, <2>3, <2>4 DEF Shows
  <1> QED
    BY <1>2, <1>3, <1>4, <1>5, <1>6 DEF Types

(* The server's writes *)

LEMMA WriteKeeps ==
  ASSUME ClientInv, NEW new \in Views,
         NEW broadcast \in {"up", "bid", "charge", "unsold", "paused", "resumed", "complete"},
         Write(new, broadcast), click' \in Requests \cup {None},
         DueFits', SalesBehind', \A v \in Views : Shows(v) => Shows(Told(v))'
  PROVE  ClientInv'
  <1> USE DEF ClientInv, Write, handler, store
  <1>1. Types'
    BY DEF Types
  <1>2. Connection'
    BY DEF Connection
  <1>3. SnapshotCounts'
    <2>1. mine = CountersOf(sales)
      BY DEF SnapshotCounts
    <2> QED
      BY <2>1 DEF SnapshotCounts
  <1>4. StoreLeads'
    <2>1. PICK y \in Views, b \in Tally \cup {None} :
             Trail(chan, view, own, y, b) /\ ViewLeads(y) /\ OwnLeads(b)
      BY DEF StoreLeads
    <2>2. Shows(y) => Shows(Told(y))'
      OBVIOUS
    <2>3. reading.keys \in Views /\ reading' = reading
      BY DEF Types
    <2>4. PICK r \in Views : r = reading.keys /\ r = reading'.keys
      BY <2>3
    <2>5. Shows(r) => Shows(Told(r))'
      OBVIOUS
    <2>6. \A v : Told(v) = v
      BY DEF Told
    <2>7. crossed' = crossed /\ linked' = linked /\ sync' = sync
      OBVIOUS
    <2>8. Told(r)' = Told(reading.keys)'
      BY <2>4
    <2>9. ViewLeads(y)'
      <3>1. ASSUME ~crossed', linked', sync' = "none" PROVE Shows(Told(y))'
        BY <2>1, <2>2, <2>6, <2>7, <3>1 DEF ViewLeads
      <3>2. ASSUME ~crossed', sync' \in {"read", "loaded"} PROVE Shows(Told(reading.keys))'
        <4>1. Shows(r)
          BY <2>1, <2>4, <2>6, <2>7, <3>2 DEF ViewLeads
        <4>2. Shows(Told(r))'
          BY <2>5, <4>1
        <4> QED
          BY <2>4, <4>2
      <3> QED
        BY <3>1, <3>2 DEF ViewLeads
    <2>10. OwnLeads(b)'
      BY <2>1 DEF OwnLeads
    <2>11. Trail(chan, view, own, y, b)'
      BY <2>1
    <2> QED
      BY <2>1, <2>9, <2>10, <2>11 DEF StoreLeads
  <1>5. SquadsFollow'
    BY DEF SquadsFollow
  <1> QED
    BY <1>1, <1>2, <1>3, <1>4, <1>5

LEMMA PutUpKeeps ==
  ASSUME ClientInv, PutUp
  PROVE  ClientInv'
  <1> USE DEF ClientInv, PutUp
  <1>1. PICK new : new = [player |-> keys.player + 1, bid |-> 0, bidder |-> None,
                          state |-> "player_up"]
    OBVIOUS
  <1>2. keys.player \in 0 .. Players /\ keys.player < Players
    BY ViewFields DEF Types
  <1>3. new \in Views
    BY <1>1, <1>2, ClientAssumption DEF Views, States, Up
  <1>4. Write(new, "up")
    BY <1>1
  <1>5. keys' = new /\ due' = "up" /\ due = "none" /\ sales' = sales /\ mine' = mine
    BY <1>4 DEF Write
  <1>6. DueFits'
    <2>1. new.player # 0
      BY <1>1, <1>2
    <2> QED
      BY <1>1, <1>5, <2>1 DEF DueFits
  <1>7. SalesBehind'
    <2>1. ASSUME NEW i \in 1 .. Len(sales)
          PROVE  sales[i].player =< new.player /\ sales[i].player # new.player
      <3>1. sales[i] \in Sales
        BY ElementOfSeq DEF Types
      <3>2. sales[i].player \in Nat /\ sales[i].player =< keys.player
        BY <3>1, ClientAssumption DEF Sales, SalesBehind
      <3>3. new.player = keys.player + 1
        BY <1>1
      <3> QED
        BY <1>2, <3>2, <3>3
    <2> QED
      BY <1>5, <2>1 DEF SalesBehind
  <1>8. \A v \in Views : Shows(Told(v))'
    BY <1>1, <1>5 DEF Shows, Told, Message, ViewAfter
  <1>9. click' \in Requests \cup {None}
    BY DEF Types
  <1> QED
    BY <1>3, <1>4, <1>6, <1>7, <1>8, <1>9, WriteKeeps

(* A write that leaves the player up in place *)
LEMMA SamePlayer ==
  ASSUME ClientInv, NEW new \in Views, NEW broadcast, Write(new, broadcast),
         new.player = keys.player,
         new.state \in Up \cup {"paused"} \/ broadcast = "charge" =>
            keys.state \in Up \cup {"paused"},
         broadcast # "sold"
  PROVE  SalesBehind'
  <1>1. keys' = new /\ due' = broadcast /\ sales' = sales
    BY DEF Write
  <1>2. \A i \in 1 .. Len(sales) :
           /\ sales[i].player =< keys.player
           /\ keys.state \in Up \cup {"paused"} => sales[i].player # keys.player
    BY DEF ClientInv, SalesBehind
  <1> QED
    BY <1>1, <1>2 DEF SalesBehind

LEMMA BidKeeps ==
  ASSUME ClientInv, NEW f \in Franchises, NEW a \in 1 .. MaxBid, keys.state \in Up,
         Write([keys EXCEPT !.bid = a, !.bidder = f, !.state = "bidding"], "bid"),
         click' \in Requests \cup {None}
  PROVE  ClientInv'
  <1> USE DEF ClientInv
  <1>1. PICK new : new = [player |-> keys.player, bid |-> a, bidder |-> f, state |-> "bidding"]
    OBVIOUS
  <1>2. keys \in Views
    BY DEF Types
  <1>3. new = [keys EXCEPT !.bid = a, !.bidder = f, !.state = "bidding"]
    BY <1>1, <1>2, ViewBid
  <1>4. new \in Views
    BY <1>1, <1>2, ViewFields, ClientAssumption DEF Views, States, Up
  <1>5. Write(new, "bid")
    BY <1>3
  <1>6. keys' = new /\ due' = "bid"
    BY <1>5 DEF Write
  <1>7. DueFits'
    <2>1. keys.player # 0
      BY DEF DueFits, Up
    <2>2. a # 0 /\ f # None
      BY ClientAssumption DEF Franchises
    <2> QED
      BY <1>1, <1>6, <2>1, <2>2 DEF DueFits
  <1>8. SalesBehind'
    BY <1>1, <1>4, <1>5, SamePlayer
  <1>9. \A v \in Views : Shows(v) => Shows(Told(v))'
    <2>1. ASSUME NEW v \in Views, Shows(v) PROVE v = keys
      BY <2>1 DEF Shows, Up
    <2>2. Told(keys)' = ViewAfter(keys', Message')
      BY <1>6 DEF Told
    <2>3. ASSUME NEW v \in Views, v = keys PROVE Told(v)' = new
      <3>1. v.player = new.player
        BY <1>1, <2>3
      <3> QED
        BY <1>1, <1>6, <3>1 DEF Told, Message, ViewAfter
    <2> QED
      BY <1>6, <2>1, <2>3 DEF Shows
  <1> QED
    BY <1>4, <1>5, <1>7, <1>8, <1>9, WriteKeeps

LEMMA RivalBidKeeps ==
  ASSUME ClientInv, RivalBid
  PROVE  ClientInv'
  <1>1. click' \in Requests \cup {None}
    BY DEF ClientInv, Types, RivalBid
  <1>2. \A f \in Rivals : f \in Franchises
    BY DEF Franchises
  <1> QED
    BY <1>1, <1>2, BidKeeps DEF RivalBid

LEMMA OwnBidKeeps ==
  ASSUME ClientInv, OwnBid
  PROVE  ClientInv'
  <1> USE DEF OwnBid
  <1>1. click' \in Requests \cup {None}
    OBVIOUS
  <1>2. CASE MayBid(keys, mine, click.player, click.amount)
    <2>1. click \in Requests
      BY DEF ClientInv, Types
    <2>2. PICK a \in 1 .. MaxBid : a = click.amount
      BY <2>1 DEF Requests
    <2>3. Me \in Franchises
      BY DEF Franchises
    <2>4. keys.state \in Up
      BY <1>2 DEF MayBid
    <2>5. Write([keys EXCEPT !.bid = a, !.bidder = Me, !.state = "bidding"], "bid")
      BY <1>2, <2>2 DEF BidBy
    <2> QED
      BY <1>1, <2>3, <2>4, <2>5, BidKeeps
  <1>3. CASE ~MayBid(keys, mine, click.player, click.amount)
    <2>1. UNCHANGED <<auction, stored, admitted, handler, chan, linked, store, load,
                      drops, crossed, mixed>>
      BY <1>3
    <2> QED
      BY <1>1, <2>1 DEF ClientInv, Types, Connection, DueFits, SalesBehind, SnapshotCounts,
         StoreLeads, SquadsFollow, ViewLeads, OwnLeads, Told, Shows, Message, Sale,
         auction, handler, store
  <1> QED
    BY <1>2, <1>3

(* The writes that change the state alone *)
LEMMA StateKeeps ==
  ASSUME ClientInv, NEW state, NEW broadcast,
         \/ state = "sold" /\ broadcast = "charge" /\ keys.bidder # None
         \/ state \in {"unsold", "paused", "complete"} /\ broadcast = state
         \/ state = "bidding" /\ broadcast = "resumed",
         keys.state \notin {"idle", "complete"},
         state \in {"sold", "paused", "bidding"} => keys.state \in Up \cup {"paused"},
         Write([keys EXCEPT !.state = state], broadcast), click' \in Requests \cup {None}
  PROVE  ClientInv'
  <1> USE DEF ClientInv
  <1>1. PICK new : new = [keys EXCEPT !.state = state]
    OBVIOUS
  <1>2. keys \in Views
    BY DEF Types
  <1>3. new = [player |-> keys.player, bid |-> keys.bid, bidder |-> keys.bidder,
               state |-> state]
    BY <1>1, <1>2 DEF Views
  <1>4. state \in States
    BY DEF States, Up
  <1>5. new \in Views
    BY <1>2, <1>3, <1>4, ViewFields DEF Views
  <1>6. Write(new, broadcast)
    BY <1>1
  <1>7. keys' = new /\ due' = broadcast
    BY <1>6 DEF Write
  <1>8. DueFits'
    <2>1. keys.player # 0
      BY DEF DueFits
    <2> QED
      BY <1>3, <1>7, <2>1 DEF DueFits
  <1>9. SalesBehind'
    BY <1>3, <1>5, <1>6, SamePlayer DEF Up
  <1>10. \A v \in Views : Shows(v) => Shows(Told(v))'
    <2>1. ASSUME NEW v \in Views, v = keys
          PROVE  Shows(Told(v))'
      <3>1. v.player = keys.player /\ v.bid = keys.bid /\ v.bidder = keys.bidder
        BY <2>1
      <3>2. CASE broadcast = "charge"
        BY <1>3, <1>7, <3>1, <3>2 DEF Told, Shows
      <3>3. CASE broadcast \in {"unsold", "paused"}
        BY <1>3, <1>7, <3>1, <3>3 DEF Told, Shows, ViewAfter, Message, StateOf
      <3>4. CASE broadcast = "resumed"
        BY <1>3, <1>7, <3>1, <3>4 DEF Told, Shows, ViewAfter, Message, StateOf
      <3>5. CASE broadcast = "complete"
        <4>1. Told(v)' = [player |-> 0, bid |-> keys.bid, bidder |-> keys.bidder,
                          state |-> "complete"]
          BY <1>7, <3>1, <3>5 DEF Told, ViewAfter, Message, StateOf
        <4>2. [new EXCEPT !.player = 0] =
                 [player |-> 0, bid |-> keys.bid, bidder |-> keys.bidder,
                  state |-> "complete"]
          BY <1>3, <3>5
        <4> QED
          BY <1>3, <1>7, <3>5, <4>1, <4>2 DEF Shows
      <3> QED
        BY <3>2, <3>3, <3>4, <3>5
    <2> QED
      BY <2>1 DEF Shows
  <1> QED
    BY <1>5, <1>6, <1>8, <1>9, <1>10, WriteKeeps

LEMMA ExpireKeeps ==
  ASSUME ClientInv, Expire
  PROVE  ClientInv'
  <1>1. click' \in Requests \cup {None}
    BY DEF ClientInv, Types, Expire
  <1>2. keys.state \in Up \cup {"paused"} /\ keys.state \notin {"idle", "complete"}
    BY DEF Expire, Up
  <1>3. CASE keys.bidder # None
    BY <1>1, <1>2, <1>3, StateKeeps DEF Expire
  <1>4. CASE keys.bidder = None
    BY <1>1, <1>2, <1>4, StateKeeps DEF Expire
  <1> QED
    BY <1>3, <1>4

LEMMA PauseKeeps ==
  ASSUME ClientInv, Pause
  PROVE  ClientInv'
  <1>1. click' \in Requests \cup {None}
    BY DEF ClientInv, Types, Pause
  <1>2. keys.state \in Up \cup {"paused"} /\ keys.state \notin {"idle", "complete"}
    BY DEF Pause, Up
  <1> QED
    BY <1>1, <1>2, StateKeeps DEF Pause

LEMMA ResumeKeeps ==
  ASSUME ClientInv, Resume
  PROVE  ClientInv'
  <1>1. click' \in Requests \cup {None}
    BY DEF ClientInv, Types, Resume
  <1> QED
    BY <1>1, StateKeeps DEF Resume

LEMMA CompleteKeeps ==
  ASSUME ClientInv, Complete
  PROVE  ClientInv'
  <1>1. click' \in Requests \cup {None}
    BY DEF ClientInv, Types, Complete
  <1> QED
    BY <1>1, StateKeeps DEF Complete

(* The snapshot is charged: it counts the sale that is still to be told. *)
LEMMA ChargeKeeps ==
  ASSUME ClientInv, Charge
  PROVE  ClientInv'
  <1> USE DEF ClientInv, Charge, handler, store
  <1>1. keys.bidder # None /\ keys.state = "sold" /\ keys.player # 0
    BY DEF DueFits
  <1>2. Sale \in Sales
    <2>1. keys.player \in 1 .. Players /\ keys.bidder \in Franchises
      BY <1>1, ViewFields, ClientAssumption DEF Types
    <2> QED
      BY <2>1 DEF Sale, Sales
  <1>3. Sale.player = keys.player /\ Sale.franchise = keys.bidder
    BY DEF Sale
  <1>4. sales \in Seq(Sales) /\ mine = CountersOf(sales)
    BY DEF Types, SnapshotCounts
  <1>5. CountersOf(Append(sales, Sale)) =
           IF keys.bidder = Me THEN Charged(CountersOf(sales), keys.player)
           ELSE CountersOf(sales)
    <2>1. \A i \in 1 .. Len(sales) : sales[i].player # Sale.player
      BY <1>3 DEF SalesBehind
    <2> QED
      BY <1>2, <1>3, <1>4, <2>1, CountersAppend
  <1>6. mine' = CountersOf(Append(sales, Sale))
    BY <1>4, <1>5
  <1>7. Types'
    <2>1. Append(sales, Sale) \in Seq(Sales)
      BY <1>2, <1>4, AppendProperties
    <2>2. mine' \in Tally
      BY <1>6, <2>1, CountersFields
    <2> QED
      BY <2>2 DEF Types
  <1>8. Connection'
    BY DEF Connection
  <1>9. DueFits'
    BY DEF DueFits
  <1>10. SalesBehind'
    BY DEF SalesBehind
  <1>11. SnapshotCounts'
    <2>1. Sale' = Sale
      BY DEF Sale
    <2> QED
      BY <1>6, <2>1 DEF SnapshotCounts
  <1>12. StoreLeads'
    <2>1. PICK y \in Views, b \in Tally \cup {None} :
             Trail(chan, view, own, y, b) /\ ViewLeads(y) /\ OwnLeads(b)
      BY DEF StoreLeads
    <2>2. ASSUME NEW v, Shows(Told(v)) PROVE Shows(Told(v))'
      BY <2>2 DEF Shows, Told, ViewAfter, Message, StateOf
    <2>3. PICK r : r = reading.keys /\ r = reading'.keys
      OBVIOUS
    <2>4. ViewLeads(y)'
      <3>1. ASSUME ~crossed', linked', sync' = "none" PROVE Shows(Told(y))'
        BY <2>1, <2>2, <3>1 DEF ViewLeads
      <3>2. ASSUME ~crossed', sync' \in {"read", "loaded"} PROVE Shows(Told(reading.keys))'
        <4>1. Shows(Told(r))
          BY <2>1, <2>3, <3>2 DEF ViewLeads
        <4>2. Shows(Told(r))'
          BY <2>2, <4>1
        <4> QED
          BY <2>3, <4>2
      <3> QED
        BY <3>1, <3>2 DEF ViewLeads
    <2>5. OwnLeads(b)'
      BY <2>1 DEF OwnLeads
    <2> QED
      BY <2>1, <2>4, <2>5 DEF StoreLeads
  <1>13. SquadsFollow'
    BY DEF SquadsFollow
  <1> QED
    BY <1>7, <1>8, <1>9, <1>10, <1>11, <1>12, <1>13

(* What the invariant says of the auction is about the auction alone. *)
LEMMA AuctionStands ==
  ASSUME ClientInv, UNCHANGED auction
  PROVE  DueFits' /\ SalesBehind' /\ SnapshotCounts' /\ \A v : Shows(Told(v))' <=> Shows(Told(v))
  <1> USE DEF ClientInv, auction
  <1>1. DueFits'
    BY DEF DueFits
  <1>2. SalesBehind'
    BY DEF SalesBehind
  <1>3. SnapshotCounts'
    BY DEF SnapshotCounts, Sale
  <1>4. ASSUME NEW v PROVE Shows(Told(v))' <=> Shows(Told(v))
    BY DEF Shows, Told, ViewAfter, Message, Sale
  <1> QED
    BY <1>1, <1>2, <1>3, <1>4

LEMMA CommitKeeps ==
  ASSUME ClientInv, Commit
  PROVE  ClientInv'
  BY DEF Commit, ClientInv, Types, Connection, DueFits, SalesBehind, SnapshotCounts,
     StoreLeads, SquadsFollow, ViewLeads, OwnLeads, Told, Shows, Message, Sale,
     auction, handler, store

LEMMA ClickKeeps ==
  ASSUME ClientInv, Click
  PROVE  ClientInv'
  <1> USE DEF ClientInv, Click, auction, handler, store
  <1>1. click' \in Requests
    BY ViewFields, ClientAssumption DEF Types, Requests
  <1>2. Types'
    BY <1>1 DEF Types
  <1>3. Connection' /\ DueFits' /\ SalesBehind' /\ SnapshotCounts' /\ StoreLeads' /\ SquadsFollow'
    BY DEF Connection, DueFits, SalesBehind, SnapshotCounts, StoreLeads, SquadsFollow,
       ViewLeads, OwnLeads, Told, Shows, Message, Sale
  <1> QED
    BY <1>2, <1>3

LEMMA ReadRowsKeeps ==
  ASSUME ClientInv, ReadRows
  PROVE  ClientInv'
  <1> USE DEF ClientInv, ReadRows, auction, handler, store
  <1>1. Types' /\ Connection' /\ DueFits' /\ SalesBehind' /\ SnapshotCounts' /\ StoreLeads'
    BY DEF Types, Connection, DueFits, SalesBehind, SnapshotCounts, StoreLeads,
       ViewLeads, OwnLeads, Told, Shows, Message, Sale
  <1>2. load'.at # "done"
    OBVIOUS
  <1>3. SquadsFollow'
    BY <1>2 DEF SquadsFollow
  <1> QED
    BY <1>1, <1>3

(* The squads loaded are those shown, or the squads are mixed from here on. *)
LEMMA SetSquadPlayersKeeps ==
  ASSUME ClientInv, SetSquadPlayers
  PROVE  ClientInv'
  <1> USE DEF ClientInv, SetSquadPlayers, auction, handler
  <1>1. Types' /\ Connection' /\ DueFits' /\ SalesBehind' /\ SnapshotCounts' /\ StoreLeads'
    BY DEF Types, Connection, DueFits, SalesBehind, SnapshotCounts, StoreLeads,
       ViewLeads, OwnLeads, Told, Shows, Message, Sale
  <1>2. PICK k \in 0 .. Len(sales) :
           Announces(chan, sales, k) /\ Cardinality(SoldIn(chan)) = Len(sales) - k
    BY DEF SquadsFollow
  <1>3. Shown = SubSeq(sales, 1, k)
    <2>1. chan \in Seq(Event) /\ Len(sales) \in Nat
      BY LenProperties DEF Types
    <2>2. DOMAIN chan = 1 .. Len(chan)
      BY <2>1, LenProperties
    <2>3. {i \in DOMAIN chan : chan[i].type = "sold"} = SoldIn(chan)
      BY <2>2 DEF SoldIn
    <2>4. Len(sales) - (Len(sales) - k) = k
      BY <2>1
    <2> QED
      BY <1>2, <2>3, <2>4 DEF Shown
  <1>4. ~mixed' => squads' = SubSeq(sales, 1, k)
    BY <1>3 DEF Types
  <1>5. SquadsFollow'
    BY <1>2, <1>4 DEF SquadsFollow
  <1> QED
    BY <1>1, <1>5

(* The connection and the snapshot *)

LEMMA AdmitKeeps ==
  ASSUME ClientInv, Admit
  PROVE  ClientInv'
  <1> USE DEF ClientInv, Admit, auction, store
  <1>1. Types' /\ Connection' /\ DueFits' /\ SalesBehind' /\ SnapshotCounts' /\ SquadsFollow'
    BY DEF Types, Connection, DueFits, SalesBehind, SnapshotCounts, SquadsFollow, Sale
  <1>2. StoreLeads'
    <2>1. PICK y \in Views, b \in Tally \cup {None} : Trail(chan, view, own, y, b)
      BY DEF StoreLeads
    <2>2. ViewLeads(y)' /\ OwnLeads(b)'
      BY DEF ViewLeads, OwnLeads
    <2> QED
      BY <2>1, <2>2 DEF StoreLeads
  <1> QED
    BY <1>1, <1>2

LEMMA ReadKeysKeeps ==
  ASSUME ClientInv, ReadKeys
  PROVE  ClientInv'
  <1> USE DEF ClientInv, ReadKeys
  <1>1. reading'.keys = keys /\ reading' \in [keys : Views, mine : Tally]
    BY DEF Types
  <1>2. Types' /\ Connection' /\ SquadsFollow'
    BY <1>1 DEF Types, Connection, SquadsFollow, auction, store
  <1>3. DueFits' /\ SalesBehind' /\ SnapshotCounts'
    BY AuctionStands
  <1>4. StoreLeads'
    <2>1. PICK y \in Views, b \in Tally \cup {None} : Trail(chan, view, own, y, b)
      BY DEF StoreLeads
    <2>2. PICK r : r = keys /\ r = reading'.keys
      BY <1>1
    <2>3. Shows(Told(r))'
      BY <2>2, KeysLead, AuctionStands
    <2>4. ViewLeads(y)' /\ OwnLeads(b)'
      BY <2>2, <2>3 DEF ViewLeads, OwnLeads
    <2> QED
      BY <2>1, <2>4 DEF StoreLeads, store
  <1> QED
    BY <1>2, <1>3, <1>4

LEMMA LoadSnapshotKeeps ==
  ASSUME ClientInv, LoadSnapshot
  PROVE  ClientInv'
  <1> USE DEF ClientInv, LoadSnapshot
  <1>1. reading'.keys = reading.keys /\ reading' \in [keys : Views, mine : Tally]
    BY DEF Types, auction
  <1>2. Types' /\ Connection' /\ SquadsFollow'
    BY <1>1 DEF Types, Connection, SquadsFollow, auction, store
  <1>3. DueFits' /\ SalesBehind' /\ SnapshotCounts'
    BY AuctionStands
  <1>4. StoreLeads'
    <2>1. PICK y \in Views, b \in Tally \cup {None} :
             Trail(chan, view, own, y, b) /\ ViewLeads(y)
      BY DEF StoreLeads
    <2>2. PICK r : r = reading.keys /\ r = reading'.keys
      BY <1>1
    <2>3. ~crossed' => Shows(Told(r))'
      BY <2>1, <2>2, AuctionStands DEF ViewLeads
    <2>4. ViewLeads(y)' /\ OwnLeads(b)'
      BY <2>2, <2>3 DEF ViewLeads, OwnLeads
    <2> QED
      BY <2>1, <2>4 DEF StoreLeads, store
  <1> QED
    BY <1>2, <1>3, <1>4

(* The snapshot is sent: from here on it is what the page will show. *)
LEMMA ReplyKeeps ==
  ASSUME ClientInv, Reply
  PROVE  ClientInv'
  <1> USE DEF ClientInv, Reply
  <1>1. PICK m : m = [type |-> "sync", keys |-> reading.keys, mine |-> reading.mine]
    OBVIOUS
  <1>2. /\ reading.keys \in Views /\ reading.mine \in Tally
        /\ m.type = "sync" /\ m.keys = reading.keys /\ m.mine = reading.mine
    BY <1>1 DEF Types
  <1>3. m \in Event
    BY <1>1, <1>2 DEF Event
  <1>4. chan' = Append(chan, m)
    BY <1>1
  <1>5. chan \in Seq(Event) /\ sales \in Seq(Sales)
    BY DEF Types
  <1>6. chan' \in Seq(Event)
    BY <1>3, <1>4, <1>5, AppendProperties
  <1>7. Types'
    <2>1. Unread \in [keys : Views, mine : Tally]
      BY ClientAssumption DEF Unread, Blank, Views, Tally, States
    <2> QED
      BY <1>6, <2>1 DEF Types, auction, store
  <1>8. Connection'
    BY DEF Connection
  <1>9. DueFits' /\ SalesBehind' /\ SnapshotCounts'
    BY AuctionStands
  <1>10. StoreLeads'
    <2>1. PICK y \in Views, b \in Tally \cup {None} :
             Trail(chan, view, own, y, b) /\ ViewLeads(y)
      BY DEF StoreLeads
    <2>2. ViewAfter(y, m) = m.keys /\ OwnAfter(b, m) = m.mine
      BY <1>2 DEF ViewAfter, OwnAfter
    <2>3. PICK z \in Views, c \in Tally : z = m.keys /\ c = m.mine
      BY <1>2
    <2>4. Trail(Append(chan, m), view, own, z, c)
      BY <1>3, <1>5, <2>1, <2>2, <2>3, TrailAppend
    <2>5. Trail(chan, view, own, z, c)'
      <3>1. view' = view /\ own' = own
        BY DEF store
      <3> QED
        BY <1>4, <2>4, <3>1
    <2>6. ~crossed' => Shows(Told(z))'
      <3>1. ~crossed => Shows(Told(z))
        BY <1>2, <2>1, <2>3 DEF ViewLeads
      <3> QED
        BY <3>1, AuctionStands
    <2>7. ViewLeads(z)'
      BY <2>6 DEF ViewLeads
    <2>8. OwnLeads(c)'
      <3>1. sales' = sales
        BY DEF auction
      <3> QED
        BY <1>2, <2>3, <3>1 DEF OwnLeads
    <2> QED
      BY <2>3, <2>5, <2>7, <2>8 DEF StoreLeads
  <1>11. SquadsFollow'
    <2>1. PICK k \in 0 .. Len(sales) :
             /\ Announces(chan, sales, k)
             /\ Cardinality(SoldIn(chan)) = Len(sales) - k
             /\ ~mixed /\ load.at = "done" => squads = SubSeq(sales, 1, k)
      BY DEF SquadsFollow
    <2>2. Announces(Append(chan, m), sales, k)
      BY <1>2, <1>3, <1>5, <2>1, AnnouncesAppend
    <2>3. Cardinality(SoldIn(Append(chan, m))) = Len(sales) - k
      BY <1>2, <1>3, <1>5, <2>1, SoldAppend
    <2>4. sales' = sales /\ squads' = squads
      BY DEF auction, store
    <2> QED
      BY <1>4, <2>1, <2>2, <2>3, <2>4 DEF SquadsFollow
  <1> QED
    BY <1>7, <1>8, <1>9, <1>10, <1>11

LEMMA ConnectKeeps ==
  ASSUME ClientInv, Connect
  PROVE  ClientInv'
  <1> USE DEF ClientInv, Connect, auction, store
  <1>1. Types' /\ Connection' /\ DueFits' /\ SalesBehind' /\ SnapshotCounts' /\ SquadsFollow'
    BY DEF Types, Connection, DueFits, SalesBehind, SnapshotCounts, SquadsFollow, Sale
  <1>2. StoreLeads'
    <2>1. PICK y \in Views, b \in Tally \cup {None} : Trail(chan, view, own, y, b)
      BY DEF StoreLeads
    <2>2. ViewLeads(y)' /\ OwnLeads(b)'
      BY DEF ViewLeads, OwnLeads
    <2> QED
      BY <2>1, <2>2 DEF StoreLeads
  <1> QED
    BY <1>1, <1>2

LEMMA NothingUnread ==
  ASSUME NEW s \in Seq(Sales)
  PROVE  /\ Len(s) \in 0 .. Len(s)
         /\ Announces(<<>>, s, Len(s))
         /\ Cardinality(SoldIn(<<>>)) = Len(s) - Len(s)
  <1>1. SoldIn(<<>>) = {}
    BY DEF SoldIn
  <1>2. Cardinality(SoldIn(<<>>)) = 0
    BY <1>1, FS_EmptySet
  <1>3. Len(s) \in Nat
    BY LenProperties
  <1> QED
    BY <1>2, <1>3, AnnouncesEmpty

LEMMA BlankView == Blank \in Views /\ Unread \in [keys : Views, mine : Tally]
  BY ClientAssumption DEF Blank, Unread, Views, Tally, States

LEMMA DropKeeps ==
  ASSUME ClientInv, Drop
  PROVE  ClientInv'
  <1> USE DEF ClientInv, Drop
  <1>1. Types'
    <2>1. <<>> \in Seq(Event)
      BY EmptySeq
    <2> QED
      BY <2>1, BlankView DEF Types, auction
  <1>2. Connection'
    BY DEF Connection
  <1>3. DueFits' /\ SalesBehind' /\ SnapshotCounts'
    BY AuctionStands
  <1>4. StoreLeads'
    <2>1. None \in Tally \cup {None}
      OBVIOUS
    <2>2. Trail(<<>>, Blank, None, Blank, None)
      BY <2>1, BlankView, TrailEmpty
    <2>3. ViewLeads(Blank)' /\ OwnLeads(None)'
      BY DEF ViewLeads, OwnLeads
    <2>4. Trail(chan, view, own, Blank, None)'
      BY <2>2
    <2>5. Blank' = Blank
      BY DEF Blank
    <2> QED
      BY <2>1, <2>3, <2>4, <2>5, BlankView DEF StoreLeads
  <1>5. SquadsFollow'
    <2>1. sales \in Seq(Sales) /\ sales' = sales
      BY DEF Types, auction
    <2> QED
      BY <2>1, NothingUnread DEF SquadsFollow
  <1> QED
    BY <1>1, <1>2, <1>3, <1>4, <1>5

(* The page *)

LEMMA ReducersFit ==
  ASSUME ClientInv, Deliver
  PROVE  /\ Head(chan) \in Event
         /\ view' = ViewAfter(view, Head(chan))
         /\ own' = OwnAfter(own, Head(chan))
         /\ squads' = IF Head(chan).type = "sold" THEN Append(squads, Head(chan).sale) ELSE squads
  <1> USE DEF ClientInv, Deliver
  <1>1. PICK m : m = Head(chan)
    OBVIOUS
  <1>2. m \in Event
    BY <1>1, HeadTailProperties DEF Types
  <1>3. view \in Views
    BY DEF Types
  <1>4. view = [player |-> view.player, bid |-> view.bid, bidder |-> view.bidder,
                state |-> view.state]
    BY <1>3, ViewFields
  <1>5. m.type \in {"up", "bid", "sold", "unsold", "paused", "resumed", "complete", "sync"}
    BY <1>2, EventFields
  <1>6. /\ m.type \notin {"sold", "sync"} => own' = own
        /\ m.type # "sold" => squads' = squads
    BY <1>1
  <1>7. \A s : [view EXCEPT !.state = s] =
                  [player |-> view.player, bid |-> view.bid, bidder |-> view.bidder,
                   state |-> s]
    BY <1>3 DEF Views
  <1>8. CASE m.type = "up"
    <2>1. SetPlayerUp(m)
      BY <1>1, <1>8
    <2> QED
      BY <1>1, <1>2, <1>6, <1>8, <2>1 DEF SetPlayerUp, ViewAfter, OwnAfter
  <1>9. CASE m.type = "bid"
    <2>1. UpdateBid(m)
      BY <1>1, <1>9
    <2>2. [view EXCEPT !.bid = m.bid, !.bidder = m.bidder, !.state = "bidding"] =
             [player |-> view.player, bid |-> m.bid, bidder |-> m.bidder, state |-> "bidding"]
      BY <1>3, ViewBid
    <2> QED
      BY <1>1, <1>2, <1>6, <1>9, <2>1, <2>2 DEF UpdateBid, ViewAfter, OwnAfter
  <1>10. CASE m.type = "sold"
    <2>1. MarkPlayerSold(m)
      BY <1>1, <1>10
    <2>2. view' = ViewAfter(view, m)
      BY <1>7, <1>10, <2>1 DEF MarkPlayerSold, SetState, ViewAfter, StateOf
    <2>3. own' = OwnAfter(own, m)
      <3>1. [Charged(own, m.sale.player) EXCEPT !.bought = m.bought] =
               [bought |-> m.bought,
                keepers |-> own.keepers + IF m.sale.player \in Keepers THEN 1 ELSE 0]
        BY DEF Charged
      <3> QED
        BY <1>10, <2>1, <3>1 DEF MarkPlayerSold, OwnAfter
    <2> QED
      BY <1>1, <1>2, <1>10, <2>1, <2>2, <2>3 DEF MarkPlayerSold
  <1>11. CASE m.type \in {"unsold", "paused", "resumed"}
    <2>1. SetState(StateOf(m.type))
      BY <1>1, <1>11 DEF StateOf
    <2>2. view' = ViewAfter(view, m)
      BY <1>7, <1>11, <2>1 DEF SetState, ViewAfter
    <2> QED
      BY <1>1, <1>2, <1>6, <1>11, <2>2 DEF OwnAfter
  <1>12. CASE m.type = "complete"
    <2>1. MarkAuctionComplete
      BY <1>1, <1>12
    <2>2. [view EXCEPT !.player = 0, !.state = "complete"] =
             [player |-> 0, bid |-> view.bid, bidder |-> view.bidder, state |-> "complete"]
      BY <1>3, ViewOver
    <2> QED
      BY <1>1, <1>2, <1>6, <1>12, <2>1, <2>2
         DEF MarkAuctionComplete, ViewAfter, OwnAfter, StateOf
  <1>13. CASE m.type = "sync"
    <2>1. SyncState(m)
      BY <1>1, <1>13
    <2> QED
      BY <1>1, <1>2, <1>6, <1>13, <2>1 DEF SyncState, ViewAfter, OwnAfter
  <1> QED
    BY <1>5, <1>8, <1>9, <1>10, <1>11, <1>12, <1>13

LEMMA DeliverKeeps ==
  ASSUME ClientInv, Deliver
  PROVE  ClientInv'
  <1> USE DEF ClientInv
  <1>1. PICK m : m = Head(chan)
    OBVIOUS
  <1>2. /\ m \in Event /\ chan # <<>> /\ chan' = Tail(chan)
        /\ view' = ViewAfter(view, m) /\ own' = OwnAfter(own, m)
        /\ squads' = IF m.type = "sold" THEN Append(squads, m.sale) ELSE squads
    BY <1>1, ReducersFit DEF Deliver
  <1>3. chan \in Seq(Event) /\ sales \in Seq(Sales)
    BY DEF Types
  <1>4. /\ UNCHANGED auction /\ sales' = sales
        /\ UNCHANGED <<admitted, sync, reading, skewed, linked, load, click, crossed, mixed>>
    BY DEF Deliver, auction, handler
  <1>5. Types'
    <2>1. chan' \in Seq(Event)
      BY <1>2, <1>3, HeadTailProperties
    <2>2. view' \in Views /\ own' \in Tally \cup {None}
      BY <1>2, AfterTyped DEF Types
    <2> QED
      BY <1>4, <2>1, <2>2 DEF Types, auction
  <1>6. Connection'
    BY <1>2, <1>4 DEF Connection
  <1>7. DueFits' /\ SalesBehind' /\ SnapshotCounts'
    BY <1>4, AuctionStands
  <1>8. StoreLeads'
    <2>1. PICK y \in Views, b \in Tally \cup {None} :
             Trail(chan, view, own, y, b) /\ ViewLeads(y) /\ OwnLeads(b)
      BY DEF StoreLeads
    <2>2. Trail(Tail(chan), ViewAfter(view, m), OwnAfter(own, m), y, b)
      BY <1>1, <1>2, <1>3, <2>1, TrailTail
    <2>3. Trail(chan, view, own, y, b)'
      BY <1>2, <2>2
    <2>4. PICK r : r = reading.keys /\ r = reading'.keys
      BY <1>4
    <2>5. ViewLeads(y)'
      <3>1. (Shows(Told(y))' <=> Shows(Told(y))) /\ (Shows(Told(r))' <=> Shows(Told(r)))
        BY <1>4, AuctionStands
      <3> QED
        BY <1>4, <2>1, <2>4, <3>1 DEF ViewLeads
    <2>6. OwnLeads(b)'
      BY <1>4, <2>1 DEF OwnLeads
    <2> QED
      BY <2>1, <2>3, <2>5, <2>6 DEF StoreLeads
  <1>9. SquadsFollow'
    <2>1. PICK k \in 0 .. Len(sales) :
             /\ Announces(chan, sales, k)
             /\ Cardinality(SoldIn(chan)) = Len(sales) - k
             /\ ~mixed /\ load.at = "done" => squads = SubSeq(sales, 1, k)
      BY DEF SquadsFollow
    <2>2. Len(sales) \in Nat
      BY <1>3, LenProperties
    <2>3. Tail(chan) \in Seq(Event)
      BY <1>2, <1>3, HeadTailProperties
    <2>4. CASE m.type = "sold"
      <3>1. k + 1 =< Len(sales) /\ m.sale = sales[k + 1] /\ Announces(Tail(chan), sales, k + 1)
        BY <1>1, <1>2, <1>3, <2>1, <2>4, AnnouncesTail
      <3>2. Cardinality(SoldIn(Tail(chan))) = Len(sales) - (k + 1)
        <4>1. PICK c, d : c = Cardinality(SoldIn(chan)) /\ d = Cardinality(SoldIn(Tail(chan)))
          OBVIOUS
        <4>2. c = d + 1
          BY <1>1, <1>2, <1>3, <2>4, <4>1, SoldTail
        <4>3. d \in Nat
          BY <2>3, <4>1, SoldFinite
        <4>4. c = Len(sales) - k
          BY <2>1, <4>1
        <4>5. d = Len(sales) - (k + 1)
          BY <2>2, <4>2, <4>3, <4>4
        <4> QED
          BY <4>1, <4>5
      <3>3. Append(SubSeq(sales, 1, k), sales[k + 1]) = SubSeq(sales, 1, k + 1)
        BY <1>3, <3>1, PrefixNext
      <3>4. ~mixed /\ load.at = "done" => squads' = SubSeq(sales, 1, k + 1)
        BY <1>2, <2>1, <2>4, <3>1, <3>3
      <3>5. k + 1 \in 0 .. Len(sales)
        BY <2>2, <3>1
      <3> QED
        BY <1>2, <1>4, <3>1, <3>2, <3>4, <3>5 DEF SquadsFollow
    <2>5. CASE m.type # "sold"
      <3>1. Announces(Tail(chan), sales, k)
        BY <1>1, <1>2, <1>3, <2>1, <2>5, AnnouncesTail
      <3>2. Cardinality(SoldIn(Tail(chan))) = Len(sales) - k
        BY <1>1, <1>2, <1>3, <2>1, <2>5, SoldTail
      <3> QED
        BY <1>2, <1>4, <2>1, <2>5, <3>1, <3>2 DEF SquadsFollow
    <2> QED
      BY <2>4, <2>5
  <1> QED
    BY <1>5, <1>6, <1>7, <1>8, <1>9

(* What is told is what was due: the page's store follows it. *)
LEMMA BroadcastKeeps ==
  ASSUME ClientInv, Broadcast
  PROVE  ClientInv'
  <1> USE DEF ClientInv
  <1>1. PICK m : m = Message
    OBVIOUS
  <1>2. /\ m \in Event /\ m.type = due /\ due \notin {"none", "charge"}
        /\ due = "sold" => m.sale = Sale /\ m.bought = mine.bought /\ Sale \in Sales
    BY <1>1, MessageFits DEF Broadcast
  <1>3. chan \in Seq(Event) /\ sales \in Seq(Sales) /\ Len(sales) \in Nat
    BY LenProperties DEF Types
  <1>4. /\ due' = "none" /\ keys' = keys /\ mine' = mine
        /\ sales' = IF due = "sold" THEN Append(sales, Sale) ELSE sales
        /\ chan' = IF admitted THEN Append(chan, m) ELSE chan
        /\ mixed' = (mixed \/ (due = "sold" /\ ~admitted))
        /\ UNCHANGED <<admitted, sync, reading, skewed, linked, view, own, squads, load, click>>
    BY <1>1 DEF Broadcast, handler, store
  <1>5. crossed' = IF sync \in {"read", "loaded"}
                   THEN crossed \/ reading.keys # keys
                   ELSE crossed /\ due # "up"
    BY DEF Broadcast
  <1>6. sales' \in Seq(Sales) /\ chan' \in Seq(Event)
    BY <1>2, <1>3, <1>4, AppendProperties
  <1>7. Types'
    BY <1>4, <1>5, <1>6 DEF Types
  <1>8. Connection'
    BY <1>4 DEF Connection
  <1>9. DueFits'
    BY <1>4 DEF DueFits
  <1>10. SalesBehind'
    <2>1. CASE due = "sold"
      <3>1. keys.state = "sold"
        BY <2>1 DEF DueFits
      <3>2. Sale.player = keys.player
        BY DEF Sale
      <3>3. PICK t : t = Append(sales, Sale)
        OBVIOUS
      <3>4. /\ Len(t) = Len(sales) + 1 /\ t[Len(sales) + 1] = Sale
            /\ \A i \in 1 .. Len(sales) : t[i] = sales[i]
        BY <1>2, <1>3, <2>1, <3>3, AppendProperties
      <3>5. ASSUME NEW i \in 1 .. Len(t) PROVE t[i].player =< keys.player
        <4>1. CASE i = Len(sales) + 1
          <5>1. keys.player \in Nat
            BY ViewFields, ClientAssumption DEF Types
          <5> QED
            BY <3>2, <3>4, <4>1, <5>1
        <4>2. CASE i # Len(sales) + 1
          <5>1. i \in 1 .. Len(sales)
            BY <1>3, <3>4, <4>2
          <5> QED
            BY <3>4, <5>1 DEF SalesBehind
        <4> QED
          BY <4>1, <4>2
      <3>6. sales' = t
        BY <1>4, <2>1, <3>3
      <3> QED
        BY <1>4, <3>1, <3>5, <3>6 DEF SalesBehind, Up
    <2>2. CASE due # "sold"
      BY <1>2, <1>4, <2>2 DEF SalesBehind
    <2> QED
      BY <2>1, <2>2
  <1>11. SnapshotCounts'
    BY <1>4 DEF SnapshotCounts
  <1>12. CountersOf(sales') = IF due = "sold" /\ keys.bidder = Me
                              THEN Charged(CountersOf(sales), keys.player)
                              ELSE CountersOf(sales)
    <2>1. CASE due = "sold"
      <3>1. Sale.player = keys.player /\ Sale.franchise = keys.bidder
        BY DEF Sale
      <3>2. \A i \in 1 .. Len(sales) : sales[i].player # Sale.player
        BY <2>1, <3>1 DEF SalesBehind
      <3> QED
        BY <1>2, <1>3, <1>4, <2>1, <3>1, <3>2, CountersAppend
    <2>2. CASE due # "sold"
      BY <1>4, <2>2
    <2> QED
      BY <2>1, <2>2
  <1>13. StoreLeads'
    <2>1. PICK y \in Views, b \in Tally \cup {None} :
             Trail(chan, view, own, y, b) /\ ViewLeads(y) /\ OwnLeads(b)
      BY DEF StoreLeads
    <2>2. \A v : Told(v)' = v /\ (Shows(v)' <=> Shows(v))
      BY <1>4 DEF Told, Shows
    <2>3. PICK r : r = reading.keys /\ r = reading'.keys
      BY <1>4
    <2>4. ~crossed' /\ sync' \in {"read", "loaded"} => Shows(Told(r))'
      <3>1. ASSUME ~crossed', sync' \in {"read", "loaded"} PROVE r = keys
        BY <1>4, <1>5, <2>3, <3>1
      <3>2. Shows(keys)
        BY DEF Shows
      <3> QED
        BY <2>2, <3>1, <3>2
    <2>5. CASE ~admitted
      <3>1. chan' = chan /\ ~(linked' /\ sync' = "none")
        BY <1>4, <2>5 DEF Connection
      <3>2. ViewLeads(y)' /\ OwnLeads(b)'
        BY <2>3, <2>4, <3>1 DEF ViewLeads, OwnLeads
      <3>3. Trail(chan, view, own, y, b)'
        BY <1>4, <2>1, <3>1
      <3> QED
        BY <3>2, <3>3 DEF StoreLeads
    <2>6. CASE admitted
      <3>1. PICK z, c : z = ViewAfter(y, m) /\ c = OwnAfter(b, m)
        OBVIOUS
      <3>2. z \in Views /\ c \in Tally \cup {None}
        BY <1>2, <2>1, <3>1, AfterTyped
      <3>3. Trail(Append(chan, m), view, own, z, c)
        BY <1>2, <1>3, <2>1, <3>1, TrailAppend
      <3>4. Trail(chan, view, own, z, c)'
        BY <1>4, <2>6, <3>3
      <3>5. ASSUME ~crossed', linked', sync' = "none" PROVE Shows(z)
        <4>1. CASE due = "up"
          <5>1. m.player = keys.player
            BY <1>1, <4>1, MessageFits DEF Broadcast
          <5>2. z = [player |-> keys.player, bid |-> 0, bidder |-> None, state |-> "player_up"]
            BY <1>2, <3>1, <4>1, <5>1 DEF ViewAfter
          <5>3. z = keys
            BY <4>1, <5>2, ViewFields DEF DueFits, Types
          <5> QED
            BY <5>3 DEF Shows
        <4>2. CASE due # "up"
          <5>1. Shows(Told(y))
            BY <1>4, <1>5, <2>1, <3>5, <4>2 DEF ViewLeads
          <5>2. Told(y) = z
            BY <1>1, <1>2, <3>1 DEF Told
          <5> QED
            BY <5>1, <5>2
        <4> QED
          BY <4>1, <4>2
      <3>6. ViewLeads(z)'
        BY <2>2, <2>3, <2>4, <3>5 DEF ViewLeads
      <3>7. ASSUME ~skewed', linked', sync' = "none" PROVE c = CountersOf(sales')
        <4>1. b = CountersOf(sales) /\ b \in Tally
          BY <1>3, <1>4, <2>1, <3>7, CountersFields DEF OwnLeads
        <4>2. b # None
          BY <4>1, ClientAssumption DEF Tally
        <4>3. CASE due = "sold" /\ keys.bidder = Me
          <5>1. m.sale.franchise = Me /\ m.sale.player = keys.player
            BY <1>2, <4>3 DEF Sale
          <5>2. c = [bought |-> mine.bought,
                     keepers |-> b.keepers + IF keys.player \in Keepers THEN 1 ELSE 0]
            BY <1>2, <3>1, <4>2, <4>3, <5>1 DEF OwnAfter
          <5>3. mine = CountersOf(sales')
            BY <1>4, <4>3 DEF SnapshotCounts
          <5>4. mine = Charged(b, keys.player)
            BY <1>12, <4>1, <4>3, <5>3
          <5> QED
            BY <5>2, <5>3, <5>4 DEF Charged
        <4>4. CASE due = "sold" /\ keys.bidder # Me
          <5>1. m.sale.franchise # Me
            BY <1>2, <4>4 DEF Sale
          <5>2. c = b
            BY <1>2, <3>1, <4>4, <5>1 DEF OwnAfter
          <5> QED
            BY <1>12, <4>1, <4>4, <5>2
        <4>5. CASE due # "sold"
          <5>1. m.type # "sync"
            BY <1>2 DEF Types
          <5>2. c = b
            BY <1>2, <3>1, <4>5, <5>1 DEF OwnAfter
          <5> QED
            BY <1>12, <4>1, <4>5, <5>2
        <4> QED
          BY <4>3, <4>4, <4>5
      <3>8. OwnLeads(c)'
        BY <3>7 DEF OwnLeads
      <3> QED
        BY <3>2, <3>4, <3>6, <3>8 DEF StoreLeads
    <2> QED
      BY <2>5, <2>6
  <1>14. SquadsFollow'
    <2>1. PICK k \in 0 .. Len(sales) :
             /\ Announces(chan, sales, k)
             /\ Cardinality(SoldIn(chan)) = Len(sales) - k
             /\ ~mixed /\ load.at = "done" => squads = SubSeq(sales, 1, k)
      BY DEF SquadsFollow
    <2>2. CASE admitted
      <3>1. Announces(Append(chan, m), sales', k)
        <4>1. sales' = IF m.type = "sold" THEN Append(sales, m.sale) ELSE sales
          BY <1>2, <1>4
        <4> QED
          BY <1>2, <1>3, <2>1, <4>1, AnnouncesAppend
      <3>2. Len(sales') = (IF due = "sold" THEN Len(sales) + 1 ELSE Len(sales))
        BY <1>2, <1>3, <1>4, AppendProperties
      <3>3. Cardinality(SoldIn(Append(chan, m))) = Len(sales') - k
        <4>1. PICK c : c = Cardinality(SoldIn(chan))
          OBVIOUS
        <4>2. c = Len(sales) - k
          BY <2>1, <4>1
        <4>3. Cardinality(SoldIn(Append(chan, m))) = IF due = "sold" THEN c + 1 ELSE c
          BY <1>2, <1>3, <4>1, SoldAppend
        <4>4. (IF due = "sold" THEN c + 1 ELSE c) = Len(sales') - k
          BY <1>3, <3>2, <4>2
        <4> QED
          BY <4>3, <4>4
      <3>4. SubSeq(sales', 1, k) = SubSeq(sales, 1, k)
        BY <1>2, <1>3, <1>4, PrefixAppend
      <3>5. k \in 0 .. Len(sales')
        BY <1>3, <3>2
      <3>6. mixed' = mixed /\ load' = load /\ squads' = squads /\ chan' = Append(chan, m)
        BY <1>4, <2>2 DEF Types
      <3> QED
        BY <2>1, <3>1, <3>3, <3>4, <3>5, <3>6 DEF SquadsFollow
    <2>3. CASE ~admitted /\ due = "sold"
      <3>1. chan' = <<>> /\ mixed'
        BY <1>4, <2>3 DEF Connection
      <3> QED
        BY <1>6, <3>1, NothingUnread DEF SquadsFollow
    <2>4. CASE ~admitted /\ due # "sold"
      <3>1. chan' = chan /\ sales' = sales /\ squads' = squads /\ load' = load /\ mixed' = mixed
        BY <1>4, <2>4 DEF Types
      <3> QED
        BY <2>1, <3>1 DEF SquadsFollow
    <2> QED
      BY <2>2, <2>3, <2>4
  <1> QED
    BY <1>7, <1>8, <1>9, <1>10, <1>11, <1>13, <1>14

-----------------------------------------------------------------------------
(* The invariant *)

LEMMA InitClient ==
  ASSUME Init
  PROVE  ClientInv
  <1> USE DEF Init
  <1>1. Types
    <2>1. /\ Blank \in Views /\ [bought |-> 0, keepers |-> 0] \in Tally
          /\ Unread \in [keys : Views, mine : Tally]
      BY BlankView DEF Tally
    <2>2. <<>> \in Seq(Event) /\ <<>> \in Seq(Sales)
      BY EmptySeq
    <2> QED
      BY <2>1, <2>2 DEF Types
  <1>2. Connection
    BY DEF Connection
  <1>3. DueFits
    BY DEF DueFits, Blank
  <1>4. SalesBehind
    BY DEF SalesBehind
  <1>5. SnapshotCounts
    <2>1. <<>> \in Seq(Sales)
      BY EmptySeq
    <2>2. PlayersOf(<<>>) = {}
      BY DEF PlayersOf
    <2>3. Cardinality({}) = 0
      BY FS_EmptySet
    <2>4. PlayersOf(<<>>) \cap Keepers = {}
      BY <2>2
    <2>5. CountersOf(<<>>) = [bought |-> Cardinality(PlayersOf(<<>>)),
                              keepers |-> Cardinality(PlayersOf(<<>>) \cap Keepers)]
      BY <2>1, CountersFields
    <2>6. CountersOf(<<>>) = [bought |-> 0, keepers |-> 0]
      BY <2>2, <2>3, <2>4, <2>5
    <2> QED
      BY <2>6 DEF SnapshotCounts
  <1>6. StoreLeads
    <2>1. Trail(<<>>, Blank, None, Blank, None)
      BY BlankView, TrailEmpty
    <2>2. ViewLeads(Blank) /\ OwnLeads(None)
      BY DEF ViewLeads, OwnLeads
    <2> QED
      BY <2>1, <2>2, BlankView DEF StoreLeads
  <1>7. SquadsFollow
    <2>1. <<>> \in Seq(Sales)
      BY EmptySeq
    <2> QED
      BY <2>1, NothingUnread DEF SquadsFollow
  <1> QED
    BY <1>1, <1>2, <1>3, <1>4, <1>5, <1>6, <1>7 DEF ClientInv

LEMMA ClientStays ==
  ASSUME ClientInv, UNCHANGED vars
  PROVE  ClientInv'
  BY DEF vars, ClientInv, Types, Connection, DueFits, SalesBehind, SnapshotCounts,
     StoreLeads, SquadsFollow, ViewLeads, OwnLeads, Told, Shows, Message, Sale,
     auction, handler, store

LEMMA NextKeeps ==
  ASSUME ClientInv, [Next]_vars
  PROVE  ClientInv'
  <1>1. CASE PutUp
    BY <1>1, PutUpKeeps
  <1>2. CASE RivalBid
    BY <1>2, RivalBidKeeps
  <1>3. CASE OwnBid
    BY <1>3, OwnBidKeeps
  <1>4. CASE Expire
    BY <1>4, ExpireKeeps
  <1>5. CASE Charge
    BY <1>5, ChargeKeeps
  <1>6. CASE Pause
    BY <1>6, PauseKeeps
  <1>7. CASE Resume
    BY <1>7, ResumeKeeps
  <1>8. CASE Complete
    BY <1>8, CompleteKeeps
  <1>9. CASE Broadcast
    BY <1>9, BroadcastKeeps
  <1>10. CASE Commit
    BY <1>10, CommitKeeps
  <1>11. CASE Admit
    BY <1>11, AdmitKeeps
  <1>12. CASE ReadKeys
    BY <1>12, ReadKeysKeeps
  <1>13. CASE LoadSnapshot
    BY <1>13, LoadSnapshotKeeps
  <1>14. CASE Reply
    BY <1>14, ReplyKeeps
  <1>15. CASE Connect
    BY <1>15, ConnectKeeps
  <1>16. CASE Drop
    BY <1>16, DropKeeps
  <1>17. CASE Deliver
    BY <1>17, DeliverKeeps
  <1>18. CASE ReadRows
    BY <1>18, ReadRowsKeeps
  <1>19. CASE SetSquadPlayers
    BY <1>19, SetSquadPlayersKeeps
  <1>20. CASE Click
    BY <1>20, ClickKeeps
  <1>21. CASE UNCHANGED vars
    BY <1>21, ClientStays
  <1> QED
    BY <1>1, <1>2, <1>3, <1>4, <1>5, <1>6, <1>7, <1>8, <1>9, <1>10, <1>11, <1>12, <1>13,
       <1>14, <1>15, <1>16, <1>17, <1>18, <1>19, <1>20, <1>21 DEF Next

(* Whatever the page was sent, lost, or asked for, the keys, the snapshot   *)
(* and the sales lead to what it will show (auctionStore.ts:169-351,        *)
(* auctionHandler.ts:260-331).                                              *)
THEOREM ClientFollows == Spec => []ClientInv
  <1>1. Init => ClientInv
    BY InitClient
  <1>2. ClientInv /\ [Next]_vars => ClientInv'
    BY NextKeeps
  <1> QED
    BY <1>1, <1>2, PTL DEF Spec

(* A page to which nothing is under way shows the server's player, bid,     *)
(* bidder and state, for any number of pauses, of lost connections and of   *)
(* events it missed (auctionStore.ts:169-345).                              *)
THEOREM ViewStaysExact == Spec => []ViewExact
  <1>1. ClientInv => ViewExact
    <2> SUFFICES ASSUME ClientInv, Settled, ~crossed
                 PROVE  \/ view = keys
                        \/ keys.state = "complete" /\ view = [keys EXCEPT !.player = 0]
      BY DEF ViewExact
    <2>1. PICK y \in Views, b \in Tally \cup {None} :
             Trail(chan, view, own, y, b) /\ ViewLeads(y)
      BY DEF ClientInv, StoreLeads
    <2>2. y = view
      BY <2>1, TrailStays DEF Settled
    <2>3. Shows(Told(view))
      BY <2>1, <2>2 DEF ViewLeads, Settled
    <2>4. Told(view) = view
      BY DEF Told, Settled
    <2> QED
      BY <2>3, <2>4 DEF Shows
  <1> QED
    BY <1>1, ClientFollows, PTL

(* The counters the page's rules read are what the manager's purchases come *)
(* to: the total is the payload's, the rest is counted on from the snapshot *)
(* it was given, sale by sale (auctionStore.ts:206-243).                    *)
THEOREM CountersStayExact == Spec => []CountersExact
  <1>1. ClientInv => CountersExact
    <2> SUFFICES ASSUME ClientInv, Settled, ~skewed
                 PROVE  own = CountersOf(sales)
      BY DEF CountersExact
    <2>1. PICK y \in Views, b \in Tally \cup {None} :
             Trail(chan, view, own, y, b) /\ OwnLeads(b)
      BY DEF ClientInv, StoreLeads
    <2>2. b = own
      BY <2>1, TrailStays DEF Settled
    <2> QED
      BY <2>1, <2>2 DEF OwnLeads, Settled
  <1> QED
    BY <1>1, ClientFollows, PTL

(* The squads shown are the sales, each once, in order, on a page that kept *)
(* its connection and whose HTTP load agreed with the events it had shown   *)
(* (auctionStore.ts:221-228, 348-351; routes/rooms.ts:213-268).             *)
THEOREM SquadsStayExact == Spec => []SquadsExact
  <1>1. ClientInv => SquadsExact
    <2> SUFFICES ASSUME ClientInv, Settled, load.at = "done", ~mixed
                 PROVE  squads = sales
      BY DEF SquadsExact
    <2>1. sales \in Seq(Sales)
      BY DEF ClientInv, Types
    <2>2. PICK k \in 0 .. Len(sales) :
             Announces(chan, sales, k) /\ squads = SubSeq(sales, 1, k)
      BY DEF ClientInv, SquadsFollow
    <2>3. k = Len(sales)
      BY <2>1, <2>2, AnnouncesEmpty DEF Settled
    <2> QED
      BY <2>1, <2>2, <2>3, SubSeqFull
  <1> QED
    BY <1>1, ClientFollows, PTL

=============================================================================
