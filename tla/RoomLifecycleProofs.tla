------------------------ MODULE RoomLifecycleProofs ------------------------
(***************************************************************************)
(* A room for any number of users, franchises and overlapping requests,    *)
(* and its pool for any table of players.  What is asked of the start      *)
(* holds because a request that changes the members needs the lobby: one   *)
(* that was let in before the start is seen by it (Closed, Ready), or the  *)
(* history raced tells that it was not.  What the pages of a lobby show is *)
(* followed through the one request there is while nothing has overlapped  *)
(* (Alone, Carried).                                                       *)
(***************************************************************************)
EXTENDS RoomLifecycle, SequenceTheorems, TLAPS

Race == Overlap({"joining", "claiming"}, {"checking", "activating"})

(* The histories have told. *)
RaceSeen == Race => raced

Alone == Overlap(Anything, Anything) => crossed

(* The room does not return to the lobby.                                  *)
PastLobby ==
    /\ queue # NoQueue => status # "lobby"
    /\ \A r \in Requests :
          /\ At(r, "counting") => status # "lobby"
          /\ request[r].at \in {"checking", "activating", "leaving", "left"}
                /\ request[r].was # "lobby" => status # "lobby"

(* Nothing that was let into the lobby is left when it closes.             *)
Closed ==
    status # "lobby" /\ ~raced =>
        \A r \in Requests : request[r].at \notin {"joining", "claiming"}

Started == queue # NoQueue \/ \E r \in Requests : request[r].at \in {"activating", "counting"}

(* From the check of a start on, every member has a franchise.             *)
Ready ==
    ~raced =>
        /\ Started => \A u \in Member : franchise[u] # NoFranchise
        /\ queue # NoQueue => queue = Most(1, Len(members))

Released == \A u \in Users : u \notin Member => franchise[u] = NoFranchise

(* What the pages show is the roster, ... *)
Agrees ==
    /\ shown.crown = host
    /\ DOMAIN shown.team \subseteq Member
    /\ \A u \in Member : franchise[u] # NoFranchise => u \in DOMAIN shown.team
    /\ \A u \in DOMAIN shown.team : shown.team[u] = franchise[u]

(* ... or the one request there is carries it to them.                     *)
Carries(q) ==
    /\ q.at \in {"claiming", "listing"} => q.host = host
    /\ q.at = "sending" => q.roster = Roster(Member, host)
    /\ q.at \in {"leaving", "left"} => q.was = "lobby"
    /\ q.at = "leaving" => q.host = host
    /\ q.at = "left" => host = IF q.heir = NoUser THEN q.host ELSE q.heir

Carried ==
    ~crossed /\ status = "lobby" =>
        /\ (\A r \in Requests : request[r].at \notin {"listing", "sending", "left"}) => Agrees
        /\ \A r \in Requests : Carries(request[r])

RoomInv ==
    /\ TypeOK
    /\ HostIsMember
    /\ RaceSeen
    /\ Alone
    /\ PastLobby
    /\ Closed
    /\ Ready
    /\ Released
    /\ Carried

-----------------------------------------------------------------------------
(* The pool *)

LEMMA PoolSizeBounds ==
  ASSUME NEW managers \in Nat
  PROVE  /\ CalculatePoolSize(managers) \in Nat
         /\ MinPoolSize =< CalculatePoolSize(managers)
         /\ CalculatePoolSize(managers) =< MaxPoolSize
  <1>1. PICK n \in Int : n = Percent(ScarcityPercent, Most(1, managers) * PlayersPerManager)
    BY PoolAssumption DEF Percent, Most
  <1> QED
    BY <1>1, PoolAssumption DEF CalculatePoolSize, Least, Most

LEMMA InRolesBound ==
  ASSUME NEW table \in Table
  PROVE  /\ table["marquee"] \in Nat /\ InRoles(table) \in Nat
         /\ \A r \in Roles : table[r] \in Nat
  BY DEF Table, Roles, InRoles

LEMMA MarqueeFirstBound ==
  ASSUME NEW managers \in Nat, NEW table \in Table
  PROVE  /\ MarqueeFirst(managers, table) \in Nat
         /\ MarqueeFirst(managers, table) =< table["marquee"]
         /\ MarqueeFirst(managers, table) =< CalculatePoolSize(managers)
  <1>1. PICK target \in Nat : target = CalculatePoolSize(managers) /\ MinMarquee =< target
    BY PoolSizeBounds, PoolAssumption
  <1>2. Percent(20, target) \in Nat /\ Percent(20, target) =< target
    BY DEF Percent
  <1>3. Most(MinMarquee, Percent(20, target)) \in Nat
        /\ Most(MinMarquee, Percent(20, target)) =< target
    BY <1>1, <1>2, PoolAssumption DEF Most
  <1> QED
    BY <1>1, <1>3, InRolesBound DEF MarqueeFirst, Least

(* The five quotas, rounded one by one, are at most two over the slots.    *)
LEMMA QuotasBound ==
  ASSUME NEW slots \in Nat
  PROVE  /\ \A p \in {25, 22, 18, 10} : Percent(p, slots) \in Nat
         /\ Percent(25, slots) + Percent(25, slots) + Percent(22, slots)
              + Percent(18, slots) + Percent(10, slots) =< slots + 2
  BY DEF Percent

LEMMA FirstPass ==
  ASSUME NEW managers \in Nat, NEW table \in Table
  PROVE  /\ RemainingSlots(managers, table) \in Nat
         /\ InRoles(RoleQuotas(managers, table)) \in Nat
         /\ InRoles(RoleQuotas(managers, table)) =< InRoles(table)
         /\ InRoles(RoleQuotas(managers, table)) =< RemainingSlots(managers, table) + 2
  <1>1. PICK slots \in Nat : slots = RemainingSlots(managers, table)
    BY PoolSizeBounds, MarqueeFirstBound DEF RemainingSlots
  <1>2. \A r \in Roles : table[r] \in Nat
    BY InRolesBound
  <1>3. PICK quota : quota = RoleQuotas(managers, table)
    OBVIOUS
  <1>4. /\ quota["batter"] = Least(table["batter"], Percent(25, slots))
        /\ quota["pacer"] = Least(table["pacer"], Percent(25, slots))
        /\ quota["allrounder"] = Least(table["allrounder"], Percent(22, slots))
        /\ quota["spinner"] = Least(table["spinner"], Percent(18, slots))
        /\ quota["wk"] = Least(table["wk"], Percent(10, slots))
    BY <1>1, <1>3 DEF RoleQuotas, RoleWeight, Roles
  <1>5. /\ Percent(25, slots) \in Nat /\ Percent(22, slots) \in Nat
        /\ Percent(18, slots) \in Nat /\ Percent(10, slots) \in Nat
        /\ Percent(25, slots) + Percent(25, slots) + Percent(22, slots)
             + Percent(18, slots) + Percent(10, slots) =< slots + 2
    BY QuotasBound
  <1>6. table["batter"] \in Nat /\ table["pacer"] \in Nat /\ table["allrounder"] \in Nat
         /\ table["spinner"] \in Nat /\ table["wk"] \in Nat
    BY <1>2 DEF Roles
  <1>7. /\ quota["batter"] \in Nat /\ quota["batter"] =< table["batter"]
        /\ quota["batter"] =< Percent(25, slots)
    BY <1>4, <1>5, <1>6 DEF Least
  <1>8. /\ quota["pacer"] \in Nat /\ quota["pacer"] =< table["pacer"]
        /\ quota["pacer"] =< Percent(25, slots)
    BY <1>4, <1>5, <1>6 DEF Least
  <1>9. /\ quota["allrounder"] \in Nat /\ quota["allrounder"] =< table["allrounder"]
        /\ quota["allrounder"] =< Percent(22, slots)
    BY <1>4, <1>5, <1>6 DEF Least
  <1>10. /\ quota["spinner"] \in Nat /\ quota["spinner"] =< table["spinner"]
        /\ quota["spinner"] =< Percent(18, slots)
    BY <1>4, <1>5, <1>6 DEF Least
  <1>11. /\ quota["wk"] \in Nat /\ quota["wk"] =< table["wk"]
         /\ quota["wk"] =< Percent(10, slots)
    BY <1>4, <1>5, <1>6 DEF Least
  <1>12. /\ InRoles(quota) \in Nat /\ InRoles(quota) =< InRoles(table)
         /\ InRoles(quota) =< slots + 2
    BY <1>5, <1>7, <1>8, <1>9, <1>10, <1>11, <1>6 DEF InRoles
  <1> QED
    BY <1>1, <1>3, <1>12

(* The passes after it, as numbers: of the target, the marquee players     *)
(* drawn first, the first pass, and the two supplies.                      *)
LEMMA PassesFit ==
  ASSUME NEW target \in Nat, NEW m \in 0 .. target, NEW q \in Nat,
         NEW marquee \in Nat, NEW all \in Nat,
         m =< marquee, q =< all, q =< target - m + 2
  PROVE  LET g == Most(q, Least(target - m, all))
             k == m + Least(Most(0, target - m - g), marquee - m)
         IN  /\ k \in 0 .. marquee /\ g \in 0 .. all
             /\ Least(target, marquee + all) =< k + g
             /\ k + g =< target + 2
  BY DEF Most, Least

(* queueManager.ts: for every number of managers and every table of        *)
(* players the pool draws nobody twice, reaches its target if the table    *)
(* has that many, and passes it by two at most.                            *)
THEOREM PoolAlwaysFits ==
  ASSUME NEW managers \in Nat, NEW table \in Table
  PROVE  PoolFits(managers, table)
  <1>1. PICK target \in Nat : target = CalculatePoolSize(managers)
    BY PoolSizeBounds
  <1>2. PICK m \in 0 .. target : m = MarqueeFirst(managers, table) /\ m =< table["marquee"]
    BY <1>1, MarqueeFirstBound
  <1>3. PICK q \in Nat : /\ q = InRoles(RoleQuotas(managers, table))
                         /\ q =< InRoles(table) /\ q =< target - m + 2
    BY <1>1, <1>2, FirstPass DEF RemainingSlots
  <1>4. table["marquee"] \in Nat /\ InRoles(table) \in Nat
    BY InRolesBound
  <1>5. GeneralCount(managers, table) = Most(q, Least(target - m, InRoles(table)))
    BY <1>1, <1>2, <1>3 DEF GeneralCount, RemainingSlots
  <1>6. MarqueeCount(managers, table) =
          m + Least(Most(0, target - m - GeneralCount(managers, table)), table["marquee"] - m)
    BY <1>1, <1>2 DEF MarqueeCount
  <1>7. PICK marquee \in Nat, all \in Nat :
           marquee = table["marquee"] /\ all = InRoles(table)
    BY <1>4
  <1>8. PICK g, k : g = GeneralCount(managers, table) /\ k = MarqueeCount(managers, table)
    OBVIOUS
  <1>9. /\ k \in 0 .. marquee /\ g \in 0 .. all
        /\ Least(target, marquee + all) =< k + g
        /\ k + g =< target + 2
    <2>1. /\ g = Most(q, Least(target - m, all))
          /\ k = m + Least(Most(0, target - m - g), marquee - m)
      BY <1>5, <1>6, <1>7, <1>8
    <2> QED
      BY <1>2, <1>3, <1>7, <2>1, PassesFit
  <1> QED
    BY <1>1, <1>7, <1>8, <1>9 DEF PoolFits, PoolSize

-----------------------------------------------------------------------------
(* Requests *)

Stages == Anything \cup {"idle"}

LEMMA RequestFields ==
  ASSUME NEW q \in Request
  PROVE  /\ q.at \in Stages
         /\ q.at = "idle" <=> q = Idle
         /\ q.at \in {"joining", "claiming"} => q.user \in Users
         /\ q.at = "claiming" => q.team \in Franchises
         /\ q.at \in {"claiming", "listing", "leaving", "left"} => q.host \in Users
         /\ q.at \in {"listing", "sending"} => q.leaver \in Users \cup {NoUser}
         /\ q.at \in {"leaving", "left"} => q.leaver \in Users
         /\ q.at = "sending" => q.roster \in Rosters
         /\ q.at \in {"checking", "activating", "leaving", "left"} => q.was \in Status
         /\ q.at \in {"checking", "activating"} => q = [at |-> q.at, was |-> q.was]
         /\ q.at = "left" => q.led \in BOOLEAN /\ q.heir \in Users \cup {NoUser}
  <1> USE DEF Stages, Anything, Idle
  <1>1. CASE q = Idle
    BY <1>1
  <1>2. CASE q \in [at : {"joining"}, user : Users]
    BY <1>2
  <1>3. CASE q \in [at : {"claiming"}, user : Users, team : Franchises, host : Users]
    BY <1>3
  <1>4. CASE q \in [at : {"listing"}, host : Users, leaver : Users \cup {NoUser}]
    BY <1>4
  <1>5. CASE q \in [at : {"sending"}, roster : Rosters, leaver : Users \cup {NoUser}]
    BY <1>5
  <1>6. CASE q \in [at : {"checking", "activating"}, was : Status]
    BY <1>6
  <1>7. CASE q \in [at : {"counting"}]
    BY <1>7
  <1>8. CASE q \in [at : {"leaving"}, leaver : Users, was : Status, host : Users]
    BY <1>8
  <1>9. CASE q \in [at : {"left"}, leaver : Users, was : Status, host : Users, led : BOOLEAN,
                    heir : Users \cup {NoUser}]
    BY <1>9
  <1> QED
    BY <1>1, <1>2, <1>3, <1>4, <1>5, <1>6, <1>7, <1>8, <1>9 DEF Request

(* A request of the program's is replaced.                                 *)
LEMMA Replaced ==
  ASSUME RoomInv, NEW r \in Requests, NEW q \in Request, Goto(r, q)
  PROVE  /\ request' \in [Requests -> Request] /\ request'[r] = q
         /\ \A s \in Requests : s # r => request'[s] = request[s]
  BY DEF RoomInv, TypeOK, Goto

LEMMA MemberUsers ==
  ASSUME RoomInv
  PROVE  Member \subseteq Users
  BY ElementOfSeq DEF RoomInv, TypeOK, Member

LEMMA RosterTyped ==
  ASSUME RoomInv, NEW crown \in Users
  PROVE  Roster(Member, crown) \in Rosters
  <1>1. Member \in SUBSET Users
    BY MemberUsers
  <1>2. Roster(Member, crown) \in [team : [Member -> Teams], crown : Users]
    BY <1>1 DEF Roster, RoomInv, TypeOK
  <1> QED
    BY <1>1, <1>2 DEF Rosters

(* The histories remember. *)
LEMMA Remembered ==
  ASSUME RoomInv, Remember
  PROVE  /\ crossed' \in BOOLEAN /\ raced' \in BOOLEAN
         /\ crossed => crossed'
         /\ raced => raced'
         /\ RaceSeen' /\ Alone'
  BY DEF RoomInv, TypeOK, Remember, RaceSeen, Alone, Race

(* A request acts alone until two have overlapped.                         *)
LEMMA AloneMeans ==
  ASSUME RoomInv, ~crossed, NEW r \in Requests, request[r] # Idle
  PROVE  \A s \in Requests : s # r => request[s] = Idle
  <1> SUFFICES ASSUME NEW s \in Requests, s # r PROVE request[s] = Idle
    OBVIOUS
  <1>1. request[r] \in Request /\ request[s] \in Request
    BY DEF RoomInv, TypeOK
  <1>2. request[r].at \in Anything
    BY <1>1, RequestFields DEF Stages
  <1>3. request[s].at \notin Anything
    BY <1>2 DEF RoomInv, Alone, Overlap
  <1> QED
    BY <1>1, <1>3, RequestFields DEF Stages

LEMMA RaceMeans ==
  ASSUME RoomInv, ~raced, NEW r \in Requests, request[r].at \in {"checking", "activating"}
  PROVE  \A s \in Requests : request[s].at \notin {"joining", "claiming"}
  BY DEF RoomInv, RaceSeen, Race, Overlap

(* An idle request carries nothing. *)
LEMMA IdleCarries ==
  /\ Idle \in Request /\ Idle.at = "idle"
  /\ Carries(Idle)
  BY DEF Request, Idle, Carries

-----------------------------------------------------------------------------
(* A new request: the room is as it was, but that its host may be back.    *)

LEMMA SpawnKeeps ==
  ASSUME RoomInv, Remember, NEW first \in Request, Spawn(first),
         status' = status \/ (status = "waiting_host" /\ status' = "active"),
         first.at \in {"joining", "claiming", "listing", "checking", "leaving"},
         first.at \in {"joining", "claiming"} => status = "lobby",
         first.at \in {"checking", "leaving"} => first.was = status,
         first.at \in {"claiming", "listing", "leaving"} => first.host = host,
         UNCHANGED <<host, members, franchise, queue, shown, emptied>>
  PROVE  RoomInv'
  <1> USE DEF RoomInv
  <1>1. PICK r \in Requests : request[r] = Idle /\ Goto(r, first)
    BY DEF Spawn
  <1>2. /\ request' \in [Requests -> Request] /\ request'[r] = first
        /\ \A s \in Requests : s # r => request'[s] = request[s]
    BY <1>1, Replaced
  <1>3. status \in Status /\ status' \in Status /\ (status' = "lobby" <=> status = "lobby")
    BY DEF TypeOK, Status
  <1>4. TypeOK'
    BY <1>2, <1>3, Remembered DEF TypeOK
  <1>5. Member' = Member
    BY DEF Member
  <1>6. HostIsMember' /\ Released'
    BY <1>5 DEF HostIsMember, Released
  <1>7. PastLobby'
    BY <1>2, <1>3 DEF PastLobby, At
  <1>8. Closed'
    BY <1>2, <1>3, Remembered DEF Closed
  <1>9. Ready'
    BY <1>2, <1>5, Remembered DEF Ready, Started
  <1>10. Carried'
    <2> SUFFICES ASSUME ~crossed', status' = "lobby" PROVE Carried'
      BY DEF Carried
    <2>1. ~crossed /\ status = "lobby" /\ request[r].at = "idle"
      BY <1>1, <1>3, Remembered, IdleCarries
    <2>2. Carries(first)'
      BY <2>1 DEF Carries
    <2>4. \A s \in Requests : Carries(request[s])'
      <3> TAKE s \in Requests
      <3>1. CASE s = r
        BY <1>2, <2>2, <3>1
      <3>2. CASE s # r
        <4>1. Carries(request[s])
          BY <2>1 DEF Carried
        <4> QED
          BY <1>2, <1>5, <3>2, <4>1 DEF Carries, Roster
      <3> QED
        BY <3>1, <3>2
    <2>5. (\A s \in Requests : request'[s].at \notin {"listing", "sending", "left"})
            => \A s \in Requests : request[s].at \notin {"listing", "sending", "left"}
      BY <1>2, <2>1
    <2>6. Agrees => Agrees'
      BY <1>5 DEF Agrees
    <2> QED
      BY <2>1, <2>4, <2>5, <2>6 DEF Carried
  <1> QED
    BY <1>4, <1>6, <1>7, <1>8, <1>9, <1>10, Remembered

-----------------------------------------------------------------------------
(* A request goes on to q, and acts alone if nothing has overlapped.       *)

LEMMA CarriedNext ==
  ASSUME RoomInv, Remember, NEW r \in Requests, request[r] # Idle,
         NEW q \in Request, Goto(r, q),
         status' = "lobby" => status = "lobby",
         ~crossed /\ status' = "lobby" => Carries(q)',
         ~crossed /\ status' = "lobby" /\ q.at \notin {"listing", "sending", "left"} => Agrees'
  PROVE  Carried'
  <1> SUFFICES ASSUME ~crossed', status' = "lobby" PROVE Carried'
    BY DEF Carried
  <1>1. /\ request' \in [Requests -> Request] /\ request'[r] = q
        /\ \A s \in Requests : s # r => request'[s] = request[s]
    BY Replaced
  <1>2. ~crossed
    BY Remembered
  <1>3. \A s \in Requests : s # r => request'[s] = Idle
    BY <1>1, <1>2, AloneMeans
  <1>4. Carries(Idle)'
    BY DEF Carries, Idle
  <1>5. \A s \in Requests : Carries(request[s])'
    <2> TAKE s \in Requests
    <2>1. CASE s = r
      BY <1>1, <1>2, <2>1
    <2>2. CASE s # r
      BY <1>3, <1>4, <2>2
    <2> QED
      BY <2>1, <2>2
  <1>6. (\A s \in Requests : request'[s].at \notin {"listing", "sending", "left"}) => Agrees'
    BY <1>1, <1>2
  <1> QED
    BY <1>5, <1>6 DEF Carried

LEMMA PastLobbyNext ==
  ASSUME RoomInv, NEW r \in Requests, NEW q \in Request, Goto(r, q),
         status' = "lobby" => status = "lobby",
         queue' # NoQueue => status' # "lobby",
         q.at = "counting" => status' # "lobby",
         q.at \in {"checking", "activating", "leaving", "left"} /\ q.was # "lobby"
            => status' # "lobby"
  PROVE  PastLobby'
  <1>1. /\ request'[r] = q
        /\ \A s \in Requests : s # r => request'[s] = request[s]
    BY Replaced
  <1>2. PastLobby
    BY DEF RoomInv
  <1> QED
    BY <1>1, <1>2 DEF PastLobby, At

(* Members, franchises, host and queue stay: List, Send, Check, Activate.  *)
LEMMA StaysNext ==
  ASSUME RoomInv, Remember, NEW r \in Requests, NEW q \in Request, Goto(r, q),
         UNCHANGED <<host, members, franchise, queue, emptied>>,
         status' \in Status, shown' \in Rosters,
         status' = "lobby" => status = "lobby",
         q.at \notin {"joining", "claiming"},
         ~raced /\ status' # "lobby" =>
            \A s \in Requests : request[s].at \in {"joining", "claiming"} => s = r,
         q.at \in {"activating", "counting"} /\ ~raced =>
            \A u \in Member : franchise[u] # NoFranchise,
         q.at = "counting" => status' # "lobby",
         q.at \in {"checking", "activating", "leaving", "left"} /\ q.was # "lobby"
            => status' # "lobby"
  PROVE  /\ TypeOK' /\ HostIsMember' /\ RaceSeen' /\ Alone' /\ PastLobby' /\ Closed'
         /\ Ready' /\ Released' /\ Member' = Member
  <1> USE DEF RoomInv
  <1>1. /\ request' \in [Requests -> Request] /\ request'[r] = q
        /\ \A s \in Requests : s # r => request'[s] = request[s]
    BY Replaced
  <1>2. TypeOK'
    BY <1>1, Remembered DEF TypeOK
  <1>3. Member' = Member
    BY DEF Member
  <1>4. HostIsMember' /\ Released'
    BY <1>3 DEF HostIsMember, Released
  <1>5. PastLobby'
    BY PastLobbyNext DEF PastLobby
  <1>6. Closed'
    BY <1>1, Remembered DEF Closed
  <1>7. Ready'
    BY <1>1, <1>3, Remembered DEF Ready, Started
  <1> QED
    BY <1>2, <1>3, <1>4, <1>5, <1>6, <1>7, Remembered

LEMMA ListKeeps ==
  ASSUME RoomInv, Remember, NEW r \in Requests, List(r)
  PROVE  RoomInv'
  <1>1. request[r] \in Request /\ request[r].at = "listing"
    BY DEF RoomInv, TypeOK, List, At
  <1>2. request[r].host \in Users /\ request[r].leaver \in Users \cup {NoUser}
    BY <1>1, RequestFields
  <1>3. PICK q \in Request : q = [at |-> "sending", leaver |-> request[r].leaver,
                                  roster |-> Roster(Member, request[r].host)]
    BY <1>2, RosterTyped DEF Request
  <1>4. Goto(r, q) /\ UNCHANGED <<room, queue, shown, emptied>> /\ request[r] # Idle
    BY <1>1, <1>3 DEF List, Idle
  <1>5. /\ TypeOK' /\ HostIsMember' /\ RaceSeen' /\ Alone' /\ PastLobby' /\ Closed'
        /\ Ready' /\ Released' /\ Member' = Member
    <2>1. q.at = "sending"
      BY <1>3
    <2>2. ~raced /\ status # "lobby" =>
             \A s \in Requests : request[s].at \notin {"joining", "claiming"}
      BY DEF RoomInv, Closed
    <2> QED
      BY <1>4, <2>1, <2>2, StaysNext DEF room, RoomInv, TypeOK
  <1>6. Carried'
    <2>1. ~crossed /\ status = "lobby" => request[r].host = host
      BY <1>1 DEF RoomInv, Carried, Carries
    <2>2. ~crossed /\ status = "lobby" => Carries(q)'
      BY <1>3, <1>4, <1>5, <2>1 DEF Carries, Roster, room
    <2> QED
      BY <1>3, <1>4, <2>2, CarriedNext DEF room
  <1> QED
    BY <1>5, <1>6 DEF RoomInv

LEMMA SendKeeps ==
  ASSUME RoomInv, Remember, NEW r \in Requests, Send(r)
  PROVE  RoomInv'
  <1>1. request[r] \in Request /\ request[r].at = "sending"
    BY DEF RoomInv, TypeOK, Send, At
  <1>2. request[r].roster \in Rosters
    BY <1>1, RequestFields
  <1>3. /\ Goto(r, Idle) /\ UNCHANGED <<room, queue, emptied>> /\ request[r] # Idle
        /\ shown' = request[r].roster
    BY <1>1 DEF Send, Idle
  <1>4. /\ TypeOK' /\ HostIsMember' /\ RaceSeen' /\ Alone' /\ PastLobby' /\ Closed'
        /\ Ready' /\ Released' /\ Member' = Member
    <2>1. ~raced /\ status # "lobby" =>
             \A s \in Requests : request[s].at \notin {"joining", "claiming"}
      BY DEF RoomInv, Closed
    <2> QED
      BY <1>2, <1>3, <2>1, IdleCarries, StaysNext DEF room, RoomInv, TypeOK
  <1>5. Carried'
    <2>1. ~crossed /\ status = "lobby" => shown' = Roster(Member, host)
      BY <1>1, <1>3 DEF RoomInv, Carried, Carries
    <2>2. ~crossed /\ status = "lobby" => Agrees'
      BY <1>3, <1>4, <2>1, MemberUsers DEF Agrees, Roster, room
    <2>3. Carries(Idle)'
      BY DEF Carries, Idle
    <2> QED
      BY <1>3, <2>2, <2>3, IdleCarries, CarriedNext DEF room
  <1> QED
    BY <1>4, <1>5 DEF RoomInv

(* allMembersHaveFranchise *)
LEMMA CheckKeeps ==
  ASSUME RoomInv, Remember, NEW r \in Requests, Check(r)
  PROVE  RoomInv'
  <1>1. request[r] \in Request /\ request[r].at = "checking" /\ request[r] # Idle
    BY DEF RoomInv, TypeOK, Check, At, Idle
  <1>2. request[r].was \in Status /\ request[r] = [at |-> "checking", was |-> request[r].was]
    BY <1>1, RequestFields
  <1>3. PICK q \in Request :
           /\ Goto(r, q)
           /\ \/ q = Idle
              \/ /\ q = [at |-> "activating", was |-> request[r].was]
                 /\ \A u \in Member : franchise[u] # NoFranchise
    <2>1. CASE \A u \in Member : franchise[u] # NoFranchise
      <3>1. Goto(r, [request[r] EXCEPT !.at = "activating"])
        BY <2>1 DEF Check
      <3>2. [request[r] EXCEPT !.at = "activating"] =
               [at |-> "activating", was |-> request[r].was]
        BY <1>2
      <3>3. [at |-> "activating", was |-> request[r].was] \in Request
        BY <1>2 DEF Request
      <3> QED
        BY <2>1, <3>1, <3>2, <3>3
    <2>2. CASE ~\A u \in Member : franchise[u] # NoFranchise
      BY <2>2, IdleCarries DEF Check
    <2> QED
      BY <2>1, <2>2
  <1>4. /\ UNCHANGED <<room, queue, shown, emptied>>
        /\ q.at \in {"idle", "activating"}
        /\ q.at = "activating" => /\ q.was = request[r].was
                                  /\ \A u \in Member : franchise[u] # NoFranchise
    BY <1>3, IdleCarries DEF Check
  <1>5. /\ TypeOK' /\ HostIsMember' /\ RaceSeen' /\ Alone' /\ PastLobby' /\ Closed'
        /\ Ready' /\ Released' /\ Member' = Member
    <2>1. ~raced /\ status # "lobby" =>
             \A s \in Requests : request[s].at \notin {"joining", "claiming"}
      BY DEF RoomInv, Closed
    <2>2. request[r].was # "lobby" => status # "lobby"
      BY <1>1 DEF RoomInv, PastLobby
    <2> QED
      BY <1>3, <1>4, <2>1, <2>2, StaysNext DEF room, RoomInv, TypeOK
  <1>6. Carried'
    <2>1. ~crossed /\ status = "lobby" => Agrees
      <3> SUFFICES ASSUME ~crossed, status = "lobby" PROVE Agrees
        OBVIOUS
      <3>1. \A s \in Requests : request[s].at \notin {"listing", "sending", "left"}
        BY <1>1, AloneMeans, IdleCarries
      <3> QED
        BY <3>1 DEF RoomInv, Carried
    <2>2. Agrees => Agrees'
      BY <1>4, <1>5 DEF Agrees, room
    <2>3. Carries(q)'
      BY <1>4 DEF Carries
    <2> QED
      BY <1>1, <1>3, <1>4, <2>1, <2>2, <2>3, CarriedNext DEF room
  <1> QED
    BY <1>5, <1>6 DEF RoomInv

LEMMA ActivateKeeps ==
  ASSUME RoomInv, Remember, NEW r \in Requests, Activate(r)
  PROVE  RoomInv'
  <1>1. /\ request[r] \in Request /\ request[r].at = "activating" /\ request[r] # Idle
        /\ UNCHANGED <<host, members, franchise, queue, shown, emptied>>
    BY DEF RoomInv, TypeOK, Activate, At, Idle
  <1>2. PICK q \in Request : q = [at |-> "counting"]
    BY DEF Request
  <1>3. Goto(r, q) /\ q.at = "counting"
    BY <1>2 DEF Activate
  <1>4. status' \in Status /\ status' # "lobby"
    BY <1>1 DEF Activate, RoomInv, TypeOK, Status, PastLobby
  <1>5. /\ TypeOK' /\ HostIsMember' /\ RaceSeen' /\ Alone' /\ PastLobby' /\ Closed'
        /\ Ready' /\ Released' /\ Member' = Member
    <2>1. ~raced => \A s \in Requests : request[s].at \notin {"joining", "claiming"}
      BY <1>1, RaceMeans
    <2>2. ~raced => \A u \in Member : franchise[u] # NoFranchise
      BY <1>1 DEF RoomInv, Ready, Started
    <2> QED
      BY <1>1, <1>3, <1>4, <2>1, <2>2, StaysNext DEF RoomInv, TypeOK
  <1>6. Carried'
    BY <1>4 DEF Carried
  <1> QED
    BY <1>5, <1>6 DEF RoomInv

(* initializeQueue, for the members there are                              *)
LEMMA StartEngineKeeps ==
  ASSUME RoomInv, Remember, NEW r \in Requests, StartEngine(r)
  PROVE  RoomInv'
  <1> USE DEF RoomInv
  <1>1. /\ request[r].at = "counting" /\ request[r] # Idle
        /\ queue' = Most(1, Len(members)) /\ Goto(r, Idle)
        /\ UNCHANGED <<room, shown, emptied>>
    BY DEF StartEngine, At, Idle
  <1>2. Idle \in Request /\ request' \in [Requests -> Request] /\ request'[r] = Idle
        /\ \A s \in Requests : s # r => request'[s] = request[s]
    BY <1>1, IdleCarries, Replaced
  <1>3. status # "lobby"
    BY <1>1 DEF PastLobby, At
  <1>4. queue' \in Nat
    BY <1>1 DEF Most, TypeOK
  <1>5. TypeOK'
    BY <1>1, <1>2, <1>4, Remembered DEF TypeOK, room
  <1>6. Member' = Member
    BY <1>1 DEF Member, room
  <1>7. HostIsMember' /\ Released'
    BY <1>1, <1>6 DEF HostIsMember, Released, room
  <1>8. PastLobby'
    BY <1>1, <1>2, <1>3, IdleCarries, PastLobbyNext DEF room
  <1>9. Closed'
    BY <1>1, <1>2, IdleCarries, Remembered DEF Closed, room
  <1>10. Ready'
    <2>1. ~raced => \A u \in Member : franchise[u] # NoFranchise
      BY <1>1 DEF Ready, Started
    <2> QED
      BY <1>1, <1>6, <2>1, Remembered DEF Ready, room
  <1>11. Carried'
    BY <1>1, <1>3 DEF Carried, room
  <1> QED
    BY <1>5, <1>7, <1>8, <1>9, <1>10, <1>11, Remembered

-----------------------------------------------------------------------------
(* The members and the franchises change: while no start has looked, or    *)
(* the history tells.                                                      *)

LEMMA NotStarted ==
  ASSUME RoomInv, ~raced, NEW r \in Requests, request[r].at \in {"joining", "claiming"}
  PROVE  status = "lobby" /\ ~Started
  <1> USE DEF RoomInv
  <1>1. status = "lobby"
    BY DEF Closed
  <1>2. queue = NoQueue
    BY <1>1 DEF PastLobby
  <1>3. \A s \in Requests : request[s].at \notin {"activating", "counting"}
    BY <1>1, RaceMeans DEF PastLobby, At
  <1> QED
    BY <1>1, <1>2, <1>3 DEF Started

(* ... and they agree with the pages, or are on their way there. *)
LEMMA AgreesAlone ==
  ASSUME RoomInv, ~crossed, status = "lobby", NEW r \in Requests,
         request[r] # Idle, request[r].at \notin {"listing", "sending", "left"}
  PROVE  Agrees
  <1>1. \A s \in Requests : request[s].at \notin {"listing", "sending", "left"}
    BY AloneMeans, IdleCarries
  <1> QED
    BY <1>1 DEF RoomInv, Carried

LEMMA Appended ==
  ASSUME RoomInv, NEW u \in Users, u \notin Member
  PROVE  \E list \in Seq(Users) :
            /\ list = Append(members, u)
            /\ {list[i] : i \in DOMAIN list} = Member \cup {u}
            /\ \A i, j \in DOMAIN list : list[i] = list[j] => i = j
  <1>1. PICK n \in Nat : n = Len(members) /\ DOMAIN members = 1 .. n
    BY DEF RoomInv, TypeOK
  <1>2. PICK list : list = Append(members, u)
    OBVIOUS
  <1>3. /\ list \in Seq(Users) /\ DOMAIN list = 1 .. n + 1
        /\ list[n + 1] = u /\ \A i \in 1 .. n : list[i] = members[i]
    BY <1>1, <1>2, AppendProperties DEF RoomInv, TypeOK
  <1>4. \A i \in 1 .. n : members[i] # u
    BY <1>1 DEF Member
  <1>5. \A i \in 1 .. n + 1 : i \in 1 .. n \/ i = n + 1
    BY <1>1
  <1>6. \A i, j \in DOMAIN list : list[i] = list[j] => i = j
    BY <1>1, <1>3, <1>4, <1>5 DEF RoomInv, TypeOK
  <1>7. {list[i] : i \in DOMAIN list} = Member \cup {u}
    <2>1. \A i \in DOMAIN list : list[i] \in Member \cup {u}
      BY <1>1, <1>3, <1>5 DEF Member
    <2>2. \A v \in Member \cup {u} : \E i \in DOMAIN list : list[i] = v
      <3>1. \E i \in DOMAIN list : list[i] = u
        BY <1>3
      <3>2. \A v \in Member : \E i \in DOMAIN list : list[i] = v
        BY <1>1, <1>3 DEF Member
      <3> QED
        BY <3>1, <3>2
    <2> QED
      BY <2>1, <2>2
  <1> QED
    BY <1>2, <1>3, <1>6, <1>7

(* addMemberToRoom *)
LEMMA AddKeeps ==
  ASSUME RoomInv, Remember, NEW r \in Requests, Add(r)
  PROVE  RoomInv'
  <1> USE DEF RoomInv
  <1>1. /\ request[r] \in Request /\ request[r].at = "joining" /\ request[r] # Idle
        /\ Goto(r, Idle)
        /\ UNCHANGED <<status, host, franchise, queue, shown, emptied>>
    BY DEF TypeOK, Add, At, Idle
  <1>2. PICK u \in Users : u = request[r].user
    BY <1>1, RequestFields
  <1>3. /\ members' \in Seq(Users) /\ Member' = Member \cup {u}
        /\ \A i, j \in DOMAIN members' : members'[i] = members'[j] => i = j
    <2>1. CASE u \in Member
      <3>1. members' = members
        BY <1>2, <2>1 DEF Add
      <3> QED
        BY <2>1, <3>1 DEF TypeOK, Member
    <2>2. CASE u \notin Member
      <3>1. PICK list \in Seq(Users) :
               /\ list = Append(members, u)
               /\ {list[i] : i \in DOMAIN list} = Member \cup {u}
               /\ \A i, j \in DOMAIN list : list[i] = list[j] => i = j
        BY <2>2, Appended
      <3>2. members' = list
        BY <1>2, <2>2, <3>1 DEF Add
      <3> QED
        BY <3>1, <3>2 DEF Member
    <2> QED
      BY <2>1, <2>2
  <1>4. /\ Idle \in Request /\ request' \in [Requests -> Request] /\ request'[r] = Idle
        /\ \A s \in Requests : s # r => request'[s] = request[s]
    BY <1>1, IdleCarries, Replaced
  <1>5. TypeOK'
    BY <1>1, <1>3, <1>4, Remembered DEF TypeOK
  <1>6. HostIsMember' /\ Released'
    BY <1>1, <1>3 DEF HostIsMember, Released
  <1>7. PastLobby'
    BY <1>1, <1>4, IdleCarries, PastLobbyNext DEF PastLobby
  <1>8. Closed'
    BY <1>1, <1>4, IdleCarries, Remembered DEF Closed
  <1>9. Ready'
    <2> SUFFICES ASSUME ~raced' PROVE Ready'
      BY DEF Ready
    <2>1. ~Started
      BY <1>1, NotStarted, Remembered
    <2>2. ~Started'
      BY <1>1, <1>4, <2>1, IdleCarries DEF Started
    <2> QED
      BY <2>2 DEF Ready, Started
  <1>10. Carried'
    <2>1. ~crossed /\ status = "lobby" => Agrees'
      <3> SUFFICES ASSUME ~crossed, status = "lobby" PROVE Agrees'
        OBVIOUS
      <3>1. Agrees
        BY <1>1, AgreesAlone
      <3>2. u \notin Member => franchise[u] = NoFranchise
        BY DEF Released
      <3> QED
        BY <1>1, <1>3, <3>1, <3>2 DEF Agrees
    <2>2. Carries(Idle)'
      BY DEF Carries, Idle
    <2> QED
      BY <1>1, <2>1, <2>2, IdleCarries, CarriedNext
  <1> QED
    BY <1>5, <1>6, <1>7, <1>8, <1>9, <1>10, Remembered

(* claimFranchise *)
LEMMA ClaimKeeps ==
  ASSUME RoomInv, Remember, NEW r \in Requests, Claim(r)
  PROVE  RoomInv'
  <1> USE DEF RoomInv
  <1>1. /\ request[r] \in Request /\ request[r].at = "claiming" /\ request[r] # Idle
        /\ UNCHANGED <<status, host, members, queue, shown, emptied>>
    BY DEF TypeOK, Claim, At, Idle
  <1>2. PICK u \in Users, f \in Franchises, h \in Users :
           u = request[r].user /\ f = request[r].team /\ h = request[r].host
    BY <1>1, RequestFields
  <1>3. PICK q \in Request :
           /\ Goto(r, q)
           /\ \/ /\ u \in Member /\ franchise[u] = NoFranchise
                 /\ franchise' = [franchise EXCEPT ![u] = f]
                 /\ q = [at |-> "listing", host |-> h, leaver |-> NoUser]
              \/ franchise' = franchise /\ q = Idle
    <2>1. CASE Claimable(u, f)
      <3>1. [at |-> "listing", host |-> h, leaver |-> NoUser] \in Request
        BY DEF Request
      <3> QED
        BY <1>2, <2>1, <3>1 DEF Claim, Claimable, Broadcast
    <2>2. CASE ~Claimable(u, f)
      BY <1>2, <2>2, IdleCarries DEF Claim
    <2> QED
      BY <2>1, <2>2
  <1>4. /\ request' \in [Requests -> Request] /\ request'[r] = q
        /\ \A s \in Requests : s # r => request'[s] = request[s]
        /\ q.at \in {"listing", "idle"}
        /\ q.at = "listing" => q.host = h
    BY <1>3, IdleCarries, Replaced
  <1>5. Member' = Member
    BY <1>1 DEF Member
  <1>6. TypeOK'
    BY <1>1, <1>3, <1>4, Remembered DEF TypeOK, Teams
  <1>7. HostIsMember' /\ Released'
    BY <1>1, <1>3, <1>5, MemberUsers DEF HostIsMember, Released, TypeOK
  <1>8. PastLobby'
    BY <1>1, <1>3, <1>4, PastLobbyNext DEF PastLobby
  <1>9. Closed'
    BY <1>1, <1>4, Remembered DEF Closed
  <1>10. Ready'
    <2> SUFFICES ASSUME ~raced' PROVE Ready'
      BY DEF Ready
    <2>1. ~Started
      BY <1>1, NotStarted, Remembered
    <2>2. ~Started'
      BY <1>1, <1>4, <2>1 DEF Started
    <2> QED
      BY <2>2 DEF Ready, Started
  <1>11. Carried'
    <2>1. ~crossed /\ status = "lobby" => h = host
      BY <1>1, <1>2 DEF Carried, Carries
    <2>2. ~crossed /\ status = "lobby" => Carries(q)'
      BY <1>1, <1>4, <2>1 DEF Carries
    <2>3. ~crossed /\ status = "lobby" /\ q.at # "listing" => Agrees'
      <3> SUFFICES ASSUME ~crossed, status = "lobby", q.at # "listing" PROVE Agrees'
        OBVIOUS
      <3>1. Agrees
        BY <1>1, AgreesAlone
      <3>2. franchise' = franchise
        BY <1>3
      <3> QED
        BY <1>1, <1>5, <3>1, <3>2 DEF Agrees
    <2> QED
      BY <1>1, <1>3, <2>2, <2>3, CarriedNext
  <1> QED
    BY <1>6, <1>7, <1>8, <1>9, <1>10, <1>11, Remembered

(* The row of a member goes. *)
Rest(u) ==
    LET row == CHOOSE i \in DOMAIN members : members[i] = u
    IN  [i \in 1 .. Len(members) - 1 |-> members[IF i < row THEN i ELSE i + 1]]

LEMMA RestOf ==
  ASSUME RoomInv, NEW u \in Member
  PROVE  \E list \in Seq(Users) :
            /\ list = Rest(u)
            /\ {list[i] : i \in DOMAIN list} = Member \ {u}
            /\ \A i, j \in DOMAIN list : list[i] = list[j] => i = j
            /\ list # <<>> => Head(list) \in Member \ {u}
  <1>1. PICK n \in Nat : n = Len(members) /\ DOMAIN members = 1 .. n
    BY DEF RoomInv, TypeOK
  <1>2. PICK row \in 1 .. n : /\ row = CHOOSE i \in DOMAIN members : members[i] = u
                              /\ members[row] = u
    BY <1>1 DEF Member
  <1>3. PICK list : list = Rest(u)
    OBVIOUS
  <1>4. list = [i \in 1 .. n - 1 |-> members[IF i < row THEN i ELSE i + 1]]
    BY <1>1, <1>2, <1>3 DEF Rest
  <1>5. \A i \in 1 .. n : members[i] \in Users
    BY <1>1 DEF RoomInv, TypeOK
  <1>6. \A i \in 1 .. n - 1 : /\ i < row => list[i] = members[i]
                              /\ ~(i < row) => list[i] = members[i + 1]
    BY <1>4
  <1>7. n - 1 \in Nat /\ list \in [1 .. n - 1 -> Users]
    <2>1. \A i \in 1 .. n - 1 : (IF i < row THEN i ELSE i + 1) \in 1 .. n
      BY <1>2
    <2> QED
      BY <1>2, <1>4, <1>5, <2>1
  <1>8. list \in Seq(Users) /\ DOMAIN list = 1 .. n - 1 /\ Len(list) = n - 1
    BY <1>7, SeqDef, LenProperties
  <1>9. \A i, j \in 1 .. n : members[i] = members[j] => i = j
    BY <1>1 DEF RoomInv, TypeOK
  <1>10. \A i, j \in DOMAIN list : list[i] = list[j] => i = j
    <2> SUFFICES ASSUME NEW i \in 1 .. n - 1, NEW j \in 1 .. n - 1, list[i] = list[j]
                 PROVE  i = j
      BY <1>8
    <2>1. CASE i < row /\ j < row
      BY <1>6, <1>9, <2>1
    <2>2. CASE ~(i < row) /\ ~(j < row)
      <3>1. i + 1 = j + 1
        BY <1>6, <1>9, <2>2
      <3> QED
        BY <3>1
    <2>3. CASE i < row /\ ~(j < row)
      <3>1. i = j + 1
        BY <1>6, <1>9, <2>3
      <3> QED
        BY <2>3, <3>1
    <2>4. CASE ~(i < row) /\ j < row
      <3>1. i + 1 = j
        BY <1>6, <1>9, <2>4
      <3> QED
        BY <2>4, <3>1
    <2> QED
      BY <2>1, <2>2, <2>3, <2>4
  <1>11. \A i \in 1 .. n - 1 : list[i] \in Member \ {u}
    <2> TAKE i \in 1 .. n - 1
    <2>1. CASE i < row
      <3>1. i \in 1 .. n /\ i # row
        BY <2>1
      <3> QED
        BY <1>1, <1>2, <1>6, <1>9, <2>1, <3>1 DEF Member
    <2>2. CASE ~(i < row)
      <3>1. i + 1 \in 1 .. n /\ i + 1 # row
        BY <2>2
      <3> QED
        BY <1>1, <1>2, <1>6, <1>9, <2>2, <3>1 DEF Member
    <2> QED
      BY <2>1, <2>2
  <1>12. \A v \in Member \ {u} : \E i \in 1 .. n - 1 : list[i] = v
    <2> TAKE v \in Member \ {u}
    <2>1. PICK k \in 1 .. n : members[k] = v /\ k # row
      BY <1>1, <1>2 DEF Member
    <2>2. CASE k < row
      <3>1. k \in 1 .. n - 1
        BY <2>2
      <3> QED
        BY <1>6, <2>1, <2>2, <3>1
    <2>3. CASE ~(k < row)
      <3>1. k - 1 \in 1 .. n - 1 /\ ~(k - 1 < row) /\ (k - 1) + 1 = k
        BY <1>2, <2>1, <2>3
      <3> QED
        BY <1>6, <2>1, <3>1
    <2> QED
      BY <2>2, <2>3
  <1>13. {list[i] : i \in DOMAIN list} = Member \ {u}
    BY <1>8, <1>11, <1>12
  <1>14. list # <<>> => Head(list) \in Member \ {u}
    <2> SUFFICES ASSUME list # <<>> PROVE Head(list) \in Member \ {u}
      OBVIOUS
    <2>1. n - 1 # 0
      BY <1>8
    <2>2. 1 \in 1 .. n - 1
      BY <1>7, <2>1
    <2>3. Head(list) = list[1]
      BY <1>8
    <2> QED
      BY <1>11, <2>2, <2>3
  <1> QED
    BY <1>3, <1>8, <1>10, <1>13, <1>14

LEMMA RemoveKeeps ==
  ASSUME RoomInv, Remember, NEW r \in Requests, Remove(r)
  PROVE  RoomInv'
  <1> USE DEF RoomInv
  <1>1. /\ request[r] \in Request /\ request[r].at = "leaving" /\ request[r] # Idle
        /\ UNCHANGED <<status, queue, shown>>
    BY DEF TypeOK, Remove, RemoveFrom, At, Idle
  <1>2. PICK u \in Users, was \in Status, h \in Users :
           u = request[r].leaver /\ was = request[r].was /\ h = request[r].host
    BY <1>1, RequestFields
  <1>3. PICK heir \in Users \cup {NoUser}, led \in BOOLEAN, q \in Request :
           /\ q = [at |-> "left", leaver |-> u, was |-> was, host |-> h, led |-> led,
                   heir |-> heir]
           /\ Goto(r, q)
           /\ host' = IF heir = NoUser THEN host ELSE heir
           /\ \/ /\ UNCHANGED <<members, franchise, emptied>> /\ heir = NoUser
              \/ /\ status = "lobby" /\ u \in Member /\ members' = Rest(u)
                 /\ franchise' = [franchise EXCEPT ![u] = NoFranchise]
                 /\ emptied' = (emptied \/ Rest(u) = <<>>)
                 /\ heir = IF host = u /\ Rest(u) # <<>> THEN Head(Rest(u)) ELSE NoUser
    <2>1. CASE status = "lobby" /\ u \in Member
      <3>1. PICK heir : heir = IF host = u /\ Rest(u) # <<>> THEN Head(Rest(u)) ELSE NoUser
        OBVIOUS
      <3>2. heir \in Users \cup {NoUser}
        BY <2>1, <3>1, RestOf, MemberUsers
      <3>3. [at |-> "left", leaver |-> u, was |-> was, host |-> h, led |-> host = u,
             heir |-> heir] \in Request
        BY <3>2 DEF Request
      <3>4. /\ Goto(r, [at |-> "left", leaver |-> u, was |-> was, host |-> h,
                        led |-> host = u, heir |-> heir])
            /\ host' = IF heir = NoUser THEN host ELSE heir
            /\ members' = Rest(u)
            /\ franchise' = [franchise EXCEPT ![u] = NoFranchise]
            /\ emptied' = (emptied \/ Rest(u) = <<>>)
        BY <1>2, <2>1, <3>1 DEF Remove, RemoveFrom, Rest
      <3> QED
        BY <2>1, <3>1, <3>2, <3>3, <3>4
    <2>2. CASE ~(status = "lobby" /\ u \in Member)
      <3>1. [at |-> "left", leaver |-> u, was |-> was, host |-> h, led |-> host = u,
             heir |-> NoUser] \in Request
        BY DEF Request
      <3>2. /\ Goto(r, [at |-> "left", leaver |-> u, was |-> was, host |-> h,
                        led |-> host = u, heir |-> NoUser])
            /\ host' = host /\ UNCHANGED <<members, franchise, emptied>>
        BY <1>2, <2>2 DEF Remove, RemoveFrom
      <3> QED
        BY <3>1, <3>2
    <2> QED
      BY <2>1, <2>2
  <1>4. /\ request' \in [Requests -> Request] /\ request'[r] = q
        /\ \A s \in Requests : s # r => request'[s] = request[s]
        /\ q.at = "left" /\ q.was = was /\ q.host = h /\ q.heir = heir
    BY <1>3, Replaced
  <1>5. NoUser \notin Users
    BY RoomAssumption
  <1>6. /\ members' \in Seq(Users)
        /\ \A i, j \in DOMAIN members' : members'[i] = members'[j] => i = j
        /\ Member' \subseteq Member
        /\ franchise' \in [Users -> Teams]
        /\ \A v \in Member' : franchise'[v] = franchise[v]
        /\ \A v \in Users : v \notin Member' => franchise'[v] = NoFranchise
        /\ emptied' \in BOOLEAN
        /\ host' \in Users /\ (emptied' \/ host' \in Member')
        /\ status # "lobby" => UNCHANGED <<members, franchise>> /\ Member' = Member
    <2>1. CASE UNCHANGED <<members, franchise, emptied>> /\ heir = NoUser
      <3>1. Member' = Member
        BY <2>1 DEF Member
      <3> QED
        BY <1>3, <2>1, <3>1 DEF TypeOK, HostIsMember, Released
    <2>2. CASE /\ status = "lobby" /\ u \in Member /\ members' = Rest(u)
               /\ franchise' = [franchise EXCEPT ![u] = NoFranchise]
               /\ emptied' = (emptied \/ Rest(u) = <<>>)
               /\ heir = IF host = u /\ Rest(u) # <<>> THEN Head(Rest(u)) ELSE NoUser
      <3>1. PICK list \in Seq(Users) :
               /\ list = Rest(u)
               /\ {list[i] : i \in DOMAIN list} = Member \ {u}
               /\ \A i, j \in DOMAIN list : list[i] = list[j] => i = j
               /\ list # <<>> => Head(list) \in Member \ {u}
        BY <2>2, RestOf
      <3>2. members' = list /\ emptied' = (emptied \/ list = <<>>)
        BY <2>2, <3>1
      <3>3. Member' = Member \ {u}
        <4>1. Member' = {list[i] : i \in DOMAIN list}
          BY <3>2 DEF Member
        <4> QED
          BY <3>1, <4>1
      <3>4. /\ franchise' \in [Users -> Teams]
            /\ \A v \in Member' : franchise'[v] = franchise[v]
            /\ \A v \in Users : v \notin Member' => franchise'[v] = NoFranchise
        BY <2>2, <3>3, MemberUsers DEF TypeOK, Teams, Released
      <3>5. host' \in Users /\ (emptied' \/ host' \in Member')
        <4>1. CASE host = u /\ list # <<>>
          <5>1. heir = Head(list)
            BY <2>2, <3>1, <4>1
          <5>2. heir \in Member \ {u} /\ heir \in Users
            BY <3>1, <4>1, <5>1, MemberUsers
          <5> QED
            BY <1>3, <1>5, <3>3, <5>2
        <4>2. CASE ~(host = u /\ list # <<>>)
          <5>1. heir = NoUser
            BY <2>2, <3>1, <4>2
          <5>2. host' = host /\ host \in Users
            BY <1>3, <5>1 DEF TypeOK
          <5> QED
            BY <3>2, <3>3, <4>2, <5>2 DEF HostIsMember, TypeOK
        <4> QED
          BY <4>1, <4>2
      <3> QED
        BY <2>2, <3>1, <3>2, <3>3, <3>4, <3>5 DEF TypeOK
    <2> QED
      BY <1>3, <2>1, <2>2
  <1>7. TypeOK'
    BY <1>1, <1>4, <1>6, Remembered DEF TypeOK
  <1>8. HostIsMember' /\ Released'
    BY <1>6 DEF HostIsMember, Released
  <1>9. PastLobby'
    <2>1. was # "lobby" => status # "lobby"
      BY <1>1, <1>2 DEF PastLobby
    <2> QED
      BY <1>1, <1>3, <1>4, <2>1, PastLobbyNext DEF PastLobby
  <1>10. Closed'
    BY <1>1, <1>4, Remembered DEF Closed
  <1>11. Ready'
    <2> SUFFICES ASSUME ~raced' PROVE Ready'
      BY DEF Ready
    <2>1. ~raced /\ queue' = queue
      BY <1>1, Remembered
    <2>2. Started' => Started
      BY <1>1, <1>4 DEF Started
    <2>3. Started => \A v \in Member' : franchise'[v] # NoFranchise
      BY <1>6, <2>1 DEF Ready
    <2>4. queue # NoQueue => queue = Most(1, Len(members'))
      BY <1>6, <2>1 DEF Ready, PastLobby
    <2> QED
      BY <2>1, <2>2, <2>3, <2>4 DEF Ready
  <1>12. Carried'
    <2>1. ~crossed /\ status = "lobby" => was = "lobby" /\ h = host
      BY <1>1, <1>2 DEF Carried, Carries
    <2>2. ~crossed /\ status = "lobby" => Carries(q)'
      BY <1>3, <1>4, <2>1 DEF Carries
    <2> QED
      BY <1>1, <1>3, <1>4, <2>2, CarriedNext
  <1> QED
    BY <1>7, <1>8, <1>9, <1>10, <1>11, <1>12, Remembered

(* user_left, and the list or the dead-man switch                          *)
LEMMA FarewellKeeps ==
  ASSUME RoomInv, Remember, NEW r \in Requests, Farewell(r)
  PROVE  RoomInv'
  <1>1. /\ request[r] \in Request /\ request[r].at = "left" /\ request[r] # Idle
        /\ UNCHANGED <<host, members, franchise, queue, emptied>>
    BY DEF RoomInv, TypeOK, Farewell, At, Idle
  <1>2. PICK u \in Users, was \in Status, h \in Users, heir \in Users \cup {NoUser} :
           /\ u = request[r].leaver /\ was = request[r].was /\ h = request[r].host
           /\ heir = request[r].heir
    BY <1>1, RequestFields
  <1>3. PICK c \in Users, d \in Users :
           /\ c = IF heir = NoUser THEN h ELSE heir
           /\ d = IF heir = NoUser THEN shown.crown ELSE heir
    BY DEF RoomInv, TypeOK, Rosters
  <1>4. PICK q \in Request :
           /\ Goto(r, q)
           /\ q = IF was = "lobby" THEN [at |-> "listing", host |-> c, leaver |-> u] ELSE Idle
    <2>1. [at |-> "listing", host |-> c, leaver |-> u] \in Request
      BY DEF Request
    <2>2. Goto(r, IF was = "lobby" THEN [at |-> "listing", host |-> c, leaver |-> u] ELSE Idle)
      BY <1>2, <1>3 DEF Farewell, Broadcast
    <2> QED
      BY <2>1, <2>2, IdleCarries
  <1>5. shown' \in Rosters
    <2>1. PICK who \in SUBSET Users : shown \in [team : [who -> Teams], crown : Users]
      BY DEF RoomInv, TypeOK, Rosters
    <2>2. PICK others : others = DOMAIN shown.team \ {u}
      OBVIOUS
    <2>3. others \in SUBSET Users /\ [v \in others |-> shown.team[v]] \in [others -> Teams]
      BY <2>1, <2>2
    <2>4. shown' = [team |-> [v \in others |-> shown.team[v]], crown |-> d]
      BY <1>2, <1>3, <2>2 DEF Farewell
    <2> QED
      BY <2>3, <2>4 DEF Rosters
  <1>6. /\ status' \in Status /\ (status' = "lobby" <=> status = "lobby")
    BY DEF Farewell, RoomInv, TypeOK, Status
  <1>7. q.at \in {"listing", "idle"} /\ (q.at = "listing" => q.host = c)
        /\ (was = "lobby" => q.at = "listing")
    BY <1>4, IdleCarries
  <1>8. /\ TypeOK' /\ HostIsMember' /\ RaceSeen' /\ Alone' /\ PastLobby' /\ Closed'
        /\ Ready' /\ Released' /\ Member' = Member
    <2>1. ~raced /\ status # "lobby" =>
             \A s \in Requests : request[s].at \notin {"joining", "claiming"}
      BY DEF RoomInv, Closed
    <2> QED
      BY <1>1, <1>4, <1>5, <1>6, <1>7, <2>1, StaysNext
  <1>9. Carried'
    <2>1. ~crossed /\ status = "lobby" => was = "lobby" /\ c = host
      BY <1>1, <1>2, <1>3 DEF RoomInv, Carried, Carries
    <2>2. ~crossed /\ status = "lobby" => Carries(q)'
      BY <1>1, <1>7, <2>1 DEF Carries
    <2> QED
      BY <1>1, <1>4, <1>6, <1>7, <2>1, <2>2, CarriedNext
  <1> QED
    BY <1>8, <1>9 DEF RoomInv

(* The moves of the auction *)
LEMMA AuctionKeeps ==
  ASSUME RoomInv, Remember, Auction
  PROVE  RoomInv'
  <1> USE DEF RoomInv
  <1>1. /\ UNCHANGED <<host, members, franchise, queue, request, shown, emptied>>
        /\ status \notin {"lobby"} /\ status' \in Status /\ status' # "lobby"
    BY DEF Auction, HostLost, HostTimeout, EndAuction, Status
  <1>2. Member' = Member
    BY <1>1 DEF Member
  <1>3. TypeOK' /\ HostIsMember' /\ Released'
    BY <1>1, <1>2, Remembered DEF TypeOK, HostIsMember, Released
  <1>4. PastLobby' /\ Closed'
    BY <1>1, Remembered DEF PastLobby, Closed, At
  <1>5. Ready'
    BY <1>1, <1>2, Remembered DEF Ready, Started
  <1>6. Carried'
    BY <1>1 DEF Carried
  <1> QED
    BY <1>3, <1>4, <1>5, <1>6, Remembered

-----------------------------------------------------------------------------
LEMMA UserStepKeeps ==
  ASSUME RoomInv, Remember, NEW u \in Users, UserStep(u)
  PROVE  RoomInv'
  <1>1. host \in Users /\ status \in Status
    BY DEF RoomInv, TypeOK
  <1>2. CASE Join(u)
    <2>1. PICK q \in Request : q = [at |-> "joining", user |-> u]
      BY DEF Request
    <2>2. Spawn(q) /\ status = "lobby" /\ q.at = "joining"
      BY <1>2, <2>1 DEF Join
    <2> QED
      BY <1>2, <2>2, SpawnKeeps DEF Join, room
  <1>3. CASE Enter(u)
    <2>1. PICK q \in Request : q = [at |-> "listing", host |-> host, leaver |-> NoUser]
      BY <1>1 DEF Request
    <2>2. Spawn(q) /\ q.at = "listing" /\ q.host = host
      BY <1>3, <2>1 DEF Enter, Broadcast
    <2>3. /\ status' = status \/ (status = "waiting_host" /\ status' = "active")
          /\ UNCHANGED <<host, members, franchise, queue, shown, emptied>>
      BY <1>3 DEF Enter
    <2> QED
      BY <2>2, <2>3, SpawnKeeps
  <1>4. CASE Load(u)
    <2>1. PICK q \in Request : q = [at |-> "listing", host |-> host, leaver |-> NoUser]
      BY <1>1 DEF Request
    <2>2. Spawn(q) /\ q.at = "listing" /\ q.host = host
      BY <1>4, <2>1 DEF Load, Broadcast
    <2> QED
      BY <1>4, <2>2, SpawnKeeps DEF Load, room
  <1>5. CASE Leave(u)
    <2>1. PICK q \in Request :
             q = [at |-> "leaving", leaver |-> u, was |-> status, host |-> host]
      BY <1>1 DEF Request
    <2>2. Spawn(q) /\ q.at = "leaving" /\ q.was = status /\ q.host = host
      BY <1>5, <2>1 DEF Leave
    <2> QED
      BY <1>5, <2>2, SpawnKeeps DEF Leave, room
  <1>6. ASSUME NEW f \in Franchises, Select(u, f)
        PROVE  RoomInv'
    <2>1. PICK q \in Request :
             q = [at |-> "claiming", user |-> u, team |-> f, host |-> host]
      BY <1>1 DEF Request
    <2>2. Spawn(q) /\ status = "lobby" /\ q.at = "claiming" /\ q.host = host
      BY <1>6, <2>1 DEF Select
    <2> QED
      BY <1>6, <2>2, SpawnKeeps DEF Select, room
  <1> QED
    BY <1>2, <1>3, <1>4, <1>5, <1>6 DEF UserStep

LEMMA StartKeeps ==
  ASSUME RoomInv, Remember, Start
  PROVE  RoomInv'
  <1>1. PICK q \in Request : q = [at |-> "checking", was |-> status]
    BY DEF Request, RoomInv, TypeOK
  <1>2. Spawn(q) /\ q.at = "checking" /\ q.was = status
    BY <1>1 DEF Start
  <1> QED
    BY <1>2, SpawnKeeps DEF Start, room

LEMMA StutterKeeps ==
  ASSUME RoomInv, UNCHANGED vars
  PROVE  RoomInv'
  <1> USE DEF RoomInv, vars, room
  <1>1. Member' = Member
    BY DEF Member
  <1>2. TypeOK' /\ HostIsMember' /\ Released'
    BY <1>1 DEF TypeOK, HostIsMember, Released
  <1>3. RaceSeen' /\ Alone'
    BY DEF RaceSeen, Alone, Race, Overlap
  <1>4. PastLobby' /\ Closed'
    BY DEF PastLobby, Closed, At
  <1>5. Ready'
    BY <1>1 DEF Ready, Started
  <1>6. Carried'
    BY <1>1 DEF Carried, Agrees, Carries, Roster
  <1> QED
    BY <1>2, <1>3, <1>4, <1>5, <1>6

LEMMA StepKeeps ==
  ASSUME RoomInv, [Next]_vars
  PROVE  RoomInv'
  <1>1. ASSUME NEW r \in Requests, RequestStep(r), Remember
        PROVE  RoomInv'
    BY <1>1, AddKeeps, ListKeeps, SendKeeps, ClaimKeeps, CheckKeeps, ActivateKeeps,
       StartEngineKeeps, RemoveKeeps, FarewellKeeps DEF RequestStep
  <1> QED
    BY <1>1, UserStepKeeps, StartKeeps, AuctionKeeps, StutterKeeps DEF Next

LEMMA InitHolds ==
  ASSUME Init
  PROVE  RoomInv
  <1> USE DEF RoomInv
  <1>1. /\ Member = {host} /\ host \in Users
        /\ members \in Seq(Users) /\ DOMAIN members = {1} /\ members[1] = host
    BY DEF Init, Member
  <1>2. \A r \in Requests : request[r] = Idle /\ request[r].at = "idle"
    BY DEF Init, Idle
  <1>3. shown \in Rosters
    <2>1. [v \in {host} |-> franchise[v]] \in [{host} -> Teams]
      BY <1>1 DEF Init, Teams
    <2> QED
      BY <1>1, <2>1 DEF Init, Roster, Rosters
  <1>4. TypeOK
    BY <1>1, <1>3 DEF Init, TypeOK, Status, Teams, Request
  <1>5. HostIsMember /\ Released
    BY <1>1 DEF Init, HostIsMember, Released
  <1>6. RaceSeen /\ Alone
    BY <1>2 DEF RaceSeen, Alone, Race, Overlap, Anything
  <1>7. PastLobby /\ Closed
    BY <1>2 DEF Init, PastLobby, Closed, At
  <1>8. Ready
    BY <1>2 DEF Init, Ready, Started
  <1>9. Carried
    <2>1. Agrees
      BY <1>1 DEF Init, Agrees, Roster
    <2>2. \A r \in Requests : Carries(request[r])
      BY <1>2 DEF Carries
    <2> QED
      BY <2>1, <2>2 DEF Carried
  <1> QED
    BY <1>4, <1>5, <1>6, <1>7, <1>8, <1>9

LEMMA RoomInvariant == Spec => []RoomInv
  <1> QED
    BY InitHolds, StepKeeps, PTL DEF Spec

(* A room's state is of the type its tables and pages give it              *)
(* (002_auction_tables.sql, room.types.ts), and no user is a member twice. *)
THEOREM RoomTyped == Spec => []TypeOK
  <1> QED
    BY RoomInvariant, PTL DEF RoomInv

(* teardown and succession: the host is a member of the room, whoever      *)
(* leaves while whoever joins.                                             *)
THEOREM HostStaysMember == Spec => []HostIsMember
  <1> QED
    BY RoomInvariant, PTL DEF RoomInv

(* The members and their franchises are fixed once the lobby is closed.    *)
THEOREM RosterStaysFixed == Spec => RosterFixed
  <1>1. ASSUME RoomInv, [Next]_vars, status # "lobby", ~raced
        PROVE  UNCHANGED <<members, franchise>>
    <2>1. \A r \in Requests : request[r].at \notin {"joining", "claiming"}
      BY <1>1 DEF RoomInv, Closed
    <2>2. ASSUME NEW r \in Requests, RequestStep(r)
          PROVE  UNCHANGED <<members, franchise>>
      <3>1. ~Add(r) /\ ~Claim(r)
        BY <2>1 DEF Add, Claim, At
      <3>2. Remove(r) => UNCHANGED <<members, franchise>>
        BY <1>1 DEF Remove, RemoveFrom
      <3> QED
        BY <2>2, <3>1, <3>2
        DEF RequestStep, List, Send, Check, Activate, StartEngine, Farewell, room
    <2>3. ASSUME NEW u \in Users, UserStep(u)
          PROVE  UNCHANGED <<members, franchise>>
      BY <2>3 DEF UserStep, Join, Enter, Load, Leave, Select, room
    <2>4. Start \/ Auction => UNCHANGED <<members, franchise>>
      BY DEF Start, Auction, HostLost, HostTimeout, EndAuction, room
    <2> QED
      BY <1>1, <2>2, <2>3, <2>4 DEF Next, vars, room
  <1>2. RoomInv /\ [Next]_vars =>
           [status # "lobby" /\ ~raced => UNCHANGED <<members, franchise>>]_vars
    BY <1>1
  <1> QED
    BY <1>2, RoomInvariant, PTL DEF Spec, RosterFixed

(* room:start_auction: an auction has a franchise for every manager and a  *)
(* queue for as many managers, which fits any table of players.            *)
THEOREM StartsForRoster == Spec => []StartedForRoster
  <1>1. ASSUME RoomInv
        PROVE  StartedForRoster
    <2> SUFFICES ASSUME queue # NoQueue, ~raced
                 PROVE  /\ \A u \in Member : franchise[u] # NoFranchise
                        /\ queue = Most(1, Len(members))
                        /\ \A t \in Tables : PoolFits(queue, t)
      BY DEF StartedForRoster
    <2>1. queue \in Nat
      BY <1>1 DEF RoomInv, TypeOK
    <2>2. \A t \in Tables : PoolFits(queue, t)
      BY <2>1, PoolAlwaysFits, RoomAssumption
    <2> QED
      BY <1>1, <2>2 DEF RoomInv, Ready, Started
  <1> QED
    BY <1>1, RoomInvariant, PTL

(* room:participants_updated: the pages of a lobby show its roster and its *)
(* host, as long as no two requests have overlapped.                       *)
THEOREM LobbyIsShown == Spec => []LobbyShown
  <1>1. ASSUME RoomInv
        PROVE  LobbyShown
    <2> SUFFICES ASSUME Quiet, ~crossed, status = "lobby"
                 PROVE  Agrees
      BY DEF LobbyShown, Agrees
    <2>1. \A r \in Requests : request[r].at = "idle"
      BY DEF Quiet, Idle
    <2> QED
      BY <1>1, <2>1 DEF RoomInv, Carried
  <1> QED
    BY <1>1, RoomInvariant, PTL
=============================================================================
