---------------------------- MODULE RoomLifecycle ----------------------------
(***************************************************************************)
(* A room from its creation to its end: who its members are, which         *)
(* franchise each has, who its host is, and when its auction starts.       *)
(*                                                                         *)
(* Requests are HTTP calls and socket events.  Each one reads the room,    *)
(* awaits, and then acts on what it read; they interleave at these awaits. *)
(* shown is what a lobby page, open since the room was created and loaded  *)
(* again at times, makes of the broadcasts.  Of the auction only the moves *)
(* of the room's status are here (HostDeadMan and AuctionFloor have the    *)
(* rest).                                                                  *)
(*                                                                         *)
(* Two history variables: crossed, that two requests have overlapped;      *)
(* raced, that a start was checking the members while another request was  *)
(* about to change them.                                                   *)
(***************************************************************************)
EXTENDS PlayerPool, Sequences

CONSTANTS
    Users,
    Franchises,
    NoFranchise,
    NoUser,
    NoQueue,
    MaxRequests,     \* requests that may be under way at once
    Tables           \* tables of players the database may hold

ASSUME RoomAssumption ==
    /\ NoFranchise \notin Franchises /\ NoUser \notin Users
    /\ MaxRequests \in Nat \ {0}
    /\ NoQueue \notin Nat
    /\ Tables \subseteq Table

Requests == 1 .. MaxRequests

VARIABLES
    status,          \* rooms.status
    host,            \* rooms.host_user_id
    members,         \* users in room_members, by joined_at
    franchise,       \* room_members.franchise
    queue,           \* the number of managers the queue was computed for
    request,
    shown,           \* participants on an open lobby page
    emptied,         \* history: the last member has left
    crossed,         \* history
    raced            \* history

room == <<status, host, members, franchise>>
vars == <<room, queue, request, shown, emptied, crossed, raced>>

Status == {"lobby", "active", "waiting_host", "completed", "terminated"}

Teams == Franchises \cup {NoFranchise}

(* LobbyParticipant[]: the team of each participant, and who has the crown *)
Roster(who, crown) == [team |-> [u \in who |-> franchise[u]], crown |-> crown]

Rosters == UNION {[team : [who -> Teams], crown : Users] : who \in SUBSET Users}

Idle == [at |-> "idle"]

Request ==
    {Idle}
    \cup [at : {"joining"}, user : Users]
    \cup [at : {"claiming"}, user : Users, team : Franchises, host : Users]
    \cup [at : {"listing"}, host : Users, leaver : Users \cup {NoUser}]
    \cup [at : {"sending"}, roster : Rosters, leaver : Users \cup {NoUser}]
    \cup [at : {"checking", "activating"}, was : Status]
    \cup [at : {"counting"}]
    \cup [at : {"leaving"}, leaver : Users, was : Status, host : Users]
    \cup [at : {"left"}, leaver : Users, was : Status, host : Users, led : BOOLEAN,
          heir : Users \cup {NoUser}]

Member == {members[i] : i \in DOMAIN members}

TypeOK ==
    /\ status \in Status
    /\ host \in Users
    /\ members \in Seq(Users)
    /\ \A i, j \in DOMAIN members : members[i] = members[j] => i = j
    /\ franchise \in [Users -> Teams]
    /\ queue \in Nat \cup {NoQueue}
    /\ request \in [Requests -> Request]
    /\ shown \in Rosters
    /\ emptied \in BOOLEAN /\ crossed \in BOOLEAN /\ raced \in BOOLEAN

(* createRoom *)
Init ==
    /\ status = "lobby"
    /\ host \in Users
    /\ members = <<host>>
    /\ franchise = [u \in Users |-> NoFranchise]
    /\ queue = NoQueue
    /\ request = [r \in Requests |-> Idle]
    /\ shown = Roster({host}, host)
    /\ emptied = FALSE /\ crossed = FALSE /\ raced = FALSE

-----------------------------------------------------------------------------
At(r, place) == request[r].at = place

Goto(r, next) == request' = [request EXCEPT ![r] = next]

(* A new request takes the first free place: the places are interchangeable. *)
Spawn(first) ==
    \E r \in Requests :
        /\ request[r] = Idle
        /\ \A s \in 1 .. r - 1 : request[s] # Idle
        /\ Goto(r, first)

Quiet == \A r \in Requests : request[r] = Idle

(* The broadcast of a list read from the database *)
Broadcast(crown, leaver) == [at |-> "listing", host |-> crown, leaver |-> leaver]

-----------------------------------------------------------------------------
(* POST /rooms/join *)

Join(u) ==
    /\ status = "lobby" /\ u \notin Member
    /\ Spawn([at |-> "joining", user |-> u])
    /\ UNCHANGED <<room, queue, shown, emptied>>

(* Fault: a repeated insert is not ignored. *)
AddTwice(r) ==
    /\ At(r, "joining")
    /\ members' = Append(members, request[r].user)
    /\ Goto(r, Idle)
    /\ UNCHANGED <<status, host, franchise, queue, shown, emptied>>

(* addMemberToRoom.  Nothing is broadcast: that is up to room:join. *)
Add(r) ==
    /\ At(r, "joining")
    /\ members' = IF request[r].user \in Member THEN members
                  ELSE Append(members, request[r].user)
    /\ Goto(r, Idle)
    /\ UNCHANGED <<status, host, franchise, queue, shown, emptied>>

(* room:join, when a page of the room opens: the host of a waiting room    *)
(* brings it back, and everybody is sent the list.                         *)
Enter(u) ==
    /\ u \in Member
    /\ status' = IF status = "waiting_host" /\ u = host THEN "active" ELSE status
    /\ Spawn(Broadcast(host, NoUser))
    /\ UNCHANGED <<host, members, franchise, queue, shown, emptied>>

(* GET /rooms/:code, when the page is loaded again: the room, whether the  *)
(* user is a member, and then the list, for this page alone                *)
Load(u) ==
    /\ u \in Member
    /\ Spawn(Broadcast(host, NoUser))
    /\ UNCHANGED <<room, queue, shown, emptied>>

(* buildParticipantList, or the list at the end of a teardown ... *)
List(r) ==
    /\ At(r, "listing")
    /\ Goto(r, [at |-> "sending", leaver |-> request[r].leaver,
                roster |-> Roster(Member, request[r].host)])
    /\ UNCHANGED <<room, queue, shown, emptied>>

(* ... which the pages take over as it is. *)
Send(r) ==
    /\ At(r, "sending")
    /\ shown' = request[r].roster
    /\ Goto(r, Idle)
    /\ UNCHANGED <<room, queue, emptied>>

-----------------------------------------------------------------------------
(* room:franchise_select *)

Select(u, f) ==
    /\ status = "lobby"
    /\ Spawn([at |-> "claiming", user |-> u, team |-> f, host |-> host])
    /\ UNCHANGED <<room, queue, shown, emptied>>

(* claimFranchise finds a row without a franchise and does not break       *)
(* UNIQUE(room_id, franchise).                                             *)
Claimable(u, f) ==
    /\ u \in Member /\ franchise[u] = NoFranchise
    /\ \A v \in Users : franchise[v] # f

(* Fault: claimed franchises go unlisted. *)
ClaimSilently(r) ==
    /\ At(r, "claiming")
    /\ LET q == request[r]
       IN  franchise' = IF Claimable(q.user, q.team)
                        THEN [franchise EXCEPT ![q.user] = q.team] ELSE franchise
    /\ Goto(r, Idle)
    /\ UNCHANGED <<status, host, members, queue, shown, emptied>>

(* A claim that fails changes nothing, and the user is told so. *)
Claim(r) ==
    /\ At(r, "claiming")
    /\ LET q == request[r]
       IN  IF Claimable(q.user, q.team)
           THEN /\ franchise' = [franchise EXCEPT ![q.user] = q.team]
                /\ Goto(r, Broadcast(q.host, NoUser))
           ELSE UNCHANGED franchise /\ Goto(r, Idle)
    /\ UNCHANGED <<status, host, members, queue, shown, emptied>>

-----------------------------------------------------------------------------
(* room:start_auction *)

Start ==
    /\ status # "completed"
    /\ Spawn([at |-> "checking", was |-> status])
    /\ UNCHANGED <<room, queue, shown, emptied>>

(* Fault: a manager without a franchise does not hold the start up. *)
CheckNothing(r) ==
    /\ At(r, "checking")
    /\ Goto(r, [request[r] EXCEPT !.at = "activating"])
    /\ UNCHANGED <<room, queue, shown, emptied>>

(* allMembersHaveFranchise *)
Check(r) ==
    /\ At(r, "checking")
    /\ Goto(r, IF \A u \in Member : franchise[u] # NoFranchise
               THEN [request[r] EXCEPT !.at = "activating"] ELSE Idle)
    /\ UNCHANGED <<room, queue, shown, emptied>>

Activate(r) ==
    /\ At(r, "activating")
    /\ status' = IF request[r].was = "lobby" THEN "active" ELSE status
    /\ Goto(r, [at |-> "counting"])
    /\ UNCHANGED <<host, members, franchise, queue, shown, emptied>>

(* After three seconds startAuction: initializeQueue for the members there *)
(* are by then.                                                            *)
StartEngine(r) ==
    /\ At(r, "counting")
    /\ queue' = Most(1, Len(members))
    /\ Goto(r, Idle)
    /\ UNCHANGED <<room, shown, emptied>>

-----------------------------------------------------------------------------
(* teardownManager: on room:leave, POST /rooms/:code/leave, or 60 s after  *)
(* a connection was lost                                                   *)

(* The teardown lock of a user *)
TearingDown(u) ==
    \E r \in Requests :
        request[r].at \in {"leaving", "left", "listing", "sending"} /\ request[r].leaver = u

Leave(u) ==
    /\ u \in Member
    /\ ~TearingDown(u)
    /\ Spawn([at |-> "leaving", leaver |-> u, was |-> status, host |-> host])
    /\ UNCHANGED <<room, queue, shown, emptied>>

(* removeMemberFromRoom, one transaction: the row goes, if the room is     *)
(* (still) in the lobby, and the crown passes to the oldest member.        *)
RemoveFrom(r, open, succession) ==
    /\ At(r, "leaving")
    /\ LET u == request[r].leaver
           goes == open /\ u \in Member
           row == CHOOSE i \in DOMAIN members : members[i] = u
           rest == [i \in 1 .. Len(members) - 1 |-> members[IF i < row THEN i ELSE i + 1]]
           heir == IF goes /\ host = u /\ rest # <<>> /\ succession THEN Head(rest) ELSE NoUser
       IN  /\ IF goes
              THEN /\ members' = rest
                   /\ franchise' = [franchise EXCEPT ![u] = NoFranchise]
                   /\ emptied' = (emptied \/ rest = <<>>)
              ELSE UNCHANGED <<members, franchise, emptied>>
           /\ host' = IF heir = NoUser THEN host ELSE heir
           /\ Goto(r, [at |-> "left", leaver |-> u, was |-> request[r].was,
                       host |-> request[r].host, led |-> host = u, heir |-> heir])
    /\ UNCHANGED <<status, queue, shown>>

(* Fault: the crown stays with the user who left. *)
RemoveWithCrown(r) == RemoveFrom(r, status = "lobby", FALSE)

(* Fault: the row goes in whatever state the room is. *)
RemoveAlways(r) == RemoveFrom(r, TRUE, TRUE)

Remove(r) == RemoveFrom(r, status = "lobby", TRUE)

(* user_left, then the list for a lobby, or the dead-man switch for the    *)
(* host of an auction                                                      *)
Farewell(r) ==
    /\ At(r, "left")
    /\ LET q == request[r]
           others == DOMAIN shown.team \ {q.leaver}
           Crown(old) == IF q.heir = NoUser THEN old ELSE q.heir
       IN  /\ shown' = [team |-> [u \in others |-> shown.team[u]], crown |-> Crown(shown.crown)]
           /\ status' = IF q.led /\ q.was \in {"active", "waiting_host"} /\ status = "active"
                        THEN "waiting_host" ELSE status
           /\ Goto(r, IF q.was = "lobby" THEN Broadcast(Crown(q.host), q.leaver) ELSE Idle)
    /\ UNCHANGED <<host, members, franchise, queue, emptied>>

-----------------------------------------------------------------------------
(* The auction, which lasts minutes where a request takes milliseconds *)

HostLost ==
    /\ status = "active"
    /\ status' = "waiting_host"
    /\ UNCHANGED <<host, members, franchise, queue, request, shown, emptied>>

HostTimeout ==
    /\ status = "waiting_host" /\ Quiet
    /\ status' = "terminated"
    /\ UNCHANGED <<host, members, franchise, queue, request, shown, emptied>>

EndAuction ==
    /\ status = "active" /\ queue # NoQueue /\ Quiet
    /\ status' = "completed"
    /\ UNCHANGED <<host, members, franchise, queue, request, shown, emptied>>

-----------------------------------------------------------------------------
(* The histories, of the requests under way after a step *)

Overlap(a, b) ==
    \E r, s \in Requests : r # s /\ request[r].at \in a /\ request[s].at \in b

Anything == {"joining", "claiming", "listing", "sending", "checking", "activating",
             "counting", "leaving", "left"}

Remember ==
    /\ crossed' = (crossed \/ Overlap(Anything, Anything)')
    /\ raced' = (raced \/ Overlap({"joining", "claiming"}, {"checking", "activating"})')

UserStep(u) ==
    \/ Join(u) \/ Enter(u) \/ Load(u) \/ Leave(u)
    \/ \E f \in Franchises : Select(u, f)

RequestStep(r) ==
    \/ Add(r) \/ List(r) \/ Send(r) \/ Claim(r)
    \/ Check(r) \/ Activate(r) \/ StartEngine(r)
    \/ Remove(r) \/ Farewell(r)

Auction == HostLost \/ HostTimeout \/ EndAuction

Next ==
    /\ \/ \E u \in Users : UserStep(u)
       \/ Start
       \/ \E r \in Requests : RequestStep(r)
       \/ Auction
    /\ Remember

Spec == Init /\ [][Next]_vars

-----------------------------------------------------------------------------
(* README.md, host succession: the host of a room is one of its members,   *)
(* however leaving interleaves with joining, unless the last member has    *)
(* left and somebody came in by the code again.                            *)
HostIsMember == emptied \/ host \in Member

(* Once the room has left the lobby its members and franchises are those   *)
(* the auction is played with, unless one was still being added when the   *)
(* start looked.                                                           *)
RosterFixed == [][status # "lobby" /\ ~raced => UNCHANGED <<members, franchise>>]_vars

(* room:start_auction: then every manager has a franchise, and the queue   *)
(* was made for as many managers as there are, from any table of players.  *)
StartedForRoster ==
    queue # NoQueue /\ ~raced =>
        /\ \A u \in Member : franchise[u] # NoFranchise
        /\ queue = Most(1, Len(members))
        /\ \A t \in Tables : PoolFits(queue, t)

(* What the pages of a lobby show is the roster, but for members whose own *)
(* page has not come in, unless two requests have overlapped.              *)
LobbyShown ==
    Quiet /\ ~crossed /\ status = "lobby" /\ members # <<>> =>
        /\ shown.crown = host
        /\ DOMAIN shown.team \subseteq Member
        /\ \A u \in Member : franchise[u] # NoFranchise => u \in DOMAIN shown.team
        /\ \A u \in DOMAIN shown.team : shown.team[u] = franchise[u]
=============================================================================
