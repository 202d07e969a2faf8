----------------------------- MODULE HostDeadMan -----------------------------
(***************************************************************************)
(* The host's dead-man switch: the host's connections to an auction that   *)
(* has begun, what the server does when one is lost or comes back, and the *)
(* two timeouts of 60 s, of the recovery window and of the presence check. *)
(*                                                                         *)
(* Every handler and every timeout is an asynchronous call of its own;     *)
(* calls interleave at their awaits with each other and with the engine,   *)
(* which is reduced to its countdown and the pause between two players     *)
(* (AuctionFloor has the rest of it, and splits the timer calls).          *)
(*                                                                         *)
(* The history variable orderly says that so far everything came apart     *)
(* from everything else: one tab at a time, lost while a countdown ran,    *)
(* and nothing else under way.  The history variable missed says that a    *)
(* connection was lost so late that nothing of the countdown was left to   *)
(* store: after the deadline, before the tick that notices it.             *)
(***************************************************************************)
EXTENDS Naturals, Sequences

CONSTANTS
    MaxTabs,         \* the host's browser tabs, each with a socket
    MaxCalls,        \* handlers that may be under way at once
    NoToken,
    Players,         \* players still to be put up
    MaxDepartures    \* bound on the connections lost

ASSUME HostAssumption ==
    /\ MaxTabs \in Nat \ {0} /\ MaxCalls \in Nat \ {0} /\ NoToken \notin Nat
    /\ Players \in Nat /\ MaxDepartures \in Nat

Tabs == 1 .. MaxTabs

Calls == 1 .. MaxCalls

Tokens == 1 .. MaxCalls       \* enough for one that no call carries

VARIABLES
    status,          \* rooms.status
    auctionState,
    interval,        \* an interval counts down
    paused,          \* the timer_deadline:paused key is set
    stage,           \* where the engine is
    left,            \* players not yet put up
    token,           \* host_deadman_token
    alarm,           \* the timeout in deadManTimers, as the token it carries
    online,          \* tabs with a connected socket
    todo,            \* what each tab's page has sent and the server not yet handled
    away,            \* the host's field of the presence hash is "0"
    checks,          \* presence checks that wait for their 60 s
    call,
    departures,
    orderly,         \* history
    missed           \* history

floor == <<auctionState, interval, paused, stage, left>>
switch == <<token, alarm>>
people == <<online, todo, away, checks, departures>>
history == <<orderly, missed>>
vars == <<status, floor, switch, people, call, history>>

Idle == [at |-> "idle"]

Final == {"completed", "terminated"}

(* What the auction page sends when its socket connects *)
Greeting == <<"join", "sync">>

Call ==
    {Idle}
    \cup [at : {"reading", "freezing", "suspending", "arming", "terminating", "closing"}]
    \cup [at : {"returning", "activating", "resuming", "marking"}, mark : BOOLEAN]
    \cup [at : {"ringing"}, token : Tokens]

TypeOK ==
    /\ status \in {"active", "waiting_host"} \cup Final
    /\ auctionState \in {"open", "resolved", "paused", "waiting_host", "complete"}
    /\ interval \in BOOLEAN /\ paused \in BOOLEAN
    /\ stage \in {"countdown", "between", "over"}
    /\ left \in 0 .. Players
    /\ {token, alarm} \subseteq Tokens \cup {NoToken}
    /\ online \subseteq Tabs
    /\ todo \in [Tabs -> {Greeting, Tail(Greeting), <<>>}]
    /\ away \in BOOLEAN
    /\ checks \in 0 .. MaxDepartures
    /\ call \in [Calls -> Call]
    /\ departures \in 0 .. MaxDepartures
    /\ orderly \in BOOLEAN /\ missed \in BOOLEAN

(* The auction has started, no player is up yet, the host is in the room.  *)
Init ==
    /\ status = "active" /\ auctionState = "resolved"
    /\ interval = FALSE /\ paused = FALSE
    /\ stage = "between" /\ left = Players
    /\ token = NoToken /\ alarm = NoToken
    /\ online = {1}
    /\ todo = [t \in Tabs |-> <<>>]
    /\ away = FALSE /\ checks = 0
    /\ call = [c \in Calls |-> Idle]
    /\ departures = 0
    /\ orderly = TRUE /\ missed = FALSE

-----------------------------------------------------------------------------
At(c, place) == call[c].at = place

Goto(c, next) == call' = [call EXCEPT ![c] = next]

(* A new call takes the first free place: the places are interchangeable.  *)
Spawn(first) ==
    \E c \in Calls :
        /\ call[c] = Idle
        /\ \A d \in 1 .. c - 1 : call[d] # Idle
        /\ Goto(c, first)

Quiet == \A c \in Calls : call[c] = Idle

(* Nothing is under way, and no page waits for its first answers. *)
Calm == Quiet /\ \A t \in Tabs : todo[t] = <<>>

Keep(order) == orderly' = (orderly /\ order) /\ missed' = missed

(* The server has put the tab's socket into the room's channels. *)
Entered(t) == t \in online /\ todo[t] # Greeting

(* teardownManager: the field is deleted and the host stays a member, since *)
(* the room has left the lobby; the dead-man switch follows.  Its lock is   *)
(* left out: only the deletion makes a second teardown needless.            *)
TearDown ==
    /\ away' = FALSE
    /\ IF status \in Final THEN UNCHANGED call ELSE Spawn([at |-> "reading"])

-----------------------------------------------------------------------------
(* The engine *)

Expire ==
    /\ stage = "countdown" /\ interval
    /\ interval' = FALSE
    /\ stage' = "between" /\ auctionState' = "resolved"
    /\ Keep(Calm)
    /\ UNCHANGED <<status, paused, left, switch, people, call>>

NextUp ==
    /\ stage = "between"
    /\ left' = left - 1
    /\ stage' = "countdown" /\ auctionState' = "open"
    /\ interval' = TRUE
    /\ Keep(Calm)
    /\ UNCHANGED <<status, paused, switch, people, call>>

(* Fault: the end of the queue is not noticed. *)
PutUpAlways == NextUp

PutUp == left > 0 /\ NextUp

Finish ==
    /\ stage = "between" /\ left = 0
    /\ stage' = "over" /\ auctionState' = "complete"
    /\ status' = "completed"
    /\ Keep(Calm)
    /\ UNCHANGED <<interval, paused, left, switch, people, call>>

-----------------------------------------------------------------------------
(* The host's tabs *)

(* Offline tabs are interchangeable: the first of them connects. *)
Open(t) ==
    /\ t \notin online /\ 1 .. t - 1 \subseteq online
    /\ status \notin Final                      \* bounds: no page of an ended room,
    /\ departures = MaxDepartures => online = {}   \* and no second page for good
    /\ online' = online \cup {t}
    /\ todo' = [todo EXCEPT ![t] = Greeting]
    /\ Keep(Calm /\ online = {})
    /\ UNCHANGED <<status, floor, switch, away, checks, departures, call>>

(* room:join: the socket enters the channels, the host of a waiting room   *)
(* is taken back, then marked present.                                     *)
Join(t) ==
    /\ todo[t] = Greeting
    /\ todo' = [todo EXCEPT ![t] = Tail(@)]
    /\ Spawn([at |-> IF status = "waiting_host" THEN "returning" ELSE "marking",
              mark |-> TRUE])
    /\ UNCHANGED <<status, floor, switch, online, away, checks, departures, history>>

(* auction:state_sync_request does the same without the mark. *)
Sync(t) ==
    /\ todo[t] = Tail(Greeting)
    /\ todo' = [todo EXCEPT ![t] = <<>>]
    /\ IF status = "waiting_host" THEN Spawn([at |-> "returning", mark |-> FALSE])
       ELSE UNCHANGED call
    /\ UNCHANGED <<status, floor, switch, online, away, checks, departures, history>>

Depart(t) ==
    /\ t \in online
    /\ departures < MaxDepartures
    /\ departures' = departures + 1
    /\ online' = online \ {t}
    /\ todo' = [todo EXCEPT ![t] = <<>>]
    /\ Keep(Calm /\ interval)
    /\ UNCHANGED <<status, floor, switch>>

(* disconnect, up to its read of the room *)
Drop(t) ==
    /\ Depart(t)
    /\ IF Entered(t)
       THEN away' = TRUE /\ checks' = checks + 1 /\ Spawn([at |-> "reading"])
       ELSE UNCHANGED <<away, checks, call>>

(* The presence check after the grace period *)
Check ==
    /\ checks > 0
    /\ checks' = checks - 1
    /\ IF away THEN TearDown ELSE UNCHANGED <<away, call>>
    /\ Keep(Calm)
    /\ UNCHANGED <<status, floor, switch, online, todo, departures>>

-----------------------------------------------------------------------------
(* handleHostDisconnect *)

ReadRoom(c) ==
    /\ At(c, "reading")
    /\ Goto(c, IF status = "active" THEN [at |-> "freezing"] ELSE Idle)
    /\ UNCHANGED <<status, floor, switch, people, history>>

(* pauseTimer: it finds the seconds that are stored, or else those of a    *)
(* countdown that runs, which may be none.  Without any it clears the      *)
(* interval and stores nothing.                                            *)
FreezeTo(c, running) ==
    /\ At(c, "freezing")
    /\ interval' = running
    /\ paused' \in {paused, paused \/ interval}
    /\ missed' = (missed \/ (interval /\ ~paused'))
    /\ auctionState' = IF paused' THEN "paused" ELSE auctionState
    /\ Goto(c, [at |-> "suspending"])
    /\ UNCHANGED <<status, stage, left, switch, people, orderly>>

(* Fault: the interval is not cleared. *)
FreezeKeys(c) == FreezeTo(c, interval)

Freeze(c) == FreezeTo(c, FALSE)

Suspend(c) ==
    /\ At(c, "suspending")
    /\ status' = "waiting_host"
    /\ Goto(c, [at |-> "arming"])
    /\ UNCHANGED <<floor, switch, people, history>>

(* randomUUID: a token that no timeout carries any more *)
NewToken ==
    LET carried == {call[c].token : c \in {d \in Calls : At(d, "ringing")}}
    IN  CHOOSE k \in Tokens \ carried : TRUE

(* The auction state, a new token and the timeout that carries it.  The    *)
(* writes go out one after the other on the one connection to Redis.       *)
ArmWith(c, carried) ==
    /\ At(c, "arming")
    /\ auctionState' = "waiting_host"
    /\ token' = NewToken /\ alarm' = carried
    /\ Goto(c, Idle)
    /\ UNCHANGED <<status, interval, paused, stage, left, people, history>>

(* Fault: the timeout carries the token that was there before. *)
ArmStale(c) == ArmWith(c, IF token = NoToken THEN NewToken ELSE token)

(* Fault: no timeout is set. *)
ArmNothing(c) == ArmWith(c, alarm)

Arm(c) == ArmWith(c, NewToken)

-----------------------------------------------------------------------------
(* handleHostReconnect *)

After(c) == IF call[c].mark THEN [call[c] EXCEPT !.at = "marking"] ELSE Idle

(* The timeout is cancelled and the token deleted. *)
Return(c) ==
    /\ At(c, "returning")
    /\ IF status = "waiting_host"
       THEN /\ token' = NoToken /\ alarm' = NoToken
            /\ Goto(c, [call[c] EXCEPT !.at = "activating"])
       ELSE UNCHANGED switch /\ Goto(c, After(c))
    /\ UNCHANGED <<status, floor, people, history>>

Activate(c) ==
    /\ At(c, "activating")
    /\ status' = "active"
    /\ Goto(c, [call[c] EXCEPT !.at = "resuming"])
    /\ UNCHANGED <<floor, switch, people, history>>

(* resumeTimer *)
ResumeIf(c, found) ==
    /\ At(c, "resuming")
    /\ IF found
       THEN paused' = FALSE /\ auctionState' = "open" /\ interval' = TRUE
       ELSE UNCHANGED <<paused, auctionState, interval>>
    /\ Goto(c, After(c))
    /\ UNCHANGED <<status, stage, left, switch, people, history>>

(* Fault: what was paused is not started again. *)
ResumeNothing(c) == ResumeIf(c, FALSE)

Resume(c) == ResumeIf(c, paused)

MarkAs(c, value) ==
    /\ At(c, "marking")
    /\ away' = value
    /\ Goto(c, Idle)
    /\ UNCHANGED <<status, floor, switch, online, todo, checks, departures, history>>

(* Fault: the return is not marked. *)
MarkNothing(c) == MarkAs(c, away)

Mark(c) == MarkAs(c, FALSE)

-----------------------------------------------------------------------------
(* handleHostTimeout *)

Ring ==
    /\ alarm # NoToken
    /\ alarm' = NoToken
    /\ Spawn([at |-> "ringing", token |-> alarm])
    /\ Keep(Calm /\ online = {})
    /\ UNCHANGED <<status, floor, token, people>>

CheckToken(c) ==
    /\ At(c, "ringing")
    /\ IF token = call[c].token
       THEN token' = NoToken /\ Goto(c, [at |-> "terminating"])
       ELSE UNCHANGED token /\ Goto(c, Idle)
    /\ UNCHANGED <<status, floor, alarm, people, history>>

Terminate(c) ==
    /\ At(c, "terminating")
    /\ status' = "terminated"
    /\ Goto(c, [at |-> "closing"])
    /\ UNCHANGED <<floor, switch, people, history>>

Close(c) ==
    /\ At(c, "closing")
    /\ auctionState' = "complete"
    /\ interval' = FALSE /\ paused' = FALSE
    /\ Goto(c, Idle)
    /\ UNCHANGED <<status, stage, left, switch, people, history>>

-----------------------------------------------------------------------------
Engine == Expire \/ PutUp \/ Finish

Step(c) ==
    \/ ReadRoom(c) \/ Freeze(c) \/ Suspend(c) \/ Arm(c)
    \/ Return(c) \/ Activate(c) \/ Resume(c) \/ Mark(c)
    \/ CheckToken(c) \/ Terminate(c) \/ Close(c)

Next ==
    \/ Engine
    \/ \E t \in Tabs : Open(t) \/ Join(t) \/ Sync(t) \/ Drop(t)
    \/ Check
    \/ Ring
    \/ \E c \in Calls : Step(c)

(* A call goes on, the timeouts fire, and the engine counts down.  Nobody  *)
(* has to come back.                                                       *)
Fairness ==
    /\ \A c \in Calls : WF_vars(Step(c))
    /\ WF_vars(Ring) /\ WF_vars(Check) /\ WF_vars(Engine)

Spec == Init /\ [][Next]_vars /\ Fairness

-----------------------------------------------------------------------------
(* handleHostDisconnect: a room that waits for its host has a timeout      *)
(* whose token is the one in Redis, whatever raced.  Otherwise it would    *)
(* wait for ever if the host stays away.                                   *)
WaitingIsArmed == status = "waiting_host" /\ Quiet => alarm # NoToken /\ alarm = token

(* README.md, dead man's switch: while the window is open nothing counts   *)
(* down and the remaining seconds are frozen, unless there were none to    *)
(* freeze; outside of it no token, no timeout and no pause is left, and an *)
(* active room whose player is up counts down.  Only the room whose host   *)
(* was lost at the deadline does not: it is active again without a         *)
(* countdown, and its Redis state may still be waiting_host.               *)
FrozenInWindow ==
    status = "waiting_host" => ~interval /\ stage = "countdown" /\ paused = ~missed

NothingLeftOver ==
    status # "waiting_host" =>
        /\ token = NoToken /\ alarm = NoToken /\ ~paused
        /\ auctionState = "waiting_host" => missed
        /\ status = "active" => interval = (stage = "countdown" /\ ~missed)

WindowSound == orderly /\ Quiet => FrozenInWindow /\ NothingLeftOver

(* The window stays open only while the host has no page in the room.      *)
HostAwayInWindow ==
    orderly /\ alarm # NoToken /\ Quiet => \A t \in online : todo[t] # <<>>

(* README.md, dead man's switch: the window is always decided. *)
WindowDecided == status = "waiting_host" ~> status # "waiting_host"

(* Unless calls overlap, a countdown that was paused goes on, or the room  *)
(* is at its end; but where the host was lost at the deadline nothing goes *)
(* on by itself.                                                           *)
NeverStuck ==
    []<>(interval \/ stage # "countdown" \/ status \in Final \/ ~orderly \/ missed)
=============================================================================
