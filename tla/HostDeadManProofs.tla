-------------------------- MODULE HostDeadManProofs --------------------------
(***************************************************************************)
(* The dead-man switch for any number of tabs, calls, players and lost     *)
(* connections.  Whatever races, a waiting room has a timeout that carries *)
(* its token, or a call under way that will set one or end the wait        *)
(* (Armed): a token is new when it is made, because a call that makes one  *)
(* carries none (NewTokenIsNew).  While everything came apart from         *)
(* everything else the state is in one of four phases (Phases): at rest,   *)
(* shut, with one call that leaves, or with the calls of a page that comes *)
(* back.                                                                   *)
(***************************************************************************)
EXTENDS HostDeadMan, FiniteSetTheorems, TLAPS

Coming == {"returning", "activating", "resuming", "marking"}

SomeAt(places) == \E c \in Calls : call[c].at \in places

(* A timeout carries the token that Redis has, and no call carries it yet. *)
OneToken ==
    alarm # NoToken =>
        /\ alarm = token
        /\ \A c \in Calls : At(c, "ringing") => call[c].token # alarm

(* A waiting room has a timeout, or a call that sets one or ends the wait. *)
Armed ==
    status = "waiting_host" =>
        \/ alarm # NoToken
        \/ SomeAt({"arming", "activating", "terminating"})
        \/ \E c \in Calls : At(c, "ringing") /\ call[c].token = token

Bounded ==
    /\ checks =< departures
    /\ \A t \in Tabs : t \notin online => todo[t] = <<>>

(* The phases of an orderly run *)
Unset == token = NoToken /\ alarm = NoToken

Frozen == ~interval /\ stage = "countdown" /\ paused = ~missed

Rest ==
    /\ Unset /\ ~paused /\ (auctionState = "waiting_host" => missed)
    /\ status \in {"active"} \cup Final
    /\ interval = (status = "active" /\ stage = "countdown" /\ ~missed)
    /\ missed => stage = "countdown"
    /\ status = "active" => stage # "over"
    /\ status \in Final => stage # "between"

Window == status = "waiting_host" /\ Frozen /\ alarm # NoToken /\ alarm = token

AtRest ==
    /\ Calm /\ Rest
    /\ status = "active" => online # {} /\ ~away

(* The host is away, or a page has just connected. *)
Shut ==
    /\ Quiet /\ Window
    /\ online = {} \/ \E t \in online : todo[t] = Greeting

LeavingAt(c) ==
    \/ At(c, "reading") /\ ((Rest /\ status = "active" /\ interval) \/ Window)
    \/ At(c, "freezing") /\ Rest /\ status = "active" /\ interval
    \/ At(c, "suspending") /\ status = "active" /\ Frozen /\ Unset
    \/ At(c, "arming") /\ status = "waiting_host" /\ Frozen /\ Unset
    \/ /\ At(c, "ringing") /\ status = "waiting_host" /\ Frozen
       /\ alarm = NoToken /\ token = call[c].token
    \/ At(c, "terminating") /\ status = "waiting_host" /\ Frozen /\ Unset
    \/ /\ At(c, "closing") /\ status = "terminated"
       /\ ~interval /\ stage = "countdown" /\ Unset

(* One call, after the last connection was lost *)
Leaving ==
    /\ online = {}
    /\ \E c \in Calls : LeavingAt(c) /\ \A d \in Calls : d # c => call[d] = Idle

(* The calls of a page that has joined *)
ComingBack ==
    /\ \E t \in online : todo[t] # Greeting
    /\ \A c \in Calls : call[c].at \in Coming \cup {"idle"}
    /\ stage = "countdown" /\ status \in {"active", "waiting_host"}
    /\ SomeAt({"activating", "resuming"}) => Unset
    /\ SomeAt({"resuming"}) => status = "active"
    /\ status = "waiting_host" => Frozen /\ SomeAt({"returning", "activating"})
    /\ status = "active" =>
          /\ Unset
          /\ IF paused THEN ~interval /\ ~missed /\ SomeAt({"resuming"})
             ELSE interval = ~missed /\ (auctionState = "waiting_host" => missed)
    /\ away => \E c \in Calls : call[c].at \in Coming /\ call[c].mark = TRUE

OneTab == \A s, t \in online : s = t

Phases == orderly => OneTab /\ (AtRest \/ Shut \/ Leaving \/ ComingBack)

HostInv ==
    /\ TypeOK
    /\ OneToken
    /\ Armed
    /\ Bounded
    /\ Phases

-----------------------------------------------------------------------------
(* Calls and tokens *)

Stages ==
    {"idle", "reading", "freezing", "suspending", "arming", "terminating", "closing",
     "returning", "activating", "resuming", "marking", "ringing"}

LEMMA CallFields ==
  ASSUME NEW q \in Call
  PROVE  /\ q.at \in Stages
         /\ q.at = "idle" <=> q = Idle
         /\ q.at = "ringing" => q.token \in Tokens
         /\ q.at \in Coming => /\ q.mark \in BOOLEAN
                               /\ q = [at |-> q.at, mark |-> q.mark]
  <1> USE DEF Stages, Coming, Idle
  <1>1. CASE q = Idle
    BY <1>1
  <1>2. CASE q \in [at : {"reading", "freezing", "suspending", "arming", "terminating",
                          "closing"}]
    BY <1>2
  <1>3. CASE q \in [at : {"returning", "activating", "resuming", "marking"}, mark : BOOLEAN]
    BY <1>3
  <1>4. CASE q \in [at : {"ringing"}, token : Tokens]
    BY <1>4
  <1> QED
    BY <1>1, <1>2, <1>3, <1>4 DEF Call

LEMMA IdleCall == Idle \in Call /\ Idle.at = "idle"
  BY DEF Call, Idle

LEMMA Placed ==
  ASSUME TypeOK, NEW c \in Calls, NEW q \in Call, Goto(c, q)
  PROVE  /\ call' \in [Calls -> Call] /\ call'[c] = q
         /\ \A d \in Calls : d # c => call'[d] = call[d]
  BY DEF TypeOK, Goto

LEMMA NoTokenApart == NoToken \notin Tokens
  BY HostAssumption DEF Tokens

(* A call that makes a token carries none: of as many tokens as calls one  *)
(* is not carried.                                                         *)
LEMMA NewTokenIsNew ==
  ASSUME TypeOK, NEW c \in Calls, At(c, "arming")
  PROVE  /\ NewToken \in Tokens
         /\ \A d \in Calls : At(d, "ringing") => call[d].token # NewToken
  <1> DEFINE ringing == {d \in Calls : At(d, "ringing")}
             carried == {call[d].token : d \in ringing}
  <1>1. ringing \subseteq Calls \ {c}
    BY DEF At
  <1>2. /\ IsFiniteSet(Calls) /\ Cardinality(Calls) = MaxCalls
        /\ IsFiniteSet(Tokens) /\ Cardinality(Tokens) = MaxCalls
    BY FS_Interval, HostAssumption DEF Calls, Tokens
  <1>3. IsFiniteSet(Calls \ {c}) /\ Cardinality(Calls \ {c}) = MaxCalls - 1
    BY <1>2, FS_RemoveElement
  <1>4. Tokens \ carried # {}
    <2> SUFFICES ASSUME \A k \in Tokens : \E d \in ringing : call[d].token = k
                 PROVE  FALSE
      OBVIOUS
    <2> DEFINE f == [k \in Tokens |-> CHOOSE d \in ringing : call[d].token = k]
    <2>1. \A k \in Tokens : f[k] \in ringing /\ call[f[k]].token = k
      OBVIOUS
    <2>2. f \in [Tokens -> Calls \ {c}]
      BY <1>1, <2>1
    <2> HIDE DEF f
    <2>3. \E a, b \in Tokens : a # b /\ f[a] = f[b]
      BY <1>2, <1>3, <2>2, FS_PigeonHole, HostAssumption
    <2> QED
      BY <2>1, <2>3
  <1>5. NewToken \in Tokens \ carried
    BY <1>4 DEF NewToken
  <1> QED
    BY <1>5

-----------------------------------------------------------------------------
(* Whatever races *)

Loose == TypeOK /\ OneToken /\ Armed /\ Bounded

(* A step that leaves the switch alone: of the calls one goes to q, or a   *)
(* new one is made.                                                        *)
LEMMA LooseGoto ==
  ASSUME Loose, NEW c \in Calls, NEW q \in Call, Goto(c, q),
         UNCHANGED switch,
         status' = "waiting_host" =>
            \/ q.at = "arming"
            \/ status = "waiting_host" /\ call[c].at \notin {"activating", "terminating", "ringing"}
                 /\ (call[c].at = "arming" => q.at = "arming"),
         q.at # "ringing"
  PROVE  OneToken' /\ Armed'
  <1>1. /\ call' \in [Calls -> Call] /\ call'[c] = q
        /\ \A d \in Calls : d # c => call'[d] = call[d]
    BY Placed DEF Loose
  <1>2. token' = token /\ alarm' = alarm
    BY DEF switch
  <1>3. OneToken'
    BY <1>1, <1>2 DEF Loose, OneToken, At
  <1>4. Armed'
    <2> SUFFICES ASSUME status' = "waiting_host" PROVE Armed'
      BY DEF Armed
    <2>1. CASE q.at = "arming"
      BY <1>1, <2>1 DEF Armed, SomeAt
    <2>2. CASE /\ status = "waiting_host"
               /\ call[c].at \notin {"activating", "terminating", "ringing"}
               /\ call[c].at = "arming" => q.at = "arming"
      BY <1>1, <1>2, <2>2 DEF Loose, Armed, SomeAt, At
    <2> QED
      BY <2>1, <2>2
  <1> QED
    BY <1>3, <1>4

LEMMA LooseSame ==
  ASSUME Loose, UNCHANGED <<switch, call>>,
                            status' = "waiting_host" => status = "waiting_host"
  PROVE  OneToken' /\ Armed'
  BY DEF Loose, OneToken, Armed, SomeAt, At, switch

LEMMA TwoMessages ==
  ASSUME NEW a, NEW b
  PROVE  LET s == <<a, b>> IN s # <<>> /\ Tail(s) # <<>> /\ s # Tail(s)
  <1> DEFINE T == {a, b}
             s == <<a, b>>
  <1>1. s \in Seq(T) /\ Len(s) = 2
    OBVIOUS
  <1> HIDE DEF s, T
  <1>2. s # <<>>
    BY <1>1
  <1>3. Tail(s) \in Seq(T) /\ Len(Tail(s)) = 1
    BY <1>1, <1>2
  <1> DEFINE u == Tail(s)
  <1> HIDE DEF u
  <1>4. u \in Seq(T) /\ Len(u) = 1
    BY <1>3 DEF u
  <1>5. u # <<>>
    BY <1>4
  <1> QED
    BY <1>1, <1>2, <1>4, <1>5 DEF s, u

LEMMA Greetings ==
  Greeting # <<>> /\ Tail(Greeting) # <<>> /\ Greeting # Tail(Greeting)
  BY TwoMessages DEF Greeting

LEMMA Spawned ==
  ASSUME NEW q, Spawn(q)
  PROVE  \E c \in Calls : call[c] = Idle /\ Goto(c, q)
  BY DEF Spawn

(* A new call, other than one that carries a token, disturbs nothing. *)
LEMMA LooseSpawn ==
  ASSUME Loose, NEW q \in Call, Spawn(q), q.at # "ringing", UNCHANGED <<status, switch>>
  PROVE  call' \in [Calls -> Call] /\ OneToken' /\ Armed'
  <1>1. PICK c \in Calls : call[c] = Idle /\ Goto(c, q)
    BY Spawned
  <1>2. call[c].at = "idle"
    BY <1>1, IdleCall
  <1> QED
    BY <1>1, <1>2, LooseGoto, Placed DEF Loose

(* Calls that lead only to others *)
Plain == {"reading", "freezing", "suspending", "arming", "terminating", "closing"}

LEMMA SomeCalls ==
  /\ \A p \in Plain : [at |-> p] \in Call
  /\ \A p \in Coming, m \in BOOLEAN : [at |-> p, mark |-> m] \in Call
  /\ \A k \in Tokens : [at |-> "ringing", token |-> k] \in Call
  BY DEF Plain, Coming, Call

LEMMA EngineLoose ==
  ASSUME Loose, Engine
  PROVE  Loose'
  <1>1. UNCHANGED <<token, alarm, people, call>>
    BY DEF Engine, Expire, PutUp, NextUp, Finish, switch
  <1>2. status' = "waiting_host" => status = "waiting_host"
    BY DEF Engine, Expire, PutUp, NextUp, Finish
  <1>3. left' \in 0 .. Players
    BY HostAssumption DEF Loose, TypeOK, Engine, Expire, PutUp, NextUp, Finish
  <1>4. orderly' \in BOOLEAN /\ missed' \in BOOLEAN
    BY DEF Loose, TypeOK, Engine, Expire, PutUp, NextUp, Finish, Keep, Calm, Quiet
  <1>5. TypeOK'
    BY <1>1, <1>3, <1>4
       DEF Loose, TypeOK, Engine, Expire, PutUp, NextUp, Finish, people, Final
  <1>6. OneToken' /\ Armed'
    BY <1>1, <1>2, LooseSame DEF switch
  <1>7. Bounded'
    BY <1>1 DEF Loose, Bounded, people
  <1> QED
    BY <1>5, <1>6, <1>7 DEF Loose

LEMMA OpenLoose ==
  ASSUME Loose, NEW t \in Tabs, Open(t)
  PROVE  Loose'
  <1>1. TypeOK'
    BY DEF Loose, TypeOK, Open, floor, switch, history, Final, Keep, Calm, Quiet
  <1>2. OneToken' /\ Armed'
    BY LooseSame DEF Open
  <1>3. Bounded'
    BY DEF Loose, TypeOK, Open, Bounded
  <1> QED
    BY <1>1, <1>2, <1>3 DEF Loose

LEMMA JoinLoose ==
  ASSUME Loose, NEW t \in Tabs, Join(t)
  PROVE  Loose'
  <1> DEFINE q == [at |-> IF status = "waiting_host" THEN "returning" ELSE "marking",
                   mark |-> TRUE]
  <1>1. q \in Call /\ q.at # "ringing"
    BY DEF Call
  <1>2. Spawn(q) /\ UNCHANGED <<status, switch>>
    BY DEF Join
  <1> HIDE DEF q
  <1>3. call' \in [Calls -> Call] /\ OneToken' /\ Armed'
    BY <1>1, <1>2, LooseSpawn
  <1>4. todo' \in [Tabs -> {Greeting, Tail(Greeting), <<>>}]
    BY DEF Loose, TypeOK, Join
  <1>5. TypeOK'
    BY <1>3, <1>4 DEF Loose, TypeOK, Join, floor, switch, history, Final
  <1>6. t \in online
    BY Greetings DEF Loose, Bounded, Join
  <1>7. Bounded'
    BY <1>6 DEF Loose, TypeOK, Join, Bounded
  <1> QED
    BY <1>3, <1>5, <1>7 DEF Loose

LEMMA SyncLoose ==
  ASSUME Loose, NEW t \in Tabs, Sync(t)
  PROVE  Loose'
  <1>1. call' \in [Calls -> Call] /\ OneToken' /\ Armed'
    <2>1. CASE status = "waiting_host"
      <3> DEFINE q == [at |-> "returning", mark |-> FALSE]
      <3>1. q \in Call /\ q.at # "ringing"
        BY DEF Call
      <3>2. Spawn(q) /\ UNCHANGED <<status, switch>>
        BY <2>1 DEF Sync
      <3> HIDE DEF q
      <3> QED
        BY <3>1, <3>2, LooseSpawn
    <2>2. CASE status # "waiting_host"
      BY <2>2, LooseSame DEF Sync, Loose, TypeOK
    <2> QED
      BY <2>1, <2>2
  <1>2. todo' \in [Tabs -> {Greeting, Tail(Greeting), <<>>}]
    BY DEF Loose, TypeOK, Sync
  <1>3. TypeOK'
    BY <1>1, <1>2 DEF Loose, TypeOK, Sync, floor, switch, history, Final
  <1>4. Bounded'
    BY DEF Loose, TypeOK, Sync, Bounded
  <1> QED
    BY <1>1, <1>3, <1>4 DEF Loose

LEMMA DropLoose ==
  ASSUME Loose, NEW t \in Tabs, Drop(t)
  PROVE  Loose'
  <1>1. UNCHANGED <<status, switch>>
    BY DEF Drop, Depart
  <1>2. call' \in [Calls -> Call] /\ OneToken' /\ Armed'
    <2>1. CASE Entered(t)
      <3> DEFINE q == [at |-> "reading"]
      <3>1. q \in Call /\ q.at # "ringing"
        BY DEF Call
      <3>2. Spawn(q)
        BY <2>1 DEF Drop
      <3> HIDE DEF q
      <3> QED
        BY <1>1, <3>1, <3>2, LooseSpawn
    <2>2. CASE ~Entered(t)
      BY <1>1, <2>2, LooseSame DEF Drop, Loose, TypeOK
    <2> QED
      BY <2>1, <2>2
  <1>3. /\ departures' \in 0 .. MaxDepartures /\ checks' \in 0 .. MaxDepartures
        /\ checks' =< departures' /\ away' \in BOOLEAN
    <2>1. /\ departures \in 0 .. MaxDepartures /\ checks \in 0 .. MaxDepartures
          /\ checks =< departures /\ departures < MaxDepartures /\ MaxDepartures \in Nat
      BY HostAssumption DEF Loose, TypeOK, Bounded, Drop, Depart
    <2>2. /\ departures' = departures + 1 /\ checks' \in {checks, checks + 1}
          /\ away' \in BOOLEAN
      BY DEF Loose, TypeOK, Drop, Depart
    <2> QED
      BY <2>1, <2>2
  <1>4. /\ todo' \in [Tabs -> {Greeting, Tail(Greeting), <<>>}] /\ online' \subseteq Tabs
        /\ \A s \in Tabs : s \notin online' => todo'[s] = <<>>
    BY DEF Loose, TypeOK, Bounded, Drop, Depart
  <1>5. orderly' \in BOOLEAN /\ missed' \in BOOLEAN
    BY DEF Loose, TypeOK, Drop, Depart, Keep, Calm, Quiet
  <1>6. TypeOK'
    <2> HIDE DEF Loose
    <2> QED
      BY <1>1, <1>2, <1>3, <1>4, <1>5 DEF Loose, TypeOK, Drop, Depart, floor, switch, history, Final
  <1>7. Bounded'
    BY <1>3, <1>4 DEF Bounded
  <1> QED
    BY <1>2, <1>6, <1>7 DEF Loose

LEMMA CheckLoose ==
  ASSUME Loose, Check
  PROVE  Loose'
  <1>1. UNCHANGED <<status, floor, switch, online, todo, departures>>
    BY DEF Check
  <1>2. call' \in [Calls -> Call] /\ OneToken' /\ Armed'
    <2>1. CASE away /\ status \notin Final
      <3> DEFINE q == [at |-> "reading"]
      <3>1. q \in Call /\ q.at # "ringing"
        BY DEF Call
      <3>2. Spawn(q)
        BY <2>1 DEF Check, TearDown
      <3> HIDE DEF q
      <3> QED
        BY <1>1, <3>1, <3>2, LooseSpawn
    <2>2. CASE ~(away /\ status \notin Final)
      BY <1>1, <2>2, LooseSame DEF Check, TearDown, Loose, TypeOK
    <2> QED
      BY <2>1, <2>2
  <1>3. checks' \in 0 .. MaxDepartures /\ checks' =< departures' /\ away' \in BOOLEAN
    <2>1. /\ departures \in 0 .. MaxDepartures /\ checks \in 0 .. MaxDepartures
          /\ checks =< departures /\ checks > 0 /\ MaxDepartures \in Nat
      BY HostAssumption DEF Loose, TypeOK, Bounded, Check
    <2>2. departures' = departures /\ checks' = checks - 1 /\ away' \in BOOLEAN
      BY DEF Loose, TypeOK, Check, TearDown
    <2> QED
      BY <2>1, <2>2
  <1>4. orderly' \in BOOLEAN /\ missed' \in BOOLEAN
    BY DEF Loose, TypeOK, Check, Keep, Calm, Quiet
  <1>5. TypeOK'
    BY <1>1, <1>2, <1>3, <1>4 DEF Loose, TypeOK, floor, switch, history, Final
  <1>6. Bounded'
    BY <1>1, <1>3 DEF Loose, Bounded
  <1> QED
    BY <1>2, <1>5, <1>6 DEF Loose

(* The stage of a call that comes back is replaced, its mark kept. *)
LEMMA Moved ==
  ASSUME TypeOK, NEW c \in Calls, call[c].at \in Coming, NEW p
  PROVE  /\ call[c].mark \in BOOLEAN
         /\ [call[c] EXCEPT !.at = p] = [at |-> p, mark |-> call[c].mark]
  <1>1. call[c] = [at |-> call[c].at, mark |-> call[c].mark] /\ call[c].mark \in BOOLEAN
    BY CallFields DEF TypeOK
  <1> DEFINE a == call[c].at
             m == call[c].mark
  <1> HIDE DEF a, m
  <1>2. [[at |-> a, mark |-> m] EXCEPT !.at = p] = [at |-> p, mark |-> m]
    OBVIOUS
  <1> QED
    BY <1>1, <1>2 DEF a, m

LEMMA AfterCall ==
  ASSUME TypeOK, NEW c \in Calls, call[c].at \in Coming
  PROVE  /\ call[c].mark \in BOOLEAN
         /\ After(c) = IF call[c].mark THEN [at |-> "marking", mark |-> TRUE] ELSE Idle
         /\ After(c) \in Call /\ After(c).at \in {"marking", "idle"}
  <1>1. After(c) = IF call[c].mark THEN [at |-> "marking", mark |-> TRUE] ELSE Idle
    BY Moved DEF After
  <1>2. [at |-> "marking", mark |-> TRUE] \in Call
    BY DEF Call
  <1>3. CASE call[c].mark
    BY <1>1, <1>2, <1>3, Moved
  <1>4. CASE ~call[c].mark
    BY <1>1, <1>4, Moved, IdleCall
  <1> QED
    BY <1>3, <1>4

(* The steps that leave token and timeout alone, each with the call it     *)
(* leads to                                                                *)
LEMMA LeadsTo ==
  ASSUME TypeOK, NEW c \in Calls
  PROVE  /\ [at |-> "freezing"] \in Call /\ [at |-> "suspending"] \in Call
         /\ [at |-> "arming"] \in Call /\ [at |-> "terminating"] \in Call
         /\ [at |-> "closing"] \in Call
         /\ At(c, "returning") =>
               LET q == [call[c] EXCEPT !.at = "activating"]
               IN  q \in Call /\ q.at = "activating" /\ q.mark = call[c].mark
         /\ At(c, "activating") =>
               LET q == [call[c] EXCEPT !.at = "resuming"]
               IN  q \in Call /\ q.at = "resuming" /\ q.mark = call[c].mark
  BY Moved DEF Call, At, Coming

LEMMA LooseAlone ==
  ASSUME Loose, NEW c \in Calls,
         \/ ReadRoom(c) \/ Freeze(c) \/ Suspend(c) \/ Activate(c) \/ Resume(c) \/ Mark(c)
         \/ Terminate(c) \/ Close(c) \/ (Return(c) /\ status # "waiting_host")
  PROVE  call' \in [Calls -> Call] /\ OneToken' /\ Armed'
  <1> USE DEF Loose
  <1>1. \E q \in Call :
           /\ Goto(c, q) /\ UNCHANGED switch /\ q.at # "ringing"
           /\ status' = "waiting_host" =>
                 \/ q.at = "arming"
                 \/ /\ status = "waiting_host"
                    /\ call[c].at \notin {"activating", "terminating", "ringing", "arming"}
    <2>1. CASE ReadRoom(c)
      BY <2>1, LeadsTo, IdleCall DEF ReadRoom, At
    <2>2. CASE Freeze(c)
      BY <2>2, LeadsTo DEF Freeze, FreezeTo, At
    <2>3. CASE Suspend(c)
      BY <2>3, LeadsTo DEF Suspend, At
    <2>4. CASE Activate(c)
      BY <2>4, LeadsTo DEF Activate, At
    <2>5. CASE Resume(c)
      BY <2>5, AfterCall DEF Resume, ResumeIf, At, Coming
    <2>6. CASE Mark(c)
      BY <2>6, IdleCall DEF Mark, MarkAs, At
    <2>7. CASE Terminate(c)
      BY <2>7, LeadsTo DEF Terminate, At
    <2>8. CASE Close(c)
      BY <2>8, IdleCall DEF Close, At
    <2>9. CASE Return(c) /\ status # "waiting_host"
      BY <2>9, AfterCall DEF Return, At, Coming
    <2> QED
      BY <2>1, <2>2, <2>3, <2>4, <2>5, <2>6, <2>7, <2>8, <2>9
  <1>2. PICK q \in Call :
           /\ Goto(c, q) /\ UNCHANGED switch /\ q.at # "ringing"
           /\ status' = "waiting_host" =>
                 \/ q.at = "arming"
                 \/ /\ status = "waiting_host"
                    /\ call[c].at \notin {"activating", "terminating", "ringing", "arming"}
    BY <1>1
  <1> QED
    BY <1>2, LooseGoto, Placed

LEMMA LooseArm ==
  ASSUME Loose, NEW c \in Calls, Arm(c)
  PROVE  /\ call' \in [Calls -> Call] /\ {token', alarm'} \subseteq Tokens \cup {NoToken}
         /\ OneToken' /\ Armed'
  <1>1. NewToken \in Tokens /\ \A d \in Calls : At(d, "ringing") => call[d].token # NewToken
    BY NewTokenIsNew DEF Loose, Arm, ArmWith
  <1>2. token' = NewToken /\ alarm' = NewToken
    BY DEF Arm, ArmWith
  <1>3. /\ call' \in [Calls -> Call] /\ call'[c] = Idle
        /\ \A d \in Calls : d # c => call'[d] = call[d]
    BY Placed, IdleCall DEF Loose, Arm, ArmWith
  <1>4. OneToken'
    BY <1>1, <1>2, <1>3, IdleCall DEF OneToken, At
  <1>5. Armed'
    BY <1>1, <1>2, NoTokenApart DEF Armed
  <1> QED
    BY <1>1, <1>2, <1>3, <1>4, <1>5

LEMMA LooseReturn ==
  ASSUME Loose, NEW c \in Calls, Return(c), status = "waiting_host"
  PROVE  /\ call' \in [Calls -> Call] /\ token' = NoToken /\ alarm' = NoToken
         /\ OneToken' /\ Armed'
  <1>1. PICK q \in Call : Goto(c, q) /\ q.at = "activating"
    BY LeadsTo DEF Loose, Return
  <1>2. call' \in [Calls -> Call] /\ call'[c] = q
    BY <1>1, Placed DEF Loose
  <1>3. token' = NoToken /\ alarm' = NoToken
    BY DEF Return
  <1> QED
    BY <1>1, <1>2, <1>3 DEF OneToken, Armed, SomeAt

LEMMA LooseCheckToken ==
  ASSUME Loose, NEW c \in Calls, CheckToken(c)
  PROVE  /\ call' \in [Calls -> Call] /\ token' \in {token, NoToken}
         /\ OneToken' /\ Armed'
  <1>1. alarm' = alarm /\ status' = status /\ call[c].at = "ringing"
    BY DEF CheckToken, At
  <1>2. CASE token = call[c].token
    <2>1. PICK q \in Call : Goto(c, q) /\ q.at = "terminating"
      BY <1>2, LeadsTo DEF Loose, CheckToken
    <2>2. call' \in [Calls -> Call] /\ call'[c] = q
      BY <2>1, Placed DEF Loose
    <2>3. alarm = NoToken
      BY <1>1, <1>2 DEF Loose, OneToken, At
    <2>4. token' = NoToken
      BY <1>2 DEF CheckToken
    <2> QED
      BY <1>1, <2>1, <2>2, <2>3, <2>4 DEF OneToken, Armed, SomeAt
  <1>3. CASE token # call[c].token
    <2>1. Goto(c, Idle) /\ token' = token
      BY <1>3 DEF CheckToken
    <2>2. /\ call' \in [Calls -> Call] /\ call'[c] = Idle
          /\ \A d \in Calls : d # c => call'[d] = call[d]
      BY <2>1, Placed, IdleCall DEF Loose
    <2>3. OneToken'
      BY <1>1, <2>1, <2>2, IdleCall DEF Loose, OneToken, At
    <2>4. Armed'
      BY <1>1, <1>3, <2>1, <2>2, IdleCall DEF Loose, Armed, SomeAt, At
    <2> QED
      BY <2>1, <2>2, <2>3, <2>4
  <1> QED
    BY <1>2, <1>3

LEMMA RingLoose ==
  ASSUME Loose, Ring
  PROVE  Loose'
  <1>1. /\ alarm # NoToken /\ alarm' = NoToken /\ token' = token /\ status' = status
        /\ Spawn([at |-> "ringing", token |-> alarm])
    BY DEF Ring
  <1>2. PICK c \in Calls : Goto(c, [at |-> "ringing", token |-> alarm])
    BY <1>1, Spawned
  <1>3. [at |-> "ringing", token |-> alarm] \in Call
    BY <1>1 DEF Loose, TypeOK, Call
  <1>4. PICK q \in Call : Goto(c, q) /\ q.at = "ringing" /\ q.token = alarm
    BY <1>2, <1>3
  <1>5. call' \in [Calls -> Call] /\ call'[c] = q
    BY <1>4, Placed DEF Loose
  <1>6. OneToken'
    BY <1>1 DEF OneToken
  <1>7. Armed'
    BY <1>1, <1>4, <1>5 DEF Loose, OneToken, Armed, At
  <1>8. orderly' \in BOOLEAN /\ missed' \in BOOLEAN
    BY DEF Loose, TypeOK, Ring, Keep, Calm, Quiet
  <1>9. TypeOK'
    BY <1>1, <1>5, <1>8 DEF Loose, TypeOK, Ring, floor, people, Final
  <1>10. Bounded'
    BY DEF Loose, Bounded, Ring, people
  <1> QED
    BY <1>6, <1>7, <1>9, <1>10 DEF Loose

LEMMA StepLoose ==
  ASSUME Loose, NEW c \in Calls, Step(c)
  PROVE  Loose'
  <1>1. /\ call' \in [Calls -> Call] /\ {token', alarm'} \subseteq Tokens \cup {NoToken}
        /\ OneToken' /\ Armed'
    <2>1. CASE Arm(c)
      BY <2>1, LooseArm
    <2>2. CASE Return(c) /\ status = "waiting_host"
      BY <2>2, LooseReturn
    <2>3. CASE CheckToken(c)
      BY <2>3, LooseCheckToken DEF CheckToken, Loose, TypeOK
    <2>4. CASE \/ ReadRoom(c) \/ Freeze(c) \/ Suspend(c) \/ Activate(c) \/ Resume(c)
               \/ Mark(c) \/ Terminate(c) \/ Close(c) \/ (Return(c) /\ status # "waiting_host")
      <3>1. call' \in [Calls -> Call] /\ OneToken' /\ Armed'
        BY <2>4, LooseAlone
      <3>2. UNCHANGED switch
        BY <2>4 DEF ReadRoom, Freeze, FreezeTo, Suspend, Activate, Resume, ResumeIf, Mark,
                    MarkAs, Terminate, Close, Return
      <3> QED
        BY <3>1, <3>2 DEF Loose, TypeOK, switch
    <2> QED
      BY <2>1, <2>2, <2>3, <2>4 DEF Step
  <1>2. /\ UNCHANGED <<online, todo, checks, departures, orderly, stage, left>>
        /\ missed' \in BOOLEAN /\ away' \in BOOLEAN /\ interval' \in BOOLEAN /\ paused' \in BOOLEAN
        /\ status' \in {"active", "waiting_host"} \cup Final
        /\ auctionState' \in {"open", "resolved", "paused", "waiting_host", "complete"}
    <2> USE DEF Loose, TypeOK, people, floor, history, Final
    <2>1. CASE ReadRoom(c)
      BY <2>1 DEF ReadRoom
    <2>2. CASE Freeze(c)
      BY <2>2 DEF Freeze, FreezeTo
    <2>3. CASE Suspend(c)
      BY <2>3 DEF Suspend
    <2>4. CASE Activate(c)
      BY <2>4 DEF Activate
    <2>5. CASE Resume(c)
      BY <2>5 DEF Resume, ResumeIf
    <2>6. CASE Mark(c)
      BY <2>6 DEF Mark, MarkAs
    <2>7. CASE Terminate(c)
      BY <2>7 DEF Terminate
    <2>8. CASE Close(c)
      BY <2>8 DEF Close
    <2>9. CASE Return(c)
      BY <2>9 DEF Return
    <2>10. CASE Arm(c)
      BY <2>10 DEF Arm, ArmWith
    <2>11. CASE CheckToken(c)
      BY <2>11 DEF CheckToken
    <2> QED
      BY <2>1, <2>2, <2>3, <2>4, <2>5, <2>6, <2>7, <2>8, <2>9, <2>10, <2>11 DEF Step
  <1>3. TypeOK'
    BY <1>1, <1>2 DEF Loose, TypeOK
  <1>4. Bounded'
    BY <1>2 DEF Loose, Bounded
  <1> QED
    BY <1>1, <1>3, <1>4 DEF Loose

LEMMA NextLoose ==
  ASSUME Loose, [Next]_vars
  PROVE  Loose'
  <1>1. CASE UNCHANGED vars
    <2>1. UNCHANGED <<status, auctionState, interval, paused, stage, left, token, alarm,
                      online, todo, away, checks, departures, call, orderly, missed>>
      BY <1>1 DEF vars, floor, switch, people, history
    <2> QED
      BY <2>1 DEF Loose, TypeOK, OneToken, Armed, Bounded, SomeAt, At, Final
  <1> QED
    BY <1>1, EngineLoose, OpenLoose, JoinLoose, SyncLoose, DropLoose, CheckLoose, RingLoose,
       StepLoose DEF Next

-----------------------------------------------------------------------------
(* The phases of an orderly run *)

Phase == OneTab /\ (AtRest \/ Shut \/ Leaving \/ ComingBack)

(* Where no call is under way, the state is at rest or the window is open. *)
LEMMA QuietPhase ==
  ASSUME HostInv, orderly, Quiet
  PROVE  /\ OneTab
         /\ \/ Rest /\ (status = "active" => online # {} /\ ~away)
            \/ Window /\ (online = {} \/ \E t \in online : todo[t] = Greeting)
  <1>1. \A c \in Calls : call[c] = Idle /\ call[c].at = "idle"
    BY IdleCall DEF Quiet
  <1>2. Phase
    BY DEF HostInv, Phases, Phase
  <1>3. ~Leaving
    BY <1>1 DEF Leaving, LeavingAt, At
  <1>4. CASE ComingBack
    <2>1. \A p : "idle" \notin p => ~SomeAt(p)
      BY <1>1 DEF SomeAt
    <2>2. ~SomeAt({"resuming"}) /\ ~SomeAt({"returning", "activating"})
      BY <2>1
    <2>3. /\ status = "active" /\ Unset /\ ~paused /\ interval = ~missed
          /\ auctionState = "waiting_host" => missed
      BY <1>4, <2>2 DEF ComingBack
    <2>4. ~away
      BY <1>1, <1>4 DEF ComingBack, Coming
    <2> QED
      BY <1>2, <1>4, <2>3, <2>4 DEF ComingBack, Rest, Final, Phase
  <1> QED
    BY <1>2, <1>3, <1>4 DEF Phase, AtRest, Shut

LEMMA CalmPhase ==
  ASSUME HostInv, orderly, Calm
  PROVE  OneTab /\ (AtRest \/ (Quiet /\ Window /\ online = {}))
  <1>1. Quiet /\ \A t \in online : todo[t] # Greeting
    BY Greetings DEF Calm, HostInv, TypeOK
  <1> QED
    BY <1>1, QuietPhase DEF AtRest

LEMMA EnginePhase ==
  ASSUME HostInv, Engine, orderly'
  PROVE  Phase'
  <1>1. orderly /\ Calm
    BY DEF Engine, Expire, PutUp, NextUp, Finish, Keep
  <1>2. UNCHANGED <<token, alarm, online, todo, away, call, paused, missed>>
    BY DEF Engine, Expire, PutUp, NextUp, Finish, people, switch, Keep
  <1>3. OneTab' /\ Calm'
    BY <1>1, <1>2, CalmPhase DEF OneTab, Calm, Quiet
  <1>4. AtRest
    BY <1>1, CalmPhase DEF Engine, Expire, PutUp, NextUp, Finish, Window, Frozen
  <1>5. Rest' /\ status = "active"
    BY <1>2, <1>4 DEF Engine, Expire, PutUp, NextUp, Finish, AtRest, Rest, Unset, Final
  <1>6. AtRest'
    BY <1>2, <1>3, <1>4, <1>5 DEF AtRest
  <1> QED
    BY <1>3, <1>6 DEF Phase

LEMMA OpenPhase ==
  ASSUME HostInv, NEW t \in Tabs, Open(t), orderly'
  PROVE  Phase'
  <1>1. orderly /\ Calm /\ online = {} /\ status \notin Final
    BY DEF Open, Keep
  <1>2. Quiet /\ Window
    BY <1>1, CalmPhase DEF AtRest, Rest
  <1>3. Quiet' /\ Window'
    BY <1>2 DEF Open, Quiet, Window, Frozen, floor, switch, Keep
  <1>4. online' = {t} /\ todo'[t] = Greeting
    BY <1>1 DEF Open, HostInv, TypeOK
  <1> QED
    BY <1>3, <1>4 DEF Phase, Shut, OneTab

LEMMA JoinPhase ==
  ASSUME HostInv, NEW t \in Tabs, Join(t), orderly'
  PROVE  Phase'
  <1>1. orderly /\ todo[t] = Greeting /\ t \in online
    BY Greetings DEF Join, HostInv, Bounded, history
  <1>2. Phase
    BY <1>1 DEF HostInv, Phases, Phase
  <1>3. \A s \in online : s = t
    BY <1>1, <1>2 DEF Phase, OneTab
  <1>4. Shut
    BY <1>1, <1>2, <1>3, Greetings DEF Phase, AtRest, Calm, Leaving, ComingBack
  <1> DEFINE q == [at |-> "returning", mark |-> TRUE]
  <1>5. q \in Call /\ q.at = "returning" /\ q.mark = TRUE
    BY DEF Call
  <1>6. Spawn(q)
    BY <1>4 DEF Join, Shut, Window
  <1> HIDE DEF q
  <1>7. PICK c \in Calls : Goto(c, q)
    BY <1>6, Spawned
  <1>8. call'[c] = q /\ \A d \in Calls : d # c => call'[d] = Idle
    BY <1>4, <1>5, <1>7, Placed DEF HostInv, Shut, Quiet
  <1>9. t \in online' /\ todo'[t] # Greeting
    BY <1>1, Greetings DEF Join, HostInv, TypeOK
  <1>10. \A d \in Calls : call'[d].at \in {"returning", "idle"}
    BY <1>5, <1>8, IdleCall
  <1>11. status' = "waiting_host" /\ Frozen'
    BY <1>4 DEF Join, Shut, Window, Frozen, floor, history
  <1>12. ComingBack'
    BY <1>5, <1>8, <1>9, <1>10, <1>11 DEF ComingBack, Coming, SomeAt, Frozen
  <1>13. OneTab'
    BY <1>2 DEF Phase, OneTab, Join
  <1> QED
    BY <1>12, <1>13 DEF Phase

LEMMA SyncPhase ==
  ASSUME HostInv, NEW t \in Tabs, Sync(t), orderly'
  PROVE  Phase'
  <1>1. orderly /\ todo[t] = Tail(Greeting) /\ t \in online
    BY Greetings DEF Sync, HostInv, Bounded, history
  <1>2. Phase
    BY <1>1 DEF HostInv, Phases, Phase
  <1>3. \A s \in online : s = t
    BY <1>1, <1>2 DEF Phase, OneTab
  <1>4. ComingBack
    BY <1>1, <1>2, <1>3, Greetings DEF Phase, AtRest, Calm, Shut, Leaving
  <1>5. OneTab'
    BY <1>2 DEF Phase, OneTab, Sync
  <1>6. t \in online' /\ todo'[t] # Greeting
    BY <1>1, Greetings DEF Sync, HostInv, TypeOK
  <1>7. UNCHANGED <<status, token, alarm, paused, interval, stage, auctionState, away,
                    missed>>
    BY DEF Sync, floor, switch, history
  <1>8. CASE call' = call
    BY <1>4, <1>5, <1>6, <1>7, <1>8 DEF Phase, ComingBack, SomeAt, Frozen, Unset
  <1>9. CASE status = "waiting_host"
    <2> DEFINE q == [at |-> "returning", mark |-> FALSE]
    <2>1. q \in Call /\ q.at = "returning"
      BY DEF Call
    <2>2. Spawn(q)
      BY <1>9 DEF Sync
    <2> HIDE DEF q
    <2>3. PICK c \in Calls : call[c] = Idle /\ Goto(c, q)
      BY <2>2, Spawned
    <2>4. /\ call'[c] = q /\ call[c].at = "idle"
          /\ \A d \in Calls : d # c => call'[d] = call[d]
      BY <2>1, <2>3, Placed, IdleCall DEF HostInv
    <2>5. /\ SomeAt({"activating", "resuming"})' => SomeAt({"activating", "resuming"})
          /\ SomeAt({"resuming"})' => SomeAt({"resuming"})
          /\ SomeAt({"returning", "activating"})'
      BY <2>1, <2>4 DEF SomeAt
    <2>6. \A d \in Calls : call'[d].at \in Coming \cup {"idle"}
      BY <1>4, <2>1, <2>4 DEF ComingBack, Coming
    <2>7. away => \E d \in Calls : call'[d].at \in Coming /\ call'[d].mark = TRUE
      BY <1>4, <2>4 DEF ComingBack, Coming
    <2>8. ComingBack'
      BY <1>4, <1>6, <1>7, <1>9, <2>5, <2>6, <2>7 DEF ComingBack, Frozen, Unset
    <2> QED
      BY <1>5, <2>8 DEF Phase
  <1> QED
    BY <1>8, <1>9 DEF Sync

LEMMA DropPhase ==
  ASSUME HostInv, NEW t \in Tabs, Drop(t), orderly'
  PROVE  Phase'
  <1>1. orderly /\ Calm /\ interval /\ t \in online
    BY DEF Drop, Depart, Keep
  <1>2. OneTab /\ AtRest
    BY <1>1, CalmPhase DEF Window, Frozen
  <1>3. Entered(t)
    BY <1>1, Greetings DEF Calm, Entered
  <1> DEFINE q == [at |-> "reading"]
  <1>4. q \in Call /\ q.at = "reading"
    BY DEF Call
  <1>5. Spawn(q)
    BY <1>3 DEF Drop
  <1> HIDE DEF q
  <1>6. PICK c \in Calls : Goto(c, q)
    BY <1>5, Spawned
  <1>7. call'[c] = q /\ \A d \in Calls : d # c => call'[d] = Idle
    BY <1>1, <1>4, <1>6, Placed DEF HostInv, Calm, Quiet
  <1>8. online' = {}
    BY <1>1, <1>2 DEF Drop, Depart, OneTab
  <1>9. Rest' /\ status' = "active" /\ interval'
    BY <1>1, <1>2 DEF Drop, Depart, AtRest, Rest, Unset, floor, switch, Keep, Final
  <1>10. LeavingAt(c)'
    BY <1>4, <1>7, <1>9 DEF LeavingAt, At
  <1>11. Leaving'
    BY <1>7, <1>8, <1>10 DEF Leaving
  <1> QED
    BY <1>8, <1>11 DEF Phase, OneTab

LEMMA CheckPhase ==
  ASSUME HostInv, Check, orderly'
  PROVE  Phase'
  <1>1. orderly /\ Calm
    BY DEF Check, Keep
  <1>2. OneTab /\ (AtRest \/ (Quiet /\ Window /\ online = {}))
    BY <1>1, CalmPhase
  <1>3. UNCHANGED <<status, auctionState, interval, paused, stage, token, alarm, online,
                    todo, missed>>
    BY DEF Check, floor, switch, Keep
  <1>4. OneTab'
    BY <1>2, <1>3 DEF OneTab
  <1>5. CASE call' = call /\ away' \in {away, FALSE}
    <2>1. Calm' /\ Quiet'
      BY <1>1, <1>3, <1>5 DEF Calm, Quiet
    <2>2. CASE AtRest
      <3>1. Rest'
        BY <1>3, <2>2 DEF AtRest, Rest, Unset
      <3>2. status = "active" => online' # {} /\ ~away'
        BY <1>3, <1>5, <2>2 DEF AtRest
      <3> QED
        BY <1>3, <1>4, <2>1, <3>1, <3>2 DEF Phase, AtRest
    <2>3. CASE Window /\ online = {}
      BY <1>3, <1>4, <2>1, <2>3 DEF Phase, Shut, Window, Frozen
    <2> QED
      BY <1>2, <2>2, <2>3
  <1>6. CASE away /\ status \notin Final
    <2>1. Quiet /\ Window /\ online = {}
      BY <1>2, <1>6 DEF AtRest, Rest
    <2> DEFINE q == [at |-> "reading"]
    <2>2. q \in Call /\ q.at = "reading"
      BY DEF Call
    <2>3. Spawn(q)
      BY <1>6 DEF Check, TearDown
    <2> HIDE DEF q
    <2>4. PICK c \in Calls : Goto(c, q)
      BY <2>3, Spawned
    <2>5. call'[c] = q /\ \A d \in Calls : d # c => call'[d] = Idle
      BY <2>1, <2>2, <2>4, Placed DEF HostInv, Quiet
    <2>6. Window' /\ online' = {}
      BY <1>3, <2>1 DEF Window, Frozen
    <2>7. LeavingAt(c)'
      BY <2>2, <2>5, <2>6 DEF LeavingAt, At
    <2> QED
      BY <1>4, <2>5, <2>6, <2>7 DEF Phase, Leaving
  <1> QED
    BY <1>5, <1>6 DEF Check, TearDown, HostInv, TypeOK

LEMMA RingPhase ==
  ASSUME HostInv, Ring, orderly'
  PROVE  Phase'
  <1>1. orderly /\ Calm /\ online = {} /\ alarm # NoToken
    BY DEF Ring, Keep
  <1>2. Quiet /\ Window
    BY <1>1, CalmPhase DEF AtRest, Rest, Unset
  <1>3. PICK c \in Calls : Goto(c, [at |-> "ringing", token |-> alarm])
    BY Spawned DEF Ring
  <1>4. [at |-> "ringing", token |-> alarm] \in Call
    BY <1>1 DEF HostInv, TypeOK, Call
  <1>5. PICK q \in Call : Goto(c, q) /\ q.at = "ringing" /\ q.token = alarm
    BY <1>3, <1>4
  <1>6. call'[c] = q /\ \A d \in Calls : d # c => call'[d] = Idle
    BY <1>2, <1>5, Placed DEF HostInv, Quiet
  <1>7. /\ status' = "waiting_host" /\ Frozen' /\ alarm' = NoToken /\ token' = alarm
        /\ online' = {}
    BY <1>1, <1>2 DEF Ring, Window, Frozen, floor, people, Keep
  <1>8. LeavingAt(c)'
    BY <1>5, <1>6, <1>7 DEF LeavingAt, At
  <1> QED
    BY <1>6, <1>7, <1>8 DEF Phase, Leaving, OneTab

(* A step of the one call that leaves *)
Out(c) ==
    \/ ReadRoom(c) \/ Freeze(c) \/ Suspend(c) \/ Arm(c)
    \/ CheckToken(c) \/ Terminate(c) \/ Close(c)

LEMMA LeavingSteps ==
  ASSUME HostInv, NEW c \in Calls, Out(c), orderly'
  PROVE  Phase'
  <1>1. /\ orderly /\ UNCHANGED <<online, todo, away, stage>>
        /\ call[c].at \notin Coming \cup {"idle"}
    BY DEF Out, ReadRoom, Freeze, FreezeTo, Suspend, Arm, ArmWith, CheckToken, Terminate,
           Close, people, floor, history, At, Coming
  <1>2. Phase
    BY <1>1 DEF HostInv, Phases, Phase
  <1>3. Leaving
    BY <1>1, <1>2, IdleCall DEF Phase, AtRest, Shut, Calm, Quiet, ComingBack
  <1>4. PICK e \in Calls : LeavingAt(e) /\ \A d \in Calls : d # e => call[d] = Idle
    BY <1>3 DEF Leaving
  <1>5. e = c
    BY <1>1, <1>4, IdleCall
  <1>6. LeavingAt(c) /\ \A d \in Calls : d # c => call[d] = Idle
    BY <1>4, <1>5
  <1>7. online = {} /\ online' = {} /\ OneTab'
    BY <1>1, <1>3 DEF Leaving, OneTab
  <1>8. \A q \in Call : Goto(c, q) =>
           call'[c] = q /\ \A d \in Calls : d # c => call'[d] = Idle
    BY <1>6, Placed DEF HostInv
  <1>9. \A q \in Call : Goto(c, q) /\ LeavingAt(c)' => Phase'
    BY <1>7, <1>8 DEF Phase, Leaving
  <1>10. Goto(c, Idle) => Quiet'
    BY <1>8, IdleCall DEF Quiet
  <1>11. CASE ReadRoom(c)
    <2>1. UNCHANGED <<status, auctionState, interval, paused, token, alarm, missed>>
      BY <1>11 DEF ReadRoom, floor, switch, history
    <2>2. (Rest /\ status = "active" /\ interval) \/ Window
      BY <1>6, <1>11 DEF ReadRoom, LeavingAt, At
    <2>3. CASE status = "active"
      <3>1. PICK q \in Call : Goto(c, q) /\ q.at = "freezing"
        BY <1>11, <2>3, LeadsTo DEF ReadRoom, HostInv
      <3>2. Rest' /\ status' = "active" /\ interval'
        BY <1>1, <2>1, <2>2, <2>3 DEF Rest, Unset, Window
      <3>3. LeavingAt(c)'
        BY <1>8, <3>1, <3>2 DEF LeavingAt, At
      <3> QED
        BY <1>9, <3>1, <3>3
    <2>4. CASE status # "active"
      <3>1. Quiet'
        BY <1>10, <1>11, <2>4 DEF ReadRoom
      <3>2. Window'
        BY <1>1, <2>1, <2>2, <2>4 DEF Window, Frozen
      <3> QED
        BY <1>7, <3>1, <3>2 DEF Phase, Shut
    <2> QED
      BY <2>3, <2>4
  <1>12. CASE Freeze(c)
    <2>1. PICK q \in Call : Goto(c, q) /\ q.at = "suspending"
      BY <1>12, LeadsTo DEF Freeze, FreezeTo, HostInv
    <2>2. Rest /\ status = "active" /\ interval
      BY <1>6, <1>12 DEF Freeze, FreezeTo, LeavingAt, At
    <2>3. paused = FALSE /\ missed = FALSE /\ interval = TRUE
      BY <2>2 DEF Rest, HostInv, TypeOK
    <2>4. paused' \in BOOLEAN /\ missed' = ~paused' /\ ~interval'
      <3>1. /\ paused' \in {paused, paused \/ interval} /\ interval' = FALSE
            /\ missed' = (missed \/ (interval /\ ~paused'))
        BY <1>12 DEF Freeze, FreezeTo
      <3>2. paused' = FALSE \/ paused' = TRUE
        BY <2>3, <3>1
      <3> QED
        BY <2>3, <3>1, <3>2
    <2>5. stage' = "countdown" /\ Unset' /\ status' = "active"
      BY <1>12, <2>2 DEF Freeze, FreezeTo, Unset, Rest, switch
    <2>6. Frozen'
      BY <2>4, <2>5 DEF Frozen
    <2>7. LeavingAt(c)'
      BY <1>8, <2>1, <2>5, <2>6 DEF LeavingAt, At
    <2> QED
      BY <1>9, <2>1, <2>7
  <1>13. CASE Suspend(c)
    <2>1. PICK q \in Call : Goto(c, q) /\ q.at = "arming"
      BY <1>13, LeadsTo DEF Suspend, HostInv
    <2>2. Frozen /\ Unset
      BY <1>6, <1>13 DEF Suspend, LeavingAt, At
    <2>3. status' = "waiting_host" /\ Frozen' /\ Unset'
      BY <1>13, <2>2 DEF Suspend, Frozen, Unset, switch, floor, history
    <2>4. LeavingAt(c)'
      BY <1>8, <2>1, <2>3 DEF LeavingAt, At
    <2> QED
      BY <1>9, <2>1, <2>4
  <1>14. CASE Arm(c)
    <2>1. Quiet'
      BY <1>10, <1>14 DEF Arm, ArmWith
    <2>2. status = "waiting_host" /\ Frozen
      BY <1>6, <1>14 DEF Arm, ArmWith, LeavingAt, At
    <2>3. NewToken \in Tokens
      BY <1>14, NewTokenIsNew DEF Arm, ArmWith, HostInv
    <2>4. alarm' = NewToken /\ token' = NewToken
      BY <1>14 DEF Arm, ArmWith
    <2>5. Window'
      BY <1>14, <2>2, <2>3, <2>4, NoTokenApart DEF Arm, ArmWith, Window, Frozen, history
    <2> QED
      BY <1>7, <2>1, <2>5 DEF Phase, Shut
  <1>15. CASE CheckToken(c)
    <2>1. /\ status = "waiting_host" /\ Frozen
          /\ alarm = NoToken /\ token = call[c].token
      BY <1>6, <1>15 DEF CheckToken, LeavingAt, At
    <2>2. PICK q \in Call : Goto(c, q) /\ q.at = "terminating"
      BY <1>15, <2>1, LeadsTo DEF CheckToken, HostInv
    <2>3. status' = "waiting_host" /\ Frozen' /\ Unset'
      BY <1>15, <2>1 DEF CheckToken, Frozen, Unset, floor, history
    <2>4. LeavingAt(c)'
      BY <1>8, <2>2, <2>3 DEF LeavingAt, At
    <2> QED
      BY <1>9, <2>2, <2>4
  <1>16. CASE Terminate(c)
    <2>1. PICK q \in Call : Goto(c, q) /\ q.at = "closing"
      BY <1>16, LeadsTo DEF Terminate, HostInv
    <2>2. Frozen /\ Unset
      BY <1>6, <1>16 DEF Terminate, LeavingAt, At
    <2>3. status' = "terminated" /\ ~interval' /\ stage' = "countdown" /\ Unset'
      BY <1>16, <2>2 DEF Terminate, Frozen, Unset, switch, floor
    <2>4. LeavingAt(c)'
      BY <1>8, <2>1, <2>3 DEF LeavingAt, At
    <2> QED
      BY <1>9, <2>1, <2>4
  <1>17. CASE Close(c)
    <2>1. Quiet'
      BY <1>10, <1>17 DEF Close
    <2>2. status = "terminated" /\ stage = "countdown" /\ Unset
      BY <1>6, <1>17 DEF Close, LeavingAt, At
    <2>3. Rest' /\ status' = "terminated"
      BY <1>17, <2>2 DEF Close, Rest, Unset, switch, Final
    <2>4. \A t \in Tabs : todo'[t] = <<>>
      BY <1>1, <1>7 DEF HostInv, Bounded
    <2> QED
      BY <1>7, <2>1, <2>3, <2>4 DEF Phase, AtRest, Calm
  <1> QED
    BY <1>11, <1>12, <1>13, <1>14, <1>15, <1>16, <1>17 DEF Out

(* A step of a call that comes back *)
Back(c) == Return(c) \/ Activate(c) \/ Resume(c) \/ Mark(c)

LEMMA BackSteps ==
  ASSUME HostInv, NEW c \in Calls, Back(c), orderly'
  PROVE  Phase'
  <1>1. orderly /\ UNCHANGED <<online, todo, stage>> /\ call[c].at \in Coming
    <2> USE DEF people, floor, history, At, Coming
    <2>1. CASE Return(c)
      BY <2>1 DEF Return
    <2>2. CASE Activate(c)
      BY <2>2 DEF Activate
    <2>3. CASE Resume(c)
      BY <2>3 DEF Resume, ResumeIf
    <2>4. CASE Mark(c)
      BY <2>4 DEF Mark, MarkAs
    <2> QED
      BY <2>1, <2>2, <2>3, <2>4 DEF Back
  <1>2. Phase
    BY <1>1 DEF HostInv, Phases, Phase
  <1>3. ComingBack
    <2>1. call[c] # Idle
      BY <1>1, IdleCall DEF Coming
    <2>2. Leaving => LeavingAt(c)
      BY <2>1 DEF Leaving
    <2>3. ~LeavingAt(c)
      BY <1>1 DEF LeavingAt, At, Coming
    <2> QED
      BY <1>2, <2>1, <2>2, <2>3 DEF Phase, AtRest, Shut, Calm, Quiet
  <1>4. OneTab'
    BY <1>1, <1>2 DEF Phase, OneTab
  <1>5. \E t \in online' : todo'[t] # Greeting
    BY <1>1, <1>3 DEF ComingBack
  <1>6. \A q \in Call : Goto(c, q) =>
           /\ call'[c] = q /\ \A d \in Calls : d # c => call'[d] = call[d]
           /\ q.at \in Coming \cup {"idle"} =>
                 \A d \in Calls : call'[d].at \in Coming \cup {"idle"}
    BY <1>3, Placed DEF HostInv, ComingBack
  <1>7. CASE Return(c) /\ status = "waiting_host"
    <2>1. PICK q \in Call : Goto(c, q) /\ q.at = "activating" /\ q.mark = call[c].mark
      BY <1>7, LeadsTo DEF Return, HostInv
    <2>2. Unset' /\ status' = "waiting_host" /\ Frozen' /\ away' = away
      BY <1>3, <1>7 DEF Return, Unset, Frozen, ComingBack, floor, people, history
    <2>3. SomeAt({"returning", "activating"})'
      BY <1>6, <2>1 DEF SomeAt
    <2>4. SomeAt({"resuming"})' => SomeAt({"resuming"})
      BY <1>6, <2>1 DEF SomeAt
    <2>5. away => \E d \in Calls : call'[d].at \in Coming /\ call'[d].mark = TRUE
      BY <1>3, <1>6, <2>1 DEF ComingBack, Coming
    <2>6. \A d \in Calls : call'[d].at \in Coming \cup {"idle"}
      BY <1>6, <2>1 DEF Coming
    <2>7. ComingBack'
      BY <1>3, <1>5, <1>7, <2>2, <2>3, <2>4, <2>5, <2>6 DEF ComingBack, Frozen
    <2> QED
      BY <1>4, <2>7 DEF Phase
  <1>8. CASE Return(c) /\ status # "waiting_host"
    <2>1. PICK q \in Call :
             /\ Goto(c, q) /\ q.at \in {"marking", "idle"}
             /\ call[c].mark = TRUE => q.at = "marking" /\ q.mark = TRUE
      BY <1>1, <1>8, AfterCall DEF Return, HostInv
    <2>2. UNCHANGED <<status, auctionState, interval, paused, token, alarm, away, missed>>
      BY <1>8 DEF Return, floor, switch, people, history
    <2>3. /\ SomeAt({"activating", "resuming"})' => SomeAt({"activating", "resuming"})
          /\ SomeAt({"resuming"})' <=> SomeAt({"resuming"})
      BY <1>6, <1>8, <2>1 DEF SomeAt, Return, At
    <2>4. away => \E d \in Calls : call'[d].at \in Coming /\ call'[d].mark = TRUE
      BY <1>3, <1>6, <2>1 DEF ComingBack, Coming
    <2>5. \A d \in Calls : call'[d].at \in Coming \cup {"idle"}
      BY <1>6, <2>1 DEF Coming
    <2>6. ComingBack'
      BY <1>1, <1>3, <1>5, <1>8, <2>2, <2>3, <2>4, <2>5 DEF ComingBack, Unset
    <2> QED
      BY <1>4, <2>6 DEF Phase
  <1>9. CASE Activate(c)
    <2>1. PICK q \in Call : Goto(c, q) /\ q.at = "resuming" /\ q.mark = call[c].mark
      BY <1>9, LeadsTo DEF Activate, HostInv
    <2>2. Unset /\ (status = "waiting_host" => Frozen)
      BY <1>3, <1>9 DEF Activate, At, ComingBack, SomeAt
    <2>3. status' = "active" /\ UNCHANGED <<auctionState, interval, paused, token, alarm,
                                            away, missed>>
      BY <1>9 DEF Activate, floor, switch, people, history
    <2>4. SomeAt({"resuming"})'
      BY <1>6, <2>1 DEF SomeAt
    <2>5. away => \E d \in Calls : call'[d].at \in Coming /\ call'[d].mark = TRUE
      BY <1>3, <1>6, <2>1 DEF ComingBack, Coming
    <2>6. \A d \in Calls : call'[d].at \in Coming \cup {"idle"}
      BY <1>6, <2>1 DEF Coming
    <2>7. IF paused THEN ~interval /\ ~missed
          ELSE interval = ~missed /\ (auctionState = "waiting_host" => missed)
      BY <1>3, <2>2 DEF ComingBack, Frozen, HostInv, TypeOK
    <2>8. stage = "countdown" /\ Unset'
      BY <1>3, <2>2, <2>3 DEF ComingBack, Unset
    <2>9. ComingBack'
      BY <1>1, <1>5, <2>3, <2>4, <2>5, <2>6, <2>7, <2>8 DEF ComingBack
    <2> QED
      BY <1>4, <2>9 DEF Phase
  <1>10. CASE Resume(c)
    <2>1. PICK q \in Call :
             /\ Goto(c, q) /\ q.at \in {"marking", "idle"}
             /\ call[c].mark = TRUE => q.at = "marking" /\ q.mark = TRUE
      BY <1>1, <1>10, AfterCall DEF Resume, ResumeIf, HostInv
    <2>2. status = "active" /\ Unset
      BY <1>3, <1>10 DEF Resume, ResumeIf, At, ComingBack, SomeAt
    <2>3. status' = "active" /\ Unset' /\ away' = away
      BY <1>10, <2>2 DEF Resume, ResumeIf, Unset, switch, people
    <2>4. /\ ~paused' /\ interval' = ~missed'
          /\ auctionState' = "waiting_host" => missed'
      BY <1>3, <1>10, <2>2 DEF Resume, ResumeIf, ComingBack, history
    <2>5. away => \E d \in Calls : call'[d].at \in Coming /\ call'[d].mark = TRUE
      BY <1>3, <1>6, <2>1 DEF ComingBack, Coming
    <2>6. \A d \in Calls : call'[d].at \in Coming \cup {"idle"}
      BY <1>6, <2>1 DEF Coming
    <2>7. ComingBack'
      BY <1>1, <1>3, <1>5, <2>3, <2>4, <2>5, <2>6 DEF ComingBack
    <2> QED
      BY <1>4, <2>7 DEF Phase
  <1>11. CASE Mark(c)
    <2>1. Goto(c, Idle) /\ call[c].at = "marking" /\ away' = FALSE
      BY <1>11 DEF Mark, MarkAs, At
    <2>2. UNCHANGED <<status, auctionState, interval, paused, token, alarm, missed>>
      BY <1>11 DEF Mark, MarkAs, floor, switch, history
    <2>3. /\ SomeAt({"activating", "resuming"})' => SomeAt({"activating", "resuming"})
          /\ SomeAt({"resuming"})' <=> SomeAt({"resuming"})
          /\ SomeAt({"returning", "activating"}) => SomeAt({"returning", "activating"})'
      BY <1>6, <2>1, IdleCall DEF SomeAt
    <2>4. \A d \in Calls : call'[d].at \in Coming \cup {"idle"}
      BY <1>6, <2>1, IdleCall DEF Coming
    <2>5. ComingBack'
      BY <1>1, <1>3, <1>5, <2>1, <2>2, <2>3, <2>4 DEF ComingBack, Unset, Frozen
    <2> QED
      BY <1>4, <2>5 DEF Phase
  <1> QED
    BY <1>7, <1>8, <1>9, <1>10, <1>11 DEF Back

-----------------------------------------------------------------------------
(* The inductive invariant and what follows from it *)

LEMMA PhaseNext ==
  ASSUME HostInv, [Next]_vars
  PROVE  Phases'
  <1> SUFFICES ASSUME orderly' PROVE Phase'
    BY DEF Phases, Phase
  <1>1. CASE UNCHANGED vars
    <2>1. UNCHANGED <<status, auctionState, interval, paused, stage, left, token, alarm,
                      online, todo, away, checks, departures, call, orderly, missed>>
      BY <1>1 DEF vars, floor, switch, people, history
    <2>2. Phase
      BY <2>1 DEF HostInv, Phases, Phase
    <2>3. OneTab' /\ Calm' = Calm /\ Quiet' = Quiet
      BY <2>1, <2>2 DEF Phase, OneTab, Calm, Quiet
    <2>4. Rest' = Rest /\ Window' = Window /\ Unset' = Unset /\ Frozen' = Frozen
      BY <2>1 DEF Rest, Window, Unset, Frozen, Final
    <2>5. CASE AtRest
      BY <2>1, <2>3, <2>4, <2>5 DEF Phase, AtRest
    <2>6. CASE Shut
      BY <2>1, <2>3, <2>4, <2>6 DEF Phase, Shut
    <2>7. CASE Leaving
      <3>1. PICK c \in Calls : LeavingAt(c) /\ \A d \in Calls : d # c => call[d] = Idle
        BY <2>7 DEF Leaving
      <3>2. LeavingAt(c)'
        BY <2>1, <2>4, <3>1 DEF LeavingAt, At
      <3> QED
        BY <2>1, <2>3, <2>7, <3>1, <3>2 DEF Phase, Leaving
    <2>8. CASE ComingBack
      <3>1. \A p : SomeAt(p)' = SomeAt(p)
        BY <2>1 DEF SomeAt
      <3> QED
        BY <2>1, <2>3, <2>4, <2>8, <3>1 DEF Phase, ComingBack
    <2> QED
      BY <2>2, <2>5, <2>6, <2>7, <2>8 DEF Phase
  <1>2. CASE \E c \in Calls : Step(c)
    <2>1. PICK c \in Calls : Step(c)
      BY <1>2
    <2>2. Out(c) \/ Back(c)
      BY <2>1 DEF Step, Out, Back
    <2> QED
      BY <2>2, LeavingSteps, BackSteps
  <1> QED
    BY <1>1, <1>2, EnginePhase, OpenPhase, JoinPhase, SyncPhase, DropPhase, CheckPhase,
       RingPhase DEF Next

LEMMA InitHostInv == Init => HostInv
  <1> SUFFICES ASSUME Init PROVE HostInv
    OBVIOUS
  <1>1. Idle \in Call /\ Idle.at = "idle" /\ HostAssumption
    BY IdleCall, HostAssumption
  <1>2. 1 \in Tabs /\ MaxDepartures \in Nat /\ Players \in Nat
    BY HostAssumption DEF Tabs
  <1>3. TypeOK
    <2>1. left \in 0 .. Players /\ checks \in 0 .. MaxDepartures /\ departures \in 0 .. MaxDepartures
      BY <1>2 DEF Init
    <2>2. online \subseteq Tabs /\ todo \in [Tabs -> {Greeting, Tail(Greeting), <<>>}]
      BY <1>2 DEF Init
    <2>3. call \in [Calls -> Call]
      BY <1>1 DEF Init
    <2> QED
      BY <2>1, <2>2, <2>3 DEF Init, TypeOK
  <1>4. OneToken /\ Armed
    BY DEF Init, OneToken, Armed
  <1>5. Bounded
    BY <1>2 DEF Init, Bounded
  <1>6. OneTab /\ Calm /\ Rest /\ online # {} /\ ~away
    BY DEF Init, OneTab, Calm, Quiet, Rest, Unset, Final
  <1>7. Phases
    BY <1>6 DEF Phases, AtRest
  <1> QED
    BY <1>3, <1>4, <1>5, <1>7 DEF HostInv

LEMMA HostInvariant == Spec => []HostInv
  <1>1. HostInv /\ [Next]_vars => HostInv'
    BY NextLoose, PhaseNext DEF HostInv, Loose
  <1> QED
    BY InitHostInv, <1>1, PTL DEF Spec

(* The rooms.status column, the keys of the Redis store, the timeouts and  *)
(* every handler under way keep their types, for any number of tabs and    *)
(* of handlers at once: hostDeadManService never makes a token that an     *)
(* earlier timeout still carries.                                          *)
THEOREM HostTyped == Spec => []TypeOK
  BY HostInvariant, PTL DEF HostInv

(* handleHostDisconnect, handleHostReconnect and handleHostTimeout, in any *)
(* interleaving: a waiting room whose handlers have ended has a timeout    *)
(* whose token is the one in Redis.                                        *)
THEOREM WaitingStaysArmed == Spec => []WaitingIsArmed
  <1>1. HostInv => WaitingIsArmed
    <2> SUFFICES ASSUME HostInv, status = "waiting_host", Quiet
                 PROVE  alarm # NoToken /\ alarm = token
      BY DEF WaitingIsArmed
    <2>1. \A c \in Calls : call[c].at = "idle"
      BY IdleCall DEF Quiet
    <2>2. alarm # NoToken
      BY <2>1 DEF HostInv, Armed, SomeAt, At
    <2> QED
      BY <2>2 DEF HostInv, OneToken
  <1> QED
    BY HostInvariant, <1>1, PTL

(* README.md, dead man's switch: while nothing overlapped, the open window *)
(* is frozen with its player and its deadline, and of a closed one nothing *)
(* is left.                                                                *)
THEOREM WindowStaysSound == Spec => []WindowSound
  <1>1. HostInv => WindowSound
    <2> SUFFICES ASSUME HostInv, orderly, Quiet
                 PROVE  FrozenInWindow /\ NothingLeftOver
      BY DEF WindowSound
    <2>1. Rest \/ Window
      BY QuietPhase
    <2>2. CASE Rest
      BY <2>2 DEF Rest, Unset, Final, FrozenInWindow, NothingLeftOver
    <2>3. CASE Window
      BY <2>3 DEF Window, Frozen, FrozenInWindow, NothingLeftOver
    <2> QED
      BY <2>1, <2>2, <2>3
  <1> QED
    BY HostInvariant, <1>1, PTL

(* roomHandler's join and state sync cancel the timeout of a host that has *)
(* come back: while nothing overlapped, a window that is open belongs to a *)
(* host without a page, or whose page has still to be heard.               *)
THEOREM HostStaysAwayInWindow == Spec => []HostAwayInWindow
  <1>1. HostInv => HostAwayInWindow
    <2> SUFFICES ASSUME HostInv, orderly, alarm # NoToken, Quiet,
                        NEW t \in online
                 PROVE  todo[t] # <<>>
      BY DEF HostAwayInWindow
    <2>1. OneTab /\ \E s \in online : todo[s] = Greeting
      BY QuietPhase DEF Rest, Unset
    <2>2. todo[t] = Greeting
      BY <2>1 DEF OneTab
    <2> QED
      BY <2>2, Greetings
  <1> QED
    BY HostInvariant, <1>1, PTL

=============================================================================
