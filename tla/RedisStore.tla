----------------------------- MODULE RedisStore -----------------------------
(***************************************************************************)
(* The Redis client with its memory fallback, for one key: the copy in     *)
(* Redis, the copy in the server's memory, the connection between them,    *)
(* and the changes of isRedisHealthy.                                      *)
(*                                                                         *)
(* A command goes to the memory copy at once and, while Redis is healthy,  *)
(* to Redis over one connection that keeps the order.  Commands that are   *)
(* under way when the connection is lost are sent again when it is back    *)
(* (the raw client's default; maxRetriesPerRequest is null, none fails).   *)
(*                                                                         *)
(* truth is the specification: the register the callers believe in, that   *)
(* takes every command at once.  History variables: parted, that the       *)
(* copies may have come apart from it; behind, that it has changed while   *)
(* Redis was away.                                                         *)
(***************************************************************************)
EXTENDS Naturals, Sequences

CONSTANTS
    Values,
    None,
    MaxCommands      \* bound on the commands under way

ASSUME StoreAssumption == None \notin Values /\ MaxCommands \in Nat

VARIABLES
    kind,            \* what the key is used for
    healthy,         \* isRedisHealthy
    memory,          \* memoryStore or memoryHashes
    stored,          \* the copy in Redis
    sent,            \* commands sent and not yet answered
    truth,
    parted,          \* history
    behind           \* history

vars == <<kind, healthy, memory, stored, sent, truth, parted, behind>>

Kinds == {"string", "lock", "hash"}

(* A value, and whether it expires *)
Copy == [value : Values, ttl : BOOLEAN] \cup {[value |-> None, ttl |-> FALSE]}

Nothing == [value |-> None, ttl |-> FALSE]

Command ==
    [op : {"set", "setnx"}, copy : Copy \ {Nothing}]
    \cup [op : {"eval"}, token : Values]
    \cup [op : {"get", "del"}]

TypeOK ==
    /\ kind \in Kinds
    /\ healthy \in BOOLEAN /\ parted \in BOOLEAN /\ behind \in BOOLEAN
    /\ {memory, stored, truth} \subseteq Copy
    /\ sent \in Seq(Command) /\ Len(sent) =< MaxCommands

Init ==
    /\ kind \in Kinds
    /\ healthy \in BOOLEAN
    /\ memory = Nothing /\ stored = Nothing /\ truth = Nothing
    /\ sent = <<>>
    /\ parted = FALSE /\ behind = FALSE

-----------------------------------------------------------------------------
(* The answer to a get of a string is written back into memory. *)
ReadUnderWay == kind = "string" /\ \E i \in DOMAIN sent : sent[i].op = "get"

(* A command goes to Redis if it is there. *)
Forward(command) ==
    /\ Len(sent) < MaxCommands
    /\ sent' = IF healthy THEN Append(sent, command) ELSE sent

(* What a command that sets or clears both copies does to the histories: a *)
(* read on its way may bring the old value back into memory; otherwise it  *)
(* brings the copies together.                                             *)
Written ==
    /\ parted' = ReadUnderWay
    /\ behind' = ~healthy

SetBoth(copy, mirror) ==
    /\ kind \in {"string", "hash"}
    /\ kind = "hash" => copy.ttl
    /\ memory' = mirror
    /\ truth' = copy
    /\ Forward([op |-> "set", copy |-> copy])
    /\ Written
    /\ UNCHANGED <<kind, healthy, stored>>

(* Fault: memory is only written when Redis is away. *)
SetRedis(copy) == SetBoth(copy, IF healthy THEN memory ELSE copy)

(* set and hset, the latter with the expire that follows: that one does    *)
(* not reach the hashes in memory.                                         *)
Set(copy) == SetBoth(copy, [copy EXCEPT !.ttl = @ /\ kind = "string"])

Grant(token) ==
    LET copy == [value |-> token, ttl |-> TRUE]
    IN  /\ kind = "lock"
        /\ memory' = copy /\ truth' = copy
        /\ Forward([op |-> "setnx", copy |-> copy])
        /\ behind' = (behind \/ ~healthy)
        /\ UNCHANGED <<kind, healthy, stored, parted>>

(* Fault: NX is left to Redis. *)
SetNxRedis(token) == stored = Nothing /\ Grant(token)

(* set with NX and PX: granted or refused by the memory copy alone *)
SetNx(token) == memory = Nothing /\ Grant(token)

DelBoth(mirror) ==
    /\ memory' = mirror
    /\ truth' = Nothing
    /\ Forward([op |-> "del"])
    /\ Written
    /\ UNCHANGED <<kind, healthy, stored>>

(* Fault: the memory copy stays. *)
DelRedis == DelBoth(memory)

(* del and hdel *)
Del == DelBoth(Nothing)

(* eval of the release script: on Redis, or on memory *)
Eval(token) ==
    /\ kind = "lock"
    /\ Forward([op |-> "eval", token |-> token])
    /\ memory' = IF ~healthy /\ memory.value = token THEN Nothing ELSE memory
    /\ truth' = IF truth.value = token THEN Nothing ELSE truth
    /\ parted' = (parted \/ healthy)
    /\ behind' = (behind \/ ~healthy)
    /\ UNCHANGED <<kind, healthy, stored>>

(* get and hget, sent to Redis; without it they are answered from memory   *)
(* at once.                                                                *)
Get ==
    /\ kind # "lock" /\ healthy
    /\ Forward([op |-> "get"])
    /\ UNCHANGED <<kind, healthy, memory, stored, truth, parted, behind>>

-----------------------------------------------------------------------------
(* Redis takes the next command and the answer comes back. *)

After(command) ==
    CASE command.op = "set" -> command.copy
      [] command.op = "setnx" -> IF stored = Nothing THEN command.copy ELSE stored
      [] command.op = "del" -> Nothing
      [] command.op = "eval" -> IF stored.value = command.token THEN Nothing ELSE stored
      [] command.op = "get" -> stored

(* What a get found is written back, without the key's expiry. *)
Answer ==
    /\ healthy /\ sent # <<>>
    /\ stored' = After(Head(sent))
    /\ sent' = Tail(sent)
    /\ memory' = IF Head(sent).op = "get" /\ kind = "string" /\ stored # Nothing
                 THEN [stored EXCEPT !.ttl = FALSE] ELSE memory
    /\ UNCHANGED <<kind, healthy, truth, parted, behind>>

(* Copies written together expire together, long after an answer. *)
Expire ==
    LET Left(copy) == IF copy.ttl THEN Nothing ELSE copy
    IN  /\ truth.ttl
        /\ healthy => sent = <<>>
        /\ truth' = Nothing
        /\ memory' = Left(memory) /\ stored' = Left(stored)
        /\ parted' = (parted \/ (truth.ttl /\ ~memory.ttl))
        /\ behind' = (behind \/ ~healthy)
        /\ UNCHANGED <<kind, healthy, sent>>

(* error, close, reconnecting *)
GoDown ==
    /\ healthy
    /\ healthy' = FALSE
    /\ UNCHANGED <<kind, memory, stored, sent, truth, parted, behind>>

(* connect, ready *)
ComeUp ==
    /\ ~healthy
    /\ healthy' = TRUE
    /\ parted' = (parted \/ behind)
    /\ behind' = FALSE
    /\ UNCHANGED <<kind, memory, stored, sent, truth>>

Next ==
    \/ \E copy \in Copy \ {Nothing} : Set(copy)
    \/ \E token \in Values : SetNx(token) \/ Eval(token)
    \/ Del \/ Get
    \/ Answer \/ Expire \/ GoDown \/ ComeUp

Spec == Init /\ [][Next]_vars

-----------------------------------------------------------------------------
(* set with NX, README.md, bid lock: a lock that is held is released or    *)
(* expires before it is granted to another, whatever becomes of Redis.     *)
NeverGrantedTwice ==
    [][kind = "lock" /\ truth # Nothing => truth' \in {truth, Nothing}]_vars

(* client.ts, resilient wrapper: at any moment Redis may go away, and the  *)
(* memory copy has what the callers last wrote, commands under way         *)
(* included.                                                               *)
FallbackExact == ~parted => memory.value = truth.value

(* What a get would return now *)
Readable ==
    IF healthy /\ stored # Nothing THEN stored.value ELSE memory.value

(* The copies are read as one register ... *)
ReadsExact == sent = <<>> /\ ~parted => Readable = truth.value
=============================================================================
