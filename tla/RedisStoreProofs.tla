-------------------------- MODULE RedisStoreProofs --------------------------
(***************************************************************************)
(* The two copies of a key, for any set of values and any number of        *)
(* commands under way.  The heart is Lands: unless the copies may have     *)
(* come apart, what the commands under way will leave in Redis is the      *)
(* register the callers believe in.                                        *)
(***************************************************************************)
EXTENDS RedisStore, SequenceTheorems, TLAPS

Writes == {"set", "del"}

(* Each use of a key has its own commands. *)
OpsOf == IF kind = "lock" THEN {"setnx", "eval", "del"} ELSE {"set", "get", "del"}

KindOps == \A i \in 1 .. Len(sent) : sent[i].op \in OpsOf

(* What Redis holds when the first k commands are through, the last of     *)
(* which is a write, whatever came before.                                 *)
Base(k) ==
    IF k = 0 THEN stored ELSE IF sent[k].op = "set" THEN sent[k].copy ELSE Nothing

LandsAt(k) ==
    /\ k > 0 => sent[k].op \in Writes
    /\ \/ /\ Base(k) = truth
          /\ \A i \in k + 1 .. Len(sent) : sent[i].op = "get"
       \/ /\ k + 1 = Len(sent)
          /\ Base(k) = Nothing
          /\ sent[k + 1] = [op |-> "setnx", copy |-> truth]

Lands == \E k \in 0 .. Len(sent) : LandsAt(k)

(* No write has been sent after a get. *)
GetsLast ==
    \A i, j \in 1 .. Len(sent) : i < j /\ sent[i].op = "get" => sent[j].op = "get"

(* A lock that is held is in memory. *)
HeldIsRemembered == kind = "lock" /\ truth # Nothing => memory = truth

StoreInv ==
    /\ TypeOK
    /\ KindOps
    /\ behind => ~healthy
    /\ HeldIsRemembered
    /\ FallbackExact
    /\ kind = "string" /\ ~parted => GetsLast
    /\ ~parted /\ ~behind => Lands

-----------------------------------------------------------------------------
(* Copies and commands *)

LEMMA CopyFields ==
  ASSUME NEW c \in Copy
  PROVE  /\ c.value \in Values \cup {None} /\ c.ttl \in BOOLEAN
         /\ c = Nothing <=> c.value = None
         /\ c.ttl => c # Nothing
         /\ c # Nothing => c.value \in Values
  <1>1. CASE c = Nothing
    BY <1>1 DEF Nothing
  <1>2. CASE c \in [value : Values, ttl : BOOLEAN]
    BY <1>2, StoreAssumption DEF Nothing
  <1> QED
    BY <1>1, <1>2 DEF Copy, Nothing

(* A copy that loses its expiry keeps its value. *)
LEMMA WithoutExpiry ==
  ASSUME NEW c \in Copy \ {Nothing}, NEW t \in BOOLEAN
  PROVE  /\ [c EXCEPT !.ttl = t] \in Copy
         /\ [c EXCEPT !.ttl = t].value = c.value
  BY StoreAssumption DEF Copy, Nothing

LEMMA CommandFields ==
  ASSUME NEW c \in Command
  PROVE  /\ c.op \in {"set", "setnx", "eval", "get", "del"}
         /\ c.op \in {"set", "setnx"} => c.copy \in Copy \ {Nothing}
  BY DEF Command

LEMMA SentFields ==
  ASSUME sent \in Seq(Command), NEW i \in 1 .. Len(sent)
  PROVE  /\ sent[i] \in Command
         /\ sent[i].op \in {"set", "setnx", "eval", "get", "del"}
         /\ sent[i].op \in {"set", "setnx"} => sent[i].copy \in Copy \ {Nothing}
  <1>1. sent[i] \in Command
    BY ElementOfSeq
  <1> QED
    BY <1>1, CommandFields

(* A command that is sent comes after the others. *)
LEMMA ForwardExtends ==
  ASSUME sent \in Seq(Command), Len(sent) =< MaxCommands, NEW c \in Command, Forward(c)
  PROVE  /\ sent' \in Seq(Command) /\ Len(sent') =< MaxCommands
         /\ ~healthy => sent' = sent
         /\ healthy => /\ Len(sent') = Len(sent) + 1
                       /\ \A i \in 1 .. Len(sent) : sent'[i] = sent[i]
                       /\ sent'[Len(sent) + 1] = c
  <1>1. Len(sent) \in Nat /\ MaxCommands \in Nat /\ Len(sent) < MaxCommands
    BY StoreAssumption DEF Forward
  <1>2. CASE healthy
    BY <1>1, <1>2, AppendProperties DEF Forward
  <1>3. CASE ~healthy
    BY <1>3 DEF Forward
  <1> QED
    BY <1>2, <1>3

(* The command that is answered leaves the others in their order. *)
LEMMA AnswerShifts ==
  ASSUME sent \in Seq(Command), sent # <<>>, sent' = Tail(sent)
  PROVE  /\ Head(sent) = sent[1] /\ Len(sent) \in Nat \ {0}
         /\ sent' \in Seq(Command) /\ Len(sent') = Len(sent) - 1
         /\ \A i \in 1 .. Len(sent') : sent'[i] = sent[i + 1]
  <1>1. Head(sent) = sent[1]
    BY HeadTailProperties
  <1>2. Len(sent) \in Nat \ {0}
    BY EmptySeq
  <1>3. sent' \in Seq(Command) /\ Len(sent') = Len(sent) - 1
    BY HeadTailProperties
  <1>4. \A i \in 1 .. Len(sent') : sent'[i] = sent[i + 1]
    BY HeadTailProperties
  <1> QED
    BY <1>1, <1>2, <1>3, <1>4

-----------------------------------------------------------------------------
(* The steps, one lemma each *)

(* A write sets memory and the register, and is on its way to Redis if it  *)
(* is there: it brings the copies together.                                *)
LEMMA WriteKeeps ==
  ASSUME StoreInv, UNCHANGED <<kind, healthy, stored>>,
         NEW c \in Command, Forward(c), c.op \in Writes, c.op \in OpsOf,
         c.op = "set" => c.copy = truth', c.op = "del" => truth' = Nothing,
         truth' \in Copy, memory' \in Copy, memory'.value = truth'.value,
         kind = "lock" => truth' = Nothing,
         Written
  PROVE  StoreInv'
  <1> USE DEF StoreInv
  <1>1. /\ sent' \in Seq(Command) /\ Len(sent') =< MaxCommands
        /\ ~healthy => sent' = sent
        /\ healthy => /\ Len(sent') = Len(sent) + 1
                      /\ \A i \in 1 .. Len(sent) : sent'[i] = sent[i]
                      /\ sent'[Len(sent) + 1] = c
    BY ForwardExtends DEF TypeOK
  <1>2. Len(sent) \in Nat /\ Len(sent') \in Nat
    BY <1>1 DEF TypeOK
  <1>3. parted' = ReadUnderWay /\ behind' = ~healthy
    BY DEF Written
  <1>4. TypeOK'
    BY <1>1, <1>3 DEF TypeOK, ReadUnderWay
  <1>5. KindOps'
    BY <1>1, <1>2 DEF KindOps, OpsOf
  <1>6. (behind => ~healthy)' /\ HeldIsRemembered' /\ FallbackExact'
    BY <1>3 DEF HeldIsRemembered, FallbackExact
  <1>7. (kind = "string" /\ ~parted => GetsLast)'
    <2> SUFFICES ASSUME kind = "string", ~ReadUnderWay, NEW i \in 1 .. Len(sent'),
                        NEW j \in 1 .. Len(sent'), i < j
                 PROVE  sent'[i].op # "get"
      BY <1>3 DEF GetsLast
    <2>1. DOMAIN sent = 1 .. Len(sent)
      BY DEF TypeOK
    <2>2. i \in 1 .. Len(sent) /\ sent'[i] = sent[i]
      BY <1>1, <1>2
    <2> QED
      BY <2>1, <2>2 DEF ReadUnderWay
  <1>8. (~parted /\ ~behind => Lands)'
    <2> SUFFICES ASSUME healthy PROVE Lands'
      BY <1>3
    <2>1. PICK n \in Nat \ {0} : n = Len(sent')
      BY <1>1, <1>2
    <2>2. sent'[n] = c
      BY <1>1, <2>1
    <2>3. LandsAt(n)'
      BY <2>1, <2>2 DEF LandsAt, Base, Writes
    <2> QED
      BY <2>1, <2>3 DEF Lands
  <1> QED
    BY <1>4, <1>5, <1>6, <1>7, <1>8

LEMMA SetKeeps ==
  ASSUME StoreInv, NEW copy \in Copy \ {Nothing}, Set(copy)
  PROVE  StoreInv'
  <1> DEFINE c == [op |-> "set", copy |-> copy]
             mirror == [copy EXCEPT !.ttl = @ /\ kind = "string"]
  <1>1. SetBoth(copy, mirror)
    BY DEF Set
  <1>2. c \in Command /\ c.op = "set" /\ c.copy = copy
    BY DEF Command
  <1>3. (copy.ttl /\ kind = "string") \in BOOLEAN
    OBVIOUS
  <1>4. mirror \in Copy /\ mirror.value = copy.value
    BY <1>3, WithoutExpiry
  <1>5. kind # "lock" /\ c.op \in OpsOf
    BY <1>1, <1>2 DEF SetBoth, OpsOf
  <1>6. /\ UNCHANGED <<kind, healthy, stored>> /\ Forward(c) /\ Written
        /\ truth' = copy /\ memory' = mirror
    BY <1>1 DEF SetBoth
  <1> QED
    BY <1>2, <1>4, <1>5, <1>6, WriteKeeps DEF Writes

LEMMA DelKeeps ==
  ASSUME StoreInv, Del
  PROVE  StoreInv'
  <1> DEFINE c == [op |-> "del"]
  <1>1. c \in Command /\ c.op = "del" /\ c.op \in OpsOf /\ Nothing \in Copy
    BY DEF Command, OpsOf, Copy, Nothing
  <1>2. /\ UNCHANGED <<kind, healthy, stored>> /\ Forward(c) /\ Written
        /\ truth' = Nothing /\ memory' = Nothing
    BY DEF Del, DelBoth
  <1> QED
    BY <1>1, <1>2, WriteKeeps DEF Writes

(* A lock is granted on memory; unless the copies came apart, Redis will   *)
(* find it free as well.                                                   *)
LEMMA SetNxKeeps ==
  ASSUME StoreInv, NEW token \in Values, SetNx(token)
  PROVE  StoreInv'
  <1> DEFINE copy == [value |-> token, ttl |-> TRUE]
             c == [op |-> "setnx", copy |-> copy]
  <1> USE DEF StoreInv
  <1>1. /\ kind = "lock" /\ memory = Nothing /\ memory' = copy /\ truth' = copy
        /\ Forward(c) /\ behind' = (behind \/ ~healthy)
        /\ UNCHANGED <<kind, healthy, stored, parted>>
    BY DEF SetNx, Grant
  <1>2. copy \in Copy \ {Nothing} /\ c \in Command /\ c.op = "setnx"
    BY StoreAssumption DEF Copy, Nothing, Command
  <1>3. /\ sent' \in Seq(Command) /\ Len(sent') =< MaxCommands
        /\ ~healthy => sent' = sent
        /\ healthy => /\ Len(sent') = Len(sent) + 1
                      /\ \A i \in 1 .. Len(sent) : sent'[i] = sent[i]
                      /\ sent'[Len(sent) + 1] = c
    BY <1>1, <1>2, ForwardExtends DEF TypeOK
  <1>4. Len(sent) \in Nat /\ Len(sent') \in Nat
    BY <1>3 DEF TypeOK
  <1>5. TypeOK'
    BY <1>1, <1>2, <1>3 DEF TypeOK
  <1>6. KindOps'
    BY <1>1, <1>2, <1>3, <1>4 DEF KindOps, OpsOf
  <1>7. /\ (behind => ~healthy)' /\ HeldIsRemembered' /\ FallbackExact'
        /\ (kind = "string" /\ ~parted => GetsLast)'
    BY <1>1 DEF HeldIsRemembered, FallbackExact
  <1>8. (~parted /\ ~behind => Lands)'
    <2> SUFFICES ASSUME healthy, ~parted, ~behind PROVE Lands'
      BY <1>1
    <2>1. truth = Nothing
      BY <1>1, CopyFields DEF FallbackExact, TypeOK
    <2>2. PICK k \in 0 .. Len(sent) : LandsAt(k)
      BY DEF Lands
    <2>3. k = Len(sent) /\ Base(k) = Nothing
      <3>1. \A i \in 1 .. Len(sent) : sent[i].op # "get"
        BY <1>1 DEF KindOps, OpsOf
      <3>2. ~(k + 1 = Len(sent) /\ sent[k + 1] = [op |-> "setnx", copy |-> truth])
        BY <1>4, <2>1, SentFields DEF TypeOK
      <3>3. Base(k) = truth /\ \A i \in k + 1 .. Len(sent) : sent[i].op = "get"
        BY <2>2, <3>2 DEF LandsAt
      <3> QED
        BY <1>4, <2>1, <3>1, <3>3
    <2>4. k > 0 => sent'[k] = sent[k] /\ sent[k].op \in Writes
      BY <1>3, <1>4, <2>2, <2>3 DEF LandsAt
    <2>5. Base(k)' = Nothing
      BY <1>1, <2>3, <2>4 DEF Base
    <2>6. LandsAt(k)'
      BY <1>1, <1>3, <1>4, <2>3, <2>4, <2>5 DEF LandsAt
    <2> QED
      BY <1>3, <1>4, <2>6 DEF Lands
  <1> QED
    BY <1>5, <1>6, <1>7, <1>8

(* A release that went to Redis leaves memory as it is: the copies part.   *)
LEMMA EvalKeeps ==
  ASSUME StoreInv, NEW token \in Values, Eval(token)
  PROVE  StoreInv'
  <1> DEFINE c == [op |-> "eval", token |-> token]
  <1> USE DEF StoreInv
  <1>1. /\ kind = "lock" /\ Forward(c) /\ c \in Command /\ c.op = "eval"
        /\ memory' = IF ~healthy /\ memory.value = token THEN Nothing ELSE memory
        /\ truth' = IF truth.value = token THEN Nothing ELSE truth
        /\ parted' = (parted \/ healthy) /\ behind' = (behind \/ ~healthy)
        /\ UNCHANGED <<kind, healthy, stored>>
    BY DEF Eval, Command
  <1>2. /\ sent' \in Seq(Command) /\ Len(sent') =< MaxCommands
        /\ healthy => /\ Len(sent') = Len(sent) + 1
                      /\ \A i \in 1 .. Len(sent) : sent'[i] = sent[i]
                      /\ sent'[Len(sent) + 1] = c
        /\ ~healthy => sent' = sent
    BY <1>1, ForwardExtends DEF TypeOK
  <1>3. Nothing \in Copy /\ Nothing.value = None
    BY DEF Copy, Nothing
  <1>4. TypeOK'
    BY <1>1, <1>2, <1>3 DEF TypeOK
  <1>5. KindOps'
    BY <1>1, <1>2 DEF KindOps, OpsOf, TypeOK
  <1>6. HeldIsRemembered'
    BY <1>1 DEF HeldIsRemembered
  <1>7. FallbackExact'
    BY <1>1, <1>3 DEF FallbackExact
  <1> QED
    BY <1>1, <1>4, <1>5, <1>6, <1>7 DEF TypeOK

LEMMA GetKeeps ==
  ASSUME StoreInv, Get
  PROVE  StoreInv'
  <1> DEFINE c == [op |-> "get"]
  <1> USE DEF StoreInv
  <1>1. /\ kind # "lock" /\ healthy /\ Forward(c) /\ c \in Command /\ c.op = "get"
        /\ UNCHANGED <<kind, healthy, memory, stored, truth, parted, behind>>
    BY DEF Get, Command
  <1>2. /\ sent' \in Seq(Command) /\ Len(sent') =< MaxCommands
        /\ Len(sent') = Len(sent) + 1
        /\ \A i \in 1 .. Len(sent) : sent'[i] = sent[i]
        /\ sent'[Len(sent) + 1] = c
    BY <1>1, ForwardExtends DEF TypeOK
  <1>3. /\ Len(sent) \in Nat
        /\ \A i \in 1 .. Len(sent') : i \in 1 .. Len(sent) \/ i = Len(sent) + 1
    BY <1>2 DEF TypeOK
  <1>4. TypeOK'
    BY <1>1, <1>2 DEF TypeOK
  <1>5. KindOps'
    BY <1>1, <1>2, <1>3 DEF KindOps, OpsOf
  <1>6. HeldIsRemembered' /\ FallbackExact'
    BY <1>1 DEF HeldIsRemembered, FallbackExact
  <1>7. GetsLast => GetsLast'
    BY <1>1, <1>2, <1>3 DEF GetsLast
  <1>8. Lands => Lands'
    <2> SUFFICES ASSUME Lands PROVE Lands'
      OBVIOUS
    <2>1. PICK k \in 0 .. Len(sent) : LandsAt(k)
      BY DEF Lands
    <2>2. ~(k + 1 = Len(sent) /\ sent[k + 1] = [op |-> "setnx", copy |-> truth])
      BY <1>1, <1>3 DEF KindOps, OpsOf
    <2>3. LandsAt(k)'
      BY <1>1, <1>2, <1>3, <2>1, <2>2 DEF LandsAt, Base
    <2> QED
      BY <1>2, <1>3, <2>3 DEF Lands
  <1> QED
    BY <1>1, <1>4, <1>5, <1>6, <1>7, <1>8

(* The next command takes its effect: what the others will leave stands.   *)
LEMMA AnswerLands ==
  ASSUME Lands, Len(sent) \in Nat \ {0}, Len(sent') = Len(sent) - 1,
         \A i \in 1 .. Len(sent') : sent'[i] = sent[i + 1],
         stored' = After(sent[1]), truth' = truth
  PROVE  Lands'
  <1>1. /\ Len(sent) \in Nat \ {0} /\ Len(sent') = Len(sent) - 1
        /\ \A i \in 1 .. Len(sent') : sent'[i] = sent[i + 1]
    OBVIOUS
  <1>2. PICK k \in 0 .. Len(sent) : LandsAt(k)
    BY DEF Lands
  <1>3. CASE k = 0
    <2>1. CASE stored = truth /\ \A i \in 1 .. Len(sent) : sent[i].op = "get"
      <3>1. stored' = truth
        BY <1>1, <2>1 DEF After
      <3>2. LandsAt(0)'
        BY <1>1, <2>1, <3>1 DEF LandsAt, Base
      <3> QED
        BY <1>1, <3>2 DEF Lands
    <2>2. CASE /\ Len(sent) = 1 /\ stored = Nothing
               /\ sent[1] = [op |-> "setnx", copy |-> truth]
      <3>1. stored' = truth
        BY <1>1, <2>2 DEF After
      <3>2. Len(sent') \in Nat /\ Len(sent') < 1
        BY <1>1, <2>2
      <3>3. LandsAt(0)'
        <4>1. Base(0)' = truth'
          BY <3>1 DEF Base
        <4>2. \A i \in 0 + 1 .. Len(sent') : FALSE
          BY <3>2
        <4> QED
          BY <4>1, <4>2 DEF LandsAt
      <3> QED
        BY <3>2, <3>3 DEF Lands
    <2> QED
      BY <1>1, <1>2, <1>3, <2>1, <2>2 DEF LandsAt, Base
  <1>4. CASE k > 0
    <2>1. PICK n \in Nat : n = k - 1
      BY <1>4
    <2>2. Base(n)' = Base(k)
      <3>1. CASE k = 1
        BY <1>1, <1>2, <1>4, <2>1, <3>1 DEF LandsAt, Base, After, Writes
      <3>2. CASE k > 1
        BY <1>1, <1>2, <1>4, <2>1, <3>2 DEF Base
      <3> QED
        BY <1>4, <3>1, <3>2
    <2>3. n > 0 => sent'[n].op \in Writes
      BY <1>1, <1>2, <2>1 DEF LandsAt
    <2>4. LandsAt(n)'
      <3>1. CASE Base(k) = truth /\ \A i \in k + 1 .. Len(sent) : sent[i].op = "get"
        BY <1>1, <2>1, <2>2, <2>3, <3>1 DEF LandsAt
      <3>2. CASE /\ k + 1 = Len(sent) /\ Base(k) = Nothing
                 /\ sent[k + 1] = [op |-> "setnx", copy |-> truth]
        <4>1. n + 1 = Len(sent') /\ sent'[n + 1] = sent[k + 1]
          BY <1>1, <2>1, <3>2
        <4> QED
          BY <2>2, <2>3, <3>2, <4>1 DEF LandsAt
      <3> QED
        BY <1>2, <3>1, <3>2 DEF LandsAt
    <2> QED
      BY <1>1, <2>1, <2>4 DEF Lands
  <1> QED
    BY <1>3, <1>4

(* A get finds the register, so its answer brings memory nothing else.     *)
LEMMA AnswerKeeps ==
  ASSUME StoreInv, Answer
  PROVE  StoreInv'
  <1> USE DEF StoreInv
  <1>1. /\ healthy /\ sent # <<>> /\ sent' = Tail(sent) /\ stored' = After(Head(sent))
        /\ memory' = IF Head(sent).op = "get" /\ kind = "string" /\ stored # Nothing
                     THEN [stored EXCEPT !.ttl = FALSE] ELSE memory
        /\ UNCHANGED <<kind, healthy, truth, parted, behind>>
    BY DEF Answer
  <1>2. /\ Head(sent) = sent[1] /\ Len(sent) \in Nat \ {0}
        /\ sent' \in Seq(Command) /\ Len(sent') = Len(sent) - 1
        /\ \A i \in 1 .. Len(sent') : sent'[i] = sent[i + 1]
    BY <1>1, AnswerShifts DEF TypeOK
  <1>3. /\ sent[1].op \in {"set", "setnx", "eval", "get", "del"}
        /\ sent[1].op \in {"set", "setnx"} => sent[1].copy \in Copy
    BY <1>2, SentFields DEF TypeOK
  <1>4. Nothing \in Copy
    BY DEF Copy, Nothing
  <1>5. TypeOK'
    <2>1. stored' \in Copy
      BY <1>1, <1>2, <1>3, <1>4 DEF TypeOK, After
    <2>2. memory' \in Copy
      BY <1>1, WithoutExpiry DEF TypeOK
    <2>3. MaxCommands \in Nat
      BY StoreAssumption
    <2> QED
      BY <1>1, <1>2, <2>1, <2>2, <2>3 DEF TypeOK
  <1>6. KindOps'
    BY <1>1, <1>2 DEF KindOps, OpsOf
  <1>7. HeldIsRemembered'
    BY <1>1 DEF HeldIsRemembered
  <1>8. ~parted /\ ~behind => Lands'
    BY <1>1, <1>2, AnswerLands
  <1>9. kind = "string" /\ ~parted => GetsLast'
    BY <1>1, <1>2 DEF GetsLast
  <1>10. FallbackExact'
    <2> SUFFICES ASSUME ~parted, sent[1].op = "get", kind = "string", stored # Nothing
                 PROVE  stored.value = truth.value
      BY <1>1, <1>2, WithoutExpiry DEF FallbackExact, TypeOK
    <2>1. \A i \in 1 .. Len(sent) : sent[i].op = "get"
      BY <1>2 DEF GetsLast
    <2>2. PICK k \in 0 .. Len(sent) : LandsAt(k)
      BY <1>1 DEF Lands
    <2> QED
      BY <1>2, <2>1, <2>2 DEF LandsAt, Base, Writes
  <1> QED
    BY <1>1, <1>5, <1>6, <1>7, <1>8, <1>9, <1>10

LEMMA ExpireKeeps ==
  ASSUME StoreInv, Expire
  PROVE  StoreInv'
  <1> DEFINE Left(copy) == IF copy.ttl THEN Nothing ELSE copy
  <1> USE DEF StoreInv
  <1>1. /\ truth.ttl /\ (healthy => sent = <<>>) /\ truth' = Nothing
        /\ memory' = Left(memory) /\ stored' = Left(stored)
        /\ parted' = (parted \/ (truth.ttl /\ ~memory.ttl))
        /\ behind' = (behind \/ ~healthy)
        /\ UNCHANGED <<kind, healthy, sent>>
    BY DEF Expire
  <1>2. Nothing \in Copy /\ Nothing.value = None /\ Nothing.ttl = FALSE
    BY DEF Copy, Nothing
  <1>3. TypeOK'
    BY <1>1, <1>2 DEF TypeOK
  <1>4. KindOps' /\ HeldIsRemembered'
    BY <1>1 DEF KindOps, OpsOf, HeldIsRemembered
  <1>5. ~parted' => memory' = Nothing
    BY <1>1
  <1>6. FallbackExact'
    BY <1>1, <1>5 DEF FallbackExact
  <1>7. GetsLast => GetsLast'
    BY <1>1 DEF GetsLast
  <1>8. ~parted' /\ ~behind' => Lands'
    <2> SUFFICES ASSUME ~parted, healthy, ~behind PROVE Lands'
      BY <1>1, <1>3 DEF TypeOK
    <2>1. Len(sent) = 0
      BY <1>1
    <2>2. stored = truth
      BY <2>1 DEF Lands, LandsAt, Base
    <2>3. stored' = Nothing
      BY <1>1, <2>2
    <2>4. LandsAt(0)'
      BY <1>1, <2>1, <2>3 DEF LandsAt, Base
    <2> QED
      BY <1>1, <2>1, <2>4 DEF Lands
  <1> QED
    BY <1>1, <1>3, <1>4, <1>6, <1>7, <1>8 DEF TypeOK

LEMMA ConnectionKeeps ==
  ASSUME StoreInv, GoDown \/ ComeUp \/ UNCHANGED vars
  PROVE  StoreInv'
  <1> USE DEF StoreInv
  <1>1. /\ UNCHANGED <<kind, memory, stored, sent, truth>>
        /\ healthy' \in BOOLEAN /\ parted' \in BOOLEAN /\ behind' \in BOOLEAN
        /\ behind' => behind /\ ~healthy'
        /\ ~parted' => ~parted
        /\ ~parted' /\ ~behind' => ~behind
    <2>1. CASE GoDown
      BY <2>1 DEF GoDown, TypeOK
    <2>2. CASE ComeUp
      BY <2>2 DEF ComeUp, TypeOK
    <2>3. CASE UNCHANGED vars
      BY <2>3 DEF vars, TypeOK
    <2> QED
      BY <2>1, <2>2, <2>3
  <1>2. TypeOK' /\ KindOps' /\ HeldIsRemembered' /\ FallbackExact'
    BY <1>1 DEF TypeOK, KindOps, OpsOf, HeldIsRemembered, FallbackExact
  <1>3. (GetsLast => GetsLast') /\ (Lands => Lands')
    BY <1>1 DEF GetsLast, Lands, LandsAt, Base
  <1> QED
    BY <1>1, <1>2, <1>3

-----------------------------------------------------------------------------
LEMMA InitStore == Init => StoreInv
  <1> SUFFICES ASSUME Init PROVE StoreInv
    OBVIOUS
  <1>1. /\ kind \in Kinds /\ healthy \in BOOLEAN
        /\ memory = Nothing /\ stored = Nothing /\ truth = Nothing
        /\ sent = <<>> /\ parted = FALSE /\ behind = FALSE
    BY DEF Init
  <1>2. Nothing \in Copy /\ MaxCommands \in Nat
    BY StoreAssumption DEF Copy, Nothing
  <1>3. sent \in Seq(Command) /\ Len(sent) = 0
    BY <1>1
  <1>4. TypeOK
    <2>1. {memory, stored, truth} \subseteq Copy
      BY <1>1, <1>2
    <2>2. sent \in Seq(Command) /\ Len(sent) =< MaxCommands
      BY <1>2, <1>3
    <2> QED
      BY <1>1, <2>1, <2>2 DEF TypeOK
  <1>5. KindOps /\ HeldIsRemembered /\ FallbackExact /\ GetsLast
    BY <1>1, <1>3 DEF KindOps, HeldIsRemembered, FallbackExact, GetsLast
  <1>6. LandsAt(0)
    BY <1>1, <1>3 DEF LandsAt, Base
  <1>7. Lands
    BY <1>3, <1>6 DEF Lands
  <1> QED
    BY <1>1, <1>4, <1>5, <1>7 DEF StoreInv

LEMMA StoreStep == StoreInv /\ [Next]_vars => StoreInv'
  BY SetKeeps, SetNxKeeps, EvalKeeps, DelKeeps, GetKeeps, AnswerKeeps, ExpireKeeps,
     ConnectionKeeps
     DEF Next

LEMMA StoreInvariant == Spec => []StoreInv
  BY InitStore, StoreStep, PTL DEF Spec

(* Types of the store: a copy is a value of the key or nothing, and the    *)
(* commands under way keep to their bound.                                 *)
THEOREM StoreTyped == Spec => []TypeOK
  BY StoreInvariant, PTL DEF StoreInv

(* client.ts: whenever Redis goes away, memory has what the callers last   *)
(* wrote, whatever is under way and however often the connection came and  *)
(* went before.                                                            *)
THEOREM FallbackStaysExact == Spec => []FallbackExact
  BY StoreInvariant, PTL DEF StoreInv

(* The two copies are read as one register.                                *)
THEOREM CopiesReadAsOne == Spec => []ReadsExact
  <1>1. StoreInv => ReadsExact
    <2> SUFFICES ASSUME StoreInv, sent = <<>>, ~parted PROVE Readable = truth.value
      BY DEF ReadsExact
    <2>1. CASE healthy /\ stored # Nothing
      <3>1. Len(sent) = 0 /\ Lands
        BY <2>1 DEF StoreInv
      <3>2. stored = truth
        BY <3>1 DEF Lands, LandsAt, Base
      <3> QED
        BY <2>1, <3>2 DEF Readable
    <2>2. CASE ~(healthy /\ stored # Nothing)
      BY <2>2 DEF StoreInv, FallbackExact, Readable
    <2> QED
      BY <2>1, <2>2
  <1> QED
    BY <1>1, StoreInvariant, PTL

(* set with NX: a lock that is held is released or expires before it is    *)
(* granted to another, whatever becomes of Redis.                          *)
THEOREM LockNeverGrantedTwice == Spec => NeverGrantedTwice
  <1>1. ASSUME StoreInv, [Next]_vars, kind = "lock", truth # Nothing
        PROVE  truth' \in {truth, Nothing}
    <2>1. memory # Nothing
      BY <1>1 DEF StoreInv, HeldIsRemembered
    <2>2. CASE \E copy \in Copy \ {Nothing} : Set(copy)
      BY <1>1, <2>2 DEF Set, SetBoth
    <2>3. CASE \E token \in Values : SetNx(token) \/ Eval(token)
      BY <2>1, <2>3 DEF SetNx, Eval
    <2>4. CASE Del \/ Get \/ Answer \/ Expire \/ GoDown \/ ComeUp \/ UNCHANGED vars
      BY <2>4 DEF Del, DelBoth, Get, Answer, Expire, GoDown, ComeUp, vars
    <2> QED
      BY <1>1, <2>2, <2>3, <2>4 DEF Next
  <1> QED
    BY <1>1, StoreInvariant, PTL DEF Spec, NeverGrantedTwice
=============================================================================
