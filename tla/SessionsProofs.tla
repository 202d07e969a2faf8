--------------------------- MODULE SessionsProofs ---------------------------
(***************************************************************************)
(* Accounts, tokens and tabs for any set of mailboxes, any number of tabs  *)
(* and of sign-ins.  Accounts only grow and keep their addresses, which    *)
(* are all in normal form (Registered): that makes a mailbox's account     *)
(* unique and lets a request rely on what it found.  A page is one user's  *)
(* because a socket exists only on a room page that has settled, and the   *)
(* page, its socket and its calls all took the one token in the storage    *)
(* (PagesAgree).                                                           *)
(***************************************************************************)
EXTENDS Sessions, SequenceTheorems, TLAPS

Users == 1 .. Len(accounts)

TokenNumbers == 1 .. Len(tokens)

Row == [email : Addresses, hashed : BOOLEAN, legacy : BOOLEAN]

RoomList ==
    {Unasked} \cup [at : {"asked"}, token : Nat] \cup [at : {"shown"}, of : Nat]

Page ==
    [at : {"signin", "Google", "dashboard", "room"}, stage : {"ready", "guard", "mount"},
     user : Nat, rooms : RoomList]

Kind == {"checking", "finding", "looking"}

(* The stages of each way in *)
StagesOf(kind) ==
    CASE kind = "checking" -> {"checking", "hashing"}
      [] kind = "finding"  -> {"finding", "comparing"}
      [] kind = "looking"  -> {"looking", "creating", "renaming"}

Result == {"signed in", "taken", "failed", "refused", "use Google"}

Waiting == [at : {"checking", "hashing", "finding", "looking", "creating", "renaming"},
            kind : Kind, form : Forms]

Comparing == [at : {"comparing"}, kind : Kind, form : Forms, user : Nat]

Answered == [at : {"answered"}, kind : Kind, form : Forms, result : Result, token : Nat]

Request == {Idle} \cup Waiting \cup Comparing \cup Answered

TypeOK ==
    /\ accounts \in Seq(Row)
    /\ tokens \in Seq(Nat)
    /\ lapsed \in Nat
    /\ stored \in Nat
    /\ page \in [Tabs -> Page]
    /\ socket \in [Tabs -> Nat]
    /\ peer \in [Tabs -> Nat]
    /\ request \in [Tabs -> Request]
    /\ rewritten \in [Tabs -> BOOLEAN]

(* Every address is stored in normal form, and once. *)
Registered ==
    /\ \A a \in Users : accounts[a].email.plain = TRUE
    /\ OneAccountPerMailbox

(* A token names an account, and what holds a token holds one issued. *)
TokensNamed ==
    /\ \A k \in TokenNumbers : tokens[k] \in Users
    /\ stored \in TokenNumbers \cup {None}
    /\ \A t \in Tabs :
          /\ socket[t] \in TokenNumbers \cup {None}
          /\ request[t].at = "answered" => request[t].token \in TokenNumbers \cup {None}

Owns(user, r) == user \in Users /\ accounts[user].email.box = r.form.address.box

(* What a request relies on from its earlier steps *)
Relies(r) ==
    /\ r.at \notin {"idle", "answered"} => r.at \in StagesOf(r.kind)
    /\ r.at = "comparing" /\ r.user # None => Owns(r.user, r)
    /\ r.at = "renaming" => \E user \in Users : Owns(user, r)
    /\ r.at = "answered" =>
          CASE r.result = "signed in" -> r.token \in TokenNumbers /\ Owns(tokens[r.token], r)
            [] r.result = "taken" -> r.kind = "checking" /\ \E user \in Users : Owns(user, r)
            [] r.result = "failed" -> \/ ~r.form.fits
                                      \/ r.kind = "looking" /\ \E user \in Users : Owns(user, r)
            [] OTHER -> r.kind = "finding"

RequestsRely == \A t \in Tabs : Relies(request[t])

(* A socket is the settled room page's, and admitted as its token's user.  *)
SocketsPlaced ==
    \A t \in Tabs :
        /\ page[t].at # "room" \/ page[t].stage # "ready" => socket[t] = None
        /\ peer[t] # None => socket[t] # None /\ peer[t] = tokens[socket[t]]
        /\ page[t].user # None => page[t].stage = "ready"
        /\ page[t].stage # "ready" => page[t].rooms = Unasked

(* What a page took from the storage is still there unless it was written. *)
PagesAgree ==
    \A t \in Tabs : page[t].user # None /\ ~rewritten[t] =>
        /\ stored # None /\ tokens[stored] = page[t].user
        /\ socket[t] \in {None, stored}
        /\ page[t].rooms.at = "asked" => page[t].rooms.token = stored
        /\ page[t].rooms.at = "shown" => page[t].rooms.of \in {None, page[t].user}

SessionsInv ==
    /\ TypeOK
    /\ Registered
    /\ TokensNamed
    /\ RequestsRely
    /\ SocketsPlaced
    /\ PagesAgree

-----------------------------------------------------------------------------
(* Requests and addresses *)

LEMMA RequestFields ==
  ASSUME NEW r \in Request
  PROVE  /\ r.at = "idle" <=> r = Idle
         /\ r.at # "idle" => /\ r.kind \in Kind /\ r.form \in Forms
                             /\ r.form.address \in Addresses
                             /\ r.form.fits \in BOOLEAN
         /\ r.at \in {"checking", "hashing", "finding", "looking", "creating", "renaming"}
               => r = [at |-> r.at, kind |-> r.kind, form |-> r.form]
         /\ r.at = "comparing" => r.user \in Nat
         /\ r.at = "answered" => r.result \in Result /\ r.token \in Nat
         /\ r.at \in {"idle", "checking", "hashing", "finding", "comparing", "looking",
                      "creating", "renaming", "answered"}
  <1>1. CASE r = Idle
    BY <1>1 DEF Idle
  <1>2. CASE r \in Waiting
    BY <1>2 DEF Waiting, Forms, Addresses, Idle
  <1>3. CASE r \in Comparing
    BY <1>3 DEF Comparing, Forms, Addresses, Idle
  <1>4. CASE r \in Answered
    BY <1>4 DEF Answered, Forms, Addresses, Idle
  <1> QED
    BY <1>1, <1>2, <1>3, <1>4 DEF Request

LEMMA NormalAddress ==
  ASSUME NEW address \in Addresses
  PROVE  /\ Normal(address) \in Addresses
         /\ Normal(address).box = address.box
         /\ Normal(address).plain = TRUE
  BY DEF Normal, Addresses

(* Two addresses in normal form are one if their mailbox is. *)
LEMMA NormalEqual ==
  ASSUME NEW d \in Addresses, NEW e \in Addresses, d.plain = e.plain, d.box = e.box
  PROVE  d = e
  BY DEF Addresses

(* findUserByEmail finds the account of the mailbox if there is one. *)
LEMMA FindsOwner ==
  ASSUME TypeOK, Registered, NEW address \in Addresses
  PROVE  LET user == FindUserByEmail(address)
         IN  /\ user \in Users \cup {None}
             /\ user # None => accounts[user].email.box = address.box
             /\ user = None => \A a \in Users : accounts[a].email.box # address.box
  <1> DEFINE found == {a \in DOMAIN accounts : accounts[a].email = Normal(address)}
  <1>1. DOMAIN accounts = Users /\ None \notin Users
    BY DEF TypeOK, Users, None
  <1>2. \A a \in Users : accounts[a].email \in Addresses /\ accounts[a].email.plain = TRUE
    <2>1. \A a \in Users : accounts[a] \in Row
      BY ElementOfSeq DEF TypeOK, Users
    <2> QED
      BY <2>1 DEF Registered, Row
  <1>3. \A a \in Users : a \in found <=> accounts[a].email.box = address.box
    <2> TAKE a \in Users
    <2>1. /\ Normal(address) \in Addresses /\ Normal(address).box = address.box
          /\ Normal(address).plain = TRUE
      BY NormalAddress
    <2>2. accounts[a].email = Normal(address) <=> accounts[a].email.box = address.box
      BY <1>2, <2>1, NormalEqual
    <2> QED
      BY <1>1, <2>2
  <1>4. CASE found = {}
    BY <1>1, <1>3, <1>4 DEF FindUserByEmail
  <1>5. CASE found # {}
    <2>1. FindUserByEmail(address) \in found
      BY <1>5 DEF FindUserByEmail
    <2> QED
      BY <1>1, <1>3, <2>1
  <1> QED
    BY <1>4, <1>5

-----------------------------------------------------------------------------
(* The server's steps *)

(* Accounts and tokens are added, and keep what they were. *)
Grows ==
    /\ accounts' \in Seq(Row)
    /\ Len(accounts) =< Len(accounts')
    /\ \A a \in Users : accounts'[a].email = accounts[a].email
    /\ tokens' \in Seq(Nat)
    /\ Len(tokens) =< Len(tokens')
    /\ \A k \in TokenNumbers : tokens'[k] = tokens[k]
    /\ \A k \in 1 .. Len(tokens') : tokens'[k] \in 1 .. Len(accounts')

LEMMA ReliesKept ==
  ASSUME TypeOK, TokensNamed, Grows, NEW r, Relies(r)
  PROVE  Relies(r)'
  <1>1. Users \subseteq Users' /\ TokenNumbers \subseteq TokenNumbers'
    BY DEF TypeOK, Grows, Users, TokenNumbers
  <1>2. \A user \in Users : Owns(user, r) => Owns(user, r)'
    BY <1>1 DEF Owns, Grows
  <1>3. \A k \in TokenNumbers : tokens[k] \in Users /\ tokens'[k] = tokens[k]
    BY DEF Grows, TokensNamed
  <1>4. \A k \in TokenNumbers : Owns(tokens[k], r) => Owns(tokens[k], r)'
    BY <1>1, <1>2, <1>3 DEF Owns, Grows
  <1> QED
    BY <1>1, <1>2, <1>3, <1>4 DEF Relies, Owns

LEMMA ServerKeeps ==
  ASSUME SessionsInv, NEW t \in Tabs, NEW x \in Request,
         Grows, Registered',
         request' = [request EXCEPT ![t] = x],
         Relies(x)', x.at = "answered" => x.token \in 1 .. Len(tokens') \cup {None},
         UNCHANGED <<lapsed, stored, tab, rewritten>>
  PROVE  SessionsInv'
  <1> USE DEF SessionsInv
  <1>1. /\ request' \in [Tabs -> Request] /\ request'[t] = x
        /\ \A u \in Tabs : u # t => request'[u] = request[u]
    BY DEF TypeOK
  <1>2. TypeOK'
    BY <1>1 DEF TypeOK, Grows, tab
  <1>3. TokenNumbers \subseteq TokenNumbers'
    BY DEF TypeOK, Grows, TokenNumbers
  <1>4. TokensNamed'
    BY <1>1, <1>3 DEF TokensNamed, Grows, TokenNumbers, Users, tab
  <1>5. RequestsRely'
    <2> SUFFICES ASSUME NEW u \in Tabs PROVE Relies(request[u])'
      BY DEF RequestsRely
    <2>1. CASE u = t
      BY <1>1, <2>1
    <2>2. CASE u # t
      BY <1>1, <2>2, ReliesKept DEF RequestsRely
    <2> QED
      BY <2>1, <2>2
  <1>6. SocketsPlaced'
    BY DEF SocketsPlaced, TokensNamed, Grows, tab
  <1>7. PagesAgree'
    BY DEF PagesAgree, TokensNamed, Grows, tab
  <1> QED
    BY <1>2, <1>4, <1>5, <1>6, <1>7

(* A refusal or a step to the next stage changes no account.               *)
LEMMA UnchangedGrows ==
  ASSUME TypeOK, Registered, TokensNamed, UNCHANGED <<accounts, tokens>>
  PROVE  Grows /\ Registered'
  <1>1. Grows
    BY DEF TypeOK, TokensNamed, TokenNumbers, Users, Grows
  <1> QED
    BY <1>1 DEF Registered, OneAccountPerMailbox, Users

LEMMA ReliesStay ==
  ASSUME TypeOK, Registered, TokensNamed, UNCHANGED <<accounts, tokens>>,
         \A t \in Tabs : Relies(request'[t])
  PROVE  RequestsRely'
  <1> SUFFICES ASSUME NEW t \in Tabs PROVE Relies(request[t])'
    BY DEF RequestsRely
  <1>1. PICK r : r = request'[t]
    OBVIOUS
  <1>2. Relies(r)'
    BY <1>1, UnchangedGrows, ReliesKept
  <1> QED
    BY <1>1, <1>2

(* signJwt: the token is the last one. *)
Signed(user) ==
    /\ tokens' \in Seq(Nat) /\ Len(tokens) \in Nat
    /\ Len(tokens') = Len(tokens) + 1
    /\ tokens'[Len(tokens) + 1] = user
    /\ \A k \in TokenNumbers : tokens'[k] = tokens[k]
    /\ \A k \in 1 .. Len(tokens') : k \in TokenNumbers \/ k = Len(tokens) + 1

LEMMA SignedToken ==
  ASSUME NEW user, Signed(user)
  PROVE  \E n \in Nat :
            n = Len(tokens) + 1 /\ n \in 1 .. Len(tokens') /\ tokens'[n] = user
  <1>1. PICK n \in Nat : n = Len(tokens) + 1
    BY DEF Signed
  <1>2. n = Len(tokens') /\ n > 0
    BY <1>1 DEF Signed
  <1>3. tokens'[n] = user
    BY <1>1 DEF Signed
  <1> QED
    BY <1>1, <1>2, <1>3

LEMMA TokenIssued ==
  ASSUME tokens \in Seq(Nat), NEW user \in Nat, tokens' = Append(tokens, user)
  PROVE  Signed(user)
  <1>1. Len(tokens) \in Nat
    OBVIOUS
  <1>2. /\ tokens' \in Seq(Nat) /\ Len(tokens') = Len(tokens) + 1
        /\ tokens'[Len(tokens) + 1] = user
        /\ \A k \in TokenNumbers : tokens'[k] = tokens[k]
    BY AppendProperties DEF TokenNumbers
  <1>3. \A k \in 1 .. Len(tokens') : k \in TokenNumbers \/ k = Len(tokens) + 1
    BY <1>1, <1>2 DEF TokenNumbers
  <1> QED
    BY <1>1, <1>2, <1>3 DEF Signed

(* ... and names an account that is there.                                 *)
LEMMA TokenSigned ==
  ASSUME TypeOK, Registered, TokensNamed, UNCHANGED accounts,
         NEW user \in Users, Signed(user)
  PROVE  Grows /\ Registered'
  <1>1. Len(tokens) \in Nat /\ Len(accounts) \in Nat
    BY DEF TypeOK
  <1>2. \A k \in 1 .. Len(tokens') : tokens'[k] \in Users
    BY DEF TokensNamed, Signed
  <1>3. Grows
    BY <1>1, <1>2 DEF TypeOK, Users, Grows, Signed
  <1> QED
    BY <1>3 DEF Registered, OneAccountPerMailbox, Users

Added(row) ==
    /\ Len(accounts) \in Nat
    /\ accounts' \in Seq(Row) /\ Len(accounts') = Len(accounts) + 1
    /\ accounts'[Len(accounts) + 1] = row
    /\ \A a \in Users : accounts'[a] = accounts[a]

LEMMA RowAdded ==
  ASSUME accounts \in Seq(Row), NEW row \in Row, accounts' = Append(accounts, row)
  PROVE  Added(row)
  <1>1. Len(accounts) \in Nat
    OBVIOUS
  <1> QED
    BY <1>1, AppendProperties DEF Added, Users

(* createUser: a row with a new address in normal form, and its token.     *)
LEMMA UserCreated ==
  ASSUME TypeOK, Registered, TokensNamed, NEW row \in Row,
         row.email.plain = TRUE,
         \A a \in Users : accounts[a].email # row.email,
         Added(row), Signed(Len(accounts) + 1)
  PROVE  /\ Grows /\ Registered'
         /\ Len(tokens) + 1 \in 1 .. Len(tokens')
         /\ tokens'[Len(tokens) + 1] \in 1 .. Len(accounts')
         /\ accounts'[tokens'[Len(tokens) + 1]].email = row.email
  <1>1. /\ Len(accounts) \in Nat
        /\ accounts' \in Seq(Row) /\ Len(accounts') = Len(accounts) + 1
        /\ accounts'[Len(accounts) + 1] = row
        /\ \A a \in Users : accounts'[a] = accounts[a]
    BY DEF Added
  <1>2. /\ tokens' \in Seq(Nat) /\ Len(tokens) \in Nat
        /\ Len(tokens') = Len(tokens) + 1
        /\ tokens'[Len(tokens) + 1] = Len(accounts) + 1
        /\ \A k \in TokenNumbers : tokens'[k] = tokens[k]
        /\ \A k \in 1 .. Len(tokens') : k \in TokenNumbers \/ k = Len(tokens) + 1
    BY DEF Signed
  <1>3. \A a \in 1 .. Len(accounts') : a \in Users \/ a = Len(accounts) + 1
    BY <1>1 DEF Users
  <1>4. Users \subseteq 1 .. Len(accounts')
    BY <1>1 DEF Users
  <1>5. \A k \in 1 .. Len(tokens') : tokens'[k] \in 1 .. Len(accounts')
    <2> SUFFICES ASSUME NEW k \in 1 .. Len(tokens') PROVE tokens'[k] \in 1 .. Len(accounts')
      OBVIOUS
    <2>1. CASE k \in TokenNumbers
      BY <1>2, <1>4, <2>1 DEF TokensNamed
    <2>2. CASE k = Len(tokens) + 1
      <3>1. tokens'[k] = Len(accounts) + 1
        BY <1>2, <2>2
      <3> QED
        BY <1>1, <3>1
    <2> QED
      BY <1>2, <2>1, <2>2
  <1>6. Grows
    <2>1. Len(accounts) =< Len(accounts') /\ \A a \in Users : accounts'[a].email = accounts[a].email
      BY <1>1
    <2>2. Len(tokens) =< Len(tokens')
      BY <1>2
    <2> QED
      BY <1>1, <1>2, <1>5, <2>1, <2>2 DEF Grows
  <1>7. \A a \in Users : accounts[a].email \in Addresses /\ accounts[a].email.plain = TRUE
    <2>1. \A a \in Users : accounts[a] \in Row
      BY ElementOfSeq DEF TypeOK, Users
    <2> QED
      BY <2>1 DEF Registered, Row
  <1>8. row.email \in Addresses
    BY DEF Row
  <1>9. \A a \in Users : accounts[a].email.box # row.email.box
    BY <1>7, <1>8, NormalEqual
  <1>10. (\A a \in Users : accounts[a].email.plain = TRUE)'
    BY <1>1, <1>3, <1>7 DEF Users
  <1>11. OneAccountPerMailbox'
    <2> SUFFICES ASSUME NEW a \in 1 .. Len(accounts'), NEW b \in 1 .. Len(accounts'),
                        accounts'[a].email.box = accounts'[b].email.box
                 PROVE  a = b
      BY <1>1 DEF OneAccountPerMailbox
    <2>1. \A c, d \in Users : accounts[c].email.box = accounts[d].email.box => c = d
      BY DEF Registered, OneAccountPerMailbox, Users, TypeOK
    <2> QED
      BY <1>1, <1>3, <1>9, <2>1
  <1> QED
    BY <1>1, <1>2, <1>6, <1>10, <1>11 DEF Registered

(* A sign-in is turned down: for a cause. *)
LEMMA RefuseKeeps ==
  ASSUME SessionsInv, NEW t \in Tabs, request[t] # Idle,
         NEW result \in Result \ {"signed in"}, Refuse(t, result),
         result = "taken" =>
            request[t].kind = "checking" /\ \E user \in Users : Owns(user, request[t]),
         result = "failed" =>
            \/ ~request[t].form.fits
            \/ request[t].kind = "looking" /\ \E user \in Users : Owns(user, request[t]),
         result \in {"refused", "use Google"} => request[t].kind = "finding",
         UNCHANGED <<accounts, lapsed, stored, tab, rewritten>>
  PROVE  SessionsInv'
  <1> USE DEF SessionsInv
  <1>1. request[t].kind \in Kind /\ request[t].form \in Forms
    BY RequestFields DEF TypeOK
  <1>2. PICK x \in Answered :
          x = [at |-> "answered", kind |-> request[t].kind, form |-> request[t].form,
               result |-> result, token |-> None]
    BY <1>1 DEF Answered, None
  <1>3. request' = [request EXCEPT ![t] = x] /\ UNCHANGED tokens
    BY <1>2 DEF Refuse, Answer, TypeOK
  <1>4. Grows /\ Registered'
    BY <1>3, UnchangedGrows
  <1>5. Relies(x)
    BY <1>2 DEF Relies, Result, Owns
  <1>6. Relies(x)'
    BY <1>4, <1>5, ReliesKept
  <1> QED
    BY <1>2, <1>3, <1>4, <1>6, ServerKeeps DEF Request

(* ... or goes on to its next stage, ... *)
LEMMA GotoKeeps ==
  ASSUME SessionsInv, NEW t \in Tabs, request[t].at \in {"checking", "looking"},
         NEW place \in StagesOf(request[t].kind) \ {"finding", "comparing"},
         place = "renaming" => \E user \in Users : Owns(user, request[t]),
         Goto(t, place), UNCHANGED <<accounts, tokens, lapsed, stored, tab, rewritten>>
  PROVE  SessionsInv'
  <1> USE DEF SessionsInv
  <1>1. /\ request[t].kind \in Kind /\ request[t].form \in Forms
        /\ request[t] = [at |-> request[t].at, kind |-> request[t].kind,
                         form |-> request[t].form]
    BY RequestFields DEF TypeOK
  <1>2. place \in {"checking", "hashing", "looking", "creating", "renaming"}
    BY <1>1 DEF StagesOf, Kind
  <1>3. PICK x \in Waiting :
          x = [at |-> place, kind |-> request[t].kind, form |-> request[t].form]
    BY <1>1, <1>2 DEF Waiting
  <1>4. request' = [request EXCEPT ![t] = x]
    <2>1. [request[t] EXCEPT !.at = place] = x
      BY <1>1, <1>3
    <2> QED
      BY <2>1 DEF Goto
  <1>5. Grows /\ Registered'
    BY UnchangedGrows
  <1>6. Relies(x)
    BY <1>2, <1>3 DEF Relies, Owns
  <1>7. Relies(x)'
    BY <1>5, <1>6, ReliesKept
  <1> QED
    BY <1>2, <1>3, <1>4, <1>5, <1>7, ServerKeeps DEF Request

(* ... or is signed in, to the account of its mailbox.                     *)
LEMMA SignInKeeps ==
  ASSUME SessionsInv, NEW t \in Tabs, request[t] # Idle,
         NEW user \in Nat, user \in 1 .. Len(accounts'),
         accounts'[user].email.box = request[t].form.address.box,
         Grows, Registered', Signed(user),
         Answer(t, "signed in", Len(tokens) + 1),
         UNCHANGED <<lapsed, stored, tab, rewritten>>
  PROVE  SessionsInv'
  <1> USE DEF SessionsInv
  <1>1. request[t].kind \in Kind /\ request[t].form \in Forms
    BY RequestFields DEF TypeOK
  <1>2. PICK n \in Nat :
          n = Len(tokens) + 1 /\ n \in 1 .. Len(tokens') /\ tokens'[n] = user
    BY SignedToken
  <1>3. PICK x \in Answered :
          x = [at |-> "answered", kind |-> request[t].kind, form |-> request[t].form,
               result |-> "signed in", token |-> n]
    BY <1>1, <1>2 DEF Answered, Result
  <1>4. request' = [request EXCEPT ![t] = x]
    BY <1>2, <1>3 DEF Answer, TypeOK
  <1>5. Relies(x)'
    BY <1>2, <1>3 DEF Relies, Owns, TokenNumbers, Users
  <1> QED
    BY <1>2, <1>3, <1>4, <1>5, ServerKeeps DEF Request

(* A request that is at one of the server's stages is of that stage's kind. *)
LEMMA StageKind ==
  ASSUME SessionsInv, NEW t \in Tabs, request[t].at \notin {"idle", "answered"}
  PROVE  /\ request[t] # Idle
         /\ request[t].form.address \in Addresses
         /\ request[t].form.fits \in BOOLEAN
         /\ request[t].at \in {"checking", "hashing"} => request[t].kind = "checking"
         /\ request[t].at \in {"finding", "comparing"} => request[t].kind = "finding"
         /\ request[t].at \in {"looking", "creating", "renaming"} => request[t].kind = "looking"
  <1>1. request[t] \in Request
    BY DEF SessionsInv, TypeOK
  <1>2. /\ request[t] # Idle
        /\ request[t].form.address \in Addresses
        /\ request[t].form.fits \in BOOLEAN
        /\ request[t].kind \in Kind
    BY <1>1, RequestFields DEF Idle
  <1>3. request[t].at \in StagesOf(request[t].kind)
    BY DEF SessionsInv, RequestsRely, Relies
  <1> QED
    BY <1>2, <1>3 DEF StagesOf, Kind

(* isEmailTaken *)
LEMMA CheckTakenKeeps ==
  ASSUME SessionsInv, NEW t \in Tabs, CheckTaken(t)
  PROVE  SessionsInv'
  <1>1. request[t].at = "checking" /\ UNCHANGED <<accounts, lapsed, stored, tab, rewritten>>
    BY DEF CheckTaken
  <1>2. /\ request[t] # Idle /\ request[t].kind = "checking"
        /\ request[t].form.address \in Addresses
    BY <1>1, StageKind
  <1>3. PICK user : user = FindUserByEmail(request[t].form.address)
    OBVIOUS
  <1>4. user # None => Owns(user, request[t])
    BY <1>2, <1>3, FindsOwner DEF SessionsInv, Owns, None
  <1>5. CASE user # None
    <2>1. Refuse(t, "taken")
      BY <1>3, <1>5 DEF CheckTaken
    <2>2. \E a \in Users : Owns(a, request[t])
      BY <1>4, <1>5 DEF Owns
    <2> QED
      BY <1>1, <1>2, <2>1, <2>2, RefuseKeeps DEF Result
  <1>6. CASE user = None
    <2>1. Goto(t, "hashing") /\ UNCHANGED tokens
      BY <1>3, <1>6 DEF CheckTaken
    <2>2. "hashing" \in StagesOf(request[t].kind) \ {"finding", "comparing"}
      BY <1>2 DEF StagesOf
    <2> QED
      BY <1>1, <2>1, <2>2, GotoKeeps
  <1> QED
    BY <1>5, <1>6

(* createUser: a row and a token, or the refusal of the database           *)
LEMMA CreateUserKeeps ==
  ASSUME SessionsInv, NEW t \in Tabs, NEW hashed \in BOOLEAN, NEW clash,
         \/ request[t].at = "hashing" /\ clash = "taken"
         \/ request[t].at = "creating" /\ clash = "failed",
         CreateUser(t, hashed, clash), UNCHANGED <<lapsed, stored, tab, rewritten>>
  PROVE  SessionsInv'
  <1>1. /\ request[t] # Idle
        /\ request[t].form.address \in Addresses /\ request[t].form.fits \in BOOLEAN
        /\ clash = "taken" => request[t].kind = "checking"
        /\ clash = "failed" => request[t].kind = "looking"
    BY StageKind
  <1>2. PICK row : row = Account(Normal(request[t].form.address), hashed)
    OBVIOUS
  <1>3. /\ row \in Row /\ row.email \in Addresses /\ row.email.plain = TRUE
        /\ row.email.box = request[t].form.address.box
    BY <1>1, <1>2, NormalAddress DEF Account, Row
  <1>4. Insert(t, row, clash)
    BY <1>2 DEF CreateUser
  <1>5. DOMAIN accounts = Users /\ accounts \in Seq(Row) /\ tokens \in Seq(Nat)
    BY DEF SessionsInv, TypeOK, Users
  <1>6. CASE ~request[t].form.fits \/ \E a \in Users : accounts[a].email = row.email
    <2>1. /\ Refuse(t, IF request[t].form.fits THEN clash ELSE "failed")
          /\ UNCHANGED accounts
      BY <1>4, <1>5, <1>6 DEF Insert
    <2>2. request[t].form.fits => \E a \in Users : Owns(a, request[t])
      BY <1>3, <1>6 DEF Owns
    <2>3. CASE request[t].form.fits
      BY <1>1, <2>1, <2>2, <2>3, RefuseKeeps DEF Result
    <2>4. CASE ~request[t].form.fits
      BY <1>1, <2>1, <2>4, RefuseKeeps DEF Result
    <2> QED
      BY <2>3, <2>4
  <1>7. CASE request[t].form.fits /\ \A a \in Users : accounts[a].email # row.email
    <2>1. accounts' = Append(accounts, row) /\ SignJwt(t, Len(accounts) + 1)
      BY <1>4, <1>5, <1>7 DEF Insert
    <2>2. Added(row)
      BY <1>3, <1>5, <2>1, RowAdded
    <2>3. PICK user \in Nat : user = Len(accounts) + 1
      BY <2>2 DEF Added
    <2>4. Signed(user)
      BY <1>5, <2>1, <2>3, TokenIssued DEF SignJwt
    <2>5. Grows /\ Registered'
      BY <1>3, <1>7, <2>2, <2>3, <2>4, UserCreated DEF SessionsInv
    <2>6. user \in 1 .. Len(accounts') /\ accounts'[user] = row
      BY <2>2, <2>3 DEF Added
    <2> QED
      BY <1>1, <1>3, <2>1, <2>4, <2>5, <2>6, SignInKeeps DEF SignJwt
  <1> QED
    BY <1>6, <1>7

(* login, up to its read of the account                                    *)
LEMMA FindKeeps ==
  ASSUME SessionsInv, NEW t \in Tabs, Find(t)
  PROVE  SessionsInv'
  <1>1. /\ request[t].at = "finding"
        /\ UNCHANGED <<accounts, lapsed, stored, tab, rewritten>>
    BY DEF Find
  <1>2. /\ request[t] # Idle /\ request[t].kind = "finding"
        /\ request[t].form.address \in Addresses
    BY <1>1, StageKind
  <1>3. PICK user : user = FindUserByEmail(request[t].form.address)
    OBVIOUS
  <1>4. user \in Nat /\ (user # None => Owns(user, request[t]))
    BY <1>2, <1>3, FindsOwner DEF SessionsInv, Owns, None, Users
  <1>5. CASE Refuse(t, "use Google")
    BY <1>1, <1>2, <1>5, RefuseKeeps DEF Result
  <1>6. CASE ~Refuse(t, "use Google")
    <2>1. /\ request' = [request EXCEPT ![t] =
                           [at |-> "comparing", kind |-> request[t].kind,
                            form |-> request[t].form, user |-> user]]
          /\ UNCHANGED tokens
      BY <1>3, <1>6 DEF Find, SessionsInv, TypeOK
    <2>2. request[t].kind \in Kind /\ request[t].form \in Forms
      BY <1>2, RequestFields DEF SessionsInv, TypeOK
    <2>3. PICK x \in Comparing :
            x = [at |-> "comparing", kind |-> request[t].kind,
                 form |-> request[t].form, user |-> user]
      BY <1>4, <2>2 DEF Comparing
    <2>4. Grows /\ Registered'
      BY <1>1, <2>1, UnchangedGrows DEF SessionsInv
    <2>5. Relies(x)
      BY <1>2, <1>4, <2>3 DEF Relies, Owns, StagesOf
    <2>6. Relies(x)'
      BY <2>4, <2>5, ReliesKept DEF SessionsInv
    <2> QED
      BY <1>1, <2>1, <2>3, <2>4, <2>6, ServerKeeps DEF Request
  <1> QED
    BY <1>5, <1>6

(* ... and the comparison of the password                                  *)
LEMMA CompareKeeps ==
  ASSUME SessionsInv, NEW t \in Tabs, Compare(t)
  PROVE  SessionsInv'
  <1>1. /\ request[t].at = "comparing"
        /\ UNCHANGED <<accounts, lapsed, stored, tab, rewritten>>
    BY DEF Compare
  <1>2. request[t] # Idle /\ request[t].kind = "finding"
    BY <1>1, StageKind
  <1>3. PICK user : user = request[t].user
    OBVIOUS
  <1>4. user # None => user \in Users /\ accounts[user].email.box = request[t].form.address.box
    BY <1>1, <1>3 DEF SessionsInv, RequestsRely, Relies, Owns
  <1>5. CASE user # None /\ request[t].form.right
    <2>1. SignJwt(t, user)
      BY <1>3, <1>5 DEF Compare
    <2>2. user \in Nat /\ user \in Users
      BY <1>4, <1>5 DEF Users
    <2>3. Signed(user)
      BY <2>1, <2>2, TokenIssued DEF SignJwt, SessionsInv, TypeOK
    <2>4. Grows /\ Registered'
      BY <1>1, <2>2, <2>3, TokenSigned DEF SessionsInv
    <2>5. /\ user \in 1 .. Len(accounts')
          /\ accounts'[user].email.box = request[t].form.address.box
      BY <1>1, <1>4, <1>5, <2>2 DEF Users
    <2> QED
      BY <1>1, <1>2, <2>1, <2>2, <2>3, <2>4, <2>5, SignInKeeps DEF SignJwt
  <1>6. CASE ~(user # None /\ request[t].form.right)
    <2>1. Refuse(t, "refused")
      BY <1>3, <1>6 DEF Compare
    <2> QED
      BY <1>1, <1>2, <2>1, RefuseKeeps DEF Result
  <1> QED
    BY <1>5, <1>6

(* The Google strategy: the account is found, or is to be made or renamed. *)
LEMMA LookKeeps ==
  ASSUME SessionsInv, NEW t \in Tabs, Look(t)
  PROVE  SessionsInv'
  <1>1. /\ request[t].at = "looking"
        /\ UNCHANGED <<accounts, lapsed, stored, tab, rewritten>>
    BY DEF Look
  <1>2. /\ request[t] # Idle /\ request[t].kind = "looking"
        /\ request[t].form.address \in Addresses
    BY <1>1, StageKind
  <1>3. PICK user : user = FindUserByEmail(request[t].form.address)
    OBVIOUS
  <1>4. /\ user # None => Owns(user, request[t])
        /\ user # None => user \in Nat /\ user \in Users
    BY <1>2, <1>3, FindsOwner DEF SessionsInv, Owns, None, Users
  <1>5. CASE user # None /\ ~accounts[user].legacy
    <2>1. SignJwt(t, user)
      BY <1>3, <1>5 DEF Look
    <2>2. Signed(user)
      BY <1>4, <1>5, <2>1, TokenIssued DEF SignJwt, SessionsInv, TypeOK
    <2>3. Grows /\ Registered'
      BY <1>1, <1>4, <1>5, <2>2, TokenSigned DEF SessionsInv
    <2> QED
      BY <1>1, <1>2, <1>4, <1>5, <2>1, <2>2, <2>3, SignInKeeps DEF SignJwt, Owns, Users
  <1>6. CASE ~(user # None /\ ~accounts[user].legacy)
    <2>1. PICK place : place = IF user = None THEN "creating" ELSE "renaming"
      OBVIOUS
    <2>2. Goto(t, place) /\ UNCHANGED tokens
      BY <1>3, <1>6, <2>1 DEF Look
    <2>3. place \in StagesOf(request[t].kind) \ {"finding", "comparing"}
      BY <1>2, <2>1 DEF StagesOf
    <2>4. place = "renaming" => \E a \in Users : Owns(a, request[t])
      BY <1>4, <2>1
    <2> QED
      BY <1>1, <2>2, <2>3, <2>4, GotoKeeps
  <1> QED
    BY <1>5, <1>6

(* updateUsername                                                          *)
LEMMA RenameKeeps ==
  ASSUME SessionsInv, NEW t \in Tabs, Rename(t)
  PROVE  SessionsInv'
  <1>1. request[t].at = "renaming" /\ UNCHANGED <<lapsed, stored, tab, rewritten>>
    BY DEF Rename
  <1>2. /\ request[t] # Idle /\ request[t].form.address \in Addresses
        /\ request[t].form.fits \in BOOLEAN
    BY <1>1, StageKind
  <1>3. PICK user : user = FindUserByEmail(request[t].form.address)
    OBVIOUS
  <1>4. \E a \in Users : Owns(a, request[t])
    BY <1>1 DEF SessionsInv, RequestsRely, Relies
  <1>5. user \in Nat /\ user \in Users /\ accounts[user].email.box = request[t].form.address.box
    BY <1>2, <1>3, <1>4, FindsOwner DEF SessionsInv, Owns, None, Users
  <1>6. /\ accounts' = [accounts EXCEPT ![user].legacy = @ /\ ~request[t].form.fits]
        /\ SignJwt(t, user)
    BY <1>3 DEF Rename
  <1>7. DOMAIN accounts = Users /\ Len(accounts) \in Nat /\ accounts \in [Users -> Row]
    BY DEF SessionsInv, TypeOK, Users
  <1>8. accounts' \in [Users -> Row] /\ \A a \in Users : accounts'[a].email = accounts[a].email
    <2>1. accounts[user] \in Row /\ accounts[user].legacy \in BOOLEAN
      BY <1>5, <1>7 DEF Row
    <2>2. [accounts[user] EXCEPT !.legacy = @ /\ ~request[t].form.fits] \in Row
      BY <1>2, <2>1 DEF Row
    <2> QED
      BY <1>5, <1>6, <1>7, <2>1, <2>2 DEF Row
  <1>9. accounts' \in Seq(Row) /\ Len(accounts') = Len(accounts)
    <2>1. PICK n \in Nat : n = Len(accounts)
      BY <1>7
    <2>2. accounts' \in [1 .. n -> Row]
      BY <1>8, <2>1 DEF Users
    <2> QED
      BY <2>1, <2>2, SeqDef, LenProperties
  <1>10. Signed(user)
    BY <1>5, <1>6, TokenIssued DEF SignJwt, SessionsInv, TypeOK
  <1>11. Grows
    <2>1. \A k \in 1 .. Len(tokens') : tokens'[k] \in 1 .. Len(accounts')
      BY <1>5, <1>9, <1>10 DEF Signed, SessionsInv, TokensNamed, Users
    <2> QED
      BY <1>7, <1>8, <1>9, <1>10, <2>1 DEF Grows, Signed
  <1>12. Registered'
    <2>1. DOMAIN accounts' = Users /\ Users' = Users
      BY <1>7, <1>8, <1>9 DEF Users
    <2> QED
      BY <1>7, <1>8, <2>1 DEF SessionsInv, Registered, OneAccountPerMailbox
  <1> QED
    BY <1>1, <1>2, <1>5, <1>6, <1>8, <1>9, <1>10, <1>11, <1>12, SignInKeeps
       DEF SignJwt, Users

-----------------------------------------------------------------------------
(* The browser's steps: no account and no token is added.  The tab may be  *)
(* set back to a page without a user and without a socket.                 *)

LEMMA TabFields ==
  ASSUME SessionsInv, NEW t \in Tabs
  PROVE  /\ page[t] \in Page
         /\ page[t].at \in {"signin", "Google", "dashboard", "room"}
         /\ page[t].stage \in {"ready", "guard", "mount"}
         /\ page[t].user \in Nat
         /\ page[t].rooms \in RoomList
         /\ page[t] = [at |-> page[t].at, stage |-> page[t].stage,
                       user |-> page[t].user, rooms |-> page[t].rooms]
  BY DEF SessionsInv, TypeOK, Page

(* A step of tab t: it is set to page x, socket s and peer p, and either   *)
(* the storage is as it was or every tab is told that it was rewritten.    *)
LEMMA TabKeeps ==
  ASSUME SessionsInv, NEW t \in Tabs, NEW x \in Page, NEW s \in Nat, NEW p \in Nat,
         page' = [page EXCEPT ![t] = x], socket' = [socket EXCEPT ![t] = s],
         peer' = [peer EXCEPT ![t] = p],
         stored' \in TokenNumbers \cup {None},
         \/ stored' = stored
         \/ \A u \in Tabs : rewritten'[u] = TRUE,
         rewritten' \in [Tabs -> BOOLEAN],
         \A u \in Tabs : u # t /\ rewritten[u] => rewritten'[u],
         request' \in [Tabs -> Request],
         \A u \in Tabs : Relies(request'[u]),
         \A u \in Tabs : request'[u].at = "answered" =>
            request'[u].token \in TokenNumbers \cup {None},
         s \in TokenNumbers \cup {None},
         x.at # "room" \/ x.stage # "ready" => s = None,
         p # None => s # None /\ p = tokens[s],
         x.user # None => x.stage = "ready",
         x.stage # "ready" => x.rooms = Unasked,
         x.user # None /\ ~rewritten'[t] =>
            /\ stored' # None /\ tokens[stored'] = x.user
            /\ s \in {None, stored'}
            /\ x.rooms.at = "asked" => x.rooms.token = stored'
            /\ x.rooms.at = "shown" => x.rooms.of \in {None, x.user},
         UNCHANGED <<accounts, tokens>>, lapsed' \in Nat
  PROVE  SessionsInv'
  <1> USE DEF SessionsInv
  <1>1. /\ page' \in [Tabs -> Page] /\ socket' \in [Tabs -> Nat] /\ peer' \in [Tabs -> Nat]
        /\ page'[t] = x /\ socket'[t] = s /\ peer'[t] = p
        /\ \A u \in Tabs : u # t =>
              page'[u] = page[u] /\ socket'[u] = socket[u] /\ peer'[u] = peer[u]
    BY DEF TypeOK
  <1>2. TypeOK'
    BY <1>1 DEF TypeOK, TokenNumbers, None
  <1>3. Registered'
    BY DEF Registered, OneAccountPerMailbox, Users
  <1>4. TokensNamed'
    BY <1>1 DEF TokensNamed, TokenNumbers, Users
  <1>5. RequestsRely'
    BY ReliesStay
  <1>6. SocketsPlaced'
    BY <1>1 DEF SocketsPlaced
  <1>7. PagesAgree'
    BY <1>1 DEF PagesAgree, TypeOK
  <1> QED
    BY <1>2, <1>3, <1>4, <1>5, <1>6, <1>7

(* A step that leaves the requests alone keeps what they rely on.          *)
LEMMA RequestsKept ==
  ASSUME SessionsInv, UNCHANGED request
  PROVE  /\ request' \in [Tabs -> Request]
         /\ \A u \in Tabs : Relies(request'[u])
         /\ \A u \in Tabs : request'[u].at = "answered" =>
               request'[u].token \in TokenNumbers \cup {None}
  BY DEF SessionsInv, TypeOK, RequestsRely, TokensNamed

(* router.push                                                             *)
LEMMA PushedTab ==
  ASSUME SessionsInv, NEW t \in Tabs, NEW place \in {"signin", "dashboard", "room"},
         Push(t, place)
  PROVE  \E x \in Page, s \in Nat, p \in Nat :
            /\ page' = [page EXCEPT ![t] = x] /\ socket' = [socket EXCEPT ![t] = s]
            /\ peer' = [peer EXCEPT ![t] = p]
            /\ \/ x = page[t] /\ s = socket[t] /\ p = peer[t]
               \/ x.user = None /\ x.rooms = Unasked /\ s = None /\ p = None
  <1> USE DEF SessionsInv
  <1>1. CASE place = page[t].at
    <2>1. page' = page /\ socket' = socket /\ peer' = peer
      BY <1>1 DEF Push, tab
    <2>2. page[t] \in Page /\ socket[t] \in Nat /\ peer[t] \in Nat
      BY DEF TypeOK
    <2> QED
      BY <2>1, <2>2 DEF TypeOK
  <1>2. CASE place # page[t].at
    <2>1. PICK x : x = IF place = "signin" THEN SignIn
                       ELSE [at |-> place, stage |-> "guard", user |-> None, rooms |-> Unasked]
      OBVIOUS
    <2>2. x \in Page /\ x.user = None /\ x.rooms = Unasked
      BY <2>1 DEF Page, SignIn, None, RoomList
    <2>3. page' = [page EXCEPT ![t] = x]
      BY <1>2, <2>1 DEF Push
    <2>4. CASE page[t].at = "room"
      <3>1. socket' = [socket EXCEPT ![t] = None] /\ peer' = [peer EXCEPT ![t] = None]
        BY <1>2, <2>4 DEF Push, DestroySocket
      <3>2. None \in Nat
        BY DEF None
      <3> QED
        BY <2>2, <2>3, <3>1, <3>2
    <2>5. CASE page[t].at # "room"
      <3>1. socket' = socket /\ peer' = peer
        BY <1>2, <2>5 DEF Push
      <3>2. socket[t] = None /\ peer[t] = None
        BY <2>5 DEF SocketsPlaced
      <3> QED
        BY <2>2, <2>3, <3>1, <3>2 DEF TypeOK, None
    <2> QED
      BY <2>4, <2>5
  <1> QED
    BY <1>1, <1>2

(* A page is left, or the storage is rewritten, or both.                   *)
LEMMA PushKeeps ==
  ASSUME SessionsInv, NEW t \in Tabs, NEW place \in {"signin", "dashboard", "room"},
         Push(t, place), NEW token \in TokenNumbers \cup {None},
         Store(token) \/ UNCHANGED <<stored, rewritten>>,
         request' \in [Tabs -> Request],
         \A u \in Tabs : Relies(request'[u]),
         \A u \in Tabs : request'[u].at = "answered" =>
            request'[u].token \in TokenNumbers \cup {None},
         UNCHANGED <<accounts, tokens, lapsed>>
  PROVE  SessionsInv'
  <1> USE DEF SessionsInv
  <1>1. PICK x \in Page, s \in Nat, p \in Nat :
           /\ page' = [page EXCEPT ![t] = x] /\ socket' = [socket EXCEPT ![t] = s]
           /\ peer' = [peer EXCEPT ![t] = p]
           /\ \/ x = page[t] /\ s = socket[t] /\ p = peer[t]
              \/ x.user = None /\ x.rooms = Unasked /\ s = None /\ p = None
    BY PushedTab
  <1>2. /\ stored' \in TokenNumbers \cup {None}
        /\ stored' = stored \/ \A u \in Tabs : rewritten'[u] = TRUE
        /\ rewritten' \in [Tabs -> BOOLEAN]
        /\ \A u \in Tabs : rewritten[u] => rewritten'[u]
        /\ rewritten'[t] \/ (stored' = stored /\ rewritten' = rewritten)
    BY DEF Store, TokensNamed, TypeOK
  <1>3. /\ s \in TokenNumbers \cup {None}
        /\ x.at # "room" \/ x.stage # "ready" => s = None
        /\ p # None => s # None /\ p = tokens[s]
        /\ x.user # None => x.stage = "ready"
        /\ x.stage # "ready" => x.rooms = Unasked
    BY <1>1 DEF TokensNamed, SocketsPlaced
  <1>4. x.user # None /\ ~rewritten'[t] =>
            /\ stored' # None /\ tokens[stored'] = x.user
            /\ s \in {None, stored'}
            /\ x.rooms.at = "asked" => x.rooms.token = stored'
            /\ x.rooms.at = "shown" => x.rooms.of \in {None, x.user}
    BY <1>1, <1>2 DEF PagesAgree
  <1>5. lapsed' \in Nat
    BY DEF TypeOK
  <1> QED
    BY <1>1, <1>2, <1>3, <1>4, <1>5, TabKeeps

(* The form or the link to Google *)
LEMMA SubmitKeeps ==
  ASSUME SessionsInv, NEW t \in Tabs, Submit(t)
  PROVE  SessionsInv'
  <1> USE DEF SessionsInv
  <1>1. PICK form \in Forms, kind \in Kind :
           /\ request' = [request EXCEPT ![t] = [at |-> kind, kind |-> kind, form |-> form]]
           /\ page' = IF kind = "looking" THEN [page EXCEPT ![t].at = "Google"] ELSE page
    BY DEF Submit, Kind
  <1>2. /\ page[t].at = "signin"
        /\ UNCHANGED <<accounts, tokens, lapsed, stored, socket, peer, rewritten>>
    BY DEF Submit
  <1>3. PICK r \in Waiting : r = [at |-> kind, kind |-> kind, form |-> form]
    BY DEF Waiting, Kind
  <1>4. Relies(r) /\ r.at # "answered"
    BY <1>3 DEF Relies, StagesOf, Kind
  <1>5. /\ request' \in [Tabs -> Request]
        /\ \A u \in Tabs : Relies(request'[u])
        /\ \A u \in Tabs : request'[u].at = "answered" =>
              request'[u].token \in TokenNumbers \cup {None}
    BY <1>1, <1>3, <1>4 DEF TypeOK, RequestsRely, TokensNamed, Request
  <1>6. PICK x \in Page : /\ page' = [page EXCEPT ![t] = x]
                          /\ x.at # "room" /\ x.stage = page[t].stage
                          /\ x.user = page[t].user /\ x.rooms = page[t].rooms
    <2>1. CASE kind = "looking"
      <3>1. page' = [page EXCEPT ![t] = [page[t] EXCEPT !.at = "Google"]]
        BY <1>1, <2>1
      <3>2. [page[t] EXCEPT !.at = "Google"] \in Page
        BY TabFields DEF Page
      <3> QED
        BY <3>1, <3>2, TabFields
    <2>2. CASE kind # "looking"
      <3>1. page' = [page EXCEPT ![t] = page[t]]
        BY <1>1, <2>2 DEF TypeOK
      <3> QED
        BY <1>2, <3>1, TabFields
    <2> QED
      BY <2>1, <2>2
  <1>7. /\ None \in Nat /\ None \in TokenNumbers \cup {None}
        /\ x.user # None => x.stage = "ready"
        /\ x.stage # "ready" => x.rooms = Unasked
        /\ socket' = [socket EXCEPT ![t] = None] /\ peer' = [peer EXCEPT ![t] = None]
    BY <1>2, <1>6 DEF SocketsPlaced, TypeOK, None
  <1>8. x.user # None /\ ~rewritten'[t] =>
            /\ stored' # None /\ tokens[stored'] = x.user
            /\ None \in {None, stored'}
            /\ x.rooms.at = "asked" => x.rooms.token = stored'
            /\ x.rooms.at = "shown" => x.rooms.of \in {None, x.user}
    BY <1>2, <1>6 DEF PagesAgree
  <1>9. /\ stored' \in TokenNumbers \cup {None} /\ stored' = stored
        /\ rewritten' \in [Tabs -> BOOLEAN] /\ lapsed' \in Nat
        /\ \A u \in Tabs : rewritten[u] => rewritten'[u]
    BY <1>2 DEF TypeOK, TokensNamed
  <1> HIDE DEF SessionsInv
  <1> QED
    BY <1>2, <1>5, <1>6, <1>7, <1>8, <1>9, TabKeeps

(* The answer arrives. *)
LEMMA DeliverKeeps ==
  ASSUME SessionsInv, NEW t \in Tabs, Deliver(t)
  PROVE  SessionsInv'
  <1> USE DEF SessionsInv
  <1>1. /\ request[t].at = "answered" /\ request' = [request EXCEPT ![t] = Idle]
        /\ UNCHANGED <<accounts, tokens, lapsed>>
    BY DEF Deliver
  <1>2. Idle \in Request /\ Relies(Idle) /\ Idle.at # "answered"
    BY DEF Request, Relies, Idle
  <1>3. /\ request' \in [Tabs -> Request]
        /\ \A u \in Tabs : Relies(request'[u])
        /\ \A u \in Tabs : request'[u].at = "answered" =>
              request'[u].token \in TokenNumbers \cup {None}
    BY <1>1, <1>2 DEF TypeOK, RequestsRely, TokensNamed
  <1>4. None \in TokenNumbers \cup {None}
    OBVIOUS
  <1>5. CASE request[t].result = "signed in"
    <2>1. Store(request[t].token) /\ Push(t, "dashboard")
      BY <1>5 DEF Deliver
    <2>2. request[t].token \in TokenNumbers \cup {None}
      BY <1>1 DEF TokensNamed
    <2> QED
      BY <1>1, <1>3, <2>1, <2>2, PushKeeps
  <1>6. CASE request[t].result # "signed in" /\ page[t].at = "Google"
    <2>1. Push(t, "signin") /\ UNCHANGED <<stored, rewritten>>
      BY <1>6 DEF Deliver
    <2> QED
      BY <1>1, <1>3, <1>4, <2>1, PushKeeps
  <1>7. CASE request[t].result # "signed in" /\ page[t].at # "Google"
    <2>1. UNCHANGED tab /\ UNCHANGED <<stored, rewritten>>
      BY <1>7 DEF Deliver
    <2>2. SessionsInv'
      <3>1. TypeOK' /\ Registered' /\ TokensNamed'
        BY <1>1, <1>3, <2>1
        DEF TypeOK, Registered, OneAccountPerMailbox, TokensNamed, Users, TokenNumbers, tab
      <3>2. RequestsRely'
        BY <1>1, <1>3, ReliesStay
      <3>3. SocketsPlaced' /\ PagesAgree'
        BY <1>1, <2>1 DEF SocketsPlaced, PagesAgree, tab
      <3> QED
        BY <3>1, <3>2, <3>3
    <2> QED
      BY <2>2
  <1> QED
    BY <1>5, <1>6, <1>7

LEMMA GoKeeps ==
  ASSUME SessionsInv, NEW t \in Tabs, Go(t)
  PROVE  SessionsInv'
  <1>1. PICK place \in {"signin", "dashboard", "room"} : Push(t, place)
    BY DEF Go
  <1>2. UNCHANGED <<accounts, tokens, lapsed, stored, request, rewritten>>
    BY DEF Go
  <1>3. None \in TokenNumbers \cup {None}
    OBVIOUS
  <1> QED
    BY <1>1, <1>2, <1>3, RequestsKept, PushKeeps

(* No token, or an expired one *)
LEMMA TurnAwayKeeps ==
  ASSUME SessionsInv, NEW t \in Tabs, TurnAway(t),
         UNCHANGED <<accounts, tokens, lapsed, request>>
  PROVE  SessionsInv'
  <1>1. None \in TokenNumbers \cup {None}
    OBVIOUS
  <1>2. Push(t, "signin") /\ (Store(None) \/ UNCHANGED <<stored, rewritten>>)
    BY DEF TurnAway
  <1> QED
    BY <1>1, <1>2, RequestsKept, PushKeeps

LEMMA GuardKeeps ==
  ASSUME SessionsInv, NEW t \in Tabs, Guard(t)
  PROVE  SessionsInv'
  <1>1. page[t].stage = "guard" /\ UNCHANGED <<accounts, tokens, lapsed, request>>
    BY DEF Guard
  <1>2. CASE Verified(stored)
    <2>1. /\ page' = [page EXCEPT ![t].stage = "mount"]
          /\ UNCHANGED <<socket, peer, stored, rewritten>>
      BY <1>2 DEF Guard
    <2>2. PICK x \in Page : x = [page[t] EXCEPT !.stage = "mount"]
      BY TabFields DEF Page
    <2>3. /\ page' = [page EXCEPT ![t] = x]
          /\ x.stage = "mount" /\ x.user = page[t].user /\ x.rooms = page[t].rooms
      BY <2>1, <2>2, TabFields
    <2>4. /\ page[t].user = None /\ page[t].rooms = Unasked
          /\ None \in Nat /\ None \in TokenNumbers \cup {None}
          /\ socket' = [socket EXCEPT ![t] = None] /\ peer' = [peer EXCEPT ![t] = None]
          /\ stored' \in TokenNumbers \cup {None}
          /\ rewritten' \in [Tabs -> BOOLEAN] /\ lapsed' \in Nat
          /\ \A u \in Tabs : rewritten[u] => rewritten'[u]
      BY <1>1, <2>1 DEF SessionsInv, SocketsPlaced, TypeOK, TokensNamed, None
    <2>5. x.stage # "ready" /\ x.user = None /\ x.rooms = Unasked /\ stored' = stored
      BY <2>1, <2>3, <2>4
    <2>6. /\ request' \in [Tabs -> Request]
          /\ \A u \in Tabs : Relies(request'[u])
          /\ \A u \in Tabs : request'[u].at = "answered" =>
                request'[u].token \in TokenNumbers \cup {None}
      BY <1>1, RequestsKept
    <2> QED
      BY <1>1, <2>3, <2>4, <2>5, <2>6, TabKeeps
  <1>3. CASE ~Verified(stored)
    BY <1>1, <1>3, TurnAwayKeeps DEF Guard
  <1> QED
    BY <1>2, <1>3

(* The page's effects: user and socket are taken from the storage.         *)
LEMMA MountKeeps ==
  ASSUME SessionsInv, NEW t \in Tabs, Mount(t)
  PROVE  SessionsInv'
  <1>1. page[t].stage = "mount" /\ UNCHANGED <<accounts, tokens, lapsed, request>>
    BY DEF Mount
  <1>2. CASE Verified(stored)
    <2>1. stored \in TokenNumbers /\ stored # None /\ tokens[stored] \in Nat /\ stored \in Nat
      <3>1. stored \in TokenNumbers
        BY <1>2 DEF Verified, SessionsInv, TypeOK, TokenNumbers
      <3> QED
        BY <3>1 DEF SessionsInv, TypeOK, TokensNamed, TokenNumbers, Users, None
    <2>2. /\ page' = [page EXCEPT ![t] = [at |-> page[t].at, stage |-> "ready",
                                          user |-> tokens[stored], rooms |-> page[t].rooms]]
          /\ socket' = IF page[t].at = "room" /\ socket[t] = None
                       THEN [socket EXCEPT ![t] = stored] ELSE socket
          /\ rewritten' = [rewritten EXCEPT ![t] = FALSE]
          /\ UNCHANGED <<peer, stored>>
      BY <1>2 DEF Mount, SessionsInv, TypeOK
    <2> DEFINE x == [at |-> page[t].at, stage |-> "ready", user |-> tokens[stored],
                     rooms |-> page[t].rooms]
    <2>3. /\ x \in Page /\ x.user = tokens[stored] /\ x.stage = "ready"
          /\ x.at = page[t].at /\ x.rooms = page[t].rooms
      BY <2>1, TabFields DEF Page
    <2>4. page' = [page EXCEPT ![t] = x]
      BY <2>2
    <2> HIDE DEF x
    <2>5. socket[t] = None /\ peer[t] = None
      BY <1>1 DEF SessionsInv, SocketsPlaced
    <2>6. PICK s \in Nat : s = IF page[t].at = "room" THEN stored ELSE None
      BY <2>1 DEF None
    <2>7. /\ socket' = [socket EXCEPT ![t] = s] /\ peer' = [peer EXCEPT ![t] = None]
          /\ None \in Nat
      BY <2>2, <2>5, <2>6 DEF SessionsInv, TypeOK, None
    <2>8. /\ s \in TokenNumbers \cup {None} /\ s \in {None, stored'}
          /\ x.at # "room" \/ x.stage # "ready" => s = None
      BY <2>1, <2>2, <2>3, <2>6
    <2>9. /\ stored' \in TokenNumbers \cup {None} /\ stored' = stored
          /\ rewritten' \in [Tabs -> BOOLEAN] /\ lapsed' \in Nat
          /\ \A u \in Tabs : u # t /\ rewritten[u] => rewritten'[u]
      BY <1>1, <2>1, <2>2 DEF SessionsInv, TypeOK
    <2>10. /\ request' \in [Tabs -> Request]
           /\ \A u \in Tabs : Relies(request'[u])
           /\ \A u \in Tabs : request'[u].at = "answered" =>
                 request'[u].token \in TokenNumbers \cup {None}
      BY <1>1, RequestsKept
    <2>11. page[t].rooms.at \notin {"asked", "shown"}
      BY <1>1 DEF SessionsInv, SocketsPlaced, Unasked
    <2>12. /\ stored' # None /\ tokens[stored'] = x.user
           /\ x.rooms.at = "asked" => x.rooms.token = stored'
           /\ x.rooms.at = "shown" => x.rooms.of \in {None, x.user}
      BY <2>1, <2>2, <2>3, <2>11
    <2> QED
      BY <1>1, <2>3, <2>4, <2>7, <2>8, <2>9, <2>10, <2>12, TabKeeps
  <1>3. CASE ~Verified(stored)
    BY <1>1, <1>3, TurnAwayKeeps DEF Mount
  <1> QED
    BY <1>2, <1>3

(* The rooms are asked for, or shown: the rest of the page stays.          *)
Lists(t, list) == page' = [page EXCEPT ![t].rooms = list]

LEMMA RoomsKeep ==
  ASSUME SessionsInv, NEW t \in Tabs, NEW list \in RoomList,
         Lists(t, list), page[t].stage = "ready",
         page[t].user # None /\ ~rewritten[t] =>
            /\ list.at = "asked" => list.token = stored
            /\ list.at = "shown" => list.of \in {None, page[t].user},
         UNCHANGED <<accounts, tokens, lapsed, stored, socket, peer, request, rewritten>>
  PROVE  SessionsInv'
  <1> DEFINE x == [at |-> page[t].at, stage |-> page[t].stage, user |-> page[t].user,
                   rooms |-> list]
  <1>1. /\ x \in Page /\ x.user = page[t].user /\ x.stage = page[t].stage
        /\ x.at = page[t].at /\ x.rooms = list
    BY TabFields DEF Page
  <1>2. page' = [page EXCEPT ![t] = x]
    <2>1. page[t] \in Page
      BY TabFields
    <2>2. [page[t] EXCEPT !.rooms = list] = x
      BY <2>1 DEF Page
    <2> QED
      BY <2>2 DEF Lists
  <1> HIDE DEF x
  <1>3. PICK s \in Nat, p \in Nat : s = socket[t] /\ p = peer[t]
    BY DEF SessionsInv, TypeOK
  <1>4. /\ socket' = [socket EXCEPT ![t] = s] /\ peer' = [peer EXCEPT ![t] = p]
        /\ s \in TokenNumbers \cup {None}
        /\ x.at # "room" \/ x.stage # "ready" => s = None
        /\ p # None => s # None /\ p = tokens[s]
        /\ x.user # None => x.stage = "ready"
    BY <1>1, <1>3 DEF SessionsInv, TypeOK, TokensNamed, SocketsPlaced
  <1>5. /\ stored' \in TokenNumbers \cup {None} /\ stored' = stored
        /\ rewritten' \in [Tabs -> BOOLEAN] /\ lapsed' \in Nat
        /\ \A u \in Tabs : rewritten[u] => rewritten'[u]
    BY DEF SessionsInv, TypeOK, TokensNamed
  <1>6. x.user # None /\ ~rewritten'[t] =>
            /\ stored' # None /\ tokens[stored'] = x.user
            /\ s \in {None, stored'}
            /\ x.rooms.at = "asked" => x.rooms.token = stored'
            /\ x.rooms.at = "shown" => x.rooms.of \in {None, x.user}
    BY <1>1, <1>3 DEF SessionsInv, PagesAgree
  <1>7. /\ request' \in [Tabs -> Request]
        /\ \A u \in Tabs : Relies(request'[u])
        /\ \A u \in Tabs : request'[u].at = "answered" =>
              request'[u].token \in TokenNumbers \cup {None}
    BY RequestsKept
  <1>8. UNCHANGED <<accounts, tokens>> /\ x.stage = "ready"
    BY <1>1
  <1> QED
    BY <1>1, <1>2, <1>4, <1>5, <1>6, <1>7, <1>8, TabKeeps

LEMMA FetchKeeps ==
  ASSUME SessionsInv, NEW t \in Tabs, Fetch(t)
  PROVE  SessionsInv'
  <1>1. PICK list \in RoomList : list = [at |-> "asked", token |-> stored]
    BY DEF RoomList, SessionsInv, TypeOK
  <1>2. Lists(t, list) /\ page[t].stage = "ready"
    BY <1>1 DEF Lists, Fetch
  <1>3. list.at = "asked" /\ list.token = stored
    BY <1>1
  <1>4. UNCHANGED <<accounts, tokens, lapsed, stored, socket, peer, request, rewritten>>
    BY DEF Fetch
  <1> QED
    BY <1>2, <1>3, <1>4, RoomsKeep

(* jwtAuth answers for the account of the token that was sent.             *)
LEMMA ShowKeeps ==
  ASSUME SessionsInv, NEW t \in Tabs, Show(t)
  PROVE  SessionsInv'
  <1>1. page[t].rooms.at = "asked" /\ page[t].stage = "ready"
    BY DEF Show, SessionsInv, SocketsPlaced, Unasked
  <1>2. PICK token : token = page[t].rooms.token
    OBVIOUS
  <1>3. PICK of \in Nat : of = IF Verified(token) THEN tokens[token] ELSE None
    <2>1. CASE Verified(token)
      <3>1. token \in TokenNumbers
        BY <2>1 DEF Verified, SessionsInv, TypeOK, TokenNumbers
      <3> QED
        BY <2>1, <3>1 DEF SessionsInv, TokensNamed, Users
    <2>2. CASE ~Verified(token)
      BY <2>2 DEF None
    <2> QED
      BY <2>1, <2>2
  <1>4. PICK list \in RoomList : list = [at |-> "shown", of |-> of]
    BY DEF RoomList
  <1>5. Lists(t, list)
    BY <1>2, <1>3, <1>4 DEF Lists, Show
  <1>6. page[t].user # None /\ ~rewritten[t] => token = stored /\ tokens[stored] = page[t].user
    BY <1>1, <1>2 DEF SessionsInv, PagesAgree
  <1>7. page[t].user # None /\ ~rewritten[t] => list.of \in {None, page[t].user}
    BY <1>3, <1>4, <1>6
  <1>8. list.at = "shown"
    BY <1>4
  <1>9. UNCHANGED <<accounts, tokens, lapsed, stored, socket, peer, request, rewritten>>
    BY DEF Show
  <1> QED
    BY <1>1, <1>5, <1>7, <1>8, <1>9, RoomsKeep

(* The server admits the socket, or the connection is lost.                *)
LEMMA PeerKeeps ==
  ASSUME SessionsInv, NEW t \in Tabs, NEW p \in Nat,
         p # None => socket[t] # None /\ p = tokens[socket[t]],
         peer' = [peer EXCEPT ![t] = p],
         UNCHANGED <<accounts, tokens, lapsed, stored, page, socket, request, rewritten>>
  PROVE  SessionsInv'
  <1> USE DEF SessionsInv
  <1>1. TypeOK' /\ Registered'
    BY DEF TypeOK, Registered, OneAccountPerMailbox, Users
  <1>2. TokensNamed'
    BY DEF TokensNamed, TokenNumbers, Users
  <1>3. RequestsRely'
    BY ReliesStay DEF RequestsRely
  <1>4. SocketsPlaced' /\ PagesAgree'
    BY DEF SocketsPlaced, PagesAgree, TypeOK
  <1> QED
    BY <1>1, <1>2, <1>3, <1>4

LEMMA HandshakeKeeps ==
  ASSUME SessionsInv, NEW t \in Tabs, Handshake(t)
  PROVE  SessionsInv'
  <1>1. socket[t] # None /\ socket[t] \in TokenNumbers
    BY DEF Handshake, SessionsInv, TokensNamed
  <1>2. PICK p \in Nat : p = tokens[socket[t]]
    BY <1>1 DEF SessionsInv, TokensNamed, Users
  <1>3. /\ peer' = [peer EXCEPT ![t] = p]
        /\ UNCHANGED <<accounts, tokens, lapsed, stored, page, socket, request, rewritten>>
    BY <1>2 DEF Handshake
  <1> QED
    BY <1>1, <1>2, <1>3, PeerKeeps

LEMMA CutKeeps ==
  ASSUME SessionsInv, NEW t \in Tabs, Cut(t)
  PROVE  SessionsInv'
  <1>1. /\ peer' = [peer EXCEPT ![t] = None] /\ None \in Nat
        /\ UNCHANGED <<accounts, tokens, lapsed, stored, page, socket, request, rewritten>>
    BY DEF Cut, None
  <1> QED
    BY <1>1, PeerKeeps

LEMMA LogoutKeeps ==
  ASSUME SessionsInv, NEW t \in Tabs, Logout(t)
  PROVE  SessionsInv'
  <1>1. /\ Store(None) /\ page' = [page EXCEPT ![t] = SignIn]
        /\ socket' = [socket EXCEPT ![t] = None] /\ peer' = [peer EXCEPT ![t] = None]
        /\ UNCHANGED <<accounts, tokens, lapsed, request>>
    BY DEF Logout
  <1>2. PICK x \in Page : x = SignIn
    BY DEF Page, SignIn, RoomList, None
  <1>3. x.user = None /\ x.stage = "ready" /\ x.at # "room"
    BY <1>2 DEF SignIn
  <1>4. /\ stored' \in TokenNumbers \cup {None} /\ None \in Nat
        /\ None \in TokenNumbers \cup {None} /\ lapsed' \in Nat
        /\ rewritten' \in [Tabs -> BOOLEAN] /\ \A u \in Tabs : rewritten'[u] = TRUE
    BY <1>1 DEF Store, None, SessionsInv, TypeOK
  <1>5. /\ request' \in [Tabs -> Request]
        /\ \A u \in Tabs : Relies(request'[u])
        /\ \A u \in Tabs : request'[u].at = "answered" =>
              request'[u].token \in TokenNumbers \cup {None}
    BY <1>1, RequestsKept
  <1> QED
    BY <1>1, <1>2, <1>3, <1>4, <1>5, TabKeeps

-----------------------------------------------------------------------------
LEMMA LapseKeeps ==
  ASSUME SessionsInv, Lapse \/ UNCHANGED vars
  PROVE  SessionsInv'
  <1> USE DEF SessionsInv
  <1>1. /\ UNCHANGED <<accounts, tokens, stored, tab, request, rewritten>>
        /\ lapsed' \in Nat
    BY DEF Lapse, vars, TypeOK
  <1>2. TypeOK' /\ Registered'
    BY <1>1 DEF TypeOK, Registered, OneAccountPerMailbox, Users, tab
  <1>3. TokensNamed'
    BY <1>1 DEF TokensNamed, TokenNumbers, Users, tab
  <1>4. RequestsRely'
    BY <1>1, ReliesStay DEF RequestsRely
  <1>5. SocketsPlaced' /\ PagesAgree'
    BY <1>1 DEF SocketsPlaced, PagesAgree, tab
  <1> QED
    BY <1>2, <1>3, <1>4, <1>5

LEMMA StepKeeps ==
  ASSUME SessionsInv, [Next]_vars
  PROVE  SessionsInv'
  <1>1. CASE Lapse \/ UNCHANGED vars
    BY <1>1, LapseKeeps
  <1>2. ASSUME NEW t \in Tabs, Server(t)
        PROVE  SessionsInv'
    <2>1. CASE CheckTaken(t)
      BY <2>1, CheckTakenKeeps
    <2>2. CASE Register(t) \/ Create(t)
      BY <2>2, CreateUserKeeps DEF Register, Create
    <2>3. CASE Find(t) \/ Compare(t)
      BY <2>3, FindKeeps, CompareKeeps
    <2>4. CASE Look(t) \/ Rename(t)
      BY <2>4, LookKeeps, RenameKeeps
    <2> QED
      BY <1>2, <2>1, <2>2, <2>3, <2>4 DEF Server
  <1>3. ASSUME NEW t \in Tabs, Browser(t)
        PROVE  SessionsInv'
    BY <1>3, SubmitKeeps, DeliverKeeps, GoKeeps, GuardKeeps, MountKeeps, FetchKeeps,
       ShowKeeps, HandshakeKeeps, CutKeeps, LogoutKeeps DEF Browser
  <1> QED
    BY <1>1, <1>2, <1>3 DEF Next

LEMMA InitHolds ==
  ASSUME Init
  PROVE  SessionsInv
  <1> USE DEF SessionsInv
  <1>1. PICK n \in Nat : n = Len(Legacy) /\ DOMAIN Legacy = 1 .. n
    BY SessionsAssumption
  <1>2. \A i \in 1 .. n : Legacy[i] \in Mailboxes
    BY <1>1, SessionsAssumption
  <1>3. accounts \in [1 .. n -> Row]
    BY <1>1, <1>2 DEF Init, Row, Addresses
  <1>4. accounts \in Seq(Row) /\ Len(accounts) = n /\ DOMAIN accounts = 1 .. n
    BY <1>3, SeqDef, LenProperties
  <1>5. tokens = <<>> /\ Len(tokens) = 0 /\ tokens \in Seq(Nat)
    BY DEF Init
  <1>6. TypeOK
    BY <1>4, <1>5 DEF Init, TypeOK, None, Page, SignIn, RoomList, Request
  <1>7. Registered
    BY <1>1, <1>4, LegacyAssumption DEF Init, Registered, OneAccountPerMailbox, Users
  <1>8. TokensNamed /\ RequestsRely
    <2>1. TokenNumbers = {}
      BY <1>5 DEF TokenNumbers
    <2>2. \A t \in Tabs : socket[t] = None /\ request[t] = Idle
      BY DEF Init
    <2>3. TokensNamed
      BY <2>1, <2>2 DEF Init, TokensNamed, Idle
    <2>4. Relies(Idle)
      BY DEF Relies, Idle
    <2>5. RequestsRely
      BY <2>2, <2>4 DEF RequestsRely
    <2> QED
      BY <2>3, <2>5
  <1>9. SocketsPlaced /\ PagesAgree
    BY DEF Init, SocketsPlaced, PagesAgree, SignIn
  <1> QED
    BY <1>6, <1>7, <1>8, <1>9

LEMMA SessionsInvariant == Spec => []SessionsInv
  <1> QED
    BY InitHolds, StepKeeps, PTL DEF Spec

(* The state of accounts, tokens and tabs is of the type the code gives it *)
(* (schema 001, storeJwt, useAuth, socketClient.ts), whoever signs in.     *)
THEOREM SessionsTyped == Spec => []TypeOK
  <1> QED
    BY SessionsInvariant, PTL DEF SessionsInv

(* users.ts:92-98: however addresses are typed and whoever races, no       *)
(* mailbox ever has two accounts.                                          *)
THEOREM MailboxesUnique == Spec => []OneAccountPerMailbox
  <1>1. SessionsInv => OneAccountPerMailbox
    BY DEF SessionsInv, Registered
  <1> QED
    BY <1>1, SessionsInvariant, PTL

(* routes/auth.ts, passport.ts: every answer to a sign-in has its cause,   *)
(* and the token it carries is of the account of that mailbox.             *)
THEOREM AnswersHaveCause == Spec => []AnsweredForCause
  <1>1. ASSUME SessionsInv
        PROVE  AnsweredForCause
    <2> USE <1>1 DEF SessionsInv
    <2> SUFFICES ASSUME NEW t \in Tabs, request[t].at = "answered"
                 PROVE  LET r == request[t]
                            mine == {a \in DOMAIN accounts :
                                       accounts[a].email.box = r.form.address.box}
                        IN  CASE r.result = "signed in" -> mine = {tokens[r.token]}
                              [] r.result = "taken"  -> r.kind = "checking" /\ mine # {}
                              [] r.result = "failed" -> \/ ~r.form.fits
                                                        \/ r.kind = "looking" /\ mine # {}
                              [] OTHER -> r.kind = "finding"
      BY DEF AnsweredForCause
    <2>1. PICK r : r = request[t]
      OBVIOUS
    <2> DEFINE mine == {a \in DOMAIN accounts : accounts[a].email.box = r.form.address.box}
    <2>2. DOMAIN accounts = Users
      BY DEF TypeOK, Users
    <2>3. \A a \in Users : Owns(a, r) => mine = {a}
      BY <2>2 DEF Owns, Registered, OneAccountPerMailbox
    <2>4. Relies(r)
      BY <2>1 DEF RequestsRely
    <2>5. r.result = "signed in" => mine = {tokens[r.token]}
      BY <2>1, <2>3, <2>4 DEF Relies, Owns
    <2>6. r.result = "taken" => r.kind = "checking" /\ mine # {}
      BY <2>1, <2>3, <2>4 DEF Relies
    <2>7. r.result = "failed" => ~r.form.fits \/ (r.kind = "looking" /\ mine # {})
      BY <2>1, <2>3, <2>4 DEF Relies
    <2>8. r.result \notin {"signed in", "taken", "failed"} => r.kind = "finding"
      BY <2>1, <2>4 DEF Relies
    <2> QED
      BY <2>1, <2>5, <2>6, <2>7, <2>8
  <1> QED
    BY <1>1, SessionsInvariant, PTL

(* socketClient.ts:22-26, useAuth.ts:27-30: an open page is one user's in  *)
(* all it shows, asks and sends, unless the storage was rewritten under it.*)
THEOREM PagesHaveOneIdentity == Spec => []OneIdentity
  <1>1. ASSUME SessionsInv
        PROVE  OneIdentity
    <2> SUFFICES ASSUME NEW t \in Tabs, page[t].user # None, ~rewritten[t]
                 PROVE  /\ stored # None /\ tokens[stored] = page[t].user
                        /\ peer[t] \in {None, page[t].user}
                        /\ page[t].rooms.at = "shown" =>
                              page[t].rooms.of \in {None, page[t].user}
      BY DEF OneIdentity
    <2> QED
      BY <1>1 DEF SessionsInv, PagesAgree, SocketsPlaced
  <1> QED
    BY <1>1, SessionsInvariant, PTL
=============================================================================
