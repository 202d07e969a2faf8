------------------------------ MODULE Sessions ------------------------------
(***************************************************************************)
(* Accounts, tokens and the tabs of one browser: POST /auth/register and   *)
(* /auth/login, the Google sign-in, the token in localStorage that all the *)
(* tabs share, AuthGuard and useAuth, and the socket a room page presents  *)
(* the token with.  Passwords are abstracted to whether the right one was  *)
(* given, names to whether they fit the column and whether they are an old *)
(* google_ name, answers to their kind.  A token is its number in the      *)
(* order of issue; each is good for the same seven days, so they lapse in  *)
(* that order.                                                             *)
(***************************************************************************)
EXTENDS Naturals, Sequences, FiniteSets

CONSTANTS
    Mailboxes,    \* the addresses, however they are typed
    Tabs,         \* tabs of the one browser
    Legacy,       \* mailboxes with an account of an old Google sign-in
    MaxTokens     \* bound: sign-ins submitted and tokens issued

ASSUME SessionsAssumption == Legacy \in Seq(Mailboxes) /\ MaxTokens \in Nat

(* users.email is UNIQUE. *)
ASSUME LegacyAssumption ==
    \A i, j \in DOMAIN Legacy : Legacy[i] = Legacy[j] => i = j

VARIABLES
    accounts,     \* table users, in the order of insertion
    tokens,       \* the account each token names
    lapsed,       \* how many tokens have expired
    stored,       \* localStorage: the token the browser holds
    page,         \* what each tab shows, and as whom
    socket,       \* the token of the tab's socket singleton
    peer,         \* the account the server has admitted that socket for
    request,      \* the sign-in each tab waits for
    rewritten     \* storage was written after the tab's page had read it

tab  == <<page, socket, peer>>
vars == <<accounts, tokens, lapsed, stored, tab, request, rewritten>>

None == 0

Idle == [at |-> "idle"]

(* The list of rooms a page has not asked for yet *)
Unasked == [at |-> "unasked"]

SignIn == [at |-> "signin", stage |-> "ready", user |-> None, rooms |-> Unasked]

(* An address as it is typed: plainly, or with capitals and blanks *)
Addresses == [box : Mailboxes, plain : BOOLEAN]

(* What is submitted: the name fits the column, the password is the right one *)
Forms == [address : Addresses, fits : BOOLEAN, right : BOOLEAN]

(* email.toLowerCase().trim() *)
Normal(address) == [address EXCEPT !.plain = TRUE]

Account(email, hashed) == [email |-> email, hashed |-> hashed, legacy |-> FALSE]

Init ==
    /\ accounts = [i \in DOMAIN Legacy |->
                     [email |-> [box |-> Legacy[i], plain |-> TRUE],
                      hashed |-> FALSE, legacy |-> TRUE]]
    /\ tokens = <<>> /\ lapsed = 0 /\ stored = None
    /\ page = [t \in Tabs |-> SignIn]
    /\ socket = [t \in Tabs |-> None] /\ peer = [t \in Tabs |-> None]
    /\ request = [t \in Tabs |-> Idle]
    /\ rewritten = [t \in Tabs |-> FALSE]

-----------------------------------------------------------------------------
(* The server *)

(* findUserByEmail, isEmailTaken: the address is normalised first. *)
FindUserByEmail(address) ==
    LET found == {a \in DOMAIN accounts : accounts[a].email = Normal(address)}
    IN  IF found = {} THEN None ELSE CHOOSE a \in found : TRUE

(* jwt.verify *)
Verified(token) == token \in lapsed + 1 .. Len(tokens)

Goto(t, place) == request' = [request EXCEPT ![t].at = place]

(* The request is answered: signed in, taken, refused or failed. *)
Answer(t, result, token) ==
    request' = [request EXCEPT ![t] = [at |-> "answered", kind |-> @.kind, form |-> @.form,
                                       result |-> result, token |-> token]]

Refuse(t, result) == Answer(t, result, None) /\ UNCHANGED tokens

(* signJwt *)
SignJwt(t, account) ==
    /\ tokens' = Append(tokens, account)
    /\ Answer(t, "signed in", Len(tokens) + 1)

(* register, up to isEmailTaken *)
CheckTaken(t) ==
    /\ request[t].at = "checking"
    /\ IF FindUserByEmail(request[t].form.address) # None
       THEN Refuse(t, "taken")
       ELSE Goto(t, "hashing") /\ UNCHANGED tokens
    /\ UNCHANGED <<accounts, lapsed, stored, tab, rewritten>>

(* createUser into a column with UNIQUE(email) and a length of the name: *)
(* row is inserted, or the statement fails.                              *)
Insert(t, row, clash) ==
    IF ~request[t].form.fits \/ \E a \in DOMAIN accounts : accounts[a].email = row.email
    THEN /\ Refuse(t, IF request[t].form.fits THEN clash ELSE "failed")
         /\ UNCHANGED accounts
    ELSE accounts' = Append(accounts, row) /\ SignJwt(t, Len(accounts) + 1)

(* Fault: the address is stored as it was typed. *)
CreateUserAsTyped(t, hashed, clash) ==
    Insert(t, Account(request[t].form.address, hashed), clash)

CreateUser(t, hashed, clash) ==
    Insert(t, Account(Normal(request[t].form.address), hashed), clash)

(* Fault: the violation of UNIQUE(email) is not told from other errors. *)
RegisterOrFail(t) ==
    /\ request[t].at = "hashing"
    /\ CreateUser(t, TRUE, "failed")
    /\ UNCHANGED <<lapsed, stored, tab, rewritten>>

(* register, when the password is hashed: error 23505 is a taken address. *)
Register(t) ==
    /\ request[t].at = "hashing"
    /\ CreateUser(t, TRUE, "taken")
    /\ UNCHANGED <<lapsed, stored, tab, rewritten>>

(* login, up to its read of the account.  An account of Google's has no    *)
(* password; for an unknown address a dummy is compared.                   *)
Find(t) ==
    /\ request[t].at = "finding"
    /\ LET user == FindUserByEmail(request[t].form.address)
       IN  IF user # None /\ ~accounts[user].hashed
           THEN Refuse(t, "use Google")
           ELSE /\ request' = [request EXCEPT ![t] = [at |-> "comparing", kind |-> @.kind,
                                                      form |-> @.form, user |-> user]]
                /\ UNCHANGED tokens
    /\ UNCHANGED <<accounts, lapsed, stored, tab, rewritten>>

Compare(t) ==
    /\ request[t].at = "comparing"
    /\ IF request[t].user # None /\ request[t].form.right
       THEN SignJwt(t, request[t].user)
       ELSE Refuse(t, "refused")
    /\ UNCHANGED <<accounts, lapsed, stored, tab, rewritten>>

(* The Google strategy: a new address, an old google_ name, or neither.    *)
(* The lookup of the name only picks another text.                         *)
Look(t) ==
    /\ request[t].at = "looking"
    /\ LET user == FindUserByEmail(request[t].form.address)
       IN  IF user # None /\ ~accounts[user].legacy THEN SignJwt(t, user)
           ELSE Goto(t, IF user = None THEN "creating" ELSE "renaming") /\ UNCHANGED tokens
    /\ UNCHANGED <<accounts, lapsed, stored, tab, rewritten>>

(* Whatever the database refuses is an error of the server. *)
Create(t) ==
    /\ request[t].at = "creating"
    /\ CreateUser(t, FALSE, "failed")
    /\ UNCHANGED <<lapsed, stored, tab, rewritten>>

(* updateUsername: a name that does not fit is logged, and left as it is. *)
Rename(t) ==
    /\ request[t].at = "renaming"
    /\ LET user == FindUserByEmail(request[t].form.address)
       IN  /\ accounts' = [accounts EXCEPT ![user].legacy = @ /\ ~request[t].form.fits]
           /\ SignJwt(t, user)
    /\ UNCHANGED <<lapsed, stored, tab, rewritten>>

Lapse ==
    /\ lapsed < Len(tokens)
    /\ lapsed' = lapsed + 1
    /\ UNCHANGED <<accounts, tokens, stored, tab, request, rewritten>>

-----------------------------------------------------------------------------
(* The browser *)

(* storeJwt, clearJwt *)
Store(token) ==
    /\ stored' = token
    /\ rewritten' = [t \in Tabs |-> TRUE]

(* Fault: the socket of the page before is kept. *)
DestroyNothing(t) == UNCHANGED <<socket, peer>>

(* useSocket's cleanup *)
DestroySocket(t) == socket' = [socket EXCEPT ![t] = None] /\ peer' = [peer EXCEPT ![t] = None]

(* router.push: the page before is unmounted; the page that is open stays. *)
Push(t, place) ==
    IF place = page[t].at THEN UNCHANGED tab
    ELSE /\ page' = [page EXCEPT ![t] =
                       IF place = "signin" THEN SignIn
                       ELSE [at |-> place, stage |-> "guard", user |-> None, rooms |-> Unasked]]
         /\ IF page[t].at = "room" THEN DestroySocket(t) ELSE UNCHANGED <<socket, peer>>

(* The login and the register form, or the link to Google, which leaves    *)
(* the application.                                                        *)
Submit(t) ==
    /\ page[t].at = "signin" /\ request[t] = Idle
    /\ Len(tokens) + Cardinality({u \in Tabs : request[u] # Idle}) < MaxTokens   \* bound
    /\ \E form \in Forms, kind \in {"checking", "finding", "looking"} :
          /\ request' = [request EXCEPT ![t] = [at |-> kind, kind |-> kind, form |-> form]]
          /\ page' = IF kind = "looking" THEN [page EXCEPT ![t].at = "Google"] ELSE page
    /\ UNCHANGED <<accounts, tokens, lapsed, stored, socket, peer, rewritten>>

(* The answer: a token is stored and the dashboard opened, wherever the    *)
(* user has gone meanwhile.  Google's comes by /auth/callback, or is the   *)
(* server's error page.                                                    *)
Deliver(t) ==
    /\ request[t].at = "answered"
    /\ request' = [request EXCEPT ![t] = Idle]
    /\ IF request[t].result = "signed in"
       THEN Store(request[t].token) /\ Push(t, "dashboard")
       ELSE /\ IF page[t].at = "Google" THEN Push(t, "signin") ELSE UNCHANGED tab
            /\ UNCHANGED <<stored, rewritten>>
    /\ UNCHANGED <<accounts, tokens, lapsed>>

(* A link, or the browser's back button *)
Go(t) ==
    /\ page[t].at # "Google"
    /\ \E place \in {"signin", "dashboard", "room"} \ {page[t].at} : Push(t, place)
    /\ UNCHANGED <<accounts, tokens, lapsed, stored, request, rewritten>>

(* useAuth, in AuthGuard and again in the page it lets through: no token   *)
(* or an expired one, which is cleared, leads to the login page.           *)
TurnAway(t) ==
    /\ Push(t, "signin")
    /\ IF stored # None THEN Store(None) ELSE UNCHANGED <<stored, rewritten>>

Guard(t) ==
    /\ page[t].stage = "guard"
    /\ IF Verified(stored)
       THEN /\ page' = [page EXCEPT ![t].stage = "mount"]
            /\ UNCHANGED <<socket, peer, stored, rewritten>>
       ELSE TurnAway(t)
    /\ UNCHANGED <<accounts, tokens, lapsed, request>>

(* The page's effects: the user is read from the token; a room page takes  *)
(* the socket singleton, which is made with the token if there is none.    *)
Mount(t) ==
    /\ page[t].stage = "mount"
    /\ IF Verified(stored)
       THEN /\ page' = [page EXCEPT ![t] = [at |-> @.at, stage |-> "ready",
                                            user |-> tokens[stored], rooms |-> @.rooms]]
            /\ socket' = IF page[t].at = "room" /\ socket[t] = None
                         THEN [socket EXCEPT ![t] = stored] ELSE socket
            /\ rewritten' = [rewritten EXCEPT ![t] = FALSE]
            /\ UNCHANGED <<peer, stored>>
       ELSE TurnAway(t)
    /\ UNCHANGED <<accounts, tokens, lapsed, request>>

(* The dashboard asks for the user's rooms once it knows the user; fetchApi *)
(* sends the token that is stored by then.                                  *)
Fetch(t) ==
    /\ page[t].at = "dashboard" /\ page[t].stage = "ready" /\ page[t].rooms = Unasked
    /\ page' = [page EXCEPT ![t].rooms = [at |-> "asked", token |-> stored]]
    /\ UNCHANGED <<accounts, tokens, lapsed, stored, socket, peer, request, rewritten>>

(* jwtAuth and getUserRooms, and their answer; after a 401 the list is empty. *)
Show(t) ==
    /\ page[t].rooms.at = "asked"
    /\ LET token == page[t].rooms.token
       IN  page' = [page EXCEPT ![t].rooms =
                      [at |-> "shown", of |-> IF Verified(token) THEN tokens[token] ELSE None]]
    /\ UNCHANGED <<accounts, tokens, lapsed, stored, socket, peer, request, rewritten>>

(* socketAuthMiddleware, at the first connection and at every one after *)
Handshake(t) ==
    /\ page[t].at = "room" /\ page[t].stage = "ready"
    /\ socket[t] # None /\ peer[t] = None
    /\ Verified(socket[t])
    /\ peer' = [peer EXCEPT ![t] = tokens[socket[t]]]
    /\ UNCHANGED <<accounts, tokens, lapsed, stored, page, socket, request, rewritten>>

(* The connection is lost; the singleton will present the same token. *)
Cut(t) ==
    /\ peer[t] # None
    /\ peer' = [peer EXCEPT ![t] = None]
    /\ UNCHANGED <<accounts, tokens, lapsed, stored, page, socket, request, rewritten>>

(* logout: the token is cleared and the login page loaded anew, modules    *)
(* included.  Bound: not while a sign-in is under way.                     *)
Logout(t) ==
    /\ page[t].at = "dashboard" /\ page[t].stage = "ready" /\ request[t] = Idle
    /\ Store(None)
    /\ page' = [page EXCEPT ![t] = SignIn]
    /\ socket' = [socket EXCEPT ![t] = None] /\ peer' = [peer EXCEPT ![t] = None]
    /\ UNCHANGED <<accounts, tokens, lapsed, request>>

-----------------------------------------------------------------------------
Server(t) ==
    CheckTaken(t) \/ Register(t) \/ Find(t) \/ Compare(t) \/ Look(t) \/ Create(t) \/ Rename(t)

Browser(t) ==
    \/ Submit(t) \/ Deliver(t) \/ Go(t) \/ Guard(t) \/ Mount(t) \/ Fetch(t) \/ Show(t)
    \/ Handshake(t) \/ Cut(t) \/ Logout(t)

Next ==
    \/ \E t \in Tabs : Server(t) \/ Browser(t)
    \/ Lapse

Spec == Init /\ [][Next]_vars

-----------------------------------------------------------------------------
(* users.ts:92-98, routes/auth.ts: however an address is typed, whichever  *)
(* way in is used and whoever races, a mailbox has one account.            *)
OneAccountPerMailbox ==
    \A a, b \in DOMAIN accounts : accounts[a].email.box = accounts[b].email.box => a = b

(* A sign-in is turned down for a reason: an address is taken, or a name   *)
(* does not fit; a registration that loses a race is told that the address *)
(* is taken (routes/auth.ts:173-182).  One that is let in is let in to the *)
(* account of its mailbox.  Only Google's can fail for a race.             *)
AnsweredForCause ==
    \A t \in Tabs : request[t].at = "answered" =>
        LET r == request[t]
            mine == {a \in DOMAIN accounts : accounts[a].email.box = r.form.address.box}
        IN  CASE r.result = "signed in" -> mine = {tokens[r.token]}
              [] r.result = "taken"  -> r.kind = "checking" /\ mine # {}
              [] r.result = "failed" -> ~r.form.fits \/ (r.kind = "looking" /\ mine # {})
              [] OTHER -> r.kind = "finding"

(* socketClient.ts:22-26, useAuth.ts:27-30: a page is one user's: the one  *)
(* it shows, the one its REST calls act for, the one whose rooms it lists  *)
(* and the one its socket was admitted as, unless a sign-in or a logout    *)
(* has rewritten the storage while the page was open.                      *)
OneIdentity ==
    \A t \in Tabs : page[t].user # None /\ ~rewritten[t] =>
        /\ stored # None /\ tokens[stored] = page[t].user
        /\ peer[t] \in {None, page[t].user}
        /\ page[t].rooms.at = "shown" => page[t].rooms.of \in {None, page[t].user}
=============================================================================
