------------------------------- MODULE Gateway -------------------------------
(***************************************************************************)
(* services/gateway: registration and login, and the check of the token on *)
(* the way of an API call to its service.  Requests run concurrently, in   *)
(* one process or in several, and each step of a request is one call to    *)
(* PostgreSQL; the unique index of users.email is all they share.  Of the  *)
(* services behind the proxy the module only says whose leads they store.  *)
(*                                                                         *)
(* An address may be typed in several spellings; Normal is what TrimSpace  *)
(* and ToLower make of a spelling, a spelling itself.  A user is named by  *)
(* the request that created it (uuid.NewString()), a token by the user it  *)
(* was issued for.  bcrypt and the signing of tokens are external: a hash  *)
(* matches exactly the password it was made of, and a token that no        *)
(* request was answered is not valid.                                      *)
(***************************************************************************)
EXTENDS Naturals

CONSTANTS
  Requests,   (* register and login requests                               *)
  Calls,      (* requests to /api and /ws                                  *)
  Spellings,  (* addresses as they are typed                               *)
  Normal,     (* their normal form                                         *)
  Invalid,    (* normal forms that are empty or have no @                  *)
  Passwords,
  Weak,       (* passwords of less than eight bytes, or too long for bcrypt*)
  Nobody      (* no user                                                   *)

ASSUME GatewayAssumption ==
  /\ Normal \in [Spellings -> Spellings]
  /\ \A s \in Spellings : Normal[Normal[s]] = Normal[s]
  /\ Invalid \subseteq Spellings
  /\ Weak \subseteq Passwords
  /\ Nobody \notin Requests

VARIABLES
  step,      (* where each request is, and how it was answered             *)
  spelling,  (* the address as typed                                       *)
  password,
  users,     (* rows of the users table                                    *)
  found,     (* the row a login has in hand                                *)
  token,     (* the user whose token a request was answered, or Nobody     *)
  accounts,  (* history: registrations answered 201                        *)
  known,     (* history: accounts when the request began                   *)
  expired,   (* requests whose token has passed its ExpiresAt              *)
  call,      (* where each API call is, and how it was answered            *)
  bearer,    (* the request whose token a call carries, or Nobody          *)
  userId,    (* X-User-ID of a call, as its service gets it; or Nobody     *)
  served,    (* calls that reached a service                               *)
  leads      (* the leads stored for calls, with their column user_id      *)

inputVars == <<spelling, password>>
serviceVars == <<served, leads>>
callVars == <<expired, call, bearer, userId, serviceVars>>
authVars == <<step, inputVars, users, found, token, accounts, known>>
vars == <<authVars, callVars>>

User == [id : Requests, email : Spellings, password : Passwords]
Account == [email : Spellings, password : Passwords]
Lead == [call : Calls, user_id : Requests]

Init ==
  /\ step = [r \in Requests |-> "idle"]
  /\ spelling \in [Requests -> Spellings]
  /\ password \in [Requests -> Passwords]
  /\ users = {}
  /\ found = [r \in Requests |-> {}]
  /\ token = [r \in Requests |-> Nobody]
  /\ accounts = {}
  /\ known = [r \in Requests |-> {}]
  /\ expired = {}
  /\ call = [c \in Calls |-> "idle"]
  /\ bearer = [c \in Calls |-> Nobody]
  /\ userId = [c \in Calls |-> Nobody]
  /\ served = {} /\ leads = {}

Goto(r, label) == step' = [step EXCEPT ![r] = label]
Begin(r) == step[r] = "idle" /\ known' = [known EXCEPT ![r] = accounts]

\* Mutant of RegisterEmail and LoginEmail: the address is used as it was typed.
AsTyped(r) == spelling[r]

\* What Register stores and what Login looks for.
RegisterEmail(r) == Normal[spelling[r]]
LoginEmail(r) == Normal[spelling[r]]

-----------------------------------------------------------------------------
(* Register *)

\* The input is valid and the password hashed: the INSERT is next.
Register(r) ==
  /\ Begin(r)
  /\ Normal[spelling[r]] \notin Invalid
  /\ password[r] \notin Weak
  /\ Goto(r, "insert")
  /\ UNCHANGED <<inputVars, users, found, token, accounts, callVars>>

\* Answered 400 for a short password, else 409.
Reject(r) ==
  /\ Begin(r)
  /\ Normal[spelling[r]] \in Invalid \/ password[r] \in Weak
  /\ Goto(r, "rejected")
  /\ UNCHANGED <<inputVars, users, found, token, accounts, callVars>>

Row(r) == [id |-> r, email |-> RegisterEmail(r), password |-> password[r]]
Taken(r) == \E u \in users : u.email = RegisterEmail(r)

\* The row is stored; 201 with a token for its user.
Insert(r) ==
  /\ step[r] = "insert"
  /\ ~Taken(r)
  /\ users' = users \cup {Row(r)}
  /\ token' = [token EXCEPT ![r] = r]
  /\ accounts' = accounts \cup {[email |-> Normal[spelling[r]], password |-> password[r]]}
  /\ Goto(r, "registered")
  /\ UNCHANGED <<inputVars, found, known, callVars>>

\* Mutant of Conflict: INSERT ... ON CONFLICT DO UPDATE, which returns the row
\* that was there.
ConflictReturnsRow(r) ==
  /\ step[r] = "insert"
  /\ \E u \in users :
       u.email = RegisterEmail(r) /\ token' = [token EXCEPT ![r] = u.id]
  /\ Goto(r, "registered")
  /\ UNCHANGED <<inputVars, users, found, accounts, known, callVars>>

\* The unique index refuses the row: 409.
Conflict(r) ==
  /\ step[r] = "insert"
  /\ Taken(r)
  /\ Goto(r, "conflict")
  /\ UNCHANGED <<inputVars, users, found, token, accounts, known, callVars>>

\* The INSERT returned another error, perhaps after it took effect: 409 as well.
InsertFail(r) ==
  /\ step[r] = "insert"
  /\ \/ UNCHANGED users
     \/ ~Taken(r) /\ users' = users \cup {Row(r)}
  /\ Goto(r, "error")
  /\ UNCHANGED <<inputVars, found, token, accounts, known, callVars>>

-----------------------------------------------------------------------------
(* Login *)

Login(r) ==
  /\ Begin(r)
  /\ Goto(r, "find")
  /\ UNCHANGED <<inputVars, users, found, token, accounts, callVars>>

Find(r) ==
  /\ step[r] = "find"
  /\ found' = [found EXCEPT ![r] = {u \in users : u.email = LoginEmail(r)}]
  /\ Goto(r, "compare")
  /\ UNCHANGED <<inputVars, users, token, accounts, known, callVars>>

\* An error of the database is answered 401 like a wrong password.
FindFail(r) ==
  /\ step[r] = "find"
  /\ Goto(r, "error")
  /\ UNCHANGED <<inputVars, users, found, token, accounts, known, callVars>>

\* The password matches the hash of the row: 200 with a token for its user.
Match(r) ==
  /\ step[r] = "compare"
  /\ \E u \in found[r] :
       u.password = password[r] /\ token' = [token EXCEPT ![r] = u.id]
  /\ Goto(r, "loggedin")
  /\ UNCHANGED <<inputVars, users, found, accounts, known, callVars>>

\* No row, or another password: 401.
Refuse(r) ==
  /\ step[r] = "compare"
  /\ \A u \in found[r] : u.password # password[r]
  /\ Goto(r, "refused")
  /\ UNCHANGED <<inputVars, users, found, token, accounts, known, callVars>>

-----------------------------------------------------------------------------
(* The calls to /api and /ws *)

\* JWT.TTL has passed since the token was issued.
Expire(r) ==
  /\ token[r] # Nobody
  /\ expired' = expired \cup {r}
  /\ UNCHANGED <<authVars, call, bearer, userId, serviceVars>>

\* Validate: signed by the gateway and not expired.
Valid(r) == r # Nobody /\ token[r] # Nobody /\ r \notin expired

Answer(c, result) == call' = [call EXCEPT ![c] = result]

\* Mutant of Authorize: the header is only set when the client sent none.
AuthorizeKeepsHeader(c, r) ==
  /\ call[c] = "idle"
  /\ Valid(r)
  /\ bearer' = [bearer EXCEPT ![c] = r]
  /\ userId' \in {[userId EXCEPT ![c] = u] : u \in Requests}
  /\ Answer(c, "authorized")
  /\ UNCHANGED <<authVars, expired, serviceVars>>

\* AuthRequired sets X-User-ID, whatever the client sent in that header.
Authorize(c, r) ==
  /\ call[c] = "idle"
  /\ Valid(r)
  /\ bearer' = [bearer EXCEPT ![c] = r]
  /\ userId' = [userId EXCEPT ![c] = token[r]]
  /\ Answer(c, "authorized")
  /\ UNCHANGED <<authVars, expired, serviceVars>>

\* No token, or one that is not valid: 401, on /ws as well.
Unauthorized(c, r) ==
  /\ call[c] = "idle"
  /\ ~Valid(r)
  /\ Answer(c, "unauthorized")
  /\ UNCHANGED <<authVars, expired, bearer, userId, serviceVars>>

\* The handler of /ws goes on to ServeWS.
Upgrade(c, r) ==
  /\ call[c] = "idle"
  /\ Valid(r)
  /\ Answer(c, "upgraded")
  /\ UNCHANGED <<authVars, expired, bearer, userId, serviceVars>>

\* After the Director, ReverseProxy removes the headers that the Connection header
\* of the request names, X-User-ID among them if it is named.
Received(c) == {userId[c], Nobody}

\* POST /leads: create refuses a call without id, which is no user's, and the
\* foreign key one whose user is not stored.
Storable(id) == \E u \in users : u.id = id

\* The service executes the call: it reads, or stores a lead for who the header
\* names.
Serve(c) ==
  /\ served' = served \cup {c}
  /\ \E id \in Received(c) :
       /\ userId' = [userId EXCEPT ![c] = id]
       /\ \/ UNCHANGED leads
          \/ Storable(id) /\ leads' = leads \cup {[call |-> c, user_id |-> id]}

\* The service answered through ReverseProxy.
Forward(c) ==
  /\ call[c] = "authorized"
  /\ Serve(c)
  /\ Answer(c, "answered")
  /\ UNCHANGED <<authVars, expired, bearer>>

\* The connection to the service failed, before or after it had the request: 502.
ForwardFail(c) ==
  /\ call[c] = "authorized"
  /\ Serve(c) \/ UNCHANGED <<userId, serviceVars>>
  /\ Answer(c, "unavailable")
  /\ UNCHANGED <<authVars, expired, bearer>>

Call(c) ==
  \/ \E r \in Requests \cup {Nobody} :
       Authorize(c, r) \/ Unauthorized(c, r) \/ Upgrade(c, r)
  \/ Forward(c) \/ ForwardFail(c)

Next ==
  \/ \E r \in Requests :
       \/ Register(r) \/ Reject(r) \/ Insert(r) \/ Conflict(r) \/ InsertFail(r)
       \/ Login(r) \/ Find(r) \/ FindFail(r) \/ Match(r) \/ Refuse(r)
       \/ Expire(r)
  \/ \E c \in Calls : Call(c)

Spec == Init /\ [][Next]_vars

-----------------------------------------------------------------------------
(* Properties *)

TypeOK ==
  /\ step \in [Requests -> {"idle", "insert", "registered", "rejected", "conflict",
                            "find", "compare", "loggedin", "refused", "error"}]
  /\ spelling \in [Requests -> Spellings] /\ password \in [Requests -> Passwords]
  /\ users \subseteq User
  /\ \A u \in users : u.email \notin Invalid /\ u.password \notin Weak
  /\ found \in [Requests -> SUBSET User]
  /\ token \in [Requests -> Requests \cup {Nobody}]
  /\ accounts \subseteq Account
  /\ known \in [Requests -> SUBSET Account]
  /\ expired \subseteq Requests /\ served \subseteq Calls
  /\ call \in [Calls -> {"idle", "authorized", "unauthorized", "upgraded", "answered", "unavailable"}]
  /\ bearer \in [Calls -> Requests \cup {Nobody}]
  /\ userId \in [Calls -> Requests \cup {Nobody}]
  /\ leads \subseteq Lead

\* However concurrently and in which spelling an address is registered, it has
\* one user.
OneUserPerAddress ==
  \A u, v \in users : Normal[u.email] = Normal[v.email] => u = v

\* Who was answered 201 can log in from then on, in any spelling of the address:
\* nobody takes the account over, and no later registration changes it.
RegisteredCanLogin ==
  \A r \in Requests :
    step[r] = "refused" =>
      [email |-> Normal[spelling[r]], password |-> password[r]] \notin known[r]

\* The user id is stored, and the request r gave its address and its password.
Owns(r, id) ==
  \E u \in users :
    u.id = id /\ u.email = Normal[spelling[r]] /\ u.password = password[r]

\* A service is never called in the name of another user: the X-User-ID it gets, if
\* it gets one, is that of a stored user, and the caller holds a token that was
\* answered to who gave the address and the password of this user.  And whatever
\* becomes of the header on the way, a lead is only stored for this user.
ActsForOwner ==
  /\ \A c \in served : userId[c] # Nobody => Owns(bearer[c], userId[c])
  /\ \A lead \in leads : Owns(bearer[lead.call], lead.user_id)

\* What makes these inductive.  A stored address is a normal form; an account has
\* a row, and rows stay; a login that began with an account known has its row in
\* hand by the time it compares.
RowsStay ==
  /\ \A u \in users : Normal[u.email] = u.email
  /\ \A a \in accounts : \E u \in users : u.email = a.email /\ u.password = a.password
  /\ \A r \in Requests : known[r] \subseteq accounts

RequestInProgress(r) ==
  /\ step[r] = "insert" => Normal[spelling[r]] \notin Invalid /\ password[r] \notin Weak
  /\ step[r] = "compare" =>
       /\ found[r] \subseteq users
       /\ \A u \in found[r] : u.email = Normal[spelling[r]]
       /\ \A a \in known[r] :
            a.email = Normal[spelling[r]] => \E u \in found[r] : u.password = a.password
  /\ token[r] # Nobody => Owns(r, token[r])

CallInProgress(c) ==
  /\ call[c] = "authorized" => userId[c] # Nobody
  /\ userId[c] # Nobody => Owns(bearer[c], userId[c])
  /\ c \in served => call[c] \in {"answered", "unavailable"}

InProgress ==
  /\ \A r \in Requests : RequestInProgress(r)
  /\ \A c \in Calls : CallInProgress(c)
  /\ \A lead \in leads : lead.call \in served

IInv ==
  /\ TypeOK /\ RowsStay /\ InProgress
  /\ OneUserPerAddress /\ RegisteredCanLogin /\ ActsForOwner
=============================================================================
