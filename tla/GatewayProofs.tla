---------------------------- MODULE GatewayProofs ----------------------------
(***************************************************************************)
(* Proofs about what a caller of the API relies on.  Gateway: one user for *)
(* each address, registered users can log in, and a service acts for none  *)
(* but the caller, for any number of concurrent requests and any set       *)
(* of addresses and passwords.  Listing, which shares nothing with it: a   *)
(* client that reads a list page by page misses no row, whatever the       *)
(* limits, the rows and their timestamps.                                  *)
(***************************************************************************)
EXTENDS Gateway, Listing, FiniteSetTheorems, TLAPS

\* The part of the invariant that is about the tables.
TablesOK ==
  /\ users \subseteq User /\ (\A u \in users : u.email \notin Invalid /\ u.password \notin Weak)
  /\ accounts \subseteq Account /\ known \in [Requests -> SUBSET Account]
  /\ RowsStay /\ OneUserPerAddress

\* The types of the other variables.
LocalTypeOK ==
  /\ step \in [Requests -> {"idle", "insert", "registered", "rejected", "conflict",
                            "find", "compare", "loggedin", "refused", "error"}]
  /\ spelling \in [Requests -> Spellings] /\ password \in [Requests -> Passwords]
  /\ found \in [Requests -> SUBSET User]
  /\ token \in [Requests -> Requests \cup {Nobody}]
  /\ expired \subseteq Requests /\ served \subseteq Calls
  /\ call \in [Calls -> {"idle", "authorized", "unauthorized", "upgraded", "answered", "unavailable"}]
  /\ bearer \in [Calls -> Requests \cup {Nobody}]
  /\ userId \in [Calls -> Requests \cup {Nobody}]
  /\ leads \subseteq Lead

\* The invariant, cut the way the proofs below need it.
LEMMA Parts ==
  ASSUME TablesOK', LocalTypeOK', InProgress', RegisteredCanLogin', ActsForOwner'
  PROVE  IInv'
BY DEF IInv, TypeOK, TablesOK, LocalTypeOK

\* Nothing is ever removed from users, and a request keeps its input: what a
\* request owns it owns for good.
LEMMA OwnsStays ==
  ASSUME users \subseteq users', UNCHANGED inputVars, NEW r, NEW id, Owns(r, id)
  PROVE  Owns(r, id)'
BY DEF Owns, inputVars

\* A request that takes no step, whatever the others do.
LEMMA RequestFrame ==
  ASSUME users \subseteq users', UNCHANGED inputVars, NEW r, RequestInProgress(r),
         step'[r] = step[r], found'[r] = found[r], known'[r] = known[r], token'[r] = token[r]
  PROVE  RequestInProgress(r)'
<1>1. token[r] # Nobody => Owns(r, token[r])'
  BY OwnsStays DEF RequestInProgress
<1> QED BY <1>1 DEF RequestInProgress, inputVars, Owns

\* The requests change nothing of the calls, and take no user away from them.
LEMMA CallsFrame ==
  ASSUME IInv, users \subseteq users', UNCHANGED <<inputVars, call, bearer, userId, serviceVars>>
  PROVE  /\ \A c \in Calls : CallInProgress(c)'
         /\ \A lead \in leads' : lead.call \in served'
         /\ ActsForOwner'
<1>1. ASSUME NEW c \in Calls PROVE CallInProgress(c)'
  BY <1>1, OwnsStays DEF IInv, InProgress, CallInProgress, Owns, inputVars, serviceVars
<1>2. ActsForOwner'
  BY OwnsStays DEF IInv, ActsForOwner, Owns, inputVars, serviceVars
<1> QED BY <1>1, <1>2 DEF IInv, InProgress, serviceVars

\* What is left to show of a step of one request.
LEMMA RequestFrames ==
  ASSUME IInv, NEW r \in Requests, users \subseteq users', UNCHANGED <<inputVars, callVars>>,
         \A q \in Requests \ {r} :
           /\ step'[q] = step[q] /\ found'[q] = found[q]
           /\ known'[q] = known[q] /\ token'[q] = token[q],
         TablesOK', LocalTypeOK', RequestInProgress(r)',
         step'[r] = "refused" =>
           [email |-> Normal[spelling[r]], password |-> password[r]] \notin known'[r]
  PROVE  IInv'
<1>1. ASSUME NEW q \in Requests PROVE RequestInProgress(q)'
  <2>1. CASE q # r
    BY <2>1, RequestFrame DEF IInv, InProgress
  <2> QED BY <2>1
<1>2. InProgress' /\ ActsForOwner'
  BY <1>1, CallsFrame DEF InProgress, callVars
<1>3. RegisteredCanLogin'
  BY DEF IInv, RegisteredCanLogin, inputVars
<1> QED BY <1>2, <1>3, Parts

\* A row is stored only while its address is free, in its normal form.
LEMMA RowStored ==
  ASSUME IInv, NEW r \in Requests, step[r] = "insert", ~Taken(r),
         users' = users \cup {Row(r)}, UNCHANGED <<inputVars, known>>,
         accounts' \in {accounts, accounts \cup {[email |-> Normal[spelling[r]], password |-> password[r]]}}
  PROVE  TablesOK' /\ Owns(r, r)'
<1> DEFINE u == Row(r)
<1>1. /\ u = [id |-> r, email |-> Normal[spelling[r]], password |-> password[r]]
      /\ u \in User /\ u.email \notin Invalid /\ u.password \notin Weak
      /\ u.id = r /\ u.email = Normal[spelling[r]] /\ u.password = password[r]
      /\ Normal[u.email] = u.email
  BY GatewayAssumption DEF Row, RegisterEmail, User, IInv, TypeOK, InProgress, RequestInProgress
<1>2. \A v \in users : v.email # u.email /\ Normal[v.email] = v.email
  BY <1>1 DEF Taken, RegisterEmail, IInv, RowsStay
<1>3. users' = users \cup {u}
  OBVIOUS
<1>4. Owns(r, r)'
  BY <1>1, <1>3 DEF Owns, inputVars
<1> HIDE DEF u
<1>5. OneUserPerAddress'
  BY <1>1, <1>2, <1>3 DEF OneUserPerAddress, IInv
<1>6. RowsStay'
  <2>1. ASSUME NEW a \in accounts' PROVE \E v \in users' : v.email = a.email /\ v.password = a.password
    BY <1>1, <1>3 DEF IInv, RowsStay
  <2> QED BY <1>1, <1>3, <2>1 DEF IInv, RowsStay
<1>7. accounts' \subseteq Account
  BY GatewayAssumption DEF IInv, TypeOK, Account
<1> QED BY <1>1, <1>3, <1>4, <1>5, <1>6, <1>7 DEF TablesOK, IInv, TypeOK

\* Steps that store no row; known may take a copy of accounts.
LEMMA NoRowStored ==
  ASSUME IInv, NEW r \in Requests, UNCHANGED <<users, accounts>>,
         known' \in {known, [known EXCEPT ![r] = accounts]}
  PROVE  TablesOK'
<1>1. known' \in [Requests -> SUBSET Account] /\ \A q \in Requests : known'[q] \subseteq accounts
  BY DEF IInv, TypeOK, RowsStay
<1> QED BY <1>1 DEF TablesOK, RowsStay, OneUserPerAddress, IInv, TypeOK

\* Register, up to the INSERT, and the start of a login.
LEMMA BeginStep ==
  ASSUME IInv, NEW r \in Requests, Register(r) \/ Reject(r) \/ Login(r)
  PROVE  IInv'
<1>1. /\ step[r] = "idle" /\ known' = [known EXCEPT ![r] = accounts]
      /\ UNCHANGED <<inputVars, users, found, token, accounts, callVars>>
      /\ step' \in {[step EXCEPT ![r] = "insert"], [step EXCEPT ![r] = "rejected"],
                    [step EXCEPT ![r] = "find"]}
      /\ step'[r] = "insert" => Normal[spelling[r]] \notin Invalid /\ password[r] \notin Weak
  BY DEF Register, Reject, Login, Begin, Goto, IInv, TypeOK
<1>2. TablesOK'
  BY <1>1, NoRowStored
<1>3. LocalTypeOK'
  BY <1>1 DEF IInv, TypeOK, LocalTypeOK, inputVars, callVars, serviceVars
<1>4. step'[r] \in {"insert", "rejected", "find"}
  BY <1>1 DEF IInv, TypeOK
<1>5. RequestInProgress(r)'
  BY <1>1, <1>4 DEF RequestInProgress, IInv, InProgress, inputVars, Owns
<1> QED BY <1>1, <1>2, <1>3, <1>4, <1>5, RequestFrames DEF IInv, TypeOK

\* The INSERT: it succeeds, is refused by the unique index, or fails.
LEMMA InsertStep ==
  ASSUME IInv, NEW r \in Requests, Insert(r) \/ Conflict(r) \/ InsertFail(r)
  PROVE  IInv'
<1>1. /\ step[r] = "insert" /\ UNCHANGED <<inputVars, found, known, callVars>>
      /\ step' \in {[step EXCEPT ![r] = "registered"], [step EXCEPT ![r] = "conflict"],
                    [step EXCEPT ![r] = "error"]}
  BY DEF Insert, Conflict, InsertFail, Goto
<1>2. step'[r] \in {"registered", "conflict", "error"}
  BY <1>1 DEF IInv, TypeOK
<1>3. \/ /\ ~Taken(r) /\ users' = users \cup {Row(r)}
         /\ accounts' \in {accounts, accounts \cup {[email |-> Normal[spelling[r]], password |-> password[r]]}}
         /\ token' \in {token, [token EXCEPT ![r] = r]}
      \/ UNCHANGED <<users, accounts, token>>
  BY DEF Insert, Conflict, InsertFail
<1>4. CASE /\ ~Taken(r) /\ users' = users \cup {Row(r)}
           /\ accounts' \in {accounts, accounts \cup {[email |-> Normal[spelling[r]], password |-> password[r]]}}
           /\ token' \in {token, [token EXCEPT ![r] = r]}
  <2>1. TablesOK' /\ Owns(r, r)'
    BY <1>1, <1>4, RowStored
  <2>2. LocalTypeOK'
    BY <1>1, <1>4 DEF IInv, TypeOK, LocalTypeOK, inputVars, callVars, serviceVars
  <2>3. users \subseteq users' /\ token'[r] \in {token[r], r}
    BY <1>4 DEF IInv, TypeOK
  <2>4. token[r] # Nobody /\ token'[r] = token[r] => Owns(r, token[r])'
    BY <1>1, <1>4 DEF IInv, InProgress, RequestInProgress, Owns, inputVars
  <2>5. RequestInProgress(r)'
    BY <1>2, <2>1, <2>3, <2>4 DEF RequestInProgress, Owns
  <2>6. ASSUME NEW q \in Requests \ {r}
        PROVE  /\ step'[q] = step[q] /\ found'[q] = found[q]
               /\ known'[q] = known[q] /\ token'[q] = token[q]
    BY <1>1, <1>4 DEF IInv, TypeOK
  <2> QED BY <1>1, <1>2, <2>1, <2>2, <2>3, <2>5, <2>6, RequestFrames
<1>5. CASE UNCHANGED <<users, accounts, token>>
  <2>1. TablesOK'
    BY <1>1, <1>5, NoRowStored
  <2>2. LocalTypeOK'
    BY <1>1, <1>5 DEF IInv, TypeOK, LocalTypeOK, inputVars, callVars, serviceVars
  <2>3. RequestInProgress(r)'
    BY <1>1, <1>2, <1>5 DEF RequestInProgress, IInv, InProgress, inputVars, Owns
  <2>4. \A q \in Requests \ {r} : step'[q] = step[q]
    BY <1>1 DEF IInv, TypeOK
  <2> QED BY <1>1, <1>2, <1>5, <2>1, <2>2, <2>3, <2>4, RequestFrames
<1> QED BY <1>3, <1>4, <1>5

\* The query of a login: a row that was there when the login began still is.
LEMMA FindStep ==
  ASSUME IInv, NEW r \in Requests, Find(r) \/ FindFail(r)
  PROVE  IInv'
<1>1. /\ UNCHANGED <<inputVars, users, token, accounts, known, callVars>>
      /\ \A q \in Requests \ {r} : step'[q] = step[q] /\ found'[q] = found[q]
      /\ step'[r] \in {"compare", "error"}
  BY DEF Find, FindFail, Goto, IInv, TypeOK
<1>2. TablesOK'
  BY <1>1, NoRowStored
<1>3. LocalTypeOK'
  <2>1. step' \in {[step EXCEPT ![r] = "compare"], [step EXCEPT ![r] = "error"]}
    BY DEF Find, FindFail, Goto
  <2>2. found' \in [Requests -> SUBSET User]
    BY DEF Find, FindFail, IInv, TypeOK
  <2> QED BY <1>1, <2>1, <2>2 DEF IInv, TypeOK, LocalTypeOK, inputVars, callVars, serviceVars
<1>4. step'[r] = "compare" => found'[r] = {u \in users : u.email = Normal[spelling[r]]}
  BY <1>1 DEF Find, FindFail, Goto, LoginEmail, IInv, TypeOK
<1>5. \A a \in known[r] : \E u \in users : u.email = a.email /\ u.password = a.password
  BY DEF IInv, RowsStay
<1>6. RequestInProgress(r)'
  BY <1>1, <1>4, <1>5 DEF RequestInProgress, IInv, InProgress, inputVars, Owns
<1> QED BY <1>1, <1>2, <1>3, <1>6, RequestFrames

\* The comparison of the password.
LEMMA CompareStep ==
  ASSUME IInv, NEW r \in Requests, Match(r) \/ Refuse(r)
  PROVE  IInv'
<1>1. step[r] = "compare" /\ UNCHANGED <<inputVars, users, found, accounts, known, callVars>>
  BY DEF Match, Refuse
<1>2. /\ found[r] \subseteq users
      /\ \A u \in found[r] : u.email = Normal[spelling[r]]
      /\ \A a \in known[r] :
           a.email = Normal[spelling[r]] => \E u \in found[r] : u.password = a.password
  BY <1>1 DEF IInv, InProgress, RequestInProgress
<1>3. TablesOK'
  BY <1>1, NoRowStored
<1>4. CASE Match(r)
  <2>1. PICK u \in found[r] : u.password = password[r] /\ token' = [token EXCEPT ![r] = u.id]
    BY <1>4 DEF Match
  <2>2. u \in users /\ u.id \in Requests /\ Owns(r, u.id)
    BY <1>2, <2>1 DEF Owns, IInv, TypeOK, User
  <2>3. step' = [step EXCEPT ![r] = "loggedin"]
    BY <1>4 DEF Match, Goto
  <2>4. LocalTypeOK'
    BY <1>1, <2>1, <2>2, <2>3 DEF IInv, TypeOK, LocalTypeOK, inputVars, callVars, serviceVars
  <2>5. step'[r] = "loggedin" /\ token'[r] = u.id
    BY <2>1, <2>3 DEF IInv, TypeOK
  <2>6. Owns(r, u.id)'
    BY <1>1, <2>2, OwnsStays
  <2>7. RequestInProgress(r)'
    BY <2>5, <2>6 DEF RequestInProgress, Owns
  <2>8. ASSUME NEW q \in Requests \ {r}
        PROVE  /\ step'[q] = step[q] /\ found'[q] = found[q]
               /\ known'[q] = known[q] /\ token'[q] = token[q]
    BY <1>1, <2>1, <2>3 DEF IInv, TypeOK
  <2> QED BY <1>1, <1>3, <2>4, <2>5, <2>7, <2>8, RequestFrames
<1>5. CASE Refuse(r)
  <2>1. step' = [step EXCEPT ![r] = "refused"] /\ token' = token
    BY <1>5 DEF Refuse, Goto
  <2>2. LocalTypeOK'
    BY <1>1, <2>1 DEF IInv, TypeOK, LocalTypeOK, inputVars, callVars, serviceVars
  <2>3. step'[r] = "refused"
    BY <2>1 DEF IInv, TypeOK
  <2>4. RequestInProgress(r)'
    BY <1>1, <2>1, <2>3 DEF RequestInProgress, IInv, InProgress, inputVars, Owns
  <2>5. [email |-> Normal[spelling[r]], password |-> password[r]] \notin known[r]
    <3> DEFINE a == [email |-> Normal[spelling[r]], password |-> password[r]]
    <3>1. a.email = Normal[spelling[r]] /\ a.password = password[r]
      OBVIOUS
    <3>2. \A u \in found[r] : u.password # password[r]
      BY <1>5 DEF Refuse
    <3> HIDE DEF a
    <3>3. a \notin known[r]
      BY <1>2, <3>1, <3>2
    <3> QED BY <3>3 DEF a
  <2>6. ASSUME NEW q \in Requests \ {r}
        PROVE  /\ step'[q] = step[q] /\ found'[q] = found[q]
               /\ known'[q] = known[q] /\ token'[q] = token[q]
    BY <1>1, <2>1 DEF IInv, TypeOK
  <2> QED BY <1>1, <1>3, <2>2, <2>4, <2>5, <2>6, RequestFrames
<1> QED BY <1>4, <1>5

\* What is left to show of a step of one call.
LEMMA OneCallStep ==
  ASSUME IInv, NEW c \in Calls, UNCHANGED <<inputVars, users>>,
         \A d \in Calls \ {c} :
           /\ call'[d] = call[d] /\ bearer'[d] = bearer[d] /\ userId'[d] = userId[d]
           /\ d \in served' <=> d \in served,
         CallInProgress(c)', LocalTypeOK',
         \A lead \in leads' : lead.call \in served' /\ Owns(bearer[lead.call], lead.user_id)',
         TablesOK', RegisteredCanLogin', \A r \in Requests : RequestInProgress(r)'
  PROVE  IInv'
<1>1. ASSUME NEW d \in Calls PROVE CallInProgress(d)'
  <2>1. CASE d # c
    BY <2>1 DEF IInv, InProgress, CallInProgress, Owns, inputVars
  <2> QED BY <2>1
<1>2. ActsForOwner'
  BY <1>1 DEF ActsForOwner, CallInProgress, Owns, LocalTypeOK
<1> QED BY <1>1, <1>2, Parts DEF InProgress

\* A token expires, and the steps of a call: no request and no row changes.
LEMMA CallStep ==
  ASSUME IInv, \/ \E r \in Requests : Expire(r)
               \/ \E c \in Calls : Call(c)
  PROVE  IInv'
<1>1. UNCHANGED <<step, inputVars, users, found, token, accounts, known>>
  BY DEF Expire, Call, Authorize, Unauthorized, Upgrade, Forward, ForwardFail, authVars
<1>2. TablesOK' /\ RegisteredCanLogin' /\ \A r \in Requests : RequestInProgress(r)'
  <2>1. TablesOK'
    BY <1>1 DEF IInv, TypeOK, TablesOK, RowsStay, OneUserPerAddress
  <2>2. ASSUME NEW r \in Requests PROVE RequestInProgress(r)'
    BY <1>1, RequestFrame DEF IInv, InProgress
  <2> QED BY <1>1, <2>1, <2>2 DEF IInv, RegisteredCanLogin, inputVars
<1>3. CASE \E r \in Requests : Expire(r)
  <2>1. PICK r \in Requests : Expire(r)
    BY <1>3
  <2>2. LocalTypeOK'
    BY <1>1, <2>1 DEF Expire, IInv, TypeOK, LocalTypeOK, inputVars, serviceVars
  <2>3. /\ \A c \in Calls : CallInProgress(c)'
        /\ \A lead \in leads' : lead.call \in served'
        /\ ActsForOwner'
    BY <1>1, <2>1, CallsFrame DEF Expire, serviceVars
  <2> QED BY <1>2, <2>2, <2>3, Parts DEF InProgress
<1>4. CASE \E c \in Calls : Call(c)
  <2>1. PICK c \in Calls : Call(c)
    BY <1>4
  <2>2. CASE \E r \in Requests : Authorize(c, r)
    <3>1. PICK r \in Requests : Authorize(c, r)
      BY <2>2
    <3>2. /\ call[c] = "idle"
          /\ bearer' = [bearer EXCEPT ![c] = r] /\ userId' = [userId EXCEPT ![c] = token[r]]
          /\ call' = [call EXCEPT ![c] = "authorized"] /\ UNCHANGED <<expired, served, leads>>
          /\ token[r] \in Requests /\ Owns(r, token[r])
      BY <3>1 DEF Authorize, Answer, Valid, IInv, TypeOK, InProgress, RequestInProgress, serviceVars
    <3>3. LocalTypeOK'
      BY <1>1, <3>2 DEF IInv, TypeOK, LocalTypeOK, inputVars
    <3>4. bearer'[c] = r /\ userId'[c] = token[r] /\ call'[c] = "authorized"
      BY <3>2 DEF IInv, TypeOK
    <3>5. Owns(r, token[r])'
      BY <1>1, <3>2 DEF Owns, inputVars
    <3>6. c \notin served
      BY <3>2 DEF IInv, InProgress, CallInProgress
    <3>7. CallInProgress(c)'
      BY <1>1, <3>2, <3>4, <3>5, <3>6, GatewayAssumption DEF CallInProgress, Owns
    <3>8. \A d \in Calls \ {c} : /\ call'[d] = call[d] /\ bearer'[d] = bearer[d]
                                 /\ userId'[d] = userId[d]
      BY <3>2 DEF IInv, TypeOK
    <3>9. \A lead \in leads' : lead \in leads /\ lead.call \in served' /\ lead.call \in Calls \ {c}
      BY <3>2, <3>6 DEF IInv, TypeOK, InProgress
    <3>10. \A lead \in leads' : Owns(bearer[lead.call], lead.user_id)'
      BY <1>1, <3>8, <3>9 DEF IInv, ActsForOwner, Owns, inputVars
    <3> QED BY <1>1, <1>2, <2>1, <3>2, <3>3, <3>7, <3>8, <3>9, <3>10, OneCallStep
  <2>3. CASE \E r \in Requests \cup {Nobody} : Unauthorized(c, r) \/ Upgrade(c, r)
    <3>1. /\ call[c] = "idle"
          /\ call' \in {[call EXCEPT ![c] = "unauthorized"], [call EXCEPT ![c] = "upgraded"]}
          /\ UNCHANGED <<expired, bearer, userId, served, leads>>
      BY <2>3 DEF Unauthorized, Upgrade, Answer, serviceVars
    <3>2. LocalTypeOK'
      BY <1>1, <3>1 DEF IInv, TypeOK, LocalTypeOK, inputVars
    <3>3. call'[c] # "authorized" /\ c \notin served
      BY <3>1 DEF IInv, TypeOK, InProgress, CallInProgress
    <3>4. CallInProgress(c)'
      BY <1>1, <3>1, <3>3 DEF IInv, InProgress, CallInProgress, Owns, inputVars
    <3>5. \A d \in Calls \ {c} : call'[d] = call[d]
      BY <3>1 DEF IInv, TypeOK
    <3>6. \A lead \in leads' : lead.call \in served' /\ Owns(bearer[lead.call], lead.user_id)'
      BY <1>1, <3>1 DEF IInv, InProgress, ActsForOwner, Owns, inputVars
    <3> QED BY <1>1, <1>2, <2>1, <3>1, <3>2, <3>4, <3>5, <3>6, OneCallStep
  <2>4. CASE Forward(c) \/ ForwardFail(c)
    <3>1. /\ call[c] = "authorized" /\ UNCHANGED <<expired, bearer>>
          /\ call' \in {[call EXCEPT ![c] = "answered"], [call EXCEPT ![c] = "unavailable"]}
          /\ Serve(c) \/ UNCHANGED <<userId, served, leads>>
      BY <2>4 DEF Forward, ForwardFail, Answer, serviceVars
    <3>2. userId[c] # Nobody /\ Owns(bearer[c], userId[c])
      BY <3>1 DEF IInv, InProgress, CallInProgress
    <3>3. PICK id \in {userId[c], Nobody} :
            /\ userId' \in {userId, [userId EXCEPT ![c] = id]}
            /\ served' \in {served, served \cup {c}}
            /\ \/ leads' = leads
               \/ /\ served' = served \cup {c} /\ Storable(id)
                  /\ leads' = leads \cup {[call |-> c, user_id |-> id]}
      BY <3>1 DEF Serve, Received
    <3>4. Storable(id) => id \in Requests /\ id = userId[c]
      BY <3>3, GatewayAssumption DEF Storable, IInv, TypeOK, User
    <3>5. LocalTypeOK'
      BY <1>1, <3>1, <3>3, <3>4 DEF IInv, TypeOK, LocalTypeOK, inputVars, Lead
    <3>6. userId'[c] \in {userId[c], Nobody} /\ call'[c] \in {"answered", "unavailable"}
      BY <3>1, <3>3 DEF IInv, TypeOK
    <3>7. CallInProgress(c)'
      BY <1>1, <3>1, <3>2, <3>6 DEF CallInProgress, Owns, inputVars
    <3>8. \A d \in Calls \ {c} : /\ call'[d] = call[d] /\ userId'[d] = userId[d]
                                 /\ d \in served' <=> d \in served
      BY <3>1, <3>3 DEF IInv, TypeOK
    <3>9. ASSUME NEW lead \in leads'
          PROVE  lead.call \in served' /\ Owns(bearer[lead.call], lead.user_id)
      <4>1. CASE lead \in leads
        BY <3>3, <4>1 DEF IInv, InProgress, ActsForOwner
      <4>2. CASE lead \notin leads
        <5>1. lead = [call |-> c, user_id |-> id] /\ Storable(id) /\ c \in served'
          BY <3>3, <4>2
        <5> QED BY <3>2, <3>4, <5>1
      <4> QED BY <4>1, <4>2
    <3>10. \A lead \in leads' : Owns(bearer[lead.call], lead.user_id)'
      BY <1>1, <3>1, <3>9 DEF Owns, inputVars
    <3> QED BY <1>1, <1>2, <2>1, <3>1, <3>5, <3>7, <3>8, <3>9, <3>10, OneCallStep
  <2>5. ASSUME NEW r \in Requests \cup {Nobody}, Authorize(c, r) PROVE r \in Requests
    BY <2>5 DEF Authorize, Valid
  <2> QED BY <2>1, <2>2, <2>3, <2>4, <2>5 DEF Call
<1> QED BY <1>3, <1>4

\* Every step preserves the invariant.
LEMMA IInvStep == IInv /\ [Next]_vars => IInv'
<1> SUFFICES ASSUME IInv, [Next]_vars PROVE IInv'
  OBVIOUS
<1>1. CASE UNCHANGED vars
  <2>1. UNCHANGED <<step, spelling, password, users, found, token, accounts, known,
                    expired, call, bearer, userId, served, leads>>
    BY <1>1 DEF vars, authVars, callVars, inputVars, serviceVars
  <2>2. TablesOK' /\ RegisteredCanLogin'
    BY <2>1 DEF IInv, TypeOK, TablesOK, RowsStay, OneUserPerAddress, RegisteredCanLogin
  <2>3. LocalTypeOK'
    BY <2>1 DEF IInv, TypeOK, LocalTypeOK
  <2>4. ASSUME NEW r \in Requests PROVE RequestInProgress(r)'
    BY <1>1, RequestFrame DEF vars, authVars, IInv, InProgress
  <2>5. /\ \A c \in Calls : CallInProgress(c)'
        /\ \A lead \in leads' : lead.call \in served'
        /\ ActsForOwner'
    BY <1>1, CallsFrame DEF vars, authVars, callVars
  <2> QED BY <2>2, <2>3, <2>4, <2>5, Parts DEF InProgress
<1> QED BY <1>1, BeginStep, InsertStep, FindStep, CompareStep, CallStep DEF Next

\* The invariant holds in the initial states.
LEMMA InitIInv == Init => IInv
<1> SUFFICES ASSUME Init PROVE IInv
  OBVIOUS
<1>1. TypeOK
  BY DEF Init, TypeOK
<1>2. InProgress
  BY DEF Init, InProgress, RequestInProgress, CallInProgress
<1> QED BY <1>1, <1>2 DEF Init, IInv, RowsStay, OneUserPerAddress, RegisteredCanLogin, ActsForOwner

\* The invariant holds in every reachable state; the theorems below are its parts.
THEOREM Inductive == Spec => []IInv
BY InitIInv, IInvStep, PTL DEF Spec

-----------------------------------------------------------------------------

\* However many registrations of one address run at once, and however they spell
\* it, users holds one row for it (repository.go, the unique index).
THEOREM UniqueUser == Spec => []OneUserPerAddress
<1>1. IInv => OneUserPerAddress
  BY DEF IInv
<1> QED BY <1>1, Inductive, PTL

\* A login with the address, in any spelling, and the password of a registration
\* that had been answered 201 is never refused (service.go, Login).
THEOREM LoginWorks == Spec => []RegisteredCanLogin
<1>1. IInv => RegisteredCanLogin
  BY DEF IInv
<1> QED BY <1>1, Inductive, PTL

\* A call that reaches a service carries no id or that of a stored user, and the
\* bearer of its token knew address and password of that user; for no other user is
\* a lead stored (middleware/auth.go, proxy.go, Create of lead-service).
THEOREM ServedForOwner == Spec => []ActsForOwner
<1>1. IInv => ActsForOwner
  BY DEF IInv
<1> QED BY <1>1, Inductive, PTL

-----------------------------------------------------------------------------
(* The lists *)

\* What the lemmas below need of a state: timestamps, and finitely many rows.
RowsOK == createdAt \in [Rows -> Nat] /\ table \subseteq Rows /\ IsFiniteSet(table)

\* The visible rows, and those before one of them, are finitely many.
LEMMA FiniteRows ==
  ASSUME RowsOK
  PROVE  /\ Mine \subseteq Rows /\ IsFiniteSet(Mine)
         /\ \A w : /\ Newer(w) \subseteq Mine /\ IsFiniteSet(Newer(w))
                   /\ Cardinality(Newer(w)) \in Nat
<1>1. Mine \subseteq table /\ \A w : Newer(w) \subseteq Mine
  BY DEF Mine, Newer
<1>2. IsFiniteSet(Mine)
  BY <1>1, FS_Subset DEF RowsOK
<1> QED BY <1>1, <1>2, FS_Subset, FS_CardinalityType DEF RowsOK

\* ORDER BY lists the visible rows, each once.
LEMMA OrderedFacts ==
  ASSUME RowsOK, NEW s \in Ordered(Mine)
  PROVE  /\ s \in Seq(Mine) /\ s \in [1..Len(s) -> Mine] /\ Len(s) \in Nat
         /\ \A i, j \in 1..Len(s) : s[i] = s[j] => i = j
         /\ \A w \in Mine : \E i \in 1..Len(s) : s[i] = w
         /\ \A i, j \in 1..Len(s) : i < j => createdAt[s[i]] >= createdAt[s[j]]
<1> DEFINE n == Cardinality(Mine)
<1>1. IsFiniteSet(Mine) /\ n \in Nat
  BY FiniteRows, FS_CardinalityType
<1>2. /\ s \in [1..n -> Mine] /\ (\A i, j \in 1..n : i # j => s[i] # s[j])
      /\ \A i, j \in 1..Len(s) : i < j => createdAt[s[i]] >= createdAt[s[j]]
  BY DEF Ordered, SetToSeqs
<1>3. s \in Seq(Mine) /\ Len(s) = n
  BY <1>1, <1>2
<1>4. s \in Injection(1..n, Mine)
  BY <1>2 DEF Injection, IsInjective
<1>5. Cardinality(1..n) = n
  BY <1>1, FS_Interval
<1>6. s \in Surjection(1..n, Mine)
  BY <1>1, <1>4, <1>5, FS_Injection
<1> QED BY <1>2, <1>3, <1>6 DEF Surjection

\* The place of a row whose timestamp is its own: behind exactly the newer ones.
LEMMA PlaceOf ==
  ASSUME RowsOK, NEW s \in Ordered(Mine), NEW p \in 1..Len(s), ~Tied(s[p])
  PROVE  Cardinality(Newer(s[p])) = p - 1
<1> DEFINE f == [i \in 1..(p - 1) |-> s[i]]
<1>1. /\ s \in Seq(Mine) /\ Len(s) \in Nat
      /\ \A i, j \in 1..Len(s) : s[i] = s[j] => i = j
      /\ \A w \in Mine : \E i \in 1..Len(s) : s[i] = w
      /\ \A i, j \in 1..Len(s) : i < j => createdAt[s[i]] >= createdAt[s[j]]
  BY OrderedFacts
<1>2. \A i \in 1..Len(s) : i \in Nat /\ s[i] \in Mine /\ createdAt[s[i]] \in Nat
  <2>1. \A w \in Mine : createdAt[w] \in Nat
    BY FiniteRows DEF RowsOK
  <2> QED BY <2>1, OrderedFacts
<1>3. ASSUME NEW i \in 1..(p - 1) PROVE s[i] \in Newer(s[p])
  <2>1. s[i] # s[p] /\ createdAt[s[i]] >= createdAt[s[p]] /\ s[i] \in Mine
    <3>1. i \in 1..Len(s) /\ i < p
      BY <1>1
    <3> QED BY <1>1, <1>2, <3>1
  <2>2. createdAt[s[i]] # createdAt[s[p]]
    BY <2>1 DEF Tied
  <2> QED BY <1>2, <2>1, <2>2 DEF Newer
<1>4. ASSUME NEW w \in Newer(s[p]) PROVE \E i \in 1..(p - 1) : s[i] = w
  <2>1. PICK i \in 1..Len(s) : s[i] = w
    BY <1>1 DEF Newer
  <2>2. createdAt[s[i]] > createdAt[s[p]]
    BY <2>1 DEF Newer
  <2>3. ~(p < i) /\ i # p
    <3>1. createdAt[s[i]] \in Nat /\ createdAt[s[p]] \in Nat
      BY <1>2
    <3>2. p < i => createdAt[s[p]] >= createdAt[s[i]]
      BY <1>1
    <3> QED BY <2>2, <3>1, <3>2
  <2> QED BY <1>1, <2>1, <2>3
<1>5. f \in Bijection(1..(p - 1), Newer(s[p]))
  <2>1. f \in [1..(p - 1) -> Newer(s[p])]
    BY <1>3
  <2>2. \A i, j \in 1..(p - 1) : f[i] = f[j] => i = j
    <3>1. 1..(p - 1) \subseteq 1..Len(s)
      BY <1>1
    <3> QED BY <1>1, <3>1
  <2>3. \A w \in Newer(s[p]) : \E i \in 1..(p - 1) : f[i] = w
    BY <1>4
  <2> QED BY <2>1, <2>2, <2>3 DEF Bijection, Injection, Surjection, IsInjective
<1>6. ExistsBijection(1..(p - 1), Newer(s[p]))
  BY <1>5 DEF ExistsBijection
<1>7. p - 1 \in Nat
  BY <1>1
<1> QED BY <1>6, <1>7, FS_CountingElements

\* Of two rows with timestamps of their own one has fewer rows before it.
LEMMA PlacesDiffer ==
  ASSUME RowsOK, NEW v \in Mine, NEW w \in Mine, v # w, ~Tied(v)
  PROVE  Cardinality(Newer(v)) # Cardinality(Newer(w))
<1>1. \A x \in Mine : createdAt[x] \in Nat
  BY FiniteRows DEF RowsOK
<1>2. ASSUME NEW x \in Mine, NEW y \in Mine, createdAt[y] > createdAt[x]
      PROVE  Cardinality(Newer(y)) < Cardinality(Newer(x))
  <2>1. Newer(y) \cup {y} \subseteq Newer(x) /\ y \notin Newer(y)
    BY <1>1, <1>2 DEF Newer
  <2>2. Cardinality(Newer(y) \cup {y}) = Cardinality(Newer(y)) + 1
    BY <2>1, FiniteRows, FS_AddElement
  <2>3. Cardinality(Newer(y) \cup {y}) <= Cardinality(Newer(x))
    BY <2>1, FiniteRows, FS_Subset
  <2> QED BY <2>2, <2>3, FiniteRows
<1>3. createdAt[v] # createdAt[w]
  BY DEF Tied
<1> QED BY <1>1, <1>2, <1>3, FiniteRows

\* The smaller of two numbers.
LEMMA MinOfTwo ==
  ASSUME NEW a \in Int, NEW b \in Int
  PROVE  Min({a, b}) = IF a <= b THEN a ELSE b
BY DEF Min

\* A page goes on where the offset is, in one order of the rows, and is only shorter
\* than the limit at the end of the list.
LEMMA PageFacts ==
  ASSUME RowsOK, NEW limit \in Nat \ {0}, NEW n \in Nat, NEW page \in Page(limit, n)
  PROVE  \E s \in Ordered(Mine), m \in Nat :
           /\ n <= m /\ page \in Seq(Mine) /\ Len(page) = m - n
           /\ n < m => m <= Len(s)
           /\ \A i \in 1..(m - n) : page[i] = s[n + i]
           /\ m = n + limit \/ Len(s) <= m
<1>1. PICK s \in Ordered(Mine) : page = SubSeq(s, n + 1, Min({n + limit, Len(s)}))
  BY DEF Page, Slice
<1>2. s \in Seq(Mine) /\ Len(s) \in Nat
  BY OrderedFacts
<1> DEFINE e == IF n + limit <= Len(s) THEN n + limit ELSE Len(s)
           m == IF n <= e THEN e ELSE n
<1>3. page = SubSeq(s, n + 1, e) /\ e \in Nat /\ e <= Len(s)
  BY <1>1, <1>2, MinOfTwo
<1>4. /\ page \in Seq(Mine)
      /\ Len(page) = m - n
      /\ \A i \in 1..(m - n) : page[i] = s[n + i]
  <2>1. CASE n < e
    <3> HIDE DEF e
    <3> QED BY <1>2, <1>3, <2>1
  <2>2. CASE ~(n < e)
    <3>1. m = n
      BY <1>3, <2>2
    <3> HIDE DEF e, m
    <3>2. page = <<>>
      BY <1>2, <1>3, <2>2
    <3> QED BY <3>1, <3>2
  <2> QED BY <2>1, <2>2
<1>5. m \in Nat /\ n <= m /\ (n < m => m <= Len(s)) /\ (m = n + limit \/ Len(s) <= m)
  BY <1>2, <1>3
<1> QED BY <1>4, <1>5

\* The rows a client has are finitely many.
LEMMA FiniteSeen ==
  ASSUME ListInv
  PROVE  /\ RowsOK /\ Len(received) \in Nat
         /\ IsFiniteSet(Seen) /\ Cardinality(Seen) \in Nat
         /\ IsFiniteSet(MovedBack) /\ Cardinality(MovedBack) \in Nat
         /\ IsFiniteSet(LateMine) /\ Cardinality(LateMine) \in Nat
<1>1. RowsOK /\ Len(received) \in Nat
  BY DEF ListInv, ListTypeOK, RowsOK
<1>2. Seen \subseteq Mine /\ MovedBack \subseteq Mine /\ LateMine \subseteq table
  BY DEF ListInv, ListTypeOK, MovedBack, LateMine
<1> QED BY <1>1, <1>2, FiniteRows, FS_Subset, FS_CardinalityType DEF RowsOK

\* What one page adds to what the client has, and where the rows of the list are.
LEMMA PageReceived ==
  ASSUME ListInv, List
  PROVE  \E s \in Ordered(Mine), m \in Nat :
           /\ Len(received) <= m /\ Len(received') = m /\ received' \in Seq(Rows)
           /\ Len(received) < m => m <= Len(s)
           /\ Seen' = Seen \cup {s[k] : k \in (Len(received) + 1)..m}
           /\ paging' = "end" => Len(s) <= Len(received) /\ received' = received
           /\ paging' \in {"yes", "end"}
<1> DEFINE n == Len(received)
           limit == EffectiveLimit(asked)
<1>1. RowsOK /\ n \in Nat /\ received \in Seq(Rows)
  BY FiniteSeen DEF ListInv, ListTypeOK
<1>2. limit \in Nat \ {0} /\ EffectiveOffset(n) = n
  BY <1>1, ListingAssumption DEF EffectiveLimit, EffectiveOffset, ListInv, ListTypeOK
<1>3. PICK page \in Page(limit, n) :
        received' = received \o page /\ paging' = IF page = <<>> THEN "end" ELSE "yes"
  BY <1>2 DEF List
<1> HIDE DEF limit
<1>4. PICK s \in Ordered(Mine), m \in Nat :
        /\ n <= m /\ page \in Seq(Mine) /\ Len(page) = m - n
        /\ n < m => m <= Len(s)
        /\ \A i \in 1..(m - n) : page[i] = s[n + i]
        /\ m = n + limit \/ Len(s) <= m
  BY <1>1, <1>2, PageFacts
<1>5. page \in Seq(Rows)
  BY <1>1, <1>4, FiniteRows
<1>6. /\ received' \in Seq(Rows) /\ Len(received') = m
      /\ \A k \in 1..n : received'[k] = received[k]
      /\ \A k \in (n + 1)..m : received'[k] = s[k]
  <2>1. received' \in Seq(Rows) /\ Len(received') = m
    BY <1>1, <1>3, <1>4, <1>5
  <2>2. \A k \in 1..n : received'[k] = received[k]
    BY <1>1, <1>3, <1>4, <1>5
  <2>3. ASSUME NEW k \in (n + 1)..m PROVE received'[k] = s[k]
    <3>1. k - n \in 1..(m - n) /\ n + (k - n) = k
      BY <1>1
    <3>2. received'[k] = page[k - n]
      BY <1>1, <1>3, <1>4, <1>5
    <3> QED BY <1>4, <3>1, <3>2
  <2> QED BY <2>1, <2>2, <2>3
<1>7. Seen' = Seen \cup {s[k] : k \in (n + 1)..m}
  <2>1. 1..m = (1..n) \cup ((n + 1)..m)
    BY <1>1, <1>4
  <2>2. Seen' = {received'[k] : k \in 1..m}
    BY <1>6 DEF Seen
  <2> QED BY <1>6, <2>1, <2>2 DEF Seen
<1>8. paging' = "end" => Len(s) <= n /\ received' = received
  <2> SUFFICES ASSUME paging' = "end" PROVE Len(s) <= n /\ received' = received
    OBVIOUS
  <2>1. page = <<>>
    BY <1>3
  <2>2. Len(page) = 0
    BY <2>1
  <2>3. m = n
    BY <1>1, <1>4, <2>2
  <2>4. received' = received
    BY <1>1, <1>3, <2>1
  <2> QED BY <1>1, <1>2, <1>4, <2>3, <2>4
<1> QED BY <1>3, <1>4, <1>6, <1>7, <1>8

\* A page: what the client does not have stays behind the offset, and of the rows of
\* the page it had, each was moved back before.
LEMMA ListStep ==
  ASSUME ListInv, List
  PROVE  ListInv'
<1> DEFINE n == Len(received)
<1>1. /\ UNCHANGED <<clock, createdAt, table, user, asked, late>>
      /\ before' = IF paging = "no" THEN table ELSE before
      /\ paging \in {"no", "yes"}
  BY DEF List, requestVars, ListInv, ListTypeOK
<1>2. RowsOK /\ n \in Nat
  BY FiniteSeen
<1>3. PICK s \in Ordered(Mine), m \in Nat :
        /\ n <= m /\ Len(received') = m /\ received' \in Seq(Rows)
        /\ n < m => m <= Len(s)
        /\ Seen' = Seen \cup {s[k] : k \in (n + 1)..m}
        /\ paging' = "end" => Len(s) <= n /\ received' = received
        /\ paging' \in {"yes", "end"}
  BY PageReceived
<1>4. /\ s \in [1..Len(s) -> Mine] /\ Len(s) \in Nat
      /\ \A i, j \in 1..Len(s) : s[i] = s[j] => i = j
      /\ \A w \in Mine : \E i \in 1..Len(s) : s[i] = w
  BY <1>2, OrderedFacts
<1>5. \A p \in 1..Len(s) : ~Tied(s[p]) => Cardinality(Newer(s[p])) = p - 1
  BY <1>2, PlaceOf
<1>6. Mine' = Mine /\ LateMine' = LateMine
      /\ \A w : Newer(w)' = Newer(w) /\ (Tied(w)' <=> Tied(w))
  BY <1>1 DEF Mine, LateMine, Visible, Newer, Tied
<1>7. (n + 1)..m \subseteq 1..Len(s)
  BY <1>2, <1>3, <1>4
<1>8. ListTypeOK' /\ (\A w \in table' : createdAt'[w] # 0) /\ Seen' \subseteq Mine'
  BY <1>1, <1>3, <1>4, <1>6, <1>7 DEF ListInv, ListTypeOK
<1>9. ASSUME NEW w \in before', Visible(w), ~Tied(w), w \notin Seen'
      PROVE  paging' = "yes" /\ Cardinality(Newer(w)) >= m
  <2>1. w \in Mine /\ w \notin Seen
    BY <1>1, <1>3, <1>9 DEF Mine, ListInv, ListTypeOK
  <2>2. PICK p \in 1..Len(s) : s[p] = w
    BY <1>4, <2>1
  <2>3. Cardinality(Newer(w)) = p - 1
    BY <1>5, <1>9, <2>2
  <2>4. p > n
    <3>1. CASE paging = "no"
      BY <1>4, <3>1 DEF ListInv
    <3>2. CASE paging = "yes"
      <4>1. Ahead(w)
        BY <1>1, <1>9, <2>1, <3>2 DEF ListInv, StillAhead
      <4> QED BY <1>2, <1>4, <2>3, <4>1 DEF Ahead
    <3> QED BY <1>1, <3>1, <3>2
  <2>5. p > m
    BY <1>2, <1>3, <1>4, <1>9, <2>2, <2>4
  <2>6. paging' = "yes"
    BY <1>2, <1>3, <1>4, <2>4
  <2> QED BY <1>3, <1>4, <2>3, <2>5, <2>6
<1>10. StillAhead' /\ NoRowMissed'
  BY <1>1, <1>3, <1>6, <1>9 DEF StillAhead, NoRowMissed, Ahead, Visible
<1>11. ASSUME \A w \in Mine : ~Tied(w)
       PROVE  m + Cardinality(MovedBack') <= Cardinality(Seen') + Cardinality(LateMine)
  <2> DEFINE P == {s[k] : k \in (n + 1)..m}
  <2>1. n + Cardinality(MovedBack) <= Cardinality(Seen) + Cardinality(LateMine)
    <3>1. CASE paging = "yes"
      BY <1>11, <3>1 DEF ListInv, RepeatsPaidFor
    <3>2. CASE paging = "no"
      <4>1. received = <<>> /\ n = 0
        BY <3>2 DEF ListInv
      <4>2. Seen = {} /\ MovedBack = {}
        BY <4>1 DEF Seen, MovedBack
      <4> QED BY <4>1, <4>2, FS_EmptySet, FiniteSeen
    <3> QED BY <1>1, <3>1, <3>2
  <2>2. \A k \in (n + 1)..m : s[k] \in Mine /\ k \in Nat /\ Cardinality(Newer(s[k])) = k - 1
    BY <1>4, <1>5, <1>7, <1>11
  <2>3. IsFiniteSet(P) /\ Cardinality(P) = m - n
    <3> DEFINE f == [k \in (n + 1)..m |-> s[k]]
    <3>1. f \in Bijection((n + 1)..m, P)
      <4>1. f \in [(n + 1)..m -> P]
        OBVIOUS
      <4>2. \A i, j \in (n + 1)..m : f[i] = f[j] => i = j
        BY <1>4, <1>7
      <4>3. \A w \in P : \E i \in (n + 1)..m : f[i] = w
        OBVIOUS
      <4> QED BY <4>1, <4>2, <4>3 DEF Bijection, Injection, Surjection, IsInjective
    <3>2. ExistsBijection((n + 1)..m, P)
      BY <3>1 DEF ExistsBijection
    <3>3. IsFiniteSet((n + 1)..m) /\ Cardinality((n + 1)..m) = m - n
      <4>1. n + 1 \in Int /\ m \in Int /\ n <= m
        BY <1>2, <1>3
      <4>2. /\ IsFiniteSet((n + 1)..m)
            /\ Cardinality((n + 1)..m) = IF n + 1 > m THEN 0 ELSE m - (n + 1) + 1
        BY <4>1, FS_Interval
      <4> QED BY <1>2, <1>3, <4>2
    <3> QED BY <3>2, <3>3, FS_Bijection
  <2> HIDE DEF P
  <2>4. Seen' = Seen \cup P
    BY <1>3 DEF P
  <2>5. Cardinality(Seen') = Cardinality(Seen) + (m - n) - Cardinality(Seen \cap P)
    BY <2>3, <2>4, FiniteSeen, FS_Union
  <2>6. MovedBack' \subseteq MovedBack \ P
    <3> SUFFICES ASSUME NEW w \in MovedBack' PROVE w \in MovedBack \ P
      OBVIOUS
    <3>1. w \in Seen \cup P /\ Cardinality(Newer(w)) >= m
      BY <1>3, <1>6, <2>4 DEF MovedBack, Ahead
    <3>2. w \notin P
      BY <1>3, <2>2, <3>1 DEF P
    <3>3. Cardinality(Newer(w)) \in Nat
      BY <1>2, FiniteRows
    <3> QED BY <1>2, <1>3, <3>1, <3>2, <3>3 DEF MovedBack, Ahead
  <2>7. Seen \cap P \subseteq MovedBack \cap P
    <3> SUFFICES ASSUME NEW w \in Seen \cap P PROVE w \in MovedBack
      OBVIOUS
    <3>1. PICK k \in (n + 1)..m : w = s[k]
      BY DEF P
    <3> QED BY <1>2, <2>2, <3>1 DEF MovedBack, Ahead
  <2>8. /\ IsFiniteSet(MovedBack \ P)
        /\ Cardinality(MovedBack \ P) = Cardinality(MovedBack) - Cardinality(MovedBack \cap P)
    BY FiniteSeen, FS_Difference
  <2>9. /\ Cardinality(MovedBack') <= Cardinality(MovedBack \ P)
        /\ Cardinality(MovedBack') \in Nat
    BY <2>6, <2>8, FS_Subset, FS_CardinalityType
  <2>10. IsFiniteSet(MovedBack \cap P) /\ IsFiniteSet(Seen \cap P)
    BY FiniteSeen, FS_Intersection
  <2>11. /\ Cardinality(Seen \cap P) <= Cardinality(MovedBack \cap P)
         /\ Cardinality(Seen \cap P) \in Nat /\ Cardinality(MovedBack \cap P) \in Nat
    BY <2>7, <2>10, FS_Subset, FS_CardinalityType
  <2> QED BY <1>2, <1>3, <2>1, <2>5, <2>8, <2>9, <2>11, FiniteSeen
<1>12. RepeatsPaidFor' /\ RepeatsBounded'
  <2>1. ASSUME \A w \in Mine : ~Tied(w)
        PROVE  m <= Cardinality(Seen') + Cardinality(LateMine)
    <3>1. MovedBack' \subseteq Mine
      BY <1>6, <1>8 DEF MovedBack
    <3>2. Cardinality(MovedBack') \in Nat
      BY <1>2, <3>1, FiniteRows, FS_Subset, FS_CardinalityType
    <3>3. Cardinality(Seen') \in Nat
      BY <1>2, <1>6, <1>8, FiniteRows, FS_Subset, FS_CardinalityType
    <3> QED BY <1>11, <2>1, <3>2, <3>3, FiniteSeen
  <2> QED BY <1>3, <1>6, <1>11, <2>1 DEF RepeatsPaidFor, RepeatsBounded
<1> QED BY <1>3, <1>8, <1>10, <1>12 DEF ListInv

\* A commit puts a row anywhere in the list: it moves those behind it one place back,
\* and at most one of those the client has gets behind the offset again.
LEMMA CommitRowStep ==
  ASSUME ListInv, NEW w \in Rows, CommitRow(w)
  PROVE  ListInv'
<1> DEFINE n == Len(received)
<1>1. /\ UNCHANGED <<clock, createdAt, user, asked, received, paging, before>>
      /\ createdAt[w] # 0 /\ w \notin table /\ table' = table \cup {w}
      /\ late' = IF paging = "yes" THEN late \cup {w} ELSE late
  BY DEF CommitRow, requestVars, clientVars
<1>2. RowsOK /\ n \in Nat /\ paging \in {"no", "yes", "end"}
  BY FiniteSeen DEF ListInv, ListTypeOK
<1>3. ListTypeOK' /\ (\A v \in table' : createdAt'[v] # 0)
  BY <1>1, FS_AddElement DEF ListInv, ListTypeOK
<1>4. RowsOK'
  BY <1>3 DEF ListTypeOK, RowsOK
<1>5. /\ Mine \subseteq Mine' /\ Mine' \subseteq Mine \cup {w} /\ w \notin Mine
      /\ Seen' = Seen
      /\ \A v : Tied(v) => Tied(v)'
      /\ \A v : Newer(v) \subseteq Newer(v)' /\ Newer(v)' \subseteq Newer(v) \cup {w}
  BY <1>1 DEF Mine, Visible, Seen, Tied, Newer
<1>6. \A v : /\ IsFiniteSet(Newer(v)') /\ Cardinality(Newer(v)) \in Nat
             /\ Cardinality(Newer(v)') \in Nat
             /\ Cardinality(Newer(v)) <= Cardinality(Newer(v)')
             /\ Cardinality(Newer(v)') <= Cardinality(Newer(v)) + 1
  <2>1. \A v : IsFiniteSet(Newer(v)) /\ Cardinality(Newer(v)) \in Nat
    BY <1>2, FiniteRows
  <2>2. \A v : w \notin Newer(v)
    BY <1>5 DEF Newer
  <2>3. \A v : /\ IsFiniteSet(Newer(v) \cup {w})
               /\ Cardinality(Newer(v) \cup {w}) = Cardinality(Newer(v)) + 1
    BY <2>1, <2>2, FS_AddElement
  <2>4. \A v : IsFiniteSet(Newer(v)') /\ Cardinality(Newer(v)') <= Cardinality(Newer(v) \cup {w})
    BY <1>5, <2>3, FS_Subset
  <2>5. \A v : Cardinality(Newer(v)) <= Cardinality(Newer(v)')
    BY <1>5, <2>4, FS_Subset
  <2> QED BY <2>1, <2>3, <2>4, <2>5, FS_CardinalityType
<1>7. Seen' \subseteq Mine' /\ (paging' = "no" => received' = <<>>)
  BY <1>1, <1>5 DEF ListInv
<1>8. \A v : Ahead(v) => Ahead(v)'
  BY <1>1, <1>2, <1>6 DEF Ahead
<1>9. StillAhead' /\ NoRowMissed'
  BY <1>1, <1>5, <1>8 DEF ListInv, StillAhead, NoRowMissed, Visible
<1>10. (\A v \in Mine' : ~Tied(v)') => \A v \in Mine : ~Tied(v)
  BY <1>5
<1>11. /\ IsFiniteSet(LateMine') /\ Cardinality(LateMine') \in Nat
       /\ Cardinality(LateMine) <= Cardinality(LateMine')
  <2>1. IsFiniteSet(late')
    BY <1>3, FS_Subset DEF ListTypeOK
  <2>2. LateMine \subseteq LateMine' /\ LateMine' \subseteq late'
    BY <1>1 DEF LateMine, Visible
  <2> QED BY <2>1, <2>2, FS_Subset, FS_CardinalityType
<1>12. RepeatsBounded'
  BY <1>1, <1>2, <1>5, <1>10, <1>11, FiniteSeen DEF ListInv, RepeatsBounded
<1>13. ASSUME paging = "yes", \A v \in Mine' : ~Tied(v)'
       PROVE  n + Cardinality(MovedBack') <= Cardinality(Seen') + Cardinality(LateMine')
  <2>1. n + Cardinality(MovedBack) <= Cardinality(Seen) + Cardinality(LateMine)
    BY <1>10, <1>13 DEF ListInv, RepeatsPaidFor
  <2>2. CASE ~Visible(w)
    <3>1. Mine' = Mine /\ LateMine' = LateMine
      BY <1>1, <2>2 DEF Mine, LateMine, Visible
    <3>2. \A v : Newer(v)' = Newer(v)
      BY <1>1, <3>1 DEF Newer
    <3>3. MovedBack' = MovedBack
      BY <1>1, <1>5, <3>2 DEF MovedBack, Ahead
    <3> QED BY <1>5, <2>1, <3>1, <3>3
  <2>3. CASE Visible(w)
    <3> DEFINE Edge == {v \in Seen : Cardinality(Newer(v)) = n - 1}
    <3>1. LateMine' = LateMine \cup {w} /\ w \notin LateMine
      BY <1>1, <1>13, <2>3 DEF LateMine, Visible, ListInv, ListTypeOK
    <3>2. Cardinality(LateMine') = Cardinality(LateMine) + 1
      BY <3>1, FiniteSeen, FS_AddElement
    <3>3. MovedBack' \subseteq MovedBack \cup Edge
      <4> SUFFICES ASSUME NEW v \in MovedBack', v \notin MovedBack PROVE v \in Edge
        OBVIOUS
      <4>1. v \in Seen /\ Cardinality(Newer(v)') >= n
        BY <1>1, <1>5 DEF MovedBack, Ahead
      <4>2. ~(Cardinality(Newer(v)) >= n)
        BY <4>1 DEF MovedBack, Ahead
      <4> QED BY <1>2, <1>6, <4>1, <4>2
    <3>4. \A u, v \in Edge : u = v
      <4> SUFFICES ASSUME NEW u \in Edge, NEW v \in Edge, u # v PROVE FALSE
        OBVIOUS
      <4>1. u \in Mine /\ v \in Mine /\ ~Tied(u)
        BY <1>10, <1>13 DEF ListInv
      <4> QED BY <1>2, <4>1, PlacesDiffer
    <3>5. ASSUME NEW B, B = MovedBack \cup Edge
          PROVE  IsFiniteSet(B) /\ Cardinality(B) <= Cardinality(MovedBack) + 1
      <4>1. CASE B = MovedBack
        BY <4>1, FiniteSeen
      <4>2. CASE B # MovedBack
        <5>1. PICK e \in Edge : e \notin MovedBack
          BY <3>5, <4>2
        <5>2. B = MovedBack \cup {e}
          BY <3>4, <3>5, <5>1
        <5>3. IsFiniteSet(B) /\ Cardinality(B) = Cardinality(MovedBack) + 1
          <6>1. IsFiniteSet(MovedBack)
            BY FiniteSeen
          <6> QED BY <5>1, <5>2, <6>1, FS_AddElement, Zenon
        <5> QED BY <5>3, FiniteSeen
      <4> QED BY <4>1, <4>2
    <3> HIDE DEF Edge
    <3>6. Cardinality(MovedBack') <= Cardinality(MovedBack) + 1
          /\ Cardinality(MovedBack') \in Nat
      <4>1. /\ IsFiniteSet(MovedBack')
            /\ Cardinality(MovedBack') <= Cardinality(MovedBack \cup Edge)
        BY <3>3, <3>5, FS_Subset
      <4> QED BY <3>5, <4>1, FiniteSeen, FS_CardinalityType
    <3> QED BY <1>2, <1>5, <2>1, <3>2, <3>6, FiniteSeen
  <2> QED BY <2>2, <2>3
<1>14. RepeatsPaidFor'
  BY <1>1, <1>13 DEF RepeatsPaidFor
<1> QED BY <1>3, <1>7, <1>9, <1>12, <1>14 DEF ListInv

\* Nothing else the client can tell: a transaction that starts has no row yet.
LEMMA UnseenStep ==
  ASSUME ListInv, Tick \/ (\E w \in Rows : Start(w)) \/ UNCHANGED listVars
  PROVE  ListInv'
<1>1. /\ UNCHANGED <<table, user, asked, received, paging, before, late>>
      /\ clock' \in Nat \ {0} /\ createdAt' \in [Rows -> Nat]
      /\ \A v \in table : createdAt'[v] = createdAt[v]
  BY DEF Tick, Start, listVars, requestVars, clientVars, ListInv, ListTypeOK
<1>2. Mine' = Mine /\ Seen' = Seen /\ LateMine' = LateMine
  BY <1>1 DEF Mine, Visible, Seen, LateMine
<1>3. \A v \in Mine : /\ createdAt'[v] = createdAt[v]
                      /\ Newer(v)' = Newer(v) /\ (Tied(v)' <=> Tied(v))
  BY <1>1, <1>2 DEF Mine, Newer, Tied
<1>4. \A v \in Mine : Ahead(v)' <=> Ahead(v)
  BY <1>1, <1>3 DEF Ahead
<1>5. MovedBack' = MovedBack
  BY <1>2, <1>4 DEF MovedBack, ListInv
<1>6. \A v \in before : Visible(v) => v \in Mine
  BY DEF Mine, ListInv, ListTypeOK
<1>7. ListTypeOK' /\ (\A v \in table' : createdAt'[v] # 0)
  BY <1>1 DEF ListInv, ListTypeOK
<1>8. StillAhead' /\ NoRowMissed'
  BY <1>1, <1>2, <1>3, <1>4, <1>6 DEF ListInv, StillAhead, NoRowMissed, Visible
<1>9. RepeatsPaidFor' /\ RepeatsBounded'
  BY <1>1, <1>2, <1>3, <1>5 DEF ListInv, RepeatsPaidFor, RepeatsBounded
<1> QED BY <1>1, <1>2, <1>7, <1>8, <1>9 DEF ListInv

\* What a client has of its list, and where the rest of it is, at every moment of its
\* reading: the invariant the two theorems below follow from.
THEOREM ListInvariant == ListSpec => []ListInv
<1>1. ListInit => ListInv
  <2> SUFFICES ASSUME ListInit PROVE ListInv
    OBVIOUS
  <2>1. Seen = {} /\ LateMine = {} /\ received = <<>>
    BY DEF ListInit, Seen, LateMine
  <2>2. ListTypeOK
    BY FS_EmptySet DEF ListInit, ListTypeOK
  <2>3. RepeatsBounded
    BY <2>1, FS_EmptySet DEF RepeatsBounded
  <2> QED BY <2>1, <2>2, <2>3 DEF ListInit, ListInv, StillAhead, NoRowMissed, RepeatsPaidFor
<1>2. ListInv /\ [ListNext]_listVars => ListInv'
  BY ListStep, CommitRowStep, UnseenStep DEF ListNext
<1> QED BY <1>1, <1>2, PTL DEF ListSpec

\* A client that pages through a list to its end, while rows are inserted anywhere in
\* it, receives every row visible to it that was there when it began and shares its
\* created_at with no other (List of the three repositories).
THEOREM NothingMissed == ListSpec => []NoRowMissed
<1>1. ListInv => NoRowMissed
  BY DEF ListInv
<1> QED BY <1>1, ListInvariant, PTL

\* And without ties it receives no more rows twice than were committed meanwhile.
THEOREM RepeatsAreBounded == ListSpec => []RepeatsBounded
<1>1. ListInv => RepeatsBounded
  BY DEF ListInv
<1> QED BY <1>1, ListInvariant, PTL
=============================================================================
