---------------------------- MODULE AccessProofs ----------------------------
(* Challenges, codes and consent, for every number of devices, requests in   *)
(* flight and sockets: what may be used once is used once however the        *)
(* statements of the requests interleave.                                    *)
EXTENDS AccessProps, TLAPS

USE DEF accountRows, appRows, sockets, storage, history

-----------------------------------------------------------------------------
(* The shape of the rows, and of the requests and sockets in flight. *)

Session == [id : 0 .. MaxTokens, device : Device]
AppSession == [id : 0 .. MaxTokens, scopes : SUBSET Scope]

Steps == {"none", "find", "consume", "insert", "mint", "mark", "purge", "close",
          "upsert", "update", "unset"}

SignIn == [op : {"create", "enroll", "login"}, step : Steps, device : Device,
           challenge : Challenge, found : BOOLEAN]
Revocation == [op : {"revoke"}, step : Steps, device : Device]
Authorisation == [op : {"authorize"}, step : Steps, scopes : SUBSET Scope]
Resolution == [op : {"approve", "deny"}, step : Steps, code : Code, scopes : SUBSET Scope]
Bare == [op : {"none", "revokeGrant"}, step : Steps]

Request == SignIn \cup Revocation \cup Authorisation \cup Resolution \cup Bare

SocketState ==
  [step : {"none", "verify", "info", "on", "refused", "closing"}, open : BOOLEAN,
   token : {[kind |-> "none"]} \cup [kind : {"user"}, of : Session]
                               \cup [kind : {"app"}, of : AppSession]]

Shape ==
  /\ device \in [Device -> {"none", "active", "revoked"}]
  /\ challenge \in [Challenge -> {"none", "login", "enroll", "spent"}]
  /\ code \in [Code -> [status : {"none", "pending", "approved", "denied", "expired", "consumed"},
                        asked : SUBSET Scope, scopes : SUBSET Scope]]
  /\ tokens \subseteq Session
  /\ appTokens \subseteq AppSession
  /\ grant \subseteq Scope \/ ~Granted
  /\ minted \in Nat /\ appMinted \in Nat
  /\ passed \in [Challenge -> Nat] /\ released \in [Code -> Nat]
  /\ consented \subseteq Scope
  /\ call \in [Slot -> Request]
  /\ socket \in [Socket -> SocketState] /\ registered \subseteq Socket

(* A request that goes on stays of its kind. *)
LEMMA GoesOn ==
  ASSUME call \in [Slot -> Request], NEW i \in Slot, NEW step \in Steps, Go(i, step)
  PROVE  /\ call' \in [Slot -> Request]
         /\ \A j \in Slot \ {i} : call'[j] = call[j]
         /\ call'[i].op = call[i].op
         /\ call[i].op = "authorize" => call'[i].scopes = call[i].scopes
<1>1. call' = [call EXCEPT ![i].step = step]
  BY DEF Go
<1>2. [call[i] EXCEPT !.step = step] \in Request
  <2>1. CASE call[i] \in SignIn
    BY <2>1 DEF SignIn, Request
  <2>2. CASE call[i] \in Revocation
    BY <2>2 DEF Revocation, Request
  <2>3. CASE call[i] \in Authorisation
    BY <2>3 DEF Authorisation, Request
  <2>4. CASE call[i] \in Resolution
    BY <2>4 DEF Resolution, Request
  <2>5. CASE call[i] \in Bare
    BY <2>5 DEF Bare, Request
  <2> QED BY <2>1, <2>2, <2>3, <2>4, <2>5 DEF Request
<1>3. /\ [call[i] EXCEPT !.step = step].op = call[i].op
      /\ call[i].op = "authorize" => [call[i] EXCEPT !.step = step].scopes = call[i].scopes
  <2>1. CASE call[i] \in SignIn
    BY <2>1 DEF SignIn
  <2>2. CASE call[i] \in Revocation
    BY <2>2 DEF Revocation
  <2>3. CASE call[i] \in Authorisation
    BY <2>3 DEF Authorisation
  <2>4. CASE call[i] \in Resolution
    BY <2>4 DEF Resolution
  <2>5. CASE call[i] \in Bare
    BY <2>5 DEF Bare
  <2> QED BY <2>1, <2>2, <2>3, <2>4, <2>5 DEF Request
<1> QED
  BY <1>1, <1>2, <1>3

LEMMA Ends ==
  ASSUME call \in [Slot -> Request], NEW i \in Slot, End(i)
  PROVE  /\ call' \in [Slot -> Request]
         /\ \A j \in Slot \ {i} : call'[j] = call[j]
         /\ call'[i] = Idle
<1>1. Idle \in Request
  BY DEF Idle, Request, Bare, Steps
<1> QED
  BY <1>1 DEF End

LEMMA Begins ==
  ASSUME call \in [Slot -> Request], NEW i \in Slot, NEW r \in Request, Begin(i, r)
  PROVE  /\ call' \in [Slot -> Request]
         /\ \A j \in Slot \ {i} : call'[j] = call[j]
         /\ call'[i] = r
BY DEF Begin

(* What a request's kind says of its fields. *)
LEMMA Kinds ==
  ASSUME NEW r \in Request
  PROVE  /\ r.op \in {"create", "enroll", "login"} => r \in SignIn
         /\ r.op = "revoke" => r \in Revocation
         /\ r.op = "authorize" => r \in Authorisation
         /\ r.op \in {"approve", "deny"} => r \in Resolution
BY DEF Request, SignIn, Revocation, Authorisation, Resolution, Bare

LEMMA ShapeInit == Init => Shape
<1> SUFFICES ASSUME Init PROVE Shape
  OBVIOUS
<1>1. load.devices \subseteq Device /\ load.scopes \subseteq Scope
  BY AccessAssumption DEF Init, AccessAssumption
<1>2. tokens \subseteq Session /\ appTokens \subseteq AppSession
  BY <1>1, AccessAssumption DEF Init, AccessAssumption, Session, AppSession
<1>3. call \in [Slot -> Request]
  BY DEF Init, Idle, Request, Bare, Steps
<1>4. socket \in [Socket -> SocketState] /\ registered \subseteq Socket
  BY DEF Init, SocketState
<1>5. grant \subseteq Scope \/ ~Granted
  BY <1>1 DEF Init, Granted
<1>6. /\ device \in [Device -> {"none", "active", "revoked"}]
      /\ challenge \in [Challenge -> {"none", "login", "enroll", "spent"}]
      /\ code \in [Code -> [status : {"none", "pending", "approved", "denied", "expired", "consumed"},
                            asked : SUBSET Scope, scopes : SUBSET Scope]]
      /\ minted \in Nat /\ appMinted \in Nat
      /\ passed \in [Challenge -> Nat] /\ released \in [Code -> Nat]
      /\ consented \subseteq Scope
  BY <1>1 DEF Init
<1> QED
  BY <1>2, <1>3, <1>4, <1>5, <1>6 DEF Shape

-----------------------------------------------------------------------------
(* Every request, one step at a time. *)

LEMMA AskShape ==
  ASSUME Shape, Ask
  PROVE  Shape'
<1>1. ASSUME NEW i \in Slot, NEW d \in Device, NEW c \in Challenge,
             NEW op \in {"create", "enroll", "login"}, AskIn(i, op, d, c)
      PROVE  Shape'
  <2>1. [op |-> op, step |-> IF op = "login" THEN "find" ELSE "consume",
         device |-> d, challenge |-> c, found |-> TRUE] \in Request
    BY DEF Request, SignIn, Steps
  <2> QED BY <1>1, <2>1, Begins DEF AskIn, Shape, Granted
<1>2. ASSUME NEW i \in Slot, NEW d \in Device, AskRevoke(i, d)
      PROVE  Shape'
  <2>1. [op |-> "revoke", step |-> "mark", device |-> d] \in Request
    BY DEF Request, Revocation, Steps
  <2> QED BY <1>2, <2>1, Begins DEF AskRevoke, Shape, Granted
<1>3. ASSUME NEW i \in Slot, NEW scopes \in SUBSET Scope, AskAuthorize(i, scopes)
      PROVE  Shape'
  <2>1. [op |-> "authorize", step |-> "upsert", scopes |-> scopes] \in Request
    BY DEF Request, Authorisation, Steps
  <2> QED BY <1>3, <2>1, Begins DEF AskAuthorize, Shape, Granted
<1>4. ASSUME NEW i \in Slot, NEW c \in Code, NEW scopes \in SUBSET Scope,
             NEW op \in {"approve", "deny"}, AskResolve(i, op, c, scopes)
      PROVE  Shape'
  <2>1. [op |-> op, step |-> "find", code |-> c, scopes |-> scopes] \in Request
    BY DEF Request, Resolution, Steps
  <2> QED BY <1>4, <2>1, Begins DEF AskResolve, Shape, Granted
<1>5. ASSUME NEW i \in Slot, AskRevokeGrant(i)
      PROVE  Shape'
  <2>1. [op |-> "revokeGrant", step |-> "purge"] \in Request
    BY DEF Request, Bare, Steps
  <2> QED BY <1>5, <2>1, Begins DEF AskRevokeGrant, Shape, Granted
<1> QED
  BY <1>1, <1>2, <1>3, <1>4, <1>5 DEF Ask

LEMMA WorksShape ==
  ASSUME Shape, NEW i \in Slot, Works(i)
  PROVE  Shape'
<1> USE DEF Shape, Granted, Is
<1>0. /\ call \in [Slot -> Request]
      /\ Steps = {"none", "find", "consume", "insert", "mint", "mark", "purge", "close",
                  "upsert", "update", "unset"}
  BY DEF Steps
<1>1. CASE Find(i)
  <2>1. call[i] \in SignIn
    BY <1>0, <1>1, Kinds DEF Find
  <2>2. call' \in [Slot -> Request]
    BY <1>0, <1>1, <2>1 DEF Find, SignIn, Request
  <2> QED BY <1>1, <2>2 DEF Find
<1>2. CASE Consume(i)
  <2>1. call[i] \in SignIn /\ call[i].challenge \in Challenge
    BY <1>0, <1>2, Kinds DEF Consume, SignIn
  <2>2. call' \in [Slot -> Request]
    BY <1>0, <1>2, GoesOn, Ends DEF Consume
  <2>3. challenge' \in [Challenge -> {"none", "login", "enroll", "spent"}]
    BY <1>2, <2>1 DEF Consume, Deleted
  <2>4. passed' \in [Challenge -> Nat]
    BY <1>2, <2>1 DEF Consume
  <2> QED BY <1>2, <2>2, <2>3, <2>4 DEF Consume
<1>3. CASE Insert(i)
  <2>1. call[i] \in SignIn /\ call[i].device \in Device
    BY <1>0, <1>3, Kinds DEF Insert, SignIn
  <2>2. call' \in [Slot -> Request]
    BY <1>0, <1>3, GoesOn, Ends DEF Insert
  <2>3. device' \in [Device -> {"none", "active", "revoked"}]
    BY <1>3, <2>1 DEF Insert
  <2> QED BY <1>3, <2>2, <2>3 DEF Insert
<1>4. CASE Mint(i)
  <2>1. call[i] \in SignIn /\ call[i].device \in Device
    BY <1>0, <1>4, Kinds DEF Mint, SignIn
  <2>2. call' \in [Slot -> Request]
    BY <1>0, <1>4, Ends DEF Mint
  <2>3. tokens' \subseteq Session /\ minted' \in Nat
    BY <1>4, <2>1, AccessAssumption DEF Mint, Session, AccessAssumption
  <2> QED BY <1>4, <2>2, <2>3 DEF Mint
<1>5. CASE Mark(i)
  <2>1. call[i] \in Revocation /\ call[i].device \in Device
    BY <1>0, <1>5, Kinds DEF Mark, Revocation
  <2>2. call' \in [Slot -> Request]
    BY <1>0, <1>5, GoesOn, Ends DEF Mark
  <2>3. device' \in [Device -> {"none", "active", "revoked"}]
    BY <1>5, <2>1 DEF Mark
  <2> QED BY <1>5, <2>2, <2>3 DEF Mark
<1>6. CASE Purge(i)
  <2>1. call' \in [Slot -> Request]
    BY <1>0, <1>6, GoesOn DEF Purge
  <2> QED BY <1>6, <2>1 DEF Purge
<1>7. CASE CloseAll(i)
  <2>1. call' \in [Slot -> Request]
    BY <1>0, <1>7, Ends DEF CloseAll
  <2>2. socket' \in [Socket -> SocketState]
    BY <1>7 DEF CloseAll, SocketState
  <2> QED BY <1>7, <2>1, <2>2 DEF CloseAll
<1>8. CASE Upsert(i)
  <2>1. call[i].scopes \subseteq Scope
    BY <1>0, <1>8, Kinds DEF Upsert, Authorisation
  <2>2. call' \in [Slot -> Request]
    BY <1>0, <1>8, GoesOn DEF Upsert
  <2> QED BY <1>8, <2>1, <2>2 DEF Upsert, WithScopes
<1>9. CASE MintApp(i)
  <2>1. call[i].scopes \in SUBSET Scope
    BY <1>0, <1>9, Kinds DEF MintApp, Authorisation
  <2>2. call' \in [Slot -> Request]
    BY <1>0, <1>9, Ends DEF MintApp
  <2>3. appTokens' \subseteq AppSession /\ appMinted' \in Nat
    BY <1>9, <2>1, AccessAssumption DEF MintApp, NewAppToken, AppSession, AccessAssumption
  <2> QED BY <1>9, <2>2, <2>3 DEF MintApp
<1>10. CASE Lookup(i)
  <2>1. call' \in [Slot -> Request]
    BY <1>0, <1>10, GoesOn, Ends DEF Lookup
  <2> QED BY <1>10, <2>1 DEF Lookup
<1>11. CASE Resolve(i)
  <2>1. call[i].scopes \in SUBSET Scope /\ call[i].code \in Code
    BY <1>0, <1>11, Kinds DEF Resolve, Resolution
  <2>2. call' \in [Slot -> Request]
    BY <1>0, <1>11, Ends DEF Resolve
  <2>3. code' \in [Code -> [status : {"none", "pending", "approved", "denied", "expired", "consumed"},
                            asked : SUBSET Scope, scopes : SUBSET Scope]]
    BY <1>11, <2>1 DEF Resolve
  <2>4. consented' \subseteq Scope
    BY <1>11, <2>1 DEF Resolve
  <2> QED BY <1>11, <2>2, <2>3, <2>4 DEF Resolve
<1>12. CASE PurgeApp(i)
  <2>1. call' \in [Slot -> Request]
    BY <1>0, <1>12, GoesOn DEF PurgeApp
  <2> QED BY <1>12, <2>1 DEF PurgeApp, NoSessions
<1>13. CASE Unset(i)
  <2>1. call' \in [Slot -> Request]
    BY <1>0, <1>13, GoesOn DEF Unset
  <2> QED BY <1>13, <2>1 DEF Unset
<1> QED
  BY <1>1, <1>2, <1>3, <1>4, <1>5, <1>6, <1>7, <1>8, <1>9, <1>10, <1>11, <1>12, <1>13 DEF Works

(* A session the server has given is one a socket may present. *)
LEMMA GivenShape ==
  ASSUME Shape, NEW k \in Given
  PROVE  k \in [kind : {"user"}, of : Session] \cup [kind : {"app"}, of : AppSession]
BY DEF Given, UserToken, AppToken, Shape

LEMMA SocketsShape ==
  ASSUME Shape, NEW s \in Socket,
         \/ Verified(s) \/ Registered(s) \/ Closed(s)
         \/ \E k \in Given : Hello(s, k) \/ HelloAgain(s, k)
  PROVE  Shape'
<1> USE DEF Shape, Granted
<1>1. CASE Verified(s)
  <2>1. socket' \in [Socket -> SocketState]
    BY <1>1 DEF Verified, SocketState
  <2> QED BY <1>1, <2>1 DEF Verified
<1>2. CASE Registered(s)
  <2>1. socket' \in [Socket -> SocketState]
    BY <1>2 DEF Registered, SocketState
  <2> QED BY <1>2, <2>1 DEF Registered
<1>3. CASE Closed(s)
  <2>1. socket' \in [Socket -> SocketState]
    BY <1>3 DEF Closed, SocketState
  <2> QED BY <1>3, <2>1 DEF Closed
<1>4. ASSUME NEW k \in Given, Hello(s, k) PROVE Shape'
  <2>1. socket' \in [Socket -> SocketState]
    BY <1>4, GivenShape DEF Hello, SocketState
  <2> QED BY <1>4, <2>1 DEF Hello
<1>5. ASSUME NEW k \in Given, HelloAgain(s, k) PROVE Shape'
  <2>1. socket' \in [Socket -> SocketState]
    BY <1>5 DEF HelloAgain, SocketState
  <2> QED BY <1>5, <2>1 DEF HelloAgain
<1> QED
  BY <1>1, <1>2, <1>3, <1>4, <1>5

LEMMA CodesShape ==
  ASSUME Shape, NEW c \in Code,
         Poll(c) \/ CodeExpires(c) \/ \E asked \in SUBSET Scope : AskCode(c, asked)
  PROVE  Shape'
<1> USE DEF Shape, Granted
<1>1. CASE Poll(c)
  <2>1. code[c].scopes \in SUBSET Scope
    OBVIOUS
  <2>2. appTokens' \subseteq AppSession /\ appMinted' \in Nat
    BY <1>1, <2>1, AccessAssumption
    DEF Poll, NewAppToken, Agreed, AppSession, AccessAssumption
  <2>3. grant' \subseteq Scope
    BY <1>1, <2>1 DEF Poll, WithScopes, Agreed
  <2> QED BY <1>1, <2>2, <2>3 DEF Poll
<1>2. CASE CodeExpires(c)
  BY <1>2 DEF CodeExpires
<1>3. ASSUME NEW asked \in SUBSET Scope, AskCode(c, asked) PROVE Shape'
  <2>1. code' = [code EXCEPT ![c].status = "pending", ![c].asked = asked]
    BY <1>3 DEF AskCode
  <2>2. code' \in [Code -> [status : {"none", "pending", "approved", "denied", "expired", "consumed"},
                            asked : SUBSET Scope, scopes : SUBSET Scope]]
    BY <2>1
  <2> QED BY <1>3, <2>2 DEF AskCode
<1> QED
  BY <1>1, <1>2, <1>3

LEMMA ShapeStep == Shape /\ [Next]_vars => Shape'
<1> SUFFICES ASSUME Shape, [Next]_vars PROVE Shape'
  OBVIOUS
<1>1. CASE \E c \in Challenge : Expire(c) \/ \E purpose \in {"login", "enroll"} : Issue(c, purpose)
  BY <1>1 DEF Shape, Granted, Expire, Issue
<1>2. CASE \E t \in appTokens : Logout(t)
  BY <1>2 DEF Shape, Granted, Logout
<1>3. CASE \E k \in Key : Delete(k) \/ \E r \in Reader : Get(r, k) \/ Put(r, k)
  BY <1>3 DEF Shape, Granted, Delete, Get, Put
<1>4. CASE UNCHANGED vars
  BY <1>4 DEF Shape, Granted, vars
<1> QED
  BY <1>1, <1>2, <1>3, <1>4, AskShape, WorksShape, SocketsShape, CodesShape DEF Next

-----------------------------------------------------------------------------
(* Once means once.  A challenge that let a request through is spent, and a  *)
(* code that gave a token is consumed, and neither status is ever left.       *)

OnceInv ==
  /\ \A c \in Challenge : passed[c] <= 1 /\ (passed[c] # 0 => challenge[c] = "spent")
  /\ \A c \in Code : released[c] <= 1 /\ (released[c] # 0 => code[c].status = "consumed")

LEMMA OnceInit == Init => OnceInv
BY DEF Init, OnceInv

LEMMA OnceStep == Shape /\ OnceInv /\ [Next]_vars => OnceInv'
<1> SUFFICES ASSUME Shape, OnceInv, [Next]_vars PROVE OnceInv'
  OBVIOUS
<1>0. /\ challenge \in [Challenge -> {"none", "login", "enroll", "spent"}]
      /\ code \in [Code -> [status : {"none", "pending", "approved", "denied", "expired", "consumed"},
                            asked : SUBSET Scope, scopes : SUBSET Scope]]
      /\ passed \in [Challenge -> Nat] /\ released \in [Code -> Nat]
      /\ call \in [Slot -> Request]
  BY DEF Shape
<1>1. CASE UNCHANGED <<challenge, code, passed, released>>
  BY <1>1 DEF OnceInv
<1>2. CASE Ask
  BY <1>1, <1>2 DEF Ask, AskIn, AskRevoke, AskAuthorize, AskResolve, AskRevokeGrant
<1>3. ASSUME NEW i \in Slot, Works(i) PROVE OnceInv'
  <2>1. CASE Consume(i)
    <3>1. call[i].challenge \in Challenge
      BY <1>0, <2>1, Kinds DEF Consume, SignIn
    <3> QED BY <1>0, <2>1, <3>1 DEF Consume, Deleted, Purpose, OnceInv
  <2>2. CASE Resolve(i)
    <3>1. call[i].code \in Code
      BY <1>0, <2>2, Kinds DEF Resolve, Resolution
    <3> QED BY <1>0, <2>2, <3>1 DEF Resolve, StillPending, OnceInv
  <2>3. CASE ~Consume(i) /\ ~Resolve(i)
    BY <1>1, <1>3, <2>3 DEF Works, Find, Insert, Mint, Mark, Purge, CloseAll, Upsert, MintApp,
                            Lookup, PurgeApp, Unset
  <2> QED BY <2>1, <2>2, <2>3
<1>4. CASE \E c \in Challenge : Expire(c) \/ \E purpose \in {"login", "enroll"} : Issue(c, purpose)
  BY <1>0, <1>4 DEF Expire, Issue, OnceInv
<1>5. CASE \E s \in Socket : \/ Verified(s) \/ Registered(s) \/ Closed(s)
                            \/ \E k \in Given : Hello(s, k) \/ HelloAgain(s, k)
  BY <1>1, <1>5 DEF Verified, Registered, Closed, Hello, HelloAgain
<1>6. CASE \E c \in Code : Poll(c) \/ CodeExpires(c) \/ \E asked \in SUBSET Scope : AskCode(c, asked)
  BY <1>0, <1>6 DEF Poll, Ready, CodeExpires, AskCode, OnceInv
<1>7. CASE \E t \in appTokens : Logout(t)
  BY <1>1, <1>7 DEF Logout
<1>8. CASE \E k \in Key : Delete(k) \/ \E r \in Reader : Get(r, k) \/ Put(r, k)
  BY <1>1, <1>8 DEF Delete, Get, Put
<1>9. CASE UNCHANGED vars
  BY <1>1, <1>9 DEF vars
<1> QED
  BY <1>2, <1>3, <1>4, <1>5, <1>6, <1>7, <1>8, <1>9 DEF Next

-----------------------------------------------------------------------------
(* Consent.  What a request or a code is about to give was agreed to when it *)
(* was asked for or approved.                                                 *)

ConsentInv ==
  /\ \A t \in appTokens : t.scopes \subseteq consented
  /\ \A c \in Code : code[c].status = "approved" => code[c].scopes \subseteq consented
  /\ \A i \in Slot : call[i].op = "authorize" => call[i].scopes \subseteq consented

LEMMA ConsentInit == Init => ConsentInv
BY DEF Init, ConsentInv, Idle

LEMMA ConsentStep == Shape /\ ConsentInv /\ [Next]_vars => ConsentInv'
<1> SUFFICES ASSUME Shape, ConsentInv, [Next]_vars PROVE ConsentInv'
  OBVIOUS
<1>0. /\ code \in [Code -> [status : {"none", "pending", "approved", "denied", "expired", "consumed"},
                            asked : SUBSET Scope, scopes : SUBSET Scope]]
      /\ call \in [Slot -> Request]
  BY DEF Shape
<1>1. CASE UNCHANGED <<appTokens, code, consented, call>>
  BY <1>1 DEF ConsentInv
<1>2. ASSUME NEW i \in Slot,
             UNCHANGED <<appTokens, code, consented>>,
             \A j \in Slot \ {i} : call'[j] = call[j],
             call'[i].op = "authorize" =>
               call[i].op = "authorize" /\ call'[i].scopes = call[i].scopes
      PROVE  ConsentInv'
  BY <1>2 DEF ConsentInv
<1>3. CASE Ask
  <2>1. ASSUME NEW i \in Slot, NEW r \in Request, Begin(i, r), r.op # "authorize",
               UNCHANGED <<appTokens, code, consented>>
        PROVE  ConsentInv'
    BY <1>0, <1>2, <2>1, Begins
  <2>2. ASSUME NEW i \in Slot, NEW d \in Device, NEW c \in Challenge,
               NEW op \in {"create", "enroll", "login"}, AskIn(i, op, d, c)
        PROVE  ConsentInv'
    <3>1. [op |-> op, step |-> IF op = "login" THEN "find" ELSE "consume",
           device |-> d, challenge |-> c, found |-> TRUE] \in Request
      BY DEF Request, SignIn, Steps
    <3> QED BY <2>1, <2>2, <3>1 DEF AskIn
  <2>3. ASSUME NEW i \in Slot, NEW d \in Device, AskRevoke(i, d)
        PROVE  ConsentInv'
    <3>1. [op |-> "revoke", step |-> "mark", device |-> d] \in Request
      BY DEF Request, Revocation, Steps
    <3> QED BY <2>1, <2>3, <3>1 DEF AskRevoke
  <2>4. ASSUME NEW i \in Slot, NEW scopes \in SUBSET Scope, AskAuthorize(i, scopes)
        PROVE  ConsentInv'
    <3>1. [op |-> "authorize", step |-> "upsert", scopes |-> scopes] \in Request
      BY DEF Request, Authorisation, Steps
    <3>2. /\ \A j \in Slot \ {i} : call'[j] = call[j]
          /\ call'[i].scopes = scopes
          /\ consented' = consented \cup scopes /\ UNCHANGED <<appTokens, code>>
      BY <1>0, <2>4, <3>1, Begins DEF AskAuthorize
    <3> QED BY <3>2 DEF ConsentInv
  <2>5. ASSUME NEW i \in Slot, NEW c \in Code, NEW scopes \in SUBSET Scope,
               NEW op \in {"approve", "deny"}, AskResolve(i, op, c, scopes)
        PROVE  ConsentInv'
    <3>1. [op |-> op, step |-> "find", code |-> c, scopes |-> scopes] \in Request
      BY DEF Request, Resolution, Steps
    <3> QED BY <2>1, <2>5, <3>1 DEF AskResolve
  <2>6. ASSUME NEW i \in Slot, AskRevokeGrant(i)
        PROVE  ConsentInv'
    <3>1. [op |-> "revokeGrant", step |-> "purge"] \in Request
      BY DEF Request, Bare, Steps
    <3> QED BY <2>1, <2>6, <3>1 DEF AskRevokeGrant
  <2> QED BY <1>3, <2>2, <2>3, <2>4, <2>5, <2>6 DEF Ask
<1>4. ASSUME NEW i \in Slot, Works(i) PROVE ConsentInv'
  <2>1. ASSUME NEW step \in Steps, Go(i, step), UNCHANGED <<appTokens, code, consented>>
        PROVE  ConsentInv'
    BY <1>0, <1>2, <2>1, GoesOn
  <2>2. ASSUME End(i), UNCHANGED <<appTokens, code, consented>>
        PROVE  ConsentInv'
    BY <1>0, <1>2, <2>2, Ends DEF Idle
  <2>3. Steps = {"none", "find", "consume", "insert", "mint", "mark", "purge", "close",
                 "upsert", "update", "unset"}
    BY DEF Steps
  <2>4. CASE Find(i)
    <3>1. call[i] \in SignIn
      BY <1>0, <2>4, Kinds DEF Find, Is
    <3>2. /\ \A j \in Slot \ {i} : call'[j] = call[j]
          /\ call'[i].op = call[i].op /\ call[i].op = "login"
      BY <1>0, <2>4, <3>1 DEF Find, Is, SignIn
    <3> QED BY <1>2, <2>4, <3>2 DEF Find
  <2>5. CASE Consume(i) \/ Insert(i) \/ Mint(i) \/ Mark(i)
    BY <2>1, <2>2, <2>3, <2>5 DEF Consume, Insert, Mint, Mark
  <2>6. CASE Purge(i) \/ CloseAll(i) \/ Upsert(i) \/ Lookup(i) \/ Unset(i)
    BY <2>1, <2>2, <2>3, <2>6 DEF Purge, CloseAll, Upsert, Lookup, Unset
  <2>7. CASE MintApp(i)
    <3>1. /\ call' \in [Slot -> Request] /\ call'[i] = Idle
          /\ \A j \in Slot \ {i} : call'[j] = call[j]
      BY <1>0, <2>7, Ends DEF MintApp
    <3>2. call[i].scopes \subseteq consented
      BY <2>7 DEF MintApp, Is, ConsentInv
    <3>3. \A t \in appTokens' : t.scopes \subseteq consented
      BY <2>7, <3>2 DEF MintApp, NewAppToken, ConsentInv
    <3> QED BY <2>7, <3>1, <3>3 DEF MintApp, ConsentInv, Idle
  <2>8. CASE Resolve(i)
    <3>1. /\ \A j \in Slot \ {i} : call'[j] = call[j]
          /\ call'[i] = Idle
      BY <1>0, <2>8, Ends DEF Resolve
    <3>2. call[i].code \in Code /\ UNCHANGED appTokens /\ consented \subseteq consented'
      BY <1>0, <2>8, Kinds DEF Resolve, Resolution
    <3>3. \A c \in Code : code'[c].status = "approved" => code'[c].scopes \subseteq consented'
      BY <1>0, <2>8, <3>2 DEF Resolve, ConsentInv
    <3> QED BY <3>1, <3>2, <3>3 DEF ConsentInv, Idle
  <2>9. CASE PurgeApp(i)
    <3>1. call'[i].op = "revokeGrant" /\ \A j \in Slot \ {i} : call'[j] = call[j]
      BY <1>0, <2>3, <2>9, GoesOn DEF PurgeApp, Is
    <3> QED BY <2>9, <3>1 DEF PurgeApp, NoSessions, ConsentInv
  <2> QED BY <1>4, <2>4, <2>5, <2>6, <2>7, <2>8, <2>9 DEF Works
<1>5. CASE \E c \in Challenge : Expire(c) \/ \E purpose \in {"login", "enroll"} : Issue(c, purpose)
  BY <1>1, <1>5 DEF Expire, Issue
<1>6. CASE \E s \in Socket : \/ Verified(s) \/ Registered(s) \/ Closed(s)
                            \/ \E k \in Given : Hello(s, k) \/ HelloAgain(s, k)
  BY <1>1, <1>6 DEF Verified, Registered, Closed, Hello, HelloAgain
<1>7. ASSUME NEW c \in Code, Poll(c) PROVE ConsentInv'
  <2>1. code[c].scopes \subseteq consented
    BY <1>7 DEF Poll, Ready, ConsentInv
  <2>2. \A t \in appTokens' : t.scopes \subseteq consented
    BY <1>7, <2>1 DEF Poll, NewAppToken, Agreed, ConsentInv
  <2>3. \A x \in Code : code'[x].status = "approved" => code'[x] = code[x]
    BY <1>0, <1>7 DEF Poll
  <2> QED BY <1>7, <2>2, <2>3 DEF Poll, ConsentInv
<1>8. ASSUME NEW c \in Code, CodeExpires(c) \/ \E asked \in SUBSET Scope : AskCode(c, asked)
      PROVE  ConsentInv'
  <2>1. \A x \in Code : code'[x].status = "approved" => code'[x] = code[x]
    BY <1>0, <1>8 DEF CodeExpires, AskCode
  <2> QED BY <1>8, <2>1 DEF CodeExpires, AskCode, ConsentInv
<1>9. CASE \E t \in appTokens : Logout(t)
  BY <1>9 DEF Logout, ConsentInv
<1>10. CASE \E k \in Key : Delete(k) \/ \E r \in Reader : Get(r, k) \/ Put(r, k)
  BY <1>1, <1>10 DEF Delete, Get, Put
<1>11. CASE UNCHANGED vars
  BY <1>1, <1>11 DEF vars
<1> QED
  BY <1>3, <1>4, <1>5, <1>6, <1>7, <1>8, <1>9, <1>10, <1>11 DEF Next

-----------------------------------------------------------------------------
(* A socket that is connected is in the registry until it closes, so what is *)
(* told to close can be told.                                                 *)

SocketInv ==
  \A s \in Socket :
    /\ socket[s].step = "closing" => socket[s].open
    /\ socket[s].step \in {"on", "closing"} /\ socket[s].open => s \in registered

LEMMA SocketInit == Init => SocketInv
BY DEF Init, SocketInv

LEMMA SocketStep == Shape /\ SocketInv /\ [Next]_vars => SocketInv'
<1> SUFFICES ASSUME Shape, SocketInv, [Next]_vars PROVE SocketInv'
  OBVIOUS
<1>0. socket \in [Socket -> SocketState] /\ registered \subseteq Socket
  BY DEF Shape
<1>1. CASE UNCHANGED <<socket, registered>>
  BY <1>1 DEF SocketInv
<1>2. CASE Ask
  BY <1>1, <1>2 DEF Ask, AskIn, AskRevoke, AskAuthorize, AskResolve, AskRevokeGrant
<1>3. ASSUME NEW i \in Slot, Works(i) PROVE SocketInv'
  <2>1. CASE CloseAll(i)
    <3> SUFFICES ASSUME NEW s \in Socket
                 PROVE  /\ socket'[s].step = "closing" => socket'[s].open
                        /\ socket'[s].step \in {"on", "closing"} /\ socket'[s].open => s \in registered'
      BY DEF SocketInv
    <3>1. CASE s \in ToClose(i) /\ socket[s].open
      <4>1. s \in registered
        BY <3>1 DEF ToClose
      <4>2. socket'[s] = [socket[s] EXCEPT !.step = "closing"] /\ registered' = registered
        BY <2>1, <3>1 DEF CloseAll
      <4>3. socket'[s].open = socket[s].open
        BY <1>0, <4>2 DEF SocketState
      <4> QED BY <3>1, <4>1, <4>2, <4>3
    <3>2. CASE ~(s \in ToClose(i) /\ socket[s].open)
      BY <2>1, <3>2 DEF CloseAll, SocketInv
    <3> QED BY <3>1, <3>2
  <2>2. CASE ~CloseAll(i)
    BY <1>1, <1>3, <2>2 DEF Works, Find, Consume, Insert, Mint, Mark, Purge, Upsert, MintApp,
                            Lookup, Resolve, PurgeApp, Unset
  <2> QED BY <2>1, <2>2
<1>4. CASE \E c \in Challenge : Expire(c) \/ \E purpose \in {"login", "enroll"} : Issue(c, purpose)
  BY <1>1, <1>4 DEF Expire, Issue
<1>5. ASSUME NEW s \in Socket,
             \/ Verified(s) \/ Registered(s) \/ Closed(s)
             \/ \E k \in Given : Hello(s, k) \/ HelloAgain(s, k)
      PROVE  SocketInv'
  <2>1. CASE Verified(s)
    BY <1>0, <2>1 DEF Verified, SocketInv
  <2>2. CASE Registered(s)
    BY <1>0, <2>2 DEF Registered, SocketInv, SocketState
  <2>3. CASE Closed(s)
    BY <1>0, <2>3 DEF Closed, SocketInv
  <2>4. CASE \E k \in Given : Hello(s, k)
    BY <1>0, <2>4 DEF Hello, SocketInv
  <2>5. CASE \E k \in Given : HelloAgain(s, k)
    BY <1>0, <2>5 DEF HelloAgain, SocketInv, SocketState
  <2> QED BY <1>5, <2>1, <2>2, <2>3, <2>4, <2>5
<1>6. CASE \E c \in Code : Poll(c) \/ CodeExpires(c) \/ \E asked \in SUBSET Scope : AskCode(c, asked)
  BY <1>1, <1>6 DEF Poll, CodeExpires, AskCode
<1>7. CASE \E t \in appTokens : Logout(t)
  BY <1>1, <1>7 DEF Logout
<1>8. CASE \E k \in Key : Delete(k) \/ \E r \in Reader : Get(r, k) \/ Put(r, k)
  BY <1>1, <1>8 DEF Delete, Get, Put
<1>9. CASE UNCHANGED vars
  BY <1>1, <1>9 DEF vars
<1> QED
  BY <1>2, <1>3, <1>4, <1>5, <1>6, <1>7, <1>8, <1>9 DEF Next

-----------------------------------------------------------------------------
(* Whoever is owed a session names a device with a row: a login because it   *)
(* found the device, a creation and an enrolment because they inserted it.   *)
(* Rows of devices are never deleted.                                         *)

Owed(r) ==
  \/ r.op \in {"create", "enroll", "login"} /\ r.step = "mint"
  \/ r.op = "login" /\ r.step = "consume" /\ r.found

DeviceInv ==
  /\ \A t \in tokens : device[t.device] # "none"
  /\ \A i \in Slot : Owed(call[i]) => device[call[i].device] # "none"

LEMMA DeviceInit == Init => DeviceInv
<1> SUFFICES ASSUME Init PROVE DeviceInv
  OBVIOUS
<1>1. load.devices \subseteq Device
  BY AccessAssumption DEF Init, AccessAssumption
<1>2. \A t \in tokens : device[t.device] # "none"
  BY <1>1 DEF Init
<1>3. \A i \in Slot : ~Owed(call[i])
  BY DEF Init, Idle, Owed
<1> QED
  BY <1>2, <1>3 DEF DeviceInv

LEMMA DeviceStep == Shape /\ DeviceInv /\ [Next]_vars => DeviceInv'
<1> SUFFICES ASSUME Shape, DeviceInv, [Next]_vars PROVE DeviceInv'
  OBVIOUS
<1>0. /\ device \in [Device -> {"none", "active", "revoked"}] /\ tokens \subseteq Session
      /\ call \in [Slot -> Request]
  BY DEF Shape
<1>1. CASE UNCHANGED <<device, tokens, call>>
  BY <1>1 DEF DeviceInv, Owed
<1>2. ASSUME NEW i \in Slot,
             \A d \in Device : device[d] # "none" => device'[d] # "none",
             \A t \in tokens' : t \in Session /\ (t \in tokens \/ device'[t.device] # "none"),
             \A j \in Slot \ {i} : call'[j] = call[j],
             Owed(call'[i]) => device'[call'[i].device] # "none"
      PROVE  DeviceInv'
  <2>1. \A t \in tokens' : device'[t.device] # "none"
    BY <1>2 DEF DeviceInv, Session
  <2>2. \A j \in Slot : Owed(call[j]) => call[j].device \in Device
    BY <1>0, Kinds DEF Owed, SignIn
  <2>3. \A j \in Slot \ {i} : Owed(call'[j]) => device'[call'[j].device] # "none"
    <3> SUFFICES ASSUME NEW j \in Slot \ {i}, Owed(call'[j])
                 PROVE  device'[call'[j].device] # "none"
      OBVIOUS
    <3>1. call'[j] = call[j]
      BY <1>2
    <3>2. Owed(call[j])
      BY <3>1 DEF Owed
    <3> QED BY <1>2, <2>2, <3>1, <3>2 DEF DeviceInv
  <2> QED BY <1>2, <2>1, <2>3 DEF DeviceInv
<1>3. CASE Ask
  <2>1. ASSUME NEW i \in Slot, NEW r \in Request, Begin(i, r), ~Owed(r),
               UNCHANGED <<device, tokens>>
        PROVE  DeviceInv'
    BY <1>0, <1>2, <2>1, Begins
  <2>2. ASSUME NEW i \in Slot, NEW d \in Device, NEW c \in Challenge,
               NEW op \in {"create", "enroll", "login"}, AskIn(i, op, d, c)
        PROVE  DeviceInv'
    <3>1. [op |-> op, step |-> IF op = "login" THEN "find" ELSE "consume",
           device |-> d, challenge |-> c, found |-> TRUE] \in Request
      BY DEF Request, SignIn, Steps
    <3>2. ~Owed([op |-> op, step |-> IF op = "login" THEN "find" ELSE "consume",
                 device |-> d, challenge |-> c, found |-> TRUE])
      BY DEF Owed
    <3> QED BY <2>1, <2>2, <3>1, <3>2 DEF AskIn
  <2>3. ASSUME NEW i \in Slot, NEW d \in Device, AskRevoke(i, d)
        PROVE  DeviceInv'
    <3>1. [op |-> "revoke", step |-> "mark", device |-> d] \in Request
      BY DEF Request, Revocation, Steps
    <3> QED BY <2>1, <2>3, <3>1 DEF AskRevoke, Owed
  <2>4. ASSUME NEW i \in Slot, NEW scopes \in SUBSET Scope, AskAuthorize(i, scopes)
        PROVE  DeviceInv'
    <3>1. [op |-> "authorize", step |-> "upsert", scopes |-> scopes] \in Request
      BY DEF Request, Authorisation, Steps
    <3> QED BY <2>1, <2>4, <3>1 DEF AskAuthorize, Owed
  <2>5. ASSUME NEW i \in Slot, NEW c \in Code, NEW scopes \in SUBSET Scope,
               NEW op \in {"approve", "deny"}, AskResolve(i, op, c, scopes)
        PROVE  DeviceInv'
    <3>1. [op |-> op, step |-> "find", code |-> c, scopes |-> scopes] \in Request
      BY DEF Request, Resolution, Steps
    <3> QED BY <2>1, <2>5, <3>1 DEF AskResolve, Owed
  <2>6. ASSUME NEW i \in Slot, AskRevokeGrant(i)
        PROVE  DeviceInv'
    <3>1. [op |-> "revokeGrant", step |-> "purge"] \in Request
      BY DEF Request, Bare, Steps
    <3> QED BY <2>1, <2>6, <3>1 DEF AskRevokeGrant, Owed
  <2> QED BY <1>3, <2>2, <2>3, <2>4, <2>5, <2>6 DEF Ask
<1>4. ASSUME NEW i \in Slot, Works(i) PROVE DeviceInv'
  <2>0. Steps = {"none", "find", "consume", "insert", "mint", "mark", "purge", "close",
                 "upsert", "update", "unset"}
    BY DEF Steps
  <2>1. ASSUME End(i), UNCHANGED <<device, tokens>> PROVE DeviceInv'
    <3>1. call'[i] = Idle /\ \A j \in Slot \ {i} : call'[j] = call[j]
      BY <1>0, <2>1, Ends
    <3> QED BY <1>0, <1>2, <2>1, <3>1 DEF Owed, Idle
  <2>2. ASSUME NEW step \in Steps, Go(i, step), call[i].op \notin {"create", "enroll", "login"},
               device' = device, tokens' \subseteq tokens
        PROVE  DeviceInv'
    <3>1. call'[i].op = call[i].op /\ \A j \in Slot \ {i} : call'[j] = call[j]
      BY <1>0, <2>2, GoesOn
    <3> QED BY <1>0, <1>2, <2>2, <3>1 DEF Owed
  <2>3. CASE Find(i)
    <3>1. call[i] \in SignIn
      BY <1>0, <2>3, Kinds DEF Find, Is
    <3>2. /\ \A j \in Slot \ {i} : call'[j] = call[j]
          /\ call'[i].device = call[i].device
          /\ call'[i].step = "consume"
          /\ call'[i].found <=> device[call[i].device] = "active"
          /\ UNCHANGED <<device, tokens>>
      BY <1>0, <2>3, <3>1 DEF Find, SignIn
    <3> QED BY <1>0, <1>2, <3>2 DEF Owed
  <2>4. CASE Consume(i)
    <3>1. call[i] \in SignIn
      BY <1>0, <2>4, Kinds DEF Consume
    <3>2. UNCHANGED <<device, tokens>>
      BY <2>4 DEF Consume
    <3>3. CASE End(i)
      BY <2>1, <3>2, <3>3
    <3>4. CASE Go(i, "mint") /\ call[i].op = "login" /\ call[i].found
      <4>1. /\ \A j \in Slot \ {i} : call'[j] = call[j]
            /\ call'[i].device = call[i].device
        BY <1>0, <3>1, <3>4 DEF Go, SignIn
      <4>2. device[call[i].device] # "none"
        BY <2>4, <3>4 DEF Consume, DeviceInv, Owed
      <4> QED BY <1>0, <1>2, <3>2, <4>1, <4>2
    <3>5. CASE Go(i, "insert")
      <4>1. /\ \A j \in Slot \ {i} : call'[j] = call[j]
            /\ call'[i].step = "insert"
        BY <1>0, <3>1, <3>5 DEF Go, SignIn
      <4> QED BY <1>0, <1>2, <3>2, <4>1 DEF Owed
    <3> QED BY <2>4, <3>3, <3>4, <3>5 DEF Consume
  <2>5. CASE Insert(i)
    <3>1. call[i] \in SignIn /\ call[i].device \in Device
      BY <1>0, <2>5, Kinds DEF Insert, SignIn
    <3>2. CASE End(i) /\ UNCHANGED device
      BY <2>1, <2>5, <3>2 DEF Insert
    <3>3. CASE device' = [device EXCEPT ![call[i].device] = "active"] /\ Go(i, "mint")
      <4>1. /\ \A j \in Slot \ {i} : call'[j] = call[j]
            /\ call'[i].device = call[i].device
        BY <1>0, <3>1, <3>3 DEF Go, SignIn
      <4>2. /\ \A d \in Device : device[d] # "none" => device'[d] # "none"
            /\ device'[call[i].device] # "none"
        BY <1>0, <3>1, <3>3
      <4> QED BY <1>0, <1>2, <2>5, <4>1, <4>2 DEF Insert
    <3> QED BY <2>5, <3>2, <3>3 DEF Insert
  <2>6. CASE Mint(i)
    <3>1. call[i] \in SignIn /\ call[i].device \in Device
      BY <1>0, <2>6, Kinds DEF Mint, SignIn
    <3>2. device[call[i].device] # "none"
      BY <2>6 DEF Mint, DeviceInv, Owed
    <3>3. \A t \in tokens' : t \in tokens \/ t.device = call[i].device
      BY <2>6 DEF Mint
    <3>4. tokens' \subseteq Session
      BY <2>6, WorksShape DEF Works, Shape
    <3>5. call'[i] = Idle /\ \A j \in Slot \ {i} : call'[j] = call[j]
      BY <1>0, <2>6, Ends DEF Mint
    <3> QED BY <1>0, <1>2, <2>6, <3>2, <3>3, <3>4, <3>5 DEF Mint, Owed, Idle
  <2>7. CASE Mark(i)
    <3>1. \A d \in Device : device[d] # "none" => device'[d] # "none"
      BY <1>0, <2>7 DEF Mark
    <3>2. call'[i].op \in {"revoke", "none"} /\ \A j \in Slot \ {i} : call'[j] = call[j]
      BY <1>0, <2>0, <2>7, GoesOn, Ends DEF Mark, Is, Idle
    <3> QED BY <1>0, <1>2, <2>7, <3>1, <3>2 DEF Mark, Owed
  <2>8. CASE Purge(i) \/ Upsert(i) \/ PurgeApp(i) \/ Unset(i)
    BY <2>0, <2>2, <2>8 DEF Purge, Upsert, PurgeApp, Unset, Is
  <2>9. CASE CloseAll(i) \/ MintApp(i) \/ Resolve(i)
    BY <2>1, <2>9 DEF CloseAll, MintApp, Resolve
  <2>10. CASE Lookup(i)
    BY <2>0, <2>1, <2>2, <2>10 DEF Lookup
  <2> QED BY <1>4, <2>3, <2>4, <2>5, <2>6, <2>7, <2>8, <2>9, <2>10 DEF Works
<1>5. CASE \E c \in Challenge : Expire(c) \/ \E purpose \in {"login", "enroll"} : Issue(c, purpose)
  BY <1>1, <1>5 DEF Expire, Issue
<1>6. CASE \E s \in Socket : \/ Verified(s) \/ Registered(s) \/ Closed(s)
                            \/ \E k \in Given : Hello(s, k) \/ HelloAgain(s, k)
  BY <1>1, <1>6 DEF Verified, Registered, Closed, Hello, HelloAgain
<1>7. CASE \E c \in Code : Poll(c) \/ CodeExpires(c) \/ \E asked \in SUBSET Scope : AskCode(c, asked)
  BY <1>1, <1>7 DEF Poll, CodeExpires, AskCode
<1>8. CASE \E t \in appTokens : Logout(t)
  BY <1>1, <1>8 DEF Logout
<1>9. CASE \E k \in Key : Delete(k) \/ \E r \in Reader : Get(r, k) \/ Put(r, k)
  BY <1>1, <1>9 DEF Delete, Get, Put
<1>10. CASE UNCHANGED vars
  BY <1>1, <1>10 DEF vars
<1> QED
  BY <1>3, <1>4, <1>5, <1>6, <1>7, <1>8, <1>9, <1>10 DEF Next

-----------------------------------------------------------------------------
IInv == Shape /\ OnceInv /\ ConsentInv /\ SocketInv /\ DeviceInv

LEMMA Inductive == Spec => []IInv
<1>1. Init => IInv
  BY ShapeInit, OnceInit, ConsentInit, SocketInit, DeviceInit DEF IInv
<1>2. IInv /\ [Next]_vars => IInv'
  BY ShapeStep, OnceStep, ConsentStep, SocketStep, DeviceStep DEF IInv
<1> QED
  BY <1>1, <1>2, PTL DEF Spec

(* Whatever the number of requests in flight and the order of their          *)
(* statements: a challenge lets one request through and a code gives one     *)
(* token, a session of the app has only scopes the user agreed to, a session *)
(* names a device with a row, and who is told to close is in the registry    *)
(* (auth/service.ts, apps/sessions.ts, apps/grant-codes.ts, ws/registry.ts). *)
THEOREM AccessHolds == Spec => []AccessInvariant
<1>1. IInv => AccessTypeOK
  BY DEF IInv, Shape, Session, AppSession, SocketInv, DeviceInv, AccessTypeOK
<1>2. IInv => ChallengeOnce /\ CodeOnce
  BY DEF IInv, OnceInv, ChallengeOnce, CodeOnce
<1>3. IInv => ScopesConsented
  BY DEF IInv, ConsentInv, ScopesConsented
<1>4. IInv => AccessInvariant
  BY <1>1, <1>2, <1>3 DEF AccessInvariant
<1> QED
  BY <1>4, Inductive, PTL

-----------------------------------------------------------------------------
(* What kind of load it is never changes: only the requests left do. *)

LoadInv == load \in [ops : SUBSET STRING, asks : Nat, calm : BOOLEAN,
                     devices : SUBSET Device, scopes : SUBSET Scope]

LEMMA LoadInit == Init => LoadInv
BY AccessAssumption DEF Init, AccessAssumption, LoadInv

LEMMA LoadStep ==
  ASSUME LoadInv, [Next]_vars
  PROVE  LoadInv' /\ load'.ops = load.ops /\ load'.calm = load.calm
<1>1. CASE load' = load
  BY <1>1 DEF LoadInv
<1>2. CASE load' = [load EXCEPT !.asks = @ - 1] /\ load.asks > 0
  BY <1>2 DEF LoadInv
<1>3. CASE Ask
  BY <1>2, <1>3 DEF Ask, AskIn, AskRevoke, AskAuthorize, AskResolve, AskRevokeGrant, Begin
<1>4. CASE \E i \in Slot : Works(i)
  BY <1>1, <1>4 DEF Works, Find, Consume, Insert, Mint, Mark, Purge, CloseAll, Upsert, MintApp,
                    Lookup, Resolve, PurgeApp, Unset
<1>5. CASE \E c \in Challenge : Expire(c) \/ \E purpose \in {"login", "enroll"} : Issue(c, purpose)
  BY <1>1, <1>5 DEF Expire, Issue
<1>6. CASE \E s \in Socket : \/ Verified(s) \/ Registered(s) \/ Closed(s)
                            \/ \E k \in Given : Hello(s, k) \/ HelloAgain(s, k)
  BY <1>1, <1>6 DEF Verified, Registered, Closed, Hello, HelloAgain
<1>7. CASE \E c \in Code : Poll(c) \/ CodeExpires(c) \/ \E asked \in SUBSET Scope : AskCode(c, asked)
  BY <1>1, <1>7 DEF Poll, CodeExpires, AskCode
<1>8. CASE \E t \in appTokens : Logout(t)
  BY <1>1, <1>8 DEF Logout
<1>9. CASE \E k \in Key : Delete(k) \/ \E r \in Reader : Get(r, k) \/ Put(r, k)
  BY <1>1, <1>9 DEF Delete, Get, Put
<1>10. CASE UNCHANGED vars
  BY <1>1, <1>10 DEF vars
<1> QED
  BY <1>3, <1>4, <1>5, <1>6, <1>7, <1>8, <1>9, <1>10 DEF Next

-----------------------------------------------------------------------------
(* The storage.  A reader that knows the version of a value knows the value, *)
(* as long as no key is deleted and begins again at version 1.                *)

Value == [version : Nat, value : Nat]

StoreInv ==
  /\ store \in [Key -> Value] /\ read \in [Reader -> [Key -> Value]] /\ written \in Nat
  /\ "delete" \notin load.ops =>
       \A r \in Reader, k \in Key :
         /\ read[r][k].version <= store[k].version
         /\ read[r][k].version = store[k].version => read[r][k] = store[k]

LEMMA StoreInit == Init => StoreInv
BY DEF Init, StoreInv, Value

LEMMA StoreStep == LoadInv /\ StoreInv /\ [Next]_vars => StoreInv'
<1> SUFFICES ASSUME LoadInv, StoreInv, [Next]_vars PROVE StoreInv'
  OBVIOUS
<1>0. load'.ops = load.ops
  BY LoadStep
<1>1. CASE UNCHANGED <<store, read, written>>
  BY <1>0, <1>1 DEF StoreInv
<1>2. ASSUME NEW k \in Key, Delete(k) PROVE StoreInv'
  <2>1. "delete" \in load.ops /\ store' \in [Key -> Value] /\ UNCHANGED <<read, written>>
    BY <1>2 DEF Delete, StoreInv, Value
  <2> QED BY <1>0, <2>1 DEF StoreInv
<1>3. ASSUME NEW r \in Reader, NEW k \in Key, Get(r, k) PROVE StoreInv'
  <2>1. read' \in [Reader -> [Key -> Value]] /\ UNCHANGED <<store, written>>
    BY <1>3 DEF Get, StoreInv
  <2>2. \A q \in Reader, x \in Key :
          read'[q][x] = IF q = r /\ x = k THEN store[k] ELSE read[q][x]
    BY <1>3 DEF Get, StoreInv
  <2>3. \A x \in Key : store[x].version \in Nat
    BY DEF StoreInv, Value
  <2> QED BY <1>0, <2>1, <2>2, <2>3 DEF StoreInv
<1>4. ASSUME NEW r \in Reader, NEW k \in Key, Put(r, k) PROVE StoreInv'
  <2> DEFINE new == [version |-> store[k].version + 1, value |-> written + 1]
  <2>1. new \in Value
    BY DEF StoreInv, Value
  <2>2. store' = [store EXCEPT ![k] = new] /\ read' = [read EXCEPT ![r][k] = new]
        /\ written' = written + 1
    BY <1>4 DEF Put
  <2>3. store' \in [Key -> Value] /\ read' \in [Reader -> [Key -> Value]] /\ written' \in Nat
    BY <2>1, <2>2 DEF StoreInv
  <2>4. /\ \A x \in Key : store'[x] = IF x = k THEN new ELSE store[x]
        /\ \A q \in Reader, x \in Key :
             read'[q][x] = IF q = r /\ x = k THEN new ELSE read[q][x]
    BY <2>2 DEF StoreInv
  <2>5. ASSUME "delete" \notin load.ops, NEW q \in Reader, NEW x \in Key
        PROVE  /\ read'[q][x].version <= store'[x].version
               /\ read'[q][x].version = store'[x].version => read'[q][x] = store'[x]
    <3>1. /\ read[q][x].version <= store[x].version
          /\ read[q][x].version = store[x].version => read[q][x] = store[x]
      BY <2>5 DEF StoreInv
    <3>2. read[q][x].version \in Nat /\ store[x].version \in Nat
      BY DEF StoreInv, Value
    <3>3. new.version = store[k].version + 1
      OBVIOUS
    <3> HIDE DEF new
    <3>4. CASE x # k
      BY <2>4, <3>1, <3>4
    <3>5. CASE x = k /\ q = r
      BY <2>4, <3>2, <3>3, <3>5
    <3>6. CASE x = k /\ q # r
      <4>1. read'[q][x] = read[q][x] /\ store'[x].version = store[x].version + 1
        BY <2>4, <3>3, <3>6
      <4> QED BY <3>1, <3>2, <4>1
    <3> QED BY <3>4, <3>5, <3>6
  <2> QED BY <1>0, <2>3, <2>5 DEF StoreInv
<1>5. CASE Ask
  BY <1>1, <1>5 DEF Ask, AskIn, AskRevoke, AskAuthorize, AskResolve, AskRevokeGrant
<1>6. CASE \E i \in Slot : Works(i)
  BY <1>1, <1>6 DEF Works, Find, Consume, Insert, Mint, Mark, Purge, CloseAll, Upsert, MintApp,
                    Lookup, Resolve, PurgeApp, Unset
<1>7. CASE \E c \in Challenge : Expire(c) \/ \E purpose \in {"login", "enroll"} : Issue(c, purpose)
  BY <1>1, <1>7 DEF Expire, Issue
<1>8. CASE \E s \in Socket : \/ Verified(s) \/ Registered(s) \/ Closed(s)
                            \/ \E k \in Given : Hello(s, k) \/ HelloAgain(s, k)
  BY <1>1, <1>8 DEF Verified, Registered, Closed, Hello, HelloAgain
<1>9. CASE \E c \in Code : Poll(c) \/ CodeExpires(c) \/ \E asked \in SUBSET Scope : AskCode(c, asked)
  BY <1>1, <1>9 DEF Poll, CodeExpires, AskCode
<1>10. CASE \E t \in appTokens : Logout(t)
  BY <1>1, <1>10 DEF Logout
<1>11. CASE UNCHANGED vars
  BY <1>1, <1>11 DEF vars
<1> QED
  BY <1>2, <1>3, <1>4, <1>5, <1>6, <1>7, <1>8, <1>9, <1>10, <1>11 DEF Next

(* Only a put that knew the value replaces it. *)
LEMMA PutKnew ==
  ASSUME StoreInv, [Next]_vars, NEW k \in Key,
         "delete" \notin load.ops, store[k].version > 0, store'[k] # store[k]
  PROVE  \E r \in Reader : read[r][k] = store[k] /\ read'[r][k] = store'[k]
<1>1. CASE UNCHANGED store
  BY <1>1
<1>2. ASSUME NEW r \in Reader, NEW x \in Key, Put(r, x)
      PROVE  \E q \in Reader : read[q][k] = store[k] /\ read'[q][k] = store'[k]
  <2>1. x = k
    BY <1>2 DEF Put, StoreInv
  <2>2. read[r][k].version = store[k].version
    BY <1>2, <2>1 DEF Put, Matches, StoreInv, Value
  <2>3. read[r][k] = store[k]
    BY <2>2 DEF StoreInv
  <2>4. read'[r][k] = store'[k]
    BY <1>2, <2>1 DEF Put, StoreInv
  <2> QED BY <2>3, <2>4
<1>3. CASE Ask
  BY <1>1, <1>3 DEF Ask, AskIn, AskRevoke, AskAuthorize, AskResolve, AskRevokeGrant
<1>4. CASE \E i \in Slot : Works(i)
  BY <1>1, <1>4 DEF Works, Find, Consume, Insert, Mint, Mark, Purge, CloseAll, Upsert, MintApp,
                    Lookup, Resolve, PurgeApp, Unset
<1>5. CASE \E c \in Challenge : Expire(c) \/ \E purpose \in {"login", "enroll"} : Issue(c, purpose)
  BY <1>1, <1>5 DEF Expire, Issue
<1>6. CASE \E s \in Socket : \/ Verified(s) \/ Registered(s) \/ Closed(s)
                            \/ \E t \in Given : Hello(s, t) \/ HelloAgain(s, t)
  BY <1>1, <1>6 DEF Verified, Registered, Closed, Hello, HelloAgain
<1>7. CASE \E c \in Code : Poll(c) \/ CodeExpires(c) \/ \E asked \in SUBSET Scope : AskCode(c, asked)
  BY <1>1, <1>7 DEF Poll, CodeExpires, AskCode
<1>8. CASE \E t \in appTokens : Logout(t)
  BY <1>1, <1>8 DEF Logout
<1>9. CASE \E x \in Key : Delete(x) \/ \E r \in Reader : Get(r, x)
  BY <1>1, <1>9 DEF Delete, Get
<1>10. CASE UNCHANGED vars
  BY <1>1, <1>10 DEF vars
<1> QED
  BY <1>2, <1>3, <1>4, <1>5, <1>6, <1>7, <1>8, <1>9, <1>10 DEF Next

(* However many instances of the app get and put the same keys, a value that *)
(* replaces another was written by one that had read it, when no key is       *)
(* deleted (apps/storage.ts: If-Match under the lock of the value).           *)
THEOREM NoUpdateLost == Spec => NoLostUpdate
<1>1. Init => LoadInv /\ StoreInv
  BY LoadInit, StoreInit
<1>2. (LoadInv /\ StoreInv) /\ [Next]_vars => (LoadInv /\ StoreInv)'
  BY LoadStep, StoreStep
<1>3. (LoadInv /\ StoreInv) /\ [Next]_vars =>
        [\A k \in Key : "delete" \notin load.ops /\ store[k].version > 0 /\ store'[k] # store[k] =>
           \E r \in Reader : read[r][k] = store[k] /\ read'[r][k] = store'[k]]_vars
  BY PutKnew
<1> QED
  BY <1>1, <1>2, <1>3, PTL DEF Spec, NoLostUpdate

-----------------------------------------------------------------------------
(* A calm revocation.  Nothing that grants runs beside a revocation, so what *)
(* it has deleted stays deleted until it has ended, and whoever is about to  *)
(* get a session of the app has a grant.                                      *)

CalmInv == load.calm =>
  /\ appTokens # {} => Granted
  /\ \A i \in Slot :
       /\ call[i].op = "authorize" /\ call[i].step = "mint" => Granted
       /\ call[i].op = "revokeGrant" =>
            /\ call[i].step # "purge" => appTokens = {}
            /\ ~Running({"authorize"})

LEMMA CalmInit == Init => CalmInv
<1> SUFFICES ASSUME Init PROVE CalmInv
  OBVIOUS
<1>1. load.scopes \subseteq Scope
  BY AccessAssumption DEF Init, AccessAssumption
<1>2. appTokens # {} => Granted
  BY <1>1, AccessAssumption DEF Init, AccessAssumption, Granted, NoGrant
<1>3. \A i \in Slot : call[i].op = "none"
  BY DEF Init, Idle
<1> QED
  BY <1>2, <1>3 DEF CalmInv

(* What is added to a grant is a grant. *)
LEMMA StaysGranted ==
  ASSUME grant \subseteq Scope \/ ~Granted, NEW scopes \in SUBSET Scope, grant' = WithScopes(scopes)
  PROVE  Granted'
BY AccessAssumption DEF AccessAssumption, WithScopes, Granted, NoGrant

LEMMA CalmStep == Shape /\ LoadInv /\ CalmInv /\ [Next]_vars => CalmInv'
<1> SUFFICES ASSUME Shape, LoadInv, CalmInv, [Next]_vars PROVE CalmInv'
  OBVIOUS
<1>0. /\ load'.calm = load.calm /\ call \in [Slot -> Request]
      /\ grant \subseteq Scope \/ ~Granted
  BY LoadStep DEF Shape
<1>1. CASE UNCHANGED <<grant, call>> /\ appTokens' \subseteq appTokens
  BY <1>0, <1>1 DEF CalmInv, Granted, Running
<1>2. ASSUME NEW i \in Slot,
             \A j \in Slot \ {i} : call'[j] = call[j],
             call'[i].op \in {"authorize", "revokeGrant"} =>
               call'[i].op = call[i].op /\ call'[i].step = call[i].step,
             grant' = grant, appTokens' \subseteq appTokens
      PROVE  CalmInv'
  <2>1. \A j \in Slot : call'[j].op \in {"authorize", "revokeGrant"} =>
          call'[j].op = call[j].op /\ call'[j].step = call[j].step
    BY <1>2
  <2>2. Running({"authorize"})' => Running({"authorize"})
    BY <2>1 DEF Running
  <2> QED BY <1>0, <1>2, <2>1, <2>2 DEF CalmInv, Granted
<1>3. ASSUME NEW i \in Slot, NEW r \in Request, Begin(i, r), UNCHANGED <<grant, appTokens>>,
             r.op = "authorize" => r.step = "upsert",
             r.op = "revokeGrant" => r.step = "purge"
      PROVE  CalmInv'
  <2>1. \A j \in Slot : call'[j] = IF j = i THEN r ELSE call[j]
    BY <1>0, <1>3, Begins
  <2>2. load.calm => /\ ~Running(Revoking)
                     /\ r.op \in Revoking => ~Running(Minting)
    BY <1>3 DEF Begin, MayBegin
  <2>3. load.calm => \A j \in Slot : call'[j].op = "revokeGrant" => j = i /\ ~Running({"authorize"})'
    BY <2>1, <2>2 DEF Running, Revoking, Minting
  <2> QED BY <1>0, <1>3, <2>1, <2>3 DEF CalmInv, Granted
<1>4. CASE Ask
  <2>1. ASSUME NEW i \in Slot, NEW d \in Device, NEW c \in Challenge,
               NEW op \in {"create", "enroll", "login"}, AskIn(i, op, d, c)
        PROVE  CalmInv'
    <3>1. [op |-> op, step |-> IF op = "login" THEN "find" ELSE "consume",
           device |-> d, challenge |-> c, found |-> TRUE] \in Request
      BY DEF Request, SignIn, Steps
    <3> QED BY <1>3, <2>1, <3>1 DEF AskIn
  <2>2. ASSUME NEW i \in Slot, NEW d \in Device, AskRevoke(i, d)
        PROVE  CalmInv'
    <3>1. [op |-> "revoke", step |-> "mark", device |-> d] \in Request
      BY DEF Request, Revocation, Steps
    <3> QED BY <1>3, <2>2, <3>1 DEF AskRevoke
  <2>3. ASSUME NEW i \in Slot, NEW scopes \in SUBSET Scope, AskAuthorize(i, scopes)
        PROVE  CalmInv'
    <3>1. [op |-> "authorize", step |-> "upsert", scopes |-> scopes] \in Request
      BY DEF Request, Authorisation, Steps
    <3> QED BY <1>3, <2>3, <3>1 DEF AskAuthorize
  <2>4. ASSUME NEW i \in Slot, NEW c \in Code, NEW scopes \in SUBSET Scope,
               NEW op \in {"approve", "deny"}, AskResolve(i, op, c, scopes)
        PROVE  CalmInv'
    <3>1. [op |-> op, step |-> "find", code |-> c, scopes |-> scopes] \in Request
      BY DEF Request, Resolution, Steps
    <3> QED BY <1>3, <2>4, <3>1 DEF AskResolve
  <2>5. ASSUME NEW i \in Slot, AskRevokeGrant(i)
        PROVE  CalmInv'
    <3>1. [op |-> "revokeGrant", step |-> "purge"] \in Request
      BY DEF Request, Bare, Steps
    <3> QED BY <1>3, <2>5, <3>1 DEF AskRevokeGrant
  <2> QED BY <1>4, <2>1, <2>2, <2>3, <2>4, <2>5 DEF Ask
<1>5. ASSUME NEW i \in Slot, Works(i) PROVE CalmInv'
  <2>0. Steps = {"none", "find", "consume", "insert", "mint", "mark", "purge", "close",
                 "upsert", "update", "unset"}
    BY DEF Steps
  <2>1. ASSUME End(i), grant' = grant, appTokens' \subseteq appTokens PROVE CalmInv'
    <3>1. call'[i] = Idle /\ \A j \in Slot \ {i} : call'[j] = call[j]
      BY <1>0, <2>1, Ends
    <3> QED BY <1>2, <2>1, <3>1 DEF Idle
  <2>2. ASSUME NEW step \in Steps, Go(i, step), call[i].op \notin {"authorize", "revokeGrant"},
               UNCHANGED <<grant, appTokens>>
        PROVE  CalmInv'
    <3>1. call'[i].op = call[i].op /\ \A j \in Slot \ {i} : call'[j] = call[j]
      BY <1>0, <2>2, GoesOn
    <3> QED BY <1>2, <2>2, <3>1
  <2>3. CASE Find(i)
    <3>1. call[i] \in SignIn
      BY <1>0, <2>3, Kinds DEF Find, Is
    <3>2. /\ \A j \in Slot \ {i} : call'[j] = call[j]
          /\ call'[i].op = "login"
          /\ UNCHANGED <<grant, appTokens>>
      BY <1>0, <2>3, <3>1 DEF Find, Is, SignIn
    <3> QED BY <1>2, <3>2
  <2>4. CASE Consume(i) \/ Insert(i) \/ Mint(i) \/ Mark(i)
    BY <2>0, <2>1, <2>2, <2>4 DEF Consume, Insert, Mint, Mark, Is
  <2>5. CASE (Purge(i) \/ Lookup(i))
    BY <2>0, <2>1, <2>2, <2>5 DEF Purge, Lookup, Is
  <2>6. CASE CloseAll(i) \/ Resolve(i)
    BY <2>1, <2>6 DEF CloseAll, Resolve
  <2>7. CASE Upsert(i)
    <3>1. /\ \A j \in Slot \ {i} : call'[j] = call[j]
          /\ call'[i].op = "authorize" /\ call[i].op = "authorize" /\ appTokens' = appTokens
      BY <1>0, <2>0, <2>7, GoesOn DEF Upsert, Is
    <3>2. call[i].scopes \in SUBSET Scope
      BY <1>0, <2>7, Kinds DEF Upsert, Is, Authorisation
    <3>3. Granted'
      BY <1>0, <2>7, <3>2, StaysGranted DEF Upsert
    <3>4. load.calm => \A j \in Slot : call[j].op # "revokeGrant"
      BY <3>1 DEF CalmInv, Running
    <3>5. load.calm => \A j \in Slot : call'[j].op # "revokeGrant"
      BY <3>1, <3>4
    <3> QED BY <1>0, <3>3, <3>5 DEF CalmInv
  <2>8. CASE MintApp(i)
    <3>1. /\ \A j \in Slot \ {i} : call'[j] = call[j]
          /\ call'[i] = Idle /\ call[i].op = "authorize" /\ call[i].step = "mint" /\ grant' = grant
      BY <1>0, <2>8, Ends DEF MintApp, Is
    <3>2. load.calm => Granted' /\ \A j \in Slot : call[j].op # "revokeGrant"
      BY <3>1 DEF CalmInv, Running, Granted
    <3>3. load.calm => \A j \in Slot : call'[j].op # "revokeGrant"
      BY <3>1, <3>2 DEF Idle
    <3> QED BY <1>0, <3>2, <3>3 DEF CalmInv
  <2>9. CASE PurgeApp(i) \/ Unset(i)
    <3>1. /\ \A j \in Slot : call'[j].op = call[j].op /\ (j # i => call'[j] = call[j])
          /\ call[i].op = "revokeGrant"
      BY <1>0, <2>0, <2>9, GoesOn DEF PurgeApp, Unset, Is
    <3>2. load.calm => appTokens' = {}
      BY <2>9 DEF PurgeApp, Unset, Is, NoSessions, CalmInv
    <3>3. Running({"authorize"})' <=> Running({"authorize"})
      BY <3>1 DEF Running
    <3>4. load.calm => ~Running({"authorize"}) /\ ~Running({"authorize"})'
      BY <3>1, <3>3 DEF CalmInv
    <3>5. load.calm => \A j \in Slot : call'[j].op # "authorize"
      BY <3>4 DEF Running
    <3> QED BY <1>0, <3>2, <3>4, <3>5 DEF CalmInv
  <2> QED BY <1>5, <2>3, <2>4, <2>5, <2>6, <2>7, <2>8, <2>9 DEF Works
<1>6. CASE \E c \in Challenge : Expire(c) \/ \E purpose \in {"login", "enroll"} : Issue(c, purpose)
  BY <1>1, <1>6 DEF Expire, Issue
<1>7. CASE \E s \in Socket : \/ Verified(s) \/ Registered(s) \/ Closed(s)
                            \/ \E k \in Given : Hello(s, k) \/ HelloAgain(s, k)
  BY <1>1, <1>7 DEF Verified, Registered, Closed, Hello, HelloAgain
<1>8. ASSUME NEW c \in Code, Poll(c) PROVE CalmInv'
  <2>1. code[c].scopes \in SUBSET Scope
    BY DEF Shape
  <2>2. Granted'
    BY <1>0, <1>8, <2>1, StaysGranted DEF Poll, Agreed
  <2>3. load.calm => \A j \in Slot : call'[j].op # "revokeGrant"
    BY <1>8 DEF Poll, Running, Revoking
  <2> QED BY <1>0, <2>2, <2>3 DEF CalmInv
<1>9. CASE \E c \in Code : CodeExpires(c) \/ \E asked \in SUBSET Scope : AskCode(c, asked)
  BY <1>1, <1>9 DEF CodeExpires, AskCode
<1>10. CASE \E t \in appTokens : Logout(t)
  BY <1>1, <1>10 DEF Logout
<1>11. CASE \E k \in Key : Delete(k) \/ \E r \in Reader : Get(r, k) \/ Put(r, k)
  BY <1>1, <1>11 DEF Delete, Get, Put
<1>12. CASE UNCHANGED vars
  BY <1>1, <1>12 DEF vars
<1> QED
  BY <1>4, <1>5, <1>6, <1>7, <1>8, <1>9, <1>10, <1>11, <1>12 DEF Next

(* A session that is there after a step was there before, or has a new id. *)
LEMMA OldSession ==
  ASSUME Shape, [Next]_vars, NEW t \in appTokens', t.id <= appMinted
  PROVE  t \in appTokens
<1>0. appMinted \in Nat
  BY DEF Shape
<1>1. CASE appTokens' \subseteq appTokens
  BY <1>1
<1>2. ASSUME NEW scopes, appTokens' = NewAppToken(scopes) PROVE t \in appTokens
  BY <1>0, <1>2 DEF NewAppToken
<1>3. CASE Ask
  BY <1>1, <1>3 DEF Ask, AskIn, AskRevoke, AskAuthorize, AskResolve, AskRevokeGrant
<1>4. ASSUME NEW i \in Slot, Works(i) PROVE t \in appTokens
  BY <1>1, <1>2, <1>4 DEF Works, Find, Consume, Insert, Mint, Mark, Purge, CloseAll, Upsert,
                          MintApp, Lookup, Resolve, PurgeApp, NoSessions, Unset
<1>5. CASE \E c \in Challenge : Expire(c) \/ \E purpose \in {"login", "enroll"} : Issue(c, purpose)
  BY <1>1, <1>5 DEF Expire, Issue
<1>6. CASE \E s \in Socket : \/ Verified(s) \/ Registered(s) \/ Closed(s)
                            \/ \E k \in Given : Hello(s, k) \/ HelloAgain(s, k)
  BY <1>1, <1>6 DEF Verified, Registered, Closed, Hello, HelloAgain
<1>7. CASE \E c \in Code : Poll(c) \/ CodeExpires(c) \/ \E asked \in SUBSET Scope : AskCode(c, asked)
  BY <1>1, <1>2, <1>7 DEF Poll, CodeExpires, AskCode
<1>8. CASE \E k \in appTokens : Logout(k)
  BY <1>1, <1>8 DEF Logout
<1>9. CASE \E k \in Key : Delete(k) \/ \E r \in Reader : Get(r, k) \/ Put(r, k)
  BY <1>1, <1>9 DEF Delete, Get, Put
<1>10. CASE UNCHANGED vars
  BY <1>1, <1>10 DEF vars
<1> QED
  BY <1>3, <1>4, <1>5, <1>6, <1>7, <1>8, <1>9, <1>10 DEF Next

(* With any number of sessions, codes and requests: a session of the app that *)
(* has stopped to give access never gives it again, when nothing that grants  *)
(* crosses the revocation (apps/routes.ts: the sessions go before the grant). *)
THEOREM StaysDead == Spec => DeadStaysDead
<1> DEFINE CInv == Shape /\ LoadInv /\ CalmInv
<1>1. Init => CInv
  BY ShapeInit, LoadInit, CalmInit
<1>2. CInv /\ [Next]_vars => CInv'
  BY ShapeStep, LoadStep, CalmStep
<1>3. CInv /\ [Next]_vars =>
        [load.calm => \A t \in appTokens' : t.id <= appMinted => AppVerifies(t)]_vars
  BY OldSession DEF AppVerifies, CalmInv
<1> QED
  BY <1>1, <1>2, <1>3, PTL DEF Spec, DeadStaysDead
=============================================================================
