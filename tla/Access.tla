------------------------------- MODULE Access -------------------------------
(***************************************************************************)
(* Who may talk to the server: the devices and sessions of ONE account      *)
(* (modules/accounts, modules/auth), the grants, grant codes, sessions and  *)
(* storage of ONE app it uses (modules/apps), and the sockets of both       *)
(* (ws/gateway.ts, ws/registry.ts).                                         *)
(*                                                                         *)
(* No handler here takes a lock but the poll of a code and the put of a     *)
(* value, so a request is a call that goes through its statements, and the  *)
(* statements of several calls interleave.                                  *)
(***************************************************************************)
EXTENDS Naturals, FiniteSets

CONSTANTS
  Device, Challenge, Code, Key, Socket,
  Reader,       \* the instances of the app that use its storage
  Scope,        \* what a session of the app may be for; one is "rooms"
  MaxTokens,    \* bound on the session tokens minted, of each kind
  MaxKeys,      \* APP_STORAGE_MAX_KEYS
  MaxWrites,    \* bound on the values put into the storage
  Slot,         \* bound: one for each request that may be in flight
  Loads         \* the loads a behaviour may have, see `load`

ASSUME AccessAssumption ==
  /\ "rooms" \in Scope /\ "none" \notin Scope
  /\ MaxTokens \in Nat /\ MaxKeys \in Nat \ {0} /\ MaxWrites \in Nat
  /\ Loads \subseteq [ops : SUBSET STRING, asks : Nat, calm : BOOLEAN,
                      devices : SUBSET Device, scopes : SUBSET Scope]

VARIABLES
  device,       \* devices.status, "none" without a row
  challenge,    \* auth_challenges: the purpose, "spent" once deleted
  tokens,       \* sessions: [id, device]
  grant,        \* app_grants.scopes, NoGrant without a row
  appTokens,    \* app_sessions: [id, scopes]
  code,         \* app_grant_codes: [status, asked, scopes]
  store,        \* app_storage: [version, value], version 0 without a row
  socket,       \* [step, open, token], the gateway's state of each socket
  registered,   \* the sockets in the ConnectionRegistry
  call,         \* the request in flight in each slot
  read,         \* what each of them last knew of each key: [version, value]
  minted, appMinted, written,      \* counters: the next ids
  passed,       \* history: the calls each challenge let through
  released,     \* history: the tokens each code gave
  consented,    \* history: the scopes the user ever agreed to
  load          \* bound, frozen: the requests there may be, how many, and
                \* whether hellos and mints run across a revocation

accountRows == <<device, challenge, tokens>>
appRows == <<grant, appTokens, code>>
sockets == <<socket, registered>>
storage == <<store, read, written>>
history == <<minted, appMinted, passed, released, consented>>
vars == <<accountRows, appRows, sockets, storage, history, call, load>>

NoGrant == {"none"}
Granted == grant # NoGrant
Idle == [op |-> "none", step |-> "none"]

-----------------------------------------------------------------------------
(* Calls *)

Is(i, op, step) == call[i].op = op /\ call[i].step = step
Running(ops) == \E i \in Slot : call[i].op \in ops
Go(i, step) == call' = [call EXCEPT ![i].step = step]
End(i) == call' = [call EXCEPT ![i] = Idle]

Minting == {"create", "enroll", "login", "authorize", "poll"}
Revoking == {"revoke", "revokeGrant"}
InHello == \E s \in Socket : socket[s].step \in {"verify", "info"}

(* In a calm load nothing is under way when a revocation begins, and        *)
(* nothing begins before it has ended.                                      *)
MayBegin(op) ==
  /\ op \in load.ops
  /\ load.calm => /\ ~Running(Revoking)
                  /\ op \in Revoking => ~InHello /\ ~Running(Minting)

Begin(i, request) ==
  /\ call[i] = Idle
  /\ MayBegin(request.op)
  /\ load.asks > 0
  /\ load' = [load EXCEPT !.asks = @ - 1]
  /\ call' = [call EXCEPT ![i] = request]

-----------------------------------------------------------------------------
(* Devices and sessions *)

(* verifySessionToken joins the devices. *)
Verifies(t) == t \in tokens /\ device[t.device] = "active"

SignedIn == \E t \in tokens : Verifies(t)
AccountExists == \E d \in Device : device[d] # "none"

Purpose(op) == IF op = "login" THEN "login" ELSE "enroll"

(* issueChallenge *)
Issue(c, purpose) ==
  /\ challenge[c] = "none"
  /\ \E op \in load.ops \cap {"create", "enroll", "login"} : Purpose(op) = purpose
  /\ challenge' = [challenge EXCEPT ![c] = purpose]
  /\ UNCHANGED <<device, tokens, appRows, sockets, storage, history, call, load>>

(* A challenge expires, and pruneExpiredChallenges deletes it. *)
Expire(c) ==
  /\ "expire" \in load.ops /\ challenge[c] \in {"login", "enroll"}
  /\ challenge' = [challenge EXCEPT ![c] = "spent"]
  /\ UNCHANGED <<device, tokens, appRows, sockets, storage, history, call, load>>

(* createAccount, enrollDevice and login, with a challenge that was issued.  *)
AskIn(i, op, d, c) ==
  /\ op \in {"create", "enroll", "login"} /\ challenge[c] # "none"
  /\ Begin(i, [op |-> op, step |-> IF op = "login" THEN "find" ELSE "consume",
                   device |-> d, challenge |-> c, found |-> TRUE])
  /\ UNCHANGED <<accountRows, appRows, sockets, storage, history>>

(* login looks for the device before it consumes the challenge. *)
Find(i) ==
  /\ Is(i, "login", "find")
  /\ call' = [call EXCEPT ![i].found = device[call[i].device] = "active", ![i].step = "consume"]
  /\ UNCHANGED <<accountRows, appRows, sockets, storage, history, load>>

LeavesRow(c) == challenge                                          \* mutant

Deleted(c) == [challenge EXCEPT ![c] = "spent"]

(* consumeChallenge deletes the row and counts what it deleted. *)
Consume(i) ==
  /\ call[i].op \in {"create", "enroll", "login"} /\ call[i].step = "consume"
  /\ LET c == call[i].challenge
         ok == challenge[c] = Purpose(call[i].op)
     IN  /\ challenge' = IF ok THEN Deleted(c) ELSE challenge
         /\ IF ok /\ call[i].found
            THEN /\ passed' = [passed EXCEPT ![c] = @ + 1]
                 /\ Go(i, IF call[i].op = "login" THEN "mint" ELSE "insert")
            ELSE End(i) /\ UNCHANGED passed
  /\ UNCHANGED <<device, tokens, appRows, sockets, storage, minted, appMinted, released,
                 consented, load>>

(* device_id and device_pk are unique, a revoked device's too. *)
IsNew(d) == device[d] = "none"

(* The rows are inserted, or violate a key: the account's, or the device's. *)
Insert(i) ==
  /\ call[i].op \in {"create", "enroll"} /\ call[i].step = "insert"
  /\ LET d == call[i].device
     IN  IF IsNew(d) /\ AccountExists = (call[i].op = "enroll")
         THEN device' = [device EXCEPT ![d] = "active"] /\ Go(i, "mint")
         ELSE End(i) /\ UNCHANGED device
  /\ UNCHANGED <<challenge, tokens, appRows, sockets, storage, history, load>>

(* createSession *)
Mint(i) ==
  /\ call[i].op \in {"create", "enroll", "login"} /\ call[i].step = "mint"
  /\ minted < MaxTokens
  /\ tokens' = tokens \cup {[id |-> minted + 1, device |-> call[i].device]}
  /\ minted' = minted + 1
  /\ End(i)
  /\ UNCHANGED <<device, challenge, appRows, sockets, storage, appMinted, passed, released,
                 consented, load>>

(* revokeDevice, by a device of the account. *)
AskRevoke(i, d) ==
  /\ SignedIn
  /\ Begin(i, [op |-> "revoke", step |-> "mark", device |-> d])
  /\ UNCHANGED <<accountRows, appRows, sockets, storage, history>>

Mark(i) ==
  /\ Is(i, "revoke", "mark")
  /\ IF device[call[i].device] = "active"
     THEN device' = [device EXCEPT ![call[i].device] = "revoked"] /\ Go(i, "purge")
     ELSE End(i) /\ UNCHANGED device
  /\ UNCHANGED <<challenge, tokens, appRows, sockets, storage, history, load>>

Purge(i) ==
  /\ Is(i, "revoke", "purge")
  /\ tokens' = {t \in tokens : t.device # call[i].device}
  /\ Go(i, "close")
  /\ UNCHANGED <<device, challenge, appRows, sockets, storage, history, load>>

-----------------------------------------------------------------------------
(* Sockets.  A token is [kind, id] and what it is a session of. *)

UserToken(t) == [kind |-> "user", of |-> t]
AppToken(t) == [kind |-> "app", of |-> t]
Given == {UserToken(t) : t \in tokens} \cup {AppToken(t) : t \in appTokens}

(* verifyAppSessionToken joins the grant. *)
AppVerifies(t) == t \in appTokens /\ Granted

(* verifyToken: a session of the app is taken for its rooms only. *)
MayConnect(k) ==
  IF k.kind = "user" THEN Verifies(k.of) ELSE AppVerifies(k.of) /\ "rooms" \in k.of.scopes

Hello(s, k) ==
  /\ "hello" \in load.ops /\ (load.calm => ~Running(Revoking))
  /\ socket[s].step = "none"
  /\ socket' = [socket EXCEPT ![s] = [step |-> "verify", open |-> TRUE, token |-> k]]
  /\ UNCHANGED <<accountRows, appRows, registered, storage, history, call, load>>

(* The session is there once the token was verified; hello.ok and the       *)
(* registry come after another await.                                        *)
Verified(s) ==
  /\ socket[s].step = "verify"
  /\ LET ok == MayConnect(socket[s].token)
     IN  socket' = [socket EXCEPT ![s] = [step |-> IF ok THEN "info" ELSE "refused",
                                          open |-> @.open /\ ok, token |-> @.token]]
  /\ UNCHANGED <<accountRows, appRows, registered, storage, history, call, load>>

Registered(s) ==
  /\ socket[s].step = "info"
  /\ socket' = [socket EXCEPT ![s].step = "on"]
  /\ registered' = registered \cup {s}
  /\ UNCHANGED <<accountRows, appRows, storage, history, call, load>>

(* A hello on a connected socket: the token is verified again. *)
HelloAgain(s, k) ==
  /\ "hello" \in load.ops /\ socket[s].step = "on" /\ socket[s].open
  /\ k.kind # socket[s].token.kind \/ ~MayConnect(k)
  /\ socket' = [socket EXCEPT ![s].step = "closing"]
  /\ UNCHANGED <<accountRows, appRows, registered, storage, history, call, load>>

(* The socket closes, by itself or because it was told to; what the          *)
(* registry holds of it goes.                                               *)
Closed(s) ==
  /\ socket[s].open
  /\ socket[s].step = "closing" \/ "hello" \in load.ops
  /\ socket' = [socket EXCEPT ![s] = [step |-> IF @.step = "closing" THEN "on" ELSE @.step,
                                      open |-> FALSE, token |-> @.token]]
  /\ registered' = registered \ {s}
  /\ UNCHANGED <<accountRows, appRows, storage, history, call, load>>

OfDevice(s, d) == socket[s].token.kind = "user" /\ socket[s].token.of.device = d
OfApp(s) == socket[s].token.kind = "app"

NoneOf(i) == {}                                                    \* mutant

(* closeDevice and closeAppAccount go over the registry. *)
ToClose(i) ==
  {s \in registered : IF call[i].op = "revoke" THEN OfDevice(s, call[i].device) ELSE OfApp(s)}

CloseAll(i) ==
  /\ call[i].op \in Revoking /\ call[i].step = "close"
  /\ socket' = [s \in Socket |->
       IF s \in ToClose(i) /\ socket[s].open THEN [socket[s] EXCEPT !.step = "closing"] ELSE socket[s]]
  /\ End(i)
  /\ UNCHANGED <<accountRows, appRows, registered, storage, history, load>>

-----------------------------------------------------------------------------
(* Grants of the app, its codes and its sessions *)

(* grantAndMintSession: the upsert adds to what was granted. *)
WithScopes(scopes) == (IF Granted THEN grant ELSE {}) \cup scopes

NewAppToken(scopes) == appTokens \cup {[id |-> appMinted + 1, scopes |-> scopes]}

(* authorize, by the unlocked Hub. *)
AskAuthorize(i, scopes) ==
  /\ SignedIn /\ scopes # {}
  /\ Begin(i, [op |-> "authorize", step |-> "upsert", scopes |-> scopes])
  /\ consented' = consented \cup scopes
  /\ UNCHANGED <<accountRows, appRows, sockets, storage, minted, appMinted, passed, released>>

Upsert(i) ==
  /\ Is(i, "authorize", "upsert")
  /\ grant' = WithScopes(call[i].scopes)
  /\ Go(i, "mint")
  /\ UNCHANGED <<accountRows, appTokens, code, sockets, storage, history, load>>

MintApp(i) ==
  /\ Is(i, "authorize", "mint")
  /\ appMinted < MaxTokens
  /\ appTokens' = NewAppToken(call[i].scopes)
  /\ appMinted' = appMinted + 1
  /\ End(i)
  /\ UNCHANGED <<accountRows, grant, code, sockets, storage, minted, passed, released,
                 consented, load>>

(* createGrantCode, by the app. *)
AskCode(c, asked) ==
  /\ "code" \in load.ops /\ code[c].status = "none" /\ asked # {}
  /\ code' = [code EXCEPT ![c].status = "pending", ![c].asked = asked]
  /\ UNCHANGED <<accountRows, grant, appTokens, sockets, storage, history, call, load>>

(* resolveGrantCode: the code is looked up, then updated. *)
AskResolve(i, op, c, scopes) ==
  /\ op \in {"approve", "deny"} /\ SignedIn
  /\ Begin(i, [op |-> op, step |-> "find", code |-> c, scopes |-> scopes])
  /\ UNCHANGED <<accountRows, appRows, sockets, storage, history>>

Lookup(i) ==
  /\ call[i].op \in {"approve", "deny"} /\ call[i].step = "find"
  /\ LET row == code[call[i].code]
     IN  IF row.status = "pending" /\ (call[i].op = "approve" => call[i].scopes \subseteq row.asked)
         THEN Go(i, "update") ELSE End(i)
  /\ UNCHANGED <<accountRows, appRows, sockets, storage, history, load>>

(* The update is of a pending row only. *)
StillPending(c) == code[c].status = "pending"

Resolve(i) ==
  /\ call[i].op \in {"approve", "deny"} /\ call[i].step = "update"
  /\ LET c == call[i].code
     IN  IF StillPending(c)
         THEN IF call[i].op = "approve"
              THEN /\ code' = [code EXCEPT ![c].status = "approved", ![c].scopes = call[i].scopes]
                   /\ consented' = consented \cup call[i].scopes
              ELSE /\ code' = [code EXCEPT ![c].status = "denied"]
                   /\ UNCHANGED consented
         ELSE UNCHANGED <<code, consented>>
  /\ End(i)
  /\ UNCHANGED <<accountRows, grant, appTokens, sockets, storage, minted, appMinted, passed,
                 released, load>>

Agreed(c) == code[c].scopes

Ready(c) == code[c].status = "approved"

(* pollGrantCode, in a transaction that locks the code. *)
Poll(c) ==
  /\ "poll" \in load.ops /\ Ready(c) /\ appMinted < MaxTokens
  /\ load.calm => ~Running(Revoking)
  /\ code' = [code EXCEPT ![c].status = "consumed"]
  /\ grant' = WithScopes(Agreed(c))
  /\ appTokens' = NewAppToken(Agreed(c))
  /\ appMinted' = appMinted + 1
  /\ released' = [released EXCEPT ![c] = @ + 1]
  /\ UNCHANGED <<accountRows, sockets, storage, minted, passed, consented, call, load>>

(* A code expires. *)
CodeExpires(c) ==
  /\ "expire" \in load.ops /\ code[c].status \in {"pending", "approved"}
  /\ code' = [code EXCEPT ![c].status = "expired"]
  /\ UNCHANGED <<accountRows, grant, appTokens, sockets, storage, history, call, load>>

(* revokeGrant: first the sessions, then the grant, then the sockets. *)
AskRevokeGrant(i) ==
  /\ SignedIn
  /\ Begin(i, [op |-> "revokeGrant", step |-> "purge"])
  /\ UNCHANGED <<accountRows, appRows, sockets, storage, history>>

KeepsSessions == appTokens                                         \* mutant

NoSessions == {}

PurgeApp(i) ==
  /\ Is(i, "revokeGrant", "purge")
  /\ appTokens' = NoSessions
  /\ Go(i, "unset")
  /\ UNCHANGED <<accountRows, grant, code, sockets, storage, history, load>>

Unset(i) ==
  /\ Is(i, "revokeGrant", "unset")
  /\ grant' = NoGrant
  /\ Go(i, "close")
  /\ UNCHANGED <<accountRows, appTokens, code, sockets, storage, history, load>>

(* logout of the app deletes the one session. *)
Logout(t) ==
  /\ "logout" \in load.ops /\ AppVerifies(t)
  /\ appTokens' = appTokens \ {t}
  /\ UNCHANGED <<accountRows, grant, code, sockets, storage, history, call, load>>

-----------------------------------------------------------------------------
(* Storage *)

Used == {k \in Key : store[k].version > 0}

MayStore == \E t \in appTokens : AppVerifies(t) /\ "storage" \in t.scopes

UnderQuota == Cardinality(Used) < MaxKeys

AnyVersion(k, ifVersion) == TRUE                                   \* mutant

Matches(k, ifVersion) == ifVersion = store[k].version

(* getStorage *)
Get(r, k) ==
  /\ "get" \in load.ops /\ MayStore /\ store[k].version > 0 /\ read[r][k] # store[k]
  /\ read' = [read EXCEPT ![r][k] = store[k]]
  /\ UNCHANGED <<accountRows, appRows, sockets, store, written, history, call, load>>

(* putStorage, under its lock: If-Match with the version that was read, or   *)
(* If-None-Match of a key that must not be there.                            *)
Put(r, k) ==
  /\ "put" \in load.ops /\ MayStore /\ written < MaxWrites
  /\ \/ store[k].version = 0 /\ UnderQuota
     \/ store[k].version > 0 /\ read[r][k].version > 0 /\ Matches(k, read[r][k].version)
  /\ LET new == [version |-> store[k].version + 1, value |-> written + 1]
     IN  store' = [store EXCEPT ![k] = new] /\ read' = [read EXCEPT ![r][k] = new]
  /\ written' = written + 1
  /\ UNCHANGED <<accountRows, appRows, sockets, history, call, load>>

(* deleteStorage *)
Delete(k) ==
  /\ "delete" \in load.ops /\ MayStore /\ store[k].version > 0
  /\ store' = [store EXCEPT ![k] = [version |-> 0, value |-> 0]]
  /\ UNCHANGED <<accountRows, appRows, sockets, read, written, history, call, load>>

-----------------------------------------------------------------------------
Init ==
  /\ load \in Loads
  /\ device = [d \in Device |-> IF d \in load.devices THEN "active" ELSE "none"]
  /\ challenge = [c \in Challenge |-> "none"]
  /\ tokens = {[id |-> 0, device |-> d] : d \in load.devices}
  /\ grant = IF load.scopes = {} THEN NoGrant ELSE load.scopes
  /\ appTokens = IF load.scopes = {} THEN {} ELSE {[id |-> 0, scopes |-> load.scopes]}
  /\ code = [c \in Code |-> [status |-> "none", asked |-> {}, scopes |-> {}]]
  /\ store = [k \in Key |-> [version |-> 0, value |-> 0]]
  /\ socket = [s \in Socket |-> [step |-> "none", open |-> FALSE, token |-> [kind |-> "none"]]]
  /\ registered = {}
  /\ call = [i \in Slot |-> Idle]
  /\ read = [r \in Reader |-> store]
  /\ minted = 0 /\ appMinted = 0 /\ written = 0
  /\ passed = [c \in Challenge |-> 0]
  /\ released = [c \in Code |-> 0]
  /\ consented = load.scopes

Ask ==
  \E i \in Slot :
    \/ \E d \in Device, c \in Challenge, op \in {"create", "enroll", "login"} : AskIn(i, op, d, c)
    \/ \E d \in Device : AskRevoke(i, d)
    \/ \E scopes \in SUBSET Scope : AskAuthorize(i, scopes)
    \/ \E c \in Code, scopes \in SUBSET Scope, op \in {"approve", "deny"} : AskResolve(i, op, c, scopes)
    \/ AskRevokeGrant(i)

Works(i) ==
  \/ Find(i) \/ Consume(i) \/ Insert(i) \/ Mint(i)
  \/ Mark(i) \/ Purge(i) \/ CloseAll(i)
  \/ Upsert(i) \/ MintApp(i) \/ Lookup(i) \/ Resolve(i) \/ PurgeApp(i) \/ Unset(i)

Closes(s) == socket[s].step = "closing" /\ Closed(s)

Next ==
  \/ Ask
  \/ \E i \in Slot : Works(i)
  \/ \E c \in Challenge : Expire(c) \/ \E purpose \in {"login", "enroll"} : Issue(c, purpose)
  \/ \E s \in Socket :
       \/ Verified(s) \/ Registered(s) \/ Closed(s)
       \/ \E k \in Given : Hello(s, k) \/ HelloAgain(s, k)
  \/ \E c \in Code : Poll(c) \/ CodeExpires(c) \/ \E asked \in SUBSET Scope : AskCode(c, asked)
  \/ \E t \in appTokens : Logout(t)
  \/ \E k \in Key : Delete(k) \/ \E r \in Reader : Get(r, k) \/ Put(r, k)

Spec == Init /\ [][Next]_vars

(* The server goes on with a request it took, and a closing socket closes.  *)
FairSpec ==
  /\ Spec
  /\ \A i \in Slot : WF_vars(Works(i))
  /\ \A s \in Socket : WF_vars(Closes(s))
=============================================================================
