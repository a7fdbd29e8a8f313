----------------------------- MODULE AccessProps -----------------------------
(* What the sessions, grants, codes and storage promise.                    *)
EXTENDS Access

(* The state has the shape of the tables; only an open or a closing socket  *)
(* was told to close; a token is of a device that was enrolled.              *)
AccessTypeOK ==
  /\ device \in [Device -> {"none", "active", "revoked"}]
  /\ grant \subseteq Scope \/ ~Granted
  /\ \A t \in tokens : t.id \in 0 .. MaxTokens /\ device[t.device] # "none"
  /\ \A t \in appTokens : t.id \in 0 .. MaxTokens /\ t.scopes \subseteq Scope
  /\ \A s \in Socket : socket[s].step = "closing" => socket[s].open /\ s \in registered

(* A challenge lets one enrolment or login through, whichever of several     *)
(* that present it at once.                                                  *)
ChallengeOnce == \A c \in Challenge : passed[c] <= 1

(* A code gives one token, and none when it was denied.                     *)
CodeOnce ==
  \A c \in Code : released[c] <= 1 /\ (released[c] = 1 => code[c].status = "consumed")

(* No session of the app has a scope that the user never agreed to, also     *)
(* when the app asked for more.                                              *)
ScopesConsented == \A t \in appTokens : t.scopes \subseteq consented

(* What may be used once is used once, and for what was agreed to           *)
(* (auth/service.ts, apps/sessions.ts, apps/grant-codes.ts).                 *)
AccessInvariant == AccessTypeOK /\ ChallengeOnce /\ CodeOnce /\ ScopesConsented

(* A session of the app that has stopped to give access never does again,    *)
(* when no other request crosses the revocation.                             *)
DeadStaysDead ==
  [][load.calm => \A t \in appTokens' :
       t.id <= appMinted => AppVerifies(t)]_vars

(* Once a device or the app is revoked, its sockets close, when no hello     *)
(* crosses the revocation.                                                   *)
SocketsFollow ==
  load.calm => \A s \in Socket :
    [](/\ socket[s].step \in {"on", "closing"} /\ socket[s].open
       /\ ~Running(Revoking)
       /\ IF OfApp(s) THEN socket[s].token.of \notin appTokens /\ "logout" \notin load.ops
          ELSE device[socket[s].token.of.device] = "revoked"
       => <>~socket[s].open)

(* A value that replaces another was written by who knew that one, when      *)
(* nothing is deleted.                                                       *)
NoLostUpdate ==
  [][\A k \in Key : "delete" \notin load.ops /\ store[k].version > 0 /\ store'[k] # store[k] =>
       \E r \in Reader : read[r][k] = store[k] /\ read'[r][k] = store'[k]]_vars
=============================================================================
