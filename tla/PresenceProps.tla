---------------------------- MODULE PresenceProps ----------------------------
(* What friendships and presence are for. *)
EXTENDS Presence

(* The variables of both modules stay within their types.                   *)
PeopleTypeOK ==
  /\ invite \in [Invite -> [status : {"none", "open", "closed"}, uses : Nat]]
  /\ blocks \subseteq Account \X Account /\ requests \subseteq Account \X Account
  /\ friends \subseteq Pairs /\ groups \in [Pairs -> Nat]
  /\ registered \subseteq Socket
  /\ live \in [Account -> Statuses \cup {"none"}]
  /\ view \in [Client -> [Account -> Visible \cup {"offline"}]]
  /\ self \in [Client -> Statuses]

Settled ==
  /\ \A i \in Slot : call[i] = Idle
  /\ casts = {} /\ ~\E s \in Socket : Working(s)

(* An invite makes as many friendships as it has uses, however many accept  *)
(* it at once, and counts each (acceptInvite).                              *)
InviteUses ==
  \A v \in Invite : accepted[v] = invite[v].uses /\ invite[v].uses <= MaxUses[v]

(* A block ends a friendship and lets none begin: two accounts with a block *)
(* between them are friends only if the block was stored between the check  *)
(* and the end of an acceptance, or a restart came between its two          *)
(* statements (blockAccount, acceptInvite, acceptConnectRequest).           *)
BlockSevers ==
  \A b \in blocks :
    \/ {b[1], b[2]} \notin friends \/ {b[1], b[2]} \in late
    \/ \E i \in Slot : call[i].op = "block" /\ {call[i].by, call[i].from} = {b[1], b[2]}

(* Two accounts do not both wait for the other's answer, unless both asked  *)
(* at once (createConnectRequest).                                          *)
OnePending ==
  \A r \in requests : <<r[2], r[1]>> \in requests => {r[1], r[2]} \in crossing

(* What keeps two accounts apart keeps them apart, and what brings them     *)
(* together is used once (friends/service.ts).                               *)
FriendshipInvariant == InviteUses /\ BlockSevers /\ OnePending

(* A pair has a DM group for each time it became friends, and one more for  *)
(* each request that was accepted among friends: an invite leaves the       *)
(* request of the pair pending (onFriendshipCreated).  A restart of the     *)
(* server may have cost the group.                                          *)
GroupsFounded ==
  Settled /\ ~crashed => \A p \in Pairs : groups[p] = formed[p] + redone[p]

(* Once nothing is under way, every connected client sees each friend as    *)
(* the server would tell it now, if the changes of an account's status did  *)
(* not cross, no socket was lost in its hello and no client was told from   *)
(* reads that were not complete (PresenceService).                          *)
StatusSeen ==
  Settled /\ load.calm /\ lost = {} =>
    \A c \in Client : \A a \in FriendsOf(Of[c]) :
      c \in Reached({Of[c]}) /\ <<c, a>> \notin unsure => view[c][a] = Effective(a)

(* The live status of an account lasts as long as its sockets: nobody is    *)
(* met again with the status of an earlier connection (onDisconnect).       *)
LiveWhileOnline ==
  Settled /\ load.calm => \A a \in Account : live[a] # "none" <=> Online(a)

(* Whoever is in the registry has a socket, but for those lost in a hello   *)
(* (isAccountOnline).                                                       *)
NoGhosts == \A s \in registered : socket[s].open \/ s \in lost

(* Everybody sees everybody as they are, once all has settled: what the     *)
(* server knows, what it told the clients and who has sockets agree          *)
(* (presence/service.ts, ws/registry.ts).                                     *)
PresenceInvariant == PeopleTypeOK /\ StatusSeen /\ LiveWhileOnline /\ NoGhosts

(* Every request is answered: those that wait for the row of an invite or   *)
(* of a request get it in the end (acceptInvite, acceptConnectRequest).     *)
AllAnswered == \A i \in Slot : call[i] # Idle ~> call[i] = Idle
=============================================================================
