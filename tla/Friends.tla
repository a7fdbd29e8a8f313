------------------------------ MODULE Friends ------------------------------
(***************************************************************************)
(* How two accounts become friends, and stop (modules/friends): invites,   *)
(* connect requests, blocks and friendships, and the DM group that app.ts  *)
(* founds for a new friendship.                                            *)
(*                                                                         *)
(* Two handlers are transactions and hold a row: the acceptance of an      *)
(* invite, that of a request.  Nothing else is locked, so the reads of a   *)
(* handler may be old when it writes.                                      *)
(***************************************************************************)
EXTENDS Naturals, FiniteSets

CONSTANTS
  Account, Invite,
  Inviter,      \* friend_invites.inviter_account_id
  MaxUses,      \* friend_invites.max_uses
  Acquainted,   \* the pairs with a community in common
  Slot,         \* bound: one for each request that may be in flight
  Loads         \* the loads a behaviour may have, see `load`

Pairs == {p \in SUBSET Account : Cardinality(p) = 2}

ASSUME FriendsAssumption ==
  /\ Inviter \in [Invite -> Account]
  /\ MaxUses \in [Invite -> Nat]
  /\ Acquainted \subseteq Pairs
  /\ IsFiniteSet(Slot)

VARIABLES
  invite,       \* friend_invites: [status, uses]
  blocks,       \* the active blocks: <<blocker, blocked>>
  requests,     \* friend_requests: <<from, to>>
  friends,      \* friendships: sets of two accounts
  groups,       \* how many DM groups each pair has
  call,         \* the request in flight in each slot
  formed,       \* history: how often each pair became friends
  redone,       \* history: how often a request was accepted among friends
  accepted,     \* history: the acceptances of each invite
  late,         \* history: pairs befriended past a block stored meanwhile,
                \* or whose block a restart cut off
  crossing,     \* history: pairs whose two requests were checked at once
  crashed,      \* history: the server was restarted
  load          \* bound, frozen but for its counters: the requests there
                \* may be, whose they are, and how many

rows == <<invite, blocks, requests, friends, groups>>
notes == <<formed, redone, accepted, late, crossing, crashed>>
friendVars == <<rows, call, notes, load>>

Idle == [op |-> "none", step |-> "none"]
FriendsOf(a) == {b \in Account \ {a} : {a, b} \in friends}

-----------------------------------------------------------------------------
(* Calls *)

Is(i, op, step) == call[i].op = op /\ call[i].step = step
Go(i, step) == call' = [call EXCEPT ![i].step = step]
End(i) == call' = [call EXCEPT ![i] = Idle]

Begin(i, request) ==
  /\ call[i] = Idle /\ \A j \in Slot : j < i => call[j] # Idle
  /\ request.op \in load.ops /\ load.asks > 0
  /\ load' = [load EXCEPT !.asks = @ - 1]
  /\ call' = [call EXCEPT ![i] = request]

(* isBlockedEitherWay *)
Blocked(a, b) == <<a, b>> \in blocks \/ <<b, a>> \in blocks

(* A pair is befriended past a block that its call did not see. *)
Note(a, b) == late' = IF Blocked(a, b) THEN late \cup {{a, b}} ELSE late

-----------------------------------------------------------------------------
(* Invites *)

(* SELECT ... FOR UPDATE holds the row until the transaction ends. *)
InvitesHeld == {call[i].invite : i \in {j \in Slot : call[j].op = "accept"
                                             /\ call[j].step \in {"blocks", "existing", "form"}}}

(* createInvite *)
CreateInvite(v) ==
  /\ "accept" \in load.ops /\ invite[v].status = "none"
  /\ invite' = [invite EXCEPT ![v].status = "open"]
  /\ UNCHANGED <<blocks, requests, friends, groups, call, notes, load>>

(* revokeInvite; or its time is over. *)
RevokeInvite(v) ==
  /\ "revoke" \in load.ops /\ invite[v].status = "open" /\ v \notin InvitesHeld
  /\ invite' = [invite EXCEPT ![v].status = "closed"]
  /\ UNCHANGED <<blocks, requests, friends, groups, call, notes, load>>

ForgetsRequests(i) == call[i].op = "accept"                        \* mutant

(* The routes of both acceptances call onFriendshipCreated. *)
CallsHook(i) == TRUE

Befriended(i) == IF CallsHook(i) THEN Go(i, "found") ELSE End(i)

(* acceptInvite *)
AskAccept(i, a, v) ==
  /\ a # Inviter[v] /\ invite[v].status # "none"
  /\ Begin(i, [op |-> "accept", step |-> "lock", invite |-> v, by |-> a, from |-> Inviter[v]])
  /\ UNCHANGED <<rows, notes>>

Usable(v) == invite[v].status = "open" /\ invite[v].uses < MaxUses[v]
WaitsFor(v) == v \in InvitesHeld

WaitsInLine(v) ==
  \E i \in Slot : call[i].op = "accept" /\ call[i].invite = v       \* mutant

HeldBack(v) == WaitsFor(v)

Lock(i) ==
  /\ Is(i, "accept", "lock") /\ ~HeldBack(call[i].invite)
  /\ IF Usable(call[i].invite) THEN Go(i, "blocks") ELSE End(i)
  /\ UNCHANGED <<rows, notes, load>>

(* The gates of both acceptances.  A request stays when they fail, as the   *)
(* transaction that deleted it is rolled back.                              *)
CheckBlocks(i) ==
  /\ call[i].op \in {"accept", "acceptRequest"} /\ call[i].step = "blocks"
  /\ IF Blocked(call[i].by, call[i].from) THEN End(i)
     ELSE Go(i, IF call[i].op = "accept" THEN "existing" ELSE "form")
  /\ UNCHANGED <<rows, notes, load>>

CheckFriends(i) ==
  /\ Is(i, "accept", "existing")
  /\ IF {call[i].by, call[i].from} \in friends THEN End(i) ELSE Go(i, "form")
  /\ UNCHANGED <<rows, notes, load>>

(* The insert fails, and all with it, when the friendship is there by now.  *)
Form(i) ==
  /\ Is(i, "accept", "form")
  /\ LET p == {call[i].by, call[i].from}
         v == call[i].invite
     IN  IF p \in friends
         THEN End(i) /\ UNCHANGED <<invite, friends, formed, accepted, late>>
         ELSE /\ friends' = friends \cup {p}
              /\ formed' = [formed EXCEPT ![p] = @ + 1]
              /\ invite' = [invite EXCEPT ![v].uses = @ + 1]
              /\ accepted' = [accepted EXCEPT ![v] = @ + 1]
              /\ Note(call[i].by, call[i].from)
              /\ Befriended(i)
  /\ UNCHANGED <<blocks, requests, groups, redone, crossing, crashed, load>>

-----------------------------------------------------------------------------
(* onFriendshipCreated, after either acceptance *)

(* createDmGroup inserts; Announce follows in module Presence. *)
Found(i) ==
  /\ call[i].step = "found"
  /\ groups' = [groups EXCEPT ![{call[i].by, call[i].from}] = @ + 1]
  /\ Go(i, "announce")
  /\ UNCHANGED <<invite, blocks, requests, friends, notes, load>>

-----------------------------------------------------------------------------
(* Connect requests *)

RequestsHeld == {<<call[i].from, call[i].by>> :
                   i \in {j \in Slot : call[j].op = "acceptRequest"
                                        /\ call[j].step \in {"blocks", "form"}}}

(* createConnectRequest, its gates in the order of the code *)
AskRequest(i, a, b) ==
  /\ {a, b} \in Acquainted
  /\ Begin(i, [op |-> "request", step |-> "blocked", from |-> a, to |-> b])
  /\ UNCHANGED <<rows, notes>>

Gate(i, closed, next) ==
  /\ IF closed THEN End(i) ELSE Go(i, next)
  /\ UNCHANGED <<rows, notes, load>>

(* One pending request per pair, in either direction. *)
Pending(a, b) == <<a, b>> \in requests \/ <<b, a>> \in requests

Gates(i) ==
  \/ Is(i, "request", "blocked") /\ Gate(i, Blocked(call[i].from, call[i].to), "friends")
  \/ Is(i, "request", "friends")
     /\ Gate(i, {call[i].from, call[i].to} \in friends, "existing")
  \/ Is(i, "request", "existing")
     /\ Gate(i, Pending(call[i].from, call[i].to), "insert")

(* The unique index is on the direction only. *)
Request(i) ==
  /\ Is(i, "request", "insert")
  /\ LET a == call[i].from
         b == call[i].to
     IN  /\ requests' = requests \cup {<<a, b>>}
         /\ crossing' = IF \E j \in Slot \ {i} : /\ Is(j, "request", "insert")
                                                 /\ call[j].from = b /\ call[j].to = a
                        THEN crossing \cup {{a, b}} ELSE crossing
  /\ End(i)
  /\ UNCHANGED <<invite, blocks, friends, groups, formed, redone, accepted, late, crashed, load>>

(* declineConnectRequest, cancelConnectRequest *)
Drop(r) ==
  /\ "drop" \in load.ops /\ r \in requests \ RequestsHeld
  /\ requests' = requests \ {r}
  /\ UNCHANGED <<invite, blocks, friends, groups, call, notes, load>>

(* acceptConnectRequest *)
AskAcceptRequest(i, r) ==
  /\ r \in requests
  /\ Begin(i, [op |-> "acceptRequest", step |-> "take", from |-> r[1], by |-> r[2]])
  /\ UNCHANGED <<rows, notes>>

Take(i) ==
  /\ Is(i, "acceptRequest", "take")
  /\ LET r == <<call[i].from, call[i].by>>
     IN  /\ r \notin RequestsHeld
         /\ IF r \in requests THEN Go(i, "blocks") ELSE End(i)
  /\ UNCHANGED <<rows, notes, load>>

(* onConflictDoNothing: among friends only the group is new. *)
FormByRequest(i) ==
  /\ Is(i, "acceptRequest", "form")
  /\ LET p == {call[i].by, call[i].from}
     IN  /\ friends' = friends \cup {p}
         /\ requests' = requests \ {<<call[i].from, call[i].by>>}
         /\ formed' = [formed EXCEPT ![p] = IF p \in friends THEN @ ELSE @ + 1]
         /\ redone' = [redone EXCEPT ![p] = IF p \in friends THEN @ + 1 ELSE @]
  /\ Note(call[i].by, call[i].from)
  /\ Befriended(i)
  /\ UNCHANGED <<invite, blocks, groups, accepted, crossing, crashed, load>>

-----------------------------------------------------------------------------
(* Removal and blocks *)

(* removeFriend, called by either *)
RemoveFriend(p) ==
  /\ "remove" \in load.ops /\ p \in friends
  /\ friends' = friends \ {p} /\ late' = late \ {p}
  /\ UNCHANGED <<invite, blocks, requests, groups, call, formed, redone, accepted, crossing,
                 crashed, load>>

(* blockAccount *)
AskBlock(i, a, b) ==
  /\ a # b
  /\ Begin(i, [op |-> "block", step |-> "store", by |-> a, from |-> b])
  /\ UNCHANGED <<rows, notes>>

Store(i) ==
  /\ Is(i, "block", "store")
  /\ blocks' = blocks \cup {<<call[i].by, call[i].from>>}
  /\ Go(i, "sever")
  /\ UNCHANGED <<invite, requests, friends, groups, notes, load>>

LeavesFriends(p) == friends                                        \* mutant

Without(p) == friends \ {p}

Sever(i) ==
  /\ Is(i, "block", "sever")
  /\ LET p == {call[i].by, call[i].from}
     IN  friends' = Without(p) /\ late' = late \ {p}
  /\ End(i)
  /\ UNCHANGED <<invite, blocks, requests, groups, formed, redone, accepted, crossing, crashed,
                 load>>

(* unblockAccount; or the block has run out. *)
Unblock(k) ==
  /\ "unblock" \in load.ops /\ k \in blocks
  /\ blocks' = blocks \ {k}
  /\ UNCHANGED <<invite, requests, friends, groups, call, notes, load>>

-----------------------------------------------------------------------------
FriendsInit ==
  /\ load \in Loads
  /\ invite = [v \in Invite |-> [status |-> "none", uses |-> 0]]
  /\ blocks = {} /\ requests = {}
  /\ friends = load.friends
  /\ groups = [p \in Pairs |-> IF p \in friends THEN 1 ELSE 0]
  /\ call = [i \in Slot |-> Idle]
  /\ formed = groups
  /\ redone = [p \in Pairs |-> 0]
  /\ accepted = [v \in Invite |-> 0]
  /\ late = {} /\ crossing = {} /\ crashed = FALSE

Asks(i) ==
  \/ \E a \in load.who, v \in Invite : AskAccept(i, a, v)
  \/ \E a, b \in load.who : AskRequest(i, a, b) \/ AskBlock(i, a, b)
  \/ \E r \in requests : AskAcceptRequest(i, r)

(* What the server goes on with by itself. *)
Serve(i) ==
  \/ Lock(i) \/ CheckBlocks(i) \/ CheckFriends(i) \/ Form(i) \/ Found(i)
  \/ Gates(i) \/ Request(i) \/ Take(i) \/ FormByRequest(i) \/ Store(i) \/ Sever(i)

FriendsNext ==
  \/ \E i \in Slot : Asks(i) \/ Serve(i)
  \/ \E v \in Invite : CreateInvite(v) \/ RevokeInvite(v)
  \/ \E r \in requests : Drop(r)
  \/ \E p \in friends : RemoveFriend(p)
  \/ \E k \in blocks : Unblock(k)
=============================================================================
