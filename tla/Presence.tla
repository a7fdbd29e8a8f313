------------------------------ MODULE Presence ------------------------------
(***************************************************************************)
(* Who is seen online (modules/presence, stores/presence.ts of the Hub),   *)
(* composed with Friends, which it reads and which announces to it.        *)
(*                                                                         *)
(* The server runs one handler until its next await: a status is computed  *)
(* in one piece and the friends are read in another.  What a socket sends  *)
(* arrives in order, so a message sent is a message handled.               *)
(***************************************************************************)
EXTENDS Friends

CONSTANTS
  Client,       \* the Hub, on the devices of the accounts
  Of,           \* Of[c]: the account of client c
  Socket        \* bound: each is opened once

ASSUME PresenceAssumption ==
  /\ Of \in [Client -> Account]
  /\ Loads \subseteq [ops : SUBSET STRING, asks : Nat, sets : Nat, calm : BOOLEAN,
                      friends : SUBSET Pairs, who : SUBSET Account, clients : SUBSET Client,
                      sockets : SUBSET Socket, pref : [Account -> {"online", "away", "invisible"}]]

VARIABLES
  socket,       \* [step, open, client, first, friends]: the gateway's
                \* connection, and how far its onConnect is
  registered,   \* the ConnectionRegistry
  live,         \* PresenceService.live, "none" without an entry
  casts,        \* broadcasts that await their friends: [of, status, to]
  view,         \* usePresence.statuses of each client
  self,         \* usePresence.self of each client
  lost,         \* history: sockets closed before they were registered
  unsure        \* history: <<client, account>>, told of it from incomplete reads

presenceVars == <<socket, registered, live, casts, view, self, lost, unsure>>
vars == <<friendVars, presenceVars>>

Visible == {"online", "away"}
Statuses == Visible \cup {"invisible"}
Fresh == [step |-> "none", open |-> FALSE, client |-> CHOOSE c \in Client : TRUE,
          first |-> FALSE, friends |-> {}]
Unread == {"unread"}

-----------------------------------------------------------------------------
(* The registry, and what it knows *)

AccountOf(s) == Of[socket[s].client]
SocketsOf(a) == {s \in registered : AccountOf(s) = a}

(* isAccountOnline *)
Online(a) == SocketsOf(a) # {}

(* effectiveStatus *)
Effective(a) ==
  IF ~Online(a) \/ live[a] = "invisible" THEN "offline"
  ELSE IF live[a] = "none" THEN "online" ELSE live[a]

(* Until its preference is read an account counts as online. *)
Guessed(a) == Online(a) /\ live[a] = "none" /\ load.pref[a] # "online"

(* The clients a message to the accounts A reaches. *)
Reached(A) == {c \in Client : \E s \in registered : socket[s].client = c /\ socket[s].open
                                                    /\ Of[c] \in A}

Show(v, A, a, status) ==
  [c \in Client |-> IF c \in Reached(A) THEN [v[c] EXCEPT ![a] = status] ELSE v[c]]

(* In a calm load what changes an account's status is not begun before      *)
(* what changed it last is over.                                            *)
Working(s) == socket[s].step \in {"hello", "pref", "friends", "show"}
Busy(a) ==
  \/ \E s \in Socket : Working(s) /\ AccountOf(s) = a
  \/ \E k \in casts : k.of = a
  \/ \E i \in Slot : call[i].step \in {"form", "found", "announce"} /\ a \in {call[i].by, call[i].from}
MayChange(a) == load.calm => ~Busy(a)

-----------------------------------------------------------------------------
(* Connecting *)

Connected(c) == \E s \in Socket : socket[s].client = c /\ socket[s].open

Connect(s, c) ==
  /\ "connect" \in load.ops
  /\ socket[s] = Fresh /\ \A t \in Socket : t < s => socket[t] # Fresh
  /\ s \in load.sockets /\ c \in load.clients /\ ~Connected(c) /\ MayChange(Of[c])
  /\ socket' = [socket EXCEPT ![s] = [Fresh EXCEPT !.step = "hello", !.open = TRUE, !.client = c]]
  /\ UNCHANGED <<friendVars, registered, live, casts, view, self, lost, unsure>>

(* The hello is answered: registry.add, and onConnect up to its first await.  *)
Join(s) ==
  /\ socket[s].step = "hello"
  /\ registered' = registered \cup {s}
  /\ socket' = [socket EXCEPT ![s].step = IF live[AccountOf(s)] = "none" THEN "pref" ELSE "friends",
                              ![s].first = SocketsOf(AccountOf(s)) = {}]
  /\ UNCHANGED <<friendVars, live, casts, view, self, lost, unsure>>

ReadPref(s) ==
  /\ socket[s].step = "pref"
  /\ live' = [live EXCEPT ![AccountOf(s)] = load.pref[AccountOf(s)]]
  /\ socket' = [socket EXCEPT ![s].step = "friends"]
  /\ UNCHANGED <<friendVars, registered, casts, view, self, lost, unsure>>

(* friendAccountIds *)
ReadFriends(s) ==
  /\ socket[s].step = "friends"
  /\ socket' = [socket EXCEPT ![s].step = "show", ![s].friends = FriendsOf(AccountOf(s))]
  /\ UNCHANGED <<friendVars, registered, live, casts, view, self, lost, unsure>>

(* The snapshot replaces what the client knew. *)
WithSnapshot(s) ==
  [view EXCEPT ![socket[s].client] =
     IF socket[s].open
     THEN [a \in Account |-> IF a \in socket[s].friends THEN Effective(a) ELSE "offline"]
     ELSE @]

(* Only the first socket of an account tells its friends. *)
Tells(s) == socket[s].first

Snapshot(s) ==
  /\ socket[s].step = "show"
  /\ LET a == AccountOf(s)
     IN  view' = IF Tells(s) /\ Effective(a) # "offline"
                 THEN Show(WithSnapshot(s), socket[s].friends, a, Effective(a))
                 ELSE WithSnapshot(s)
  /\ unsure' = unsure \cup {<<socket[s].client, a>> : a \in
       {b \in FriendsOf(AccountOf(s)) : Guessed(b) \/ b \notin socket[s].friends}}
  /\ socket' = [socket EXCEPT ![s].step = "up", ![s].friends = {}]
  /\ UNCHANGED <<friendVars, registered, live, casts, self, lost>>

-----------------------------------------------------------------------------
(* Disconnecting *)

(* onDisconnect up to its first await, the sockets r being left *)
LiveAfter(r, a) ==
  IF \E s \in r : AccountOf(s) = a THEN live ELSE [live EXCEPT ![a] = "none"]

Leaves(r, a) == ~(\E s \in r : AccountOf(s) = a) /\ live[a] # "invisible"

OnDisconnect(r, a) ==
  /\ live' = LiveAfter(r, a)
  /\ casts' = IF Leaves(r, a) THEN casts \cup {[of |-> a, status |-> "offline", to |-> Unread]}
              ELSE casts

(* registry.remove *)
Removed(s) == registered \ {s}

Close(s) ==
  /\ "close" \in load.ops /\ s \in registered /\ socket[s].open
  /\ load.calm => ~Busy(AccountOf(s))
  /\ registered' = Removed(s)
  /\ OnDisconnect(Removed(s), AccountOf(s))
  /\ socket' = [socket EXCEPT ![s].open = FALSE]
  /\ UNCHANGED <<friendVars, view, self, lost, unsure>>

(* A socket that closes during its hello is registered all the same, and    *)
(* never removed; onDisconnect runs if its session was known.               *)
CloseEarly(s) ==
  /\ "closeEarly" \in load.ops /\ socket[s].step = "hello" /\ socket[s].open
  /\ socket' = [socket EXCEPT ![s].open = FALSE]
  /\ lost' = lost \cup {s}
  /\ \/ OnDisconnect(registered, AccountOf(s))
     \/ UNCHANGED <<live, casts>>
  /\ UNCHANGED <<friendVars, registered, view, self, unsure>>

-----------------------------------------------------------------------------
(* Choosing *)

Differs(before, after) == before # after

(* setSelf, and presence.set on the server if the client is connected       *)
SetSelf(c, status) ==
  /\ "set" \in load.ops /\ load.sets > 0 /\ status # self[c]
  /\ c \in load.clients /\ MayChange(Of[c])
  /\ self' = [self EXCEPT ![c] = status]
  /\ LET a == Of[c]
         after == IF status = "invisible" THEN "offline" ELSE status
     IN  IF \E s \in registered : socket[s].client = c /\ socket[s].open
         THEN /\ live' = [live EXCEPT ![a] = status]
              /\ casts' = IF Differs(Effective(a), after)
                          THEN casts \cup {[of |-> a, status |-> after, to |-> Unread]}
                          ELSE casts
         ELSE UNCHANGED <<live, casts>>
  /\ load' = [load EXCEPT !.sets = @ - 1]
  /\ UNCHANGED <<rows, call, notes, socket, registered, view, lost, unsure>>

-----------------------------------------------------------------------------
(* broadcast *)

ReadTargets(k) ==
  /\ k \in casts /\ k.to = Unread
  /\ casts' = (casts \ {k}) \cup {[k EXCEPT !.to = FriendsOf(k.of)]}
  /\ UNCHANGED <<friendVars, socket, registered, live, view, self, lost, unsure>>

Send(k) ==
  /\ k \in casts /\ k.to # Unread
  /\ view' = Show(view, k.to, k.of, k.status)
  /\ casts' = casts \ {k}
  /\ UNCHANGED <<friendVars, socket, registered, live, self, lost, unsure>>

-----------------------------------------------------------------------------
(* What is joint with Friends *)

SendsNothing(a, b) == view                                         \* mutant

(* Both are told of each other, the snapshots predate the friendship.  The   *)
(* Hub keeps what it is sent.                                               *)
Introduced(a, b) == Show(Show(view, {a}, b, Effective(b)), {b}, a, Effective(a))

Announce(i) ==
  /\ call[i].step = "announce"
  /\ view' = Introduced(call[i].by, call[i].from)
  /\ unsure' = unsure \cup
       {k \in Client \X {call[i].by, call[i].from} : k[2] # Of[k[1]] /\ Guessed(k[2])}
  /\ End(i)
  /\ UNCHANGED <<rows, notes, load, socket, registered, live, casts, self, lost>>

(* The server restarts: transactions are rolled back, memory is lost.        *)
Crash ==
  /\ "crash" \in load.ops /\ ~crashed
  /\ crashed' = TRUE
  /\ call' = [i \in Slot |-> Idle]
  /\ registered' = {} /\ casts' = {}
  /\ live' = [a \in Account |-> "none"]
  /\ socket' = [s \in Socket |-> IF socket[s] = Fresh THEN Fresh
                                 ELSE [socket[s] EXCEPT !.step = "up", !.open = FALSE]]
  /\ late' = late \cup {{call[i].by, call[i].from} : i \in {j \in Slot : Is(j, "block", "sever")}}
  /\ UNCHANGED <<rows, formed, redone, accepted, crossing, load, view, self, lost, unsure>>

-----------------------------------------------------------------------------
Init ==
  /\ FriendsInit
  /\ socket = [s \in Socket |-> Fresh]
  /\ registered = {} /\ casts = {} /\ lost = {} /\ unsure = {}
  /\ live = [a \in Account |-> "none"]
  /\ view = [c \in Client |-> [a \in Account |-> "offline"]]
  /\ self = [c \in Client |-> "online"]

Work(s) == Join(s) \/ ReadPref(s) \/ ReadFriends(s) \/ Snapshot(s)

Broadcasts == \E k \in casts : ReadTargets(k) \/ Send(k)

Next ==
  \/ FriendsNext /\ UNCHANGED presenceVars
  \/ \E i \in Slot : Announce(i)
  \/ \E s \in Socket : Work(s) \/ Close(s) \/ CloseEarly(s) \/ \E c \in Client : Connect(s, c)
  \/ \E c \in Client, status \in Statuses : SetSelf(c, status)
  \/ Broadcasts
  \/ Crash

(* What is begun is gone on with; the users need do nothing. *)
Spec == Init /\ [][Next]_vars
FairSpec ==
  /\ Spec
  /\ \A i \in Slot : WF_vars((Serve(i) /\ UNCHANGED presenceVars) \/ Announce(i))
  /\ \A s \in Socket : WF_vars(Work(s))
  /\ WF_vars(Broadcasts)
=============================================================================
