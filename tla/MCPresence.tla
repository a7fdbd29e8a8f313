----------------------------- MODULE MCPresence -----------------------------
(* Three accounts, two of them neighbours with a client or two, under loads  *)
(* of what they do.                                                         *)
EXTENDS PresenceProps

CONSTANTS A, B, C, a1, a2, b1, v1

MCInviter == [v \in Invite |-> A]
MCMaxUses == [v \in Invite |-> 1]
MCAcquainted == {{A, B}}
MCOf == [c \in Client |-> IF c = b1 THEN B ELSE A]

Base == [ops |-> {}, asks |-> 0, sets |-> 0, calm |-> TRUE, friends |-> {}, who |-> {A, B},
         clients |-> {a1, b1}, sockets |-> {1, 2, 3},
         pref |-> [a \in Account |-> "online"]]

(* All that makes and ends a friendship, three requests at a time.           *)
Inviting == [Base EXCEPT !.ops = {"accept", "revoke", "crash"}, !.asks = 3, !.who = {B, C}]
Asking == [Base EXCEPT !.ops = {"accept", "request", "acceptRequest", "drop"}, !.asks = 3]
Crossing == [Base EXCEPT !.ops = {"request", "acceptRequest", "remove"}, !.asks = 4]
Blocking == [Base EXCEPT !.ops = {"accept", "block", "unblock", "remove"}, !.asks = 3]
CutOff == [Base EXCEPT !.ops = {"accept", "block", "unblock", "crash"}, !.asks = 2,
                       !.friends = {{A, B}}]
Refusing == [Base EXCEPT !.ops = {"request", "acceptRequest", "block", "unblock"}, !.asks = 3]
(* Devices come and go, and choose a status.                                 *)
Coming == [Base EXCEPT !.ops = {"connect", "close"}, !.clients = {a1, a2, b1}, !.sockets = Socket,
                       !.friends = {{A, B}}]
Shy == [Coming EXCEPT !.pref[A] = "invisible"]
Choosing == [Coming EXCEPT !.ops = {"connect", "close", "set"}, !.sets = 1, !.sockets = {1, 2, 3}]
Losing == [Base EXCEPT !.friends = {{A, B}}, !.ops = {"connect", "close", "closeEarly", "crash"}]
Meeting == [Base EXCEPT !.ops = {"connect", "accept", "set", "close"}, !.asks = 1, !.sets = 1]

AllLoads == {Inviting, Asking, Crossing, Blocking, CutOff, Refusing, Coming, Shy, Choosing, Losing,
             Meeting}
=============================================================================
