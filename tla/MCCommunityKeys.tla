-------------------------- MODULE MCCommunityKeys --------------------------
(* The keys of a community of an owner, a leader and a member, under loads  *)
(* of handlers and client tasks that interact.                              *)
EXTENDS CommunityKeysProps

CONSTANTS o, l, x, s1

Base == [ops |-> {}, serial |-> TRUE, crash |-> FALSE, joins |-> "open", mode |-> "group_key",
         members |-> {l, x}, leaders |-> {l}, inside |-> {l, x}, tasks |-> {}, lossy |-> FALSE,
         open |-> {o, l, x}, epochs |-> 1]

(* A kick while two managers rotate and grant, with lost answers. *)
Kicked == [Base EXCEPT !.ops = {"kick"}, !.tasks = {"rotate", "grant"}, !.lossy = TRUE, !.epochs = 2]
(* A kicked member joins again, and everyone fetches. *)
Returns == [Base EXCEPT !.ops = {"kick", "join"}, !.tasks = {"rotate", "fetch", "grant"},
                        !.open = {o, x}]
(* Sending while a member is kicked. *)
Sending == [Base EXCEPT !.ops = {"kick"}, !.tasks = {"rotate", "send"}, !.epochs = 2,
                        !.open = {o, x}]
(* A member is made leader, or a leader a member, and rotates. *)
Promoted == [Base EXCEPT !.ops = {"kick", "role"}, !.tasks = {"rotate", "fetch"},
                         !.open = {l, x}]
(* The community's own key: removals and comings back. *)
Leaving == [Base EXCEPT !.ops = {"remove", "community"}, !.open = {o, x},
                        !.members = {x}, !.leaders = {}, !.inside = {x},
                        !.tasks = {"meta", "metaFetch", "metaGrant"}]
(* Who may attest whom, while ranks change and the key does. *)
Ranks == [Base EXCEPT !.ops = {"role"}, !.tasks = {"meta", "caps"}, !.open = {o, l}]
Moderators == [Base EXCEPT !.ops = {"moderator"}, !.tasks = {"caps"}, !.open = {l}]

AllLoads == {Kicked, Returns, Sending, Promoted, Leaving, Ranks, Moderators}
====
