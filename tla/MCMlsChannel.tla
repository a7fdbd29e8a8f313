---------------------------- MODULE MCMlsChannel ----------------------------
(* A channel of an owner and two members, under loads of what they do. *)
EXTENDS MlsChannelProps

CONSTANTS own, ann, ben

Base == [ops |-> {}, faults |-> 0, joined |-> {own, ann}, users |-> Account,
         capped |-> Account]

(* A channel is founded and joined, with a request lost ... *)
Founding == [Base EXCEPT !.ops = {"found", "open", "join"}, !.faults = 1, !.joined = {},
                         !.users = {ann, ben}]
(* ... its members are swept as others join ... *)
Sweeping == [Base EXCEPT !.ops = {"join", "sweep"}, !.users = {ann, ben}]
(* ... are kicked, or swept, and return ... *)
Kicking == [Base EXCEPT !.ops = {"open", "join", "kick", "send"}, !.users = {ann, ben}]
Returning == [Kicking EXCEPT !.ops = {"join", "sweep", "send"}, !.users = {ann}]
(* ... a member leaves the community while the others check and send ... *)
Checking == [Base EXCEPT !.ops = {"open", "send", "leave"}, !.faults = 1, !.joined = Account,
                         !.users = {ann}, !.capped = {own}]
(* ... or while somebody joins. *)
Late == [Base EXCEPT !.ops = {"open", "join", "send", "leave"}, !.users = {ben},
                     !.capped = {own}]

AllLoads == {Founding, Sweeping, Kicking, Returning, Checking, Late}
=============================================================================
