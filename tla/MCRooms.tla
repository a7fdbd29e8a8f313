------------------------------ MODULE MCRooms ------------------------------
(* Rooms with a creator h and two other accounts, for two members. *)
EXTENDS RoomsProps

CONSTANTS h, a, b, s1, s2

(* Handlers that run one after the other; ... *)
Serial == [slots |-> {s1}, ops |-> {"kick", "phase", "close", "prune"}, requests |-> 2]
(* ... two at once, of a room that is open throughout or never asked to be *)
(* let in; ...                                                               *)
Crowding == [Serial EXCEPT !.slots = Slot, !.requests = 0]
(* ... and two at once, of a room in which requests are made and resolved. *)
Resolving == [Crowding EXCEPT !.ops = {"phase"}, !.requests = 1]

AllLoads == {Serial, Crowding, Resolving}
=============================================================================
