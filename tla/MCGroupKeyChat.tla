--------------------------- MODULE MCGroupKeyChat ---------------------------
(* The messages of a channel with a moderator and two members, under loads  *)
(* of what they send and of what crosses it.                                 *)
EXTENDS GroupKeyChatProps

CONSTANTS a, b, c

Base == [present |-> {a, b}, online |-> {a, b}, senders |-> {a}, kinds |-> {"text"},
         logs |-> 2, pulls |-> 1, sends |-> 1, may |-> {}, fickle |-> {b}]

(* Both send, under keys that rotate; nudges overtake each other. *)
Texts == [Base EXCEPT !.pulls = 2, !.may = {"rotate"}]
(* A client comes and goes. *)
Away == [Base EXCEPT !.senders = {a, b}, !.online = {a}, !.may = {"offline"}]
Closing == [Base EXCEPT !.may = {"close"}]
Twice == [Base EXCEPT !.sends = 2]
(* Edits, deletions and removals cross. *)
Edits == [Base EXCEPT !.kinds = {"text", "edit", "delete"}, !.may = {"remove"}]
Reactions == [Base EXCEPT !.senders = {a, b}, !.kinds = {"text", "react", "unreact", "delete"},
                          !.logs = 3]
(* One of two viewers opens a text. *)
Views == [Base EXCEPT !.present = {a, b, c}, !.online = {a, b, c}, !.senders = {a, b},
                      !.kinds = {"text", "consume"}]
(* A member is kicked and comes back, and capabilities come and go. *)
Exits == [Base EXCEPT !.senders = {b}, !.may = {"kick", "rotate", "meta"}]

AllLoads == {Texts, Away, Closing, Twice, Edits, Reactions, Views, Exits}
=============================================================================
