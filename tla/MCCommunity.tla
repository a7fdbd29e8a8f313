---------------------------- MODULE MCCommunity ----------------------------
(* A community of an owner and two other accounts, and the loads it is      *)
(* checked under: the handlers of a load are those that interact.           *)
EXTENDS CommunityProps, TLC

CONSTANTS o, a, b, s1, s2

Load(ops, serial, joins, mode) ==
  [ops |-> ops, serial |-> serial, crash |-> FALSE, joins |-> joins, mode |-> mode,
   members |-> {a, b}, leaders |-> {}, inside |-> {}]

(* One handler at a time. *)
Entry == Load({"join", "code", "resolve", "target", "kick", "remove", "community", "mute"},
              TRUE, "request", "group_key")
Ranks == Load({"join", "role", "moderator", "kick", "leave", "community", "mute"},
              TRUE, "open", "mls")
Calling == Load({"join", "roll", "answer", "sweep", "moderator", "role"}, TRUE, "open", "group_key")
Shape == Load({"join", "update", "delete", "target", "code", "mute"}, TRUE, "open", "mls")

(* Two handlers at a time, one of which a restart may cut short. *)
Codes == [Load({"code", "delete"}, FALSE, "open", "mls") EXCEPT !.crash = TRUE]
Mutes == Load({"join", "mute", "kick", "leave"}, FALSE, "open", "group_key")

Alike == Permutations({a, b})

AllLoads == {Entry, Ranks, Calling, Shape, Codes, Mutes}
=============================================================================
