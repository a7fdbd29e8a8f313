--------------------------- MODULE CommunityProps ---------------------------
(* What the server promises about the members of a community and a channel. *)
EXTENDS Community

(* The state has the shape the tables give it, and no row outlives its      *)
(* channel.                                                                 *)
CommunityTypeOK ==
  /\ member \in [Account -> {"none", "active", "left", "removed"}]
  /\ role \in [Account -> {"owner", "leader", "member"}]
  /\ channel \in [exists : BOOLEAN, access : {"members", "leaders"},
                  joins : {"open", "request"}, listed : BOOLEAN]
  /\ standing \in [Account -> [status : {"none", "invited", "pending", "active", "removed"},
                               role : {"moderator", "member"}, muted : BOOLEAN]]
  /\ invite \in [{"community", "code"} -> [state : {"none", "usable", "ended"}, uses : Nat]]
  /\ \A i \in DOMAIN rollcalls :
       rollcalls[i].state \in {"open", "closed", "gone"} /\ rollcalls[i].answers \subseteq Account
  /\ pending \in [{"meta", "channel"} -> BOOLEAN]
  /\ ~channel.exists => standing = [a \in Account |-> NoStanding]

(* An invite by code never admits more accounts than it says, however many  *)
(* redeem it at once: joinChannelByCode counts under the invite's row lock. *)
UsesBounded == \A k \in DOMAIN invite : invite[k].uses <= MaxUses

(* With one handler at a time, the active members of the channel are active *)
(* members of the community: both exits clear the channel's memberships.    *)
MembersOnly == load.serial => \A a \in Account : InChannel(a) => member[a] = "active"

(* With one handler at a time, an approval, an accepted invite and a join   *)
(* all stop at the limit of members of a channel with a shared key.         *)
ChannelCapHolds ==
  load.serial /\ Mode = "group_key" => Cardinality({a \in Account : InChannel(a)}) <= ChannelCap

(* Nobody is in a channel who is not in the community, and no limit on who  *)
(* gets in is passed.                                                        *)
MembershipInvariant == CommunityTypeOK /\ UsesBounded /\ MembersOnly /\ ChannelCapHolds

Enters(a) == ~InChannel(a) /\ InChannel(a)'

(* Nobody enters a channel that asks for approval without a manager having  *)
(* invited or approved them, and nobody who was kicked, swept or gone comes  *)
(* back as its moderator, on whatever way they once left it.                  *)
EntersProperly ==
  [][load.serial => \A a \in Account : Enters(a) =>
       /\ standing'[a].role = "member"
       /\ channel.joins = "request" =>
            \/ standing[a].status = "invited"
            \/ standing[a].status = "pending" /\ \E s \in Slot : At(s, "resolve", "write")]_vars

(* A roll-call removes only members who did not answer it and manage        *)
(* nothing, when no handler runs beside the sweep.                          *)
SweepSpares ==
  [][\A s \in Slot : load.serial /\ At(s, "sweep", "write") =>
       \A a \in Account : InChannel(a) /\ ~InChannel(a)' =>
         ~IsManager(a) /\ a \notin rollcalls[call[s].arg].answers]_vars
=============================================================================
