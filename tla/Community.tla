----------------------------- MODULE Community -----------------------------
(***************************************************************************)
(* The members of ONE community and of one of its channels, as the server  *)
(* keeps them (apps/server/src/modules/communities/service.ts): invites,   *)
(* joining, roles, moderation, roll-calls, and the flags that ask clients  *)
(* for a new key.  What clients do about the keys is CommunityKeys.         *)
(*                                                                         *)
(* A handler first reads and checks, then writes in later statements that  *)
(* repeat no check, so it is a call that goes through steps, and as many   *)
(* as Slot has interleave.  A transaction is one step at its commit, except *)
(* joinChannelByCode, which holds the invite's row lock from its first      *)
(* read on.  A request that is rejected changes nothing: it is no step.     *)
(***************************************************************************)
EXTENDS Naturals, Sequences, FiniteSets

CONSTANTS
  Account,
  Owner,         \* communities.owner_account_id, who also creates the channel
  ChannelCap,    \* GROUP_KEY_DISCUSSION_MAX_MEMBERS
  MaxUses,       \* max_uses of an invite
  MaxRollcalls,  \* bound on the roll-calls ever started
  Slot,          \* bound: one for each handler that may be in flight
  NoCall,
  Loads          \* the loads a behaviour may have, see `load`

ASSUME CommunityAssumption ==
  /\ Owner \in Account /\ IsFiniteSet(Account)
  /\ ChannelCap \in Nat /\ MaxUses \in Nat /\ MaxRollcalls \in Nat
  /\ \A l \in Loads :
       /\ l.serial \in BOOLEAN /\ l.joins \in {"open", "request"}
       /\ l.inside \subseteq l.members /\ l.members \subseteq Account
       /\ l.mode = "group_key" => Cardinality(l.inside \cup {Owner}) <= ChannelCap

VARIABLES
  member,        \* community_members.status, "none" without a row
  role,          \* community_members.role
  channel,       \* the channel's row and its access, join policy, visibility
  standing,      \* channel_members: status, role and muted of each account
  invite,        \* the invites by code, one to the community and one to the channel
  rollcalls,     \* the roll-calls in order of creation, with their answers
  pending,       \* rotation_pending of the community and of the channel
  call,          \* the handler in flight in each slot
  load           \* bound, frozen: the handlers that arrive, whether one at a
                 \* time, whether the process may stop, the members, leaders
                 \* and members of the channel to begin with, the first
                 \* joinPolicy and the encryptionMode

communityVars == <<member, role, channel, standing, invite, rollcalls, pending>>
vars == <<communityVars, call, load>>

Mode == load.mode

NoStanding == [status |-> "none", role |-> "member", muted |-> FALSE]

IsLeader(a) == member[a] = "active" /\ role[a] \in {"owner", "leader"}

Exists == channel.exists

InChannel(a) == standing[a].status = "active"

(* requireChannelManager: a leader, or an active moderator. *)
IsManager(a) ==
  \/ IsLeader(a)
  \/ member[a] = "active" /\ InChannel(a) /\ standing[a].role = "moderator"

(* A moderator who is no leader cannot touch a leader. *)
MayModerate(m, x) ==
  /\ IsManager(m) /\ m # x
  /\ IsLeader(m) \/ role[x] = "member"

EligibleAnyone(a) == channel.access = "leaders" => IsLeader(a)     \* mutant

Eligible(a) == member[a] = "active" /\ (channel.access = "leaders" => IsLeader(a))

HasPlace ==
  Mode = "group_key" => Cardinality({a \in Account : InChannel(a)}) < ChannelCap

(* Without the channel's row there is no row to update, and no insert. *)
SetStanding(S, changed) ==
  standing' = [a \in Account |->
    IF a \in S /\ Exists THEN changed[a] ELSE standing[a]]

(* activateChannelMember: the upsert sets the status and keeps the rest. *)
Activated(r) == [r EXCEPT !.status = "active"]

Requested(r) == [r EXCEPT !.status = "pending", !.role = "member"]

RemovedKeepingRole(r) == [r EXCEPT !.status = "removed"]           \* mutant

(* The status a kick or an exit leaves; a declined request keeps its role. *)
Removed(r) == [r EXCEPT !.status = "removed", !.role = "member"]

-----------------------------------------------------------------------------
(* Handlers in flight *)

Idle == \A s \in Slot : call[s] = NoCall

Admitted(op) == op \in load.ops /\ (load.serial => Idle)

BeginWith(s, op, a, step, on, arg) ==
  /\ Admitted(op)
  /\ call[s] = NoCall
  /\ call' = [call EXCEPT ![s] = [op |-> op, by |-> a, step |-> step, on |-> on, arg |-> arg]]
  /\ UNCHANGED <<communityVars, load>>

Begin(s, op, a, on, arg) == BeginWith(s, op, a, "write", on, arg)

At(s, op, step) == call[s] # NoCall /\ call[s].op = op /\ call[s].step = step

Done(s) == call' = [call EXCEPT ![s] = NoCall]

Continue(s, step) == call' = [call EXCEPT ![s].step = step]

-----------------------------------------------------------------------------
(* Invites by code.  createCommunityInvite, createChannelInvite (a code),  *)
(* revokeCommunityInvite, their expiry and the hourly pruning.               *)

CreateInvite(k) ==
  /\ Admitted(k) /\ invite[k].state = "none"
  /\ \E a \in Account : IF k = "community" THEN IsLeader(a) ELSE Exists /\ IsManager(a)
  /\ invite' = [invite EXCEPT ![k] = [state |-> "usable", uses |-> 0]]
  /\ UNCHANGED <<member, role, channel, standing, rollcalls, pending, call, load>>

(* Only invites to the community are ever revoked. *)
EndInvite(k) ==
  /\ invite[k].state = "usable"
  /\ invite' = [invite EXCEPT ![k].state = "ended"]
  /\ UNCHANGED <<member, role, channel, standing, rollcalls, pending, call, load>>

(* joinChannelByCode holds the row of the invite: SELECT ... FOR UPDATE. *)
InviteUnlocked == \A t \in Slot : ~At(t, "code", "write")

PruneInvites ==
  /\ InviteUnlocked
  /\ \E k \in DOMAIN invite : invite[k].state = "ended"
  /\ invite' = [k \in DOMAIN invite |->
       IF invite[k].state = "ended" THEN [state |-> "none", uses |-> 0] ELSE invite[k]]
  /\ UNCHANGED <<member, role, channel, standing, rollcalls, pending, call, load>>

Usable(k) == invite[k].state = "usable" /\ invite[k].uses < MaxUses

CountUse(k) == invite' = [invite EXCEPT ![k].uses = @ + 1]

(* acceptCommunityInvite: one transaction under the invite's row lock.  Who *)
(* was removed or left comes back as a plain member.                         *)
AcceptInvite(a) ==
  /\ Admitted("community") /\ Usable("community")
  /\ member[a] # "active"
  /\ member' = [member EXCEPT ![a] = "active"]
  /\ role' = [role EXCEPT ![a] = "member"]
  /\ CountUse("community")
  /\ UNCHANGED <<channel, standing, rollcalls, pending, call, load>>

-----------------------------------------------------------------------------
(* Joining the channel *)

(* What joinChannel decides upon, from the status it reads: an invited       *)
(* account joins, an open channel admits, the others are asked for.          *)
Admission(status) ==
  CASE status \in {"active", "pending"} -> "keep"
    [] status = "invited" -> "activate"
    [] OTHER -> IF channel.joins = "open" THEN "activate" ELSE "request"

JoinStart(s, a) ==
  /\ Exists /\ Eligible(a)
  /\ standing[a].status # "invited" => channel.listed
  /\ LET d == Admission(standing[a].status)
     IN  /\ d # "keep" /\ (d = "activate" => HasPlace)
         /\ Begin(s, "join", a, {a}, d)

Enter(S, d) ==
  SetStanding(S, [a \in Account |->
    IF d = "activate" THEN Activated(standing[a]) ELSE Requested(standing[a])])

JoinWrite(s) ==
  /\ At(s, "join", "write")
  /\ Enter(call[s].on, call[s].arg)
  /\ Done(s)
  /\ UNCHANGED <<member, role, channel, invite, rollcalls, pending, load>>

CodeStart(s, a) ==
  /\ InviteUnlocked /\ Usable("code")
  /\ Exists /\ Eligible(a)
  /\ standing[a].status \notin {"active", "pending"}
  /\ channel.joins = "open" => HasPlace
  /\ Begin(s, "code", a, {a}, IF channel.joins = "open" THEN "activate" ELSE "request")

CodeWrite(s) ==
  /\ At(s, "code", "write")
  /\ Enter(call[s].on, call[s].arg)
  /\ CountUse("code")
  /\ Done(s)
  /\ UNCHANGED <<member, role, channel, rollcalls, pending, load>>

(* resolveJoinRequest *)
ResolveStart(s, m, x) ==
  /\ Exists /\ IsManager(m) /\ standing[x].status = "pending"
  /\ \E d \in {"activate", "decline"} :
       /\ d = "activate" => HasPlace
       /\ Begin(s, "resolve", m, {x}, d)

ResolveWrite(s) ==
  /\ At(s, "resolve", "write")
  /\ SetStanding(call[s].on, [a \in Account |->
       IF call[s].arg = "activate" THEN Activated(standing[a])
       ELSE [standing[a] EXCEPT !.status = "removed"]])
  /\ Done(s)
  /\ UNCHANGED <<member, role, channel, invite, rollcalls, pending, load>>

(* createChannelInvite, targeted: eligible and not in the channel yet. *)
TargetStart(s, m, x) ==
  /\ Exists /\ IsManager(m) /\ Eligible(x) /\ ~InChannel(x)
  /\ Begin(s, "target", m, {x}, "invite")

TargetWrite(s) ==
  /\ At(s, "target", "write")
  /\ SetStanding(call[s].on, [a \in Account |-> [standing[a] EXCEPT !.status = "invited"]])
  /\ Done(s)
  /\ UNCHANGED <<member, role, channel, invite, rollcalls, pending, load>>

-----------------------------------------------------------------------------
(* Moderation *)

(* requestRotation and requestChannelRotation: a statement of their own. *)
Flag(k) == pending' = [pending EXCEPT ![k] = @ \/ k = "meta" \/ Exists]

FlagStep(s, op, k) ==
  /\ At(s, op, "flag")
  /\ Flag(k)
  /\ Done(s)
  /\ UNCHANGED <<member, role, channel, standing, invite, rollcalls, load>>

ModeratorStart(s, l, x) ==
  /\ Exists /\ IsLeader(l) /\ InChannel(x)
  /\ \E r \in {"moderator", "member"} : Begin(s, "moderator", l, {x}, r)

(* setModerator; unsetting one asks for a new K_meta. *)
ModeratorWrite(s) ==
  /\ At(s, "moderator", "write")
  /\ SetStanding(call[s].on, [a \in Account |-> [standing[a] EXCEPT !.role = call[s].arg]])
  /\ IF call[s].arg = "member" THEN Continue(s, "flag") ELSE Done(s)
  /\ UNCHANGED <<member, role, channel, invite, rollcalls, pending, load>>

MuteStart(s, m, x) ==
  /\ Exists /\ MayModerate(m, x) /\ InChannel(x)
  /\ \E b \in BOOLEAN : Begin(s, "mute", m, {x}, b)

MuteWrite(s) ==
  /\ At(s, "mute", "write")
  /\ SetStanding(call[s].on, [a \in Account |-> [standing[a] EXCEPT !.muted = call[s].arg]])
  /\ Done(s)
  /\ UNCHANGED <<member, role, channel, invite, rollcalls, pending, load>>

KickStart(s, m, x) ==
  /\ Exists /\ MayModerate(m, x)
  /\ standing[x].status \notin {"none", "removed"}
  /\ Begin(s, "kick", m, {x}, 0)

(* Only a channel with a shared key asks for a new one. *)
KickWrite(s) ==
  /\ At(s, "kick", "write")
  /\ SetStanding(call[s].on, [a \in Account |-> Removed(standing[a])])
  /\ IF Mode = "group_key" THEN Continue(s, "flag") ELSE Done(s)
  /\ UNCHANGED <<member, role, channel, invite, rollcalls, pending, load>>

RoleStart(s, x) ==
  /\ x # Owner /\ member[x] = "active"
  /\ \E r \in {"leader", "member"} \ {role[x]} : Begin(s, "role", Owner, {x}, r)

(* setMemberRole, by the owner; a demotion asks for a new K_meta. *)
RoleWrite(s) ==
  /\ At(s, "role", "write")
  /\ role' = [a \in Account |-> IF a \in call[s].on THEN call[s].arg ELSE role[a]]
  /\ IF call[s].arg = "member" THEN Continue(s, "flag") ELSE Done(s)
  /\ UNCHANGED <<member, channel, standing, invite, rollcalls, pending, load>>

(* removeMember and leaveCommunity. *)
RemoveStart(s, l, x) ==
  /\ IsLeader(l) /\ x # l /\ member[x] = "active"
  /\ role[x] = "member" \/ (role[x] = "leader" /\ l = Owner)
  /\ Begin(s, "remove", l, {x}, "removed")

LeaveStart(s, a) ==
  /\ member[a] = "active" /\ a # Owner
  /\ Begin(s, "leave", a, {a}, "left")

(* clearChannelMemberships marks the keys the account was using. *)
MarksChannel(S) == Mode = "group_key" /\ \E a \in S : InChannel(a)

ExitWrite(s) ==
  /\ At(s, "remove", "write") \/ At(s, "leave", "write")
  /\ LET S == call[s].on
     IN  /\ member' = [a \in Account |-> IF a \in S THEN call[s].arg ELSE member[a]]
         /\ SetStanding(S, [a \in Account |->
              IF standing[a].status = "none" THEN standing[a] ELSE Removed(standing[a])])
         /\ pending' = [pending EXCEPT !["channel"] = @ \/ MarksChannel(S)]
  /\ Continue(s, "flag")
  /\ UNCHANGED <<role, channel, invite, rollcalls, load>>

FlagMeta(s) == \E op \in {"moderator", "role", "remove", "leave"} : FlagStep(s, op, "meta")

FlagChannel(s) == FlagStep(s, "kick", "channel")

-----------------------------------------------------------------------------
(* The channel itself *)

Policy == [exists : {TRUE}, access : {"members", "leaders"},
           joins : {"open", "request"}, listed : BOOLEAN]

UpdateStart(s, m) ==
  /\ Exists /\ IsManager(m)
  /\ \E p \in Policy \ {channel} : Begin(s, "update", m, {}, p)

(* updateChannel changes the row and nothing else: nobody is removed. *)
UpdateWrite(s) ==
  /\ At(s, "update", "write")
  /\ channel' = IF Exists THEN call[s].arg ELSE channel
  /\ Done(s)
  /\ UNCHANGED <<member, role, standing, invite, rollcalls, pending, load>>

Held == {i \in DOMAIN rollcalls : rollcalls[i].state # "gone"}

(* Rows that deleteChannel does not delete and that reference the channel: *)
(* its pins and roll-calls, and the commitments of its keys.                *)
Referenced == Held # {} \/ Mode = "group_key"

DeleteStart(s, l) == Exists /\ IsLeader(l) /\ Begin(s, "delete", l, {}, 0)

(* One transaction, which fails on a foreign key when a row is left. *)
DeleteWrite(s) ==
  /\ At(s, "delete", "write") /\ InviteUnlocked
  /\ IF Referenced THEN UNCHANGED <<channel, standing, invite>>
     ELSE /\ channel' = [channel EXCEPT !.exists = FALSE]
          /\ standing' = [a \in Account |-> NoStanding]
          /\ invite' = [invite EXCEPT !["code"] = [state |-> "none", uses |-> 0]]
  /\ Done(s)
  /\ UNCHANGED <<member, role, rollcalls, pending, load>>

-----------------------------------------------------------------------------
(* Roll-calls: "who is still here" *)

RollStart(s, m) ==
  /\ Exists /\ IsManager(m) /\ Held = {}
  /\ Len(rollcalls) + Cardinality({t \in Slot : At(t, "roll", "write")}) < MaxRollcalls
  /\ Begin(s, "roll", m, {}, 0)

RollWrite(s) ==
  /\ At(s, "roll", "write")
  /\ rollcalls' = IF Exists THEN Append(rollcalls, [state |-> "open", answers |-> {}])
                  ELSE rollcalls
  /\ Done(s)
  /\ UNCHANGED <<member, role, channel, standing, invite, pending, load>>

(* The deadline, which respondRollcall and sweepRollcall compare with. *)
RollCloses ==
  /\ \E i \in DOMAIN rollcalls :
       /\ rollcalls[i].state = "open"
       /\ rollcalls' = [rollcalls EXCEPT ![i].state = "closed"]
  /\ UNCHANGED <<member, role, channel, standing, invite, pending, call, load>>

(* Any member of the community may answer. *)
AnswerStart(s, a) ==
  /\ Exists /\ member[a] = "active"
  /\ \E i \in DOMAIN rollcalls :
       rollcalls[i].state = "open" /\ a \notin rollcalls[i].answers /\ Begin(s, "answer", a, {a}, i)

AnswerWrite(s) ==
  /\ At(s, "answer", "write")
  /\ rollcalls' = IF call[s].arg \in Held
                  THEN [rollcalls EXCEPT ![call[s].arg].answers = @ \cup call[s].on]
                  ELSE rollcalls
  /\ Done(s)
  /\ UNCHANGED <<member, role, channel, standing, invite, pending, load>>

NobodyExempt(i) == {a \in Account : InChannel(a)}                  \* mutant

(* Active, without an answer, neither owner nor leader nor moderator. *)
Silent(i) ==
  {a \in Account : InChannel(a) /\ a \notin rollcalls[i].answers
                   /\ ~IsManager(a) /\ standing[a].role # "moderator"}

SweepStart(s, m) ==
  /\ Exists /\ IsManager(m)
  /\ \E i \in Held :
       /\ rollcalls[i].state = "closed"
       /\ \A j \in Held : j <= i
       /\ BeginWith(s, "sweep", m, IF Silent(i) = {} THEN "consume" ELSE "write", Silent(i), i)

SweepWrite(s) ==
  /\ At(s, "sweep", "write")
  /\ SetStanding(call[s].on, [a \in Account |-> [standing[a] EXCEPT !.status = "removed"]])
  /\ Continue(s, IF Mode = "group_key" THEN "flag" ELSE "consume")
  /\ UNCHANGED <<member, role, channel, invite, rollcalls, pending, load>>

SweepFlag(s) ==
  /\ At(s, "sweep", "flag")
  /\ Flag("channel")
  /\ Continue(s, "consume")
  /\ UNCHANGED <<member, role, channel, standing, invite, rollcalls, load>>

(* consumeRollcall; its answers go with it. *)
SweepConsume(s) ==
  /\ At(s, "sweep", "consume")
  /\ rollcalls' = [rollcalls EXCEPT ![call[s].arg].state = "gone"]
  /\ Done(s)
  /\ UNCHANGED <<member, role, channel, standing, invite, pending, load>>

(* pruneRollcalls: seven days after a deadline nobody swept. *)
PruneRollcalls ==
  /\ \E i \in DOMAIN rollcalls :
       /\ rollcalls[i].state = "closed"
       /\ rollcalls' = [rollcalls EXCEPT ![i].state = "gone"]
  /\ UNCHANGED <<member, role, channel, standing, invite, pending, call, load>>

-----------------------------------------------------------------------------
(* The process stops: what was in flight is not resumed. *)
Restart ==
  /\ load.crash /\ ~Idle
  /\ call' = [s \in Slot |-> NoCall]
  /\ UNCHANGED <<communityVars, load>>

(* createCommunity and createChannel; and what the load's members did since. *)
Init ==
  /\ load \in Loads
  /\ member = [a \in Account |-> IF a \in load.members \cup {Owner} THEN "active" ELSE "none"]
  /\ role = [a \in Account |-> CASE a = Owner -> "owner"
                                [] a \in load.leaders -> "leader"
                                [] OTHER -> "member"]
  /\ channel = [exists |-> TRUE, access |-> "members", joins |-> load.joins, listed |-> TRUE]
  /\ standing = [a \in Account |->
       IF a = Owner THEN [status |-> "active", role |-> "moderator", muted |-> FALSE]
       ELSE IF a \in load.inside THEN Activated(NoStanding) ELSE NoStanding]
  /\ invite = [k \in {"community", "code"} |-> [state |-> "none", uses |-> 0]]
  /\ rollcalls = << >>
  /\ pending = [k \in {"meta", "channel"} |-> FALSE]
  /\ call = [s \in Slot |-> NoCall]

Arrive(s) ==
  \E a \in Account :
    \/ JoinStart(s, a) \/ CodeStart(s, a) \/ LeaveStart(s, a) \/ RoleStart(s, a)
    \/ UpdateStart(s, a) \/ DeleteStart(s, a)
    \/ RollStart(s, a) \/ AnswerStart(s, a) \/ SweepStart(s, a)
    \/ \E x \in Account :
         \/ ResolveStart(s, a, x) \/ TargetStart(s, a, x) \/ ModeratorStart(s, a, x)
         \/ MuteStart(s, a, x) \/ KickStart(s, a, x) \/ RemoveStart(s, a, x)

Proceed(s) ==
  \/ JoinWrite(s) \/ CodeWrite(s) \/ ResolveWrite(s) \/ TargetWrite(s)
  \/ ModeratorWrite(s) \/ MuteWrite(s) \/ KickWrite(s) \/ RoleWrite(s) \/ ExitWrite(s)
  \/ FlagMeta(s) \/ FlagChannel(s) \/ UpdateWrite(s) \/ DeleteWrite(s)
  \/ RollWrite(s) \/ AnswerWrite(s) \/ SweepWrite(s) \/ SweepFlag(s) \/ SweepConsume(s)

Alone ==
  \/ \E k \in {"community", "code"} : CreateInvite(k) \/ EndInvite(k)
  \/ \E a \in Account : AcceptInvite(a)
  \/ PruneInvites \/ RollCloses \/ PruneRollcalls \/ Restart

Next == (\E s \in Slot : Arrive(s) \/ Proceed(s)) \/ Alone

Spec == Init /\ [][Next]_vars

FairSpec == Spec /\ \A s \in Slot : WF_vars(Proceed(s))
=============================================================================
