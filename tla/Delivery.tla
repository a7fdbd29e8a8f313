------------------------------ MODULE Delivery ------------------------------
(***************************************************************************)
(* The delivery service of the server (apps/server/src/modules/delivery)   *)
(* for ONE group: the row of `groups`, its leaves, its mailbox, the        *)
(* pending welcomes and the delivery cursors.  Every handler that writes   *)
(* these rows runs in a transaction that holds the group's row lock, or is *)
(* a single statement, so each is one action.  The one handler that checks *)
(* outside its transaction, the epoch-0 GroupInfo publish, is two.         *)
(*                                                                         *)
(* Rejected requests change nothing (the transaction aborts) and are the   *)
(* absence of a step.                                                      *)
(***************************************************************************)
EXTENDS Integers, FiniteSets

CONSTANTS
  Device,       \* devices that may ever speak for the group
  Account,      \* their owners
  Owner,        \* Owner[d]: the account of device d
  Kinds,        \* the kinds of groups there are, see groupKind
  Founder,      \* rooms.host_account_id / channels.created_by at creation
  Publishers,   \* devices that may publish the epoch-0 GroupInfo
  Ackers,       \* Ackers[k]: devices whose acknowledgements reach the server
  Deleters,     \* Deleters[k]: accounts that delete messages of theirs
  MaxHorizon,   \* bound on the rows that grow older than a retention
  Revocable,    \* Revocable[k]: devices whose account may revoke them
  Cap,          \* ROOM_MAX_DEVICES / MLS_CHANNEL_MAX_DEVICES
  MemberCap,    \* effective devices-per-member limit of a channel
  Payload,      \* opaque ciphertexts and GroupInfos
  NoInfo,       \* groups.group_info IS NULL
  MaxSeq        \* bound on groups.last_seq

ASSUME DeliveryAssumption ==
  /\ Owner \in [Device -> Account]
  /\ Kinds \subseteq {"dm", "room", "channel", "group_key"}
  /\ Founder \in Account
  /\ Publishers \subseteq Device
  /\ Ackers \in [Kinds -> SUBSET Device]
  /\ Deleters \in [Kinds -> SUBSET Account]
  /\ MaxHorizon \in Nat
  /\ Revocable \in [Kinds -> SUBSET Device]
  /\ Cap \in Nat
  /\ MemberCap \in Nat
  /\ MaxSeq \in Nat
  /\ NoInfo \notin [epoch : Nat, data : Payload]

VARIABLES
  groupKind,    \* groups.kind; "group_key" is a channel in that encryption mode
  epoch,        \* groups.current_epoch
  lastSeq,      \* groups.last_seq
  groupInfo,    \* groups.group_info with group_info_epoch
  added,        \* group_members.added_epoch, -1 when the device has no row
  removed,      \* group_members.removed_epoch, -1 for NULL
  mailbox,      \* the rows of mls_messages
  welcomes,     \* the rows of welcomes
  acked,        \* mls_cursors.acked_seq, 0 when the device has no row
  status,       \* room_members / channel_members status, per account
  managers,     \* the host of a room; owner, leaders, moderators of a channel
  silenced,     \* accounts a channel bars from posting (mute, post policy)
  revoked,      \* devices.status = 'revoked'
  publishing,   \* publishes that passed their checks and not yet stored
  expiredTo,    \* history variable: the rows some pruning found too old
  history,      \* history variable: every row ever inserted
  withdrawn     \* history variable: the seqs deleted by their author

groupVars == <<epoch, lastSeq, groupInfo, added, removed>>
standingVars == <<groupKind, status, managers, silenced, revoked>>
vars == <<groupVars, mailbox, welcomes, acked, standingVars, publishing,
          expiredTo, history, withdrawn>>

Absent == -1

Row == [seq : Nat \ {0}, kind : {"commit", "application"}, epoch : Nat,
        sender : Device, data : Payload,
        adds : SUBSET Device, removes : SUBSET Device]

Welcome == [seq : Nat, to : Device, data : Payload]

Greatest(m, n) == IF m >= n THEN m ELSE n

-----------------------------------------------------------------------------
(* group_members with removed_epoch IS NULL: the current MLS leaves. *)
Leaves == {d \in Device : added[d] # Absent /\ removed[d] = Absent}

IsActive(a) == status[a] = "active"

(* Only the pair of a DM, the active members of a room, the eligible active *)
(* members of a channel may commit or be added.                             *)
Authorised(d) == IsActive(Owner[d])

(* The very first commit of a DM needs no leaf: it is the creator's. *)
IsFirstCommit == groupKind = "dm" /\ Leaves = {}

AddedBy(d, adds) == IF IsFirstCommit THEN adds \cup {d} ELSE adds

LeavesAfter(adds, removes) == (Leaves \ removes) \cup adds

(* A manager removes anyone.  Anyone else only cleans up after members who *)
(* left a room or are no longer active in a channel.                        *)
MayRemove(a, x) ==
  \/ groupKind = "dm"
  \/ a \in managers
  \/ groupKind = "room" /\ status[Owner[x]] = "gone"
  \/ groupKind = "channel" /\ ~IsActive(Owner[x])

WithinCapOfGroup(adds, removes) ==          \* mutant: no limit per member
  groupKind \in {"room", "channel"} => Cardinality(LeavesAfter(adds, removes)) <= Cap

WithinCaps(adds, removes) ==
  LET after == LeavesAfter(adds, removes)
  IN  /\ groupKind \in {"room", "channel"} => Cardinality(after) <= Cap
      /\ groupKind = "channel" =>
           \A x \in adds :
             Cardinality({y \in after : Owner[y] = Owner[x]}) <= MemberCap

AtAnyEpoch(e) == e <= epoch                 \* mutant of the next two

AtEpoch(e) == e = epoch

(* The current epoch and one behind: a commit racing a message. *)
InEpochWindow(e) == e = epoch \/ e = epoch - 1

CommitAccepted(d, e, adds, welcomed, removes) ==
  /\ groupKind # "group_key"
  /\ Authorised(d)
  /\ AtEpoch(e)
  /\ d \in Leaves \/ d \in adds \/ IsFirstCommit
  /\ \A x \in adds \cup welcomed : Authorised(x) /\ x \notin revoked
  /\ \A x \in removes : MayRemove(Owner[d], x)
  /\ WithinCaps(AddedBy(d, adds), removes)

NewSeq == lastSeq + 1

NewRow(kind, e, d, data, adds, removes) ==
  [seq |-> NewSeq, kind |-> kind, epoch |-> e, sender |-> d, data |-> data,
   adds |-> adds, removes |-> removes]

Insert(row) ==
  /\ lastSeq' = lastSeq + 1
  /\ mailbox' = mailbox \cup {row}
  /\ history' = history \cup {row}

UpsertKeepsRemoval(joined, removes) ==      \* mutant: the upsert leaves removed_epoch
  [x \in Device |-> IF x \in removes /\ x \in Leaves THEN epoch + 1 ELSE removed[x]]

(* removed_epoch after the upsert of the adds and then the removes: a device *)
(* both added and removed by one commit ends up removed.                      *)
RemovedEpochs(joined, removes) ==
  [x \in Device |->
     IF x \in removes /\ (x \in joined \/ x \in Leaves) THEN epoch + 1
     ELSE IF x \in joined THEN Absent ELSE removed[x]]

InfoOfOldEpoch(info) == [epoch |-> epoch, data |-> info]     \* mutant

InfoOfNewEpoch(info) == [epoch |-> epoch + 1, data |-> info]

(* postCommit *)
PostCommit(d, e, adds, removes, welcomed, data, info) ==
  /\ CommitAccepted(d, e, adds, welcomed, removes)
  /\ LET joined == AddedBy(d, adds)
     IN  /\ epoch' = epoch + 1
         /\ groupInfo' = InfoOfNewEpoch(info)
         /\ added' = [x \in Device |-> IF x \in joined THEN epoch + 1 ELSE added[x]]
         /\ removed' = RemovedEpochs(joined, removes)
         /\ Insert(NewRow("commit", e, d, data, joined, removes))
         /\ welcomes' = welcomes \cup
              {[seq |-> lastSeq + 1, to |-> x, data |-> info] : x \in welcomed}
  /\ UNCHANGED <<acked, standingVars, publishing, expiredTo, withdrawn>>

(* Who may post an application message, by kind of group. *)
MayPost(d) ==
  /\ groupKind = "group_key" \/ d \in Leaves
  /\ groupKind \in {"channel", "group_key"} =>
       IsActive(Owner[d]) /\ Owner[d] \notin silenced

(* postMessage: a group_key channel skips the MLS epoch, its payload carries *)
(* its own key epoch.                                                         *)
PostMessage(d, e, data) ==
  /\ MayPost(d)
  /\ groupKind # "group_key" => InEpochWindow(e)
  /\ Insert(NewRow("application", e, d, data, {}, {}))
  /\ UNCHANGED <<epoch, groupInfo, added, removed, welcomes, acked,
                 standingVars, publishing, expiredTo, withdrawn>>

(* publishGroupInfo (the host's) and publishChannelGroupInfo (the creator's): *)
(* the checks, then, in a transaction that repeats none of them, the writes.   *)
MayPublish(a) ==
  \/ groupKind = "room" /\ a \in managers
  \/ groupKind = "channel" /\ a = Founder

PublishCheck(d) ==
  /\ d \in Publishers \ revoked
  /\ MayPublish(Owner[d])
  /\ epoch = 0
  /\ \A x \in Device : added[x] = Absent
  /\ publishing' = publishing \cup {d}
  /\ UNCHANGED <<groupVars, mailbox, welcomes, acked, standingVars, expiredTo,
                 history, withdrawn>>

PublishStore(d, info) ==
  /\ d \in publishing
  /\ publishing' = publishing \ {d}
  /\ IF added[d] = Absent
     THEN /\ groupInfo' = [epoch |-> 0, data |-> info]
          /\ added' = [added EXCEPT ![d] = 0]
     ELSE UNCHANGED <<groupInfo, added>>    \* duplicate key: the insert aborts
  /\ UNCHANGED <<epoch, lastSeq, removed, mailbox, welcomes, acked, standingVars,
                 expiredTo, history, withdrawn>>

(* ackCursor: GREATEST(acked_seq, seq). *)
AckCursor(d, seq) ==
  /\ acked' = [acked EXCEPT ![d] = Greatest(@, seq)]
  /\ UNCHANGED <<groupVars, mailbox, welcomes, standingVars, publishing,
                 expiredTo, history, withdrawn>>

AckWelcome(w) ==
  /\ w \in welcomes
  /\ welcomes' = welcomes \ {w}
  /\ UNCHANGED <<groupVars, mailbox, acked, standingVars, publishing, expiredTo,
                 history, withdrawn>>

(* deleteOwnMessage: any device of the author's account. *)
DeleteOwnMessage(a, row) ==
  /\ row \in mailbox
  /\ Owner[row.sender] = a
  /\ mailbox' = mailbox \ {row}
  /\ withdrawn' = withdrawn \cup {row.seq}
  /\ UNCHANGED <<groupVars, welcomes, acked, standingVars, publishing, expiredTo,
                 history>>

AckedBySome(row) ==                         \* mutant: one ack is enough
  \E d \in Leaves : acked[d] >= row.seq

(* Every current leaf other than the sender has acked the row. *)
FullyAcked(row) ==
  /\ Leaves # {}
  /\ \A d \in Leaves \ {row.sender} : acked[d] >= row.seq

(* pruneMailbox, the hourly housekeeping: the rows up to `horizon` are by *)
(* now older than the retention.                                            *)
PruneMailbox(horizon) ==
  /\ mailbox' = {row \in mailbox : row.seq > horizon /\ ~FullyAcked(row)}
  /\ expiredTo' = Greatest(expiredTo, horizon)
  /\ UNCHANGED <<groupVars, welcomes, acked, standingVars, publishing, history,
                 withdrawn>>

(* pruneChannelMessages: a channel's own, shorter, retention. *)
PruneChannelMessages(horizon) ==
  /\ groupKind \in {"channel", "group_key"}
  /\ mailbox' = {row \in mailbox : row.seq > horizon}
  /\ expiredTo' = Greatest(expiredTo, horizon)
  /\ UNCHANGED <<groupVars, welcomes, acked, standingVars, publishing, history,
                 withdrawn>>

-----------------------------------------------------------------------------
(* What the rest of the server does to the rows the handlers read. *)

(* joinRoom, resolveJoinRequest, joinChannel ...; a DM's pair never changes. *)
Admit(a) ==
  /\ groupKind # "dm"
  /\ status[a] # "active"
  /\ status' = [status EXCEPT ![a] = "active"]
  /\ UNCHANGED <<groupVars, mailbox, welcomes, acked, groupKind, managers, silenced, revoked,
                 publishing, expiredTo, history, withdrawn>>

(* leaveRoom, kickMember, kickFromChannel ... *)
Depart(a) ==
  /\ groupKind # "dm"
  /\ status[a] = "active"
  /\ status' = [status EXCEPT ![a] = "gone"]
  /\ UNCHANGED <<groupVars, mailbox, welcomes, acked, groupKind, managers, silenced, revoked,
                 publishing, expiredTo, history, withdrawn>>

(* Host migration; role and moderator changes. *)
Appoint(S) ==
  /\ groupKind # "dm"
  /\ groupKind = "room" => Cardinality(S) = 1
  /\ managers' = S
  /\ UNCHANGED <<groupVars, mailbox, welcomes, acked, groupKind, status, silenced, revoked,
                 publishing, expiredTo, history, withdrawn>>

(* setMute, and the effect of an announcement channel's post policy. *)
Silence(S) ==
  /\ groupKind \in {"channel", "group_key"}
  /\ silenced' = S
  /\ UNCHANGED <<groupVars, mailbox, welcomes, acked, groupKind, status, managers, revoked,
                 publishing, expiredTo, history, withdrawn>>

RevokeDevice(d) ==
  /\ d \in Revocable[groupKind]
  /\ revoked' = revoked \cup {d}
  /\ UNCHANGED <<groupVars, mailbox, welcomes, acked, groupKind, status, managers, silenced,
                 publishing, expiredTo, history, withdrawn>>

-----------------------------------------------------------------------------
Init ==
  /\ groupKind \in Kinds
  /\ epoch = 0
  /\ lastSeq = 0
  /\ groupInfo = NoInfo
  /\ added = [d \in Device |-> Absent]
  /\ removed = [d \in Device |-> Absent]
  /\ mailbox = {}
  /\ welcomes = {}
  /\ acked = [d \in Device |-> 0]
  /\ status = [a \in Account |-> IF groupKind = "dm" \/ a = Founder THEN "active" ELSE "none"]
  /\ managers = {Founder}
  /\ silenced = {}
  /\ revoked = {}
  /\ publishing = {}
  /\ expiredTo = 0
  /\ history = {}
  /\ withdrawn = {}

(* The three commits the clients build (packages/mls-sync/src/engine.ts):  *)
(* creating a DM with the devices it adds, joining from a GroupInfo, and   *)
(* removing leaves.                                                        *)
CreateCommit ==
  \E d \in Device \ revoked, adds \in SUBSET Device, e \in 0 .. epoch, data \in Payload :
    /\ groupKind = "dm" /\ e = 0 /\ d \notin adds /\ adds # {}
    /\ PostCommit(d, e, adds, {}, adds, data, data)

JoinCommit ==
  \E d \in Device \ revoked, e \in 0 .. epoch, data \in Payload :
    /\ groupInfo # NoInfo
    /\ PostCommit(d, e, {d}, {}, {}, data, data)

RemoveCommit ==
  \E d \in Device \ revoked, removes \in SUBSET Leaves, e \in 0 .. epoch, data \in Payload :
    /\ removes # {} /\ d \notin removes
    /\ PostCommit(d, e, {}, removes, {}, data, data)

(* The epochs a sender may claim: a group_key channel takes any. *)
Claimable == IF groupKind = "group_key" THEN 0 .. MaxSeq ELSE 0 .. epoch

Post ==
  \E d \in Device \ revoked, e \in Claimable, data \in Payload :
    PostMessage(d, e, data)

Publish == \E d \in Device, data \in Payload : PublishCheck(d) \/ PublishStore(d, data)

Acknowledge ==
  \/ \E d \in Ackers[groupKind], seq \in 1 .. lastSeq : AckCursor(d, seq)
  \/ \E w \in welcomes : AckWelcome(w)

Retain ==
  \/ \E a \in Deleters[groupKind], row \in mailbox : DeleteOwnMessage(a, row)
  \/ \E horizon \in 0 .. MaxHorizon :
       horizon <= lastSeq /\ ( PruneMailbox(horizon) \/ PruneChannelMessages(horizon))

Standing ==
  \/ \E a \in Account : Admit(a) \/ Depart(a)
  \/ \E S \in SUBSET Account : Appoint(S) \/ Silence(S)
  \/ \E d \in Device : RevokeDevice(d)

Posting == lastSeq < MaxSeq /\ (CreateCommit \/ JoinCommit \/ RemoveCommit \/ Post)

Next == Posting \/ Publish \/ Acknowledge \/ Retain \/ Standing

Spec == Init /\ [][Next]_vars
=============================================================================
