--------------------------- MODULE CommunityKeys ---------------------------
(***************************************************************************)
(* The keys of a community: K_meta, which seals its metadata, and the      *)
(* K_channel of a group_key channel.  The server stores epochs, commitments *)
(* and sealed grants and decides who may post and fetch them (service.ts);  *)
(* the clients mint, seal, verify and adopt (apps/hub/src/lib/channel-keys  *)
(* and community-keys.ts).  The members change as module Community says.    *)
(*                                                                         *)
(* One device for each account, with the owner pinned.  A client's work is  *)
(* a task that goes through its requests, one task of a device at a time;   *)
(* every answer may be lost where the load says so.  A key is named by its  *)
(* epoch and the account that minted it.                                    *)
(***************************************************************************)
EXTENDS Community, Integers

CONSTANTS
  MaxEpoch,      \* bound on the epochs of either key
  NoOne

ASSUME KeysAssumption ==
  /\ MaxEpoch \in Nat /\ NoOne \notin Account
  /\ NoCall \notin [op : {"kick", "sweep", "remove", "leave"}, by : Account, step : {"flag"},
                    on : SUBSET Account, arg : Nat \cup {"removed", "left"}]
  /\ \A l \in Loads : l.mode = "group_key" /\ l.epochs \in 0 .. MaxEpoch

VARIABLES
  epoch,         \* communities.key_epoch and community_channels.key_epoch
  commitment,    \* the minter whose commitment is published, by key and epoch
  grants,        \* the sealed grants of each key: [epoch, to, minter]
  caps,          \* the membership capabilities of the current epoch of K_meta
  held,          \* by key, device and epoch: whose key the device keeps
  highWater,     \* the newest rotation of K_channel a device knows of
  task           \* what each device is doing

keyVars == <<epoch, commitment, grants, caps, held, highWater, task>>
allVars == <<vars, keyVars>>

Epochs == 0 .. MaxEpoch
Key == {"meta", "channel"}

HeldEpochs(k, d) == {e \in Epochs : held[k][d][e] # NoOne}

(* latestHeldEpoch, getKMetaEpoch: -1 when the device holds none. *)
Latest(k, d) ==
  IF HeldEpochs(k, d) = {} THEN -1
  ELSE CHOOSE e \in HeldEpochs(k, d) : \A f \in HeldEpochs(k, d) : f <= e

(* The devices the server lets a grant be sealed to. *)
OfCommunity(x) == member[x] = "active"
OfChannel(x) == InChannel(x) /\ Eligible(x)
Entitled(k, x) == IF k = "meta" THEN OfCommunity(x) ELSE OfChannel(x)

(* A device is looked up among those of active members. *)
Resolvable(x) == x \in Account /\ member[x] = "active"

GrantedTo(k, e) == {g.to : g \in {h \in grants[k] : h.epoch = e}}

-----------------------------------------------------------------------------
(* Capabilities: the owner's signature, or a leader's under the owner's.    *)

OwnersLeader(x) ==
  \E c \in caps : c.of = x /\ c.scope = "community" /\ c.as = "leader" /\ c.by = Owner

(* verifyCapability *)
Valid(c) ==
  /\ Resolvable(c.by)
  /\ c.by = Owner \/ (c.as # "leader" /\ c.as # "owner" /\ OwnersLeader(c.by))

(* The epoch a device checks against is the one it holds K_meta for; the    *)
(* server serves capabilities of the current epoch only.                    *)
Fresh(d) == Latest("meta", d) = epoch["meta"]

(* accountHoldsCap in the scope of the community *)
HoldsCap(d, x) ==
  Fresh(d) /\ \E c \in caps : c.of = x /\ c.scope = "community" /\ Valid(c)

(* authorizedChannelMinter *)
MayMint(d, x) ==
  \/ x = Owner
  \/ Fresh(d) /\ \E c \in caps :
       c.of = x /\ Valid(c) /\ c.as = (IF c.scope = "community" THEN "leader" ELSE "moderator")

-----------------------------------------------------------------------------
(* Tasks of a device *)

Free(d) == task[d] = NoCall
Doing(d, op, step) == ~Free(d) /\ task[d].op = op /\ task[d].step = step
SetTask(d, t) == task' = [task EXCEPT ![d] = t]
Take(d, op, step, e, who, to) ==
  SetTask(d, [op |-> op, step |-> step, epoch |-> e, who |-> who, to |-> to])
Turn(d, step) == SetTask(d, [task[d] EXCEPT !.step = step])
Finish(d) == SetTask(d, NoCall)
(* Only the clients that are open do anything. *)
MayDo(d, op) == d \in load.open /\ op \in load.tasks

Keep(k, d, e, m) ==
  held' = [held EXCEPT ![k][d] =
    IF k = "meta" THEN [f \in Epochs |-> IF f = e THEN m ELSE NoOne] ELSE [@ EXCEPT ![e] = m]]

Sees(d, e) == highWater' = [highWater EXCEPT ![d] = IF e > @ THEN e ELSE @]

-----------------------------------------------------------------------------
(* K_channel: fetching, and sending, which fetches first                    *)

(* myChannelKeyGrant; `to` holds whom the grant is from, if there is one.   *)
FetchRead(d, op) ==
  /\ MayDo(d, op) /\ Free(d) /\ Entitled("channel", d)
  /\ Take(d, op, "reply", epoch["channel"], commitment["channel"][epoch["channel"]],
          {g.minter : g \in {h \in grants["channel"] : h.epoch = epoch["channel"] /\ h.to = d}})
  /\ UNCHANGED <<vars, epoch, commitment, grants, caps, held, highWater>>

(* verifyCommitmentSigner *)
SignerKnown(x) == x # NoOne /\ Resolvable(x)

(* verifyCommitment; without K_meta there is nothing to check authority with. *)
Trusted(d, x) == SignerKnown(x) /\ (Latest("meta", d) = -1 \/ MayMint(d, x))

(* fetchChannelKeyGrant, with the answer at hand; `who` remembers, until the *)
(* message is sealed, whether the signer was known.                           *)
FetchApply(d) ==
  LET e == task[d].epoch
      m == task[d].who
  IN  /\ \E op \in {"fetch", "send"} :
           /\ Doing(d, op, "reply")
           /\ IF op = "send"
              THEN Take(d, op, "seal", e, IF SignerKnown(m) THEN m ELSE NoOne, {}) ELSE Finish(d)
      /\ IF SignerKnown(m) THEN Sees(d, e) ELSE UNCHANGED highWater
      /\ IF m \in task[d].to /\ held["channel"][d][e] = NoOne /\ Trusted(d, m)
         THEN Keep("channel", d, e, m) ELSE UNCHANGED held
      /\ UNCHANGED <<vars, epoch, commitment, grants, caps>>

FailsOpen(d) == Latest("channel", d) >= 0                          \* mutant

(* sendGroupKey refuses to seal below the newest rotation it knows of. *)
MaySeal(d) == Latest("channel", d) >= highWater[d] /\ Latest("channel", d) >= 0

SendSeal(d) ==
  /\ Doing(d, "send", "seal") /\ MaySeal(d)
  /\ Finish(d)
  /\ UNCHANGED <<vars, epoch, commitment, grants, caps, held, highWater>>

SendRefuse(d) ==
  /\ Doing(d, "send", "seal") /\ ~MaySeal(d)
  /\ Finish(d)
  /\ UNCHANGED <<vars, epoch, commitment, grants, caps, held, highWater>>

-----------------------------------------------------------------------------
(* K_channel: rotating *)

(* A manager is told, or finds the flag: rotateChannelForEvent and          *)
(* sweepChannelRotations.                                                   *)
RotateNoticed(d) ==
  /\ MayDo(d, "rotate") /\ Free(d) /\ pending["channel"]
  /\ IsManager(d)
  /\ Take(d, "rotate", "read", 0, NoOne, {})
  /\ UNCHANGED <<vars, epoch, commitment, grants, caps, held, highWater>>

RotateRead(d) ==
  /\ Doing(d, "rotate", "read")
  /\ IF member[d] = "active" /\ epoch["channel"] < load.epochs
     THEN Take(d, "rotate", "check", epoch["channel"], NoOne, {}) ELSE Finish(d)
  /\ UNCHANGED <<vars, epoch, commitment, grants, caps, held, highWater>>

RotateCheck(d) ==
  /\ Doing(d, "rotate", "check")
  /\ IF IsManager(d) THEN Turn(d, "commit") ELSE Finish(d)
  /\ UNCHANGED <<vars, epoch, commitment, grants, caps, held, highWater>>

AnyEpoch(k, e) == epoch[k] < load.epochs                              \* mutant

NextIs(k, e) == epoch[k] = e + 1                                   \* mutant

(* The compare-and-set on the key epoch. *)
StillAt(k, e) == epoch[k] = e

Sealed(k, e, d, to) == {[epoch |-> e, to |-> x, minter |-> d] : x \in to}

AnyGrantee(k, to) == TRUE                                          \* mutant

(* Grants go to devices of active members of this moment, or to nobody. *)
AllEntitled(k, to) == \A x \in to : Entitled(k, x)

Advance(k, e, d, to) ==
  /\ epoch' = [epoch EXCEPT ![k] = e]
  /\ pending' = [pending EXCEPT ![k] = FALSE]
  /\ commitment' = [commitment EXCEPT ![k][e] = d]
  /\ grants' = [grants EXCEPT ![k] =
       Sealed(k, e, d, to) \cup IF k = "meta" THEN {} ELSE @]

CommunityButFlags == <<member, role, channel, standing, invite, rollcalls, call, load>>

(* rotateChannel's transaction, with the minter's own grant; 409 or 400.    *)
RotateCommit(d) ==
  /\ Doing(d, "rotate", "commit")
  /\ IF StillAt("channel", task[d].epoch) /\ AllEntitled("channel", {d})
     THEN /\ Advance("channel", task[d].epoch + 1, d, {d})
          /\ Turn(d, "adopt") \/ (load.lossy /\ Finish(d))
     ELSE Finish(d) /\ UNCHANGED <<epoch, pending, commitment, grants>>
  /\ UNCHANGED <<CommunityButFlags, caps, held, highWater>>

RotateAdopt(d) ==
  /\ Doing(d, "rotate", "adopt")
  /\ LET e == task[d].epoch + 1
     IN  /\ Keep("channel", d, e, d) /\ Sees(d, e)
         /\ Take(d, "grant", "list", e, d, {})
  /\ UNCHANGED <<vars, epoch, commitment, grants, caps>>

-----------------------------------------------------------------------------
(* K_channel: granting *)

(* openGroupKeyChannel and syncChannelGrants, by a device that may grant. *)
GrantStart(d) ==
  /\ MayDo(d, "grant") /\ Free(d) /\ Latest("channel", d) >= 0
  /\ LET e == Latest("channel", d) IN Take(d, "grant", "list", e, held["channel"][d][e], {})
  /\ UNCHANGED <<vars, epoch, commitment, grants, caps, held, highWater>>

(* listChannelDevices *)
Grantable == {x \in Account : Entitled("channel", x)}

(* grantChannelKey fails closed without the community's current K_meta. *)
GrantList(d) ==
  /\ Doing(d, "grant", "list")
  /\ LET to == {x \in Grantable : x = d \/ HoldsCap(d, x)}
     IN  IF Fresh(d) /\ IsManager(d) /\ to # {}
         THEN SetTask(d, [task[d] EXCEPT !.step = "check", !.to = to]) ELSE Finish(d)
  /\ UNCHANGED <<vars, epoch, commitment, grants, caps, held, highWater>>

(* postChannelKeyGrants checks, and then inserts in a transaction. *)
GrantCheck(d) ==
  /\ Doing(d, "grant", "check")
  /\ IF IsManager(d) /\ task[d].epoch = epoch["channel"] /\ AllEntitled("channel", task[d].to)
     THEN Turn(d, "insert") ELSE Finish(d)
  /\ UNCHANGED <<vars, epoch, commitment, grants, caps, held, highWater>>

Insert(k, d) ==
  LET e == task[d].epoch
  IN  /\ commitment' = [commitment EXCEPT ![k][e] = IF @ = NoOne THEN d ELSE @]
      /\ grants' = [grants EXCEPT ![k] =
           @ \cup Sealed(k, e, task[d].who, task[d].to \ GrantedTo(k, e))]

GrantInsert(d) ==
  /\ Doing(d, "grant", "insert")
  /\ Insert("channel", d)
  /\ Finish(d)
  /\ UNCHANGED <<vars, epoch, caps, held, highWater>>

-----------------------------------------------------------------------------
(* K_meta: rotating, granting and fetching *)

(* rotateCommunity of the client: grants go to holders of old capabilities. *)
MetaRead(d) ==
  /\ MayDo(d, "meta") /\ Free(d) /\ pending["meta"] /\ IsLeader(d)
  /\ Fresh(d) /\ epoch["meta"] < load.epochs
  /\ Take(d, "meta", "commit", epoch["meta"], d,
          {x \in Account \ {d} : Entitled("meta", x) /\ HoldsCap(d, x)})
  /\ UNCHANGED <<vars, epoch, commitment, grants, caps, held, highWater>>

(* rotateCommunity of the server; capabilities of older epochs are never    *)
(* served again.                                                            *)
MetaCommit(d) ==
  /\ Doing(d, "meta", "commit")
  /\ IF IsLeader(d) /\ StillAt("meta", task[d].epoch) /\ AllEntitled("meta", task[d].to)
     THEN /\ Advance("meta", task[d].epoch + 1, d, task[d].to)
          /\ caps' = {}
          /\ Turn(d, "adopt") \/ (load.lossy /\ Finish(d))
     ELSE Finish(d) /\ UNCHANGED <<epoch, pending, commitment, grants, caps>>
  /\ UNCHANGED <<CommunityButFlags, held, highWater>>

MetaAdopt(d) ==
  /\ Doing(d, "meta", "adopt")
  /\ LET e == task[d].epoch + 1
     IN  Keep("meta", d, e, d) /\ Take(d, "caps", "list", e, d, {})
  /\ UNCHANGED <<vars, epoch, commitment, grants, caps, highWater>>

(* myKeyGrant *)
MetaGrantFor(d) == {g \in grants["meta"] : g.epoch = epoch["meta"] /\ g.to = d}

(* fetchKMetaGrant: any active member's commitment will do. *)
MetaFetch(d) ==
  /\ MayDo(d, "metaFetch") /\ Free(d) /\ Entitled("meta", d)
  /\ Latest("meta", d) < epoch["meta"]
  /\ LET m == commitment["meta"][epoch["meta"]]
     IN  /\ SignerKnown(m)
         /\ \E g \in MetaGrantFor(d) : g.minter = m
         /\ Keep("meta", d, epoch["meta"], m)
  /\ UNCHANGED <<vars, epoch, commitment, grants, caps, highWater, task>>

(* grantToOthers, by any member who holds the current key. *)
MetaGrantList(d) ==
  /\ MayDo(d, "metaGrant") /\ Free(d) /\ Entitled("meta", d) /\ Fresh(d)
  /\ LET to == {x \in Account \ {d} : Entitled("meta", x) /\ HoldsCap(d, x)}
     IN  to # {} /\ Take(d, "metaGrant", "check", epoch["meta"], held["meta"][d][epoch["meta"]], to)
  /\ UNCHANGED <<vars, epoch, commitment, grants, caps, held, highWater>>

(* postKeyGrants *)
MetaGrantCheck(d) ==
  /\ Doing(d, "metaGrant", "check")
  /\ IF Entitled("meta", d) /\ task[d].epoch = epoch["meta"] /\ AllEntitled("meta", task[d].to)
     THEN Turn(d, "insert") ELSE Finish(d)
  /\ UNCHANGED <<vars, epoch, commitment, grants, caps, held, highWater>>

MetaGrantInsert(d) ==
  /\ Doing(d, "metaGrant", "insert")
  /\ Insert("meta", d)
  /\ Finish(d)
  /\ UNCHANGED <<vars, epoch, caps, held, highWater>>

-----------------------------------------------------------------------------
(* Capabilities *)

Cap(x, scope, as, d) == [of |-> x, scope |-> scope, as |-> as, by |-> d]

(* issueCapabilities and issueChannelModCaps: the owner attests every       *)
(* member, a leader plain members only; both the channel's moderators.      *)
Issued(d) ==
  {Cap(x, "community", role[x], d) :
     x \in {y \in Account : member[y] = "active" /\ (d = Owner \/ role[y] = "member")}}
  \cup {Cap(x, "channel", "moderator", d) :
     x \in {y \in Account : InChannel(y) /\ standing[y].role = "moderator"}}

CapsStart(d) ==
  /\ MayDo(d, "caps") /\ Free(d) /\ IsLeader(d)
  /\ Take(d, "caps", "list", epoch["meta"], d, {})
  /\ UNCHANGED <<vars, epoch, commitment, grants, caps, held, highWater>>

CapsList(d) ==
  /\ Doing(d, "caps", "list")
  /\ IF IsLeader(d) THEN SetTask(d, [task[d] EXCEPT !.step = "post", !.to = Issued(d)])
                    ELSE Finish(d)
  /\ UNCHANGED <<vars, epoch, commitment, grants, caps, held, highWater>>

FirstWins(S) == caps \cup {c \in S : \A o \in caps : o.of # c.of \/ o.scope # c.scope}

(* postCapabilities: of the current epoch, and the first for each subject. *)
CapsPost(d) ==
  /\ Doing(d, "caps", "post")
  /\ caps' = IF member[d] = "active" /\ task[d].epoch = epoch["meta"]
             THEN FirstWins(task[d].to) ELSE caps
  /\ Finish(d)
  /\ UNCHANGED <<vars, epoch, commitment, grants, held, highWater>>

-----------------------------------------------------------------------------

(* setModerator deletes the capability of a moderator it unsets. *)
Unset(x) ==
  \E s \in Slot : At(s, "moderator", "flag") /\ x \in call[s].on /\ call'[s] = NoCall /\ pending'["meta"]

Community1 ==
  /\ Next
  /\ caps' = {c \in caps : c.scope = "community" \/ ~Unset(c.of)}
  /\ UNCHANGED <<epoch, commitment, grants, held, highWater, task>>

(* A client is closed: what it had in flight is gone, what it keeps stays. *)
ClientRestart(d) ==
  /\ load.lossy /\ ~Free(d)
  /\ Finish(d)
  /\ UNCHANGED <<vars, epoch, commitment, grants, caps, held, highWater>>

(* Before: everybody inside has the first keys, and the owner's capability. *)
InitKeys ==
  /\ Init
  /\ epoch = [k \in Key |-> 0]
  /\ commitment = [k \in Key |-> [e \in Epochs |-> IF e = 0 THEN Owner ELSE NoOne]]
  /\ grants = [k \in Key |-> {[epoch |-> 0, to |-> x, minter |-> Owner] :
                                x \in {y \in Account : Entitled(k, y)}}]
  /\ caps = Issued(Owner)
  /\ held = [k \in Key |-> [d \in Account |-> [e \in Epochs |->
       IF e = 0 /\ Entitled(k, d) THEN Owner ELSE NoOne]]]
  /\ highWater = [d \in Account |-> 0]
  /\ task = [d \in Account |-> NoCall]

ClientStarts(d) ==
  \/ FetchRead(d, "fetch") \/ FetchRead(d, "send") \/ RotateNoticed(d) \/ GrantStart(d)
  \/ MetaRead(d) \/ MetaFetch(d) \/ MetaGrantList(d) \/ CapsStart(d)

ClientProceeds(d) ==
  \/ FetchApply(d) \/ SendSeal(d) \/ SendRefuse(d)
  \/ RotateRead(d) \/ RotateCheck(d) \/ RotateCommit(d) \/ RotateAdopt(d)
  \/ GrantList(d) \/ GrantCheck(d) \/ GrantInsert(d)
  \/ MetaCommit(d) \/ MetaAdopt(d) \/ MetaGrantCheck(d) \/ MetaGrantInsert(d)
  \/ CapsList(d) \/ CapsPost(d)

NextKeys ==
  \/ Community1
  \/ \E d \in Account : ClientStarts(d) \/ ClientProceeds(d) \/ ClientRestart(d)

SpecKeys == InitKeys /\ [][NextKeys]_allVars

(* A manager's client that is open finds the flag, and finishes what it began. *)
FairSpecKeys ==
  /\ SpecKeys
  /\ \A d \in Account : WF_allVars(ClientProceeds(d)) /\ SF_allVars(RotateNoticed(d))
=============================================================================
