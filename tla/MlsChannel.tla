----------------------------- MODULE MlsChannel -----------------------------
(***************************************************************************)
(* An open MLS channel of a community as the Hub lives in it (the MLS half *)
(* of stores/community-chat.ts): its founding, opening and joining it by    *)
(* external commit, the capability check that contains a strange leaf,      *)
(* sending, being refused and forgetting it, and the sweep that evicts.     *)
(*                                                                         *)
(* Each account has one device.  MLS is abstracted as in MlsSync: a state   *)
(* is the line of commits it descends from and the tree of its leaves; a    *)
(* commit opens only for a state on the line it was built on, and nobody    *)
(* can join a tree that holds its leaf (the MLS library refuses a second    *)
(* leaf with the same keys).  A device handles its mailbox in order, from   *)
(* pushes or by catching up; MlsSync has what can go wrong there.  A device *)
(* runs one opening, joining or sweep at a time, and one check.             *)
(***************************************************************************)
EXTENDS Naturals, Sequences, FiniteSets

CONSTANTS
  Account,
  Owner,      \* creator of the channel, owner of the community
  MaxLog,     \* bound on the commits of the channel
  MaxEpoch,   \* bound on the rotations of the metadata key
  MaxTries,   \* attempts of an external join, 6 in the code
  None,
  Loads       \* the loads a behaviour may have, see `load`

ASSUME ChannelAssumption ==
  /\ Owner \in Account
  /\ None \notin [line : Seq(Account), tree : SUBSET Account]
  /\ MaxLog \in Nat /\ MaxEpoch \in Nat /\ MaxTries \in Nat
  /\ \A l \in Loads : /\ l.joined \subseteq Account /\ (l.joined = {} \/ Owner \in l.joined)
                      /\ l.capped \subseteq Account

VARIABLES
  member,     \* the active members of the community
  chan,       \* channel_members.status, "none" without a row
  log,        \* the commits of the mailbox
  leaves,     \* group_members of the channel
  info,       \* groups.group_info: the state it describes, None before
  epoch,      \* communities.key_epoch
  pending,    \* communities.rotation_pending
  capped,     \* accounts with a community capability of that epoch
  client,     \* what each device holds, see Fresh
  reached,    \* history: who got a message after leaving the community, from a
              \* device that had seen their leaf in a check, and in what epoch
  gone,       \* history: the first key epoch an account is no member in
  swept,      \* history: accounts a roll-call has removed
  expelled,   \* history: those of them that have not come back
  failed,     \* history: devices a request of which failed, or that were
              \* reloaded while it was under way or due
  unseen,     \* history: swept accounts whose leaf the sweeping device lacked
  faults,     \* faults so far
  load        \* bound, frozen: the operations that occur, the number of faults,
              \* the members who have joined the channel, those whose users open
              \* it, join it and send, those who have capabilities

serverVars == <<member, chan, log, leaves, info, epoch, pending, capped>>
historyVars == <<reached, gone, swept, expelled, failed, unseen>>
vars == <<serverVars, client, historyVars, faults, load>>

-----------------------------------------------------------------------------
(* The device *)

Admitted(op) == op \in load.ops

NoJob == [op |-> "none"]
NoCheck == [step |-> "none"]

(* mem: the WASM device; known: the engine's set of groups; disk: the         *)
(* channelStore; ready, status, untrusted: the store; held: K_meta's epoch;   *)
(* vetted: history, the last check of the session and the tree it looked at.  *)
Fresh == [mem |-> None, known |-> FALSE, disk |-> None, cursor |-> 0, ready |-> FALSE,
          status |-> "idle", untrusted |-> FALSE, held |-> 0, job |-> NoJob,
          check |-> NoCheck, vetted |-> [epoch |-> 0, tree |-> {}]]

Turn(d, c) == client' = [client EXCEPT ![d] = c]

Doing(d, op, step) == client[d].job.op = op /\ client[d].job.step = step
Resting(d) == client[d].job = NoJob /\ client[d].check = NoCheck
(* The engine's queue is held by a commit on its way. *)
Posting(d) == client[d].job.op # "none" /\ client[d].job.step = "post"

(* What the device holds after its own commit; written before it is posted. *)
Holding(c, s) == [c EXCEPT !.mem = s, !.disk = s]

Joined(d, s) == [line |-> Append(s.line, d), tree |-> s.tree \cup {d}]
Evicted(d, s, out) == [line |-> Append(s.line, d), tree |-> s.tree \ out]

(* An opening is followed by a check, a join by the UI's opening. *)
EndWith(c, status) ==
  [c EXCEPT !.status = status, !.job = NoJob,
            !.check = IF c.job.op = "open" THEN [step |-> "due"] ELSE NoCheck]

Active(a) == a \in member /\ chan[a] = "active"

(* processLocked: own rows and rows that do not open are skipped; without a *)
(* snapshot the row waits.                                                   *)
Receive(d) ==
  LET c == client[d]
      row == log[c.cursor + 1]
      applies == row.by # d /\ row.base = c.mem.line
  IN  /\ c.cursor < Len(log) /\ c.disk # None /\ ~Posting(d)
      /\ Active(d) \/ d \in row.to
      /\ Turn(d, IF applies
                 THEN [Holding(c, [line |-> Append(row.base, row.by),
                                   tree |-> (c.mem.tree \cup row.adds) \ row.removes])
                       EXCEPT !.cursor = @ + 1]
                 ELSE [c EXCEPT !.cursor = @ + 1])
      /\ UNCHANGED <<serverVars, historyVars, faults, load>>

RefusesByStatus(d) == client[d].status = "untrusted"                \* mutant

Refuses(d) == client[d].untrusted

(* forgetChannel: the engine and its device keep the group. *)
Forgotten(c) == [c EXCEPT !.ready = FALSE, !.disk = None, !.status = "idle"]

(* sendBody, and withMembershipCheck around it: a refusal for want of a leaf *)
(* or of membership makes the device forget the channel.                      *)
Send(d) ==
  LET c == client[d]
      accepted == Active(d) /\ d \in leaves
  IN  /\ Admitted("send") /\ d \in load.users
      /\ c.mem # None /\ c.status = "ready" /\ ~Posting(d) /\ ~Refuses(d)
      /\ Turn(d, IF accepted THEN Holding(c, c.mem) ELSE Forgotten(c))
      /\ reached' = IF accepted
                    THEN reached \cup {[who |-> x, epoch |-> c.vetted.epoch] :
                                         x \in (c.mem.tree \cap c.vetted.tree) \ member}
                    ELSE reached
      /\ UNCHANGED <<serverVars, gone, swept, expelled, failed, unseen, faults, load>>

-----------------------------------------------------------------------------
(* Founding: the snapshot is kept, then the GroupInfo is published; the      *)
(* engine is not told of the group.                                          *)

Bootstrap ==
  LET c == client[Owner]
  IN  /\ Admitted("found") /\ info = None /\ c.job = NoJob /\ c.mem = None
      /\ Turn(Owner, [Holding(c, [line |-> << >>, tree |-> {Owner}])
                      EXCEPT !.job = [op |-> "found", step |-> "post"]])
      /\ UNCHANGED <<serverVars, historyVars, faults, load>>

Publishable == leaves = {} /\ log = << >>

(* publishChannelGroupInfo *)
Publish ==
  /\ Doing(Owner, "found", "post")
  /\ Publishable
  /\ info' = client[Owner].mem
  /\ leaves' = {Owner}
  /\ Turn(Owner, [EndWith(client[Owner], "ready") EXCEPT !.ready = TRUE])
  /\ UNCHANGED <<member, chan, log, epoch, pending, capped, historyVars, faults, load>>

-----------------------------------------------------------------------------
(* Opening and joining *)

(* joinInfo: the GroupInfo is released to active members alone. *)
InfoFor(a, status) == IF status = "active" THEN info ELSE None

Answer(d, op, status, tries) ==
  [op |-> op, step |-> "answer", info |-> InfoFor(d, status), tries |-> tries]

(* openChannel: getChannelJoinInfo, unless the store thinks it is in. *)
Open(d) ==
  LET c == client[d]
  IN  /\ Admitted("open") /\ d \in load.users /\ Resting(d)
      /\ Turn(d, IF c.ready THEN EndWith([c EXCEPT !.job.op = "open"], "ready")
                 ELSE IF d \notin member THEN EndWith([c EXCEPT !.job.op = "open"], "locked")
                 ELSE [c EXCEPT !.status = "joining", !.job = Answer(d, "open", chan[d], 1)])
      /\ UNCHANGED <<serverVars, historyVars, faults, load>>

(* joinChannel: an open policy makes the caller active at once. *)
Join(d) ==
  /\ Admitted("join") /\ d \in load.users \cap member /\ Resting(d)
  /\ chan[d] # "active" \/ ~client[d].ready
  /\ chan' = [chan EXCEPT ![d] = "active"]
  /\ expelled' = expelled \ {d}
  /\ Turn(d, [client[d] EXCEPT !.job = Answer(d, "join", "active", 1)])
  /\ UNCHANGED <<member, log, leaves, info, epoch, pending, capped, reached, gone, swept, failed,
                 unseen, faults, load>>

(* "joined meanwhile": the engine has the group. *)
Taken(c) == c.ready \/ c.known

(* consumeJoinInfo, externalJoinInto and externalJoinWithRetry: wait without *)
(* a GroupInfo, take a known group for joined, or build the external commit. *)
Consume(d) ==
  \E op \in {"open", "join"} :
    LET c == client[d]
        i == c.job.info
    IN  /\ Doing(d, op, "answer")
        /\ Turn(d, IF i = None THEN EndWith(c, "pending")
                   ELSE IF Taken(c) THEN EndWith([c EXCEPT !.ready = TRUE], "ready")
                   ELSE IF d \in i.tree THEN EndWith(c, "pending")
                   ELSE [Holding(c, Joined(d, i)) EXCEPT
                           !.known = TRUE, !.status = "joining",
                           !.job = [op |-> op, step |-> "post", base |-> i.line,
                                    tries |-> c.job.tries]])
        /\ UNCHANGED <<serverVars, historyVars, faults, load>>

AtEpoch(base) == info # None /\ Len(base) = Len(info.line)

(* postCommit for a channel *)
Accepts(d, base, adds) == Active(d) /\ AtEpoch(base) /\ d \in leaves \cup adds

LeavesAfter(adds, removes) == (leaves \cup adds) \ removes

Commit(d, base, adds, removes) ==
  /\ Len(log) < MaxLog
  /\ Accepts(d, base, adds)
  /\ log' = Append(log, [by |-> d, base |-> base, adds |-> adds, removes |-> removes,
                         to |-> leaves])
  /\ leaves' = LeavesAfter(adds, removes)
  /\ info' = client[d].mem

JoinAccepted(d) ==
  \E op \in {"open", "join"} :
    /\ Doing(d, op, "post")
    /\ Commit(d, client[d].job.base, {d}, {})
    /\ Turn(d, [EndWith(client[d], "ready") EXCEPT !.ready = TRUE])
    /\ UNCHANGED <<member, chan, epoch, pending, capped, historyVars, faults, load>>

KeepsGroup(c) == [c EXCEPT !.mem = None, !.disk = None]             \* mutant

(* Of a commit that lost its epoch nothing is kept. *)
Dropped(c) == [c EXCEPT !.mem = None, !.disk = None, !.known = FALSE]

(* fetchGroupInfo after a conflict; the refused tries again. *)
JoinConflict(d) ==
  \E op \in {"open", "join"} :
    LET c == Dropped(client[d])
    IN  /\ Doing(d, op, "post")
        /\ Active(d) /\ ~AtEpoch(client[d].job.base)
        /\ Turn(d, IF client[d].job.tries = MaxTries THEN EndWith(c, "pending")
                   ELSE [c EXCEPT !.job = Answer(d, op, chan[d], client[d].job.tries + 1)])
        /\ UNCHANGED <<serverVars, historyVars, faults, load>>

(* Any other failure is thrown past the engine, which keeps the group. *)
JoinRefused(d) ==
  \E op \in {"open", "join"} :
    /\ Doing(d, op, "post") /\ ~Active(d)
    /\ Turn(d, EndWith(client[d], "pending"))
    /\ failed' = failed \cup {d}
    /\ UNCHANGED <<serverVars, reached, gone, swept, expelled, unseen, faults, load>>

-----------------------------------------------------------------------------
(* The capability check *)

(* The epoch it expects is read first, the roster is fetched, then come the *)
(* leaves and their capabilities; an engine without the group is trusted.   *)
CheckStart(d) ==
  LET c == client[d]
  IN  /\ c.check.step = "due"
      /\ Turn(d, [c EXCEPT !.check = IF c.known THEN [step |-> "fetch", epoch |-> c.held]
                                     ELSE NoCheck])
      /\ UNCHANGED <<serverVars, historyVars, faults, load>>

(* accountHoldsCap: the server gives out the current epoch's alone. *)
HoldsCap(a, e) == e = epoch /\ a \in capped

CheckRead(d) ==
  LET c == client[d]
      tree == c.mem.tree
  IN  /\ c.check.step = "fetch"
      /\ Turn(d, [c EXCEPT !.check =
           IF d \notin member THEN NoCheck
           ELSE [step |-> "judge", epoch |-> c.check.epoch, tree |-> tree,
                 trusted |-> \A a \in tree : HoldsCap(a, c.check.epoch)]])
      /\ UNCHANGED <<serverVars, historyVars, faults, load>>

StaysUntrusted(c) == c                                              \* mutant

(* clearUntrusted, for a channel that passed *)
Cleared(c) ==
  IF c.untrusted THEN [c EXCEPT !.untrusted = FALSE, !.status = IF c.ready THEN "ready" ELSE @]
  ELSE c

CheckJudge(d) ==
  LET c == client[d]
      done == [c EXCEPT !.check = NoCheck,
                        !.vetted = [epoch |-> c.check.epoch, tree |-> c.check.tree]]
  IN  /\ c.check.step = "judge"
      /\ Turn(d, IF c.check.trusted THEN Cleared(done)
                 ELSE [done EXCEPT !.untrusted = TRUE, !.status = "untrusted"])
      /\ UNCHANGED <<serverVars, historyVars, faults, load>>

-----------------------------------------------------------------------------
(* Leaving, and what managers do about it *)

(* kickFromChannel changes the row of an MLS channel, and nothing else. *)
Kick(a) ==
  /\ Admitted("kick") /\ a # Owner /\ chan[a] = "active"
  /\ chan' = [chan EXCEPT ![a] = "removed"]
  /\ UNCHANGED <<member, log, leaves, info, epoch, pending, capped, client, historyVars,
                 faults, load>>

(* sweepRollcall for one silent member ... *)
Sweep(a) ==
  /\ Admitted("sweep") /\ a # Owner /\ chan[a] = "active" /\ Resting(Owner)
  /\ client[Owner].mem # None
  /\ chan' = [chan EXCEPT ![a] = "removed"]
  /\ swept' = swept \cup {a} /\ expelled' = expelled \cup {a}
  /\ Turn(Owner, [client[Owner] EXCEPT !.job = [op |-> "sweep", step |-> "build", who |-> a]])
  /\ UNCHANGED <<member, log, leaves, info, epoch, pending, capped, reached, gone, failed, unseen,
                 faults, load>>

(* ... and applyRollcallSweep, which removes the leaves the engine knows.   *)
SweepBuild ==
  LET c == client[Owner]
      a == c.job.who
  IN  /\ Doing(Owner, "sweep", "build")
      /\ IF a \in c.mem.tree
         THEN /\ Turn(Owner, [Holding(c, Evicted(Owner, c.mem, {a})) EXCEPT
                                !.job = [op |-> "sweep", step |-> "post", who |-> a,
                                         base |-> c.mem.line]])
              /\ UNCHANGED unseen
         ELSE /\ Turn(Owner, [c EXCEPT !.job = NoJob])
              /\ unseen' = unseen \cup {a}
      /\ UNCHANGED <<serverVars, reached, gone, swept, expelled, failed, faults, load>>

SweepPosted ==
  LET c == client[Owner]
  IN  /\ Doing(Owner, "sweep", "post")
      /\ \/ Commit(Owner, c.job.base, {}, {c.job.who})
         \/ ~AtEpoch(c.job.base) /\ UNCHANGED <<log, leaves, info>>
      /\ Turn(Owner, [c EXCEPT !.job = NoJob])
      /\ UNCHANGED <<member, chan, epoch, pending, capped, historyVars, faults, load>>

(* leaveCommunity, or removal from it *)
Leave(a) ==
  /\ Admitted("leave") /\ a \in member \ {Owner}
  /\ member' = member \ {a}
  /\ chan' = [chan EXCEPT ![a] = "removed"]
  /\ pending' = TRUE
  /\ gone' = [gone EXCEPT ![a] = epoch + 1]
  /\ UNCHANGED <<log, leaves, info, epoch, capped, client, reached, swept, expelled, failed, unseen,
                 faults, load>>

(* rotateCommunity by the owner's client; the capabilities are issued anew  *)
(* by it, and whenever a leader opens the community (CommunityKeys).         *)
Rotate ==
  /\ pending /\ epoch < MaxEpoch /\ client[Owner].held = epoch
  /\ epoch' = epoch + 1
  /\ pending' = FALSE
  /\ capped' = {}
  /\ Turn(Owner, [client[Owner] EXCEPT !.held = epoch + 1])
  /\ UNCHANGED <<member, chan, log, leaves, info, historyVars, faults, load>>

IssueCaps ==
  /\ client[Owner].held = epoch /\ ~(member \subseteq capped)
  /\ capped' = capped \cup member
  /\ UNCHANGED <<member, chan, log, leaves, info, epoch, pending, client, historyVars, faults,
                 load>>

(* fetchKMetaGrant *)
FetchKey(d) ==
  /\ d \in member /\ client[d].held < epoch
  /\ Turn(d, [client[d] EXCEPT !.held = epoch])
  /\ UNCHANGED <<serverVars, historyVars, faults, load>>

-----------------------------------------------------------------------------
(* Faults *)

Fault == faults < load.faults /\ faults' = faults + 1

(* A commit or a publication is lost, or its answer is. *)
Fail(d) ==
  LET c == client[d]
      job == c.job
  IN  /\ Fault /\ Posting(d)
      /\ Turn(d, IF job.op \in {"open", "join"} THEN EndWith(c, "pending")
                 ELSE [c EXCEPT !.job = NoJob])
      /\ failed' = failed \cup {d}
      /\ \/ UNCHANGED <<log, leaves, info>>
         \/ job.op = "sweep" /\ Commit(d, job.base, {}, {job.who})
         \/ job.op \in {"open", "join"} /\ Commit(d, job.base, {d}, {})
         \/ job.op = "found" /\ Publishable /\ info' = c.mem /\ leaves' = {d} /\ UNCHANGED log
      /\ UNCHANGED <<member, chan, epoch, pending, capped, reached, gone, swept, expelled, unseen,
                     load>>

(* The page is loaded anew: init restores what channelStore holds. *)
Reload(d) ==
  LET c == client[d]
      kept == c.disk # None
  IN  /\ Fault
      /\ Turn(d, [Fresh EXCEPT !.mem = c.disk, !.known = kept, !.disk = c.disk,
                               !.cursor = c.cursor, !.ready = kept, !.held = c.held,
                               !.status = IF kept THEN "ready" ELSE "idle"])
      /\ failed' = IF Posting(d) \/ Doing(d, "sweep", "build") THEN failed \cup {d} ELSE failed
      /\ UNCHANGED <<serverVars, reached, gone, swept, expelled, unseen, load>>

-----------------------------------------------------------------------------
Entered(a) == [Fresh EXCEPT !.mem = [line |-> << >>, tree |-> load.joined],
                            !.disk = [line |-> << >>, tree |-> load.joined],
                            !.known = TRUE, !.ready = TRUE, !.status = "ready"]

(* The channel is to be founded, or those in load.joined have joined it and *)
(* reloaded since.                                                          *)
Init ==
  /\ load \in Loads
  /\ member = Account
  /\ chan = [a \in Account |-> IF a \in load.joined \cup {Owner} THEN "active" ELSE "none"]
  /\ log = << >>
  /\ leaves = load.joined
  /\ info = IF load.joined = {} THEN None ELSE [line |-> << >>, tree |-> load.joined]
  /\ epoch = 0 /\ pending = FALSE
  /\ capped = load.capped
  /\ client = [a \in Account |-> IF a \in load.joined THEN Entered(a) ELSE Fresh]
  /\ reached = {} /\ gone = [a \in Account |-> MaxEpoch + 2]
  /\ swept = {} /\ expelled = {} /\ failed = {} /\ unseen = {} /\ faults = 0

(* What a client does by itself once it has begun. *)
Works(d) ==
  \/ Consume(d) \/ JoinAccepted(d) \/ JoinConflict(d) \/ JoinRefused(d)
  \/ CheckStart(d) \/ CheckRead(d) \/ CheckJudge(d)

Manages == Publish \/ SweepBuild \/ SweepPosted

ChannelNext ==
  \/ Manages \/ Bootstrap \/ Rotate \/ IssueCaps
  \/ \E d \in Account : \/ Works(d) \/ Receive(d) \/ FetchKey(d)
                        \/ Open(d) \/ Join(d) \/ Send(d)
                        \/ Kick(d) \/ Sweep(d) \/ Leave(d)
                        \/ Fail(d) \/ Reload(d)

ChannelSpec == Init /\ [][ChannelNext]_vars

(* Clients finish what they begin, and users open the channel again. *)
FairChannelSpec ==
  /\ ChannelSpec
  /\ WF_vars(Manages) /\ WF_vars(Rotate) /\ WF_vars(IssueCaps)
  /\ \A d \in Account : /\ WF_vars(Works(d)) /\ WF_vars(Receive(d)) /\ WF_vars(FetchKey(d))
                        /\ WF_vars(Open(d))
=============================================================================
