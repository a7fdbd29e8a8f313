------------------------------ MODULE MlsSync ------------------------------
(***************************************************************************)
(* The client's MLS sync engine (packages/mls-sync/src/engine.ts), driven   *)
(* by the Hub's chat store (apps/hub/src/stores/chat.ts), for one direct-   *)
(* message group and against the server of module Delivery.                *)
(*                                                                         *)
(* MLS itself (crates/mls-wasm) is abstracted to what decides whether a    *)
(* ciphertext opens: a state is the line of commits it descends from, the  *)
(* tree of devices it holds, the epoch it joined at, its sending           *)
(* generation and the messages whose keys it has used up.  A commit opens  *)
(* only for a state on exactly the line it was built on; a message opens   *)
(* for every state whose line goes through the sender's.                   *)
(*                                                                         *)
(* All work on a group goes through one promise queue per device, so a     *)
(* device runs one job at a time (pc); a step is what happens between two  *)
(* awaits, with the write of the snapshot joined to the change of the       *)
(* memory it saves: a crash between them undoes the change.  A crash closes *)
(* the tab: memory, queue and socket are lost, the snapshot store, the      *)
(* cursor and the message store are not.                                    *)
(***************************************************************************)
EXTENDS Delivery, SequencesExt

CONSTANTS
  Creator,      \* the accepter's device of an established group
  Loads,        \* what may happen in a behaviour, see load
  None

VARIABLES
  load,         \* bound, fixed by Init: what happens in this behaviour
                \*   established: it starts from the group Creator has built
                \*   packaged:    the devices with an unclaimed key package
                \*   senders:     the devices whose user sends
                \*   removers:    the devices that remove revoked leaves
                \*   revocable:   the devices whose account revokes them
                \*   watchers:    the devices that see friends come online
                \*   sends:       limit on a device's encryptions in one epoch
                \*   faults:      the kinds of fault: "crash", "drop", "timeout"
                \*   budget:      limit on their number
                \*   rows:        limit on the rows of the group
  mem,          \* MLS state in the WASM device
  disk,         \* SnapshotStore
  cursor,       \* CursorStore
  handed,       \* seqs given to the ApplicationSink, in order
  pc,           \* what the running job does next
  todo,         \* rows the job still has to process
  out,          \* the request the job builds or awaits
  reply,        \* its answer
  inbox,        \* pushed rows in the socket and in the queue
  online,       \* the WebSocket is connected
  sync,         \* a syncAll pass is due
  wire,         \* requests the server has not handled
  fanout,       \* rows committed, not yet pushed, with their recipients
  faults,       \* faults so far
  released      \* history variable: the keys ciphertexts left under

engineVars == <<mem, disk, cursor, handed, pc, todo, out>>
netVars == <<reply, inbox, online, sync, wire, fanout, faults, released>>
clientVars == <<engineVars, netVars>>
allVars == <<vars, clientVars>>

-----------------------------------------------------------------------------
(* The MLS state of a device, what a joiner gets of it, and a request. *)

State == [line : Seq(Device), tree : SUBSET Device, base : Nat, gen : Nat, used : SUBSET Nat]

Info == [line : Seq(Device), tree : SUBSET Device]

PostRequest == [job : {"send", "create", "join", "remove"}, from : Device, epoch : Nat,
                line : Seq(Device), gen : Nat, adds : SUBSET Device, removes : SUBSET Device,
                welcomed : SUBSET Device, info : Info]

ASSUME SyncAssumption ==
  /\ IsFiniteSet(Device)
  /\ Creator \in Device
  /\ \A l \in Loads : l.packaged \subseteq Device /\ l.budget \in Nat /\ l.rows \in 1 .. MaxSeq
  /\ None \notin State \cup PostRequest

-----------------------------------------------------------------------------
(* What MLS does. *)

NoRetention == 0                                                        \* mutant

EpochRetention == 3     \* MAX_EPOCH_RETENTION

Joined(info) == [line |-> info.line, tree |-> info.tree, base |-> Len(info.line),
                 gen |-> 0, used |-> {}]

(* The committer applies its own commit at once, the others on receipt. *)
Advanced(s, d, adds, removes) ==
  [s EXCEPT !.line = Append(@, d), !.tree = (@ \ removes) \cup adds, !.gen = 0]

InfoOf(s) == [line |-> s.line, tree |-> s.tree]

Applies(s, row) == row.kind = "commit" /\ row.data.line = s.line

Opens(s, row) ==
  /\ row.kind = "application"
  /\ IsPrefix(row.data.line, s.line)
  /\ Len(row.data.line) >= s.base
  /\ Len(s.line) - Len(row.data.line) <= EpochRetention
  /\ row.seq \notin s.used

Processed(s, row) ==
  IF Applies(s, row) THEN Advanced(s, row.sender, row.adds, row.removes)
  ELSE [s EXCEPT !.used = @ \cup {row.seq}]

-----------------------------------------------------------------------------
(* The queue and its jobs. *)

HasGroup(d) == disk[d] # None

Idle(d) == d \notin revoked /\ pc[d] = "idle"

Pending(rows) == IF rows = << >> THEN "idle" ELSE "work"

(* Room for one more row under the bound. *)
WithinBound == lastSeq + Cardinality(wire) + Cardinality({d \in Device : pc[d] = "emit"})
          < load.rows

(* processMailboxMessage for a chat.message event. *)
TakePush(d) ==
  /\ Idle(d)
  /\ inbox[d] # << >>
  /\ todo' = [todo EXCEPT ![d] = <<Head(inbox[d])>>]
  /\ inbox' = [inbox EXCEPT ![d] = Tail(@)]
  /\ pc' = [pc EXCEPT ![d] = "work"]
  /\ UNCHANGED <<vars, mem, disk, cursor, handed, out, reply, online, sync, wire, fanout, faults,
                 released>>

(* catchUp from syncAll, and catchUpLocked at the end of a join or of a *)
(* removal that lost its epoch.                                           *)
Fetch(d) ==
  /\ \/ pc[d] = "fetch" /\ d \notin revoked /\ UNCHANGED sync
     \/ Idle(d) /\ sync[d] /\ HasGroup(d) /\ d \in Leaves /\ sync' = [sync EXCEPT ![d] = FALSE]
  /\ \E rows \in SetToSeqs({row \in mailbox : row.seq > cursor[d]}) :
       /\ \A i, j \in DOMAIN rows : i < j => rows[i].seq < rows[j].seq
       /\ todo' = [todo EXCEPT ![d] = rows]
       /\ pc' = [pc EXCEPT ![d] = Pending(rows)]
  /\ UNCHANGED <<vars, mem, disk, cursor, handed, out, reply, inbox, online, wire, fanout, faults,
                 released>>

-----------------------------------------------------------------------------
(* processLocked, for the head of todo. *)

Working(d) == d \notin revoked /\ pc[d] = "work"

Row1(d) == Head(todo[d])

NextRow(d) ==
  /\ todo' = [todo EXCEPT ![d] = Tail(@)]
  /\ pc' = [pc EXCEPT ![d] = Pending(Tail(todo[d]))]

(* ackSeq and ackWelcome go over the socket and swallow its errors. *)
IfOnline(d, Request) == IF online[d] THEN Request ELSE UNCHANGED vars

IsNew(d) == Row1(d).seq > cursor[d]

IsForeign(d) == Row1(d).sender # d

Skip(d) ==
  /\ Working(d)
  /\ \/ ~IsNew(d) /\ UNCHANGED cursor
     \/ IsNew(d) /\ ~IsForeign(d) /\ cursor' = [cursor EXCEPT ![d] = Row1(d).seq]
  /\ NextRow(d)
  /\ UNCHANGED <<vars, mem, disk, handed, out, netVars>>

UnjoinedMovesOn(d) == cursor' = [cursor EXCEPT ![d] = Row1(d).seq]    \* mutant

(* "not a member yet; welcome will arrive": the catch-up after it fetches *)
(* the row again.                                                           *)
UnjoinedWaits(d) == UNCHANGED cursor

NotJoined(d) ==
  /\ Working(d) /\ IsNew(d) /\ IsForeign(d) /\ ~HasGroup(d)
  /\ UnjoinedWaits(d)
  /\ NextRow(d)
  /\ UNCHANGED <<vars, mem, disk, handed, out, netVars>>

Due(d) == Working(d) /\ IsNew(d) /\ IsForeign(d) /\ HasGroup(d)

CannotOpen(d) ==
  /\ Due(d)
  /\ ~Applies(mem[d], Row1(d)) /\ ~Opens(mem[d], Row1(d))
  /\ cursor' = [cursor EXCEPT ![d] = Row1(d).seq]
  /\ IfOnline(d, AckCursor(d, Row1(d).seq))
  /\ NextRow(d)
  /\ UNCHANGED <<mem, disk, handed, out, netVars>>

KeepsOldSnapshot(d) == UNCHANGED disk                                 \* mutant

PutSnapshot(d) == disk' = [disk EXCEPT ![d] = mem'[d]]

(* "Persist BEFORE ack": the snapshot, the cursor, the sink, the ack. *)
Open(d) ==
  /\ Due(d)
  /\ Applies(mem[d], Row1(d)) \/ Opens(mem[d], Row1(d))
  /\ mem' = [mem EXCEPT ![d] = Processed(@, Row1(d))]
  /\ PutSnapshot(d)
  /\ pc' = [pc EXCEPT ![d] = "record"]
  /\ UNCHANGED <<vars, cursor, handed, todo, out, netVars>>

Record(d) ==
  /\ pc[d] = "record" /\ d \notin revoked
  /\ cursor' = [cursor EXCEPT ![d] = Row1(d).seq]
  /\ pc' = [pc EXCEPT ![d] = "hand"]
  /\ UNCHANGED <<vars, mem, disk, handed, todo, out, netVars>>

Hand(d) ==
  /\ pc[d] = "hand" /\ d \notin revoked
  /\ handed' = IF Row1(d).kind = "application"
               THEN [handed EXCEPT ![d] = Append(@, Row1(d).seq)] ELSE handed
  /\ IfOnline(d, AckCursor(d, Row1(d).seq))
  /\ NextRow(d)
  /\ UNCHANGED <<mem, disk, cursor, out, netVars>>

-----------------------------------------------------------------------------
(* Jobs that post.  Each builds its request and the state that follows it, *)
(* persists the state, and only then lets the request leave: "Persist BEFORE *)
(* the ciphertext leaves this device."                                          *)

Build(d, s, request) ==
  /\ WithinBound
  /\ mem' = [mem EXCEPT ![d] = s]
  /\ PutSnapshot(d)
  /\ out' = [out EXCEPT ![d] = request]
  /\ pc' = [pc EXCEPT ![d] = "emit"]
  /\ UNCHANGED <<vars, cursor, handed, todo, reply, inbox, online, wire, fanout, faults, released>>

EpochAfter(s) == Len(s.line) + 1                                        \* mutant

(* The epoch is read before the commit is applied. *)
EpochBefore(s) == Len(s.line)

CommitOn(job, d, s, adds, removes, welcomed) ==
  [job |-> job, from |-> d, epoch |-> EpochBefore(s), line |-> s.line, gen |-> 0,
   adds |-> adds, removes |-> removes, welcomed |-> welcomed,
   info |-> InfoOf(Advanced(s, d, adds, removes))]

Encrypted(s) == [s EXCEPT !.gen = @ + 1]

SendApplication(d) ==
  /\ Idle(d) /\ d \in load.senders /\ HasGroup(d) /\ mem[d].gen < load.sends
  /\ LET s == Encrypted(mem[d])
     IN  Build(d, s, [job |-> "send", from |-> d, epoch |-> Len(s.line), line |-> s.line,
                      gen |-> s.gen, adds |-> {}, removes |-> {}, welcomed |-> {},
                      info |-> InfoOf(s)])
  /\ UNCHANGED sync

(* bootstrapAsCreator, createGroupWithMembers: claim a key package of every *)
(* other device of the pair; without one of the friend, leave the group be.   *)
CreateGroup(d) ==
  /\ Idle(d) /\ sync[d]
  /\ d \notin Leaves /\ Owner[d] = Founder /\ epoch = 0 /\ ~HasGroup(d)
  /\ LET members == load.packaged \ ({d} \cup revoked)
         new == [line |-> << >>, tree |-> {d}, base |-> 0, gen |-> 0, used |-> {}]
     IN  /\ \E x \in members : Owner[x] # Founder
         /\ Build(d, [Advanced(new, d, members, {}) EXCEPT !.base = 1],
                  CommitOn("create", d, new, members, {}, members))
  /\ sync' = [sync EXCEPT ![d] = FALSE]

(* externalJoinWithRetry: from syncAll, and again after a conflict.  An *)
(* external commit of a device that is in the tree already is refused.    *)
ExternalJoin(d) ==
  /\ \/ d \notin revoked /\ pc[d] = "rejoin"
     \/ Idle(d) /\ sync[d] /\ d \notin Leaves /\ ~HasGroup(d)
  /\ groupInfo # NoInfo
  /\ d \notin groupInfo.data.tree
  /\ LET s == Joined(groupInfo.data)
         joined == Joined(InfoOf(Advanced(s, d, {d}, {})))
     IN  Build(d, joined, CommitOn("join", d, s, {d}, {}, {}))
  /\ sync' = [sync EXCEPT ![d] = FALSE]

(* removeAccountDevices, for the leaves of revoked devices. *)
RemoveDevices(d) ==
  /\ Idle(d) /\ d \in load.removers /\ HasGroup(d)
  /\ LET present == mem[d].tree \cap revoked
     IN  /\ present # {}
         /\ Build(d, Advanced(mem[d], d, {}, present),
                  CommitOn("remove", d, mem[d], {}, present, {}))
  /\ UNCHANGED sync

(* A pass that finds nothing to do, or cannot: no key package of the friend, *)
(* or in the tree but neither member nor holder of the group.                  *)
NothingToSync(d) ==
  /\ d \notin revoked
  /\ \/ /\ pc[d] = "rejoin"
        /\ d \in groupInfo.data.tree
     \/ /\ Idle(d) /\ sync[d]
        /\ ~(HasGroup(d) /\ d \in Leaves)
        /\ HasGroup(d) \/ d \in Leaves \/
             IF epoch = 0 THEN Owner[d] # Founder
                            \/ \A x \in load.packaged \ ({d} \cup revoked) : Owner[x] = Founder
             ELSE d \in groupInfo.data.tree
  /\ pc' = [pc EXCEPT ![d] = "idle"]
  /\ sync' = [sync EXCEPT ![d] = FALSE]
  /\ UNCHANGED <<vars, mem, disk, cursor, handed, todo, out, reply, inbox, online, wire, fanout,
                 faults, released>>

(* Messages go over the socket, commits over HTTP. *)
Emit(d) ==
  /\ pc[d] = "emit" /\ d \notin revoked
  /\ LET r == out[d]
     IN  IF r.job = "send" /\ ~online[d]
         THEN /\ pc' = [pc EXCEPT ![d] = "idle"]
              /\ out' = [out EXCEPT ![d] = None]
              /\ UNCHANGED <<wire, released>>
         ELSE /\ pc' = [pc EXCEPT ![d] = "await"]
              /\ wire' = wire \cup {r}
              /\ released' = IF r.job = "send"
                             THEN [released EXCEPT ![d] = Append(@, <<r.line, r.gen>>)]
                             ELSE released
              /\ UNCHANGED out
  /\ UNCHANGED <<vars, mem, disk, cursor, handed, todo, reply, inbox, online, sync, fanout, faults>>

-----------------------------------------------------------------------------
(* The server handles a request in two steps: the transaction, then, after *)
(* its commit has been awaited, the fan-out to the sockets of the leaves     *)
(* before it and the answer.  Nothing orders the fan-outs of two requests.    *)

Serves(r) ==
  IF r.job = "send"
  THEN PostMessage(r.from, r.epoch, [line |-> r.line, gen |-> r.gen])
  ELSE PostCommit(r.from, r.epoch, r.adds, r.removes, r.welcomed,
                  [line |-> r.line, gen |-> 0], r.info)

Servable(r) ==
  IF r.job = "send" THEN MayPost(r.from) /\ InEpochWindow(r.epoch)
  ELSE CommitAccepted(r.from, r.epoch, r.adds, r.welcomed, r.removes)

Refusal(r) == IF r.job # "send" /\ r.epoch # epoch THEN "conflict" ELSE "refused"

Answered(r, answer) ==
  reply' = IF pc[r.from] = "await" /\ out[r.from] = r
           THEN [reply EXCEPT ![r.from] = answer] ELSE reply

Handle(r) ==
  /\ wire' = wire \ {r}
  /\ IF Servable(r)
     THEN /\ Serves(r)
          /\ fanout' = fanout \cup
               {[request |-> r, to |-> Leaves \ {r.from},
                 row |-> CHOOSE row \in mailbox' : row.seq = lastSeq']}
          /\ UNCHANGED reply
     ELSE /\ Answered(r, [ok |-> FALSE, seq |-> 0, why |-> Refusal(r)])
          /\ UNCHANGED <<vars, fanout>>
  /\ UNCHANGED <<engineVars, inbox, online, sync, faults, released>>

(* sendToDevice reaches the live sockets; then the sender gets its answer. *)
FanOut(f) ==
  /\ fanout' = fanout \ {f}
  /\ inbox' = [d \in Device |-> IF d \in f.to /\ online[d] /\ d \notin revoked
                               THEN Append(inbox[d], f.row) ELSE inbox[d]]
  /\ Answered(f.request, [ok |-> TRUE, seq |-> f.row.seq])
  /\ UNCHANGED <<vars, engineVars, online, sync, wire, faults, released>>

(* What each job does with the answer.  A device that joined catches up. *)

StayBehind == "idle"                                                    \* mutant

CatchUp == "fetch"

JumpTo(d, seq) == cursor' = [cursor EXCEPT ![d] = Greatest(@, seq)]     \* setCursor

Answer(d, job) == pc[d] = "await" /\ d \notin revoked /\ reply[d] # None /\ out[d].job = job

Conflicted(d) == ~reply[d].ok /\ reply[d].why = "conflict"

Resume(d, next) ==
  /\ pc' = [pc EXCEPT ![d] = next]
  /\ out' = [out EXCEPT ![d] = None]
  /\ reply' = [reply EXCEPT ![d] = None]
  /\ UNCHANGED <<vars, handed, todo, inbox, online, sync, wire, fanout, faults, released>>

Forget(d) == mem' = [mem EXCEPT ![d] = None] /\ disk' = [disk EXCEPT ![d] = None]

Keep(d) == UNCHANGED <<mem, disk>>

SendAnswered(d) ==
  /\ Answer(d, "send")
  /\ IF reply[d].ok THEN JumpTo(d, reply[d].seq) ELSE UNCHANGED cursor
  /\ Keep(d)
  /\ Resume(d, "idle")

CreateAnswered(d) ==
  /\ Answer(d, "create")
  /\ IF reply[d].ok THEN JumpTo(d, 1) ELSE UNCHANGED cursor
  /\ IF Conflicted(d) THEN Forget(d) ELSE Keep(d)
  /\ Resume(d, "idle")

JoinAnswered(d) ==
  /\ Answer(d, "join")
  /\ UNCHANGED cursor
  /\ IF Conflicted(d) THEN Forget(d) ELSE Keep(d)
  /\ Resume(d, IF reply[d].ok THEN CatchUp ELSE IF Conflicted(d) THEN "rejoin" ELSE "idle")

RemoveAnswered(d) ==
  /\ Answer(d, "remove")
  /\ UNCHANGED cursor
  /\ Keep(d)
  /\ Resume(d, IF Conflicted(d) THEN "fetch" ELSE "idle")

(* handleWelcome, pushed or listed: a device with state discards it. *)
HandleWelcome(d) ==
  \E w \in welcomes :
    /\ Idle(d) /\ w.to = d
    /\ IfOnline(d, AckWelcome(w))
    /\ IF HasGroup(d)
       THEN UNCHANGED <<mem, disk, pc>>
       ELSE /\ mem' = [mem EXCEPT ![d] = Joined(w.data)]
            /\ disk' = [disk EXCEPT ![d] = Joined(w.data)]
            /\ pc' = [pc EXCEPT ![d] = CatchUp]
    /\ UNCHANGED <<cursor, handed, todo, out, netVars>>

-----------------------------------------------------------------------------
(* Faults and events. *)

Fault(kind) == kind \in load.faults /\ faults < load.budget /\ faults' = faults + 1

(* The request, or its answer, is lost or late: the job fails and keeps the *)
(* state it persisted; the server may handle the request yet.                 *)
Timeout(d) ==
  /\ Fault("timeout")
  /\ pc[d] = "await"
  /\ pc' = [pc EXCEPT ![d] = "idle"]
  /\ out' = [out EXCEPT ![d] = None]
  /\ reply' = [reply EXCEPT ![d] = None]
  /\ UNCHANGED <<vars, mem, disk, cursor, handed, todo, inbox, online, sync, wire, fanout, released>>

(* The socket closes: rows still in it are lost, rows in the queue are not, *)
(* and a pending chat.send is rejected.                                        *)
Drop(d) ==
  /\ Fault("drop")
  /\ online[d]
  /\ online' = [online EXCEPT ![d] = FALSE]
  /\ \E n \in 0 .. Len(inbox[d]) : inbox' = [inbox EXCEPT ![d] = SubSeq(@, 1, n)]
  /\ IF pc[d] = "await" /\ out[d].job = "send"
     THEN /\ pc' = [pc EXCEPT ![d] = "idle"]
          /\ out' = [out EXCEPT ![d] = None]
          /\ reply' = [reply EXCEPT ![d] = None]
     ELSE UNCHANGED <<pc, out, reply>>
  /\ UNCHANGED <<vars, mem, disk, cursor, handed, todo, sync, wire, fanout, released>>

Crash(d) ==
  /\ Fault("crash")
  /\ mem' = [mem EXCEPT ![d] = disk[d]]
  /\ pc' = [pc EXCEPT ![d] = "idle"]
  /\ todo' = [todo EXCEPT ![d] = << >>]
  /\ out' = [out EXCEPT ![d] = None]
  /\ reply' = [reply EXCEPT ![d] = None]
  /\ inbox' = [inbox EXCEPT ![d] = << >>]
  /\ online' = [online EXCEPT ![d] = FALSE]
  /\ sync' = [sync EXCEPT ![d] = FALSE]
  /\ UNCHANGED <<vars, disk, cursor, handed, wire, fanout, released>>

(* hello.ok triggers syncAll. *)
Connect(d) ==
  /\ ~online[d] /\ d \notin revoked
  /\ online' = [online EXCEPT ![d] = TRUE]
  /\ sync' = [sync EXCEPT ![d] = TRUE]
  /\ UNCHANGED <<vars, engineVars, reply, inbox, wire, fanout, faults, released>>

(* A friend's presence.update triggers syncAll. *)
PresenceUpdate(d) ==
  /\ d \in load.watchers \ revoked /\ online[d] /\ ~sync[d]
  /\ sync' = [sync EXCEPT ![d] = TRUE]
  /\ UNCHANGED <<vars, engineVars, reply, inbox, online, wire, fanout, faults, released>>

(* The server side that no request of the engine triggers. *)
Background ==
  /\ PruneMailbox(0) \/ \E d \in load.revocable \ revoked : RevokeDevice(d)
  /\ UNCHANGED clientVars

-----------------------------------------------------------------------------
Founded == load.packaged \cup {Creator}

FoundingRow == [seq |-> 1, kind |-> "commit", epoch |-> 0, sender |-> Creator,
                data |-> [line |-> << >>, gen |-> 0], adds |-> Founded, removes |-> {}]

FoundingInfo == [line |-> <<Creator>>, tree |-> Founded]

(* The group as Creator has built it and everyone has joined it. *)
EstablishedInit ==
  /\ groupKind = "dm"
  /\ epoch = 1
  /\ lastSeq = 1
  /\ groupInfo = [epoch |-> 1, data |-> FoundingInfo]
  /\ added = [d \in Device |-> IF d \in Founded THEN 1 ELSE Absent]
  /\ removed = [d \in Device |-> Absent]
  /\ mailbox = {FoundingRow}
  /\ history = {FoundingRow}
  /\ welcomes = {}
  /\ acked = [d \in Device |-> IF d \in load.packaged THEN 1 ELSE 0]
  /\ status = [a \in Account |-> "active"]
  /\ managers = {Founder}
  /\ silenced = {} /\ revoked = {} /\ publishing = {} /\ expiredTo = 0 /\ withdrawn = {}
  /\ disk = [d \in Device |-> IF d \in Founded THEN Joined(FoundingInfo) ELSE None]
  /\ cursor = [d \in Device |-> IF d \in Founded THEN 1 ELSE 0]

NewInit ==
  /\ Init
  /\ disk = [d \in Device |-> None]
  /\ cursor = [d \in Device |-> 0]

SyncInit ==
  /\ load \in Loads
  /\ IF load.established THEN EstablishedInit ELSE NewInit
  /\ mem = disk
  /\ handed = [d \in Device |-> << >>]
  /\ pc = [d \in Device |-> "idle"]
  /\ todo = [d \in Device |-> << >>]
  /\ out = [d \in Device |-> None]
  /\ reply = [d \in Device |-> None]
  /\ inbox = [d \in Device |-> << >>]
  /\ online = [d \in Device |-> TRUE]
  /\ sync = [d \in Device |-> ~HasGroup(d)]
  /\ wire = {}
  /\ fanout = {}
  /\ faults = 0
  /\ released = [d \in Device |-> << >>]

(* Steps the engine takes by itself. *)
Step(d) ==
  \/ TakePush(d) \/ Fetch(d) \/ Skip(d) \/ NotJoined(d) \/ CannotOpen(d) \/ Open(d)
  \/ Record(d) \/ Hand(d)
  \/ CreateGroup(d) \/ ExternalJoin(d) \/ NothingToSync(d) \/ Emit(d)
  \/ SendAnswered(d) \/ CreateAnswered(d) \/ JoinAnswered(d) \/ RemoveAnswered(d)
  \/ HandleWelcome(d)

(* Steps of users, friends and the network. *)
Environment(d) ==
  \/ SendApplication(d) \/ RemoveDevices(d)
  \/ PresenceUpdate(d) \/ Timeout(d) \/ Drop(d) \/ Crash(d)

SyncNext ==
  /\ \/ \E d \in Device : Step(d) \/ Environment(d) \/ Connect(d)
     \/ \E r \in wire : Handle(r)
     \/ \E f \in fanout : FanOut(f)
     \/ Background
  /\ UNCHANGED load

SyncSpec == SyncInit /\ [][SyncNext]_<<allVars, load>>

(* Promises settle, requests are handled, sockets reconnect, and the queue *)
(* of a group is first in, first out: no job in it waits for ever.            *)
Fairness ==
  /\ \A d \in Device :
       /\ WF_allVars(Step(d)) /\ WF_allVars(Connect(d))
       /\ SF_allVars(TakePush(d)) /\ SF_allVars(HandleWelcome(d))
  /\ WF_allVars(\E r \in wire : Handle(r))
  /\ WF_allVars(\E f \in fanout : FanOut(f))

FairSyncSpec == SyncSpec /\ Fairness
=============================================================================
