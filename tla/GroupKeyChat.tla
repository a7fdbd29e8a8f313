---------------------------- MODULE GroupKeyChat ----------------------------
(***************************************************************************)
(* The messages of ONE group_key channel: the clients' store of it          *)
(* (apps/hub/src/stores/community-chat.ts) over the server's log.  A client *)
(* pulls what comes after its cursor when it is nudged or connects, reads   *)
(* one message after the other, and sends under the newest key it holds.    *)
(* Who mints the keys is CommunityKeys; here the epoch advances and grants   *)
(* arrive.  One device for each account.                                     *)
(*                                                                         *)
(* A socket keeps the order of what it carries, so a nudge and the answer   *)
(* to a request that follows it stay in order; pulls go over HTTP and do    *)
(* not.  Messages are numbered by the log; the log is never pruned here.    *)
(***************************************************************************)
EXTENDS Ingest, Sequences, FiniteSets

CONSTANTS
  Device,
  Moderator,     \* the device whose account manages the channel
  MaxLog,        \* bound on the messages of the log
  MaxEpoch,      \* bound on the rotations
  Loads          \* the loads a behaviour may have, see `load`

ASSUME ChatAssumption ==
  /\ Moderator \in Device /\ IsFiniteSet(Device)
  /\ MaxLog \in Nat /\ MaxEpoch \in Nat
  /\ \A l \in Loads : /\ l.kinds \subseteq {"text", "react", "unreact", "edit", "delete", "consume"}
                     /\ l.logs \in 0 .. MaxLog /\ l.pulls \in Nat /\ l.sends \in Nat

VARIABLES
  log,           \* mls_messages: [by, epoch, sn, kind, target]
  gone,          \* the numbers whose rows a moderator or their author deleted
  inside,        \* the devices of active members of the channel
  attested,      \* the devices whose accounts a capability vouches for
  keyEpoch, grant,                     \* the channel's epoch; who was granted which
  subscribed, inbox,                   \* the socket of each device, and what it carries
  link,          \* each client: "off", "on", or "greeted" with a catch-up to do
  cursor, seen, sent, held,            \* kept in the client's storage
  shown, stored, \* the messages in memory, and those in its database
  pull, send,    \* what a client has in flight, in slots
  load           \* bound, frozen: whose clients are ever opened, which are
                 \* online at first, who sends which kinds of messages, how
                 \* many in all, how many pulls and sends at once, what else may
                 \* happen and to whom

server == <<log, gone, inside, attested, keyEpoch, grant>>
wire == <<subscribed, inbox>>
kept == <<cursor, seen, sent, held, stored>>
client == <<link, kept, shown, pull, send>>
vars == <<server, wire, client, load>>

Seqs == 1 .. MaxLog
Epochs == 0 .. MaxEpoch
NoTask == [step |-> "none"]
May(what) == what \in load.may

Newest(S) == CHOOSE e \in S : \A f \in S : f <= e
First(S) == CHOOSE e \in S : \A f \in S : e <= f

Ring(D, event) ==
  [d \in Device |-> IF d \in D THEN Append(inbox[d], event) ELSE inbox[d]]

-----------------------------------------------------------------------------
(* The server *)

Author(t) == IF t \in DOMAIN log THEN log[t].by ELSE Moderator

(* postMessage of a channel with a shared key takes active members only. *)
MayPost(d) == d \in inside

(* The message is stored, nudgeChannel runs, then the ack is sent; or the   *)
(* request is lost or refused.                                               *)
Post(d, j) ==
  /\ send[d][j].step = "post"
  /\ IF MayPost(d) /\ link[d] # "off"
     THEN /\ log' = Append(log, send[d][j].msg)
          /\ LET rung == Ring({x \in Device : subscribed[x]}, [type |-> "nudge"])
             IN  inbox' = [rung EXCEPT ![d] =
                   Append(@, [type |-> "ack", slot |-> j, seq |-> Len(log) + 1])]
          /\ send' = [send EXCEPT ![d][j].step = "reply"]
     ELSE /\ send' = [send EXCEPT ![d][j].step = "failed"]
          /\ UNCHANGED <<log, inbox>>
  /\ UNCHANGED <<gone, inside, attested, keyEpoch, grant, subscribed, link, kept, shown, pull, load>>

(* A rotation, by a manager who holds the newest key. *)
Rotate(d) ==
  /\ May("rotate") /\ d = Moderator /\ d \in inside /\ link[d] # "off"
  /\ keyEpoch \in held[d] /\ keyEpoch < MaxEpoch
  /\ keyEpoch' = keyEpoch + 1
  /\ held' = [held EXCEPT ![d] = @ \cup {keyEpoch + 1}]
  /\ grant' = [grant EXCEPT ![d] = @ \cup {keyEpoch + 1}]
  /\ UNCHANGED <<log, gone, inside, attested, wire, link, cursor, seen, sent, stored, shown,
                 pull, send, load>>

(* A grant of the current key arrives, and the device is told. *)
Grant(d) ==
  /\ d \in inside \cap load.present /\ keyEpoch \notin grant[d]
  /\ grant' = [grant EXCEPT ![d] = @ \cup {keyEpoch}]
  /\ inbox' = IF link[d] # "off" THEN Ring({d}, [type |-> "nudge"]) ELSE inbox
  /\ UNCHANGED <<log, gone, inside, attested, keyEpoch, subscribed, client, load>>

(* moderationRemoveMessage: the row goes, and who is connected is told. *)
RemoveMessage(s) ==
  /\ May("remove") /\ s \in DOMAIN log /\ s \notin gone /\ log[s].kind = "text"
  /\ gone' = gone \cup {s}
  /\ inbox' = Ring({d \in inside : link[d] # "off"}, [type |-> "removed", seq |-> s])
  /\ UNCHANGED <<log, inside, attested, keyEpoch, grant, subscribed, client, load>>

(* A member leaves, or a kicked member comes back; subscriptions end. *)
Kick(d) ==
  /\ d \in load.fickle /\ May("kick") /\ d # Moderator /\ d \in inside
  /\ inside' = inside \ {d}
  /\ subscribed' = [subscribed EXCEPT ![d] = FALSE]
  /\ UNCHANGED <<log, gone, attested, keyEpoch, grant, inbox, client, load>>

Rejoin(d) ==
  /\ d \notin inside
  /\ inside' = inside \cup {d}
  /\ UNCHANGED <<log, gone, attested, keyEpoch, grant, wire, client, load>>

(* A rotation of K_meta voids the capabilities, which are issued again. *)
Attest ==
  /\ May("meta")
  /\ attested' = IF attested = inside THEN {Moderator} ELSE inside
  /\ UNCHANGED <<log, gone, inside, keyEpoch, grant, wire, client, load>>

-----------------------------------------------------------------------------
(* Pulling *)

OnePull(d) ==                                                      \* mutant
  IF pull[d][1] # NoTask THEN UNCHANGED pull
  ELSE pull' = [pull EXCEPT ![d][1] = [step |-> "ask", after |-> cursor[d], todo |-> {}]]

(* catchUpGroupKey reads the cursor, and asks for what comes after it. *)
StartPull(d) ==
  \E i \in DOMAIN pull[d] :
    /\ pull[d][i] = NoTask
    /\ pull' = [pull EXCEPT ![d][i] = [step |-> "ask", after |-> cursor[d], todo |-> {}]]

Nudged(d) ==
  /\ inbox[d] # << >> /\ Head(inbox[d]).type = "nudge"
  /\ inbox' = [inbox EXCEPT ![d] = Tail(@)]
  /\ StartPull(d)
  /\ UNCHANGED <<server, subscribed, link, kept, shown, send, load>>

(* catchUpAll, which does one group after the other. *)
CatchUp(d) ==
  /\ link[d] = "greeted"
  /\ link' = [link EXCEPT ![d] = "on"]
  /\ StartPull(d)
  /\ UNCHANGED <<server, wire, kept, shown, send, load>>

(* The server answers a member with the rows that are left, in their order. *)
PullServed(d, i) ==
  /\ pull[d][i].step = "ask"
  /\ LET rows == {s \in DOMAIN log \ gone : s > pull[d][i].after}
     IN  pull' = [pull EXCEPT ![d][i] =
           IF d \in inside /\ rows # {} THEN [@ EXCEPT !.step = "read", !.todo = rows] ELSE NoTask]
  /\ UNCHANGED <<server, wire, link, kept, shown, send, load>>

Next1(d, i) ==
  LET rest == pull[d][i].todo \ {First(pull[d][i].todo)}
  IN  pull' = [pull EXCEPT ![d][i] =
        IF rest = {} THEN NoTask ELSE [@ EXCEPT !.step = "read", !.todo = rest]]

PassesAny(d, e) == held[d] # {}                                    \* mutant

(* An epoch older than one the device holds is never granted to it. *)
Hopeless(d, e) == held[d] # {} /\ e < Newest(held[d])

(* setCursor *)
Past(d, s) == [cursor EXCEPT ![d] = IF s > @ THEN s ELSE @]

(* fetchChannelKeyGrant: the server gives the current epoch's grant only. *)
Fetched(d) == IF d \in inside /\ keyEpoch \in grant[d] THEN held[d] \cup {keyEpoch} ELSE held[d]

(* senderIsMember and resolveSender *)
Vouched(d, x) == x \in attested

(* The numbers of a sender only go up, whatever the server serves. *)
Unheard(d, m) == m.sn > seen[d][m.by]

(* processGroupKeyOne, up to where it stores a message. *)
Read(d, i) ==
  /\ pull[d][i].step = "read"
  /\ LET s == First(pull[d][i].todo)
         m == log[s]
     IN  /\ held' = IF m.epoch \in held[d] THEN held ELSE [held EXCEPT ![d] = Fetched(d)]
         /\ IF m.epoch \in held'[d] /\ Vouched(d, m.by) /\ Unheard(d, m)
            THEN /\ seen' = [seen EXCEPT ![d][m.by] = m.sn]
                 /\ pull' = [pull EXCEPT ![d][i].step = "store"]
                 /\ UNCHANGED cursor
            ELSE /\ IF m.epoch \in held'[d] \/ Hopeless(d, m.epoch)
                    THEN cursor' = Past(d, s) /\ Next1(d, i)
                    ELSE pull' = [pull EXCEPT ![d][i] = NoTask] /\ UNCHANGED cursor
                 /\ UNCHANGED seen
  /\ UNCHANGED <<server, wire, link, sent, stored, shown, send, load>>

(* A text is put into the database, and appended to what is shown. *)
Put(d, s) ==
  /\ stored' = [stored EXCEPT ![d][s] = Display]
  /\ shown' = [shown EXCEPT ![d][s] = IF Kept(@) THEN @ ELSE Display]

(* What changes in the list goes into the database too. *)
Show(d, list) ==
  /\ shown' = [shown EXCEPT ![d] = list]
  /\ stored' = [stored EXCEPT ![d] = [s \in Seqs |->
       IF list[s] # shown[d][s] THEN list[s] ELSE stored[d][s]]]

OthersOnly(d, m) ==                                                \* mutant
  IF m.by = d THEN shown[d] ELSE Applied(shown[d], m, Author(m.target), d)

View(d, m) == Applied(shown[d], m, Author(m.target), d)

(* ingestBody, and then the cursor. *)
Store(d, i) ==
  /\ pull[d][i].step = "store"
  /\ LET s == First(pull[d][i].todo)
     IN  /\ IF log[s].kind = "text" THEN Put(d, s) ELSE Show(d, View(d, log[s]))
         /\ cursor' = Past(d, s)
  /\ Next1(d, i)
  /\ UNCHANGED <<server, wire, link, seen, sent, held, send, load>>

-----------------------------------------------------------------------------
(* Sending *)

(* Texts that a control message of this kind may be about. *)
MayTarget(d, k, t) ==
  CASE k = "text" -> t = 1
    [] k \in {"react", "unreact"} -> Kept(shown[d][t])
    [] k \in {"edit", "delete"} -> Kept(shown[d][t]) /\ ~Tombstone(shown[d][t]) /\ Author(t) = d
    [] k = "consume" -> shown[d][t].state = "shown" /\ Author(t) # d

Posting == Cardinality({p \in Device \X (1 .. load.sends) : send[p[1]][p[2]].step = "post"})

(* sendGroupKey, up to the request.  Who opens a text destroys it first. *)
SendStart(d) ==
  /\ d \in load.senders /\ link[d] # "off" /\ Fetched(d) # {}
  /\ Len(log) + Posting < load.logs
  /\ \E j \in DOMAIN send[d], k \in load.kinds, t \in Seqs :
       /\ send[d][j] = NoTask
       /\ MayTarget(d, k, t)
       /\ send' = [send EXCEPT ![d][j] =
            [step |-> "post",
             msg |-> [by |-> d, epoch |-> Newest(Fetched(d)), sn |-> sent[d] + 1,
                      kind |-> k, target |-> t]]]
       /\ IF k = "consume" THEN Show(d, [shown[d] EXCEPT ![t] = Opened(@)])
                           ELSE UNCHANGED <<shown, stored>>
  /\ held' = [held EXCEPT ![d] = Fetched(d)]
  /\ UNCHANGED <<server, wire, link, cursor, seen, sent, pull, load>>

Counted(d, n) == [sent EXCEPT ![d] = n]

(* deleteMessage goes on to delete the row on the server. *)
Done(d, j) ==
  send' = [send EXCEPT ![d][j] = IF @.msg.kind = "delete" THEN [@ EXCEPT !.step = "erase"] ELSE NoTask]

(* The ack: the numbers are kept, the cursor goes to the message's own, and *)
(* its text is stored, or the control message applied to the own view.      *)
Acked(d) ==
  /\ inbox[d] # << >> /\ Head(inbox[d]).type = "ack"
  /\ LET j == Head(inbox[d]).slot
         s == Head(inbox[d]).seq
         m == send[d][j].msg
     IN  /\ sent' = Counted(d, m.sn)
         /\ seen' = [seen EXCEPT ![d][d] = m.sn]
         /\ cursor' = Past(d, s)
         /\ IF m.kind = "text" THEN Put(d, s) ELSE Show(d, View(d, m))
         /\ Done(d, j)
  /\ inbox' = [inbox EXCEPT ![d] = Tail(@)]
  /\ UNCHANGED <<server, subscribed, link, held, pull, load>>

(* A text that failed is lost; a control message is applied all the same. *)
GiveUp(d, j) ==
  /\ send[d][j].step = "failed"
  /\ LET m == send[d][j].msg
     IN  IF m.kind = "text" THEN UNCHANGED <<shown, stored>> ELSE Show(d, View(d, m))
  /\ Done(d, j)
  /\ UNCHANGED <<server, wire, link, cursor, seen, sent, held, pull, load>>

(* deleteGroupMessage, of a member and of an own message; or it fails. *)
Erase(d, j) ==
  /\ send[d][j].step = "erase"
  /\ gone' = IF d \in inside /\ link[d] # "off" THEN gone \cup {send[d][j].msg.target} ELSE gone
  /\ send' = [send EXCEPT ![d][j] = NoTask]
  /\ UNCHANGED <<log, inside, attested, keyEpoch, grant, wire, link, kept, shown, pull, load>>

(* The server's word that a message is removed. *)
HideRemoved(d) ==
  /\ inbox[d] # << >> /\ Head(inbox[d]).type = "removed"
  /\ LET s == Head(inbox[d]).seq
     IN  Show(d, [shown[d] EXCEPT ![s] = Remove(@)])
  /\ inbox' = [inbox EXCEPT ![d] = Tail(@)]
  /\ UNCHANGED <<server, subscribed, link, cursor, seen, sent, held, pull, send, load>>

-----------------------------------------------------------------------------
(* The connection *)

(* hello.ok: the channel is subscribed to again, and a catch-up begins. *)
Connect(d) ==
  /\ d \in load.present /\ link[d] = "off"
  /\ link' = [link EXCEPT ![d] = "greeted"]
  /\ UNCHANGED <<server, wire, kept, shown, pull, send, load>>

(* channel.subscribe reaches the server, which takes members only. *)
Subscribe(d) ==
  /\ link[d] # "off" /\ ~subscribed[d] /\ d \in inside
  /\ subscribed' = [subscribed EXCEPT ![d] = TRUE]
  /\ UNCHANGED <<server, inbox, client, load>>

(* Requests that wait for an answer fail: WsClient.onclose. *)
Disconnect(d) ==
  /\ d \in load.fickle /\ May("offline") /\ link[d] # "off"
  /\ link' = [link EXCEPT ![d] = "off"]
  /\ subscribed' = [subscribed EXCEPT ![d] = FALSE]
  /\ inbox' = [inbox EXCEPT ![d] = << >>]
  /\ send' = [send EXCEPT ![d] = [j \in DOMAIN @ |->
       IF @[j].step \in {"post", "reply"} THEN [@[j] EXCEPT !.step = "failed"] ELSE @[j]]]
  /\ UNCHANGED <<server, kept, shown, pull, load>>

(* The page is closed: the database and the keys stay. *)
Close(d) ==
  /\ d \in load.fickle /\ May("close") /\ link[d] # "off"
  /\ link' = [link EXCEPT ![d] = "off"]
  /\ subscribed' = [subscribed EXCEPT ![d] = FALSE]
  /\ inbox' = [inbox EXCEPT ![d] = << >>]
  /\ send' = [send EXCEPT ![d] = [j \in DOMAIN @ |-> NoTask]]
  /\ pull' = [pull EXCEPT ![d] = [i \in DOMAIN @ |-> NoTask]]
  /\ shown' = [shown EXCEPT ![d] = stored[d]]
  /\ UNCHANGED <<server, kept, load>>

Init ==
  /\ load \in Loads
  /\ log = << >> /\ gone = {}
  /\ inside = Device /\ attested = Device
  /\ keyEpoch = 0
  /\ grant = [d \in Device |-> {0}]
  /\ subscribed = [d \in Device |-> d \in load.online]
  /\ inbox = [d \in Device |-> << >>]
  /\ link = [d \in Device |-> IF d \in load.online THEN "on" ELSE "off"]
  /\ cursor = [d \in Device |-> 0]
  /\ seen = [d \in Device |-> [x \in Device |-> 0]]
  /\ sent = [d \in Device |-> 0]
  /\ held = [d \in Device |-> {0}]
  /\ shown = [d \in Device |-> [s \in Seqs |-> NoEntry]]
  /\ stored = shown
  /\ pull = [d \in Device |-> [i \in 1 .. load.pulls |-> NoTask]]
  /\ send = [d \in Device |-> [j \in 1 .. load.sends |-> NoTask]]

Hears(d) == Nudged(d) \/ Acked(d) \/ HideRemoved(d)

Works(d) ==
  \/ CatchUp(d) \/ Subscribe(d)
  \/ \E i \in DOMAIN pull[d] : PullServed(d, i) \/ Read(d, i) \/ Store(d, i)
  \/ \E j \in DOMAIN send[d] : Post(d, j) \/ GiveUp(d, j) \/ Erase(d, j)

Next ==
  \/ \E d \in Device :
       \/ Hears(d) \/ Works(d) \/ SendStart(d)
       \/ Connect(d) \/ Disconnect(d) \/ Close(d)
       \/ Rotate(d) \/ Grant(d) \/ Kick(d) \/ Rejoin(d)
  \/ \E s \in Seqs : RemoveMessage(s)
  \/ Attest

Spec == Init /\ [][Next]_vars

(* A client that is connected works off what it hears and has begun. *)
FairSpec == Spec /\ \A d \in Device : WF_vars(Hears(d)) /\ WF_vars(Works(d))
=============================================================================
