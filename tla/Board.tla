------------------------------- MODULE Board -------------------------------
(***************************************************************************)
(* The pinned board of ONE channel (communities/service.ts, and the Hub's  *)
(* stores/channel-artifacts.ts): pins, which are sealed under the          *)
(* community's metadata key and sealed anew when that key rotates,         *)
(* anonymous tickets for a pinned event, and reports sealed to managers.   *)
(* Roll-calls are in Community, the key's grants in CommunityKeys.          *)
(*                                                                         *)
(* Each account has one device and one open view of the channel.  What a   *)
(* user sets off is a call that goes through steps, and as many as Slot    *)
(* has interleave; a request that is rejected ends its call.               *)
(***************************************************************************)
EXTENDS Naturals, FiniteSets

CONSTANTS
  Account,
  Leader,     \* the leaders: they rotate, approve and review reports
  Pin,        \* bound: the pins ever made, each with its own random id
  Ticket,     \* bound: the tickets ever minted
  Report,     \* bound: the reports ever filed
  MaxEpoch,   \* bound on the rotations
  Slot,       \* bound: the calls in flight
  None,
  Loads       \* the loads a behaviour may have, see `load`

(* A row of channel_artifacts.  late and between are history, see PinPost. *)
Row == [by : Account, sealed : Nat, label : Nat,
        approved : BOOLEAN, late : BOOLEAN, between : BOOLEAN]

Statuses == {"pending", "resolved", "dismissed"}

(* A call in flight: what it does, for whom, what comes next, to which pin or *)
(* report, and what it has read: the epochs a pin is sealed under, what a      *)
(* rotation seals anew, a listing, a ticket, or whom a report is sealed to.    *)
Ops == {"pin", "rotate", "list", "go", "withdraw", "report"}
Steps == {"label", "post", "list", "adopt", "show", "count", "insert", "keep",
          "delete", "forget", "row", "seal"}
Body == [sealed : Nat, label : Nat]
Rotation == [from : Nat, resealed : SUBSET Pin]
Answer == [pins : [Pin -> Row \cup {None}], under : Nat]
Call == [op : Ops, by : Account, step : Steps, on : Pin \cup Report \cup {None},
         arg : Body \cup Rotation \cup Answer \cup Ticket \cup SUBSET Account]

ASSUME BoardAssumption ==
  /\ Leader \subseteq Account /\ Leader # {}      \* the owner is one of them
  /\ IsFiniteSet(Account) /\ IsFiniteSet(Slot) /\ MaxEpoch \in Nat
  /\ None \notin Pin \cup Ticket \cup Report \cup Row \cup Statuses \cup Call
  /\ \A l \in Loads : /\ l.members \subseteq Account /\ l.members # {}
                       /\ l.pinned \subseteq Pin /\ l.slots \subseteq Slot

VARIABLES
  epoch,      \* communities.key_epoch
  pending,    \* communities.rotation_pending
  active,     \* the active members, of the community and of its channel alike
  managers,   \* channelManagerAccountIds: leaders, and moderators
  pins,       \* channel_artifacts by id
  tickets,    \* channel_artifact_tickets: the hashes stored for each pin
  reports,    \* channel_reports.status, None without a row
  envelopes,  \* channel_report_recipients: whom a report is sealed to
  key,        \* the epoch of the metadata key each device holds
  shown,      \* byChannel of each device: the pins it shows
  mine,       \* rsvpTicketStore of each device
  news,       \* channel_artifact_updated has reached the device
  call,       \* the call in flight in each slot
  used,       \* history: the ids, tickets and reports made so far
  read,       \* history: the epoch of the device's last listing, none of them
              \* when it was opened with the key of another
  lost,       \* history: tickets whose answer or withdrawal did not arrive
  halved,     \* history: reports whose filing stopped after the first insert
  load        \* bound, frozen: the calls that arrive, the policy for pins, the
              \* members and pins there are, whether users wait after a tap,
              \* the slots in use

serverVars == <<epoch, pending, active, managers, pins, tickets, reports, envelopes>>
deviceVars == <<key, shown, mine, news>>
historyVars == <<used, read, lost, halved>>
vars == <<serverVars, deviceVars, call, historyVars, load>>

Admitted(op) == op \in load.ops

Start(s, op, a, step, on, arg) ==
  /\ Admitted(op) /\ s \in load.slots
  /\ call[s] = None
  /\ call' = [call EXCEPT ![s] = [op |-> op, by |-> a, step |-> step, on |-> on, arg |-> arg]]

At(s, op, step) == call[s] # None /\ call[s].op = op /\ call[s].step = step

Done(s) == call' = [call EXCEPT ![s] = None]

To(s, step, arg) == call' = [call EXCEPT ![s].step = step, ![s].arg = arg]

Stored == {p \in Pin : pins[p] # None}

(* emitToChannel: every active member's view lists the pins again. *)
Emit == news' = [a \in Account |-> news[a] \/ a \in active]

-----------------------------------------------------------------------------
(* Pins.  pin: buildArtifact seals the body, then the epoch is read apart. *)

PinSeal(s, a, p) ==
  /\ Start(s, "pin", a, "label", p, [sealed |-> key[a], label |-> key[a]])
  /\ p \notin used
  /\ used' = used \cup {p}
  /\ UNCHANGED <<serverVars, deviceVars, read, lost, halved, load>>

PinLabel(s) ==
  /\ At(s, "pin", "label")
  /\ To(s, "post", [call[s].arg EXCEPT !.label = key[call[s].by]])
  /\ UNCHANGED <<serverVars, deviceVars, historyVars, load>>

FutureRefused(label) == label <= epoch

(* Something has listed the pins for a rotation that has not committed. *)
BeingResealed == \E s \in Slot : At(s, "rotate", "post") /\ call[s].arg.from = epoch

(* postArtifact.  late and between are history: the body was sealed under  *)
(* an epoch the community had left, or while a rotation was under way.     *)
PinPost(s) ==
  LET a == call[s].by
      b == call[s].arg
  IN /\ At(s, "pin", "post")
     /\ Done(s)
     /\ IF a \in active /\ FutureRefused(b.label)
        THEN /\ pins' = [pins EXCEPT ![call[s].on] =
                  [by |-> a, sealed |-> b.sealed, label |-> b.label, approved |-> FALSE,
                   late |-> b.sealed < epoch, between |-> BeingResealed]]
             /\ Emit
        ELSE UNCHANGED <<pins, news>>
     /\ UNCHANGED <<epoch, pending, active, managers, tickets, reports, envelopes,
                    key, shown, mine, historyVars, load>>

(* approveArtifact: the requests that change nothing are no steps. *)
Approve(m, p) ==
  /\ Admitted("approve")
  /\ m \in managers /\ m \in active
  /\ p \in Stored /\ ~pins[p].approved
  /\ pins' = [pins EXCEPT ![p].approved = TRUE]
  /\ Emit
  /\ UNCHANGED <<epoch, pending, active, managers, tickets, reports, envelopes,
                 key, shown, mine, call, historyVars, load>>

(* The foreign keys of tickets and participants cascade. *)
TicketsGo(p) == tickets' = [tickets EXCEPT ![p] = {}]

(* deleteArtifact: by its author, or by a manager. *)
Unpin(a, p) ==
  /\ Admitted("unpin")
  /\ a \in active /\ p \in Stored
  /\ a = pins[p].by \/ a \in managers
  /\ pins' = [pins EXCEPT ![p] = None]
  /\ TicketsGo(p)
  /\ Emit
  /\ UNCHANGED <<epoch, pending, active, managers, reports, envelopes,
                 key, shown, mine, call, historyVars, load>>

-----------------------------------------------------------------------------
(* Members and the metadata key *)

(* leaveCommunity, removeMember: the row goes and the rotation is asked for. *)
Leave(a) ==
  /\ Admitted("leave")
  /\ a \in active \ Leader
  /\ active' = active \ {a}
  /\ managers' = managers \ {a}
  /\ pending' = TRUE
  /\ UNCHANGED <<epoch, pins, tickets, reports, envelopes, deviceVars, call, historyVars, load>>

(* setModerator, either way. *)
Moderator(a) ==
  /\ Admitted("moderator")
  /\ a \in active \ Leader
  /\ managers' = IF a \in managers THEN managers \ {a} ELSE managers \cup {a}
  /\ UNCHANGED <<epoch, pending, active, pins, tickets, reports, envelopes,
                 deviceVars, call, historyVars, load>>

(* rotateCommunity of the Hub: the detail, and later the listing. *)
RotateRead(s, l) ==
  /\ l \in Leader \cap active
  /\ pending /\ key[l] = epoch /\ epoch < MaxEpoch
  /\ Start(s, "rotate", l, "list", None, [from |-> epoch, resealed |-> {}])
  /\ UNCHANGED <<serverVars, deviceVars, historyVars, load>>

(* resealArtifactBody returns null for a body the old key does not open. *)
Opens(p, from) == p \in Stored /\ pins[p].sealed = from

RotateList(s) ==
  /\ At(s, "rotate", "list")
  /\ To(s, "post", [call[s].arg EXCEPT
       !.resealed = {p \in Pin : Opens(p, call[s].arg.from)}])
  /\ UNCHANGED <<serverVars, deviceVars, historyVars, load>>

KeepsPins(S, e) == pins                                              \* mutant

Resealed(S, e) == [p \in Pin |->
  IF p \in S /\ p \in Stored THEN [pins[p] EXCEPT !.sealed = e, !.label = e] ELSE pins[p]]

EpochUnchanged(from) == from = epoch

(* rotateCommunity of the server: a compare-and-set, one transaction. *)
RotateCommit(s) ==
  LET from == call[s].arg.from IN
  /\ At(s, "rotate", "post")
  /\ IF EpochUnchanged(from)
     THEN /\ epoch' = from + 1
          /\ pending' = FALSE
          /\ pins' = Resealed(call[s].arg.resealed, from + 1)
          /\ To(s, "adopt", call[s].arg)
     ELSE /\ UNCHANGED <<epoch, pending, pins>>
          /\ Done(s)
  /\ UNCHANGED <<active, managers, tickets, reports, envelopes, deviceVars, historyVars, load>>

Newer(a, e) == IF e > key[a] THEN e ELSE key[a]

(* rememberKMeta: a newer epoch wins. *)
RotateAdopt(s) ==
  /\ At(s, "rotate", "adopt")
  /\ key' = [key EXCEPT ![call[s].by] = Newer(call[s].by, call[s].arg.from + 1)]
  /\ Done(s)
  /\ UNCHANGED <<serverVars, shown, mine, news, historyVars, load>>

(* fetchKMetaGrant, for the epoch the community is in. *)
FetchKey(a) ==
  /\ a \in active /\ key[a] < epoch
  /\ key' = [key EXCEPT ![a] = epoch]
  /\ UNCHANGED <<serverVars, shown, mine, news, call, historyVars, load>>

-----------------------------------------------------------------------------
(* Listing.  load asks, then opens what came with the key of that moment.  *)
(* A view lists again when it is told to; here one listing at a time.       *)

ListRead(s, a) ==
  /\ news[a] /\ a \in active
  /\ \A t \in Slot : ~ (At(t, "list", "show") /\ call[t].by = a)
  /\ Start(s, "list", a, "show", None, [pins |-> pins, under |-> epoch])
  /\ news' = [news EXCEPT ![a] = FALSE]
  /\ UNCHANGED <<serverVars, key, shown, mine, historyVars, load>>

(* verifyArtifact: under the moderators' policy a member only suggests. *)
Stands(r) == load.policy = "everyone" \/ r.by \in Leader \/ r.approved

ListShow(s) ==
  LET a == call[s].by
      got == call[s].arg.pins
      opened == {p \in Pin : got[p] # None /\ got[p].sealed = key[a]}
  IN /\ At(s, "list", "show")
     /\ shown' = [shown EXCEPT ![a] =
          [p \in opened |-> [stands |-> Stands(got[p]), mine |-> mine[a][p] # None]]]
     /\ read' = [read EXCEPT ![a] = IF call[s].arg.under = key[a] THEN key[a] ELSE MaxEpoch + 1]
     /\ Done(s)
     /\ UNCHANGED <<serverVars, key, mine, news, used, lost, halved, load>>

-----------------------------------------------------------------------------
(* Tickets.  participate: the toggle goes by what the view shows. *)

Toggling(a) == \E s \in Slot :
  call[s] # None /\ call[s].by = a /\ call[s].op \in {"go", "withdraw"}

(* The random ids there are no two of: which one is drawn is all the same. *)
Drawn(Ids) == CHOOSE id \in Ids : id \notin used

Go(s, a, p) ==
  /\ ~(Ticket \subseteq used)
  /\ p \in DOMAIN shown[a] /\ ~shown[a][p].mine
  /\ load.taps = "once" => ~Toggling(a) /\ mine[a][p] = None
  /\ Start(s, "go", a, "count", p, Drawn(Ticket))
  /\ used' = used \cup {Drawn(Ticket)}
  /\ UNCHANGED <<serverVars, deviceVars, read, lost, halved, load>>

RoomFor(p) == Cardinality(tickets[p]) < Cardinality(active)

GoCountKeeps(s) ==                                                  \* mutant
  LET p == call[s].on IN
  /\ At(s, "go", "count")
  /\ IF call[s].by \in active /\ p \in Stored /\ RoomFor(p)
     THEN To(s, "insert", call[s].arg)
     ELSE To(s, "keep", call[s].arg)
  /\ UNCHANGED <<serverVars, deviceVars, historyVars, load>>

(* postTicket: who asks and how many tickets there are ... *)
GoCount(s) ==
  LET p == call[s].on IN
  /\ At(s, "go", "count")
  /\ IF call[s].by \in active /\ p \in Stored /\ RoomFor(p)
     THEN To(s, "insert", call[s].arg)
     ELSE Done(s)
  /\ UNCHANGED <<serverVars, deviceVars, historyVars, load>>

(* ... and the insert, which fails without the pin's row. *)
GoInsert(s) ==
  LET p == call[s].on IN
  /\ At(s, "go", "insert")
  /\ IF p \in Stored
     THEN /\ tickets' = [tickets EXCEPT ![p] = @ \cup {call[s].arg}]
          /\ Emit
          /\ To(s, "keep", call[s].arg)
     ELSE /\ UNCHANGED <<tickets, news>>
          /\ Done(s)
  /\ UNCHANGED <<epoch, pending, active, managers, pins, reports, envelopes,
                 key, shown, mine, historyVars, load>>

(* The answer arrives and the device keeps the ticket ... *)
GoKeep(s) ==
  LET a == call[s].by
      p == call[s].on
  IN /\ At(s, "go", "keep")
     /\ mine' = [mine EXCEPT ![a][p] = call[s].arg]
     /\ Done(s)
     /\ UNCHANGED <<serverVars, key, shown, news, historyVars, load>>

(* ... or it is lost: the ticket counts and nobody can take it back. *)
GoLost(s) ==
  /\ Admitted("lose")
  /\ At(s, "go", "keep")
  /\ lost' = lost \cup {call[s].arg}
  /\ Done(s)
  /\ UNCHANGED <<serverVars, deviceVars, used, read, halved, load>>

Withdraw(s, a, p) ==
  /\ p \in DOMAIN shown[a] /\ shown[a][p].mine
  /\ mine[a][p] # None
  /\ load.taps = "once" => ~Toggling(a)
  /\ Start(s, "withdraw", a, "delete", p, mine[a][p])
  /\ UNCHANGED <<serverVars, deviceVars, historyVars, load>>

(* deleteTicket: the preimage is all it takes. *)
WithdrawDelete(s) ==
  LET p == call[s].on IN
  /\ At(s, "withdraw", "delete")
  /\ IF call[s].by \in active
     THEN /\ tickets' = [tickets EXCEPT ![p] = @ \ {call[s].arg}]
          /\ Emit
          /\ To(s, "forget", call[s].arg)
     ELSE /\ UNCHANGED <<tickets, news>>
          /\ Done(s)
  /\ UNCHANGED <<epoch, pending, active, managers, pins, reports, envelopes,
                 key, shown, mine, historyVars, load>>

WithdrawForget(s) ==
  /\ At(s, "withdraw", "forget")
  /\ mine' = [mine EXCEPT ![call[s].by][call[s].on] = None]
  /\ Done(s)
  /\ UNCHANGED <<serverVars, key, shown, news, historyVars, load>>

(* The request or its answer is lost; the device still holds the ticket. *)
WithdrawLost(s) ==
  /\ Admitted("lose")
  /\ At(s, "withdraw", "delete") \/ At(s, "withdraw", "forget")
  /\ lost' = lost \cup {t \in Ticket : At(s, "withdraw", "forget") /\ t = call[s].arg}
  /\ Done(s)
  /\ UNCHANGED <<serverVars, deviceVars, used, read, halved, load>>

-----------------------------------------------------------------------------
(* Reports *)

(* listModerationRecipients *)
Recipients == managers

(* reportMessage: asks whom to seal to; without anyone it gives up. *)
ReportRead(s, a) ==
  /\ a \in active /\ Recipients # {} /\ ~(Report \subseteq used)
  /\ Start(s, "report", a, "row", Drawn(Report), Recipients)
  /\ used' = used \cup {Drawn(Report)}
  /\ UNCHANGED <<serverVars, deviceVars, read, lost, halved, load>>

(* postReport: the row ... *)
ReportRow(s) ==
  /\ At(s, "report", "row")
  /\ IF call[s].by \in active
     THEN /\ reports' = [reports EXCEPT ![call[s].on] = "pending"]
          /\ To(s, "seal", call[s].arg)
     ELSE /\ UNCHANGED reports
          /\ Done(s)
  /\ UNCHANGED <<epoch, pending, active, managers, pins, tickets, envelopes,
                 deviceVars, historyVars, load>>

SealedToOne(s) == {CHOOSE m \in call[s].arg : TRUE}                \* mutant

SealedTo(s) == call[s].arg

(* ... and its envelopes, in a second statement. *)
ReportSeal(s) ==
  /\ At(s, "report", "seal")
  /\ envelopes' = [envelopes EXCEPT ![call[s].on] = SealedTo(s)]
  /\ Done(s)
  /\ UNCHANGED <<epoch, pending, active, managers, pins, tickets, reports,
                 deviceVars, historyVars, load>>

(* The process stops between the two. *)
ReportHalved(s) ==
  /\ Admitted("lose")
  /\ At(s, "report", "seal")
  /\ halved' = halved \cup {call[s].on}
  /\ Done(s)
  /\ UNCHANGED <<serverVars, deviceVars, used, read, lost, load>>

(* listReports *)
InQueueOf(m, r) == m \in managers /\ reports[r] = "pending" /\ m \in envelopes[r]

(* resolveReport, from a queue that may be old: the status is not looked at. *)
Resolve(m, r, how) ==
  /\ Admitted("report")
  /\ m \in managers /\ m \in envelopes[r] /\ reports[r] # how
  /\ reports' = [reports EXCEPT ![r] = how]
  /\ UNCHANGED <<epoch, pending, active, managers, pins, tickets, envelopes,
                 deviceVars, call, historyVars, load>>

-----------------------------------------------------------------------------

Init ==
  /\ load \in Loads
  /\ epoch = 0 /\ pending = FALSE
  /\ active = load.members /\ managers = Leader \cap load.members
  /\ pins = [p \in Pin |-> IF p \in load.pinned
       THEN [by |-> CHOOSE l \in Leader : TRUE, sealed |-> 0, label |-> 0,
             approved |-> FALSE, late |-> FALSE, between |-> FALSE]
       ELSE None]
  /\ tickets = [p \in Pin |-> {}]
  /\ reports = [r \in Report |-> None] /\ envelopes = [r \in Report |-> {}]
  /\ key = [a \in Account |-> 0]
  /\ shown = [a \in Account |-> [p \in load.pinned |-> [stands |-> TRUE, mine |-> FALSE]]]
  /\ mine = [a \in Account |-> [p \in Pin |-> None]]
  /\ news = [a \in Account |-> FALSE]
  /\ call = [s \in Slot |-> None]
  /\ used = load.pinned
  /\ read = [a \in Account |-> 0] /\ lost = {} /\ halved = {}

Next ==
  \/ \E s \in Slot, a \in Account :
       \/ \E p \in Pin :
            PinSeal(s, a, p) \/ Withdraw(s, a, p) \/ Go(s, a, p)
       \/ ReportRead(s, a) \/ RotateRead(s, a) \/ ListRead(s, a)
  \/ \E s \in Slot :
       \/ PinLabel(s) \/ PinPost(s)
       \/ RotateList(s) \/ RotateCommit(s) \/ RotateAdopt(s) \/ ListShow(s)
       \/ GoCount(s) \/ GoInsert(s) \/ GoKeep(s) \/ GoLost(s)
       \/ WithdrawDelete(s) \/ WithdrawForget(s) \/ WithdrawLost(s)
       \/ ReportRow(s) \/ ReportSeal(s) \/ ReportHalved(s)
  \/ \E a \in Account :
       \/ Leave(a) \/ Moderator(a) \/ FetchKey(a)
       \/ \E p \in Pin : Approve(a, p) \/ Unpin(a, p)
       \/ \E r \in Report, how \in {"resolved", "dismissed"} : Resolve(a, r, how)

BoardSpec == Init /\ [][Next]_vars
=============================================================================
