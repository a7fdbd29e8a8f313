------------------------------- MODULE Rooms -------------------------------
(***************************************************************************)
(* The life of ONE room of an app (apps/server/src/modules/rooms/          *)
(* service.ts): its phase, host, members and join requests.  The leaves    *)
(* and the mailbox of its MLS group are module Delivery's.                 *)
(*                                                                         *)
(* Only the insert of an open join takes a lock.  Every other handler      *)
(* reads, decides, and writes in later statements what it decided, so a    *)
(* handler is a call that goes through steps, and as many as Slot has      *)
(* interleave.  Reads that follow each other without a write are one step.  *)
(***************************************************************************)
EXTENDS Naturals, Sequences, FiniteSets

CONSTANTS
  Account,      \* the users of the app
  Creator,      \* the one who creates the room
  MaxMembers,   \* rooms.max_members
  Slot,         \* bound: one for each handler that may be in flight
  MaxRequests,  \* bound on the join requests ever made
  Loads,        \* what may happen in a behaviour, see load
  NoCall

Phases == {"open", "in_progress", "closed", "deleted"}

(* A handler in flight: what it does and for whom, the statement it comes to *)
(* next, and whom, what or which request it has read.                         *)
Ops == {"join", "decline", "approve", "kick", "leave", "phase", "close", "prune"}
Steps == {"check", "admit", "knock", "expire", "insert", "count", "write", "migrate",
          "promote", "close", "delete"}
Targets == Account \cup Phases \cup Nat
Call == [op : Ops, by : Account, step : Steps, on : Targets]

ASSUME RoomsAssumption ==
  /\ Creator \in Account /\ IsFiniteSet(Account) /\ IsFiniteSet(Slot)
  /\ MaxMembers \in Nat \ {0}
  /\ MaxRequests \in Nat
  /\ NoCall \notin Call
  /\ \A l \in Loads : l.slots \subseteq Slot /\ l.requests \in 0..MaxRequests

VARIABLES
  phase,        \* rooms.phase; "deleted" when pruneRooms has deleted the row
  host,         \* rooms.host_account_id
  member,       \* room_members.status, "none" without a row
  older,        \* the pairs of active members of which the first has the
                \* earlier room_members.joined_at
  requests,     \* the rows of room_join_requests, in order of creation
  call,         \* the handler in flight in each slot
  load          \* bound, fixed by Init: the slots in use, the handlers that
                \* arrive, and the limit on join requests

roomVars == <<phase, host, member, older, requests>>
vars == <<roomVars, call>>

Exists == phase # "deleted"

Active == {a \in Account : member[a] = "active"}

HasRoom(n) == n < MaxMembers

Without(a) == {p \in older : p[1] # a /\ p[2] # a}

(* joined_at is set again by the upsert. *)
Rejoined(a) == Without(a) \cup ((Active \ {a}) \X {a})

Activate(a) ==
  /\ member' = [member EXCEPT ![a] = "active"]
  /\ older' = Rejoined(a)

Begin(s, op, a, step, on) ==
  /\ call[s] = NoCall
  /\ call' = [call EXCEPT ![s] = [op |-> op, by |-> a, step |-> step, on |-> on]]
  /\ UNCHANGED roomVars

At(s, op, step) == call[s] # NoCall /\ call[s].op = op /\ call[s].step = step

Done(s) == call' = [call EXCEPT ![s] = NoCall]

Continue(s, step) == call' = [call EXCEPT ![s].step = step]

ContinueOn(s, step, on) == call' = [call EXCEPT ![s].step = step, ![s].on = on]

-----------------------------------------------------------------------------
(* joinRoom: the room is read first, then the membership and the count. *)

Knocking ==
  {t \in Slot : /\ call[t] # NoCall /\ call[t].op = "join"
               /\ \/ call[t].step \in {"knock", "expire", "insert"}
                  \/ call[t].step = "check" /\ call[t].on = "in_progress"}

JoinStart(s, a) ==
  /\ phase \notin {"closed", "deleted"}
  /\ phase = "in_progress" => Len(requests) + Cardinality(Knocking) < load.requests
  /\ Begin(s, "join", a, "check", phase)

Barred(a) == member[a] = "kicked"

JoinCheck(s) ==
  /\ At(s, "join", "check")
  /\ LET c == call[s]
     IN  IF Barred(c.by) \/ member[c.by] = "active" \/ ~HasRoom(Cardinality(Active))
         THEN Done(s)
         ELSE Continue(s, IF c.on = "open" THEN "admit" ELSE "knock")
  /\ UNCHANGED roomVars

NoRecount == TRUE                           \* mutant

Recount == HasRoom(Cardinality(Active))

(* The transaction under the advisory lock. *)
JoinAdmit(s) ==
  /\ At(s, "join", "admit")
  /\ IF Exists /\ Recount THEN Activate(call[s].by) ELSE UNCHANGED <<member, older>>
  /\ Done(s)
  /\ UNCHANGED <<phase, host, requests>>

(* 'approved', 'declined' and 'expired' are one status, "resolved"; "stale" *)
(* is 'pending' for longer than ROOM_JOIN_REQUEST_TTL_MS.                    *)
Pending(i) == requests[i].status \in {"pending", "stale"}

Waiting(a) == {i \in DOMAIN requests : requests[i].by = a /\ Pending(i)}

(* in_progress: return the pending request, or replace a stale one. *)
Knock(s) ==
  /\ At(s, "join", "knock")
  /\ \/ Waiting(call[s].by) = {} /\ Continue(s, "insert")
     \/ \E i \in Waiting(call[s].by) :
          IF requests[i].status = "pending" THEN Done(s) ELSE ContinueOn(s, "expire", i)
  /\ UNCHANGED roomVars

Resolve(i) ==
  requests' = IF i \in DOMAIN requests THEN [requests EXCEPT ![i].status = "resolved"] ELSE requests

KnockExpire(s) ==
  /\ At(s, "join", "expire")
  /\ Resolve(call[s].on)
  /\ Continue(s, "insert")
  /\ UNCHANGED <<phase, host, member, older>>

KnockInsert(s) ==
  /\ At(s, "join", "insert")
  /\ requests' = IF Exists
                 THEN Append(requests, [by |-> call[s].by, status |-> "pending"])
                 ELSE requests
  /\ Done(s)
  /\ UNCHANGED <<phase, host, member, older>>

-----------------------------------------------------------------------------
(* resolveJoinRequest: by the host of a room that may be open, in progress *)
(* or closed; the writes repeat none of the checks.                          *)

ResolveStart(s, h) ==
  /\ Exists /\ host = h
  /\ \E i \in DOMAIN requests :
       /\ Pending(i)
       /\ \/ Begin(s, "decline", h, "write", i)
          \/ Begin(s, "approve", h, "count", i)

Decline(s) ==
  /\ At(s, "decline", "write")
  /\ Resolve(call[s].on)
  /\ Done(s)
  /\ UNCHANGED <<phase, host, member, older>>

ApproveCount(s) ==
  /\ At(s, "approve", "count")
  /\ IF HasRoom(Cardinality(Active)) THEN Continue(s, "write") ELSE Done(s)
  /\ UNCHANGED roomVars

Approve(s) ==
  /\ At(s, "approve", "write")
  /\ Resolve(call[s].on)
  /\ IF Exists THEN Activate(requests[call[s].on].by) ELSE UNCHANGED <<member, older>>
  /\ Done(s)
  /\ UNCHANGED <<phase, host>>

-----------------------------------------------------------------------------
(* kickMember and leaveRoom. *)

(* After pruneRooms there is no row left to update. *)
SetMember(a, status) ==
  /\ member' = IF Exists THEN [member EXCEPT ![a] = status] ELSE member
  /\ older' = Without(a)

KickStart(s, h) ==
  /\ Exists /\ host = h
  /\ \E a \in Active \ {h} : Begin(s, "kick", h, "write", a)

Kick(s) ==
  /\ At(s, "kick", "write")
  /\ SetMember(call[s].on, "kicked")
  /\ Done(s)
  /\ UNCHANGED <<phase, host, requests>>

(* The host is the one of the room as read here. *)
LeaveStart(s, a) == Exists /\ member[a] = "active" /\ Begin(s, "leave", a, "write", host)

NobodysHost(c) == FALSE                     \* mutant

WasHost(c) == c.on = c.by

Leave(s) ==
  /\ At(s, "leave", "write")
  /\ SetMember(call[s].by, "left")
  /\ IF WasHost(call[s]) THEN ContinueOn(s, "migrate", 0) ELSE Done(s)
  /\ UNCHANGED <<phase, host, requests>>

(* "Host left -> immediate migration: the oldest remaining active member *)
(* becomes host; an empty room closes."                                     *)
Migrate(s) ==
  /\ At(s, "leave", "migrate")
  /\ \/ Active = {} /\ Continue(s, "close")
     \/ \E a \in Active : /\ \A x \in Active : <<x, a>> \notin older
                         /\ ContinueOn(s, "promote", a)
  /\ UNCHANGED roomVars

Promote(s) ==
  /\ At(s, "leave", "promote")
  /\ host' = IF Exists THEN call[s].on ELSE host
  /\ Done(s)
  /\ UNCHANGED <<phase, member, older, requests>>

-----------------------------------------------------------------------------
(* setPhase, closeRoom, and the closing of an emptied room. *)

SetPhaseTo(p) == phase' = IF Exists THEN p ELSE phase

NotClosed == phase \notin {"closed", "deleted"}

SetPhaseStart(s, h) ==
  /\ NotClosed /\ host = h
  /\ \E p \in {"open", "in_progress"} : Begin(s, "phase", h, "write", p)

SetPhase(s) ==
  /\ At(s, "phase", "write")
  /\ SetPhaseTo(call[s].on)
  /\ Done(s)
  /\ UNCHANGED <<host, member, older, requests>>

CloseStart(s, h) == phase # "closed" /\ Exists /\ host = h /\ Begin(s, "close", h, "close", 0)

(* closeRoomInternal *)
Close(s) ==
  /\ At(s, "close", "close") \/ At(s, "leave", "close")
  /\ SetPhaseTo("closed")
  /\ Done(s)
  /\ UNCHANGED <<host, member, older, requests>>

-----------------------------------------------------------------------------
(* Time, and pruneRooms, the hourly housekeeping. *)

(* A request outlives ROOM_JOIN_REQUEST_TTL_MS. *)
RequestAges ==
  /\ \E i \in DOMAIN requests :
       /\ requests[i].status = "pending"
       /\ requests' = [requests EXCEPT ![i].status = "stale"]
  /\ UNCHANGED <<phase, host, member, older, call>>

PruneRequests ==
  /\ \E i \in DOMAIN requests : requests[i].status = "stale"
  /\ requests' = [i \in DOMAIN requests |->
       IF requests[i].status = "stale"
       THEN [requests[i] EXCEPT !.status = "resolved"] ELSE requests[i]]
  /\ UNCHANGED <<phase, host, member, older, call>>

(* An idle room: one statement, in a slot that is free. *)
PruneIdle ==
  /\ \E s \in load.slots : call[s] = NoCall
  /\ NotClosed
  /\ phase' = "closed"
  /\ UNCHANGED <<host, member, older, requests, call>>

(* A room closed for long is selected and then deleted, whatever it is by then. *)
PruneSelect(s) == phase = "closed" /\ Begin(s, "prune", host, "delete", 0)

PruneDelete(s) ==
  /\ At(s, "prune", "delete")
  /\ phase' = "deleted"
  /\ member' = [a \in Account |-> "none"]
  /\ older' = {}
  /\ requests' = << >>
  /\ Done(s)
  /\ UNCHANGED host

-----------------------------------------------------------------------------
(* createRoom *)
Init ==
  /\ load \in Loads
  /\ phase = "open"
  /\ host = Creator
  /\ member = [a \in Account |-> IF a = Creator THEN "active" ELSE "none"]
  /\ older = {}
  /\ requests = << >>
  /\ call = [s \in Slot |-> NoCall]

Arrive(s) ==
  \/ "prune" \in load.ops /\ PruneSelect(s)
  \/ \E a \in Account :
       \/ JoinStart(s, a) \/ LeaveStart(s, a) \/ ResolveStart(s, a)
       \/ "kick" \in load.ops /\ KickStart(s, a)
       \/ "phase" \in load.ops /\ SetPhaseStart(s, a)
       \/ "close" \in load.ops /\ CloseStart(s, a)

Proceed(s) ==
  \/ JoinCheck(s) \/ JoinAdmit(s) \/ Knock(s) \/ KnockExpire(s) \/ KnockInsert(s)
  \/ Decline(s) \/ ApproveCount(s) \/ Approve(s)
  \/ Kick(s) \/ Leave(s) \/ Migrate(s) \/ Promote(s) \/ SetPhase(s) \/ Close(s)
  \/ PruneDelete(s)

Housekeeping == "prune" \in load.ops /\ (RequestAges \/ PruneRequests \/ PruneIdle)

Next ==
  /\ (\E s \in load.slots : Arrive(s) \/ Proceed(s)) \/ Housekeeping
  /\ UNCHANGED load

Spec == Init /\ [][Next]_<<vars, load>>

(* The process runs its handlers to the end. *)
FairSpec == Spec /\ \A s \in Slot : WF_vars(Proceed(s))
=============================================================================
