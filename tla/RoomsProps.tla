----------------------------- MODULE RoomsProps -----------------------------
(***************************************************************************)
(* What the handlers of a room promise, however they interleave or, where  *)
(* a property says so, when they run one after the other.                  *)
(***************************************************************************)
EXTENDS Rooms

(* One handler at a time. *)
Alone == Cardinality(load.slots) = 1

Quiet == \A s \in Slot : call[s] = NoCall

Live == phase \in {"open", "in_progress"}

(* The active members stand in one line by joined_at: of any two of them, one *)
(* joined before the other.                                                    *)
InLine ==
  /\ older \subseteq Active \X Active
  /\ \A x, y \in Active : x # y <=> (<<x, y>> \in older \/ <<y, x>> \in older)
  /\ \A x, y, z \in Active :
       <<x, y>> \in older /\ <<y, z>> \in older => <<x, z>> \in older

(* Types, with what joined_at and status keep of each other: every active  *)
(* member has one place in the order of joining (joinRoom's upsert).         *)
RoomsTypeOK ==
  /\ phase \in Phases
  /\ host \in Account
  /\ member \in [Account -> {"none", "active", "kicked", "left"}]
  /\ Len(requests) <= MaxRequests
  /\ InLine

(* An open join never fills the room beyond its limit, however many run at *)
(* once: the count is repeated under the lock.  And with one handler at a    *)
(* time a kicked account stays out unless the host approves a request of it   *)
(* (service.ts joinRoom; rooms.test.ts 'kick blocks rejoin').                  *)
DoorHolds ==
  [][/\ \A s \in Slot : JoinAdmit(s) /\ Active' # Active
          => Cardinality(Active') <= MaxMembers
     /\ Alone => \A a \in Account :
          member[a] = "kicked" /\ phase' # "deleted"
            => member'[a] = "kicked" \/ \E s \in Slot : Approve(s)]_vars

(* The room never holds more active members than max_members (service.ts   *)
(* joinRoom: "otherwise simultaneous joiners could each read a count below    *)
(* maxMembers and all become active, exceeding the cap").                      *)
CapHolds == Cardinality(Active) <= MaxMembers

(* A live room has a host who is in it, when no handler is half-way         *)
(* (service.ts leaveRoom: immediate migration; an empty room closes).         *)
HostIsMember == Quiet /\ Live => member[host] = "active"

(* An account has one request a host can still act upon (service.ts         *)
(* joinRoom: "One pending request per (room, account)").                      *)
OneRequest ==
  \A i, j \in DOMAIN requests :
    /\ i # j /\ requests[i].by = requests[j].by
    => {requests[i].status, requests[j].status} # {"pending"}

(* With one handler at a time, a room stays within its limit, has a host who *)
(* is in it and no two requests of one account; and however many interleave,  *)
(* every active member has one place in the order of joining.                  *)
RoomInvariant == RoomsTypeOK /\ (Alone => CapHolds /\ HostIsMember /\ OneRequest)

(* A host who leaves is followed by one who is there, or the room closes:   *)
(* the migration that starts is carried out (service.ts leaveRoom).            *)
HostMigrates == (Alone /\ Live /\ member[host] = "left") ~> (~Live \/ member[host] = "active")
=============================================================================
