---------------------------- MODULE MCArtifacts ----------------------------
(***************************************************************************)
(* What is pinned to a channel: its board, with one or two leaders and     *)
(* members under loads of what they do, and the reminder of an event, with *)
(* two members, one a moderator, and a leader who is not in the channel.   *)
(* The two share no row but the pin of an event, so a behaviour is of one   *)
(* part or the other.                                                       *)
(***************************************************************************)
EXTENDS BoardProps, RemindersProps

CONSTANTS l1, l2, m1, m2, p1, p2, t1, t2, t3, r1, r2, mod, lead, mem, e1

VARIABLE part   \* fixed by Init: which of the two a behaviour is of

Base == [ops |-> {}, members |-> {l1, l2, m1}, pinned |-> {p1},
         policy |-> "moderators", taps |-> "once", slots |-> {1, 2}]

(* Pins come and go while the key rotates ... *)
Pinning == [Base EXCEPT !.ops = {"pin", "rotate", "leave"}, !.members = Account]
(* Two leaders race to rotate while a pin is on its way. *)
Racing == [Pinning EXCEPT !.members = {l1, l2, m1}, !.slots = {1, 2, 3}]
(* ... and views follow them. *)
Viewing == [Base EXCEPT !.ops = {"pin", "list", "approve", "unpin"}, !.pinned = {},
                        !.members = {l1, m1}]
Rotating == [Base EXCEPT !.ops = {"rotate", "list", "leave", "unpin"}, !.policy = "everyone"]
(* Members go to an event, one tap after the other and in a hurry. *)
Rsvp == [Base EXCEPT !.ops = {"list", "go", "withdraw", "lose"}, !.members = {l1, m1}]
Cancelling == [Rsvp EXCEPT !.ops = {"list", "go", "withdraw", "unpin"}]
Tapping == [Rsvp EXCEPT !.taps = "many", !.ops = {"list", "go", "withdraw", "leave"}]
Reporting == [Base EXCEPT !.ops = {"report", "moderator", "leave", "lose"}]

AllLoads == {Pinning, Racing, Viewing, Rotating, Rsvp, Cancelling, Tapping, Reporting}
Instants == [e \in {e1} |-> 2]

ArtifactsInit ==
  /\ Init /\ ReminderInit
  /\ part \in {"board", "reminder"} /\ (part = "reminder" => load = Viewing)

ArtifactsNext ==
  /\ \/ part = "board" /\ Next /\ UNCHANGED reminderVars
     \/ part = "reminder" /\ ReminderNext /\ UNCHANGED vars
  /\ UNCHANGED part

ArtifactsSpec == ArtifactsInit /\ [][ArtifactsNext]_<<vars, reminderVars, part>>
=============================================================================
