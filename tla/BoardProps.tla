----------------------------- MODULE BoardProps -----------------------------
(* What a channel's board promises to those who look at it.                 *)
EXTENDS Board

(* The state has the shape of the tables; tickets go with their pin, and no *)
(* envelope is without its report.                                          *)
BoardTypeOK ==
  /\ epoch \in 0 .. MaxEpoch /\ pending \in BOOLEAN
  /\ managers \subseteq active /\ active \subseteq Account
  /\ \A p \in Pin : pins[p] # None => pins[p].by \in Account
  /\ \A p \in Pin : tickets[p] # {} => p \in Stored
  /\ \A r \in Report : envelopes[r] # {} => reports[r] # None
  /\ \A a \in Account : key[a] <= epoch /\ DOMAIN shown[a] \subseteq Pin

(* Whoever has the community's current key reads every pin, however often   *)
(* the key rotated and whichever leaders raced to rotate it, unless the pin  *)
(* was sealed under an epoch that was over when it arrived, or arrived while *)
(* a rotation had already listed the pins.                                   *)
PinsReadable ==
  \A p \in Stored :
    /\ pins[p].sealed <= pins[p].label /\ pins[p].label <= epoch
    /\ ~pins[p].late /\ ~pins[p].between => pins[p].sealed = epoch

Listing(a) == \E s \in Slot : At(s, "list", "show") /\ call[s].by = a

(* A member's view that has nothing left to do shows the pins there are, and *)
(* who vouches for them: no pin that was removed, none missing, no approval  *)
(* overlooked, when its listing was opened with the key it was made under.   *)
ShownCurrent ==
  \A a \in active : ~news[a] /\ ~Listing(a) /\ read[a] = epoch =>
    /\ DOMAIN shown[a] = {p \in Stored : pins[p].sealed = epoch}
    /\ \A p \in DOMAIN shown[a] : shown[a][p].stands = Stands(pins[p])

(* The rows are well-formed, the pins are readable, and the views show them *)
(* (communities/service.ts, channel-artifacts.ts).                           *)
BoardInvariant == BoardTypeOK /\ PinsReadable /\ ShownCurrent

(* The head count of an event is at most the members there were and the      *)
(* posts that were counted at the same time as another.                      *)
TicketsBounded ==
  \A p \in Pin : Cardinality(tickets[p]) < Cardinality(load.members) + Cardinality(load.slots)

(* Every ticket that counts can be taken back by the device that holds it,   *)
(* unless the answer that would have said so was lost, and as long as a user *)
(* who toggles waits for the last toggle.                                    *)
TicketsHeld ==
  load.taps = "once" =>
    \A p \in Pin : \A t \in tickets[p] \ lost :
      \/ \E a \in Account : mine[a][p] = t
      \/ \E s \in Slot : At(s, "go", "keep") /\ call[s].arg = t

(* A device that says "going" is counted, as long as the event is pinned,    *)
(* also when taps, answers and withdrawals cross.                            *)
MineCounts ==
  \A a \in Account : \A p \in Stored : LET t == mine[a][p] IN
    t # None => \/ t \in tickets[p] \/ t \in lost
                \/ \E s \in Slot : At(s, "withdraw", "forget") /\ call[s].arg = t

(* Server and device agree on who goes, and how many can.                   *)
TicketsAgree == TicketsBounded /\ TicketsHeld /\ MineCounts

(* A report nobody has handled is in the queue of every leader, unless its   *)
(* filing is under way or stopped between the two inserts.                   *)
ReportReaches ==
  \A r \in Report \ halved :
    reports[r] = "pending" /\ ~(\E s \in Slot : At(s, "report", "seal") /\ call[s].on = r)
    => \A l \in Leader \cap active : InQueueOf(l, r)
=============================================================================
