---------------------------- MODULE DeliveryProps ----------------------------
(***************************************************************************)
(* The properties of Delivery, apart from the module so that the modules  *)
(* that extend Delivery choose which of them to state again.               *)
(***************************************************************************)
EXTENDS Delivery, Sequences

(* Every variable has its type. *)
TypeOK ==
  /\ groupKind \in Kinds
  /\ epoch \in Nat
  /\ lastSeq \in Nat
  /\ groupInfo \in [epoch : Nat, data : Payload] \cup {NoInfo}
  /\ added \in [Device -> Nat \cup {Absent}]
  /\ removed \in [Device -> Nat \cup {Absent}]
  /\ mailbox \subseteq history
  /\ history \subseteq Row
  /\ welcomes \subseteq Welcome
  /\ acked \in [Device -> Nat]
  /\ status \in [Account -> {"none", "active", "gone"}]
  /\ managers \subseteq Account
  /\ silenced \subseteq Account
  /\ revoked \subseteq Device
  /\ publishing \subseteq Device
  /\ expiredTo \in Nat
  /\ withdrawn \subseteq Nat

CommitRows == {row \in history : row.kind = "commit"}

PostRows == {row \in history : row.kind = "application"}

(* The mailbox numbers a group's rows 1, 2, 3 ... with no gap and no *)
(* number given twice, whatever handlers race for the row lock.       *)
SeqsAreDense ==
  /\ \A row \in history : row.seq \in 1 .. lastSeq
  /\ \A n \in 1 .. lastSeq : \E row \in history : row.seq = n
  /\ \A row1, row2 \in history : row1.seq = row2.seq => row1 = row2

(* Each epoch ended with exactly one commit, and the commits are in the *)
(* mailbox in the order of the epochs they end: two devices that commit *)
(* at the same epoch never both win.                                     *)
OneCommitPerEpoch ==
  /\ \A row \in CommitRows : row.epoch \in 0 .. epoch - 1
  /\ \A e \in 0 .. epoch - 1 : \E row \in CommitRows : row.epoch = e
  /\ \A row1, row2 \in CommitRows : row1.seq < row2.seq <=> row1.epoch < row2.epoch

(* An application message never overtakes the commit that opens its epoch, *)
(* and at most one commit got in between its encryption and its number: a  *)
(* member that applies the mailbox in order and keeps one past epoch can    *)
(* read everything.                                                          *)
EpochWindow ==
  groupKind # "group_key" =>
    \A post \in PostRows, commit \in CommitRows :
      /\ commit.seq < post.seq => commit.epoch <= post.epoch
      /\ post.seq < commit.seq => post.epoch <= commit.epoch

(* The commits that touch device d, and those of them that come last. *)
Touching(d) == {row \in CommitRows : d \in row.adds \cup row.removes}
LastTouching(d) == {row \in Touching(d) : \A other \in Touching(d) : other.epoch <= row.epoch}

(* The server's leaf table, which it maintains from what the senders declare, *)
(* is what the commits themselves say when read in order: d is a leaf exactly *)
(* when the last commit that touches it does not remove it, or none touches   *)
(* it and it published the group.                                               *)
LeavesMatchLog ==
  \A d \in Device :
    d \in Leaves <=> IF Touching(d) = {} THEN added[d] = 0
                     ELSE \A row \in LastTouching(d) : d \notin row.removes

(* What the rows and the leaf table of a group keep to, whatever handlers *)
(* race for its row lock: the five conditions above.                       *)
LogInvariant ==
  TypeOK /\ SeqsAreDense /\ OneCommitPerEpoch /\ EpochWindow /\ LeavesMatchLog

(* A row disappears from the mailbox before its retention ends, and without *)
(* its author having deleted it, only when every device that is still a     *)
(* leaf and was one when the row was encrypted has acked it, whatever joins, *)
(* removals and late acks happened since.                                    *)
NoLossBeforeExpiry ==
  \A row \in history \ mailbox :
    \/ row.seq <= expiredTo
    \/ row.seq \in withdrawn
    \/ /\ groupKind # "group_key"
       /\ \A d \in Leaves \ {row.sender} : added[d] <= row.epoch => acked[d] >= row.seq

(* The GroupInfo the server hands to joiners is the one of its epoch: a *)
(* joiner that builds its commit on it and is not raced is accepted.      *)
InfoIsCurrent == groupInfo # NoInfo => groupInfo.epoch = epoch

(* A room or channel never holds more leaves than its cap, and a channel no *)
(* more of one member than its limit, whatever commits race.                  *)
CapsHold ==
  /\ groupKind \in {"room", "channel"} => Cardinality(Leaves) <= Cap
  /\ groupKind = "channel" =>
       \A a \in Account : Cardinality({d \in Leaves : Owner[d] = a}) <= MemberCap

(* Delivery implements GroupLog: read in the order of their numbers, the rows *)
(* it ever inserted are a log that only grows at its end, a commit at a time   *)
(* per epoch.                                                                   *)
RowAt(n) == CHOOSE row \in history : row.seq = n
LogEntries ==
  [n \in 1 .. lastSeq |->
     [kind |-> RowAt(n).kind, epoch |-> RowAt(n).epoch, sender |-> RowAt(n).sender]]
Log == INSTANCE GroupLog WITH log <- LogEntries, Sender <- Device
LogSpec == Log!Spec
=============================================================================
