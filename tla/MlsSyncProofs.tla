--------------------------- MODULE MlsSyncProofs ---------------------------
(***************************************************************************)
(* Proofs about the delivery of one group, for every set of devices, every  *)
(* load and every bound: first the server alone (Delivery), then the sync   *)
(* engine of each device over it (MlsSync).                                 *)
(*                                                                         *)
(* Of the server the argument has one idea: whatever the sixteen handlers   *)
(* do to leaves, acks, standing and retention, a step touches the log in    *)
(* one of only two ways (LogStep).  The log invariants follow from that.    *)
(*                                                                         *)
(* What a device has done is told by three things it has written: the MLS  *)
(* state it persisted, its cursor, and the request or the row its running   *)
(* job holds.  The invariant relates them, device by device (Sound); a step *)
(* of one device leaves the others alone, and a step of the server touches  *)
(* nothing of it but the answer a device waits for.                         *)
(***************************************************************************)
EXTENDS DeliveryProps, MlsSyncProps, FiniteSetTheorems, SequenceTheorems, TLAPS

-----------------------------------------------------------------------------
(* The server: type correctness, one lemma for the largest handler. *)

LEMMA PostCommitType ==
  ASSUME TypeOK,
         NEW d \in Device, NEW e \in Nat, NEW adds \in SUBSET Device,
         NEW removes \in SUBSET Device, NEW welcomed \in SUBSET Device,
         NEW data \in Payload, NEW info \in Payload,
         PostCommit(d, e, adds, removes, welcomed, data, info)
  PROVE  TypeOK'
<1> DEFINE joined == AddedBy(d, adds)
           row == NewRow("commit", e, d, data, joined, removes)
<1>1. joined \in SUBSET Device
  BY DEF AddedBy
<1>2. row \in Row
  BY <1>1 DEF NewRow, NewSeq, Row, TypeOK
<1>3. /\ epoch' = epoch + 1
      /\ lastSeq' = lastSeq + 1
      /\ groupInfo' = [epoch |-> epoch + 1, data |-> info]
      /\ added' = [x \in Device |-> IF x \in joined THEN epoch + 1 ELSE added[x]]
      /\ removed' = RemovedEpochs(joined, removes)
      /\ mailbox' = mailbox \cup {row}
      /\ history' = history \cup {row}
      /\ welcomes' = welcomes \cup
              {[seq |-> lastSeq + 1, to |-> x, data |-> info] : x \in welcomed}
      /\ UNCHANGED <<acked, standingVars, publishing, expiredTo, withdrawn>>
  BY DEF PostCommit, Insert, InfoOfNewEpoch
<1>4. epoch' \in Nat /\ lastSeq' \in Nat /\ groupInfo' \in [epoch : Nat, data : Payload]
  BY <1>3 DEF TypeOK
<1>5. added' \in [Device -> Nat \cup {Absent}]
  BY <1>3 DEF TypeOK
<1>6. removed' \in [Device -> Nat \cup {Absent}]
  BY <1>3 DEF TypeOK, RemovedEpochs
<1>7. mailbox' \subseteq history' /\ history' \subseteq Row
  BY <1>2, <1>3 DEF TypeOK
<1>8. welcomes' \subseteq Welcome
  BY <1>3 DEF TypeOK, Welcome
<1> QED
  BY <1>3, <1>4, <1>5, <1>6, <1>7, <1>8 DEF TypeOK, standingVars

LEMMA PostMessageType ==
  ASSUME TypeOK, NEW d \in Device, NEW e \in Nat, NEW data \in Payload,
         PostMessage(d, e, data)
  PROVE  TypeOK'
<1> DEFINE row == NewRow("application", e, d, data, {}, {})
<1>1. row \in Row
  BY DEF NewRow, NewSeq, Row, TypeOK
<1>2. /\ lastSeq' = lastSeq + 1
      /\ mailbox' = mailbox \cup {row}
      /\ history' = history \cup {row}
  BY DEF PostMessage, Insert
<1>3. mailbox' \subseteq history' /\ history' \subseteq Row
  BY <1>1, <1>2 DEF TypeOK
<1> QED
  BY <1>2, <1>3 DEF PostMessage, TypeOK, standingVars

(* Each of the commits a client may send is one PostCommit. *)
LEMMA PostingSteps ==
  ASSUME TypeOK, Posting
  PROVE  \/ \E d \in Device, e \in Nat, adds \in SUBSET Device, removes \in SUBSET Device,
               welcomed \in SUBSET Device, data \in Payload :
              /\ groupKind = "dm" \/ groupInfo # NoInfo \/ Leaves # {}
              /\ removes \subseteq Leaves
              /\ PostCommit(d, e, adds, removes, welcomed, data, data)
         \/ \E d \in Device, e \in Nat, data \in Payload :
              (groupKind # "group_key" => e <= epoch) /\ PostMessage(d, e, data)
<1>1. CASE CreateCommit
  <2>1. PICK d \in Device, adds \in SUBSET Device, e \in 0 .. epoch, data \in Payload :
          groupKind = "dm" /\ PostCommit(d, e, adds, {}, adds, data, data)
    BY <1>1 DEF CreateCommit
  <2>2. e \in Nat /\ {} \in SUBSET Device
    BY DEF TypeOK
  <2> QED BY <2>1, <2>2
<1>2. CASE JoinCommit
  <2>1. PICK d \in Device, e \in 0 .. epoch, data \in Payload :
          groupInfo # NoInfo /\ PostCommit(d, e, {d}, {}, {}, data, data)
    BY <1>2 DEF JoinCommit
  <2>2. e \in Nat /\ {d} \in SUBSET Device /\ {} \in SUBSET Device
    BY DEF TypeOK
  <2> QED BY <2>1, <2>2
<1>3. CASE RemoveCommit
  <2>1. PICK d \in Device, removes \in SUBSET Leaves, e \in 0 .. epoch, data \in Payload :
          removes # {} /\ PostCommit(d, e, {}, removes, {}, data, data)
    BY <1>3 DEF RemoveCommit
  <2>2. e \in Nat /\ removes \in SUBSET Device /\ {} \in SUBSET Device /\ Leaves # {}
    BY <2>1 DEF TypeOK, Leaves
  <2> QED BY <2>1, <2>2
<1>4. CASE Post
  <2>1. PICK d \in Device, e \in Claimable, data \in Payload : PostMessage(d, e, data)
    BY <1>4 DEF Post
  <2>2. e \in Nat /\ (groupKind # "group_key" => e <= epoch)
    BY DeliveryAssumption DEF TypeOK, Claimable, DeliveryAssumption
  <2> QED BY <2>1, <2>2
<1> QED
  BY <1>1, <1>2, <1>3, <1>4 DEF Posting

(* A group stays of the kind it was made. *)
LEMMA KindFixed ==
  ASSUME [Next]_vars
  PROVE  groupKind' = groupKind
<1> USE DEF groupVars, standingVars
<1>1. CASE Posting
  BY <1>1 DEF Posting, CreateCommit, JoinCommit, RemoveCommit, Post, PostCommit, PostMessage
<1>2. CASE Publish
  BY <1>2 DEF Publish, PublishCheck, PublishStore
<1>3. CASE Acknowledge
  BY <1>3 DEF Acknowledge, AckCursor, AckWelcome
<1>4. CASE Retain
  BY <1>4 DEF Retain, DeleteOwnMessage, PruneMailbox, PruneChannelMessages
<1>5. CASE Standing
  BY <1>5 DEF Standing, Admit, Depart, Appoint, Silence, RevokeDevice
<1>6. CASE UNCHANGED vars
  BY <1>6 DEF vars
<1> QED
  BY <1>1, <1>2, <1>3, <1>4, <1>5, <1>6 DEF Next

(* Every variable keeps its type. *)
THEOREM TypeCorrect == Spec => []TypeOK
<1>1. Init => TypeOK
  BY DeliveryAssumption DEF Init, TypeOK, DeliveryAssumption, Absent
<1>2. TypeOK /\ [Next]_vars => TypeOK'
  <2> SUFFICES ASSUME TypeOK, [Next]_vars PROVE TypeOK'
    OBVIOUS
  <2>1. CASE Posting
    BY <2>1, PostingSteps, PostCommitType, PostMessageType
  <2>2. CASE Publish
    <3>1. PICK d \in Device, data \in Payload : PublishCheck(d) \/ PublishStore(d, data)
      BY <2>2 DEF Publish
    <3>2. CASE PublishCheck(d)
      BY <3>2 DEF PublishCheck, TypeOK, groupVars, standingVars
    <3>3. CASE PublishStore(d, data)
      BY <3>3 DEF PublishStore, TypeOK, standingVars
    <3> QED BY <3>1, <3>2, <3>3
  <2>3. CASE Acknowledge
    <3>1. CASE \E d \in Ackers[groupKind], seq \in 1 .. lastSeq : AckCursor(d, seq)
      <4>1. PICK d \in Ackers[groupKind], seq \in 1 .. lastSeq : AckCursor(d, seq)
        BY <3>1
      <4>2. acked' \in [Device -> Nat]
        BY <4>1, DeliveryAssumption DEF AckCursor, TypeOK, Greatest, DeliveryAssumption
      <4> QED BY <4>1, <4>2 DEF AckCursor, TypeOK, groupVars, standingVars
    <3>2. CASE \E w \in welcomes : AckWelcome(w)
      BY <3>2 DEF AckWelcome, TypeOK, groupVars, standingVars
    <3> QED BY <2>3, <3>1, <3>2 DEF Acknowledge
  <2>4. CASE Retain
    <3>1. CASE \E a \in Deleters[groupKind], row \in mailbox : DeleteOwnMessage(a, row)
      <4>1. PICK a \in Deleters[groupKind], row \in mailbox : DeleteOwnMessage(a, row)
        BY <3>1
      <4>2. row.seq \in Nat
        BY DEF TypeOK, Row
      <4> QED BY <4>1, <4>2 DEF DeleteOwnMessage, TypeOK, groupVars, standingVars
    <3>2. CASE \E horizon \in 0 .. MaxHorizon : PruneMailbox(horizon)
      BY <3>2, DeliveryAssumption
      DEF PruneMailbox, TypeOK, Greatest, DeliveryAssumption, groupVars, standingVars
    <3>3. CASE \E horizon \in 0 .. MaxHorizon : PruneChannelMessages(horizon)
      BY <3>3, DeliveryAssumption
      DEF PruneChannelMessages, TypeOK, Greatest, DeliveryAssumption, groupVars, standingVars
    <3> QED BY <2>4, <3>1, <3>2, <3>3 DEF Retain
  <2>5. CASE Standing
    <3>1. CASE \E a \in Account : Admit(a) \/ Depart(a)
      BY <3>1 DEF Admit, Depart, TypeOK, groupVars
    <3>2. CASE \E S \in SUBSET Account : Appoint(S) \/ Silence(S)
      BY <3>2 DEF Appoint, Silence, TypeOK, groupVars
    <3>3. CASE \E d \in Device : RevokeDevice(d)
      BY <3>3 DEF RevokeDevice, TypeOK, groupVars
    <3> QED BY <2>5, <3>1, <3>2, <3>3 DEF Standing
  <2>6. CASE UNCHANGED vars
    BY <2>6 DEF vars, groupVars, standingVars, TypeOK
  <2> QED
    BY <2>1, <2>2, <2>3, <2>4, <2>5, <2>6 DEF Next
<1> QED
  BY <1>1, <1>2, PTL DEF Spec

-----------------------------------------------------------------------------
(* The log.  A step leaves it alone, appends the commit that ends the epoch, *)
(* or appends a post of the window.                                           *)

SameLog == UNCHANGED <<groupKind, epoch, lastSeq, history>>

Appends(row) ==
  /\ groupKind' = groupKind
  /\ row.seq = lastSeq + 1
  /\ lastSeq' = lastSeq + 1
  /\ history' = history \cup {row}

AppendsCommit(row) ==
  /\ Appends(row)
  /\ row.kind = "commit"
  /\ row.epoch = epoch
  /\ epoch' = epoch + 1

AppendsPost(row) ==
  /\ Appends(row)
  /\ row.kind = "application"
  /\ groupKind # "group_key" => row.epoch <= epoch /\ InEpochWindow(row.epoch)
  /\ epoch' = epoch

LEMMA LogStep ==
  ASSUME TypeOK, [Next]_vars
  PROVE  \/ SameLog
         \/ \E row \in Row : AppendsCommit(row) \/ AppendsPost(row)
<1>1. CASE Posting
  <2>1. ASSUME NEW d \in Device, NEW e \in Nat, NEW adds \in SUBSET Device,
               NEW removes \in SUBSET Device, NEW welcomed \in SUBSET Device,
               NEW data \in Payload,
               PostCommit(d, e, adds, removes, welcomed, data, data)
        PROVE  \E row \in Row : AppendsCommit(row)
    <3> DEFINE row == NewRow("commit", e, d, data, AddedBy(d, adds), removes)
    <3>1. row \in Row
      BY <2>1 DEF NewRow, NewSeq, Row, TypeOK, AddedBy
    <3>2. AppendsCommit(row)
      BY <2>1 DEF PostCommit, CommitAccepted, AtEpoch, Insert, NewRow, NewSeq,
                  AppendsCommit, Appends, standingVars
    <3> QED BY <3>1, <3>2
  <2>2. ASSUME NEW d \in Device, NEW e \in Nat, NEW data \in Payload,
               groupKind # "group_key" => e <= epoch,
               PostMessage(d, e, data)
        PROVE  \E row \in Row : AppendsPost(row)
    <3> DEFINE row == NewRow("application", e, d, data, {}, {})
    <3>1. row \in Row
      BY <2>2 DEF NewRow, NewSeq, Row, TypeOK
    <3>2. AppendsPost(row)
      BY <2>2 DEF PostMessage, Insert, NewRow, NewSeq, AppendsPost, Appends, standingVars
    <3> QED BY <3>1, <3>2
  <2> QED BY <1>1, <2>1, <2>2, PostingSteps
<1>2. CASE Publish
  BY <1>2 DEF Publish, PublishCheck, PublishStore, SameLog, groupVars, standingVars
<1>3. CASE Acknowledge
  BY <1>3 DEF Acknowledge, AckCursor, AckWelcome, SameLog, groupVars, standingVars
<1>4. CASE Retain
  BY <1>4 DEF Retain, DeleteOwnMessage, PruneMailbox, PruneChannelMessages, SameLog, groupVars,
              standingVars
<1>5. CASE Standing
  BY <1>5 DEF Standing, Admit, Depart, Appoint, Silence, RevokeDevice, SameLog, groupVars,
              standingVars
<1>6. CASE UNCHANGED vars
  BY <1>6 DEF vars, groupVars, standingVars, SameLog
<1> QED
  BY <1>1, <1>2, <1>3, <1>4, <1>5, <1>6 DEF Next

(* The inductive strengthening.  The order of the epochs and the window both *)
(* rest on a bound no property states: nothing in the log is of an epoch that *)
(* has not begun, and no post was accepted more than one epoch behind.         *)
EpochsBegun ==
  /\ \A row \in CommitRows : row.epoch < epoch
  /\ groupKind # "group_key" => \A row \in PostRows : row.epoch <= epoch

LogInv == SeqsAreDense /\ OneCommitPerEpoch /\ EpochWindow /\ EpochsBegun

LEMMA SeqsStayDense ==
  ASSUME TypeOK, SeqsAreDense, NEW row \in Row, Appends(row)
  PROVE  SeqsAreDense'
<1>1. history' = history \cup {row} /\ lastSeq' = lastSeq + 1 /\ row.seq = lastSeq + 1
  BY DEF Appends
<1>2. lastSeq \in Nat /\ \A r \in history : r.seq \in 1 .. lastSeq
  BY DEF TypeOK, SeqsAreDense
<1>3. \A r \in history' : r.seq \in 1 .. lastSeq'
  BY <1>1, <1>2
<1>4. \A n \in 1 .. lastSeq' : \E r \in history' : r.seq = n
  <2> SUFFICES ASSUME NEW n \in 1 .. lastSeq' PROVE \E r \in history' : r.seq = n
    OBVIOUS
  <2>1. CASE n = lastSeq + 1
    BY <2>1, <1>1
  <2>2. CASE n \in 1 .. lastSeq
    BY <2>2, <1>1 DEF SeqsAreDense
  <2> QED BY <2>1, <2>2, <1>1, <1>2
<1>5. \A r1, r2 \in history' : r1.seq = r2.seq => r1 = r2
  BY <1>1, <1>2 DEF SeqsAreDense
<1> QED
  BY <1>3, <1>4, <1>5 DEF SeqsAreDense

LEMMA CommitKeepsLogInv ==
  ASSUME TypeOK, LogInv, NEW row \in Row, AppendsCommit(row)
  PROVE  LogInv'
<1>1. /\ CommitRows' = CommitRows \cup {row}
      /\ PostRows' = PostRows
      /\ row.epoch = epoch /\ epoch' = epoch + 1 /\ row.seq = lastSeq + 1
      /\ groupKind' = groupKind
  BY DEF AppendsCommit, Appends, CommitRows, PostRows
<1>2. \A r \in history : r.seq \in Nat /\ r.epoch \in Nat /\ r.seq < row.seq
  BY <1>1 DEF LogInv, SeqsAreDense, TypeOK, Row
<1>3. SeqsAreDense'
  BY SeqsStayDense DEF LogInv, AppendsCommit
<1>4. EpochsBegun'
  BY <1>1, <1>2 DEF LogInv, EpochsBegun, CommitRows, PostRows, TypeOK
<1>5. OneCommitPerEpoch'
  <2>1. \A r \in CommitRows' : r.epoch \in 0 .. epoch' - 1
    BY <1>1 DEF LogInv, OneCommitPerEpoch, TypeOK
  <2>2. \A e \in 0 .. epoch' - 1 : \E r \in CommitRows' : r.epoch = e
    <3> SUFFICES ASSUME NEW e \in 0 .. epoch' - 1 PROVE \E r \in CommitRows' : r.epoch = e
      OBVIOUS
    <3>1. CASE e = epoch
      BY <3>1, <1>1
    <3>2. CASE e \in 0 .. epoch - 1
      BY <3>2, <1>1 DEF LogInv, OneCommitPerEpoch
    <3> QED BY <3>1, <3>2, <1>1 DEF TypeOK
  <2>3. \A r1, r2 \in CommitRows' : r1.seq < r2.seq <=> r1.epoch < r2.epoch
    <3>1. \A r \in CommitRows : r \in history /\ r.epoch < row.epoch /\ r.seq < row.seq
      BY <1>1, <1>2 DEF LogInv, EpochsBegun, CommitRows
    <3>2. row.seq \in Nat /\ row.epoch \in Nat
      BY DEF Row
    <3> QED BY <1>1, <1>2, <3>1, <3>2 DEF LogInv, OneCommitPerEpoch
  <2> QED BY <2>1, <2>2, <2>3 DEF OneCommitPerEpoch
<1>6. EpochWindow'
  <2> SUFFICES ASSUME groupKind # "group_key", NEW post \in PostRows, NEW commit \in CommitRows'
               PROVE  /\ commit.seq < post.seq => commit.epoch <= post.epoch
                      /\ post.seq < commit.seq => post.epoch <= commit.epoch
    BY <1>1 DEF EpochWindow
  <2>1. CASE commit = row
    BY <2>1, <1>1, <1>2 DEF LogInv, EpochsBegun, PostRows, TypeOK
  <2>2. CASE commit \in CommitRows
    BY <2>2 DEF LogInv, EpochWindow
  <2> QED BY <2>1, <2>2, <1>1
<1> QED
  BY <1>3, <1>4, <1>5, <1>6 DEF LogInv

LEMMA PostKeepsLogInv ==
  ASSUME TypeOK, LogInv, NEW row \in Row, AppendsPost(row)
  PROVE  LogInv'
<1>1. /\ CommitRows' = CommitRows
      /\ PostRows' = PostRows \cup {row}
      /\ epoch' = epoch /\ row.seq = lastSeq + 1 /\ groupKind' = groupKind
      /\ groupKind # "group_key" => row.epoch <= epoch
      /\ groupKind # "group_key" => row.epoch = epoch \/ row.epoch = epoch - 1
  BY DEF AppendsPost, Appends, CommitRows, PostRows, InEpochWindow
<1>2. \A r \in history : r.seq \in Nat /\ r.epoch \in Nat /\ r.seq < row.seq
  BY <1>1 DEF LogInv, SeqsAreDense, TypeOK, Row
<1>3. SeqsAreDense'
  BY SeqsStayDense DEF LogInv, AppendsPost
<1>4. EpochsBegun'
  BY <1>1 DEF LogInv, EpochsBegun
<1>5. OneCommitPerEpoch'
  BY <1>1 DEF LogInv, OneCommitPerEpoch
<1>6. EpochWindow'
  <2> SUFFICES ASSUME groupKind # "group_key", NEW post \in PostRows', NEW commit \in CommitRows
               PROVE  /\ commit.seq < post.seq => commit.epoch <= post.epoch
                      /\ post.seq < commit.seq => post.epoch <= commit.epoch
    BY <1>1 DEF EpochWindow
  <2>1. CASE post = row
    <3>1. commit.epoch \in Nat /\ commit.epoch < epoch /\ commit.seq \in Nat /\ commit.seq < row.seq
      BY <1>2 DEF LogInv, EpochsBegun, CommitRows
    <3>2. row.epoch \in Nat /\ row.seq \in Nat
      BY DEF Row
    <3> QED BY <2>1, <3>1, <3>2, <1>1 DEF TypeOK
  <2>2. CASE post \in PostRows
    BY <2>2 DEF LogInv, EpochWindow
  <2> QED BY <2>1, <2>2, <1>1
<1> QED
  BY <1>3, <1>4, <1>5, <1>6 DEF LogInv

LEMMA LogInvInvariant == Spec => []LogInv
<1>1. Init => LogInv
  BY DEF Init, LogInv, SeqsAreDense, OneCommitPerEpoch, EpochWindow, EpochsBegun,
         CommitRows, PostRows
<1>2. TypeOK /\ LogInv /\ [Next]_vars => LogInv'
  <2> SUFFICES ASSUME TypeOK, LogInv, [Next]_vars PROVE LogInv'
    OBVIOUS
  <2>1. CASE SameLog
    BY <2>1 DEF SameLog, LogInv, SeqsAreDense, OneCommitPerEpoch, EpochWindow,
                EpochsBegun, CommitRows, PostRows
  <2>2. CASE \E row \in Row : AppendsCommit(row)
    BY <2>2, CommitKeepsLogInv
  <2>3. CASE \E row \in Row : AppendsPost(row)
    BY <2>3, PostKeepsLogInv
  <2> QED BY <2>1, <2>2, <2>3, LogStep
<1> QED
  BY <1>1, <1>2, TypeCorrect, PTL DEF Spec

(* The rows of a group are numbered without a gap or a repetition. *)
THEOREM DenseSeqs == Spec => []SeqsAreDense
BY LogInvInvariant, PTL DEF LogInv

(* Two commits never win the same epoch, and they are read in epoch order. *)
THEOREM SingleCommit == Spec => []OneCommitPerEpoch
BY LogInvInvariant, PTL DEF LogInv

(* A post is never more than one commit away from the epoch it was made in. *)
THEOREM PostsInWindow == Spec => []EpochWindow
BY LogInvInvariant, PTL DEF LogInv

-----------------------------------------------------------------------------
(* The leaf table.  What the last commit that touches a device says of it is *)
(* what its row says: a commit's epoch exceeds every earlier one's, so that    *)
(* the commit a step appends becomes the last of all it touches.                *)

ToldByLog(d) ==
  /\ Touching(d) = {} => added[d] \in {Absent, 0} /\ removed[d] = Absent
  /\ Touching(d) # {} =>
       /\ added[d] # Absent
       /\ \E row \in LastTouching(d) : d \in row.removes <=> removed[d] # Absent

LeafInv == \A d \in Device : ToldByLog(d)

(* A device whose row and whose commits stay as they are stays told. *)
LEMMA UntouchedStaysTold ==
  ASSUME NEW d \in Device, ToldByLog(d), Touching(d)' = Touching(d),
         added'[d] = added[d], removed'[d] = removed[d]
  PROVE  ToldByLog(d)'
<1>1. LastTouching(d)' = LastTouching(d)
  BY DEF LastTouching
<1> QED
  BY <1>1 DEF ToldByLog

LEMMA CommitKeepsLeafInv ==
  ASSUME TypeOK, LogInv, LeafInv,
         NEW d \in Device, NEW e \in Nat, NEW adds \in SUBSET Device,
         NEW removes \in SUBSET Device, NEW welcomed \in SUBSET Device,
         NEW data \in Payload, removes \subseteq Leaves,
         PostCommit(d, e, adds, removes, welcomed, data, data)
  PROVE  LeafInv'
<1> DEFINE joined == AddedBy(d, adds)
           row == NewRow("commit", e, d, data, joined, removes)
<1>1. /\ added' = [x \in Device |-> IF x \in joined THEN epoch + 1 ELSE added[x]]
      /\ removed' = RemovedEpochs(joined, removes)
      /\ history' = history \cup {row}
      /\ e = epoch
  BY DEF PostCommit, CommitAccepted, AtEpoch, Insert
<1>2. /\ row.kind = "commit" /\ row.epoch = epoch
      /\ row.adds = joined /\ row.removes = removes
  BY <1>1 DEF NewRow
<1>3. CommitRows' = CommitRows \cup {row}
  BY <1>1, <1>2 DEF CommitRows
<1>4. \A r \in CommitRows : r.epoch \in Nat /\ r.epoch < epoch
  BY DEF LogInv, EpochsBegun, CommitRows, TypeOK, Row
<1>5. SUFFICES ASSUME NEW x \in Device PROVE ToldByLog(x)'
  BY DEF LeafInv
<1>6. epoch \in Nat /\ epoch + 1 # Absent
  BY DEF TypeOK, Absent
<1>7. CASE x \in joined \cup removes
  <2>1. Touching(x)' = Touching(x) \cup {row}
    BY <1>2, <1>3, <1>7 DEF Touching
  <2>2. row \in LastTouching(x)'
    BY <2>1, <1>2, <1>4, <1>6 DEF LastTouching, Touching
  <2>3. added'[x] # Absent
    BY <1>1, <1>6, <1>7 DEF Leaves
  <2>4. x \in row.removes <=> removed'[x] # Absent
    <3>1. CASE x \in removes
      BY <3>1, <1>1, <1>2, <1>6 DEF RemovedEpochs, Leaves
    <3>2. CASE x \notin removes
      BY <3>2, <1>1, <1>2, <1>7 DEF RemovedEpochs
    <3> QED BY <3>1, <3>2
  <2> QED
    BY <2>1, <2>2, <2>3, <2>4 DEF ToldByLog
<1>8. CASE x \notin joined \cup removes
  <2>1. Touching(x)' = Touching(x)
    BY <1>2, <1>3, <1>8 DEF Touching
  <2>2. added'[x] = added[x] /\ removed'[x] = removed[x]
    BY <1>1, <1>8 DEF RemovedEpochs
  <2> QED
    BY <2>1, <2>2, UntouchedStaysTold DEF LeafInv
<1> QED
  BY <1>7, <1>8

LEMMA PublishKeepsLeafInv ==
  ASSUME TypeOK, LeafInv, NEW d \in Device, NEW data \in Payload, PublishStore(d, data)
  PROVE  LeafInv'
<1>1. CommitRows' = CommitRows /\ removed' = removed
  BY DEF PublishStore, CommitRows
<1>2. \A x \in Device : Touching(x)' = Touching(x) /\ LastTouching(x)' = LastTouching(x)
  BY <1>1 DEF Touching, LastTouching
<1>3. SUFFICES ASSUME NEW x \in Device PROVE ToldByLog(x)'
  BY DEF LeafInv
<1>4. CASE added'[x] = added[x]
  BY <1>1, <1>2, <1>4, UntouchedStaysTold DEF LeafInv
<1>5. CASE added'[x] # added[x]
  <2>1. added[x] = Absent /\ added'[x] = 0
    BY <1>5 DEF PublishStore, TypeOK
  <2>2. Touching(x) = {} /\ removed[x] = Absent
    BY <2>1 DEF LeafInv, ToldByLog
  <2> QED
    BY <1>1, <1>2, <2>1, <2>2 DEF ToldByLog
<1> QED
  BY <1>4, <1>5

LEMMA OthersKeepLeafInv ==
  ASSUME LeafInv, UNCHANGED <<added, removed, CommitRows>>
  PROVE  LeafInv'
<1>1. \A x \in Device : Touching(x)' = Touching(x)
  BY DEF Touching
<1> QED
  BY <1>1, UntouchedStaysTold DEF LeafInv

LEMMA LeafInvInvariant == Spec => []LeafInv
<1>1. Init => LeafInv
  BY DEF Init, LeafInv, ToldByLog, Touching, CommitRows
<1>2. TypeOK /\ LogInv /\ LeafInv /\ [Next]_vars => LeafInv'
  <2> SUFFICES ASSUME TypeOK, LogInv, LeafInv, [Next]_vars PROVE LeafInv'
    OBVIOUS
  <2>1. CASE Posting
    <3>1. ASSUME NEW d \in Device, NEW e \in Nat, NEW data \in Payload,
                 PostMessage(d, e, data)
          PROVE  LeafInv'
      <4>1. UNCHANGED <<added, removed, CommitRows>>
        BY <3>1 DEF PostMessage, Insert, NewRow, CommitRows
      <4> QED BY <4>1, OthersKeepLeafInv
    <3> QED BY <2>1, <3>1, PostingSteps, CommitKeepsLeafInv
  <2>2. CASE Publish
    <3>1. ASSUME NEW d \in Device, PublishCheck(d) PROVE LeafInv'
      BY <3>1, OthersKeepLeafInv DEF PublishCheck, groupVars, CommitRows
    <3> QED BY <2>2, <3>1, PublishKeepsLeafInv DEF Publish
  <2>3. CASE Acknowledge \/ Retain \/ Standing \/ UNCHANGED vars
    <3>1. UNCHANGED <<added, removed, history>>
      BY <2>3 DEF Acknowledge, AckCursor, AckWelcome, Retain, DeleteOwnMessage, PruneMailbox,
                  PruneChannelMessages, Standing, Admit, Depart, Appoint, Silence, RevokeDevice,
                  vars, groupVars
    <3> QED BY <3>1, OthersKeepLeafInv DEF CommitRows
  <2> QED BY <2>1, <2>2, <2>3 DEF Next
<1> QED
  BY <1>1, <1>2, TypeCorrect, LogInvInvariant, PTL DEF Spec

(* Of the commits that touch a device, one is the last. *)
LEMMA LastIsOne ==
  ASSUME TypeOK, LogInv, NEW d \in Device,
         NEW row1 \in LastTouching(d), NEW row2 \in LastTouching(d)
  PROVE  row1 = row2
<1>1. /\ row1 \in CommitRows /\ row2 \in CommitRows
      /\ row1.epoch <= row2.epoch /\ row2.epoch <= row1.epoch
  BY DEF LastTouching, Touching
<1>2. /\ row1.epoch \in Nat /\ row2.epoch \in Nat
      /\ row1.seq \in Nat /\ row2.seq \in Nat
  BY <1>1 DEF CommitRows, TypeOK, Row
<1>3. row1.seq = row2.seq
  BY <1>1, <1>2 DEF LogInv, OneCommitPerEpoch
<1> QED
  BY <1>1, <1>3 DEF LogInv, SeqsAreDense, CommitRows

(* The leaf table is what the commits of the log say. *)
THEOREM LeavesAsLogged == Spec => []LeavesMatchLog
<1>1. TypeOK /\ LogInv /\ LeafInv => LeavesMatchLog
  <2> SUFFICES ASSUME TypeOK, LogInv, LeafInv, NEW d \in Device
               PROVE  d \in Leaves <=> IF Touching(d) = {} THEN added[d] = 0
                                       ELSE \A row \in LastTouching(d) : d \notin row.removes
    BY DEF LeavesMatchLog
  <2>1. CASE Touching(d) = {}
    BY <2>1 DEF LeafInv, ToldByLog, Leaves, Absent
  <2>2. CASE Touching(d) # {}
    <3>1. added[d] # Absent
      BY <2>2 DEF LeafInv, ToldByLog
    <3>2. PICK row \in LastTouching(d) : d \in row.removes <=> removed[d] # Absent
      BY <2>2 DEF LeafInv, ToldByLog
    <3>3. \A other \in LastTouching(d) : other = row
      BY <3>2, LastIsOne
    <3> QED BY <2>2, <3>1, <3>2, <3>3 DEF Leaves
  <2> QED BY <2>1, <2>2
<1> QED
  BY <1>1, TypeCorrect, LogInvInvariant, LeafInvInvariant, PTL

(* The rows and the leaf table of a group keep to all five conditions. *)
THEOREM LogHolds == Spec => []LogInvariant
BY TypeCorrect, DenseSeqs, SingleCommit, PostsInWindow, LeavesAsLogged, PTL DEF LogInvariant

-----------------------------------------------------------------------------
(* Founding, GroupInfo and retention.  They hold when one device at most may *)
(* publish a group's epoch-0 GroupInfo; two that publish at once both pass    *)
(* PublishCheck, and the later PublishStore overwrites a group with history.  *)

SolePublisher == \A p, q \in Publishers : p = q

Blank ==
  /\ epoch = 0
  /\ history = {}
  /\ groupInfo = NoInfo
  /\ \A x \in Device : added[x] = Absent

(* Until its publisher is a leaf, a room or channel has nothing a publish *)
(* could overwrite; a group_key channel never has leaves at all.           *)
FoundingInv ==
  /\ publishing \subseteq Publishers
  /\ publishing # {} => groupKind \in {"room", "channel"}
  /\ groupKind = "group_key" => \A x \in Device : added[x] = Absent
  /\ groupKind \in {"room", "channel"} /\ (\A p \in Publishers : added[p] = Absent) => Blank

LEMMA PublishStoreFirst ==
  ASSUME TypeOK, FoundingInv, SolePublisher, NEW d \in Device, NEW data \in Payload,
         PublishStore(d, data), added[d] = Absent
  PROVE  /\ Blank
         /\ groupInfo' = [epoch |-> 0, data |-> data]
         /\ added' = [added EXCEPT ![d] = 0]
         /\ UNCHANGED <<groupKind, epoch, history>>
<1>1. d \in Publishers /\ groupKind \in {"room", "channel"}
  BY DEF PublishStore, FoundingInv
<1>2. \A p \in Publishers : added[p] = Absent
  BY <1>1 DEF SolePublisher
<1> QED
  BY <1>1, <1>2 DEF FoundingInv, PublishStore, standingVars

LEMMA PostingKeepsFounding ==
  ASSUME TypeOK, FoundingInv, Posting
  PROVE  FoundingInv'
<1>1. ASSUME NEW d \in Device, NEW e \in Nat, NEW adds \in SUBSET Device,
             NEW removes \in SUBSET Device, NEW welcomed \in SUBSET Device,
             NEW data \in Payload,
             groupKind = "dm" \/ groupInfo # NoInfo \/ Leaves # {},
             PostCommit(d, e, adds, removes, welcomed, data, data)
      PROVE  FoundingInv'
  <2>1. groupKind # "group_key" /\ UNCHANGED <<groupKind, publishing>>
    BY <1>1 DEF PostCommit, CommitAccepted, standingVars
  <2>2. groupKind = "dm" \/ ~Blank
    BY <1>1 DEF Blank, Leaves
  <2>3. \A p \in Device : added[p] # Absent => added'[p] # Absent
    <3>1. added' = [x \in Device |-> IF x \in AddedBy(d, adds) THEN epoch + 1 ELSE added[x]]
      BY <1>1 DEF PostCommit
    <3> QED BY <3>1 DEF TypeOK, Absent
  <2> QED
    BY <2>1, <2>2, <2>3, DeliveryAssumption DEF FoundingInv, Blank, DeliveryAssumption
<1>2. ASSUME NEW d \in Device, NEW e \in Nat, NEW data \in Payload, PostMessage(d, e, data)
      PROVE  FoundingInv'
  <2>1. groupKind = "group_key" \/ ~Blank
    BY <1>2 DEF PostMessage, MayPost, Blank, Leaves
  <2> QED
    BY <1>2, <2>1 DEF FoundingInv, Blank, PostMessage, standingVars
<1> QED
  BY <1>1, <1>2, PostingSteps

LEMMA FoundingInvariant == SolePublisher => (Spec => []FoundingInv)
<1> SUFFICES ASSUME SolePublisher PROVE Spec => []FoundingInv
  OBVIOUS
<1>1. Init => FoundingInv
  BY DEF Init, FoundingInv, Blank
<1>2. TypeOK /\ FoundingInv /\ [Next]_vars => FoundingInv'
  <2> SUFFICES ASSUME TypeOK, FoundingInv, [Next]_vars PROVE FoundingInv'
    OBVIOUS
  <2>1. CASE Posting
    BY <2>1, PostingKeepsFounding
  <2>2. CASE Publish
    <3>1. PICK d \in Device, data \in Payload : PublishCheck(d) \/ PublishStore(d, data)
      BY <2>2 DEF Publish
    <3>2. CASE PublishCheck(d)
      BY <3>2 DEF PublishCheck, MayPublish, FoundingInv, Blank, groupVars, standingVars
    <3>3. CASE PublishStore(d, data) /\ added[d] = Absent
      <4>1. d \in Publishers /\ groupKind \in {"room", "channel"} /\ publishing' \subseteq publishing
            /\ groupKind' = groupKind
        BY <3>3 DEF PublishStore, FoundingInv, standingVars
      <4>2. added'[d] # Absent
        BY <3>3, PublishStoreFirst DEF TypeOK, Absent
      <4> QED BY <4>1, <4>2 DEF FoundingInv
    <3>4. CASE PublishStore(d, data) /\ added[d] # Absent
      BY <3>4 DEF PublishStore, FoundingInv, Blank, standingVars
    <3> QED BY <3>1, <3>2, <3>3, <3>4
  <2>3. CASE Acknowledge
    BY <2>3 DEF Acknowledge, AckCursor, AckWelcome, FoundingInv, Blank, groupVars,
                standingVars
  <2>4. CASE Retain
    BY <2>4 DEF Retain, DeleteOwnMessage, PruneMailbox, PruneChannelMessages,
                FoundingInv, Blank, groupVars, standingVars
  <2>5. CASE Standing
    BY <2>5 DEF Standing, Admit, Depart, Appoint, Silence, RevokeDevice,
                FoundingInv, Blank, groupVars, standingVars
  <2>6. CASE UNCHANGED vars
    BY <2>6 DEF vars, groupVars, standingVars, FoundingInv, Blank
  <2> QED
    BY <2>1, <2>2, <2>3, <2>4, <2>5, <2>6 DEF Next
<1> QED
  BY <1>1, <1>2, TypeCorrect, PTL DEF Spec

(* The GroupInfo handed to joiners is never that of an epoch gone by. *)
THEOREM CurrentInfo == SolePublisher => (Spec => []InfoIsCurrent)
<1> SUFFICES ASSUME SolePublisher PROVE Spec => []InfoIsCurrent
  OBVIOUS
<1>1. Init => InfoIsCurrent
  BY DEF Init, InfoIsCurrent
<1>2. TypeOK /\ FoundingInv /\ InfoIsCurrent /\ [Next]_vars => InfoIsCurrent'
  <2> SUFFICES ASSUME TypeOK, FoundingInv, InfoIsCurrent, [Next]_vars PROVE InfoIsCurrent'
    OBVIOUS
  <2>1. CASE Posting
    BY <2>1, PostingSteps DEF PostCommit, InfoOfNewEpoch, PostMessage, InfoIsCurrent
  <2>2. CASE Publish
    <3>1. PICK d \in Device, data \in Payload : PublishCheck(d) \/ PublishStore(d, data)
      BY <2>2 DEF Publish
    <3>2. CASE PublishCheck(d)
      BY <3>2 DEF PublishCheck, InfoIsCurrent, groupVars
    <3>3. CASE PublishStore(d, data) /\ added[d] = Absent
      BY <3>3, PublishStoreFirst DEF Blank, InfoIsCurrent
    <3>4. CASE PublishStore(d, data) /\ added[d] # Absent
      BY <3>4 DEF PublishStore, InfoIsCurrent
    <3> QED BY <3>1, <3>2, <3>3, <3>4
  <2>3. CASE Acknowledge
    BY <2>3 DEF Acknowledge, AckCursor, AckWelcome, InfoIsCurrent, groupVars
  <2>4. CASE Retain
    BY <2>4 DEF Retain, DeleteOwnMessage, PruneMailbox, PruneChannelMessages,
                InfoIsCurrent, groupVars
  <2>5. CASE Standing
    BY <2>5 DEF Standing, Admit, Depart, Appoint, Silence, RevokeDevice,
                InfoIsCurrent, groupVars
  <2>6. CASE UNCHANGED vars
    BY <2>6 DEF vars, groupVars, InfoIsCurrent
  <2> QED
    BY <2>1, <2>2, <2>3, <2>4, <2>5, <2>6 DEF Next
<1> QED
  BY <1>1, <1>2, TypeCorrect, FoundingInvariant, PTL DEF Spec

LEMMA PostingKeepsRows ==
  ASSUME TypeOK, EpochsBegun, NoLossBeforeExpiry, Posting
  PROVE  NoLossBeforeExpiry'
<1>1. ASSUME NEW d \in Device, NEW e \in Nat, NEW adds \in SUBSET Device,
             NEW removes \in SUBSET Device, NEW welcomed \in SUBSET Device,
             NEW data \in Payload,
             PostCommit(d, e, adds, removes, welcomed, data, data)
      PROVE  NoLossBeforeExpiry'
  <2> DEFINE joined == AddedBy(d, adds)
  <2>1. /\ history' \ mailbox' \subseteq history \ mailbox
        /\ added' = [x \in Device |-> IF x \in joined THEN epoch + 1 ELSE added[x]]
        /\ removed' = RemovedEpochs(joined, removes)
        /\ UNCHANGED <<groupKind, acked, expiredTo, withdrawn>>
    BY <1>1 DEF PostCommit, Insert, standingVars
  <2>2. \A row \in history : row.epoch \in Nat /\ row.epoch < epoch + 1
    BY <1>1 DEF EpochsBegun, CommitRows, PostRows, TypeOK, Row, PostCommit, CommitAccepted
  <2>3. \A x \in Leaves' : x \in joined \/ (x \in Leaves /\ added'[x] = added[x])
    <3> SUFFICES ASSUME NEW x \in Device, added'[x] # Absent, removed'[x] = Absent,
                        x \notin joined
                 PROVE  x \in Leaves /\ added'[x] = added[x]
      BY DEF Leaves
    <3>1. added'[x] = added[x]
      BY <2>1
    <3>2. epoch + 1 # Absent
      BY DEF TypeOK, Absent
    <3>3. removed'[x] = IF x \in removes /\ x \in Leaves THEN epoch + 1 ELSE removed[x]
      BY <2>1 DEF RemovedEpochs
    <3> QED BY <3>1, <3>2, <3>3 DEF Leaves
  <2>4. \A x \in Leaves', row \in history \ mailbox :
          added'[x] <= row.epoch => x \in Leaves /\ added[x] <= row.epoch
    BY <2>1, <2>2, <2>3 DEF TypeOK, Leaves
  <2> QED
    BY <2>1, <2>4 DEF NoLossBeforeExpiry
<1>2. ASSUME NEW d \in Device, NEW e \in Nat, NEW data \in Payload, PostMessage(d, e, data)
      PROVE  NoLossBeforeExpiry'
  BY <1>2 DEF PostMessage, Insert, NoLossBeforeExpiry, Leaves, standingVars
<1> QED
  BY <1>1, <1>2, PostingSteps

LEMMA RetainKeepsRows ==
  ASSUME TypeOK, FoundingInv, NoLossBeforeExpiry, Retain
  PROVE  NoLossBeforeExpiry'
<1> USE DeliveryAssumption DEF DeliveryAssumption
<1>1. CASE \E a \in Deleters[groupKind], row \in mailbox : DeleteOwnMessage(a, row)
  BY <1>1 DEF DeleteOwnMessage, NoLossBeforeExpiry, Leaves, groupVars, standingVars
<1>2. ASSUME NEW horizon \in 0 .. MaxHorizon, PruneMailbox(horizon)
      PROVE  NoLossBeforeExpiry'
  <2>1. /\ UNCHANGED <<groupKind, history, added, removed, acked, withdrawn>> /\ Leaves' = Leaves
        /\ expiredTo' \in Nat /\ expiredTo' >= expiredTo /\ expiredTo' >= horizon
    BY <1>2 DEF PruneMailbox, Greatest, groupVars, standingVars, Leaves, TypeOK
  <2>2. \A row \in history \ mailbox' :
          row \in history \ mailbox \/ row.seq <= horizon \/ FullyAcked(row)
    BY <1>2 DEF PruneMailbox, TypeOK, Row
  <2>3. ASSUME NEW row \in history, FullyAcked(row)
        PROVE  groupKind # "group_key" /\ \A d \in Leaves \ {row.sender} : acked[d] >= row.seq
    BY <2>3 DEF FullyAcked, FoundingInv, Leaves
  <2>4. \A row \in history : row.seq \in Nat
    BY DEF TypeOK, Row
  <2> QED
    BY <2>1, <2>2, <2>3, <2>4 DEF NoLossBeforeExpiry, TypeOK
<1>3. ASSUME NEW horizon \in 0 .. MaxHorizon, PruneChannelMessages(horizon)
      PROVE  NoLossBeforeExpiry'
  <2>1. /\ UNCHANGED <<groupKind, history, added, removed, acked, withdrawn>> /\ Leaves' = Leaves
        /\ expiredTo' \in Nat /\ expiredTo' >= expiredTo /\ expiredTo' >= horizon
    BY <1>3 DEF PruneChannelMessages, Greatest, groupVars, standingVars, Leaves, TypeOK
  <2>2. \A row \in history : row.seq \in Nat
    BY DEF TypeOK, Row
  <2>3. \A row \in history \ mailbox' : row \in history \ mailbox \/ row.seq <= horizon
    BY <1>3, <2>2 DEF PruneChannelMessages, TypeOK
  <2> QED
    BY <2>1, <2>2, <2>3 DEF NoLossBeforeExpiry, TypeOK
<1> QED
  BY <1>1, <1>2, <1>3 DEF Retain

(* No row leaves the mailbox while a device is still owed it, but by age or *)
(* by its author's hand.                                                      *)
THEOREM NothingLost == SolePublisher => (Spec => []NoLossBeforeExpiry)
<1> SUFFICES ASSUME SolePublisher PROVE Spec => []NoLossBeforeExpiry
  OBVIOUS
<1>1. Init => NoLossBeforeExpiry
  BY DEF Init, NoLossBeforeExpiry
<1>2. TypeOK /\ EpochsBegun /\ FoundingInv /\ NoLossBeforeExpiry /\ [Next]_vars
        => NoLossBeforeExpiry'
  <2> SUFFICES ASSUME TypeOK, EpochsBegun, FoundingInv, NoLossBeforeExpiry, [Next]_vars
               PROVE  NoLossBeforeExpiry'
    OBVIOUS
  <2>1. CASE Posting
    BY <2>1, PostingKeepsRows
  <2>2. CASE Publish
    <3>1. PICK d \in Device, data \in Payload : PublishCheck(d) \/ PublishStore(d, data)
      BY <2>2 DEF Publish
    <3>2. CASE PublishCheck(d)
      BY <3>2 DEF PublishCheck, NoLossBeforeExpiry, groupVars, standingVars, Leaves
    <3>3. CASE PublishStore(d, data) /\ added[d] = Absent
      BY <3>3, PublishStoreFirst DEF Blank, NoLossBeforeExpiry
    <3>4. CASE PublishStore(d, data) /\ added[d] # Absent
      BY <3>4 DEF PublishStore, NoLossBeforeExpiry, Leaves, standingVars
    <3> QED BY <3>1, <3>2, <3>3, <3>4
  <2>3. CASE Acknowledge
    <3>1. CASE \E d \in Ackers[groupKind], seq \in 1 .. lastSeq : AckCursor(d, seq)
      <4>1. PICK d \in Ackers[groupKind], seq \in 1 .. lastSeq : AckCursor(d, seq)
        BY <3>1
      <4>2. \A x \in Device : acked[x] \in Nat /\ acked'[x] \in Nat /\ acked'[x] >= acked[x]
        BY <4>1, DeliveryAssumption DEF AckCursor, Greatest, TypeOK, DeliveryAssumption
      <4>3. UNCHANGED <<groupKind, history, mailbox, added, removed, expiredTo, withdrawn>>
            /\ Leaves' = Leaves /\ Leaves \subseteq Device
        BY <4>1 DEF AckCursor, groupVars, standingVars, Leaves
      <4>4. \A row \in history : row.seq \in Nat
        BY DEF TypeOK, Row
      <4> QED BY <4>2, <4>3, <4>4 DEF NoLossBeforeExpiry
    <3>2. CASE \E w \in welcomes : AckWelcome(w)
      BY <3>2 DEF AckWelcome, NoLossBeforeExpiry, groupVars, standingVars, Leaves
    <3> QED BY <2>3, <3>1, <3>2 DEF Acknowledge
  <2>4. CASE Retain
    BY <2>4, RetainKeepsRows
  <2>5. CASE Standing
    BY <2>5 DEF Standing, Admit, Depart, Appoint, Silence, RevokeDevice,
                NoLossBeforeExpiry, groupVars, standingVars, Leaves
  <2>6. CASE UNCHANGED vars
    BY <2>6 DEF vars, groupVars, standingVars, NoLossBeforeExpiry, Leaves
  <2> QED
    BY <2>1, <2>2, <2>3, <2>4, <2>5, <2>6 DEF Next
<1> QED
  BY <1>1, <1>2, TypeCorrect, LogInvInvariant, FoundingInvariant, PTL DEF Spec, LogInv

-----------------------------------------------------------------------------
(* The caps.  The cap per member is checked for the accounts of the added    *)
(* leaves only, so it needs the invariant itself for all other accounts.      *)

CapAssumption == IsFiniteSet(Device) /\ Cap >= 1 /\ MemberCap >= 1

LEMMA SmallerSet ==
  ASSUME CapAssumption, NEW S \in SUBSET Device, NEW T \in SUBSET S, NEW n \in Nat,
         Cardinality(S) <= n
  PROVE  Cardinality(T) <= n
<1>1. IsFiniteSet(S) /\ IsFiniteSet(T)
  BY FS_Subset DEF CapAssumption
<1>2. Cardinality(T) <= Cardinality(S)
  BY <1>1, FS_Subset
<1> QED
  BY <1>1, <1>2, FS_CardinalityType

LEMMA CommitKeepsCaps ==
  ASSUME CapAssumption, TypeOK, CapsHold,
         NEW d \in Device, NEW e \in Nat, NEW adds \in SUBSET Device,
         NEW removes \in SUBSET Device, NEW welcomed \in SUBSET Device,
         NEW data \in Payload,
         PostCommit(d, e, adds, removes, welcomed, data, data)
  PROVE  CapsHold'
<1> DEFINE joined == AddedBy(d, adds)
           after == LeavesAfter(joined, removes)
<1>1. /\ WithinCaps(joined, removes)
      /\ added' = [x \in Device |-> IF x \in joined THEN epoch + 1 ELSE added[x]]
      /\ removed' = RemovedEpochs(joined, removes)
      /\ groupKind' = groupKind
  BY DEF PostCommit, CommitAccepted, standingVars
<1>2. joined \in SUBSET Device /\ after \in SUBSET Device /\ Leaves' \in SUBSET Device
      /\ Leaves \in SUBSET Device
  BY DEF AddedBy, LeavesAfter, Leaves
<1>3. \A x \in Leaves' : x \in joined \/ (x \in Leaves /\ x \notin removes)
  <2> SUFFICES ASSUME NEW x \in Device, removed'[x] = Absent, added'[x] # Absent, x \notin joined
               PROVE  x \in Leaves /\ x \notin removes
    BY DEF Leaves
  <2>1. epoch + 1 # Absent
    BY DEF TypeOK, Absent
  <2> QED
    BY <1>1, <2>1 DEF RemovedEpochs, Leaves
<1>4. Leaves' \subseteq after
  BY <1>3 DEF LeavesAfter
<1>5. Cap \in Nat /\ MemberCap \in Nat
  BY DeliveryAssumption DEF DeliveryAssumption
<1>6. groupKind \in {"room", "channel"} => Cardinality(Leaves') <= Cap
  BY <1>1, <1>2, <1>4, <1>5, SmallerSet DEF WithinCaps
<1>7. ASSUME groupKind = "channel", NEW a \in Account
      PROVE  Cardinality({x \in Leaves' : Owner[x] = a}) <= MemberCap
  <2>1. CASE \E x \in joined : Owner[x] = a
    <3>1. Cardinality({y \in after : Owner[y] = a}) <= MemberCap
      BY <1>1, <1>7, <2>1 DEF WithinCaps
    <3>2. {x \in Leaves' : Owner[x] = a} \in SUBSET {y \in after : Owner[y] = a}
          /\ {y \in after : Owner[y] = a} \in SUBSET Device
      BY <1>2, <1>4
    <3> QED BY <3>1, <3>2, <1>5, SmallerSet
  <2>2. CASE \A x \in joined : Owner[x] # a
    <3>1. Cardinality({y \in Leaves : Owner[y] = a}) <= MemberCap
      BY <1>7 DEF CapsHold
    <3>2. {x \in Leaves' : Owner[x] = a} \in SUBSET {y \in Leaves : Owner[y] = a}
          /\ {y \in Leaves : Owner[y] = a} \in SUBSET Device
      BY <1>2, <1>3, <2>2
    <3> QED BY <3>1, <3>2, <1>5, SmallerSet
  <2> QED BY <2>1, <2>2
<1> QED
  BY <1>1, <1>6, <1>7 DEF CapsHold

LEMMA FoundingKeepsCaps ==
  ASSUME CapAssumption, TypeOK, FoundingInv, SolePublisher,
         NEW d \in Device, NEW data \in Payload, PublishStore(d, data), added[d] = Absent
  PROVE  CapsHold'
<1>1. Leaves' \subseteq {d}
  BY PublishStoreFirst DEF Blank, Leaves, TypeOK
<1>2. {d} \in SUBSET Device /\ Cardinality({d}) = 1
  BY FS_Singleton
<1>3. Cap \in Nat /\ MemberCap \in Nat /\ Cardinality({d}) <= Cap /\ Cardinality({d}) <= MemberCap
  BY <1>2, DeliveryAssumption DEF DeliveryAssumption, CapAssumption
<1>4. Cardinality(Leaves') <= Cap
  BY <1>1, <1>2, <1>3, SmallerSet
<1>5. ASSUME NEW a \in Account
      PROVE  Cardinality({x \in Leaves' : Owner[x] = a}) <= MemberCap
  <2>1. {x \in Leaves' : Owner[x] = a} \in SUBSET {d}
    BY <1>1
  <2> QED BY <2>1, <1>2, <1>3, SmallerSet
<1> QED
  BY <1>4, <1>5 DEF CapsHold

(* A room or channel never outgrows its caps, whoever commits in whatever *)
(* order, and whoever was already at the limit.                            *)
THEOREM CapsRespected == CapAssumption /\ SolePublisher => (Spec => []CapsHold)
<1> SUFFICES ASSUME CapAssumption, SolePublisher PROVE Spec => []CapsHold
  OBVIOUS
<1>1. Init => CapsHold
  <2> SUFFICES ASSUME Init PROVE CapsHold
    OBVIOUS
  <2>1. Leaves = {} /\ \A a \in Account : {d \in Leaves : Owner[d] = a} = {}
    BY DEF Init, Leaves
  <2>2. Cardinality({}) = 0
    BY FS_EmptySet
  <2>3. Cardinality(Leaves) <= Cap
    BY <2>1, <2>2, DeliveryAssumption DEF DeliveryAssumption
  <2>4. \A a \in Account : Cardinality({d \in Leaves : Owner[d] = a}) <= MemberCap
    BY <2>1, <2>2, DeliveryAssumption DEF DeliveryAssumption
  <2> QED BY <2>3, <2>4 DEF CapsHold
<1>2. TypeOK /\ FoundingInv /\ CapsHold /\ [Next]_vars => CapsHold'
  <2> SUFFICES ASSUME TypeOK, FoundingInv, CapsHold, [Next]_vars PROVE CapsHold'
    OBVIOUS
  <2> DEFINE SameLeaves == UNCHANGED <<added, removed>>
  <2>1. CASE SameLeaves
    <3>1. Leaves' = Leaves
      BY <2>1 DEF Leaves
    <3> QED BY <3>1, KindFixed DEF CapsHold
  <2>2. CASE Posting
    <3>1. CASE \E d \in Device, e \in Nat, data \in Payload : PostMessage(d, e, data)
      BY <3>1, <2>1 DEF PostMessage
    <3> QED BY <2>2, <3>1, PostingSteps, CommitKeepsCaps
  <2>3. CASE Publish
    <3>1. PICK d \in Device, data \in Payload : PublishCheck(d) \/ PublishStore(d, data)
      BY <2>3 DEF Publish
    <3>2. CASE PublishStore(d, data) /\ added[d] = Absent
      BY <3>2, FoundingKeepsCaps
    <3> QED BY <2>1, <3>1, <3>2 DEF PublishCheck, PublishStore, groupVars
  <2>4. CASE Acknowledge
    BY <2>1, <2>4 DEF Acknowledge, AckCursor, AckWelcome, groupVars
  <2>5. CASE Retain
    BY <2>1, <2>5 DEF Retain, DeleteOwnMessage, PruneMailbox, PruneChannelMessages, groupVars
  <2>6. CASE Standing
    BY <2>1, <2>6 DEF Standing, Admit, Depart, Appoint, Silence, RevokeDevice, groupVars
  <2>7. CASE UNCHANGED vars
    BY <2>1, <2>7 DEF vars, groupVars
  <2> QED
    BY <2>2, <2>3, <2>4, <2>5, <2>6, <2>7 DEF Next
<1> QED
  BY <1>1, <1>2, TypeCorrect, FoundingInvariant, PTL DEF Spec

-----------------------------------------------------------------------------
(* Delivery implements GroupLog.  The abstract epoch is the number of commits *)
(* in the log, so the mapping needs that number to be the server's epoch.      *)

EntryOf(row) == [kind |-> row.kind, epoch |-> row.epoch, sender |-> row.sender]

CommitSeqs == {n \in 1 .. lastSeq : RowAt(n).kind = "commit"}

EpochCountsCommits == IsFiniteSet(CommitSeqs) /\ Cardinality(CommitSeqs) = epoch

(* Under dense numbers, appending a row changes no earlier entry. *)
LEMMA RowAtAppend ==
  ASSUME TypeOK, SeqsAreDense, NEW row \in Row, Appends(row)
  PROVE  /\ \A n \in 1 .. lastSeq : RowAt(n)' = RowAt(n)
         /\ \A n \in Nat : n = lastSeq + 1 => RowAt(n)' = row
<1>1. history' = history \cup {row} /\ row.seq = lastSeq + 1 /\ lastSeq \in Nat
  BY DEF Appends, TypeOK
<1>2. \A r \in history : r.seq \in 1 .. lastSeq
  BY DEF SeqsAreDense
<1>3. ASSUME NEW n \in 1 .. lastSeq PROVE RowAt(n)' = RowAt(n)
  <2>1. PICK r \in history : r.seq = n
    BY DEF SeqsAreDense
  <2>2. \A other \in history : other.seq = n => other = r
    BY <2>1 DEF SeqsAreDense
  <2>3. \A other \in history' : other.seq = n => other = r
    BY <1>1, <2>2
  <2>4. RowAt(n) = r
    BY <2>1, <2>2 DEF RowAt
  <2>5. RowAt(n)' = r
    BY <1>1, <2>1, <2>3 DEF RowAt
  <2> QED BY <2>4, <2>5
<1>4. ASSUME NEW n \in Nat, n = lastSeq + 1 PROVE RowAt(n)' = row
  <2>1. \A other \in history' : other.seq = n <=> other = row
    BY <1>1, <1>2, <1>4
  <2> QED BY <1>1, <2>1 DEF RowAt
<1> QED
  BY <1>3, <1>4

LEMMA LogAppend ==
  ASSUME TypeOK, SeqsAreDense, NEW row \in Row, Appends(row)
  PROVE  LogEntries' = Append(LogEntries, EntryOf(row))
<1>1. lastSeq' = lastSeq + 1 /\ lastSeq \in Nat
  BY DEF Appends, TypeOK
<1> DEFINE Entries == [kind : {"commit", "application"}, epoch : Nat, sender : Device]
<1>2. LogEntries \in Seq(Entries) /\ Len(LogEntries) = lastSeq
  <2>1. \A n \in 1 .. lastSeq : EntryOf(RowAt(n)) \in Entries
    <3> SUFFICES ASSUME NEW n \in 1 .. lastSeq PROVE EntryOf(RowAt(n)) \in Entries
      OBVIOUS
    <3>1. \E r \in history : r.seq = n
      BY DEF SeqsAreDense
    <3>2. RowAt(n) \in Row
      BY <3>1 DEF RowAt, TypeOK
    <3> QED BY <3>2 DEF EntryOf, Row
  <2>2. LogEntries = [n \in 1 .. lastSeq |-> EntryOf(RowAt(n))]
    BY DEF LogEntries, EntryOf
  <2>3. LogEntries \in [1 .. lastSeq -> Entries]
    BY <2>1, <2>2
  <2>4. LogEntries \in Seq(Entries)
    BY <1>1, <2>2, <2>1, IsASeq
  <2>5. Len(LogEntries) = lastSeq
    BY <1>1, <2>2
  <2> QED BY <2>4, <2>5
<1>3. EntryOf(row) \in Entries
  BY DEF EntryOf, Row
<1>4. LogEntries' = [n \in 1 .. lastSeq + 1 |-> EntryOf(RowAt(n)')]
  BY <1>1 DEF LogEntries, EntryOf
<1>5. Append(LogEntries, EntryOf(row))
        = [n \in 1 .. lastSeq + 1 |-> IF n = lastSeq + 1 THEN EntryOf(row) ELSE LogEntries[n]]
  <2>1. /\ Append(LogEntries, EntryOf(row)) \in Seq(Entries)
        /\ Len(Append(LogEntries, EntryOf(row))) = lastSeq + 1
        /\ \A n \in 1 .. lastSeq : Append(LogEntries, EntryOf(row))[n] = LogEntries[n]
        /\ Append(LogEntries, EntryOf(row))[lastSeq + 1] = EntryOf(row)
    BY <1>2, <1>3, AppendProperties
  <2>2. Append(LogEntries, EntryOf(row)) \in [1 .. lastSeq + 1 -> Entries]
    BY <2>1, LenProperties
  <2> HIDE DEF Entries
  <2>3. \A n \in 1 .. lastSeq + 1 :
          Append(LogEntries, EntryOf(row))[n]
            = IF n = lastSeq + 1 THEN EntryOf(row) ELSE LogEntries[n]
    BY <1>1, <2>1
  <2> QED BY <2>2, <2>3
<1>6. \A n \in 1 .. lastSeq + 1 :
        EntryOf(RowAt(n)') = IF n = lastSeq + 1 THEN EntryOf(row) ELSE LogEntries[n]
  BY <1>1, RowAtAppend DEF LogEntries, EntryOf
<1> QED
  BY <1>4, <1>5, <1>6

LEMMA CommitCounted ==
  ASSUME TypeOK, SeqsAreDense, EpochCountsCommits, NEW row \in Row, AppendsCommit(row)
  PROVE  EpochCountsCommits'
<1>1. lastSeq \in Nat /\ lastSeq' = lastSeq + 1 /\ epoch' = epoch + 1
      /\ row.kind = "commit" /\ Appends(row)
  BY DEF AppendsCommit, Appends, TypeOK
<1>2. \A n \in 1 .. lastSeq + 1 : RowAt(n)' = IF n = lastSeq + 1 THEN row ELSE RowAt(n)
  BY <1>1, RowAtAppend
<1>3. CommitSeqs' = CommitSeqs \cup {lastSeq + 1}
  BY <1>1, <1>2 DEF CommitSeqs
<1>4. lastSeq + 1 \notin CommitSeqs
  BY <1>1 DEF CommitSeqs
<1> QED
  BY <1>1, <1>3, <1>4, FS_AddElement DEF EpochCountsCommits

LEMMA PostNotCounted ==
  ASSUME TypeOK, SeqsAreDense, EpochCountsCommits, NEW row \in Row, AppendsPost(row)
  PROVE  EpochCountsCommits'
<1>1. lastSeq \in Nat /\ lastSeq' = lastSeq + 1 /\ epoch' = epoch
      /\ row.kind = "application" /\ Appends(row)
  BY DEF AppendsPost, Appends, TypeOK
<1>2. \A n \in 1 .. lastSeq + 1 : RowAt(n)' = IF n = lastSeq + 1 THEN row ELSE RowAt(n)
  BY <1>1, RowAtAppend
<1>3. CommitSeqs' = CommitSeqs
  BY <1>1, <1>2 DEF CommitSeqs
<1> QED
  BY <1>1, <1>3 DEF EpochCountsCommits

LEMMA EpochMapped ==
  ASSUME TypeOK, EpochCountsCommits
  PROVE  Log!EpochOf(LogEntries) = epoch
<1>1. DOMAIN LogEntries = 1 .. lastSeq
  BY DEF LogEntries
<1>2. \A n \in 1 .. lastSeq : LogEntries[n].kind = RowAt(n).kind
  BY DEF LogEntries
<1>3. Log!Commits(LogEntries) = CommitSeqs
  BY <1>1, <1>2 DEF Log!Commits, CommitSeqs
<1> QED
  BY <1>3 DEF Log!EpochOf, EpochCountsCommits, Log!Cardinality, Cardinality

LEMMA AppendIsAccept ==
  ASSUME TypeOK, SeqsAreDense, EpochCountsCommits, groupKind # "group_key",
         NEW row \in Row, AppendsCommit(row) \/ AppendsPost(row)
  PROVE  Log!Accept
<1> DEFINE entry == EntryOf(row)
<1>1. LogEntries' = Append(LogEntries, entry)
  BY LogAppend DEF AppendsCommit, AppendsPost
<1>2. Log!EpochOf(LogEntries) = epoch /\ epoch \in Nat
  BY EpochMapped DEF TypeOK
<1>3. row.kind \in {"commit", "application"} /\ row.sender \in Device /\ row.epoch \in Nat
  BY DEF Row
<1>4. row.epoch \in 0 .. epoch
  BY <1>2, <1>3 DEF AppendsCommit, AppendsPost
<1>5. Log!Acceptable(entry, LogEntries)
  BY <1>2, <1>3 DEF Log!Acceptable, EntryOf, AppendsCommit, AppendsPost, InEpochWindow
<1> QED
  BY <1>1, <1>2, <1>3, <1>4, <1>5 DEF Log!Accept, EntryOf

(* Where no group is a group_key channel, which has no epochs, the delivery *)
(* service is the append-only log: whatever the handlers do in whatever      *)
(* order, a step appends one acceptable entry or none.                       *)
THEOREM ImplementsLog == "group_key" \notin Kinds => (Spec => LogSpec)
<1> SUFFICES ASSUME "group_key" \notin Kinds PROVE Spec => LogSpec
  OBVIOUS
<1>1. Init => Log!Init /\ EpochCountsCommits
  <2> SUFFICES ASSUME Init PROVE Log!Init /\ EpochCountsCommits
    OBVIOUS
  <2>1. lastSeq = 0 /\ epoch = 0
    BY DEF Init
  <2>2. LogEntries = << >>
    BY <2>1 DEF LogEntries
  <2>3. CommitSeqs = {}
    BY <2>1 DEF CommitSeqs
  <2> QED BY <2>1, <2>2, <2>3, FS_EmptySet DEF Log!Init, EpochCountsCommits
<1>2. TypeOK /\ LogInv /\ EpochCountsCommits /\ [Next]_vars
        => EpochCountsCommits' /\ [Log!Accept]_LogEntries
  <2> SUFFICES ASSUME TypeOK, LogInv, EpochCountsCommits, [Next]_vars
               PROVE  EpochCountsCommits' /\ [Log!Accept]_LogEntries
    OBVIOUS
  <2>1. CASE SameLog
    <3>1. \A n \in 1 .. lastSeq : RowAt(n)' = RowAt(n)
      BY <2>1 DEF SameLog, RowAt
    <3>2. LogEntries' = LogEntries
      BY <2>1, <3>1 DEF SameLog, LogEntries
    <3>3. CommitSeqs' = CommitSeqs
      BY <2>1, <3>1 DEF SameLog, CommitSeqs
    <3> QED BY <2>1, <3>2, <3>3 DEF EpochCountsCommits, SameLog
  <2>2. CASE \E row \in Row : AppendsCommit(row) \/ AppendsPost(row)
    <3>1. EpochCountsCommits'
      BY <2>2, CommitCounted, PostNotCounted DEF LogInv
    <3>2. Log!Accept
      BY <2>2, AppendIsAccept DEF LogInv, TypeOK
    <3> QED BY <3>1, <3>2
  <2> QED BY <2>1, <2>2, LogStep
<1>3. Spec => []EpochCountsCommits
  BY <1>1, <1>2, TypeCorrect, LogInvInvariant, PTL DEF Spec
<1> QED
  BY <1>1, <1>2, <1>3, TypeCorrect, LogInvInvariant, PTL DEF Spec, LogSpec, Log!Spec

-----------------------------------------------------------------------------
(* The sync engine of each device: types. *)

LogRow == [seq : 1 .. MaxSeq, kind : {"commit", "application"}, epoch : Nat, sender : Device,
           data : [line : Seq(Device), gen : Nat],
           adds : SUBSET Device, removes : SUBSET Device]

Push == [request : PostRequest, to : SUBSET Device, row : LogRow]

Reply == [ok : {TRUE}, seq : 1 .. MaxSeq]
  \cup [ok : {FALSE}, seq : {0}, why : {"conflict", "refused"}]

Jobs == {"idle", "work", "record", "hand", "emit", "await", "fetch", "rejoin"}

EngineTypes ==
  /\ mem \in [Device -> State \cup {None}]
  /\ disk = mem
  /\ cursor \in [Device -> 0 .. MaxSeq]
  /\ handed \in [Device -> Seq(1 .. MaxSeq)]
  /\ pc \in [Device -> Jobs]
  /\ todo \in [Device -> Seq(LogRow)]
  /\ out \in [Device -> PostRequest \cup {None}]
  /\ released \in [Device -> Seq(Seq(Device) \X Nat)]

NetTypes ==
  /\ reply \in [Device -> Reply \cup {None}]
  /\ inbox \in [Device -> Seq(LogRow)]
  /\ online \in [Device -> BOOLEAN]
  /\ sync \in [Device -> BOOLEAN]
  /\ wire \subseteq PostRequest /\ IsFiniteSet(wire)
  /\ fanout \subseteq Push
  /\ faults \in 0 .. load.budget

ServerTypes ==
  /\ lastSeq \in Nat
  /\ mailbox \subseteq LogRow /\ IsFiniteSet(mailbox)
  /\ groupInfo # NoInfo => groupInfo.data \in Info
  /\ \A w \in welcomes : w.data \in Info

(* The row a request will become is counted from the moment it is built. *)
Emitting == {d \in Device : pc[d] = "emit"}

Bounded == lastSeq + Cardinality(wire) + Cardinality(Emitting) <= load.rows

-----------------------------------------------------------------------------
(* What holds of one device. *)

Shape(d) ==
  /\ (pc[d] \in {"work", "record", "hand"}) <=> (todo[d] # << >>)
  /\ (pc[d] \in {"emit", "await"}) <=> (out[d] # None)
  /\ pc[d] \in {"record", "hand", "emit"} => mem[d] # None
  /\ reply[d] # None => pc[d] = "await"

Fresh(d) == handed[d] = << >> /\ released[d] = << >>

(* A device without a state, or whose state may yet be dropped, has no past. *)
NoStateNoPast(d) ==
  /\ mem[d] = None => Fresh(d)
  /\ pc[d] = "rejoin" => mem[d] = None
  /\ pc[d] \in {"emit", "await"} /\ out[d].job \in {"create", "join"} => Fresh(d)

KeysSpent(d) ==
  /\ mem[d] # None => \A i \in 1 .. Len(handed[d]) : handed[d][i] \in mem[d].used
  /\ pc[d] \in {"record", "hand"} /\ Row1(d).kind = "application" =>
       Row1(d).seq \in mem[d].used

Ordered(d) ==
  /\ \A i, j \in 1 .. Len(handed[d]) : i < j => handed[d][i] < handed[d][j]
  /\ \A i \in 1 .. Len(handed[d]) : handed[d][i] <= cursor[d]
  /\ pc[d] = "record" => cursor[d] < Row1(d).seq
  /\ pc[d] = "hand" => /\ cursor[d] = Row1(d).seq
                       /\ \A i \in 1 .. Len(handed[d]) : handed[d][i] < Row1(d).seq

(* Key k is of an earlier epoch than (line, gen), or an earlier key of its. *)
Before(k, line, gen) == Len(k[1]) < Len(line) \/ (Len(k[1]) = Len(line) /\ k[2] < gen)

Ratchet(d) ==
  /\ \A i, j \in 1 .. Len(released[d]) : released[d][i] = released[d][j] => i = j
  /\ mem[d] # None =>
       \A i \in 1 .. Len(released[d]) : Before(released[d][i], mem[d].line, mem[d].gen + 1)
  /\ pc[d] = "emit" /\ out[d].job = "send" =>
       /\ out[d].line = mem[d].line /\ out[d].gen = mem[d].gen
       /\ \A i \in 1 .. Len(released[d]) : Before(released[d][i], out[d].line, out[d].gen)

Sound(d) == Shape(d) /\ NoStateNoPast(d) /\ KeysSpent(d) /\ Ordered(d) /\ Ratchet(d)

EngineInv ==
  /\ load \in Loads
  /\ EngineTypes /\ NetTypes /\ ServerTypes /\ Bounded
  /\ \A d \in Device : Sound(d)

-----------------------------------------------------------------------------
LEMMA InvImplies == EngineInv => MessagesOnce
<1> SUFFICES ASSUME EngineInv PROVE MessagesOnce
  OBVIOUS
<1>1. SyncTypeOK
  BY DEF EngineInv, EngineTypes, NetTypes, Jobs, Sound, Shape, SyncTypeOK
<1>2. NoRatchetReuse
  <2>1. ASSUME NEW d \in Device PROVE DOMAIN released[d] = 1 .. Len(released[d])
    <3>1. released[d] \in Seq(Seq(Device) \X Nat)
      BY DEF EngineInv, EngineTypes
    <3> QED
      BY <3>1
  <2>2. \A d \in Device : \A i, j \in DOMAIN released[d] : released[d][i] = released[d][j] => i = j
    BY <2>1 DEF EngineInv, Sound, Ratchet
  <2> QED
    BY <2>2 DEF NoRatchetReuse
<1>3. HandedInOrder
  <2> SUFFICES ASSUME NEW d \in Device, NEW i \in DOMAIN handed[d], NEW j \in DOMAIN handed[d],
                      i < j
               PROVE  handed[d][i] < handed[d][j]
    BY DEF HandedInOrder
  <2>1. handed[d] \in Seq(1 .. MaxSeq)
    BY DEF EngineInv, EngineTypes
  <2>2. DOMAIN handed[d] = 1 .. Len(handed[d])
    BY <2>1
  <2> QED
    BY <2>2 DEF EngineInv, Sound, Ordered
<1>4. HandedKeysSpent
  <2> SUFFICES ASSUME NEW d \in Device, HasGroup(d), NEW row \in history, row.seq \in Handed(d)
               PROVE  ~Opens(disk[d], row)
    BY DEF HandedKeysSpent
  <2>1. handed[d] \in Seq(1 .. MaxSeq) /\ disk[d] = mem[d] /\ mem[d] # None
    BY DEF EngineInv, EngineTypes, HasGroup
  <2>2. DOMAIN handed[d] = 1 .. Len(handed[d])
    BY <2>1
  <2>3. PICK i \in DOMAIN handed[d] : handed[d][i] = row.seq
    BY DEF Handed, ToSet
  <2>4. row.seq \in mem[d].used
    BY <2>1, <2>2, <2>3 DEF EngineInv, Sound, KeysSpent
  <2> QED
    BY <2>1, <2>4 DEF Opens
<1> QED
  BY <1>1, <1>2, <1>3, <1>4 DEF MessagesOnce

-----------------------------------------------------------------------------
(* What a step leaves alone. *)

SameFor(e) ==
  /\ mem'[e] = mem[e] /\ cursor'[e] = cursor[e] /\ handed'[e] = handed[e]
  /\ pc'[e] = pc[e] /\ todo'[e] = todo[e] /\ out'[e] = out[e] /\ released'[e] = released[e]
  /\ reply'[e] = reply[e] \/ pc[e] = "await"

ServerSame ==
  /\ lastSeq' = lastSeq /\ mailbox' = mailbox /\ groupInfo' = groupInfo
  /\ welcomes' \subseteq welcomes

LEMMA Untouched ==
  ASSUME NEW e \in Device, Sound(e), SameFor(e)
  PROVE  Sound(e)'
<1>1. Shape(e)'
  BY DEF Sound, Shape, SameFor
<1>2. NoStateNoPast(e)'
  BY DEF Sound, NoStateNoPast, Fresh, SameFor
<1>3. KeysSpent(e)'
  BY DEF Sound, KeysSpent, Row1, SameFor
<1>4. Ordered(e)'
  BY DEF Sound, Ordered, Row1, SameFor
<1>5. Ratchet(e)'
  BY DEF Sound, Ratchet, Before, SameFor
<1> QED
  BY <1>1, <1>2, <1>3, <1>4, <1>5 DEF Sound

(* The row of an idle device, and that of one at work. *)
LEMMA RowInHand ==
  ASSUME EngineInv, NEW d \in Device, pc[d] \in {"work", "record", "hand"}
  PROVE  /\ todo[d] \in Seq(LogRow) /\ todo[d] # << >>
         /\ Row1(d) \in LogRow
         /\ Tail(todo[d]) \in Seq(LogRow)
<1>1. todo[d] \in Seq(LogRow) /\ todo[d] # << >>
  BY DEF EngineInv, EngineTypes, Sound, Shape
<1> QED
  BY <1>1, HeadTailProperties DEF Row1

LEMMA RoomStays ==
  ASSUME EngineInv, load' = load, lastSeq' = lastSeq, wire' = wire, Emitting' \subseteq Emitting
  PROVE  Bounded'
<1>1. IsFiniteSet(Emitting)
  BY SyncAssumption, FS_Subset DEF Emitting
<1>2. IsFiniteSet(Emitting') /\ Cardinality(Emitting') <= Cardinality(Emitting)
  BY <1>1, FS_Subset
<1>3. Cardinality(Emitting') \in Nat /\ Cardinality(Emitting) \in Nat /\ Cardinality(wire) \in Nat
  BY <1>1, <1>2, FS_CardinalityType DEF EngineInv, NetTypes
<1>4. load.rows \in Nat /\ lastSeq \in Nat
  BY SyncAssumption, DeliveryAssumption DEF EngineInv, ServerTypes
<1> QED
  BY <1>2, <1>3, <1>4 DEF EngineInv, Bounded

LEMMA ServerKept ==
  ASSUME ServerTypes, ServerSame
  PROVE  ServerTypes'
  BY DEF ServerTypes, ServerSame

(* A step of device d that sends nothing. *)
LEMMA LocalStep ==
  ASSUME EngineInv, NEW d \in Device, load' = load, wire' = wire, ServerSame,
         EngineTypes', NetTypes',
         \A e \in Device \ {d} : SameFor(e),
         pc'[d] = "emit" => pc[d] = "emit",
         Sound(d)'
  PROVE  EngineInv'
<1>1. \A e \in Device : Sound(e)'
  BY Untouched DEF EngineInv
<1>2. Emitting' \subseteq Emitting
  BY DEF Emitting, SameFor
<1>3. Bounded'
  BY <1>2, RoomStays DEF ServerSame
<1>4. ServerTypes'
  BY ServerKept DEF EngineInv
<1>5. load' \in Loads
  BY DEF EngineInv
<1> QED
  BY <1>1, <1>3, <1>4, <1>5 DEF EngineInv

-----------------------------------------------------------------------------
(* Taking rows, and going through them. *)

LEMMA QuietServer ==
  ASSUME UNCHANGED vars
  PROVE  ServerSame
  BY DEF ServerSame, vars, groupVars

LEMMA AckServer ==
  ASSUME NEW d, NEW q, IfOnline(d, AckCursor(d, q))
  PROVE  ServerSame
  BY DEF ServerSame, vars, groupVars, IfOnline, AckCursor

LEMMA TakePushKeeps ==
  ASSUME EngineInv, NEW d \in Device, TakePush(d), load' = load
  PROVE  EngineInv'
<1>1. inbox[d] \in Seq(LogRow) /\ inbox[d] # << >>
  BY DEF EngineInv, NetTypes, TakePush
<1>2. Head(inbox[d]) \in LogRow /\ Tail(inbox[d]) \in Seq(LogRow)
  BY <1>1, HeadTailProperties
<1>3. <<Head(inbox[d])>> \in Seq(LogRow) /\ <<Head(inbox[d])>> # << >>
  BY <1>2
<1>4. EngineTypes'
  BY <1>3 DEF EngineInv, EngineTypes, TakePush, Jobs
<1>5. NetTypes'
  BY <1>2 DEF EngineInv, NetTypes, TakePush
<1>6. ServerSame
  BY QuietServer DEF TakePush
<1>7. \A e \in Device \ {d} : SameFor(e)
  BY DEF EngineInv, EngineTypes, TakePush, SameFor
<1>8. /\ pc[d] = "idle" /\ pc'[d] = "work" /\ todo'[d] # << >>
      /\ UNCHANGED <<mem, cursor, handed, out, released, reply>>
  BY <1>3 DEF EngineInv, EngineTypes, TakePush, Idle
<1>9. Sound(d)'
  BY <1>8 DEF EngineInv, Sound, Shape, NoStateNoPast, Fresh, KeysSpent, Ordered, Ratchet, Before
<1> QED
  BY <1>4, <1>5, <1>6, <1>7, <1>8, <1>9, LocalStep DEF TakePush

LEMMA ListIsSeq ==
  ASSUME NEW S, NEW n \in Nat, NEW f \in [1 .. n -> S]
  PROVE  f \in Seq(S)
  OBVIOUS

LEMMA FetchKeeps ==
  ASSUME EngineInv, NEW d \in Device, Fetch(d), load' = load
  PROVE  EngineInv'
<1> DEFINE after == {row \in mailbox : row.seq > cursor[d]}
<1>1. PICK rows \in SetToSeqs(after) :
        /\ todo' = [todo EXCEPT ![d] = rows]
        /\ pc' = [pc EXCEPT ![d] = Pending(rows)]
  BY DEF Fetch
<1>2. IsFiniteSet(after) /\ after \subseteq LogRow
  BY FS_Subset DEF EngineInv, ServerTypes
<1>3. Cardinality(after) \in Nat
  BY <1>2, FS_CardinalityType
<1>4. rows \in [1 .. Cardinality(after) -> after]
  BY <1>1 DEF SetToSeqs
<1>5. rows \in Seq(LogRow)
  BY <1>2, <1>3, <1>4, SeqMonotonic, ListIsSeq
<1>6. Pending(rows) = IF rows = << >> THEN "idle" ELSE "work"
  BY DEF Pending
<1>7. /\ pc[d] \in {"idle", "fetch"}
      /\ sync' \in [Device -> BOOLEAN]
      /\ UNCHANGED <<vars, mem, disk, cursor, handed, out, reply, inbox, online, wire, fanout,
                     faults, released>>
  BY DEF EngineInv, NetTypes, Fetch, Idle
<1>8. EngineTypes'
  BY <1>1, <1>5, <1>6, <1>7 DEF EngineInv, EngineTypes, Jobs
<1>9. NetTypes'
  BY <1>7 DEF EngineInv, NetTypes
<1>10. ServerSame
  BY <1>7, QuietServer
<1>11. \A e \in Device \ {d} : SameFor(e)
  BY <1>1, <1>7 DEF EngineInv, EngineTypes, SameFor
<1>12. /\ pc'[d] = Pending(rows) /\ todo'[d] = rows
  BY <1>1 DEF EngineInv, EngineTypes
<1>13. Sound(d)'
  BY <1>6, <1>7, <1>12
  DEF EngineInv, Sound, Shape, NoStateNoPast, Fresh, KeysSpent, Ordered, Ratchet, Before
<1> QED
  BY <1>6, <1>7, <1>8, <1>9, <1>10, <1>11, <1>12, <1>13, LocalStep

(* A row is left behind, with or without the cursor. *)
LEMMA PassOver ==
  ASSUME EngineInv, NEW d \in Device, Working(d), load' = load,
         NextRow(d), ServerSame, UNCHANGED <<mem, disk, handed, out, netVars>>,
         cursor' = cursor \/ (IsNew(d) /\ cursor' = [cursor EXCEPT ![d] = Row1(d).seq])
  PROVE  EngineInv'
<1>1. /\ Row1(d) \in LogRow /\ Tail(todo[d]) \in Seq(LogRow)
  BY RowInHand DEF Working
<1>2. Row1(d).seq \in 1 .. MaxSeq /\ cursor[d] \in 0 .. MaxSeq
  BY <1>1 DEF LogRow, EngineInv, EngineTypes
<1>3. /\ todo' = [todo EXCEPT ![d] = Tail(todo[d])]
      /\ pc' = [pc EXCEPT ![d] = IF Tail(todo[d]) = << >> THEN "idle" ELSE "work"]
  BY DEF NextRow, Pending
<1>4. EngineTypes'
  <2>1. cursor' \in [Device -> 0 .. MaxSeq]
    <3>1. cursor \in [Device -> 0 .. MaxSeq] /\ Row1(d).seq \in 0 .. MaxSeq
      BY <1>2 DEF EngineInv, EngineTypes
    <3>2. CASE cursor' = cursor
      BY <3>1, <3>2
    <3>3. CASE cursor' = [cursor EXCEPT ![d] = Row1(d).seq]
      BY <3>1, <3>3
    <3> QED
      BY <3>2, <3>3
  <2>2. todo' \in [Device -> Seq(LogRow)] /\ pc' \in [Device -> Jobs]
    BY <1>1, <1>3 DEF EngineInv, EngineTypes, Jobs
  <2> QED
    BY <2>1, <2>2 DEF EngineInv, EngineTypes, netVars
<1>5. NetTypes'
  BY DEF EngineInv, NetTypes, netVars
<1>6. \A e \in Device \ {d} : SameFor(e)
  BY <1>3 DEF EngineInv, EngineTypes, SameFor, netVars
<1>7. /\ pc[d] = "work" /\ todo'[d] = Tail(todo[d])
      /\ pc'[d] = IF Tail(todo[d]) = << >> THEN "idle" ELSE "work"
      /\ cursor'[d] \in 0 .. MaxSeq /\ cursor[d] <= cursor'[d]
  BY <1>2, <1>3, <1>4 DEF EngineInv, EngineTypes, Working, IsNew
<1>8. handed[d] \in Seq(1 .. MaxSeq)
  BY DEF EngineInv, EngineTypes
<1>9. Ordered(d)'
  <2>1. \A i \in 1 .. Len(handed[d]) : handed[d][i] \in 1 .. MaxSeq
    BY <1>8, ElementOfSeq
  <2>2. \A i \in 1 .. Len(handed[d]) : handed[d][i] <= cursor[d]
    BY DEF EngineInv, Sound, Ordered
  <2>3. \A i \in 1 .. Len(handed[d]) : handed[d][i] <= cursor'[d]
    BY <1>2, <1>7, <2>1, <2>2
  <2>4. handed'[d] = handed[d]
    OBVIOUS
  <2> QED
    BY <1>7, <2>3, <2>4 DEF EngineInv, Sound, Ordered
<1>10. Sound(d)'
  BY <1>7, <1>9 DEF EngineInv, Sound, Shape, NoStateNoPast, Fresh, KeysSpent, Ratchet, Before,
                   netVars
<1> QED
  BY <1>4, <1>5, <1>6, <1>7, <1>10, LocalStep DEF netVars

LEMMA OpenKeeps ==
  ASSUME EngineInv, NEW d \in Device, Open(d), load' = load
  PROVE  EngineInv'
<1> DEFINE row == Row1(d)
           s == Processed(mem[d], row)
<1>1. row \in LogRow /\ todo[d] # << >>
  BY RowInHand DEF Open, Due, Working
<1>2. mem[d] \in State
  BY DEF EngineInv, EngineTypes, Open, Due, HasGroup
<1>3. /\ s \in State
      /\ mem[d].used \subseteq s.used
      /\ row.kind = "application" => row.seq \in s.used
      /\ \/ Len(s.line) = Len(mem[d].line) + 1
         \/ s.line = mem[d].line /\ s.gen = mem[d].gen
  <2>1. CASE Applies(mem[d], row)
    <3>1. /\ row.kind = "commit" /\ row.sender \in Device
          /\ row.adds \subseteq Device /\ row.removes \subseteq Device
      BY <1>1, <2>1 DEF Applies, LogRow
    <3>2. s = [line |-> Append(mem[d].line, row.sender),
               tree |-> (mem[d].tree \ row.removes) \cup row.adds,
               base |-> mem[d].base, gen |-> 0, used |-> mem[d].used]
      BY <1>2, <2>1 DEF Processed, Advanced, State
    <3>3. Append(mem[d].line, row.sender) \in Seq(Device)
          /\ Len(Append(mem[d].line, row.sender)) = Len(mem[d].line) + 1
      BY <1>2, <3>1, AppendProperties DEF State
    <3> QED
      BY <1>2, <3>1, <3>2, <3>3 DEF State
  <2>2. CASE ~Applies(mem[d], row)
    <3>1. s = [mem[d] EXCEPT !.used = @ \cup {row.seq}] /\ row.seq \in Nat
      BY <1>1, <2>2 DEF Processed, LogRow
    <3> QED
      BY <1>2, <3>1 DEF State
  <2> QED
    BY <2>1, <2>2
<1> HIDE DEF s
<1>4. /\ mem' = [mem EXCEPT ![d] = s]
      /\ disk' = [disk EXCEPT ![d] = mem'[d]]
      /\ pc' = [pc EXCEPT ![d] = "record"]
      /\ UNCHANGED <<vars, cursor, handed, todo, out, netVars>>
  BY DEF Open, PutSnapshot, s
<1>5. EngineTypes'
  BY <1>3, <1>4 DEF EngineInv, EngineTypes, Jobs, netVars
<1>6. NetTypes'
  BY <1>4 DEF EngineInv, NetTypes, netVars
<1>7. \A e \in Device \ {d} : SameFor(e)
  BY <1>4 DEF EngineInv, EngineTypes, SameFor, netVars
<1>8. /\ mem'[d] = s /\ s # None /\ mem[d] # None /\ pc[d] = "work" /\ pc'[d] = "record"
      /\ cursor[d] < row.seq
      /\ UNCHANGED <<cursor, handed, todo, out, reply, released>>
  BY <1>1, <1>2, <1>3, <1>4, SyncAssumption
  DEF EngineInv, EngineTypes, Open, Due, Working, IsNew, netVars, LogRow
<1>9. KeysSpent(d)'
  BY <1>3, <1>8 DEF EngineInv, Sound, KeysSpent, Row1
<1>10. Ratchet(d)'
  <2>1. released[d] \in Seq(Seq(Device) \X Nat)
    BY DEF EngineInv, EngineTypes
  <2>2. ASSUME NEW i \in 1 .. Len(released[d])
        PROVE  Before(released[d][i], s.line, s.gen + 1)
    <3>1. Len(released[d][i][1]) \in Nat /\ released[d][i][2] \in Nat
      <4>1. released[d][i] \in Seq(Device) \X Nat
        BY <2>1
      <4> QED
        BY <4>1, LenProperties
    <3>2. Len(mem[d].line) \in Nat /\ mem[d].gen \in Nat /\ s.gen \in Nat
      BY <1>2, <1>3, LenProperties DEF State
    <3>3. Before(released[d][i], mem[d].line, mem[d].gen + 1)
      BY <1>8 DEF EngineInv, Sound, Ratchet
    <3>4. Len(s.line) \in Nat
      BY <1>3, LenProperties DEF State
    <3>5. CASE Len(s.line) = Len(mem[d].line) + 1
      BY <3>1, <3>2, <3>3, <3>4, <3>5 DEF Before
    <3>6. CASE s.line = mem[d].line /\ s.gen = mem[d].gen
      BY <3>3, <3>6 DEF Before
    <3> QED
      BY <1>3, <3>5, <3>6
  <2> QED
    BY <1>8, <2>2 DEF EngineInv, Sound, Ratchet, Before
<1>11. Sound(d)'
  BY <1>1, <1>8, <1>9, <1>10 DEF EngineInv, Sound, Shape, NoStateNoPast, Fresh, Ordered, Row1
<1> QED
  BY <1>4, <1>5, <1>6, <1>7, <1>8, <1>11, LocalStep, QuietServer DEF netVars

LEMMA RecordKeeps ==
  ASSUME EngineInv, NEW d \in Device, Record(d), load' = load
  PROVE  EngineInv'
<1> DEFINE row == Row1(d)
<1>1. row \in LogRow /\ todo[d] # << >>
  BY RowInHand DEF Record
<1>2. row.seq \in 1 .. MaxSeq
  BY <1>1 DEF LogRow
<1>3. EngineTypes'
  BY <1>2 DEF EngineInv, EngineTypes, Record, Jobs, netVars
<1>4. NetTypes'
  BY DEF EngineInv, NetTypes, Record, netVars
<1>5. \A e \in Device \ {d} : SameFor(e)
  BY DEF EngineInv, EngineTypes, Record, SameFor, netVars
<1>6. /\ pc[d] = "record" /\ pc'[d] = "hand" /\ cursor'[d] = row.seq /\ cursor[d] < row.seq
      /\ UNCHANGED <<mem, handed, todo, out, reply, released>>
  BY DEF EngineInv, EngineTypes, Record, netVars, Sound, Ordered
<1>7. \A i \in 1 .. Len(handed[d]) : handed[d][i] < row.seq
  <2> SUFFICES ASSUME NEW i \in 1 .. Len(handed[d]) PROVE handed[d][i] < row.seq
    OBVIOUS
  <2>1. handed[d][i] \in 1 .. MaxSeq
    BY ElementOfSeq DEF EngineInv, EngineTypes
  <2>2. handed[d][i] <= cursor[d] /\ cursor[d] \in 0 .. MaxSeq
    BY DEF EngineInv, EngineTypes, Sound, Ordered
  <2> QED
    BY <1>2, <1>6, <2>1, <2>2
<1>8. Ordered(d)'
  <2>1. Row1(d)' = row
    BY <1>6 DEF Row1
  <2>2. \A i \in 1 .. Len(handed[d]) : handed[d][i] \in 1 .. MaxSeq
    BY ElementOfSeq DEF EngineInv, EngineTypes
  <2> HIDE DEF row
  <2> QED
    BY <1>2, <1>6, <1>7, <2>1, <2>2 DEF EngineInv, Sound, Ordered
<1>9. Sound(d)'
  BY <1>1, <1>6, <1>8
  DEF EngineInv, Sound, Shape, NoStateNoPast, Fresh, KeysSpent, Row1, Ratchet, Before
<1> QED
  BY <1>3, <1>4, <1>5, <1>6, <1>9, LocalStep, QuietServer DEF Record, netVars

LEMMA HandKeeps ==
  ASSUME EngineInv, NEW d \in Device, Hand(d), load' = load
  PROVE  EngineInv'
<1> DEFINE row == Row1(d)
           n == Len(handed[d])
<1>1. row \in LogRow /\ todo[d] # << >> /\ Tail(todo[d]) \in Seq(LogRow)
  BY RowInHand DEF Hand
<1>2. row.seq \in 1 .. MaxSeq
  BY <1>1 DEF LogRow
<1>3. handed[d] \in Seq(1 .. MaxSeq) /\ n \in Nat
  BY LenProperties DEF EngineInv, EngineTypes
<1>4. /\ todo' = [todo EXCEPT ![d] = Tail(todo[d])]
      /\ pc' = [pc EXCEPT ![d] = IF Tail(todo[d]) = << >> THEN "idle" ELSE "work"]
      /\ UNCHANGED <<mem, disk, cursor, out, netVars>>
  BY DEF Hand, NextRow, Pending
<1>5. /\ pc[d] = "hand" /\ mem[d] # None /\ cursor[d] = row.seq /\ reply[d] = None
      /\ out[d] = None
      /\ \A i \in 1 .. n : handed[d][i] < row.seq
      /\ row.kind = "application" => row.seq \in mem[d].used
  BY DEF Hand, EngineInv, Sound, Shape, Ordered, KeysSpent
<1>6. /\ handed' \in [Device -> Seq(1 .. MaxSeq)]
      /\ \A e \in Device \ {d} : handed'[e] = handed[e]
      /\ \/ handed'[d] = handed[d]
         \/ /\ row.kind = "application"
            /\ Len(handed'[d]) = n + 1
            /\ handed'[d][n + 1] = row.seq
            /\ \A i \in 1 .. n : handed'[d][i] = handed[d][i]
  <2>1. CASE row.kind = "application"
    <3>1. handed' = [handed EXCEPT ![d] = Append(handed[d], row.seq)]
      BY <2>1 DEF Hand
    <3>2. /\ Append(handed[d], row.seq) \in Seq(1 .. MaxSeq)
          /\ Len(Append(handed[d], row.seq)) = n + 1
          /\ Append(handed[d], row.seq)[n + 1] = row.seq
          /\ \A i \in 1 .. n : Append(handed[d], row.seq)[i] = handed[d][i]
      BY <1>2, <1>3, AppendProperties
    <3> QED
      BY <2>1, <3>1, <3>2 DEF EngineInv, EngineTypes
  <2>2. CASE row.kind # "application"
    BY <2>2 DEF Hand, EngineInv, EngineTypes
  <2> QED
    BY <2>1, <2>2
<1> HIDE DEF row, n
<1>7. EngineTypes'
  BY <1>1, <1>4, <1>6 DEF EngineInv, EngineTypes, Jobs, netVars
<1>8. NetTypes'
  BY <1>4 DEF EngineInv, NetTypes, netVars
<1>9. \A e \in Device \ {d} : SameFor(e)
  BY <1>4, <1>6 DEF EngineInv, EngineTypes, SameFor, netVars
<1>10. /\ pc'[d] = IF Tail(todo[d]) = << >> THEN "idle" ELSE "work"
       /\ todo'[d] = Tail(todo[d])
       /\ UNCHANGED <<mem, cursor, out, reply, released>>
  BY <1>4 DEF EngineInv, EngineTypes, netVars
<1>11. \A i \in 1 .. n : handed[d][i] \in 1 .. MaxSeq
  BY <1>3, ElementOfSeq DEF n
<1>12. Shape(d)' /\ NoStateNoPast(d)'
  BY <1>5, <1>10 DEF EngineInv, Sound, Shape, NoStateNoPast, Fresh
<1>13. KeysSpent(d)'
  <2>1. \A i \in 1 .. n : handed[d][i] \in mem[d].used
    BY <1>5 DEF EngineInv, Sound, KeysSpent, n
  <2>2. \A i \in 1 .. n + 1 : i \in 1 .. n \/ i = n + 1
    BY <1>3
  <2>3. \A i \in 1 .. Len(handed'[d]) : handed'[d][i] \in mem[d].used
    BY <1>5, <1>6, <2>1, <2>2 DEF n
  <2> QED
    BY <1>10, <2>3 DEF KeysSpent
<1>14. Ordered(d)'
  <2>1. \A i, j \in 1 .. n : i < j => handed[d][i] < handed[d][j]
    BY DEF EngineInv, Sound, Ordered, n
  <2>2. \A i \in 1 .. n : handed[d][i] <= cursor[d]
    BY DEF EngineInv, Sound, Ordered, n
  <2>3. CASE handed'[d] = handed[d]
    BY <1>10, <2>1, <2>2, <2>3 DEF Ordered, n
  <2>4. CASE /\ Len(handed'[d]) = n + 1
             /\ handed'[d][n + 1] = row.seq
             /\ \A i \in 1 .. n : handed'[d][i] = handed[d][i]
    <3>1. \A i \in 1 .. n + 1 : i \in 1 .. n \/ i = n + 1
      BY <1>3
    <3>2. \A i \in 1 .. n + 1 : handed'[d][i] <= cursor'[d]
      BY <1>2, <1>5, <1>10, <2>2, <2>4, <3>1
    <3>3. ASSUME NEW i \in 1 .. n + 1, NEW j \in 1 .. n + 1, i < j
          PROVE  handed'[d][i] < handed'[d][j]
      <4>1. i \in 1 .. n
        BY <1>3, <3>3
      <4> QED
        BY <1>5, <2>1, <2>4, <3>1, <3>3, <4>1
    <3> QED
      BY <1>10, <2>4, <3>2, <3>3 DEF Ordered
  <2> QED
    BY <1>6, <2>3, <2>4
<1>15. Ratchet(d)'
  BY <1>10 DEF EngineInv, Sound, Ratchet, Before
<1>16. ServerSame
  BY AckServer DEF Hand
<1>17. Sound(d)'
  BY <1>12, <1>13, <1>14, <1>15 DEF Sound
<1> QED
  BY <1>4, <1>7, <1>8, <1>9, <1>10, <1>16, <1>17, LocalStep DEF netVars

-----------------------------------------------------------------------------
(* Building a request and sending it. *)

(* What a job that posts must see to: the state it persists has used up    *)
(* what was handed over, and is ahead of every key that left.                *)
LEMMA BuildKeeps ==
  ASSUME EngineInv, NEW d \in Device, NEW s \in State, NEW r \in PostRequest,
         Build(d, s, r), load' = load, sync' \in [Device -> BOOLEAN],
         pc[d] \in {"idle", "rejoin"},
         \A i \in 1 .. Len(handed[d]) : handed[d][i] \in s.used,
         \A i \in 1 .. Len(released[d]) : Before(released[d][i], s.line, s.gen + 1),
         r.job \in {"create", "join"} => Fresh(d),
         r.job = "send" =>
           /\ r.line = s.line /\ r.gen = s.gen
           /\ \A i \in 1 .. Len(released[d]) : Before(released[d][i], r.line, r.gen)
  PROVE  EngineInv'
<1>1. /\ mem' = [mem EXCEPT ![d] = s]
      /\ disk' = [disk EXCEPT ![d] = mem'[d]]
      /\ out' = [out EXCEPT ![d] = r]
      /\ pc' = [pc EXCEPT ![d] = "emit"]
      /\ UNCHANGED <<vars, cursor, handed, todo, reply, inbox, online, wire, fanout, faults,
                     released>>
  BY DEF Build, PutSnapshot
<1>2. s # None /\ r # None
  BY SyncAssumption
<1>3. EngineTypes'
  BY <1>1 DEF EngineInv, EngineTypes, Jobs
<1>4. NetTypes'
  BY <1>1 DEF EngineInv, NetTypes
<1>5. ServerTypes'
  BY <1>1, QuietServer, ServerKept DEF EngineInv
<1>6. \A e \in Device \ {d} : SameFor(e)
  BY <1>1 DEF EngineInv, EngineTypes, SameFor
<1>7. /\ mem'[d] = s /\ out'[d] = r /\ pc'[d] = "emit"
      /\ UNCHANGED <<cursor, handed, todo, reply, released>>
  BY <1>1 DEF EngineInv, EngineTypes
<1>8. Sound(d)'
  <2>1. Shape(d)'
    BY <1>2, <1>7 DEF EngineInv, Sound, Shape
  <2>2. NoStateNoPast(d)'
    BY <1>2, <1>7 DEF NoStateNoPast, Fresh
  <2>3. KeysSpent(d)'
    BY <1>7 DEF KeysSpent
  <2>4. Ordered(d)'
    BY <1>7 DEF EngineInv, Sound, Ordered
  <2>5. Ratchet(d)'
    BY <1>7 DEF EngineInv, Sound, Ratchet, Before
  <2> QED
    BY <2>1, <2>2, <2>3, <2>4, <2>5 DEF Sound
<1>9. Bounded'
  <2>1. Emitting' = Emitting \cup {d}
    BY <1>1 DEF Emitting, EngineInv, EngineTypes
  <2>2. IsFiniteSet(Emitting)
    BY SyncAssumption, FS_Subset DEF Emitting
  <2>3. Cardinality(Emitting) \in Nat /\ Cardinality(Emitting') <= Cardinality(Emitting) + 1
        /\ Cardinality(Emitting') \in Nat
    <3>1. /\ IsFiniteSet(Emitting \cup {d})
          /\ Cardinality(Emitting \cup {d}) =
               IF d \in Emitting THEN Cardinality(Emitting) ELSE Cardinality(Emitting) + 1
      BY <2>2, FS_AddElement
    <3>2. Cardinality(Emitting) \in Nat
      BY <2>2, FS_CardinalityType
    <3>3. Cardinality(Emitting') = Cardinality(Emitting \cup {d})
      BY <2>1
    <3> QED
      BY <3>1, <3>2, <3>3
  <2>4. Cardinality(wire) \in Nat /\ lastSeq \in Nat /\ load.rows \in Nat
    BY SyncAssumption, DeliveryAssumption, FS_CardinalityType
    DEF EngineInv, NetTypes, ServerTypes
  <2>5. lastSeq + Cardinality(wire) + Cardinality(Emitting) < load.rows
    BY DEF Build, WithinBound, Emitting
  <2>6. lastSeq' = lastSeq /\ wire' = wire
    BY <1>1 DEF vars, groupVars
  <2> QED
    BY <2>3, <2>4, <2>5, <2>6 DEF Bounded
<1>10. \A e \in Device : Sound(e)'
  BY <1>6, <1>8, Untouched DEF EngineInv
<1> QED
  BY <1>3, <1>4, <1>5, <1>9, <1>10 DEF EngineInv

(* What BuildKeeps asks, for a device that has no state and for one that has. *)
LEMMA PastOfTheUnjoined ==
  ASSUME EngineInv, NEW d \in Device, ~HasGroup(d)
  PROVE  /\ Fresh(d)
         /\ \A i \in 1 .. Len(handed[d]) : FALSE
         /\ \A i \in 1 .. Len(released[d]) : FALSE
<1>1. Fresh(d)
  BY DEF EngineInv, EngineTypes, Sound, NoStateNoPast, HasGroup
<1>2. Len(handed[d]) = 0 /\ Len(released[d]) = 0
  BY <1>1 DEF Fresh
<1> QED
  BY <1>1, <1>2

LEMMA PastOfAMember ==
  ASSUME EngineInv, NEW d \in Device, HasGroup(d)
  PROVE  /\ mem[d] \in State
         /\ \A i \in 1 .. Len(handed[d]) : handed[d][i] \in mem[d].used
         /\ \A i \in 1 .. Len(released[d]) :
              /\ Len(released[d][i][1]) \in Nat /\ released[d][i][2] \in Nat
              /\ Before(released[d][i], mem[d].line, mem[d].gen + 1)
<1>1. mem[d] \in State /\ mem[d] # None
  BY DEF EngineInv, EngineTypes, HasGroup
<1>2. ASSUME NEW i \in 1 .. Len(released[d])
      PROVE  Len(released[d][i][1]) \in Nat /\ released[d][i][2] \in Nat
  <2>1. released[d][i] \in Seq(Device) \X Nat
    BY ElementOfSeq DEF EngineInv, EngineTypes
  <2> QED
    BY <2>1, LenProperties
<1> QED
  BY <1>1, <1>2 DEF EngineInv, Sound, KeysSpent, Ratchet

LEMMA AdvancedState ==
  ASSUME NEW s \in State, NEW d \in Device, NEW adds \in SUBSET Device,
         NEW removes \in SUBSET Device
  PROVE  /\ Advanced(s, d, adds, removes) \in State
         /\ Advanced(s, d, adds, removes).used = s.used
         /\ Len(Advanced(s, d, adds, removes).line) = Len(s.line) + 1
         /\ InfoOf(Advanced(s, d, adds, removes)) \in Info
<1>1. Advanced(s, d, adds, removes) =
        [line |-> Append(s.line, d), tree |-> (s.tree \ removes) \cup adds,
         base |-> s.base, gen |-> 0, used |-> s.used]
  <2>1. s = [line |-> s.line, tree |-> s.tree, base |-> s.base, gen |-> s.gen, used |-> s.used]
    BY DEF State
  <2>2. Advanced(s, d, adds, removes) =
          [s EXCEPT !.line = Append(s.line, d), !.tree = (s.tree \ removes) \cup adds, !.gen = 0]
    BY DEF Advanced
  <2> QED
    BY <2>1, <2>2
<1>2. s.line \in Seq(Device) /\ s.tree \subseteq Device /\ s.base \in Nat /\ s.used \subseteq Nat
  BY DEF State
<1>3. Append(s.line, d) \in Seq(Device) /\ Len(Append(s.line, d)) = Len(s.line) + 1
  BY <1>2, AppendProperties
<1> QED
  BY <1>1, <1>2, <1>3 DEF State, Info, InfoOf

LEMMA CommitIsRequest ==
  ASSUME NEW s \in State, NEW d \in Device, NEW adds \in SUBSET Device,
         NEW removes \in SUBSET Device, NEW welcomed \in SUBSET Device,
         NEW job \in {"create", "join", "remove"}
  PROVE  /\ CommitOn(job, d, s, adds, removes, welcomed) \in PostRequest
         /\ CommitOn(job, d, s, adds, removes, welcomed).job = job
<1>1. s.line \in Seq(Device) /\ Len(s.line) \in Nat
  BY LenProperties DEF State
<1>2. InfoOf(Advanced(s, d, adds, removes)) \in Info
  BY AdvancedState
<1> QED
  BY <1>1, <1>2 DEF CommitOn, EpochBefore, PostRequest

LEMMA JoinedState ==
  ASSUME NEW info \in Info
  PROVE  Joined(info) \in State
<1>1. info.line \in Seq(Device) /\ Len(info.line) \in Nat /\ info.tree \subseteq Device
  BY LenProperties DEF Info
<1> QED
  BY <1>1 DEF Joined, State

LEMMA SendApplicationKeeps ==
  ASSUME EngineInv, NEW d \in Device, SendApplication(d), load' = load
  PROVE  EngineInv'
<1>1. /\ HasGroup(d) /\ pc[d] = "idle"
      /\ sync' \in [Device -> BOOLEAN]
  BY DEF SendApplication, Idle, EngineInv, NetTypes
<1>2. mem[d] \in State /\ mem[d].line \in Seq(Device) /\ mem[d].gen \in Nat
      /\ Len(mem[d].line) \in Nat /\ mem[d].tree \subseteq Device
  BY <1>1, PastOfAMember, LenProperties DEF State
<1>3. PICK s : s = Encrypted(mem[d])
  OBVIOUS
<1>4. s = [line |-> mem[d].line, tree |-> mem[d].tree, base |-> mem[d].base,
           gen |-> mem[d].gen + 1, used |-> mem[d].used]
  BY <1>2, <1>3 DEF Encrypted, State
<1>5. s \in State /\ InfoOf(s) \in Info
  BY <1>2, <1>4 DEF State, InfoOf, Info
<1>6. PICK r : r = [job |-> "send", from |-> d, epoch |-> Len(s.line), line |-> s.line,
                    gen |-> s.gen, adds |-> {}, removes |-> {}, welcomed |-> {},
                    info |-> InfoOf(s)]
  OBVIOUS
<1>7. r \in PostRequest
  BY <1>2, <1>4, <1>5, <1>6 DEF PostRequest
<1>8. Build(d, s, r)
  BY <1>3, <1>6 DEF SendApplication
<1>9. \A i \in 1 .. Len(handed[d]) : handed[d][i] \in s.used
  BY <1>1, <1>4, PastOfAMember
<1>10. \A i \in 1 .. Len(released[d]) :
         /\ Before(released[d][i], s.line, s.gen)
         /\ Before(released[d][i], s.line, s.gen + 1)
  BY <1>1, <1>2, <1>4, PastOfAMember DEF Before
<1> QED
  BY <1>1, <1>5, <1>6, <1>7, <1>8, <1>9, <1>10, BuildKeeps

LEMMA CreateGroupKeeps ==
  ASSUME EngineInv, NEW d \in Device, CreateGroup(d), load' = load
  PROVE  EngineInv'
<1> DEFINE members == load.packaged \ ({d} \cup revoked)
           new == [line |-> << >>, tree |-> {d}, base |-> 0, gen |-> 0, used |-> {}]
<1>1. /\ ~HasGroup(d) /\ pc[d] = "idle"
      /\ sync' \in [Device -> BOOLEAN]
  BY DEF CreateGroup, Idle, EngineInv, NetTypes
<1>2. members \in SUBSET Device
  BY SyncAssumption DEF EngineInv
<1>3. new \in State
  BY DEF State
<1>4. PICK s : s = [Advanced(new, d, members, {}) EXCEPT !.base = 1]
  OBVIOUS
<1>5. PICK r : r = CommitOn("create", d, new, members, {}, members)
  OBVIOUS
<1>6. Advanced(new, d, members, {}) \in State
  BY <1>2, <1>3, AdvancedState
<1>7. s \in State
  BY <1>4, <1>6 DEF State
<1>8. r \in PostRequest /\ r.job = "create"
  BY <1>2, <1>3, <1>5, CommitIsRequest
<1>9. Build(d, s, r)
  BY <1>4, <1>5 DEF CreateGroup
<1> HIDE DEF members, new
<1> QED
  BY <1>1, <1>7, <1>8, <1>9, PastOfTheUnjoined, BuildKeeps

LEMMA ExternalJoinKeeps ==
  ASSUME EngineInv, NEW d \in Device, ExternalJoin(d), load' = load
  PROVE  EngineInv'
<1>1. /\ ~HasGroup(d) /\ pc[d] \in {"idle", "rejoin"}
      /\ sync' \in [Device -> BOOLEAN]
      /\ groupInfo.data \in Info
  BY DEF ExternalJoin, Idle, HasGroup, EngineInv, EngineTypes, NetTypes, ServerTypes, Sound,
         NoStateNoPast
<1>2. PICK s : s = Joined(groupInfo.data)
  OBVIOUS
<1>3. s \in State
  BY <1>1, <1>2, JoinedState
<1>4. InfoOf(Advanced(s, d, {d}, {})) \in Info
  BY <1>3, AdvancedState
<1>5. PICK joined : joined = Joined(InfoOf(Advanced(s, d, {d}, {})))
  OBVIOUS
<1>6. joined \in State
  BY <1>4, <1>5, JoinedState
<1>7. PICK r : r = CommitOn("join", d, s, {d}, {}, {})
  OBVIOUS
<1>8. r \in PostRequest /\ r.job = "join"
  BY <1>3, <1>7, CommitIsRequest
<1>9. Build(d, joined, r)
  BY <1>2, <1>5, <1>7 DEF ExternalJoin
<1> QED
  BY <1>1, <1>6, <1>8, <1>9, PastOfTheUnjoined, BuildKeeps

LEMMA RemoveDevicesKeeps ==
  ASSUME EngineInv, NEW d \in Device, RemoveDevices(d), load' = load
  PROVE  EngineInv'
<1> DEFINE present == mem[d].tree \cap revoked
<1>1. /\ HasGroup(d) /\ pc[d] = "idle"
      /\ sync' \in [Device -> BOOLEAN]
  BY DEF RemoveDevices, Idle, EngineInv, NetTypes
<1>2. mem[d] \in State /\ present \in SUBSET Device
  BY <1>1, PastOfAMember DEF State
<1>3. PICK s : s = Advanced(mem[d], d, {}, present)
  OBVIOUS
<1>4. s \in State /\ s.used = mem[d].used /\ Len(s.line) = Len(mem[d].line) + 1
  BY <1>2, <1>3, AdvancedState
<1>5. PICK r : r = CommitOn("remove", d, mem[d], {}, present, {})
  OBVIOUS
<1>6. r \in PostRequest /\ r.job = "remove"
  BY <1>2, <1>5, CommitIsRequest
<1>7. Build(d, s, r)
  BY <1>3, <1>5 DEF RemoveDevices
<1>8. \A i \in 1 .. Len(handed[d]) : handed[d][i] \in s.used
  BY <1>1, <1>4, PastOfAMember
<1>9. \A i \in 1 .. Len(released[d]) : Before(released[d][i], s.line, s.gen + 1)
  <2>1. Len(mem[d].line) \in Nat /\ mem[d].gen \in Nat
    BY <1>2, LenProperties DEF State
  <2>2. ASSUME NEW i \in 1 .. Len(released[d])
        PROVE  Len(released[d][i][1]) < Len(s.line)
    <3>1. Len(released[d][i][1]) \in Nat /\ Len(released[d][i][1]) <= Len(mem[d].line)
      <4>1. Len(released[d][i][1]) \in Nat /\ released[d][i][2] \in Nat
        BY <1>1, PastOfAMember
      <4>2. Before(released[d][i], mem[d].line, mem[d].gen + 1)
        BY <1>1, PastOfAMember
      <4> QED
        BY <2>1, <4>1, <4>2 DEF Before
    <3> QED
      BY <1>4, <2>1, <3>1
  <2> QED
    BY <2>2 DEF Before
<1> QED
  BY <1>1, <1>4, <1>6, <1>7, <1>8, <1>9, BuildKeeps

LEMMA EmitKeeps ==
  ASSUME EngineInv, NEW d \in Device, Emit(d), load' = load
  PROVE  EngineInv'
<1>1. /\ pc[d] = "emit" /\ out[d] # None /\ out[d] \in PostRequest /\ mem[d] # None
      /\ todo[d] = << >> /\ reply[d] = None
  BY DEF Emit, EngineInv, EngineTypes, Sound, Shape
<1>2. /\ UNCHANGED <<vars, mem, disk, cursor, handed, todo, reply, inbox, online, sync, fanout,
                     faults>>
      /\ \/ /\ pc' = [pc EXCEPT ![d] = "idle"]
            /\ out' = [out EXCEPT ![d] = None]
            /\ UNCHANGED <<wire, released>>
         \/ /\ pc' = [pc EXCEPT ![d] = "await"]
            /\ wire' = wire \cup {out[d]}
            /\ UNCHANGED out
            /\ \/ UNCHANGED released
               \/ /\ out[d].job = "send"
                  /\ released' = [released EXCEPT
                                    ![d] = Append(@, <<out[d].line, out[d].gen>>)]
  BY DEF Emit
<1>3. CASE /\ pc' = [pc EXCEPT ![d] = "idle"]
           /\ out' = [out EXCEPT ![d] = None]
           /\ UNCHANGED <<wire, released>>
  <2>1. EngineTypes' /\ NetTypes' /\ ServerSame
    BY <1>2, <1>3, QuietServer DEF EngineInv, EngineTypes, NetTypes, Jobs
  <2>2. \A e \in Device \ {d} : SameFor(e)
    BY <1>2, <1>3 DEF EngineInv, EngineTypes, SameFor
  <2>3. pc'[d] = "idle" /\ out'[d] = None
    BY <1>3 DEF EngineInv, EngineTypes
  <2>4. Sound(d)'
    BY <1>1, <1>2, <1>3, <2>3
    DEF EngineInv, Sound, Shape, NoStateNoPast, Fresh, KeysSpent, Ordered, Ratchet, Before
  <2> QED
    BY <1>3, <2>1, <2>2, <2>3, <2>4, LocalStep
<1>4. CASE /\ pc' = [pc EXCEPT ![d] = "await"]
           /\ wire' = wire \cup {out[d]}
           /\ UNCHANGED out
           /\ \/ UNCHANGED released
              \/ /\ out[d].job = "send"
                 /\ released' = [released EXCEPT ![d] = Append(@, <<out[d].line, out[d].gen>>)]
  <2> DEFINE key == <<out[d].line, out[d].gen>>
             n == Len(released[d])
  <2>1. released[d] \in Seq(Seq(Device) \X Nat) /\ n \in Nat
    BY LenProperties DEF EngineInv, EngineTypes
  <2>2. key \in Seq(Device) \X Nat /\ key[1] = out[d].line /\ key[2] = out[d].gen
    BY <1>1 DEF PostRequest
  <2>3. /\ released' \in [Device -> Seq(Seq(Device) \X Nat)]
        /\ \A e \in Device \ {d} : released'[e] = released[e]
        /\ \/ released'[d] = released[d]
           \/ /\ out[d].job = "send"
              /\ released'[d] = Append(released[d], key)
    <3>1. Append(released[d], key) \in Seq(Seq(Device) \X Nat)
      BY <2>1, <2>2, AppendProperties
    <3> HIDE DEF key
    <3>2. CASE UNCHANGED released
      BY <3>2 DEF EngineInv, EngineTypes
    <3>3. CASE /\ out[d].job = "send"
               /\ released' = [released EXCEPT ![d] = Append(released[d], key)]
      BY <3>1, <3>3 DEF EngineInv, EngineTypes
    <3> QED
      BY <1>4, <3>2, <3>3 DEF key
  <2>4. Len(Append(released[d], key)) = n + 1 /\ Append(released[d], key)[n + 1] = key
        /\ \A i \in 1 .. n : Append(released[d], key)[i] = released[d][i]
    BY <2>1, <2>2, AppendProperties
  <2>5. EngineTypes'
    BY <1>2, <1>4, <2>3 DEF EngineInv, EngineTypes, Jobs
  <2>6. NetTypes'
    BY <1>1, <1>2, <1>4, FS_AddElement DEF EngineInv, NetTypes
  <2>7. ServerTypes' /\ lastSeq' = lastSeq
    BY <1>2, QuietServer, ServerKept DEF EngineInv, ServerSame
  <2>8. \A e \in Device \ {d} : SameFor(e)
    BY <1>2, <1>4, <2>3 DEF EngineInv, EngineTypes, SameFor
  <2>9. /\ pc'[d] = "await"
        /\ UNCHANGED <<mem, cursor, handed, todo, out, reply>>
    BY <1>2, <1>4 DEF EngineInv, EngineTypes
  <2>10. Ratchet(d)'
    <3>1. CASE released'[d] = released[d]
      BY <2>9, <3>1 DEF EngineInv, Sound, Ratchet, Before
    <3>2. CASE /\ out[d].job = "send"
               /\ released'[d] = Append(released[d], key)
      <4>1. /\ out[d].line = mem[d].line /\ out[d].gen = mem[d].gen
            /\ \A i \in 1 .. n : Before(released[d][i], key[1], key[2])
        BY <1>1, <2>2, <3>2 DEF EngineInv, Sound, Ratchet
      <4>2. Len(key[1]) \in Nat /\ key[2] \in Nat
        BY <2>2, LenProperties
      <4>3. \A i \in 1 .. n : Len(released[d][i][1]) \in Nat /\ released[d][i][2] \in Nat
        <5> SUFFICES ASSUME NEW i \in 1 .. n
                     PROVE  Len(released[d][i][1]) \in Nat /\ released[d][i][2] \in Nat
          OBVIOUS
        <5>1. released[d][i] \in Seq(Device) \X Nat
          BY <2>1, ElementOfSeq
        <5> QED
          BY <5>1, LenProperties
      <4>4. \A i \in 1 .. n : released[d][i] # key
        BY <4>1, <4>2, <4>3 DEF Before
      <4>5. \A i, j \in 1 .. n : released[d][i] = released[d][j] => i = j
        BY DEF EngineInv, Sound, Ratchet
      <4>6. \A i \in 1 .. n + 1 : i \in 1 .. n \/ i = n + 1
        BY <2>1
      <4>7. Len(released'[d]) = n + 1 /\ released'[d][n + 1] = key
            /\ \A i \in 1 .. n : released'[d][i] = released[d][i]
        BY <2>4, <3>2
      <4>8. \A i, j \in 1 .. n + 1 : released'[d][i] = released'[d][j] => i = j
        <5> HIDE DEF key, n
        <5> QED
          BY <4>4, <4>5, <4>6, <4>7
      <4>9. \A i \in 1 .. n + 1 : Before(released'[d][i], mem[d].line, mem[d].gen + 1)
        <5>1. Before(key, mem[d].line, mem[d].gen + 1)
          BY <2>2, <4>1, <4>2 DEF Before
        <5>2. \A i \in 1 .. n : Before(released[d][i], mem[d].line, mem[d].gen + 1)
          BY <1>1 DEF EngineInv, Sound, Ratchet
        <5> HIDE DEF key, n
        <5> QED
          BY <4>6, <4>7, <5>1, <5>2
      <4> QED
        BY <2>9, <4>7, <4>8, <4>9 DEF Ratchet
    <3> QED
      BY <2>3, <3>1, <3>2
  <2>11. Shape(d)' /\ KeysSpent(d)' /\ Ordered(d)'
    BY <1>1, <2>9 DEF EngineInv, Sound, Shape, KeysSpent, Ordered
  <2>12. NoStateNoPast(d)'
    BY <1>1, <2>3, <2>9 DEF EngineInv, Sound, NoStateNoPast, Fresh
  <2>13. \A e \in Device : Sound(e)'
    BY <2>8, <2>10, <2>11, <2>12, Untouched DEF EngineInv, Sound
  <2>14. Bounded'
    <3>1. IsFiniteSet(Emitting)
      BY SyncAssumption, FS_Subset DEF Emitting
    <3>2. d \in Emitting /\ Emitting' = Emitting \ {d}
      BY <1>1, <1>4 DEF Emitting, EngineInv, EngineTypes
    <3>3. Cardinality(Emitting \ {d}) = Cardinality(Emitting) - 1
          /\ Cardinality(Emitting) \in Nat
      BY <3>1, <3>2, FS_RemoveElement, FS_CardinalityType
    <3>4. IsFiniteSet(wire) /\ Cardinality(wire) \in Nat
      BY FS_CardinalityType DEF EngineInv, NetTypes
    <3>5. Cardinality(wire \cup {out[d]}) =
            IF out[d] \in wire THEN Cardinality(wire) ELSE Cardinality(wire) + 1
      BY <3>4, FS_AddElement
    <3>6. lastSeq \in Nat /\ load.rows \in Nat
      BY SyncAssumption, DeliveryAssumption DEF EngineInv, ServerTypes
    <3>7. Cardinality(Emitting') = Cardinality(Emitting) - 1
      BY <3>2, <3>3
    <3>8. Cardinality(wire') <= Cardinality(wire) + 1 /\ Cardinality(wire') \in Nat
      BY <1>4, <3>4, <3>5
    <3> QED
      BY <2>7, <3>3, <3>4, <3>6, <3>7, <3>8 DEF EngineInv, Bounded
  <2> QED
    BY <2>5, <2>6, <2>7, <2>13, <2>14 DEF EngineInv
<1> QED
  BY <1>2, <1>3, <1>4

-----------------------------------------------------------------------------
(* The end of a job: an answer, a fault, or nothing to do. *)

LEMMA JobEnds ==
  ASSUME EngineInv, NEW d \in Device, load' = load, wire' = wire, ServerSame,
         EngineTypes', NetTypes', \A e \in Device \ {d} : SameFor(e),
         pc'[d] \in {"idle", "fetch", "rejoin"},
         todo'[d] = << >>, out'[d] = None, reply'[d] = None,
         handed'[d] = handed[d], released'[d] = released[d],
         cursor[d] <= cursor'[d],
         mem'[d] = mem[d] \/ Fresh(d),
         pc'[d] = "rejoin" => mem'[d] = None /\ Fresh(d)
  PROVE  EngineInv'
<1>1. Shape(d)'
  BY DEF Shape
<1>2. NoStateNoPast(d)'
  BY DEF EngineInv, Sound, NoStateNoPast, Fresh
<1>3. ASSUME Fresh(d)
      PROVE  Len(handed'[d]) = 0 /\ Len(released'[d]) = 0
  BY <1>3 DEF Fresh
<1>4. KeysSpent(d)'
  BY <1>3 DEF EngineInv, Sound, KeysSpent
<1>5. Ordered(d)'
  <2>1. cursor[d] \in 0 .. MaxSeq /\ cursor'[d] \in 0 .. MaxSeq
    BY DEF EngineInv, EngineTypes
  <2>2. \A i \in 1 .. Len(handed[d]) : handed[d][i] \in 1 .. MaxSeq
    BY ElementOfSeq DEF EngineInv, EngineTypes
  <2>3. \A i \in 1 .. Len(handed[d]) : handed[d][i] <= cursor[d]
    BY DEF EngineInv, Sound, Ordered
  <2>4. \A i \in 1 .. Len(handed[d]) : handed[d][i] <= cursor'[d]
    BY <2>1, <2>2, <2>3
  <2> QED
    BY <2>4 DEF EngineInv, Sound, Ordered
<1>6. Ratchet(d)'
  <2>1. CASE mem'[d] = mem[d]
    <3>1. pc'[d] # "emit"
      OBVIOUS
    <3>2. Ratchet(d)
      BY DEF EngineInv, Sound
    <3>3. \A i, j \in 1 .. Len(released[d]) : released[d][i] = released[d][j] => i = j
      BY <3>2 DEF Ratchet
    <3>4. mem[d] # None =>
            \A i \in 1 .. Len(released[d]) : Before(released[d][i], mem[d].line, mem[d].gen + 1)
      BY <3>2 DEF Ratchet
    <3> QED
      BY <2>1, <3>1, <3>3, <3>4 DEF Ratchet, Before
  <2>2. CASE Fresh(d)
    <3>1. \A i \in 1 .. Len(released'[d]) : FALSE
      BY <1>3, <2>2
    <3> QED
      BY <3>1 DEF Ratchet
  <2> QED
    BY <2>1, <2>2
<1>7. Sound(d)'
  BY <1>1, <1>2, <1>4, <1>5, <1>6 DEF Sound
<1> QED
  BY <1>7, LocalStep

LEMMA NothingToSyncKeeps ==
  ASSUME EngineInv, NEW d \in Device, NothingToSync(d), load' = load
  PROVE  EngineInv'
<1>1. /\ pc[d] \in {"idle", "rejoin"} /\ pc' = [pc EXCEPT ![d] = "idle"]
      /\ sync' = [sync EXCEPT ![d] = FALSE]
      /\ UNCHANGED <<vars, mem, disk, cursor, handed, todo, out, reply, inbox, online, wire,
                     fanout, faults, released>>
  BY DEF NothingToSync, Idle
<1>2. todo[d] = << >> /\ out[d] = None /\ reply[d] = None
  BY <1>1 DEF EngineInv, Sound, Shape
<1>3. EngineTypes' /\ NetTypes' /\ ServerSame
  BY <1>1, QuietServer DEF EngineInv, EngineTypes, NetTypes, Jobs
<1>4. \A e \in Device \ {d} : SameFor(e)
  BY <1>1 DEF EngineInv, EngineTypes, SameFor
<1>5. pc'[d] = "idle" /\ cursor[d] <= cursor'[d]
  BY <1>1 DEF EngineInv, EngineTypes
<1> QED
  BY <1>1, <1>2, <1>3, <1>4, <1>5, JobEnds

(* The state after an answer: kept, or forgotten where nothing left under it. *)
LEMMA AnswerKeeps ==
  ASSUME EngineInv, NEW d \in Device, NEW job, NEW next \in {"idle", "fetch", "rejoin"},
         Answer(d, job), Resume(d, next), load' = load,
         cursor' = cursor \/ (\E q \in 0 .. MaxSeq : JumpTo(d, q)),
         Keep(d) \/ (job \in {"create", "join"} /\ Forget(d)),
         next = "rejoin" => job \in {"create", "join"} /\ Forget(d)
  PROVE  EngineInv'
<1>1. /\ pc' = [pc EXCEPT ![d] = next]
      /\ out' = [out EXCEPT ![d] = None]
      /\ reply' = [reply EXCEPT ![d] = None]
      /\ UNCHANGED <<vars, handed, todo, inbox, online, sync, wire, fanout, faults, released>>
  BY DEF Resume
<1>2. /\ pc[d] = "await" /\ out[d].job = job
  BY DEF Answer
<1>3. todo[d] = << >> /\ (job \in {"create", "join"} => Fresh(d))
  BY <1>2 DEF EngineInv, Sound, Shape, NoStateNoPast
<1>4. /\ cursor' \in [Device -> 0 .. MaxSeq]
      /\ \A e \in Device \ {d} : cursor'[e] = cursor[e]
      /\ cursor[d] <= cursor'[d]
  <2>1. CASE cursor' = cursor
    BY <2>1 DEF EngineInv, EngineTypes
  <2>2. CASE \E q \in 0 .. MaxSeq : JumpTo(d, q)
    <3>1. PICK q \in 0 .. MaxSeq : cursor' = [cursor EXCEPT ![d] = Greatest(cursor[d], q)]
      BY <2>2 DEF JumpTo
    <3>2. cursor[d] \in 0 .. MaxSeq /\ Greatest(cursor[d], q) \in 0 .. MaxSeq
          /\ cursor[d] <= Greatest(cursor[d], q)
      BY DEF EngineInv, EngineTypes, Greatest
    <3> QED
      BY <3>1, <3>2 DEF EngineInv, EngineTypes
  <2> QED
    BY <2>1, <2>2
<1>5. /\ mem' \in [Device -> State \cup {None}] /\ disk' = mem'
      /\ \A e \in Device \ {d} : mem'[e] = mem[e]
      /\ mem'[d] = mem[d] \/ Fresh(d)
      /\ next = "rejoin" => mem'[d] = None /\ Fresh(d)
  <2>1. CASE Keep(d) /\ next # "rejoin"
    BY <2>1 DEF Keep, EngineInv, EngineTypes
  <2>2. CASE job \in {"create", "join"} /\ Forget(d)
    BY <1>3, <2>2 DEF Forget, EngineInv, EngineTypes
  <2> QED
    BY <2>1, <2>2
<1>6. EngineTypes'
  BY <1>1, <1>4, <1>5 DEF EngineInv, EngineTypes, Jobs
<1>7. NetTypes'
  BY <1>1 DEF EngineInv, NetTypes
<1>8. ServerSame
  BY <1>1, QuietServer
<1>9. \A e \in Device \ {d} : SameFor(e)
  BY <1>1, <1>4, <1>5 DEF EngineInv, EngineTypes, NetTypes, SameFor
<1>10. /\ pc'[d] = next /\ todo'[d] = << >> /\ out'[d] = None /\ reply'[d] = None
       /\ handed'[d] = handed[d] /\ released'[d] = released[d]
  BY <1>1, <1>3 DEF EngineInv, EngineTypes, NetTypes
<1> QED
  BY <1>1, <1>4, <1>5, <1>6, <1>7, <1>8, <1>9, <1>10, JobEnds

LEMMA AnswersKeep ==
  ASSUME EngineInv, NEW d \in Device, load' = load,
         SendAnswered(d) \/ CreateAnswered(d) \/ JoinAnswered(d) \/ RemoveAnswered(d)
  PROVE  EngineInv'
<1>1. CASE SendAnswered(d)
  <2>1. Answer(d, "send") /\ Keep(d) /\ Resume(d, "idle")
    BY <1>1 DEF SendAnswered
  <2>2. reply[d].seq \in 0 .. MaxSeq
    <3>1. reply[d] \in Reply
      BY <2>1 DEF Answer, EngineInv, NetTypes
    <3>2. reply[d].seq \in 1 .. MaxSeq \/ reply[d].seq = 0
      BY <3>1 DEF Reply
    <3>3. MaxSeq \in Nat
      BY DeliveryAssumption
    <3> QED
      BY <3>2, <3>3
  <2>3. cursor' = cursor \/ \E q \in 0 .. MaxSeq : JumpTo(d, q)
    BY <1>1, <2>2 DEF SendAnswered
  <2> QED
    BY <2>1, <2>3, AnswerKeeps
<1>2. CASE CreateAnswered(d)
  <2>1. Answer(d, "create") /\ (Keep(d) \/ Forget(d)) /\ Resume(d, "idle")
    BY <1>2 DEF CreateAnswered
  <2>2. 1 \in 0 .. MaxSeq
    BY SyncAssumption, DeliveryAssumption DEF EngineInv
  <2>3. cursor' = cursor \/ \E q \in 0 .. MaxSeq : JumpTo(d, q)
    BY <1>2, <2>2 DEF CreateAnswered
  <2> QED
    BY <2>1, <2>3, AnswerKeeps
<1>3. CASE JoinAnswered(d)
  <2>1. Answer(d, "join") /\ cursor' = cursor /\ (Keep(d) \/ Forget(d))
    BY <1>3 DEF JoinAnswered
  <2>2. CASE Conflicted(d)
    <3>1. Forget(d) /\ Resume(d, "rejoin")
      BY <1>3, <2>2 DEF JoinAnswered, Conflicted
    <3> QED
      BY <2>1, <3>1, AnswerKeeps
  <2>3. CASE ~Conflicted(d)
    <3>1. Keep(d) /\ (Resume(d, "fetch") \/ Resume(d, "idle"))
      BY <1>3, <2>3 DEF JoinAnswered, CatchUp
    <3> QED
      BY <2>1, <3>1, AnswerKeeps
  <2> QED
    BY <2>2, <2>3
<1>4. CASE RemoveAnswered(d)
  <2>1. Answer(d, "remove") /\ cursor' = cursor /\ Keep(d)
        /\ (Resume(d, "fetch") \/ Resume(d, "idle"))
    BY <1>4 DEF RemoveAnswered
  <2> QED
    BY <2>1, AnswerKeeps
<1> QED
  BY <1>1, <1>2, <1>3, <1>4

LEMMA HandleWelcomeKeeps ==
  ASSUME EngineInv, NEW d \in Device, HandleWelcome(d), load' = load
  PROVE  EngineInv'
<1>1. PICK w \in welcomes :
        /\ pc[d] = "idle"
        /\ IfOnline(d, AckWelcome(w))
        /\ IF HasGroup(d)
           THEN UNCHANGED <<mem, disk, pc>>
           ELSE /\ mem' = [mem EXCEPT ![d] = Joined(w.data)]
                /\ disk' = [disk EXCEPT ![d] = Joined(w.data)]
                /\ pc' = [pc EXCEPT ![d] = "fetch"]
        /\ UNCHANGED <<cursor, handed, todo, out, netVars>>
  BY DEF HandleWelcome, Idle, CatchUp
<1>2. Joined(w.data) \in State
  BY <1>1, JoinedState DEF EngineInv, ServerTypes
<1>3. ServerSame
  BY <1>1 DEF IfOnline, AckWelcome, ServerSame, vars, groupVars
<1>4. todo[d] = << >> /\ out[d] = None /\ reply[d] = None
  BY <1>1 DEF EngineInv, Sound, Shape
<1>5. EngineTypes' /\ NetTypes'
  BY <1>1, <1>2 DEF EngineInv, EngineTypes, NetTypes, Jobs, netVars
<1>6. \A e \in Device \ {d} : SameFor(e)
  BY <1>1 DEF EngineInv, EngineTypes, SameFor, netVars
<1>7. /\ pc'[d] \in {"idle", "fetch"}
      /\ mem'[d] = mem[d] \/ ~HasGroup(d)
      /\ cursor[d] <= cursor'[d]
  BY <1>1 DEF EngineInv, EngineTypes
<1>8. mem'[d] = mem[d] \/ Fresh(d)
  BY <1>7, PastOfTheUnjoined
<1> QED
  BY <1>1, <1>3, <1>4, <1>5, <1>6, <1>7, <1>8, JobEnds DEF netVars

LEMMA TimeoutKeeps ==
  ASSUME EngineInv, NEW d \in Device, Timeout(d), load' = load
  PROVE  EngineInv'
<1>1. /\ pc[d] = "await" /\ pc' = [pc EXCEPT ![d] = "idle"]
      /\ out' = [out EXCEPT ![d] = None]
      /\ reply' = [reply EXCEPT ![d] = None]
      /\ faults < load.budget /\ faults' = faults + 1
      /\ UNCHANGED <<vars, mem, disk, cursor, handed, todo, inbox, online, sync, wire, fanout,
                     released>>
  BY DEF Timeout, Fault
<1>2. todo[d] = << >>
  BY <1>1 DEF EngineInv, Sound, Shape
<1>3. EngineTypes' /\ ServerSame
  BY <1>1, QuietServer DEF EngineInv, EngineTypes, Jobs
<1>4. NetTypes'
  BY <1>1, SyncAssumption DEF EngineInv, NetTypes
<1>5. \A e \in Device \ {d} : SameFor(e)
  BY <1>1 DEF EngineInv, EngineTypes, NetTypes, SameFor
<1>6. /\ pc'[d] = "idle" /\ out'[d] = None /\ reply'[d] = None /\ cursor[d] <= cursor'[d]
  BY <1>1 DEF EngineInv, EngineTypes, NetTypes
<1> QED
  BY <1>1, <1>2, <1>3, <1>4, <1>5, <1>6, JobEnds

LEMMA CrashKeeps ==
  ASSUME EngineInv, NEW d \in Device, Crash(d), load' = load
  PROVE  EngineInv'
<1>1. /\ mem' = [mem EXCEPT ![d] = disk[d]]
      /\ pc' = [pc EXCEPT ![d] = "idle"]
      /\ todo' = [todo EXCEPT ![d] = << >>]
      /\ out' = [out EXCEPT ![d] = None]
      /\ reply' = [reply EXCEPT ![d] = None]
      /\ inbox' = [inbox EXCEPT ![d] = << >>]
      /\ online' = [online EXCEPT ![d] = FALSE]
      /\ sync' = [sync EXCEPT ![d] = FALSE]
      /\ faults < load.budget /\ faults' = faults + 1
      /\ UNCHANGED <<vars, disk, cursor, handed, wire, fanout, released>>
  BY DEF Crash, Fault
<1>2. mem' = mem
  BY <1>1 DEF EngineInv, EngineTypes
<1>3. << >> \in Seq(LogRow)
  BY EmptySeq
<1>4. EngineTypes' /\ ServerSame
  BY <1>1, <1>2, <1>3, QuietServer DEF EngineInv, EngineTypes, Jobs
<1>5. NetTypes'
  BY <1>1, <1>3, SyncAssumption DEF EngineInv, NetTypes
<1>6. \A e \in Device \ {d} : SameFor(e)
  BY <1>1, <1>2 DEF EngineInv, EngineTypes, NetTypes, SameFor
<1>7. /\ pc'[d] = "idle" /\ out'[d] = None /\ reply'[d] = None /\ todo'[d] = << >>
      /\ cursor[d] <= cursor'[d]
  BY <1>1 DEF EngineInv, EngineTypes, NetTypes
<1> QED
  BY <1>1, <1>2, <1>4, <1>5, <1>6, <1>7, JobEnds

LEMMA DropKeeps ==
  ASSUME EngineInv, NEW d \in Device, Drop(d), load' = load
  PROVE  EngineInv'
<1>1. PICK n \in 0 .. Len(inbox[d]) : inbox' = [inbox EXCEPT ![d] = SubSeq(@, 1, n)]
  BY DEF Drop
<1>2. /\ online' = [online EXCEPT ![d] = FALSE]
      /\ faults < load.budget /\ faults' = faults + 1
      /\ \/ /\ pc[d] = "await"
            /\ pc' = [pc EXCEPT ![d] = "idle"]
            /\ out' = [out EXCEPT ![d] = None]
            /\ reply' = [reply EXCEPT ![d] = None]
         \/ UNCHANGED <<pc, out, reply>>
      /\ UNCHANGED <<vars, mem, disk, cursor, handed, todo, sync, wire, fanout, released>>
  BY DEF Drop, Fault
<1>3. inbox' \in [Device -> Seq(LogRow)]
  <2>1. inbox[d] \in Seq(LogRow) /\ n \in Int
    BY LenProperties DEF EngineInv, NetTypes
  <2>2. \A i \in 1 .. n : inbox[d][i] \in LogRow
    BY <2>1, ElementOfSeq, LenProperties
  <2>3. SubSeq(inbox[d], 1, n) \in Seq(LogRow)
    BY <2>1, <2>2, SubSeqProperties
  <2> QED
    BY <1>1, <2>3 DEF EngineInv, NetTypes
<1>4. EngineTypes' /\ ServerSame
  BY <1>2, QuietServer DEF EngineInv, EngineTypes, Jobs
<1>5. NetTypes'
  <2>1. faults' \in 0 .. load'.budget
    BY <1>2, SyncAssumption DEF EngineInv, NetTypes
  <2>2. reply' \in [Device -> Reply \cup {None}] /\ online' \in [Device -> BOOLEAN]
    BY <1>2 DEF EngineInv, NetTypes
  <2> QED
    BY <1>2, <1>3, <2>1, <2>2 DEF EngineInv, NetTypes
<1>6. \A e \in Device \ {d} : SameFor(e)
  BY <1>2 DEF EngineInv, EngineTypes, NetTypes, SameFor
<1>7. CASE pc[d] = "await" /\ pc' = [pc EXCEPT ![d] = "idle"] /\ out' = [out EXCEPT ![d] = None]
           /\ reply' = [reply EXCEPT ![d] = None]
  <2>1. todo[d] = << >>
    BY <1>7 DEF EngineInv, Sound, Shape
  <2>2. /\ pc'[d] = "idle" /\ out'[d] = None /\ reply'[d] = None
        /\ cursor[d] <= cursor'[d]
    BY <1>2, <1>7 DEF EngineInv, EngineTypes, NetTypes
  <2> QED
    BY <1>2, <1>4, <1>5, <1>6, <2>1, <2>2, JobEnds
<1>8. CASE UNCHANGED <<pc, out, reply>>
  <2>1. Sound(d)'
    BY <1>2, <1>8, Untouched DEF EngineInv, SameFor
  <2> QED
    BY <1>2, <1>4, <1>5, <1>6, <1>8, <2>1, LocalStep
<1> QED
  BY <1>2, <1>7, <1>8

LEMMA TriggersKeep ==
  ASSUME EngineInv, NEW d \in Device, Connect(d) \/ PresenceUpdate(d), load' = load
  PROVE  EngineInv'
<1>1. /\ online' \in [Device -> BOOLEAN] /\ sync' \in [Device -> BOOLEAN]
      /\ UNCHANGED <<vars, engineVars, reply, inbox, wire, fanout, faults, released>>
  BY DEF Connect, PresenceUpdate, EngineInv, NetTypes
<1>2. EngineTypes' /\ NetTypes' /\ ServerSame
  BY <1>1, QuietServer DEF EngineInv, EngineTypes, NetTypes, engineVars
<1>3. \A e \in Device : SameFor(e)
  BY <1>1 DEF SameFor, engineVars
<1>4. Sound(d)'
  BY <1>3, Untouched DEF EngineInv
<1> QED
  BY <1>1, <1>2, <1>3, <1>4, LocalStep DEF engineVars

-----------------------------------------------------------------------------
(* The server. *)

LEMMA CommitServes ==
  ASSUME EngineInv, NEW r \in PostRequest, Serves(r)
  PROVE  /\ lastSeq' = lastSeq + 1
         /\ \E row : /\ mailbox' = mailbox \cup {row}
                     /\ row = NewRow(row.kind, r.epoch, r.from, row.data, row.adds, row.removes)
                     /\ row.kind \in {"commit", "application"}
                     /\ row.data \in [line : Seq(Device), gen : Nat]
                     /\ row.adds \subseteq Device /\ row.removes \subseteq Device
         /\ groupInfo' # NoInfo => groupInfo'.data \in Info
         /\ \A w \in welcomes' : w.data \in Info
<1>1. /\ r.from \in Device /\ r.line \in Seq(Device) /\ r.gen \in Nat /\ r.info \in Info
      /\ r.adds \subseteq Device /\ r.removes \subseteq Device
  BY DEF PostRequest
<1>2. CASE r.job = "send"
  <2>1. PICK row : row = NewRow("application", r.epoch, r.from, [line |-> r.line, gen |-> r.gen],
                                {}, {})
    OBVIOUS
  <2>2. PostMessage(r.from, r.epoch, [line |-> r.line, gen |-> r.gen])
    BY <1>2 DEF Serves
  <2>3. lastSeq' = lastSeq + 1 /\ mailbox' = mailbox \cup {row} /\ UNCHANGED <<groupInfo, welcomes>>
    BY <2>1, <2>2 DEF PostMessage, Insert
  <2>4. /\ row.kind = "application" /\ row.data = [line |-> r.line, gen |-> r.gen]
        /\ row.adds = {} /\ row.removes = {}
    BY <2>1 DEF NewRow
  <2>5. row.data \in [line : Seq(Device), gen : Nat]
    BY <1>1, <2>4
  <2>6. row = NewRow(row.kind, r.epoch, r.from, row.data, row.adds, row.removes)
    BY <2>1, <2>4
  <2>7. /\ row.kind \in {"commit", "application"}
        /\ row.adds \subseteq Device /\ row.removes \subseteq Device
    BY <2>4
  <2>8. /\ groupInfo' # NoInfo => groupInfo'.data \in Info
        /\ \A w \in welcomes' : w.data \in Info
    BY <2>3 DEF EngineInv, ServerTypes
  <2> QED
    BY <2>3, <2>5, <2>6, <2>7, <2>8
<1>3. CASE r.job # "send"
  <2> DEFINE joined == AddedBy(r.from, r.adds)
  <2>1. PICK row : row = NewRow("commit", r.epoch, r.from, [line |-> r.line, gen |-> 0], joined,
                                r.removes)
    OBVIOUS
  <2>2. PostCommit(r.from, r.epoch, r.adds, r.removes, r.welcomed, [line |-> r.line, gen |-> 0],
                   r.info)
    BY <1>3 DEF Serves
  <2>3. /\ lastSeq' = lastSeq + 1 /\ mailbox' = mailbox \cup {row}
        /\ groupInfo' = [epoch |-> epoch + 1, data |-> r.info]
        /\ welcomes' = welcomes \cup
              {[seq |-> lastSeq + 1, to |-> x, data |-> r.info] : x \in r.welcomed}
    BY <2>1, <2>2 DEF PostCommit, Insert, InfoOfNewEpoch
  <2>4. /\ row.kind = "commit" /\ row.data = [line |-> r.line, gen |-> 0]
        /\ row.adds = joined /\ row.removes = r.removes
    BY <2>1 DEF NewRow
  <2>5. joined \subseteq Device
    BY <1>1 DEF AddedBy
  <2>6. groupInfo'.data = r.info
    BY <2>3
  <2>7. \A w \in welcomes' : w.data \in Info
    BY <1>1, <2>3 DEF EngineInv, ServerTypes
  <2> HIDE DEF joined
  <2>8. row.data \in [line : Seq(Device), gen : Nat]
    BY <1>1, <2>4
  <2>9. row = NewRow(row.kind, r.epoch, r.from, row.data, row.adds, row.removes)
    BY <2>1, <2>4
  <2>10. /\ row.kind \in {"commit", "application"}
         /\ row.adds \subseteq Device /\ row.removes \subseteq Device
    BY <1>1, <2>4, <2>5
  <2> QED
    BY <1>1, <2>3, <2>6, <2>7, <2>8, <2>9, <2>10
<1> QED
  BY <1>2, <1>3

(* The answer reaches a device only while it awaits it. *)
LEMMA AnswerReaches ==
  ASSUME EngineInv, NEW r \in PostRequest, NEW answer \in Reply, Answered(r, answer)
  PROVE  /\ reply' \in [Device -> Reply \cup {None}]
         /\ \A e \in Device : reply'[e] = reply[e] \/ pc[e] = "await"
<1>1. r.from \in Device
  BY DEF PostRequest
<1> QED
  BY <1>1 DEF Answered, EngineInv, NetTypes

LEMMA HandleKeeps ==
  ASSUME EngineInv, NEW r \in wire, Handle(r), load' = load
  PROVE  EngineInv'
<1>1. r \in PostRequest /\ r.from \in Device
  BY DEF EngineInv, NetTypes, PostRequest
<1>2. /\ wire' = wire \ {r}
      /\ UNCHANGED <<mem, disk, cursor, handed, pc, todo, out, inbox, online, sync, faults, released>>
  BY DEF Handle, engineVars
<1>3. /\ IsFiniteSet(wire) /\ IsFiniteSet(wire')
      /\ Cardinality(wire) \in Nat /\ Cardinality(wire') = Cardinality(wire) - 1
      /\ Cardinality(wire') \in Nat
  BY <1>2, FS_RemoveElement, FS_CardinalityType DEF EngineInv, NetTypes
<1>4. EngineTypes'
  BY <1>2 DEF EngineInv, EngineTypes
<1>5. Emitting' = Emitting /\ Cardinality(Emitting) \in Nat
  BY <1>2, SyncAssumption, FS_Subset, FS_CardinalityType DEF Emitting
<1>6. load.rows \in 1 .. MaxSeq /\ load.rows \in Nat /\ MaxSeq \in Nat /\ lastSeq \in Nat
  BY SyncAssumption, DeliveryAssumption DEF EngineInv, ServerTypes
<1>7. lastSeq + Cardinality(wire) + Cardinality(Emitting) <= load.rows
  BY DEF EngineInv, Bounded
<1>8. CASE Servable(r)
  <2>1. /\ Serves(r) /\ reply' = reply
        /\ fanout' = fanout \cup
              {[request |-> r, to |-> Leaves \ {r.from},
                row |-> CHOOSE row \in mailbox' : row.seq = lastSeq']}
    BY <1>8 DEF Handle
  <2>2. PICK new : /\ mailbox' = mailbox \cup {new}
                   /\ new = NewRow(new.kind, r.epoch, r.from, new.data, new.adds, new.removes)
                   /\ new.kind \in {"commit", "application"}
                   /\ new.data \in [line : Seq(Device), gen : Nat]
                   /\ new.adds \subseteq Device /\ new.removes \subseteq Device
    BY <1>1, <2>1, CommitServes
  <2>3. lastSeq' = lastSeq + 1 /\ lastSeq + 1 \in 1 .. MaxSeq
    BY <1>1, <1>3, <1>5, <1>6, <1>7, <2>1, CommitServes
  <2>4. r.epoch \in Nat
    BY <1>1 DEF PostRequest
  <2>5. new \in LogRow /\ new.seq = lastSeq'
    BY <1>1, <2>2, <2>3, <2>4 DEF NewRow, NewSeq, LogRow
  <2>6. mailbox' \subseteq LogRow /\ IsFiniteSet(mailbox')
    BY <2>2, <2>5, FS_AddElement DEF EngineInv, ServerTypes
  <2>7. (CHOOSE row \in mailbox' : row.seq = lastSeq') \in LogRow
    <3>1. \E row \in mailbox' : row.seq = lastSeq'
      BY <2>2, <2>5
    <3> QED
      BY <2>6, <3>1
  <2>8. fanout' \subseteq Push
    <3>1. Leaves \ {r.from} \subseteq Device
      BY DEF Leaves
    <3>2. [request |-> r, to |-> Leaves \ {r.from},
           row |-> CHOOSE row \in mailbox' : row.seq = lastSeq'] \in Push
      BY <1>1, <2>7, <3>1 DEF Push
    <3> QED
      BY <2>1, <3>2 DEF EngineInv, NetTypes
  <2>9. NetTypes'
    BY <1>2, <1>3, <2>1, <2>8 DEF EngineInv, NetTypes
  <2>10. ServerTypes'
    <3>1. /\ groupInfo' # NoInfo => groupInfo'.data \in Info
          /\ \A w \in welcomes' : w.data \in Info
      BY <1>1, <2>1, CommitServes
    <3> QED
      BY <1>6, <2>3, <2>6, <3>1 DEF ServerTypes
  <2>11. Bounded'
    BY <1>3, <1>5, <1>6, <1>7, <2>3 DEF Bounded
  <2>12. \A e \in Device : Sound(e)'
    BY <1>2, <2>1, Untouched DEF EngineInv, SameFor
  <2> QED
    BY <1>4, <2>9, <2>10, <2>11, <2>12 DEF EngineInv
<1>9. CASE ~Servable(r)
  <2>1. /\ Answered(r, [ok |-> FALSE, seq |-> 0, why |-> Refusal(r)])
        /\ UNCHANGED <<vars, fanout>>
    BY <1>9 DEF Handle
  <2>2. [ok |-> FALSE, seq |-> 0, why |-> Refusal(r)] \in Reply
    BY DEF Reply, Refusal
  <2>3. /\ reply' \in [Device -> Reply \cup {None}]
        /\ \A e \in Device : reply'[e] = reply[e] \/ pc[e] = "await"
    BY <1>1, <2>1, <2>2, AnswerReaches
  <2>4. NetTypes'
    BY <1>2, <1>3, <2>1, <2>3 DEF EngineInv, NetTypes
  <2>5. ServerTypes' /\ lastSeq' = lastSeq
    BY <2>1, QuietServer, ServerKept DEF EngineInv, ServerSame
  <2>6. Bounded'
    BY <1>3, <1>5, <1>6, <1>7, <2>5 DEF Bounded
  <2>7. \A e \in Device : Sound(e)'
    BY <1>2, <2>3, Untouched DEF EngineInv, SameFor
  <2> QED
    BY <1>4, <2>4, <2>5, <2>6, <2>7 DEF EngineInv
<1> QED
  BY <1>8, <1>9

LEMMA FanOutKeeps ==
  ASSUME EngineInv, NEW f \in fanout, FanOut(f), load' = load
  PROVE  EngineInv'
<1>1. f.request \in PostRequest /\ f.row \in LogRow /\ f.row.seq \in 1 .. MaxSeq
  BY DEF EngineInv, NetTypes, Push, LogRow
<1>2. /\ fanout' = fanout \ {f}
      /\ inbox' = [d \in Device |-> IF d \in f.to /\ online[d] /\ d \notin revoked
                                   THEN Append(inbox[d], f.row) ELSE inbox[d]]
      /\ Answered(f.request, [ok |-> TRUE, seq |-> f.row.seq])
      /\ UNCHANGED <<vars, mem, disk, cursor, handed, pc, todo, out, online, sync, wire, faults,
                     released>>
  BY DEF FanOut, engineVars
<1>3. [ok |-> TRUE, seq |-> f.row.seq] \in Reply
  BY <1>1 DEF Reply
<1>4. /\ reply' \in [Device -> Reply \cup {None}]
      /\ \A e \in Device : reply'[e] = reply[e] \/ pc[e] = "await"
  BY <1>1, <1>2, <1>3, AnswerReaches
<1>5. inbox' \in [Device -> Seq(LogRow)]
  <2>1. \A d \in Device : inbox[d] \in Seq(LogRow) /\ Append(inbox[d], f.row) \in Seq(LogRow)
    BY <1>1, AppendProperties DEF EngineInv, NetTypes
  <2> QED
    BY <1>2, <2>1
<1>6. EngineTypes'
  BY <1>2 DEF EngineInv, EngineTypes
<1>7. NetTypes'
  BY <1>2, <1>4, <1>5 DEF EngineInv, NetTypes
<1>8. ServerTypes' /\ lastSeq' = lastSeq
  BY <1>2, QuietServer, ServerKept DEF EngineInv, ServerSame
<1>9. Emitting' \subseteq Emitting
  BY <1>2 DEF Emitting
<1>10. Bounded'
  BY <1>2, <1>8, <1>9, RoomStays
<1>11. \A e \in Device : Sound(e)'
  BY <1>2, <1>4, Untouched DEF EngineInv, SameFor
<1> QED
  BY <1>6, <1>7, <1>8, <1>10, <1>11 DEF EngineInv

LEMMA BackgroundKeeps ==
  ASSUME EngineInv, Background, load' = load
  PROVE  EngineInv'
<1>1. /\ lastSeq' = lastSeq /\ mailbox' \subseteq mailbox /\ groupInfo' = groupInfo
      /\ welcomes' = welcomes
  BY DEF Background, PruneMailbox, RevokeDevice, groupVars
<1>2. UNCHANGED <<mem, disk, cursor, handed, pc, todo, out, reply, inbox, online, sync, wire,
                  fanout, faults, released>>
  BY DEF Background, clientVars, engineVars, netVars
<1>3. EngineTypes' /\ NetTypes'
  BY <1>2 DEF EngineInv, EngineTypes, NetTypes
<1>4. ServerTypes'
  BY <1>1, FS_Subset DEF EngineInv, ServerTypes
<1>5. Emitting' \subseteq Emitting
  BY <1>2 DEF Emitting
<1>6. Bounded'
  BY <1>1, <1>2, <1>5, RoomStays
<1>7. \A e \in Device : Sound(e)'
  BY <1>2, Untouched DEF EngineInv, SameFor
<1> QED
  BY <1>3, <1>4, <1>6, <1>7 DEF EngineInv

-----------------------------------------------------------------------------
LEMMA InitSound == SyncInit => EngineInv
<1> SUFFICES ASSUME SyncInit PROVE EngineInv
  OBVIOUS
<1>1. load \in Loads /\ load.packaged \subseteq Device /\ load.budget \in Nat
      /\ load.rows \in 1 .. MaxSeq /\ MaxSeq \in Nat
  BY SyncAssumption, DeliveryAssumption DEF SyncInit
<1>2. /\ disk \in [Device -> State \cup {None}]
      /\ cursor \in [Device -> 0 .. MaxSeq]
      /\ lastSeq \in {0, 1}
      /\ mailbox \subseteq LogRow /\ IsFiniteSet(mailbox)
      /\ groupInfo # NoInfo => groupInfo.data \in Info
      /\ welcomes = {}
  <2>1. CASE EstablishedInit
    <3>1. Founded \subseteq Device /\ Creator \in Device
      BY <1>1, SyncAssumption DEF Founded
    <3>2. <<Creator>> \in Seq(Device) /\ << >> \in Seq(Device)
      BY <3>1
    <3>3. FoundingInfo \in Info
      BY <3>1, <3>2 DEF FoundingInfo, Info
    <3>4. FoundingRow \in LogRow
      BY <1>1, <3>1, <3>2 DEF FoundingRow, LogRow
    <3>5. Joined(FoundingInfo) \in State
      BY <3>3, JoinedState
    <3>6. IsFiniteSet({FoundingRow})
      BY FS_Singleton
    <3>7. /\ lastSeq = 1 /\ groupInfo = [epoch |-> 1, data |-> FoundingInfo]
          /\ mailbox = {FoundingRow} /\ welcomes = {}
          /\ disk = [d \in Device |-> IF d \in Founded THEN Joined(FoundingInfo) ELSE None]
          /\ cursor = [d \in Device |-> IF d \in Founded THEN 1 ELSE 0]
      BY <2>1 DEF EstablishedInit
    <3>8. cursor \in [Device -> 0 .. MaxSeq]
      BY <1>1, <3>7
    <3>9. disk \in [Device -> State \cup {None}]
      BY <3>5, <3>7
    <3> QED
      BY <3>3, <3>4, <3>6, <3>7, <3>8, <3>9
  <2>2. CASE NewInit
    <3>1. /\ lastSeq = 0 /\ groupInfo = NoInfo /\ mailbox = {} /\ welcomes = {}
          /\ disk = [d \in Device |-> None] /\ cursor = [d \in Device |-> 0]
      BY <2>2 DEF NewInit, Init
    <3> QED
      BY <1>1, <3>1, FS_EmptySet
  <2> QED
    BY <2>1, <2>2 DEF SyncInit
<1>3. /\ mem = disk
      /\ handed = [d \in Device |-> << >>]
      /\ pc = [d \in Device |-> "idle"]
      /\ todo = [d \in Device |-> << >>]
      /\ out = [d \in Device |-> None]
      /\ reply = [d \in Device |-> None]
      /\ inbox = [d \in Device |-> << >>]
      /\ online = [d \in Device |-> TRUE]
      /\ sync = [d \in Device |-> ~HasGroup(d)]
      /\ wire = {} /\ fanout = {} /\ faults = 0
      /\ released = [d \in Device |-> << >>]
  BY DEF SyncInit
<1>4. EngineTypes
  <2>1. handed \in [Device -> Seq(1 .. MaxSeq)] /\ todo \in [Device -> Seq(LogRow)]
        /\ released \in [Device -> Seq(Seq(Device) \X Nat)]
    BY <1>3, EmptySeq
  <2> QED
    BY <1>2, <1>3, <2>1 DEF EngineTypes, Jobs
<1>5. NetTypes
  <2>1. inbox \in [Device -> Seq(LogRow)]
    BY <1>3, EmptySeq
  <2>2. sync \in [Device -> BOOLEAN]
    BY <1>3 DEF HasGroup
  <2> QED
    BY <1>1, <1>3, <2>1, <2>2, FS_EmptySet DEF NetTypes
<1>6. ServerTypes
  BY <1>2 DEF ServerTypes
<1>7. Bounded
  <2>1. Emitting = {}
    BY <1>3 DEF Emitting
  <2>2. Cardinality(Emitting) = 0 /\ Cardinality(wire) = 0
    BY <1>3, <2>1, FS_EmptySet
  <2> QED
    BY <1>1, <1>2, <2>2 DEF Bounded
<1>8. ASSUME NEW d \in Device PROVE Sound(d)
  <2>1. /\ handed[d] = << >> /\ released[d] = << >> /\ pc[d] = "idle" /\ todo[d] = << >>
        /\ out[d] = None /\ reply[d] = None
    BY <1>3
  <2>2. Len(handed[d]) = 0 /\ Len(released[d]) = 0
    BY <2>1
  <2> QED
    BY <2>1, <2>2 DEF Sound, Shape, NoStateNoPast, Fresh, KeysSpent, Ordered, Ratchet
<1> QED
  BY <1>1, <1>4, <1>5, <1>6, <1>7, <1>8 DEF EngineInv

LEMMA NextSound == EngineInv /\ [SyncNext]_<<allVars, load>> => EngineInv'
<1> SUFFICES ASSUME EngineInv, [SyncNext]_<<allVars, load>> PROVE EngineInv'
  OBVIOUS
<1>1. CASE SyncNext
  <2>0. load' = load
    BY <1>1 DEF SyncNext
  <2>1. ASSUME NEW d \in Device, Step(d) PROVE EngineInv'
    <3>1. CASE TakePush(d) \/ Fetch(d) \/ Open(d) \/ Record(d) \/ Hand(d)
      BY <2>0, <3>1, TakePushKeeps, FetchKeeps, OpenKeeps, RecordKeeps, HandKeeps
    <3>2. CASE Skip(d)
      <4>1. Working(d) /\ NextRow(d) /\ ServerSame /\ UNCHANGED <<mem, disk, handed, out, netVars>>
            /\ (cursor' = cursor \/ (IsNew(d) /\ cursor' = [cursor EXCEPT ![d] = Row1(d).seq]))
        BY <3>2, QuietServer DEF Skip
      <4> QED
        BY <2>0, <4>1, PassOver
    <3>3. CASE NotJoined(d)
      <4>1. Working(d) /\ NextRow(d) /\ ServerSame /\ UNCHANGED <<mem, disk, handed, out, netVars>>
            /\ cursor' = cursor
        BY <3>3, QuietServer DEF NotJoined, UnjoinedWaits
      <4> QED
        BY <2>0, <4>1, PassOver
    <3>4. CASE CannotOpen(d)
      <4>1. Working(d) /\ NextRow(d) /\ ServerSame /\ UNCHANGED <<mem, disk, handed, out, netVars>>
            /\ IsNew(d) /\ cursor' = [cursor EXCEPT ![d] = Row1(d).seq]
        BY <3>4, AckServer DEF CannotOpen, Due
      <4> QED
        BY <2>0, <4>1, PassOver
    <3>5. CASE CreateGroup(d) \/ ExternalJoin(d) \/ NothingToSync(d) \/ Emit(d)
      BY <2>0, <3>5, CreateGroupKeeps, ExternalJoinKeeps, NothingToSyncKeeps, EmitKeeps
    <3>6. CASE SendAnswered(d) \/ CreateAnswered(d) \/ JoinAnswered(d) \/ RemoveAnswered(d)
      BY <2>0, <3>6, AnswersKeep
    <3>7. CASE HandleWelcome(d)
      BY <2>0, <3>7, HandleWelcomeKeeps
    <3> QED
      BY <2>1, <3>1, <3>2, <3>3, <3>4, <3>5, <3>6, <3>7 DEF Step
  <2>2. ASSUME NEW d \in Device, Environment(d) \/ Connect(d) PROVE EngineInv'
    <3>1. CASE SendApplication(d) \/ RemoveDevices(d)
      BY <2>0, <3>1, SendApplicationKeeps, RemoveDevicesKeeps
    <3>2. CASE Timeout(d) \/ Drop(d) \/ Crash(d)
      BY <2>0, <3>2, TimeoutKeeps, DropKeeps, CrashKeeps
    <3>3. CASE Connect(d) \/ PresenceUpdate(d)
      BY <2>0, <3>3, TriggersKeep
    <3> QED
      BY <2>2, <3>1, <3>2, <3>3 DEF Environment
  <2>3. ASSUME NEW r \in wire, Handle(r) PROVE EngineInv'
    BY <2>0, <2>3, HandleKeeps
  <2>4. ASSUME NEW f \in fanout, FanOut(f) PROVE EngineInv'
    BY <2>0, <2>4, FanOutKeeps
  <2>5. CASE Background
    BY <2>0, <2>5, BackgroundKeeps
  <2> QED
    BY <1>1, <2>1, <2>2, <2>3, <2>4, <2>5 DEF SyncNext
<1>2. CASE UNCHANGED <<allVars, load>>
  <2>1. UNCHANGED <<vars, mem, disk, cursor, handed, pc, todo, out, reply, inbox, online, sync,
                    wire, fanout, faults, released, load>>
    BY <1>2 DEF allVars, clientVars, engineVars, netVars
  <2>2. EngineTypes' /\ NetTypes' /\ ServerTypes'
    BY <2>1, QuietServer, ServerKept DEF EngineInv, EngineTypes, NetTypes
  <2>3. Bounded'
    BY <2>1, RoomStays DEF Emitting, vars, groupVars
  <2>4. \A e \in Device : Sound(e)'
    BY <2>1, Untouched DEF EngineInv, SameFor
  <2> QED
    BY <2>1, <2>2, <2>3, <2>4 DEF EngineInv
<1> QED
  BY <1>1, <1>2

(* MessagesOnce, for every set of devices and every load: whatever pushes, *)
(* crashes, timeouts and dropped sockets do, no ciphertext leaves a device   *)
(* under a key it used before, and no message reaches its app twice or out   *)
(* of order (engine.ts sendApplication, processLocked).                       *)
THEOREM EncryptedOnceOpenedOnce == SyncSpec => []MessagesOnce
<1>1. SyncInit => EngineInv
  BY InitSound
<1>2. EngineInv /\ [SyncNext]_<<allVars, load>> => EngineInv'
  BY NextSound
<1>3. EngineInv => MessagesOnce
  BY InvImplies
<1> QED
  BY <1>1, <1>2, <1>3, PTL DEF SyncSpec
=============================================================================
