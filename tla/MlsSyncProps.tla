---------------------------- MODULE MlsSyncProps ----------------------------
(***************************************************************************)
(* What the MLS sync engine promises: no ratchet key is used twice, no     *)
(* message is handed over twice, out of order or not at all, and the       *)
(* devices of a group end on the server's line of commits.                 *)
(***************************************************************************)
EXTENDS MlsSync

ServerLine == IF groupInfo = NoInfo THEN << >> ELSE groupInfo.data.line

Handed(d) == ToSet(handed[d])

(* The application rows of others that d holds the keys of, now or once. *)
Readable(d) ==
  {row \in history : /\ row.kind = "application" /\ row.sender # d
                     /\ HasGroup(d)
                     /\ IsPrefix(row.data.line, disk[d].line)
                     /\ Len(row.data.line) >= disk[d].base}

-----------------------------------------------------------------------------
(* Types, and the shape of a job: an idle device has no row in hand, a job *)
(* that processes rows has one and holds the group, a job that posts has    *)
(* built its request (engine.ts enqueue, processLocked).                     *)
SyncTypeOK ==
  /\ cursor \in [Device -> 0 .. MaxSeq]
  /\ faults \in 0 .. load.budget
  /\ \A d \in Device :
       /\ pc[d] \in {"idle", "work", "record", "hand", "emit", "await", "fetch", "rejoin"}
       /\ (pc[d] \in {"work", "record", "hand"}) <=> (todo[d] # << >>)
       /\ (pc[d] \in {"emit", "await"}) <=> (out[d] # None)
       /\ pc[d] \in {"record", "hand", "emit"} => mem[d] # None
       /\ reply[d] # None => pc[d] = "await"

(* No two ciphertexts leave a device under the same ratchet key, whatever  *)
(* crashes and timeouts do between encrypting, persisting and sending        *)
(* (engine.ts sendApplication: "Persist BEFORE the ciphertext leaves").      *)
NoRatchetReuse ==
  \A d \in Device : \A i, j \in DOMAIN released[d] : i # j => released[d][i] # released[d][j]

(* The sink sees a group's messages in the order of their seqs, each at    *)
(* most once, also when pushes overtake each other and when a crash           *)
(* interrupts the processing (engine.ts processLocked, ports.ts).              *)
HandedInOrder ==
  \A d \in Device : \A i, j \in DOMAIN handed[d] : i < j => handed[d][i] < handed[d][j]

(* What was handed over cannot be decrypted again, not even by the snapshot *)
(* a restart loads (engine.ts: "Persist BEFORE ack").                          *)
HandedKeysSpent ==
  \A d \in Device : HasGroup(d) =>
    \A row \in history : row.seq \in Handed(d) => ~Opens(disk[d], row)

(* Whatever is sent is encrypted once and opened once: no ciphertext leaves *)
(* under a key that was used, and no message reaches the app twice, or out   *)
(* of order, through pushes that overtake each other, crashes, lost answers   *)
(* and dropped sockets.                                                        *)
MessagesOnce == SyncTypeOK /\ NoRatchetReuse /\ HandedKeysSpent /\ HandedInOrder

(* A device that is not at work holds a state of the line of commits the   *)
(* server accepted, so that it can still open what is sent to it              *)
(* (engine.ts createGroupWithMembers and externalJoinWithRetry: a state       *)
(* whose commit lost the epoch is dropped).                                    *)
OnServerLine ==
  \A d \in Device \ revoked :
    HasGroup(d) /\ pc[d] = "idle" => IsPrefix(disk[d].line, ServerLine)

(* No accepted message is lost to its epoch: the server lets a message race *)
(* one commit, and what a device keeps of past epochs still opens it when      *)
(* its turn comes (service.ts postMessage, storage.rs MAX_EPOCH_RETENTION).     *)
RetentionSuffices ==
  \A d \in Device :
    Due(d) /\ Row1(d) \in Readable(d) => Row1(d).seq \in mem[d].used \/ Opens(mem[d], Row1(d))

(* "A decrypted application message, handed to the app exactly once per    *)
(* seq" (ports.ts): the cursor of a device passes no message it could          *)
(* decrypt without handing it over.                                             *)
NothingSkipped ==
  \A d \in Device \ revoked : \A row \in Readable(d) :
    row.seq <= cursor[d] => row.seq \in Handed(d) \/ pc[d] = "hand"

(* End to end: the server drops a message from the mailbox only when every *)
(* leaf that could decrypt it has handed it to its app (service.ts             *)
(* pruneMailbox with engine.ts processLocked).                                  *)
PrunedMeansHanded ==
  \A d \in Leaves \ revoked : \A row \in Readable(d) \ mailbox : row.seq \in Handed(d)

(* Once the posting stops, every leaf ends on the server's line of commits, *)
(* through creation races, Welcomes that come late and external joins, and   *)
(* has handed over every message it can decrypt, pushed or fetched            *)
(* (engine.ts createGroupWithMembers, handleWelcome, externalJoinWithRetry).   *)
Converges ==
  <>[](\A d \in Leaves :
         /\ HasGroup(d) /\ disk[d].line = ServerLine
         /\ \A row \in Readable(d) : row.seq \in Handed(d))
=============================================================================
