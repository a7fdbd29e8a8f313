-------------------------- MODULE MlsChannelProps --------------------------
(* What an MLS channel promises its members. *)
EXTENDS MlsChannel

States == [line : Seq(Account), tree : SUBSET Account]

(* The rows of the server and what a device holds are well-formed, and the  *)
(* published GroupInfo is of the epoch the log has reached.                 *)
ChannelTypeOK ==
  /\ member \subseteq Account /\ leaves \subseteq Account /\ capped \subseteq Account
  /\ chan \in [Account -> {"none", "active", "removed"}]
  /\ epoch \in 0..MaxEpoch /\ pending \in BOOLEAN
  /\ info = None \/ (info \in States /\ Len(info.line) = Len(log))
  /\ \A d \in Account :
       LET c == client[d]
       IN  /\ {c.mem, c.disk} \subseteq States \cup {None}
           /\ c.cursor \in 0..Len(log) /\ c.held \in 0..epoch
           /\ {c.known, c.ready, c.untrusted} \subseteq BOOLEAN
           /\ c.status \in {"idle", "joining", "ready", "locked", "pending", "untrusted"}

(* A channel that shows ready to one of its members is one the server takes *)
(* that member's messages for: through conflicting joins, a kick and a      *)
(* return, openings and reloads, its device is a leaf.  The exceptions are  *)
(* devices a roll-call has swept, and those a request of which failed:      *)
(* their engine takes a group it still holds for a joined one.              *)
ReadyIsLeaf ==
  \A d \in Account \ (swept \cup failed) :
    client[d].status = "ready" /\ Active(d) => d \in leaves \/ client[d].job # NoJob

(* The rows and the devices' stores are well-formed, and a device shows a   *)
(* channel ready when the server counts it in (channel-keys.ts, engine.ts).  *)
ReadyInvariant == ChannelTypeOK /\ ReadyIsLeaf

(* Whoever has left the community is cut off: a device that has looked at   *)
(* the leaves with the metadata key of a later epoch, and found theirs,     *)
(* sends them nothing more in that session.  (verifyChannelTrust)           *)
ExMembersCutOff == \A r \in reached : r.epoch < gone[r.who]

Forked(d) ==
  LET line == client[d].mem.line
  IN  Len(line) > Len(log) \/ \E i \in 1..Len(line) : line[i] # log[i].by

(* A roll-call's sweep evicts: the leaf of a swept account is gone once its *)
(* sweep has ended, unless the account came back, the sweeping device had   *)
(* not seen it join, or a commit overtook the sweep's -- whose device then  *)
(* holds a line of its own, for removeAccountDevices keeps the state it     *)
(* built -- or the request failed.                                          *)
SweepEvicts ==
  \A a \in expelled \cap leaves :
    \/ client[Owner].job.op = "sweep" /\ client[Owner].job.who = a
    \/ a \in unseen
    \/ Forked(Owner)
    \/ Owner \in failed

(* Who is out gets nothing: neither who left the community nor who a         *)
(* roll-call removed.                                                         *)
EvictedStayOut == ExMembersCutOff /\ SweepEvicts

(* A device does not distrust a channel for ever for a capability that is   *)
(* late, or for the epoch it checked with: if it and all the leaves it      *)
(* holds stay in the community it trusts the channel again, once it is      *)
(* opened again.                                                            *)
TrustRecovers ==
  \A d \in Account :
    client[d].untrusted ~>
      \/ ~client[d].untrusted
      \/ d \notin member
      \/ client[d].mem # None /\ ~(client[d].mem.tree \subseteq member)
=============================================================================
