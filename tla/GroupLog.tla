------------------------------ MODULE GroupLog ------------------------------
(***************************************************************************)
(* What the delivery service promises about one group, with nothing said  *)
(* of members, mailboxes, cursors or retention: an append-only log in      *)
(* which a commit is accepted only at the group's epoch, which it then     *)
(* advances, and an application message only at that epoch or the one      *)
(* before it.  The epoch is not a variable: it is the number of commits    *)
(* in the log, so the log alone decides what may be appended next.         *)
(***************************************************************************)
EXTENDS Naturals, Sequences, FiniteSets

CONSTANT Sender                 \* who may author an entry

VARIABLE log                    \* the entries accepted so far, oldest first

Entry == [kind : {"commit", "application"}, epoch : Nat, sender : Sender]

(* The positions of the commits of the log l. *)
Commits(l) == {i \in DOMAIN l : l[i].kind = "commit"}

EpochOf(l) == Cardinality(Commits(l))

(* An entry the group accepts after the log l. *)
Acceptable(entry, l) ==
  \/ /\ entry.kind = "commit"
     /\ entry.epoch = EpochOf(l)
  \/ /\ entry.kind = "application"
     /\ entry.epoch \in {e \in Nat : e = EpochOf(l) \/ e + 1 = EpochOf(l)}

Init == log = << >>

Accept ==
  \E kind \in {"commit", "application"}, sender \in Sender, epoch \in 0 .. EpochOf(log) :
    LET entry == [kind |-> kind, epoch |-> epoch, sender |-> sender]
    IN  /\ Acceptable(entry, log)
        /\ log' = Append(log, entry)

Spec == Init /\ [][Accept]_log
=============================================================================
