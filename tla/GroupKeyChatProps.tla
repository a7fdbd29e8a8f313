-------------------------- MODULE GroupKeyChatProps --------------------------
(* What the messages of a group_key channel promise its members.            *)
EXTENDS GroupKeyChat

Entry == [state : {"none", "shown", "edited", "deleted", "opened"},
          byModerator : BOOLEAN, reactions : SUBSET Device]

(* The state has the shape of the tables and of the clients' stores; a      *)
(* cursor is never beyond the log, and no device holds a key that was not    *)
(* granted to it.                                                            *)
ChatTypeOK ==
  /\ Len(log) <= MaxLog
  /\ \A s \in DOMAIN log : log[s].by \in Device /\ log[s].epoch \in Epochs
  /\ \A d \in Device :
       /\ cursor[d] \in 0 .. Len(log)
       /\ held[d] \subseteq grant[d]
       /\ shown[d] \in [Seqs -> Entry] /\ stored[d] \in [Seqs -> Entry]

Quiet(d) ==
  /\ \A i \in DOMAIN pull[d] : pull[d][i] = NoTask
  /\ \A j \in DOMAIN send[d] : send[d][j] = NoTask

Lost(d) ==
  {s \in DOMAIN log \ gone : /\ s <= cursor[d] /\ log[s].kind = "text"
                             /\ log[s].epoch \in held[d]
                             /\ ~Kept(shown[d][s]) /\ ~Kept(stored[d][s])}

(* "Pull everything after the cursor in order (gap-safe)": a text that the  *)
(* device has a key for is behind its cursor without being stored for two   *)
(* causes only, an own message acked while older ones were still to be      *)
(* pulled, and a sender who used a number twice.                            *)
GapsExplained ==
  ~May("close") /\ ~May("meta") => \A d \in Device : Quiet(d) => \A s \in Lost(d) :
    \/ \E t \in DOMAIN log : t > s /\ log[t].by = d
    \/ \E t \in DOMAIN log : t < s /\ log[t].by = log[s].by /\ log[t].sn >= log[s].sn

(* The stores are well-formed, and no device misses a message for a cause    *)
(* that is not one of those (community-chat.ts pullMessages).                 *)
GapInvariant == ChatTypeOK /\ GapsExplained

(* d has caught up: nothing is under way, and its cursor is at the end. *)
Settled(d) == Quiet(d) /\ inbox[d] = << >> /\ cursor[d] = Len(log)

Seen(entry) == IF Tombstone(entry) THEN [entry EXCEPT !.reactions = {}] ELSE entry

(* Two members who have both caught up see the same of the texts they have  *)
(* keys for, whatever order edits, deletions and reactions crossed in;      *)
(* but a reaction to a deleted text shows for some only, and so does a text  *)
(* whose row was deleted in between.                                         *)
SameView ==
  load.may \subseteq {"rotate"} /\ load.sends = 1 /\ "consume" \notin load.kinds =>
    \A d, e \in load.online, s \in DOMAIN log \ gone :
      Settled(d) /\ Settled(e) /\ log[s].epoch \in held[d] \cap held[e] =>
        Seen(shown[d][s]) = Seen(shown[e][s])

(* A nudge is answered: a member who stays connected and holds every key    *)
(* gets all that was in the log.                                             *)
NudgeAnswered ==
  load.may \subseteq {"rotate"} => \A d \in Device :
    ~ <>[](/\ d \in load.online /\ link[d] # "off" /\ subscribed[d] /\ d \in inside
           /\ cursor[d] < Len(log) /\ Len(log) \notin gone
           /\ \A s \in DOMAIN log : log[s].epoch \in held[d])
=============================================================================
