------------------------------- MODULE Ingest -------------------------------
(***************************************************************************)
(* What a decrypted message does to the messages a device keeps             *)
(* (apps/hub/src/lib/message-ingest.ts), as operators on the entries of a   *)
(* list.  A text is named by its number in the log, and its content by the  *)
(* state it is in; a list maps every number to its entry.                   *)
(***************************************************************************)
EXTENDS Naturals

NoEntry == [state |-> "none", byModerator |-> FALSE, reactions |-> {}]

(* bodyToStored *)
Display == [NoEntry EXCEPT !.state = "shown"]

Kept(entry) == entry.state # "none"
Tombstone(entry) == entry.state = "deleted"

(* applyReaction, adding or removing `actor`. *)
React(entry, actor, remove) ==
  IF ~Kept(entry) THEN entry
  ELSE [entry EXCEPT !.reactions = IF remove THEN @ \ {actor} ELSE @ \cup {actor}]

(* applyEdit: the author's, and not after a deletion. *)
Edit(entry, author, actor) ==
  IF Kept(entry) /\ author = actor /\ ~Tombstone(entry)
  THEN [entry EXCEPT !.state = "edited"] ELSE entry

(* applyDelete: the author's; the row is kept without its content. *)
Delete(entry, author, actor) ==
  IF Kept(entry) /\ author = actor THEN [NoEntry EXCEPT !.state = "deleted"] ELSE entry

(* applyModerationRemoval: whoever's it was; the server has checked. *)
Remove(entry) ==
  IF Kept(entry) /\ ~Tombstone(entry)
  THEN [NoEntry EXCEPT !.state = "deleted", !.byModerator = TRUE] ELSE entry

(* consumeLocally, by the viewer. *)
Opened(entry) == [NoEntry EXCEPT !.state = "opened"]

(* applyConsume: by a device of mine, or of a text of mine; a view-once     *)
(* text that was opened is not opened again.                                *)
Consume(entry, author, actor, me) ==
  IF Kept(entry) /\ entry.state # "opened" /\ (author = me \/ actor = me)
  THEN Opened(entry) ELSE entry

(* ingestBody of a control message: it changes the text it names, when the  *)
(* device has that.                                                          *)
Applied(list, m, author, me) ==
  LET t == m.target
      by == m.by
  IN  CASE m.kind = "react" -> [list EXCEPT ![t] = React(@, by, FALSE)]
        [] m.kind = "unreact" -> [list EXCEPT ![t] = React(@, by, TRUE)]
        [] m.kind = "edit" -> [list EXCEPT ![t] = Edit(@, author, by)]
        [] m.kind = "delete" -> [list EXCEPT ![t] = Delete(@, author, by)]
        [] m.kind = "consume" -> [list EXCEPT ![t] = Consume(@, author, by, me)]
=============================================================================
