--------------------------- MODULE RemindersProps ---------------------------
(* What the clients and the server promise about an event's reminder.       *)
EXTENDS Reminders

(* Times are in the past, a push has a handler that was let through, and who *)
(* watches is online.                                                       *)
RemindersTypeOK ==
  /\ now \in 0 .. MaxTime
  /\ loaded \subseteq online /\ online \subseteq Client /\ pinned \subseteq Event
  /\ waited \subseteq asked /\ passed \subseteq asked /\ asked \subseteq Client \X Event
  /\ \A f \in fires : f[1] \in Event /\ f[2] <= now
  /\ \A e \in Event : watched[e] \subseteq loaded

(* Members are reminded of an event once, whichever clients ask for it, how  *)
(* often they reload and ask again, and although the server forgets.         *)
ReminderOnce == \A e \in Event : pushes[e] <= 1

(* The requests, handlers and rows of a reminder belong together, and the   *)
(* push is sent once (reminder-clock.ts, service.ts triggerChannelReminder). *)
ReminderInvariant == RemindersTypeOK /\ ReminderOnce

(* An event that stays pinned is pushed by the end of its window when some   *)
(* client asked for it all the time, and no manager was online whose client  *)
(* did not.                                                                 *)
ReminderReaches ==
  \A e \in pinned \ shadowed :
    now > Instant[e] + Grace /\ watched[e] # {} => pushes[e] = 1
=============================================================================
