----------------------------- MODULE Reminders -----------------------------
(***************************************************************************)
(* The reminder of a pinned event.  The server cannot read when an event   *)
(* starts, so the members' clients are its clock: each that has the event  *)
(* loaded asks at the instant for a push to those offline (apps/hub/src/   *)
(* lib/reminder-clock.ts), and the server pushes for the first that asks   *)
(* (triggerChannelReminder) and forgets that it did a day later.           *)
(*                                                                         *)
(* Time passes in ticks.  A client sweeps every 30 seconds and a handler    *)
(* takes less, both well within a tick; a request may be on its way longer. *)
(***************************************************************************)
EXTENDS Naturals, FiniteSets

CONSTANTS
  Client,
  InChannel,   \* active members of the channel
  Manager,     \* leaders of the community, in the channel or not, and moderators
  Event,       \* the pinned events
  Instant,          \* the reminder instant of an event, which all clients agree on
  Early,       \* REMINDER_EARLY_WINDOW_MS
  Grace,       \* REMINDER_PAST_GRACE_MS, and the client's PAST_GRACE_MS
  ClientEarly, \* CLIENT_EARLY_MS
  Keep,        \* the age at which pruneReminderFires deletes a row
  MaxTime      \* bound

ASSUME ReminderAssumption ==
  /\ InChannel \subseteq Client /\ Manager \subseteq Client
  /\ Instant \in [Event -> Nat]
  /\ Early \in Nat /\ ClientEarly \in Nat /\ Keep \in Nat
  /\ Grace \in Nat \ {0}             \* the grace outlasts a client's sweep
  /\ MaxTime \in Nat
  /\ Keep >= Early + Grace

VARIABLES
  now,
  online,    \* the accounts with a Hub connected
  loaded,    \* of those, the ones whose Hub has loaded the channel's events
  pinned,    \* the events that are still pinned
  resolved,  \* what each client does not ask for again
  swept,     \* the clients that have swept in this tick
  asked,     \* the requests on their way, <<account, event>>
  waited,    \* of those, the ones the client waits for
  passed,    \* the handlers past their checks
  fires,     \* channel_reminder_fires: <<event, firedAt>>
  pushes,    \* history: how often an event was pushed
  watched,   \* history: the clients that ask for the event, ever since its instant
  shadowed   \* history: events in whose window a manager was online whose client
             \* did not ask for them

firingVars == <<pinned, passed, fires>>
clientVars == <<online, loaded, resolved, swept>>
requestVars == <<asked, waited>>
reminderHistory == <<pushes, watched, shadowed>>
reminderVars == <<now, firingVars, clientVars, requestVars, reminderHistory>>

(* notifyEventReminder skips who is online; here it only counts. *)
Pushed(e) == pushes' = [pushes EXCEPT ![e] = @ + 1]

Due(e) == Instant[e] <= now /\ now <= Instant[e] + Grace

Soon(e) == now < Instant[e] /\ Instant[e] <= now + ClientEarly

Accepted(e) == Instant[e] <= now + Early /\ now <= Instant[e] + Grace

(* collectEvents: what the loaded channels hold. *)
Watching(a) == a \in online /\ a \in loaded

Asks(a, e) == Watching(a) /\ a \in InChannel /\ e \notin resolved[a]

(* A manager is online whose client does not ask for the event. *)
Shadows(a, e) == a \in online /\ a \in Manager /\ ~Asks(a, e)

(* fireDue of each due event: asks and waits for the answer. *)
SweepDue(a) ==
  LET due == {e \in pinned : Due(e) /\ e \notin resolved[a]} IN
  /\ Watching(a)
  /\ ~ \E e \in Event : <<a, e>> \in waited
  /\ asked' = asked \cup {<<a, e>> : e \in due}
  /\ waited' = waited \cup {<<a, e>> : e \in due}
  /\ swept' = swept \cup {a}
  /\ UNCHANGED <<now, firingVars, online, loaded, resolved, reminderHistory>>

(* sweepEarly, as the page is hidden: nothing waits for the answer. *)
SweepEarly(a) ==
  LET soon == {e \in pinned : Soon(e) /\ e \notin resolved[a]} IN
  /\ Watching(a) /\ soon # {}
  /\ resolved' = [resolved EXCEPT ![a] = @ \cup soon]
  /\ asked' = asked \cup {<<a, e>> : e \in soon}
  /\ UNCHANGED <<now, firingVars, online, loaded, swept, waited, reminderHistory>>

(* A member is heard only when no manager is online. *)
MayTrigger(a) == a \in Manager \/ Manager \cap online = {}

Answered(a, e) ==
  /\ asked' = asked \ {<<a, e>>}
  /\ waited' = waited \ {<<a, e>>}

(* The client hears back: it asks again only after a 409. *)
Resolves(a, e) ==
  resolved' = IF <<a, e>> \in waited THEN [resolved EXCEPT ![a] = @ \cup {e}] ELSE resolved

(* 400, 403, 404: outside the window, not in the channel, not pinned. *)
Refuse(a, e) ==
  /\ <<a, e>> \in asked \ passed
  /\ a \notin InChannel \/ ~Accepted(e) \/ e \notin pinned
  /\ Answered(a, e) /\ Resolves(a, e)
  /\ UNCHANGED <<now, firingVars, online, loaded, swept, reminderHistory>>

DeferGivesUp(a, e) ==                                                \* mutant
  /\ <<a, e>> \in asked \ passed
  /\ a \in InChannel /\ Accepted(e) /\ e \in pinned
  /\ ~MayTrigger(a)
  /\ Answered(a, e) /\ Resolves(a, e)
  /\ UNCHANGED <<now, firingVars, online, loaded, swept, reminderHistory>>

(* 409: left for the manager who is online, and for the next sweep. *)
Defer(a, e) ==
  /\ <<a, e>> \in asked \ passed
  /\ a \in InChannel /\ Accepted(e) /\ e \in pinned
  /\ ~MayTrigger(a)
  /\ Answered(a, e)
  /\ UNCHANGED <<now, firingVars, clientVars, reminderHistory>>

Admit(a, e) ==
  /\ <<a, e>> \in asked \ passed
  /\ a \in InChannel /\ Accepted(e) /\ e \in pinned
  /\ MayTrigger(a)
  /\ passed' = passed \cup {<<a, e>>}
  /\ UNCHANGED <<now, pinned, fires, clientVars, requestVars, reminderHistory>>

(* The key of the row is the event and its instant, whenever it was fired. *)
Fired(e) == \E f \in fires : f[1] = e

(* The insert, of which only the first does anything, and the push. *)
Fire(a, e) ==
  /\ <<a, e>> \in passed
  /\ passed' = passed \ {<<a, e>>}
  /\ IF Fired(e)
     THEN UNCHANGED <<fires, pushes>>
     ELSE fires' = fires \cup {<<e, now>>} /\ Pushed(e)
  /\ Answered(a, e) /\ Resolves(a, e)
  /\ UNCHANGED <<now, pinned, online, loaded, swept, watched, shadowed>>

AnyAge(t) == TRUE                                                    \* mutant

Outlived(t) == t + Keep < now

(* pruneReminderFires, hourly. *)
Prune ==
  /\ \E f \in fires : Outlived(f[2])
  /\ fires' = {f \in fires : ~Outlived(f[2])}
  /\ UNCHANGED <<now, pinned, passed, clientVars, requestVars, reminderHistory>>

(* deleteArtifact *)
UnpinEvent(e) ==
  /\ e \in pinned
  /\ pinned' = pinned \ {e}
  /\ UNCHANGED <<now, passed, fires, clientVars, requestVars, reminderHistory>>

(* A Hub opens, with nothing resolved, and loads the channel when it is shown. *)
Open(a) ==
  /\ a \notin online
  /\ online' = online \cup {a}
  /\ resolved' = [resolved EXCEPT ![a] = {}]
  /\ shadowed' = shadowed \cup {e \in Event : Due(e) /\ a \in Manager}
  /\ UNCHANGED <<now, firingVars, loaded, swept, requestVars, pushes, watched>>

Load(a) ==
  /\ a \in online \ loaded
  /\ loaded' = loaded \cup {a}
  /\ UNCHANGED <<now, firingVars, online, resolved, swept, requestVars, reminderHistory>>

(* The Hub closes; what it asked for is on its way. *)
Close(a) ==
  /\ a \in online
  /\ online' = online \ {a} /\ loaded' = loaded \ {a}
  /\ waited' = {w \in waited : w[1] # a}
  /\ watched' = [e \in Event |-> watched[e] \ {a}]
  /\ UNCHANGED <<now, firingVars, resolved, swept, asked, pushes, shadowed>>

(* Every client sweeps and hears back, and no handler is half-way, before    *)
(* the time goes on.                                                        *)
Tick ==
  /\ now < MaxTime
  /\ passed = {}
  /\ \A a \in Client : Watching(a) => a \in swept
  /\ waited = {}
  /\ now' = now + 1
  /\ swept' = {}
  /\ watched' = [e \in Event |->
       IF now + 1 = Instant[e] THEN {a \in Client : Asks(a, e)} ELSE watched[e]]
  /\ shadowed' = shadowed \cup
       {e \in Event : Instant[e] <= now + 1 /\ now + 1 <= Instant[e] + Grace /\ \E a \in Client : Shadows(a, e)}
  /\ UNCHANGED <<firingVars, online, loaded, resolved, requestVars, pushes>>

ReminderInit ==
  /\ now = 0
  /\ online = {} /\ loaded = {}
  /\ pinned = Event
  /\ resolved = [a \in Client |-> {}] /\ swept = {}
  /\ asked = {} /\ waited = {} /\ passed = {}
  /\ fires = {}
  /\ pushes = [e \in Event |-> 0]
  /\ watched = [e \in Event |-> {}] /\ shadowed = {}

ReminderNext ==
  \/ Tick \/ Prune
  \/ \E e \in Event : UnpinEvent(e)
  \/ \E a \in Client :
       \/ Open(a) \/ Load(a) \/ Close(a) \/ SweepDue(a) \/ SweepEarly(a)
       \/ \E e \in Event : Refuse(a, e) \/ Defer(a, e) \/ Admit(a, e) \/ Fire(a, e)

ReminderSpec == ReminderInit /\ [][ReminderNext]_reminderVars
=============================================================================
