-------------------------- MODULE ArtifactsProofs --------------------------
(* The artifacts of a channel: the pinned board, for every number of         *)
(* accounts, pins, tickets, reports and calls in flight; and the reminders   *)
(* of a pinned event, of which members get one, for every set of accounts,   *)
(* every instant and every width of the windows that the pruning outlasts.   *)
EXTENDS BoardProps, RemindersProps, FiniteSetTheorems, TLAPS

USE DEF serverVars, deviceVars, historyVars, vars

-----------------------------------------------------------------------------
(* The shape of the rows, of what the devices keep, and of the calls. *)

Rows ==
  /\ load \in Loads
  /\ epoch \in 0..MaxEpoch /\ pending \in BOOLEAN
  /\ managers \subseteq active /\ active \subseteq load.members
  /\ pins \in [Pin -> Row \cup {None}]
  /\ tickets \in [Pin -> SUBSET Ticket] /\ \A p \in Pin : tickets[p] # {} => p \in Stored
  /\ reports \in [Report -> Statuses \cup {None}] /\ envelopes \in [Report -> SUBSET Account]
  /\ \A r \in Report : envelopes[r] # {} => reports[r] # None
  /\ key \in [Account -> Nat] /\ \A a \in Account : key[a] <= epoch
  /\ DOMAIN shown = Account /\ \A a \in Account : DOMAIN shown[a] \subseteq Pin
  /\ mine \in [Account -> [Pin -> Ticket \cup {None}]]
  /\ news \in [Account -> BOOLEAN]
  /\ read \in [Account -> Nat] /\ \A a \in Account : read[a] <= epoch \/ read[a] = MaxEpoch + 1

(* What a call carries, by what it is. *)
Fits(r) ==
  /\ r.op = "pin" =>
       /\ r.on \in Pin /\ r.arg \in Body
       /\ r.arg.sealed <= r.arg.label /\ r.arg.label <= key[r.by]
  /\ r.op = "rotate" =>
       /\ r.arg \in Rotation /\ r.arg.from < MaxEpoch /\ r.arg.from <= epoch
       /\ r.step = "adopt" => r.arg.from < epoch
  /\ r.op = "list" => r.arg \in Answer /\ r.arg.under <= epoch
  /\ r.op \in {"go", "withdraw"} => r.on \in Pin /\ r.arg \in Ticket
  /\ r.op = "report" =>
       /\ r.on \in Report /\ r.arg \in SUBSET Account
       /\ r.step = "seal" => reports[r.on] # None

CallsFit ==
  \A s \in Slot : call[s] # None => s \in load.slots /\ call[s] \in Call /\ Fits(call[s])

Shape == Rows /\ DOMAIN call = Slot /\ CallsFit

LEMMA Constants ==
  /\ Leader \subseteq Account /\ IsFiniteSet(Account) /\ IsFiniteSet(Slot) /\ MaxEpoch \in Nat
  /\ None \notin Pin /\ None \notin Ticket /\ None \notin Report
  /\ None \notin Row /\ None \notin Statuses /\ None \notin Call
  /\ \A l \in Loads : /\ l.members \subseteq Account /\ l.members # {} /\ IsFiniteSet(l.members)
                      /\ l.pinned \subseteq Pin /\ l.slots \subseteq Slot /\ IsFiniteSet(l.slots)
BY BoardAssumption, FS_Subset DEF BoardAssumption

LEMMA InitShape == Init => Shape
<1> SUFFICES ASSUME Init PROVE Shape
  OBVIOUS
<1>1. pins \in [Pin -> Row \cup {None}]
  <2>1. \A l \in {CHOOSE l \in Leader : TRUE} : l \in Account
    BY BoardAssumption DEF BoardAssumption
  <2>2. [by |-> CHOOSE l \in Leader : TRUE, sealed |-> 0, label |-> 0,
         approved |-> FALSE, late |-> FALSE, between |-> FALSE] \in Row
    BY <2>1 DEF Row
  <2> QED BY <2>2 DEF Init
<1>2. load \in Loads /\ load.pinned \subseteq Pin
  BY Constants DEF Init
<1>3. /\ epoch \in 0..MaxEpoch /\ pending \in BOOLEAN
      /\ managers \subseteq active /\ active \subseteq load.members
      /\ tickets \in [Pin -> SUBSET Ticket] /\ \A p \in Pin : tickets[p] = {}
      /\ reports \in [Report -> Statuses \cup {None}]
      /\ envelopes \in [Report -> SUBSET Account] /\ \A r \in Report : envelopes[r] = {}
  <2>1. epoch = 0 /\ MaxEpoch \in Nat /\ pending = FALSE
        /\ active = load.members /\ managers = Leader \cap load.members
    BY Constants DEF Init
  <2>2. /\ tickets = [p \in Pin |-> {}] /\ reports = [r \in Report |-> None]
        /\ envelopes = [r \in Report |-> {}]
    BY DEF Init
  <2>3. /\ tickets \in [Pin -> SUBSET Ticket] /\ \A p \in Pin : tickets[p] = {}
        /\ reports \in [Report -> Statuses \cup {None}]
        /\ envelopes \in [Report -> SUBSET Account] /\ \A r \in Report : envelopes[r] = {}
    BY <2>2
  <2>4. epoch \in 0..MaxEpoch
    BY <2>1
  <2>6. pending \in BOOLEAN
    BY <2>1, Zenon
  <2>5. managers \subseteq active /\ active \subseteq load.members
    BY <2>1
  <2> QED BY <2>3, <2>4, <2>5, <2>6
<1>4. /\ key \in [Account -> Nat] /\ read \in [Account -> Nat]
      /\ \A a \in Account : key[a] <= epoch /\ read[a] <= epoch
      /\ mine \in [Account -> [Pin -> Ticket \cup {None}]] /\ news \in [Account -> BOOLEAN]
  BY DEF Init
<1>5. DOMAIN shown = Account /\ \A a \in Account : DOMAIN shown[a] \subseteq Pin
  BY <1>2 DEF Init
<1> QED
  BY <1>1, <1>2, <1>3, <1>4, <1>5 DEF Init, Rows, Shape, CallsFit

-----------------------------------------------------------------------------
(* How the calls change. *)

(* A step that adds nobody's call, or one that fits. *)
Goes(s, step, arg) ==
  /\ call'[s].op = call[s].op /\ call'[s].by = call[s].by /\ call'[s].on = call[s].on
  /\ call'[s].step = step /\ call'[s].arg = arg

LEMMA GoesOn ==
  ASSUME Shape, NEW s \in Slot, call[s] # None, NEW step \in Steps,
         NEW arg \in Body \cup Rotation \cup Answer \cup Ticket \cup SUBSET Account,
         To(s, step, arg)
  PROVE  /\ DOMAIN call' = Slot /\ Goes(s, step, arg) /\ call'[s] \in Call /\ call'[s] # None
         /\ \A t \in Slot \ {s} : call'[t] = call[t]
<1>1. call[s] \in Call /\ DOMAIN call = Slot
  BY DEF Shape, CallsFit
<1>2. call' = [call EXCEPT ![s] = [call[s] EXCEPT !.step = step, !.arg = arg]]
  BY DEF To
<1>3. call'[s] = [call[s] EXCEPT !.step = step, !.arg = arg]
  BY <1>1, <1>2
<1>4. Goes(s, step, arg) /\ call'[s] \in Call
  BY <1>1, <1>3 DEF Goes, Call
<1> QED
  BY <1>1, <1>2, <1>4, Constants

LEMMA Ends ==
  ASSUME Shape, NEW s \in Slot, Done(s)
  PROVE  /\ DOMAIN call' = Slot /\ call'[s] = None
         /\ \A t \in Slot \ {s} : call'[t] = call[t]
BY DEF Done, Shape

LEMMA Begins ==
  ASSUME Shape, NEW s \in Slot, NEW op \in Ops, NEW a \in Account, NEW step \in Steps,
         NEW on \in Pin \cup Report \cup {None},
         NEW arg \in Body \cup Rotation \cup Answer \cup Ticket \cup SUBSET Account,
         Start(s, op, a, step, on, arg)
  PROVE  /\ DOMAIN call' = Slot /\ s \in load.slots /\ call[s] = None
         /\ call'[s] \in Call /\ call'[s] # None
         /\ call'[s].op = op /\ call'[s].by = a /\ call'[s].step = step
         /\ call'[s].on = on /\ call'[s].arg = arg
         /\ \A t \in Slot \ {s} : call'[t] = call[t]
<1> DEFINE r == [op |-> op, by |-> a, step |-> step, on |-> on, arg |-> arg]
<1>1. r \in Call
  BY DEF Call
<1>2. call' = [call EXCEPT ![s] = r] /\ s \in load.slots /\ call[s] = None /\ DOMAIN call = Slot
  BY DEF Start, Shape
<1>3. call'[s] = r
  BY <1>2
<1> QED
  BY <1>1, <1>2, <1>3, Constants

(* Epochs and keys only grow, and no report is forgotten: what fits stays so. *)
Grows ==
  /\ load' = load /\ epoch <= epoch'
  /\ \A a \in Account : key[a] <= key'[a]
  /\ \A r \in Report : reports[r] # None => reports'[r] # None

LEMMA KeepsShape ==
  ASSUME Shape, Rows', Grows, NEW s \in Slot, DOMAIN call' = Slot,
         \A t \in Slot \ {s} : call'[t] = call[t],
         call'[s] \in {None, call[s]} \/ (s \in load.slots /\ call'[s] \in Call /\ Fits(call[s])')
  PROVE  Shape'
<1>1. ASSUME NEW t \in Slot, call'[t] # None, call'[t] = call[t]
      PROVE  t \in load'.slots /\ call'[t] \in Call /\ Fits(call[t])'
  <2>1. call[t] \in Call /\ Fits(call[t]) /\ t \in load.slots
    BY <1>1 DEF Shape, CallsFit
  <2>2. call[t].by \in Account /\ epoch \in Nat /\ epoch' \in Nat
        /\ (\A a \in Account : key[a] \in Nat /\ key'[a] \in Nat) /\ MaxEpoch \in Nat
    BY <2>1, Constants DEF Call, Rows, Shape
  <2>3. call[t].op = "pin" => call[t].arg.sealed \in Nat /\ call[t].arg.label \in Nat
    BY <2>1 DEF Fits, Body
  <2>4. call[t].op = "rotate" => call[t].arg.from \in Nat
    BY <2>1 DEF Fits, Rotation
  <2>5. call[t].op = "list" => call[t].arg.under \in Nat
    BY <2>1 DEF Fits, Answer
  <2> QED BY <1>1, <2>1, <2>2, <2>3, <2>4, <2>5 DEF Fits, Grows
<1>2. CallsFit'
  BY <1>1 DEF CallsFit, Grows
<1> QED
  BY <1>2 DEF Shape
-----------------------------------------------------------------------------
(* The shape is kept by every step. *)

LEMMA Emits ==
  ASSUME Shape, Emit
  PROVE  /\ news' \in [Account -> BOOLEAN]
         /\ \A a \in Account : news'[a] = (news[a] \/ a \in active)
BY DEF Emit, Shape, Rows

(* The steps that end a call, or none, and touch few of the rows.             *)
LEMMA ShapeAlone ==
  ASSUME Shape,
         \E a \in Account :
           \/ Leave(a) \/ Moderator(a) \/ FetchKey(a)
           \/ \E p \in Pin : Approve(a, p) \/ Unpin(a, p)
           \/ \E r \in Report, how \in {"resolved", "dismissed"} : Resolve(a, r, how)
  PROVE  Shape'
<1> USE DEF Shape
<1>0. Rows /\ MaxEpoch \in Nat /\ DOMAIN call = Slot
  BY Constants
<1>1. ASSUME Rows', Grows, call' = call PROVE Shape'
  <2>1. CASE Slot = {}
    BY <1>1, <2>1 DEF CallsFit
  <2>2. ASSUME NEW s \in Slot PROVE Shape'
    BY <1>1, <2>2, KeepsShape
  <2> QED BY <2>1, <2>2
<1>2. ASSUME NEW a \in Account, Leave(a) \/ Moderator(a) PROVE Shape'
  <2>1. /\ UNCHANGED <<epoch, pins, tickets, reports, envelopes, key, shown, mine, news, call, read, load>>
        /\ pending' \in BOOLEAN /\ managers' \subseteq active' /\ active' \subseteq active
    BY <1>0, <1>2 DEF Leave, Moderator, Rows
  <2>2. Rows' /\ Grows
    BY <1>0, <2>1 DEF Rows, Grows, Stored
  <2> QED BY <1>1, <2>1, <2>2
<1>3. ASSUME NEW a \in Account, FetchKey(a) PROVE Shape'
  <2>1. /\ UNCHANGED <<serverVars, shown, mine, news, call, read, load>>
        /\ key' = [key EXCEPT ![a] = epoch] /\ key[a] < epoch
    BY <1>3 DEF FetchKey
  <2>2. key' \in [Account -> Nat] /\ \A x \in Account : key'[x] <= epoch /\ key[x] <= key'[x]
    BY <1>0, <2>1 DEF Rows
  <2>3. Rows' /\ Grows
    BY <1>0, <2>1, <2>2 DEF Rows, Grows, Stored
  <2> QED BY <1>1, <2>1, <2>3
<1>4. ASSUME NEW a \in Account, NEW p \in Pin, Approve(a, p) PROVE Shape'
  <2>1. /\ UNCHANGED <<epoch, pending, active, managers, tickets, reports, envelopes,
                       key, shown, mine, call, read, load>>
        /\ p \in Stored /\ Emit /\ pins' = [pins EXCEPT ![p].approved = TRUE]
    BY <1>4 DEF Approve
  <2>2. pins[p] \in Row
    BY <1>0, <2>1 DEF Rows, Stored
  <2>3. [pins[p] EXCEPT !.approved = TRUE] \in Row
    BY <2>2 DEF Row
  <2>4. pins' = [pins EXCEPT ![p] = [pins[p] EXCEPT !.approved = TRUE]]
    BY <2>1
  <2>5. pins' \in [Pin -> Row \cup {None}] /\ Stored' = Stored
    <3> DEFINE row == [pins[p] EXCEPT !.approved = TRUE]
    <3>1. row \in Row /\ row # None /\ pins' = [pins EXCEPT ![p] = row] /\ pins[p] # None
      BY <2>1, <2>3, <2>4, Constants DEF Stored
    <3> HIDE DEF row
    <3>2. pins \in [Pin -> Row \cup {None}]
      BY <1>0 DEF Rows
    <3> QED BY <3>1, <3>2 DEF Stored
  <2>6. Rows' /\ Grows
    BY <1>0, <2>1, <2>5, Emits DEF Rows, Grows
  <2> QED BY <1>1, <2>1, <2>6
<1>5. ASSUME NEW a \in Account, NEW p \in Pin, Unpin(a, p) PROVE Shape'
  <2>1. /\ UNCHANGED <<epoch, pending, active, managers, reports, envelopes,
                       key, shown, mine, call, read, load>>
        /\ Emit /\ pins' = [pins EXCEPT ![p] = None] /\ tickets' = [tickets EXCEPT ![p] = {}]
    BY <1>5 DEF Unpin, TicketsGo
  <2>2. /\ pins' \in [Pin -> Row \cup {None}] /\ Stored' = Stored \ {p}
        /\ tickets' \in [Pin -> SUBSET Ticket]
        /\ \A q \in Pin : tickets'[q] # {} => q \in Stored'
    BY <1>0, <2>1 DEF Rows, Stored
  <2>3. Rows' /\ Grows
    BY <1>0, <2>1, <2>2, Emits DEF Rows, Grows
  <2> QED BY <1>1, <2>1, <2>3
<1>6. ASSUME NEW a \in Account, NEW r \in Report, NEW how \in {"resolved", "dismissed"},
             Resolve(a, r, how)
      PROVE  Shape'
  <2>1. /\ UNCHANGED <<epoch, pending, active, managers, pins, tickets, envelopes,
                       deviceVars, call, historyVars, load>>
        /\ reports' = [reports EXCEPT ![r] = how]
    BY <1>6 DEF Resolve
  <2>2. /\ reports' \in [Report -> Statuses \cup {None}] /\ how # None
        /\ \A q \in Report : reports[q] # None => reports'[q] # None
    BY <1>0, <2>1, Constants DEF Rows, Statuses
  <2>3. Rows' /\ Grows
    BY <1>0, <2>1, <2>2 DEF Rows, Grows, Stored
  <2> QED BY <1>1, <2>1, <2>3
<1> QED
  BY <1>2, <1>3, <1>4, <1>5, <1>6

(* A rotation seals stored pins anew and leaves the rest of each row alone. *)
LEMMA ResealedPins ==
  ASSUME pins \in [Pin -> Row \cup {None}], NEW S \in SUBSET Pin, NEW e \in Nat
  PROVE  /\ Resealed(S, e) \in [Pin -> Row \cup {None}]
         /\ \A p \in Pin : (Resealed(S, e)[p] # None) = (pins[p] # None)
         /\ \A p \in Pin \ S : Resealed(S, e)[p] = pins[p]
         /\ \A p \in Pin : p \in S /\ pins[p] # None =>
              /\ Resealed(S, e)[p].sealed = e /\ Resealed(S, e)[p].label = e
              /\ Resealed(S, e)[p].late = pins[p].late
              /\ Resealed(S, e)[p].between = pins[p].between
<1>1. ASSUME NEW p \in Pin, p \in S, pins[p] # None
      PROVE  /\ Resealed(S, e)[p] \in Row
             /\ Resealed(S, e)[p].sealed = e /\ Resealed(S, e)[p].label = e
             /\ Resealed(S, e)[p].late = pins[p].late
             /\ Resealed(S, e)[p].between = pins[p].between
  <2>1. pins[p] \in Row
    BY <1>1
  <2>2. Resealed(S, e)[p] = [pins[p] EXCEPT !.sealed = e, !.label = e]
    BY <1>1 DEF Resealed, Stored
  <2> QED BY <2>1, <2>2 DEF Row
<1>2. \A p \in Pin : ~(p \in S /\ pins[p] # None) => Resealed(S, e)[p] = pins[p]
  BY DEF Resealed, Stored
<1>3. Resealed(S, e) = [p \in Pin |-> Resealed(S, e)[p]]
  BY DEF Resealed
<1>4. \A p \in Pin : Resealed(S, e)[p] \in Row \cup {None}
  BY <1>1, <1>2
<1> QED
  BY <1>1, <1>2, <1>3, <1>4, Constants

LEMMA ShapeBegins ==
  ASSUME Shape, NEW s \in Slot, NEW a \in Account,
         \/ \E p \in Pin : PinSeal(s, a, p) \/ Withdraw(s, a, p) \/ Go(s, a, p)
         \/ ReportRead(s, a) \/ RotateRead(s, a) \/ ListRead(s, a)
  PROVE  Shape'
<1>0. Rows /\ MaxEpoch \in Nat /\ DOMAIN call = Slot /\ CallsFit
  BY Constants DEF Shape
<1>1. ASSUME UNCHANGED <<serverVars, deviceVars, read, load>> PROVE Rows' /\ Grows
  BY <1>0, <1>1 DEF Rows, Grows, Stored
<1>2. ASSUME NEW p \in Pin, PinSeal(s, a, p) PROVE Shape'
  <2> DEFINE b == [sealed |-> key[a], label |-> key[a]]
  <2>1. b \in Body /\ b.sealed = key[a] /\ b.label = key[a] /\ key[a] \in Nat
    BY <1>0 DEF Rows, Body
  <2>2. Start(s, "pin", a, "label", p, b) /\ UNCHANGED <<serverVars, deviceVars, read, load>>
    BY <1>2 DEF PinSeal
  <2> HIDE DEF b
  <2>3. /\ DOMAIN call' = Slot /\ \A t \in Slot \ {s} : call'[t] = call[t]
        /\ s \in load.slots /\ call'[s] \in Call
        /\ call'[s].op = "pin" /\ call'[s].by = a /\ call'[s].on = p /\ call'[s].arg = b
    BY <2>1, <2>2, Begins DEF Ops, Steps
  <2>4. Fits(call[s])'
    BY <2>1, <2>2, <2>3 DEF Fits
  <2> QED BY <1>1, <2>2, <2>3, <2>4, KeepsShape
<1>3. ASSUME NEW p \in Pin, Go(s, a, p) PROVE Shape'
  <2>1. PICK t \in Ticket : /\ Start(s, "go", a, "count", p, t)
                            /\ UNCHANGED <<serverVars, deviceVars, read, load>>
    <3>1. Drawn(Ticket) \in Ticket
      BY <1>3 DEF Go, Drawn
    <3> QED BY <1>3, <3>1 DEF Go
  <2>2. /\ DOMAIN call' = Slot /\ \A u \in Slot \ {s} : call'[u] = call[u]
        /\ s \in load.slots /\ call'[s] \in Call
        /\ call'[s].op = "go" /\ call'[s].on = p /\ call'[s].arg = t
    BY <2>1, Begins DEF Ops, Steps
  <2>3. Fits(call[s])'
    BY <2>2 DEF Fits
  <2> QED BY <1>1, <2>1, <2>2, <2>3, KeepsShape
<1>4. ASSUME NEW p \in Pin, Withdraw(s, a, p) PROVE Shape'
  <2>1. PICK t \in Ticket : /\ Start(s, "withdraw", a, "delete", p, t)
                            /\ UNCHANGED <<serverVars, deviceVars, read, load>>
    BY <1>0, <1>4 DEF Withdraw, Rows
  <2>2. /\ DOMAIN call' = Slot /\ \A u \in Slot \ {s} : call'[u] = call[u]
        /\ s \in load.slots /\ call'[s] \in Call
        /\ call'[s].op = "withdraw" /\ call'[s].on = p /\ call'[s].arg = t
    BY <2>1, Begins DEF Ops, Steps
  <2>3. Fits(call[s])'
    BY <2>2 DEF Fits
  <2> QED BY <1>1, <2>1, <2>2, <2>3, KeepsShape
<1>5. ASSUME ReportRead(s, a) PROVE Shape'
  <2>1. PICK r \in Report : /\ Start(s, "report", a, "row", r, managers)
                            /\ UNCHANGED <<serverVars, deviceVars, read, load>>
    <3>1. Drawn(Report) \in Report
      BY <1>5 DEF ReportRead, Drawn
    <3> QED BY <1>5, <3>1 DEF ReportRead, Recipients
  <2>2. managers \in SUBSET Account
    BY <1>0, Constants DEF Rows
  <2>3. /\ DOMAIN call' = Slot /\ \A u \in Slot \ {s} : call'[u] = call[u]
        /\ s \in load.slots /\ call'[s] \in Call /\ call'[s].step = "row"
        /\ call'[s].op = "report" /\ call'[s].on = r /\ call'[s].arg = managers
    BY <2>1, <2>2, Begins DEF Ops, Steps
  <2>4. Fits(call[s])'
    BY <2>2, <2>3 DEF Fits
  <2> QED BY <1>1, <2>1, <2>3, <2>4, KeepsShape
<1>6. ASSUME RotateRead(s, a) PROVE Shape'
  <2> DEFINE b == [from |-> epoch, resealed |-> {}]
  <2>1. /\ Start(s, "rotate", a, "list", None, b) /\ epoch < MaxEpoch
        /\ UNCHANGED <<serverVars, deviceVars, read, load>>
    BY <1>6 DEF RotateRead
  <2>2. b \in Rotation /\ b.from = epoch /\ epoch \in Nat
        /\ b \in Body \cup Rotation \cup Answer \cup Ticket \cup SUBSET Account
    BY <1>0 DEF Rotation, Rows
  <2> HIDE DEF b
  <2>0. "rotate" \in Ops /\ "list" \in Steps /\ None \in Pin \cup Report \cup {None}
    BY DEF Ops, Steps
  <2>3. /\ DOMAIN call' = Slot /\ \A u \in Slot \ {s} : call'[u] = call[u]
        /\ s \in load.slots /\ call'[s] \in Call /\ call'[s].step = "list"
        /\ call'[s].op = "rotate" /\ call'[s].arg = b
    BY <2>0, <2>1, <2>2, Begins
  <2>4. Fits(call[s])'
    BY <2>1, <2>2, <2>3 DEF Fits
  <2> QED BY <1>1, <2>1, <2>3, <2>4, KeepsShape
<1>7. ASSUME ListRead(s, a) PROVE Shape'
  <2> DEFINE b == [pins |-> pins, under |-> epoch]
  <2>1. /\ Start(s, "list", a, "show", None, b) /\ news' = [news EXCEPT ![a] = FALSE]
        /\ UNCHANGED <<serverVars, key, shown, mine, historyVars, load>>
    BY <1>7 DEF ListRead
  <2>2. b \in Answer /\ b.under = epoch /\ epoch \in Nat
        /\ b \in Body \cup Rotation \cup Answer \cup Ticket \cup SUBSET Account
    BY <1>0 DEF Answer, Rows
  <2> HIDE DEF b
  <2>0. "list" \in Ops /\ "show" \in Steps /\ None \in Pin \cup Report \cup {None}
    BY DEF Ops, Steps
  <2>3. /\ DOMAIN call' = Slot /\ \A u \in Slot \ {s} : call'[u] = call[u]
        /\ s \in load.slots /\ call'[s] \in Call
        /\ call'[s].op = "list" /\ call'[s].arg = b
    BY <2>0, <2>1, <2>2, Begins
  <2>4. Fits(call[s])'
    BY <2>1, <2>2, <2>3 DEF Fits
  <2>5. Rows' /\ Grows
    BY <1>0, <2>1 DEF Rows, Grows, Stored
  <2> QED BY <2>1, <2>3, <2>4, <2>5, KeepsShape
<1> QED
  BY <1>2, <1>3, <1>4, <1>5, <1>6, <1>7

LEMMA Running ==
  ASSUME Shape, NEW s \in Slot, call[s] # None
  PROVE  call[s] \in Call /\ Fits(call[s]) /\ s \in load.slots /\ call[s].by \in Account
BY DEF Shape, CallsFit, Call

LEMMA ShapeEnds ==
  ASSUME Shape, Rows', Grows, NEW s \in Slot, Done(s)
  PROVE  Shape'
BY Ends, KeepsShape

(* The steps of a pin's, a rotation's and a listing's call. *)
LEMMA ShapePins ==
  ASSUME Shape, NEW s \in Slot,
         \/ PinLabel(s) \/ PinPost(s)
         \/ RotateList(s) \/ RotateCommit(s) \/ RotateAdopt(s) \/ ListShow(s)
  PROVE  Shape'
<1>0. Rows /\ MaxEpoch \in Nat /\ call[s] # None
  BY Constants DEF Shape, PinLabel, PinPost, RotateList, RotateCommit, RotateAdopt, ListShow, At
<1>1. call[s] \in Call /\ Fits(call[s]) /\ s \in load.slots /\ call[s].by \in Account
  BY <1>0, Running
<1>2. epoch \in Nat /\ (\A a \in Account : key[a] \in Nat /\ key[a] <= epoch)
  BY <1>0 DEF Rows
<1>3. CASE PinLabel(s)
  <2> DEFINE b == [call[s].arg EXCEPT !.label = key[call[s].by]]
  <2>1. call[s].op = "pin" /\ To(s, "post", b)
        /\ UNCHANGED <<serverVars, deviceVars, historyVars, load>>
    BY <1>3 DEF PinLabel, At
  <2>2. b \in Body /\ b.sealed <= b.label /\ b.label = key[call[s].by]
    BY <1>1, <1>2, <2>1 DEF Fits, Body
  <2>3. b \in Body \cup Rotation \cup Answer \cup Ticket \cup SUBSET Account /\ "post" \in Steps
    BY <2>2 DEF Steps
  <2> HIDE DEF b
  <2>4. /\ DOMAIN call' = Slot /\ Goes(s, "post", b) /\ call'[s] \in Call
        /\ \A t \in Slot \ {s} : call'[t] = call[t]
    BY <1>0, <2>1, <2>3, GoesOn
  <2>5. Fits(call[s])'
    BY <1>1, <1>2, <2>1, <2>2, <2>4 DEF Fits, Goes
  <2>6. Rows' /\ Grows
    BY <1>0, <1>2, <2>1 DEF Rows, Grows, Stored
  <2> QED BY <1>1, <2>4, <2>5, <2>6, KeepsShape
<1>4. CASE PinPost(s)
  <2>1. /\ call[s].op = "pin" /\ Done(s)
        /\ UNCHANGED <<epoch, pending, active, managers, tickets, reports, envelopes,
                       key, shown, mine, historyVars, load>>
    BY <1>4 DEF PinPost, At
  <2>2. /\ pins' \in [Pin -> Row \cup {None}] /\ \A p \in Stored : pins'[p] # None
        /\ news' \in [Account -> BOOLEAN]
    <3>1. CASE UNCHANGED <<pins, news>>
      BY <1>0, <3>1 DEF Rows, Stored
    <3>2. ASSUME ~UNCHANGED <<pins, news>>
          PROVE  Emit /\ \E r \in Row : pins' = [pins EXCEPT ![call[s].on] = r]
      <4>1. /\ Emit
            /\ pins' = [pins EXCEPT ![call[s].on] =
                 [by |-> call[s].by, sealed |-> call[s].arg.sealed, label |-> call[s].arg.label,
                  approved |-> FALSE, late |-> call[s].arg.sealed < epoch,
                  between |-> BeingResealed]]
        BY <1>4, <3>2 DEF PinPost
      <4>2. BeingResealed \in BOOLEAN /\ (call[s].arg.sealed < epoch) \in BOOLEAN
        BY DEF BeingResealed
      <4>3. call[s].arg.sealed \in Nat /\ call[s].arg.label \in Nat
        BY <1>1, <2>1 DEF Fits, Body
      <4>4. [by |-> call[s].by, sealed |-> call[s].arg.sealed, label |-> call[s].arg.label,
             approved |-> FALSE, late |-> call[s].arg.sealed < epoch,
             between |-> BeingResealed] \in Row
        BY <1>1, <4>2, <4>3 DEF Row
      <4> QED BY <4>1, <4>4
    <3>3. pins \in [Pin -> Row \cup {None}]
      BY <1>0 DEF Rows
    <3> QED BY <3>1, <3>2, <3>3, Emits, Constants DEF Stored
  <2>3. Rows' /\ Grows
    BY <1>0, <1>2, <2>1, <2>2 DEF Rows, Grows, Stored
  <2> QED BY <2>1, <2>3, ShapeEnds
<1>5. CASE RotateList(s)
  <2> DEFINE b == [call[s].arg EXCEPT !.resealed = {p \in Pin : Opens(p, call[s].arg.from)}]
  <2>1. call[s].op = "rotate" /\ To(s, "post", b)
        /\ UNCHANGED <<serverVars, deviceVars, historyVars, load>>
    BY <1>5 DEF RotateList, At
  <2>2. b \in Rotation /\ b.from = call[s].arg.from
    BY <1>1, <1>2, <2>1 DEF Fits, Rotation
  <2>3. b \in Body \cup Rotation \cup Answer \cup Ticket \cup SUBSET Account /\ "post" \in Steps
    BY <2>2 DEF Steps
  <2> HIDE DEF b
  <2>4. /\ DOMAIN call' = Slot /\ Goes(s, "post", b) /\ call'[s] \in Call
        /\ \A t \in Slot \ {s} : call'[t] = call[t]
    BY <1>0, <2>1, <2>3, GoesOn
  <2>5. Fits(call[s])'
    BY <1>1, <1>2, <2>1, <2>2, <2>4 DEF Fits, Goes
  <2>6. Rows' /\ Grows
    BY <1>0, <1>2, <2>1 DEF Rows, Grows, Stored
  <2> QED BY <1>1, <2>4, <2>5, <2>6, KeepsShape
<1>6. CASE RotateCommit(s)
  <2>1. /\ call[s].op = "rotate"
        /\ UNCHANGED <<active, managers, tickets, reports, envelopes, deviceVars, historyVars, load>>
    BY <1>6 DEF RotateCommit, At
  <2>2. CASE call[s].arg.from # epoch
    <3>1. UNCHANGED <<epoch, pending, pins>> /\ Done(s)
      BY <1>6, <2>2 DEF RotateCommit, EpochUnchanged
    <3>2. Rows' /\ Grows
      BY <1>0, <1>2, <2>1, <3>1 DEF Rows, Grows, Stored
    <3> QED BY <3>1, <3>2, ShapeEnds
  <2>3. CASE call[s].arg.from = epoch
    <3>1. /\ epoch' = epoch + 1 /\ pending' = FALSE /\ To(s, "adopt", call[s].arg)
          /\ pins' = Resealed(call[s].arg.resealed, epoch + 1)
      BY <1>6, <2>3 DEF RotateCommit, EpochUnchanged
    <3>2. pins' \in [Pin -> Row \cup {None}] /\ Stored' = Stored
      <4>1. call[s].arg.resealed \in SUBSET Pin /\ epoch + 1 \in Nat
            /\ pins \in [Pin -> Row \cup {None}]
        BY <1>0, <1>1, <1>2, <2>1 DEF Fits, Rotation, Rows
      <4>2. /\ pins' \in [Pin -> Row \cup {None}]
            /\ \A p \in Pin : (pins'[p] # None) = (pins[p] # None)
        BY <3>1, <4>1, ResealedPins
      <4> QED BY <4>2 DEF Stored
    <3>3. epoch + 1 \in 0..MaxEpoch
      BY <1>0, <1>1, <1>2, <2>1, <2>3 DEF Fits
    <3>4. pending' \in BOOLEAN
      BY <3>1, Zenon
    <3>5. \A a \in Account : read[a] \in Nat
      BY <1>0 DEF Rows
    <3>6. Rows' /\ Grows
      BY <1>0, <1>2, <2>1, <3>1, <3>2, <3>3, <3>4, <3>5 DEF Rows, Grows
    <3>7. call[s].arg \in Body \cup Rotation \cup Answer \cup Ticket \cup SUBSET Account
          /\ "adopt" \in Steps /\ call[s].arg.from \in Nat
      BY <1>1, <2>1 DEF Fits, Steps, Rotation
    <3>8. /\ DOMAIN call' = Slot /\ Goes(s, "adopt", call[s].arg) /\ call'[s] \in Call
          /\ \A t \in Slot \ {s} : call'[t] = call[t]
      BY <1>0, <3>1, <3>7, GoesOn
    <3>9. Fits(call[s])'
      BY <1>1, <1>2, <2>1, <2>3, <3>1, <3>7, <3>8 DEF Fits, Goes
    <3> QED BY <1>1, <3>6, <3>8, <3>9, KeepsShape
  <2> QED BY <2>2, <2>3
<1>7. CASE RotateAdopt(s)
  <2> DEFINE k == Newer(call[s].by, call[s].arg.from + 1)
  <2>1. /\ call[s].op = "rotate" /\ call[s].step = "adopt" /\ Done(s)
        /\ key' = [key EXCEPT ![call[s].by] = k]
        /\ UNCHANGED <<serverVars, shown, mine, news, historyVars, load>>
    BY <1>7 DEF RotateAdopt, At
  <2>2. k \in Nat /\ k <= epoch /\ key[call[s].by] <= k
    <3>1. call[s].arg.from \in Nat /\ call[s].arg.from < epoch
      BY <1>1, <2>1 DEF Fits, Rotation
    <3> QED BY <1>1, <1>2, <3>1 DEF Newer
  <2> HIDE DEF k
  <2>3. key' \in [Account -> Nat] /\ \A x \in Account : key'[x] <= epoch /\ key[x] <= key'[x]
    <3>1. key \in [Account -> Nat] /\ key' = [key EXCEPT ![call[s].by] = k]
      BY <1>0, <2>1 DEF Rows
    <3> QED BY <1>1, <1>2, <2>2, <3>1
  <2>4. Rows' /\ Grows
    BY <1>0, <1>2, <2>1, <2>3 DEF Rows, Grows, Stored
  <2> QED BY <2>1, <2>4, ShapeEnds
<1>8. CASE ListShow(s)
  <2> DEFINE got == call[s].arg.pins
             opened == {p \in Pin : got[p] # None /\ got[p].sealed = key[call[s].by]}
             k == IF call[s].arg.under = key[call[s].by] THEN key[call[s].by] ELSE MaxEpoch + 1
  <2>1. /\ Done(s) /\ UNCHANGED <<serverVars, key, mine, news, used, lost, halved, load>>
        /\ shown' = [shown EXCEPT ![call[s].by] =
             [p \in opened |-> [stands |-> Stands(got[p]), mine |-> mine[call[s].by][p] # None]]]
        /\ read' = [read EXCEPT ![call[s].by] = k]
    BY <1>8 DEF ListShow
  <2>2. opened \subseteq Pin /\ k \in Nat /\ (k <= epoch \/ k = MaxEpoch + 1)
    BY <1>0, <1>1, <1>2
  <2> HIDE DEF opened, k
  <2>3. DOMAIN shown' = Account /\ \A a \in Account : DOMAIN shown'[a] \subseteq Pin
    BY <1>0, <1>1, <2>1, <2>2 DEF Rows
  <2>4. read' \in [Account -> Nat] /\ \A a \in Account : read'[a] <= epoch \/ read'[a] = MaxEpoch + 1
    BY <1>0, <1>1, <2>1, <2>2 DEF Rows
  <2>5. Rows' /\ Grows
    BY <1>0, <1>2, <2>1, <2>3, <2>4 DEF Rows, Grows, Stored
  <2> QED BY <2>1, <2>5, ShapeEnds
<1> QED
  BY <1>3, <1>4, <1>5, <1>6, <1>7, <1>8

(* The steps of a ticket's and a report's call. *)
LEMMA ShapeTickets ==
  ASSUME Shape, NEW s \in Slot,
         \/ GoCount(s) \/ GoInsert(s) \/ GoKeep(s) \/ GoLost(s)
         \/ WithdrawDelete(s) \/ WithdrawForget(s) \/ WithdrawLost(s)
  PROVE  Shape'
<1>0. Rows /\ MaxEpoch \in Nat /\ call[s] # None /\ call[s].op \in {"go", "withdraw"}
  BY Constants DEF Shape, GoCount, GoInsert, GoKeep, GoLost,
     WithdrawDelete, WithdrawForget, WithdrawLost, At
<1>1. /\ call[s] \in Call /\ Fits(call[s]) /\ s \in load.slots /\ call[s].by \in Account
      /\ call[s].on \in Pin /\ call[s].arg \in Ticket
  BY <1>0, Running DEF Fits
<1>2. ASSUME Rows', Grows,
             Done(s) \/ \E step \in {"insert", "keep", "forget"} : To(s, step, call[s].arg)
      PROVE  Shape'
  <2>1. ASSUME NEW step \in {"insert", "keep", "forget"}, To(s, step, call[s].arg) PROVE Shape'
    <3>1. /\ DOMAIN call' = Slot /\ Goes(s, step, call[s].arg) /\ call'[s] \in Call
          /\ \A t \in Slot \ {s} : call'[t] = call[t]
      BY <1>0, <1>1, <2>1, GoesOn DEF Steps
    <3>2. Fits(call[s])'
      BY <1>0, <1>1, <3>1 DEF Fits, Goes
    <3> QED BY <1>1, <1>2, <3>1, <3>2, KeepsShape
  <2> QED BY <1>2, <2>1, ShapeEnds
<1>3. CASE GoCount(s)
  <2>1. /\ UNCHANGED <<serverVars, deviceVars, historyVars, load>>
        /\ Done(s) \/ \E step \in {"insert", "keep", "forget"} : To(s, step, call[s].arg)
    BY <1>3 DEF GoCount
  <2>2. Rows' /\ Grows
    BY <1>0, <2>1 DEF Rows, Grows, Stored
  <2> QED BY <1>2, <2>1, <2>2
<1>4. CASE GoInsert(s)
  <2>1. /\ UNCHANGED <<epoch, pending, active, managers, pins, reports, envelopes,
                       key, shown, mine, historyVars, load>>
        /\ Done(s) \/ \E step \in {"insert", "keep", "forget"} : To(s, step, call[s].arg)
        /\ \/ UNCHANGED <<tickets, news>>
           \/ Emit /\ call[s].on \in Stored
              /\ tickets' = [tickets EXCEPT ![call[s].on] = tickets[call[s].on] \cup {call[s].arg}]
    BY <1>4 DEF GoInsert
  <2>2. news' \in [Account -> BOOLEAN]
    BY <1>0, <2>1, Emits DEF Rows
  <2>3. tickets' \in [Pin -> SUBSET Ticket] /\ \A p \in Pin : tickets'[p] # {} => p \in Stored
    <3>1. tickets \in [Pin -> SUBSET Ticket] /\ \A p \in Pin : tickets[p] # {} => p \in Stored
      BY <1>0 DEF Rows
    <3>2. CASE tickets' = tickets
      BY <3>1, <3>2
    <3>3. CASE /\ call[s].on \in Stored
               /\ tickets' = [tickets EXCEPT ![call[s].on] = tickets[call[s].on] \cup {call[s].arg}]
      BY <1>1, <3>1, <3>3
    <3> QED BY <2>1, <3>2, <3>3
  <2>4. Rows' /\ Grows
    BY <1>0, <2>1, <2>2, <2>3 DEF Rows, Grows, Stored
  <2> QED BY <1>2, <2>1, <2>4
<1>5. CASE GoKeep(s) \/ WithdrawForget(s)
  <2>1. PICK t \in Ticket \cup {None} :
          /\ Done(s) /\ mine' = [mine EXCEPT ![call[s].by][call[s].on] = t]
          /\ UNCHANGED <<serverVars, key, shown, news, historyVars, load>>
    BY <1>1, <1>5 DEF GoKeep, WithdrawForget
  <2>2. mine' \in [Account -> [Pin -> Ticket \cup {None}]]
    BY <1>0, <1>1, <2>1 DEF Rows
  <2>3. Rows' /\ Grows
    BY <1>0, <2>1, <2>2 DEF Rows, Grows, Stored
  <2> QED BY <2>1, <2>3, ShapeEnds
<1>6. CASE GoLost(s) \/ WithdrawLost(s)
  <2>1. Done(s) /\ UNCHANGED <<serverVars, deviceVars, used, read, halved, load>>
    BY <1>6 DEF GoLost, WithdrawLost
  <2>2. Rows' /\ Grows
    BY <1>0, <2>1 DEF Rows, Grows, Stored
  <2> QED BY <2>1, <2>2, ShapeEnds
<1>7. CASE WithdrawDelete(s)
  <2>1. /\ UNCHANGED <<epoch, pending, active, managers, pins, reports, envelopes,
                       key, shown, mine, historyVars, load>>
        /\ Done(s) \/ \E step \in {"insert", "keep", "forget"} : To(s, step, call[s].arg)
        /\ \/ UNCHANGED <<tickets, news>>
           \/ Emit
              /\ tickets' = [tickets EXCEPT ![call[s].on] = tickets[call[s].on] \ {call[s].arg}]
    BY <1>7 DEF WithdrawDelete
  <2>2. news' \in [Account -> BOOLEAN]
    BY <1>0, <2>1, Emits DEF Rows
  <2>3. tickets' \in [Pin -> SUBSET Ticket] /\ \A p \in Pin : tickets'[p] # {} => p \in Stored
    <3>1. tickets \in [Pin -> SUBSET Ticket] /\ \A p \in Pin : tickets[p] # {} => p \in Stored
      BY <1>0 DEF Rows
    <3>2. CASE tickets' = tickets
      BY <3>1, <3>2
    <3>3. CASE tickets' = [tickets EXCEPT ![call[s].on] = tickets[call[s].on] \ {call[s].arg}]
      BY <1>1, <3>1, <3>3
    <3> QED BY <2>1, <3>2, <3>3
  <2>4. Rows' /\ Grows
    BY <1>0, <2>1, <2>2, <2>3 DEF Rows, Grows, Stored
  <2> QED BY <1>2, <2>1, <2>4
<1> QED
  BY <1>3, <1>4, <1>5, <1>6, <1>7

LEMMA ShapeReports ==
  ASSUME Shape, NEW s \in Slot, ReportRow(s) \/ ReportSeal(s) \/ ReportHalved(s)
  PROVE  Shape'
<1>0. Rows /\ call[s] # None /\ call[s].op = "report"
  BY DEF Shape, ReportRow, ReportSeal, ReportHalved, At
<1>1. /\ call[s] \in Call /\ Fits(call[s]) /\ s \in load.slots
      /\ call[s].on \in Report /\ call[s].arg \in SUBSET Account
      /\ call[s].step = "seal" => reports[call[s].on] # None
  BY <1>0, Running DEF Fits
<1>2. CASE ReportRow(s) /\ call[s].by \in active
  <2>1. /\ UNCHANGED <<epoch, pending, active, managers, pins, tickets, envelopes,
                       deviceVars, historyVars, load>>
        /\ reports' = [reports EXCEPT ![call[s].on] = "pending"] /\ To(s, "seal", call[s].arg)
    BY <1>2 DEF ReportRow
  <2>2. /\ reports' \in [Report -> Statuses \cup {None}] /\ reports'[call[s].on] # None
        /\ \A r \in Report : reports[r] # None => reports'[r] # None
    BY <1>0, <1>1, <2>1, Constants DEF Rows, Statuses
  <2>3. Rows' /\ Grows
    BY <1>0, <2>1, <2>2 DEF Rows, Grows, Stored
  <2>4. /\ DOMAIN call' = Slot /\ Goes(s, "seal", call[s].arg) /\ call'[s] \in Call
        /\ \A t \in Slot \ {s} : call'[t] = call[t]
    BY <1>0, <1>1, <2>1, GoesOn DEF Steps
  <2>5. Fits(call[s])'
    BY <1>0, <1>1, <2>2, <2>4 DEF Fits, Goes
  <2> QED BY <1>1, <2>3, <2>4, <2>5, KeepsShape
<1>3. CASE ReportRow(s) /\ call[s].by \notin active
  <2>1. Done(s) /\ UNCHANGED <<serverVars, deviceVars, historyVars, load>>
    BY <1>3 DEF ReportRow
  <2>2. Rows' /\ Grows
    BY <1>0, <2>1 DEF Rows, Grows, Stored
  <2> QED BY <2>1, <2>2, ShapeEnds
<1>4. CASE ReportSeal(s)
  <2>1. /\ UNCHANGED <<epoch, pending, active, managers, pins, tickets, reports,
                       deviceVars, historyVars, load>>
        /\ Done(s) /\ envelopes' = [envelopes EXCEPT ![call[s].on] = call[s].arg]
        /\ call[s].step = "seal"
    BY <1>4 DEF ReportSeal, SealedTo, At
  <2>2. /\ envelopes' \in [Report -> SUBSET Account]
        /\ \A r \in Report : envelopes'[r] # {} => reports[r] # None
    BY <1>0, <1>1, <2>1 DEF Rows
  <2>3. Rows' /\ Grows
    BY <1>0, <2>1, <2>2 DEF Rows, Grows, Stored
  <2> QED BY <2>1, <2>3, ShapeEnds
<1>5. CASE ReportHalved(s)
  <2>1. Done(s) /\ UNCHANGED <<serverVars, deviceVars, used, read, lost, load>>
    BY <1>5 DEF ReportHalved
  <2>2. Rows' /\ Grows
    BY <1>0, <2>1 DEF Rows, Grows, Stored
  <2> QED BY <2>1, <2>2, ShapeEnds
<1> QED
  BY <1>2, <1>3, <1>4, <1>5

LEMMA ShapeStep == Shape /\ [Next]_vars => Shape'
<1> SUFFICES ASSUME Shape, [Next]_vars PROVE Shape'
  OBVIOUS
<1>1. CASE UNCHANGED vars
  BY <1>1 DEF Shape, Rows, CallsFit, Fits, Stored
<1>2. CASE Next
  BY <1>2, ShapeAlone, ShapeBegins, ShapePins, ShapeTickets, ShapeReports DEF Next
<1> QED
  BY <1>1, <1>2

-----------------------------------------------------------------------------
(* Which calls a step moves, and what it leaves alone. *)

Moves(s, ops) ==
  \A t \in Slot : call'[t] # call[t] =>
    /\ t = s
    /\ call[t] = None \/ call[t].op \in ops
    /\ call'[t] = None \/ call'[t].op \in ops

LEMMA StartMoves ==
  ASSUME Shape, NEW s \in Slot, NEW op, NEW a, NEW step, NEW on, NEW arg,
         Start(s, op, a, step, on, arg)
  PROVE  Moves(s, {op})
BY DEF Start, Shape, Moves

LEMMA ToMoves ==
  ASSUME Shape, NEW s \in Slot, call[s] # None, NEW step, NEW arg, To(s, step, arg)
  PROVE  Moves(s, {call[s].op})
<1>1. call[s] \in Call /\ DOMAIN call = Slot
  BY Running DEF Shape
<1>2. call' = [call EXCEPT ![s] = [call[s] EXCEPT !.step = step, !.arg = arg]]
  BY DEF To
<1>3. call'[s].op = call[s].op
  BY <1>1, <1>2 DEF Call
<1> QED
  BY <1>1, <1>2, <1>3 DEF Moves

LEMMA DoneMoves ==
  ASSUME Shape, NEW s \in Slot, call[s] # None, Done(s)
  PROVE  Moves(s, {call[s].op})
BY DEF Done, Shape, Moves

(* A step leaves the calls of the other kinds as they are. *)
LEMMA Apart ==
  ASSUME NEW s, NEW ops, Moves(s, ops), NEW t \in Slot, NEW op, op \notin ops,
         (call[t] # None /\ call[t].op = op) \/ (call'[t] # None /\ call'[t].op = op)
  PROVE  call'[t] = call[t]
BY DEF Moves

TicketStep(s) ==
  \/ \E a \in Account, p \in Pin : Withdraw(s, a, p) \/ Go(s, a, p)
  \/ GoCount(s) \/ GoInsert(s) \/ GoKeep(s) \/ GoLost(s)
  \/ WithdrawDelete(s) \/ WithdrawForget(s) \/ WithdrawLost(s)

ReportStep(s) ==
  \/ \E a \in Account : ReportRead(s, a)
  \/ ReportRow(s) \/ ReportSeal(s) \/ ReportHalved(s)

PinStep(s) == PinLabel(s) \/ \E a \in Account, p \in Pin : PinSeal(s, a, p)

RotateStep(s) == RotateList(s) \/ RotateAdopt(s) \/ \E a \in Account : RotateRead(s, a)

MemberStep ==
  \E a \in Account :
    \/ Leave(a) \/ Moderator(a) \/ FetchKey(a)
    \/ \E r \in Report, how \in {"resolved", "dismissed"} : Resolve(a, r, how)

PinGone == \E a \in Account, p \in Pin : Approve(a, p) \/ Unpin(a, p)

LEMMA Kinds ==
  Next => \/ MemberStep \/ PinGone
          \/ \E s \in Slot :
               \/ TicketStep(s) \/ ReportStep(s) \/ PinStep(s) \/ PinPost(s)
               \/ RotateStep(s) \/ RotateCommit(s)
               \/ ListShow(s) \/ \E a \in Account : ListRead(s, a)
BY DEF Next, TicketStep, ReportStep, PinStep, RotateStep, MemberStep, PinGone

LEMMA TicketStepKeeps ==
  ASSUME Shape, NEW s \in Slot, TicketStep(s)
  PROVE  /\ Moves(s, {"go", "withdraw"})
         /\ UNCHANGED <<epoch, pending, active, managers, pins, reports, envelopes,
                        key, shown, read, halved, load>>
         /\ \A a \in Account : news[a] => news'[a]
<1>1. CASE \E a \in Account, p \in Pin : Withdraw(s, a, p) \/ Go(s, a, p)
  BY <1>1, StartMoves DEF Withdraw, Go, Moves
<1>2. ASSUME GoCount(s) \/ GoInsert(s) \/ GoKeep(s) \/ GoLost(s)
             \/ WithdrawDelete(s) \/ WithdrawForget(s) \/ WithdrawLost(s)
      PROVE  /\ call[s] # None /\ call[s].op \in {"go", "withdraw"}
             /\ Done(s) \/ \E step \in Steps : To(s, step, call[s].arg)
             /\ UNCHANGED <<epoch, pending, active, managers, pins, reports, envelopes,
                            key, shown, read, halved, load>>
             /\ news' = news \/ Emit
  <2>1. CASE GoCount(s) \/ GoInsert(s) \/ GoKeep(s) \/ GoLost(s)
    BY <2>1 DEF GoCount, GoInsert, GoKeep, GoLost, At, Steps
  <2>2. CASE WithdrawDelete(s) \/ WithdrawForget(s) \/ WithdrawLost(s)
    BY <2>2 DEF WithdrawDelete, WithdrawForget, WithdrawLost, At, Steps
  <2> QED BY <1>2, <2>1, <2>2
<1>3. ASSUME call[s] # None, call[s].op \in {"go", "withdraw"},
             Done(s) \/ \E step \in Steps : To(s, step, call[s].arg)
      PROVE  Moves(s, {"go", "withdraw"})
  <2>1. Moves(s, {call[s].op})
    BY <1>3, ToMoves, DoneMoves
  <2> QED BY <1>3, <2>1 DEF Moves
<1> QED
  BY <1>1, <1>2, <1>3, Emits DEF TicketStep

LEMMA ReportStepKeeps ==
  ASSUME Shape, NEW s \in Slot, ReportStep(s)
  PROVE  /\ Moves(s, {"report"})
         /\ UNCHANGED <<epoch, pending, active, managers, pins, tickets,
                        deviceVars, read, lost, load>>
<1>1. CASE \E a \in Account : ReportRead(s, a)
  BY <1>1, StartMoves DEF ReportRead
<1>2. ASSUME ReportRow(s) \/ ReportSeal(s) \/ ReportHalved(s)
      PROVE  /\ call[s] # None /\ call[s].op = "report"
             /\ Done(s) \/ \E step \in Steps : To(s, step, call[s].arg)
             /\ UNCHANGED <<epoch, pending, active, managers, pins, tickets,
                            deviceVars, read, lost, load>>
  BY <1>2 DEF ReportRow, ReportSeal, ReportHalved, At, Steps
<1> QED
  BY <1>1, <1>2, ToMoves, DoneMoves DEF ReportStep

LEMMA PinStepKeeps ==
  ASSUME Shape, NEW s \in Slot, PinStep(s)
  PROVE  /\ Moves(s, {"pin"})
         /\ UNCHANGED <<serverVars, deviceVars, read, lost, halved, load>>
<1>1. CASE \E a \in Account, p \in Pin : PinSeal(s, a, p)
  BY <1>1, StartMoves DEF PinSeal
<1>2. CASE PinLabel(s)
  BY <1>2, ToMoves DEF PinLabel, At
<1> QED
  BY <1>1, <1>2 DEF PinStep

LEMMA PinPostKeeps ==
  ASSUME Shape, NEW s \in Slot, PinPost(s)
  PROVE  /\ Moves(s, {"pin"}) /\ call[s] # None /\ call[s].op = "pin" /\ call'[s] = None
         /\ UNCHANGED <<epoch, pending, active, managers, tickets, reports, envelopes,
                        key, shown, mine, historyVars, load>>
<1>1. call[s] # None /\ call[s].op = "pin" /\ Done(s)
      /\ UNCHANGED <<epoch, pending, active, managers, tickets, reports, envelopes,
                     key, shown, mine, historyVars, load>>
  BY DEF PinPost, At
<1> QED
  BY <1>1, DoneMoves, Ends

LEMMA RotateStepKeeps ==
  ASSUME Shape, NEW s \in Slot, RotateStep(s)
  PROVE  /\ Moves(s, {"rotate"})
         /\ UNCHANGED <<serverVars, shown, mine, news, historyVars, load>>
<1>1. CASE \E a \in Account : RotateRead(s, a)
  BY <1>1, StartMoves DEF RotateRead
<1>2. CASE RotateList(s) \/ RotateAdopt(s)
  BY <1>2, ToMoves, DoneMoves DEF RotateList, RotateAdopt, At
<1> QED
  BY <1>1, <1>2 DEF RotateStep

LEMMA RotateCommitKeeps ==
  ASSUME Shape, NEW s \in Slot, RotateCommit(s)
  PROVE  /\ Moves(s, {"rotate"})
         /\ UNCHANGED <<active, managers, tickets, reports, envelopes, deviceVars, historyVars, load>>
<1>1. call[s] # None /\ call[s].op = "rotate" /\ (Done(s) \/ To(s, "adopt", call[s].arg))
      /\ UNCHANGED <<active, managers, tickets, reports, envelopes, deviceVars, historyVars, load>>
  BY DEF RotateCommit, At
<1> QED
  BY <1>1, ToMoves, DoneMoves

LEMMA ListKeeps ==
  ASSUME Shape, NEW s \in Slot, ListShow(s) \/ \E a \in Account : ListRead(s, a)
  PROVE  /\ Moves(s, {"list"})
         /\ UNCHANGED <<serverVars, key, mine, used, lost, halved, load>>
<1>1. CASE \E a \in Account : ListRead(s, a)
  BY <1>1, StartMoves DEF ListRead
<1>2. CASE ListShow(s)
  BY <1>2, DoneMoves DEF ListShow, At
<1> QED
  BY <1>1, <1>2

LEMMA MemberStepKeeps ==
  ASSUME Shape, MemberStep
  PROVE  /\ active' \subseteq active /\ call' = call
         /\ UNCHANGED <<epoch, pins, tickets, envelopes, shown, mine, news, historyVars, load>>
BY DEF MemberStep, Leave, Moderator, FetchKey, Resolve

-----------------------------------------------------------------------------
(* Who reads which pin.  A rotation that is under way from the epoch the     *)
(* community is in seals anew every pin there is but those it came too late  *)
(* or too early for.                                                         *)

Excused(p) == pins[p].late \/ pins[p].between

PinsInd ==
  /\ PinsReadable
  /\ \A s \in Slot : At(s, "rotate", "post") /\ call[s].arg.from = epoch =>
       \A p \in Stored : ~Excused(p) => p \in call[s].arg.resealed

LEMMA InitPins == Init => PinsInd
<1> SUFFICES ASSUME Init PROVE PinsInd
  OBVIOUS
<1>1. \A s \in Slot : call[s] = None
  BY DEF Init
<1>2. epoch = 0 /\ \A p \in Stored : pins[p].sealed = 0 /\ pins[p].label = 0
  BY DEF Init, Stored
<1> QED
  BY <1>1, <1>2 DEF PinsInd, PinsReadable, At

LEMMA PinsKept ==
  ASSUME PinsInd, UNCHANGED <<epoch, pins>>,
         \A t \in Slot : call'[t] # None /\ call'[t].op = "rotate" /\ call'[t].step = "post"
                         => call'[t] = call[t]
  PROVE  PinsInd'
BY DEF PinsInd, PinsReadable, Stored, At, Excused

LEMMA PinsCommit ==
  ASSUME Shape, PinsInd, NEW s \in Slot, RotateCommit(s)
  PROVE  PinsInd'
<1>1. Moves(s, {"rotate"}) /\ Shape'
  BY RotateCommitKeeps, ShapePins
<1>2. CASE call[s].arg.from # epoch
  <2>1. UNCHANGED <<epoch, pins>> /\ call'[s] = None
    BY <1>2, Ends DEF RotateCommit, EpochUnchanged
  <2>2. \A t \in Slot : call'[t] # None => call'[t] = call[t]
    BY <1>1, <2>1 DEF Moves
  <2> QED BY <2>1, <2>2, PinsKept
<1>3. CASE call[s].arg.from = epoch
  <2> DEFINE S == call[s].arg.resealed
  <2>1. /\ epoch' = epoch + 1 /\ pins' = Resealed(S, epoch + 1)
        /\ At(s, "rotate", "post") /\ To(s, "adopt", call[s].arg)
    BY <1>3 DEF RotateCommit, EpochUnchanged
  <2>2. epoch \in Nat /\ pins \in [Pin -> Row \cup {None}]
    BY Constants DEF Shape, Rows
  <2>3. S \in SUBSET Pin
    BY <2>1, Running DEF At, Fits, Rotation
  <2>4. \A p \in Stored : p \in S \/ Excused(p)
    BY <1>3, <2>1 DEF PinsInd
  <2>r. /\ \A p \in Pin : (pins'[p] # None) = (pins[p] # None)
        /\ \A p \in Pin \ S : pins'[p] = pins[p]
        /\ \A p \in Pin : p \in S /\ pins[p] # None =>
             pins'[p].sealed = epoch + 1 /\ pins'[p].label = epoch + 1
    <3> HIDE DEF S
    <3>1. epoch + 1 \in Nat
      BY <2>2
    <3>2. pins \in [Pin -> Row \cup {None}]
      BY <2>2
    <3>3. /\ \A p \in Pin : (Resealed(S, epoch + 1)[p] # None) = (pins[p] # None)
          /\ \A p \in Pin \ S : Resealed(S, epoch + 1)[p] = pins[p]
          /\ \A p \in Pin : p \in S /\ pins[p] # None =>
               /\ Resealed(S, epoch + 1)[p].sealed = epoch + 1
               /\ Resealed(S, epoch + 1)[p].label = epoch + 1
      BY <2>3, <3>1, <3>2, ResealedPins
    <3>4. pins' = Resealed(S, epoch + 1)
      BY <2>1
    <3> QED BY <3>3, <3>4
  <2>5. Stored' = Stored
    BY <2>r DEF Stored
  <2>6. ASSUME NEW p \in Stored
        PROVE  /\ pins'[p].sealed <= pins'[p].label /\ pins'[p].label <= epoch + 1
               /\ ~pins'[p].late /\ ~pins'[p].between => pins'[p].sealed = epoch + 1
    <3>0. p \in Pin /\ pins[p] # None /\ epoch + 1 \in Nat
      BY <2>2 DEF Stored
    <3>1. CASE p \in S
      BY <2>r, <3>0, <3>1
    <3>2. CASE p \notin S
      <4>1. pins'[p] = pins[p] /\ Excused(p)
        BY <2>r, <2>4, <3>0, <3>2
      <4>2. pins[p] \in Row
        BY <2>2, <3>0
      <4>3. pins[p].sealed <= pins[p].label /\ pins[p].label <= epoch
        BY DEF PinsInd, PinsReadable
      <4> QED BY <2>2, <4>1, <4>2, <4>3 DEF Row, Excused
    <3> QED BY <3>1, <3>2
  <2>7. \A t \in Slot : ~(At(t, "rotate", "post")' /\ call'[t].arg.from = epoch')
    <3>1. SUFFICES ASSUME NEW t \in Slot, At(t, "rotate", "post")', call'[t].arg.from = epoch'
                   PROVE  FALSE
      OBVIOUS
    <3>2. call[s] \in Call /\ call[s].arg \in Body \cup Rotation \cup Answer \cup Ticket \cup SUBSET Account
          /\ call[s] # None /\ "adopt" \in Steps
      BY <2>1, Running DEF At, Call, Steps
    <3>3. call'[s].step = "adopt"
      BY <2>1, <3>2, GoesOn DEF Goes
    <3>4. t # s /\ call'[t] = call[t] /\ At(t, "rotate", "post")
      BY <1>1, <3>1, <3>3 DEF Moves, At
    <3>5. call[t].arg.from <= epoch /\ call[t].arg.from \in Nat
      BY <3>4, Running DEF At, Fits, Rotation
    <3> QED BY <2>1, <2>2, <3>1, <3>4, <3>5
  <2> QED BY <2>1, <2>5, <2>6, <2>7 DEF PinsInd, PinsReadable
<1> QED
  BY <1>2, <1>3

LEMMA PinsPosted ==
  ASSUME Shape, PinsInd, NEW s \in Slot, PinPost(s)
  PROVE  PinsInd'
<1>1. /\ Moves(s, {"pin"}) /\ call[s] # None /\ call[s].op = "pin" /\ epoch' = epoch
      /\ \A t \in Slot : call'[t] # None => call'[t] = call[t]
  BY PinPostKeeps DEF Moves
<1>2. CASE UNCHANGED pins
  BY <1>1, <1>2, PinsKept
<1>3. CASE ~UNCHANGED pins
  <2> DEFINE p == call[s].on
             b == call[s].arg
             r == [by |-> call[s].by, sealed |-> b.sealed, label |-> b.label, approved |-> FALSE,
                   late |-> b.sealed < epoch, between |-> BeingResealed]
  <2>1. pins' = [pins EXCEPT ![p] = r] /\ b.label <= epoch
    BY <1>3 DEF PinPost, FutureRefused
  <2>2. p \in Pin /\ b.sealed \in Nat /\ b.label \in Nat /\ b.sealed <= b.label
    BY <1>1, Running DEF Fits, Body
  <2>3. epoch \in Nat /\ DOMAIN pins = Pin
    BY Constants DEF Shape, Rows
  <2>4. pins'[p] = r /\ \A q \in Pin \ {p} : pins'[q] = pins[q]
    BY <2>1, <2>2, <2>3
  <2>5. /\ r.sealed = b.sealed /\ r.label = b.label
        /\ r.late = (b.sealed < epoch) /\ r.between = BeingResealed
    OBVIOUS
  <2> HIDE DEF r, b, p
  <2>6. ~r.late => r.sealed = epoch
    <3>1. ~r.late => ~(b.sealed < epoch)
      BY <2>5, Zenon
    <3>2. ~(b.sealed < epoch) => b.sealed = epoch
      BY <2>1, <2>2, <2>3
    <3> QED BY <2>5, <3>1, <3>2
  <2>7. ASSUME NEW q \in Stored'
        PROVE  /\ pins'[q].sealed <= pins'[q].label /\ pins'[q].label <= epoch
               /\ ~pins'[q].late /\ ~pins'[q].between => pins'[q].sealed = epoch
    BY <2>1, <2>2, <2>4, <2>5, <2>6, <2>7 DEF PinsInd, PinsReadable, Stored
  <2>8. ASSUME NEW t \in Slot, At(t, "rotate", "post")', call'[t].arg.from = epoch,
               NEW q \in Stored', ~Excused(q)'
        PROVE  q \in call'[t].arg.resealed
    <3>1. call'[t] = call[t] /\ At(t, "rotate", "post")
      BY <1>1, <2>8 DEF At
    <3>2. BeingResealed
      BY <2>8, <3>1 DEF BeingResealed
    <3>3. q # p /\ pins'[q] = pins[q]
      BY <2>4, <2>5, <2>8, <3>2 DEF Excused, Stored
    <3> QED BY <2>8, <3>1, <3>3 DEF PinsInd, Excused, Stored
  <2> QED BY <1>1, <2>7, <2>8 DEF PinsInd, PinsReadable
<1> QED
  BY <1>2, <1>3

LEMMA PinsGone ==
  ASSUME Shape, PinsInd, PinGone
  PROVE  PinsInd'
<1>1. epoch' = epoch /\ call' = call
  BY DEF PinGone, Approve, Unpin
<1>2. \A p \in Stored' : /\ p \in Stored /\ pins'[p].sealed = pins[p].sealed
                         /\ pins'[p].label = pins[p].label /\ pins'[p].late = pins[p].late
                         /\ pins'[p].between = pins[p].between
  <2>0. pins \in [Pin -> Row \cup {None}]
    BY DEF Shape, Rows
  <2>1. ASSUME NEW a \in Account, NEW p \in Pin, Unpin(a, p)
        PROVE  pins' = [pins EXCEPT ![p] = None]
    BY <2>1 DEF Unpin
  <2>2. ASSUME NEW a \in Account, NEW p \in Pin, Approve(a, p)
        PROVE  p \in Stored /\ pins' = [pins EXCEPT ![p] = [pins[p] EXCEPT !.approved = TRUE]]
    BY <2>2 DEF Approve
  <2>3. ASSUME NEW p \in Stored PROVE
          LET r == [pins[p] EXCEPT !.approved = TRUE] IN
          /\ r.sealed = pins[p].sealed /\ r.label = pins[p].label /\ r.late = pins[p].late
          /\ r.between = pins[p].between
    <3>1. pins[p] \in Row
      BY <2>0 DEF Stored
    <3> QED BY <3>1 DEF Row
  <2>4. ASSUME NEW p \in Pin, pins' = [pins EXCEPT ![p] = None], NEW q \in Stored'
        PROVE  q \in Stored /\ pins'[q] = pins[q]
    BY <2>0, <2>4 DEF Stored
  <2>5. ASSUME NEW p \in Stored, NEW q \in Stored',
               pins' = [pins EXCEPT ![p] = [pins[p] EXCEPT !.approved = TRUE]]
        PROVE  q \in Stored /\ (q # p => pins'[q] = pins[q])
               /\ (q = p => pins'[q] = [pins[p] EXCEPT !.approved = TRUE])
    BY <2>0, <2>5 DEF Stored
  <2>6. PICK p \in Pin : \/ pins' = [pins EXCEPT ![p] = None]
                        \/ /\ p \in Stored
                           /\ pins' = [pins EXCEPT ![p] = [pins[p] EXCEPT !.approved = TRUE]]
    BY <2>1, <2>2 DEF PinGone
  <2>7. CASE pins' = [pins EXCEPT ![p] = None]
    BY <2>4, <2>7
  <2>8. CASE p \in Stored /\ pins' = [pins EXCEPT ![p] = [pins[p] EXCEPT !.approved = TRUE]]
    BY <2>3, <2>5, <2>8
  <2> QED BY <2>6, <2>7, <2>8
<1> QED
  BY <1>1, <1>2 DEF PinsInd, PinsReadable, At, Excused

LEMMA PinsStep == Shape /\ PinsInd /\ [Next]_vars => PinsInd'
<1> SUFFICES ASSUME Shape, PinsInd, [Next]_vars PROVE PinsInd'
  OBVIOUS
<1>1. CASE UNCHANGED vars
  BY <1>1, PinsKept
<1>2. CASE MemberStep
  BY <1>2, MemberStepKeeps, PinsKept
<1>3. ASSUME NEW s \in Slot, TicketStep(s) PROVE PinsInd'
  BY <1>3, TicketStepKeeps, Apart, PinsKept
<1>4. ASSUME NEW s \in Slot, ReportStep(s) PROVE PinsInd'
  BY <1>4, ReportStepKeeps, Apart, PinsKept
<1>5. ASSUME NEW s \in Slot, PinStep(s) PROVE PinsInd'
  BY <1>5, PinStepKeeps, Apart, PinsKept
<1>6. ASSUME NEW s \in Slot, ListShow(s) \/ \E a \in Account : ListRead(s, a) PROVE PinsInd'
  <2>1. Moves(s, {"list"}) /\ UNCHANGED <<epoch, pins>>
    BY <1>6, ListKeeps
  <2> QED BY <2>1, Apart, PinsKept
<1>7. ASSUME NEW s \in Slot, RotateAdopt(s) \/ \E a \in Account : RotateRead(s, a) PROVE PinsInd'
  <2>1. Moves(s, {"rotate"}) /\ UNCHANGED <<epoch, pins>>
    BY <1>7, RotateStepKeeps DEF RotateStep
  <2>2. call'[s] = None \/ call'[s].step = "list"
    BY <1>7, Ends DEF RotateAdopt, RotateRead, Start, Shape
  <2> QED BY <2>1, <2>2, PinsKept DEF Moves
<1>8. ASSUME NEW s \in Slot, RotateList(s) PROVE PinsInd'
  <2> DEFINE S == {p \in Pin : Opens(p, call[s].arg.from)}
             b == [call[s].arg EXCEPT !.resealed = S]
  <2>1. Moves(s, {"rotate"}) /\ UNCHANGED <<epoch, pins>>
        /\ At(s, "rotate", "list") /\ To(s, "post", b)
    BY <1>8, RotateStepKeeps DEF RotateStep, RotateList
  <2>2. call[s] # None /\ call[s].arg \in Rotation
    BY <2>1, Running DEF At, Fits
  <2>3. b \in Rotation /\ b.from = call[s].arg.from /\ b.resealed = S
    BY <2>2 DEF Rotation
  <2>4. b \in Body \cup Rotation \cup Answer \cup Ticket \cup SUBSET Account /\ "post" \in Steps
    BY <2>3 DEF Steps
  <2> HIDE DEF b
  <2>5. call'[s].arg = b
    BY <2>1, <2>2, <2>4, GoesOn DEF Goes
  <2>6. b.from = epoch => \A p \in Stored : ~Excused(p) => p \in b.resealed
    BY <2>3 DEF PinsInd, PinsReadable, Opens, Excused, Stored
  <2>7. \A t \in Slot \ {s} : call'[t] = call[t]
    BY <2>1 DEF Moves
  <2> QED BY <2>1, <2>5, <2>6, <2>7 DEF PinsInd, PinsReadable, Stored, At, Excused
<1> QED
  BY <1>1, <1>2, <1>3, <1>4, <1>5, <1>6, <1>7, <1>8, Kinds, PinsCommit, PinsPosted, PinsGone
     DEF RotateStep

-----------------------------------------------------------------------------
(* What the views show.  A listing under way, which no news has overtaken,   *)
(* was made of the pins there are, unless the key has changed since.         *)

ViewsInd ==
  /\ ShownCurrent
  /\ \A s \in Slot : At(s, "list", "show") =>
       /\ call[s].arg.under = epoch /\ call[s].by \in active /\ ~news[call[s].by]
            => call[s].arg.pins = pins

LEMMA InitViews == Init => ViewsInd
<1> SUFFICES ASSUME Init PROVE ViewsInd
  OBVIOUS
<1>1. load.pinned \subseteq Pin /\ active \subseteq Account
  BY Constants DEF Init
<1>2. Stored = load.pinned
  <2>1. \A p \in load.pinned : pins[p] = [by |-> CHOOSE l \in Leader : TRUE, sealed |-> 0,
           label |-> 0, approved |-> FALSE, late |-> FALSE, between |-> FALSE]
    BY <1>1 DEF Init
  <2>2. [by |-> CHOOSE l \in Leader : TRUE, sealed |-> 0, label |-> 0,
         approved |-> FALSE, late |-> FALSE, between |-> FALSE] \in Row
    <3>1. \A l \in {CHOOSE l \in Leader : TRUE} : l \in Account
      BY BoardAssumption DEF BoardAssumption
    <3> QED BY <3>1 DEF Row
  <2>3. \A p \in Pin \ load.pinned : pins[p] = None
    BY DEF Init
  <2> QED BY <1>1, <2>1, <2>2, <2>3, Constants DEF Stored
<1>3. \A p \in Stored : pins[p].sealed = epoch /\ Stands(pins[p])
  <2>1. \A l \in {CHOOSE l \in Leader : TRUE} : l \in Leader
    BY BoardAssumption DEF BoardAssumption
  <2> QED BY <1>1, <1>2, <2>1 DEF Init, Stands
<1>4. \A a \in Account : DOMAIN shown[a] = Stored /\ \A p \in Stored : shown[a][p].stands
  BY <1>2 DEF Init
<1>5. \A s \in Slot : ~At(s, "list", "show")
  BY DEF Init, At
<1>6. \A p \in Stored : Stands(pins[p]) \in BOOLEAN /\ Stands(pins[p]) = TRUE
  BY <1>3 DEF Stands
<1>7. \A a \in Account : \A p \in Stored : shown[a][p].stands = TRUE
  BY <1>2 DEF Init
<1>8. ShownCurrent
  BY <1>1, <1>3, <1>4, <1>6, <1>7 DEF ShownCurrent
<1> QED
  BY <1>5, <1>8 DEF ViewsInd

LEMMA ViewsKept ==
  ASSUME ViewsInd, UNCHANGED <<epoch, pins, shown, read, load>>, active' \subseteq active,
         active \subseteq Account, \A a \in Account : news[a] => news'[a],
         \A t \in Slot : (call[t] # None /\ call[t].op = "list")
                         \/ (call'[t] # None /\ call'[t].op = "list") => call'[t] = call[t]
  PROVE  ViewsInd'
<1>1. \A a \in active' : Listing(a)' = Listing(a) /\ a \in active /\ (news[a] => news'[a])
  BY DEF Listing, At
<1>2. ShownCurrent'
  BY <1>1 DEF ViewsInd, ShownCurrent, Stored, Stands
<1>3. \A t \in Slot : At(t, "list", "show")' => At(t, "list", "show") /\ call'[t] = call[t]
  BY DEF At
<1> QED
  BY <1>2, <1>3 DEF ViewsInd

(* Whatever changes the pins tells every active member. *)
LEMMA ViewsTold ==
  ASSUME ViewsInd, Shape, Emit, active' = active, UNCHANGED load
  PROVE  ViewsInd'
<1>1. \A a \in active' : news'[a]
  BY Emits, Constants DEF Shape, Rows
<1> QED
  BY <1>1 DEF ViewsInd, ShownCurrent

LEMMA ViewsCommit ==
  ASSUME Shape, ViewsInd, NEW s \in Slot, RotateCommit(s)
  PROVE  ViewsInd'
<1>1. Moves(s, {"rotate"}) /\ UNCHANGED <<active, shown, mine, news, read, load>>
  BY RotateCommitKeeps
<1>2. active \subseteq Account
  BY Constants DEF Shape, Rows
<1>3. CASE UNCHANGED <<epoch, pins>>
  BY <1>1, <1>2, <1>3, Apart, ViewsKept
<1>4. CASE ~UNCHANGED <<epoch, pins>>
  <2>1. epoch' = epoch + 1
    BY <1>4 DEF RotateCommit, EpochUnchanged
  <2>2. epoch \in Nat /\ epoch' \in 0..MaxEpoch /\ MaxEpoch \in Nat
        /\ \A a \in Account : read[a] <= epoch \/ read[a] = MaxEpoch + 1
    BY Constants, ShapePins DEF Shape, Rows
  <2>3. \A a \in active' : read'[a] # epoch'
    BY <1>1, <1>2, <2>1, <2>2 DEF Shape, Rows
  <2>4. \A t \in Slot : At(t, "list", "show")' => call'[t].arg.under # epoch'
    <3>1. SUFFICES ASSUME NEW t \in Slot, At(t, "list", "show")' PROVE call'[t].arg.under # epoch'
      OBVIOUS
    <3>2. call'[t] = call[t] /\ At(t, "list", "show")
      BY <1>1, <3>1, Apart DEF At
    <3>3. call[t].arg.under <= epoch /\ call[t].arg.under \in Nat
      BY <3>2, Running DEF At, Fits, Answer
    <3> QED BY <2>1, <2>2, <3>2, <3>3
  <2> QED BY <2>3, <2>4 DEF ViewsInd, ShownCurrent
<1> QED
  BY <1>3, <1>4

LEMMA ViewsList ==
  ASSUME Shape, ViewsInd, NEW s \in Slot, NEW a \in Account, ListRead(s, a)
  PROVE  ViewsInd'
<1>1. Moves(s, {"list"}) /\ UNCHANGED <<epoch, pins, active, shown, read, load>>
  BY ListKeeps DEF ListRead
<1>2. /\ Start(s, "list", a, "show", None, [pins |-> pins, under |-> epoch])
      /\ news' = [news EXCEPT ![a] = FALSE]
      /\ \A t \in Slot : ~ (At(t, "list", "show") /\ call[t].by = a)
  BY DEF ListRead
<1>3. /\ call[s] = None
      /\ call'[s] = [op |-> "list", by |-> a, step |-> "show", on |-> None,
                     arg |-> [pins |-> pins, under |-> epoch]]
      /\ \A t \in Slot \ {s} : call'[t] = call[t]
      /\ news \in [Account -> BOOLEAN] /\ active \subseteq Account
  BY <1>2, Constants DEF Start, Shape, Rows
<1>4. /\ call'[s].op = "list" /\ call'[s].step = "show" /\ call'[s].by = a
      /\ call'[s].arg.pins = pins
  BY <1>3
<1>5. \A x \in Account \ {a} : news'[x] = news[x]
  BY <1>2, <1>3
<1>6. ASSUME call'[s] # None PROVE ViewsInd'
  <2>1. Listing(a)' /\ \A x \in Account \ {a} : Listing(x) => Listing(x)'
    BY <1>3, <1>4, <1>6 DEF Listing, At
  <2>2. ShownCurrent'
    BY <1>1, <1>3, <1>5, <2>1 DEF ViewsInd, ShownCurrent, Stored, Stands
  <2>3. \A t \in Slot \ {s} : At(t, "list", "show")' => At(t, "list", "show") /\ call[t].by # a
                                                      /\ call'[t] = call[t]
    BY <1>2, <1>3 DEF At
  <2>4. ASSUME NEW t \in Slot, At(t, "list", "show")',
               call'[t].arg.under = epoch, call'[t].by \in active, ~news'[call'[t].by]
        PROVE  call'[t].arg.pins = pins
    <3>1. CASE t = s
      BY <1>4, <3>1
    <3>2. CASE t # s
      <4>1. /\ At(t, "list", "show") /\ call'[t] = call[t] /\ call[t].by # a
        BY <2>3, <2>4, <3>2
      <4>2. ~news[call[t].by]
        BY <1>3, <1>5, <2>4, <4>1
      <4> QED BY <2>4, <4>1, <4>2 DEF ViewsInd
    <3> QED BY <3>1, <3>2
  <2> QED BY <1>1, <2>2, <2>4 DEF ViewsInd
<1>7. call'[s] # None
  <2>1. [pins |-> pins, under |-> epoch] \in Answer
    BY DEF Shape, Rows, Answer
  <2>2. call'[s] \in Call
    BY <1>3, <2>1 DEF Call, Ops, Steps
  <2> QED BY <2>2, Constants
<1> QED
  BY <1>6, <1>7

LEMMA ViewsShow ==
  ASSUME Shape, ViewsInd, NEW s \in Slot, ListShow(s)
  PROVE  ViewsInd'
<1> DEFINE a == call[s].by
           got == call[s].arg.pins
           opened == {p \in Pin : got[p] # None /\ got[p].sealed = key[a]}
<1>1. Moves(s, {"list"}) /\ UNCHANGED <<epoch, pins, active, news, key, load>> /\ call'[s] = None
      /\ At(s, "list", "show")
  BY ListKeeps, Ends DEF ListShow
<1>2. /\ shown' = [shown EXCEPT ![a] =
           [p \in opened |-> [stands |-> Stands(got[p]), mine |-> mine[a][p] # None]]]
      /\ read' = [read EXCEPT ![a] = IF call[s].arg.under = key[a] THEN key[a] ELSE MaxEpoch + 1]
  BY DEF ListShow
<1>3. a \in Account /\ DOMAIN shown = Account /\ DOMAIN read = Account
      /\ epoch \in 0..MaxEpoch /\ MaxEpoch \in Nat /\ active \subseteq Account
  BY <1>1, Running, Constants DEF Shape, Rows, At
<1>4. \A t \in Slot : At(t, "list", "show")' => t # s /\ At(t, "list", "show") /\ call'[t] = call[t]
  BY <1>1 DEF Moves, At
<1>5. \A x \in Account \ {a} : Listing(x) => Listing(x)'
  BY <1>1 DEF Listing, At, Moves
<1>6. shown'[a] = [p \in opened |-> [stands |-> Stands(got[p]), mine |-> mine[a][p] # None]]
      /\ read'[a] = (IF call[s].arg.under = key[a] THEN key[a] ELSE MaxEpoch + 1)
      /\ \A x \in Account \ {a} : shown'[x] = shown[x] /\ read'[x] = read[x]
  BY <1>2, <1>3
<1>7. DOMAIN shown'[a] = opened /\ \A p \in opened : shown'[a][p].stands = Stands(got[p])
  BY <1>6
<1>8. ASSUME a \in active, ~news[a], read'[a] = epoch
      PROVE  /\ DOMAIN shown'[a] = {p \in Stored : pins[p].sealed = epoch}
             /\ \A p \in DOMAIN shown'[a] : shown'[a][p].stands = Stands(pins[p])
  <2>1. call[s].arg.under = key[a] /\ key[a] = epoch
    BY <1>3, <1>6, <1>8
  <2>2. got = pins
    BY <1>1, <1>8, <2>1 DEF ViewsInd
  <2> QED BY <1>7, <2>1, <2>2 DEF Stored
<1> HIDE DEF a, got, opened
<1>9. ShownCurrent'
  BY <1>1, <1>3, <1>5, <1>6, <1>8 DEF ViewsInd, ShownCurrent, Stored, Stands
<1> QED
  BY <1>1, <1>4, <1>9 DEF ViewsInd

LEMMA ViewsStep == Shape /\ ViewsInd /\ [Next]_vars => ViewsInd'
<1> SUFFICES ASSUME Shape, ViewsInd, [Next]_vars PROVE ViewsInd'
  OBVIOUS
<1>0. active \subseteq Account
  BY Constants DEF Shape, Rows
<1>1. CASE UNCHANGED vars
  BY <1>0, <1>1, ViewsKept
<1>2. CASE MemberStep
  BY <1>0, <1>2, MemberStepKeeps, ViewsKept
<1>3. ASSUME NEW s \in Slot, TicketStep(s) PROVE ViewsInd'
  BY <1>0, <1>3, TicketStepKeeps, Apart, ViewsKept
<1>4. ASSUME NEW s \in Slot, ReportStep(s) PROVE ViewsInd'
  BY <1>0, <1>4, ReportStepKeeps, Apart, ViewsKept
<1>5. ASSUME NEW s \in Slot, PinStep(s) PROVE ViewsInd'
  BY <1>0, <1>5, PinStepKeeps, Apart, ViewsKept
<1>6. ASSUME NEW s \in Slot, RotateStep(s) PROVE ViewsInd'
  BY <1>0, <1>6, RotateStepKeeps, Apart, ViewsKept
<1>7. ASSUME NEW s \in Slot, PinPost(s) PROVE ViewsInd'
  <2>1. Moves(s, {"pin"}) /\ UNCHANGED <<epoch, active, shown, read, load>>
        /\ (UNCHANGED <<pins, news>> \/ Emit)
    BY <1>7, PinPostKeeps DEF PinPost
  <2>2. CASE Emit
    BY <2>1, <2>2, ViewsTold
  <2>3. CASE UNCHANGED <<pins, news>>
    BY <1>0, <2>1, <2>3, Apart, ViewsKept
  <2> QED BY <2>1, <2>2, <2>3
<1>8. CASE PinGone
  BY <1>8, ViewsTold DEF PinGone, Approve, Unpin
<1> QED
  BY <1>1, <1>2, <1>3, <1>4, <1>5, <1>6, <1>7, <1>8, Kinds, ViewsCommit, ViewsList, ViewsShow

-----------------------------------------------------------------------------
(* Whom the reports reach.  Every active leader is a manager, so the managers *)
(* a report is sealed to include every leader there still is.                 *)

Led == Leader \cap active

ReportsInd ==
  /\ Led \subseteq managers
  /\ \A s \in Slot : call[s] # None /\ call[s].op = "report" => Led \subseteq call[s].arg
  /\ \A r \in Report \ halved :
       reports[r] = "pending" /\ ~(\E s \in Slot : At(s, "report", "seal") /\ call[s].on = r)
       => Led \subseteq envelopes[r]

LEMMA InitReports == Init => ReportsInd
BY Constants DEF Init, ReportsInd, Led, Statuses

LEMMA ReportsKept ==
  ASSUME ReportsInd, active' \subseteq active, UNCHANGED <<managers, reports, envelopes, halved>>,
         \A t \in Slot : (call[t] # None /\ call[t].op = "report")
                         \/ (call'[t] # None /\ call'[t].op = "report") => call'[t] = call[t]
  PROVE  ReportsInd'
<1>1. Led' \subseteq Led
  BY DEF Led
<1>2. \A r \in Report : (\E s \in Slot : At(s, "report", "seal") /\ call[s].on = r)
                        => (\E s \in Slot : At(s, "report", "seal")' /\ call'[s].on = r)
  BY DEF At
<1> QED
  BY <1>1, <1>2 DEF ReportsInd

LEMMA ReportsStep == Shape /\ ReportsInd /\ [Next]_vars => ReportsInd'
<1> SUFFICES ASSUME Shape, ReportsInd, [Next]_vars PROVE ReportsInd'
  OBVIOUS
<1>1. CASE UNCHANGED vars
  BY <1>1, ReportsKept
<1>2. ASSUME NEW s \in Slot, TicketStep(s) PROVE ReportsInd'
  BY <1>2, TicketStepKeeps, Apart, ReportsKept
<1>3. ASSUME NEW s \in Slot, PinStep(s) PROVE ReportsInd'
  BY <1>3, PinStepKeeps, Apart, ReportsKept
<1>4. ASSUME NEW s \in Slot, PinPost(s) PROVE ReportsInd'
  BY <1>4, PinPostKeeps, Apart, ReportsKept
<1>5. ASSUME NEW s \in Slot, RotateStep(s) PROVE ReportsInd'
  BY <1>5, RotateStepKeeps, Apart, ReportsKept
<1>6. ASSUME NEW s \in Slot, RotateCommit(s) PROVE ReportsInd'
  BY <1>6, RotateCommitKeeps, Apart, ReportsKept
<1>7. ASSUME NEW s \in Slot, ListShow(s) \/ \E a \in Account : ListRead(s, a) PROVE ReportsInd'
  <2>1. Moves(s, {"list"}) /\ UNCHANGED <<active, managers, reports, envelopes, halved>>
    BY <1>7, ListKeeps
  <2> QED BY <2>1, Apart, ReportsKept
<1>8. CASE PinGone
  BY <1>8, ReportsKept DEF PinGone, Approve, Unpin
<1>9. CASE MemberStep
  <2>1. call' = call /\ UNCHANGED <<envelopes, halved>> /\ active' \subseteq active
    BY <1>9, MemberStepKeeps
  <2>2. ASSUME NEW a \in Account, Leave(a) PROVE UNCHANGED reports /\ Led' \subseteq managers'
    BY <2>2 DEF Leave, ReportsInd, Led
  <2>3. ASSUME NEW a \in Account, Moderator(a) PROVE UNCHANGED reports /\ Led' \subseteq managers'
    BY <2>3 DEF Moderator, ReportsInd, Led
  <2>4. ASSUME NEW a \in Account, NEW r \in Report, NEW how \in {"resolved", "dismissed"},
               Resolve(a, r, how)
        PROVE  /\ UNCHANGED <<active, managers>>
               /\ \A q \in Report : reports'[q] = "pending" => reports[q] = "pending"
    BY <2>4 DEF Resolve, Shape, Rows
  <2>5. ASSUME NEW a \in Account, FetchKey(a) PROVE UNCHANGED <<active, managers, reports>>
    BY <2>5 DEF FetchKey
  <2>6. /\ Led' \subseteq managers' /\ Led' \subseteq Led
        /\ \A q \in Report : reports'[q] = "pending" => reports[q] = "pending"
    BY <1>9, <2>1, <2>2, <2>3, <2>4, <2>5 DEF MemberStep, ReportsInd, Led
  <2> QED BY <2>1, <2>6 DEF ReportsInd, At
<1>10. ASSUME NEW s \in Slot, ReportStep(s) PROVE ReportsInd'
  <2>1. Moves(s, {"report"}) /\ UNCHANGED <<active, managers>>
    BY <1>10, ReportStepKeeps
  <2>2. Led' = Led /\ Led \subseteq managers
    BY <2>1 DEF Led, ReportsInd
  <2>3. \A t \in Slot \ {s} : call'[t] = call[t]
    BY <2>1 DEF Moves
  <2>8. \A q \in Report :
          (\E t \in Slot \ {s} : At(t, "report", "seal") /\ call[t].on = q)
          => (\E t \in Slot : At(t, "report", "seal")' /\ call'[t].on = q)
    BY <2>3 DEF At
  <2>9. \A t \in Slot \ {s} : call'[t] # None /\ call'[t].op = "report" => Led' \subseteq call'[t].arg
    BY <2>2, <2>3 DEF ReportsInd
  <2>10. \A q \in Report \ halved : reports[q] = "pending" =>
           \/ Led' \subseteq envelopes[q]
           \/ \E t \in Slot : At(t, "report", "seal") /\ call[t].on = q
    BY <2>2 DEF ReportsInd
  <2>4. ASSUME NEW a \in Account, ReportRead(s, a) PROVE ReportsInd'
    <3>1. /\ Start(s, "report", a, "row", Drawn(Report), managers)
          /\ UNCHANGED <<reports, envelopes, halved>>
      BY <2>4 DEF ReportRead, Recipients
    <3>2. call[s] = None /\ call'[s].arg = managers
      BY <3>1 DEF Start, Shape
    <3> QED BY <2>1, <2>2, <2>3, <3>1, <3>2 DEF ReportsInd, At
  <2>5. CASE ReportRow(s)
    <3> DEFINE r == call[s].on
    <3>0. call[s] # None /\ call[s].op = "report" /\ call[s].step = "row"
          /\ UNCHANGED <<envelopes, halved>>
      BY <2>5 DEF ReportRow, At
    <3>1. CASE call[s].by \in active
      <4>1. To(s, "seal", call[s].arg) /\ reports' = [reports EXCEPT ![r] = "pending"]
        BY <2>5, <3>1 DEF ReportRow
      <4>2. call[s] \in Call /\ "seal" \in Steps
            /\ call[s].arg \in Body \cup Rotation \cup Answer \cup Ticket \cup SUBSET Account
        BY <3>0, Running DEF Call, Steps
      <4>3. call'[s].arg = call[s].arg /\ call'[s] # None /\ call'[s].on = r
            /\ call'[s].op = "report" /\ call'[s].step = "seal"
        BY <3>0, <4>1, <4>2, GoesOn DEF Goes
      <4>4. At(s, "report", "seal")'
        BY <4>3 DEF At
      <4>5. \A q \in Report \ {r} : reports'[q] = reports[q]
        BY <4>1 DEF Shape, Rows
      <4> HIDE DEF r
      <4>6. Led' \subseteq call'[s].arg
        BY <2>2, <3>0, <4>3 DEF ReportsInd
      <4>7. \A q \in Report \ {r} : (\E t \in Slot : At(t, "report", "seal") /\ call[t].on = q)
              => (\E t \in Slot : At(t, "report", "seal")' /\ call'[t].on = q)
        BY <2>8, <3>0 DEF At
      <4>8. ASSUME NEW q \in Report \ halved', reports'[q] = "pending",
                   ~(\E t \in Slot : At(t, "report", "seal")' /\ call'[t].on = q)
            PROVE  Led' \subseteq envelopes'[q]
        BY <2>10, <3>0, <4>3, <4>4, <4>5, <4>7, <4>8
      <4> QED BY <2>1, <2>2, <2>9, <4>6, <4>8 DEF ReportsInd
    <3>2. CASE call[s].by \notin active
      <4>1. call'[s] = None /\ UNCHANGED reports
        BY <2>5, <3>2, Ends DEF ReportRow
      <4> QED BY <2>1, <2>2, <2>3, <3>0, <4>1 DEF ReportsInd, At
    <3> QED BY <3>1, <3>2
  <2>6. CASE ReportSeal(s)
    <3>1. /\ call[s] # None /\ call[s].op = "report" /\ call'[s] = None
          /\ envelopes' = [envelopes EXCEPT ![call[s].on] = call[s].arg]
          /\ UNCHANGED <<reports, halved>>
      BY <2>6, Ends DEF ReportSeal, SealedTo, At
    <3>2. Led \subseteq call[s].arg /\ call[s].on \in Report
      BY <3>1, Running DEF ReportsInd, Fits
    <3>3. envelopes'[call[s].on] = call[s].arg
          /\ \A r \in Report \ {call[s].on} : envelopes'[r] = envelopes[r]
      BY <3>1, <3>2 DEF Shape, Rows
    <3>4. ASSUME NEW q \in Report \ halved', reports'[q] = "pending",
                 ~(\E t \in Slot : At(t, "report", "seal")' /\ call'[t].on = q)
          PROVE  Led' \subseteq envelopes'[q]
      BY <2>2, <2>8, <2>10, <3>1, <3>2, <3>3, <3>4
    <3> QED BY <2>1, <2>2, <2>9, <3>1, <3>4 DEF ReportsInd
  <2>7. CASE ReportHalved(s)
    <3>1. call[s] # None /\ call'[s] = None /\ halved' = halved \cup {call[s].on}
          /\ UNCHANGED <<reports, envelopes>>
      BY <2>7, Ends DEF ReportHalved, At
    <3>2. ASSUME NEW q \in Report \ halved', reports'[q] = "pending",
                 ~(\E t \in Slot : At(t, "report", "seal")' /\ call'[t].on = q)
          PROVE  Led' \subseteq envelopes'[q]
      BY <2>8, <2>10, <3>1, <3>2
    <3> QED BY <2>1, <2>2, <2>9, <3>1, <3>2 DEF ReportsInd
  <2> QED BY <1>10, <2>4, <2>5, <2>6, <2>7 DEF ReportStep
<1> QED
  BY <1>1, <1>2, <1>3, <1>4, <1>5, <1>6, <1>7, <1>8, <1>9, <1>10, Kinds

-----------------------------------------------------------------------------
(* A pin's id is drawn once: whoever knows of a pin, nobody will post it.    *)

Is(s, op) == call[s] # None /\ call[s].op = op
Toggle(s) == Is(s, "go") \/ Is(s, "withdraw")

Known(p) ==
  \/ p \in Stored
  \/ \E a \in Account : p \in DOMAIN shown[a] \/ mine[a][p] # None
  \/ \E s \in Slot : \/ Is(s, "list") /\ call[s].arg.pins[p] # None
                     \/ Toggle(s) /\ call[s].on = p

KnownInd ==
  /\ \A p \in Pin : Known(p) => p \in used
  /\ \A s \in Slot : Is(s, "pin") =>
       /\ call[s].on \in used /\ ~Known(call[s].on)
       /\ \A t \in Slot : Is(t, "pin") /\ call[t].on = call[s].on => t = s

LEMMA InitKnown == Init => KnownInd
<1> SUFFICES ASSUME Init PROVE KnownInd
  OBVIOUS
<1>1. \A s \in Slot : call[s] = None
  BY DEF Init
<1>2. \A p \in Pin : p \in Stored => p \in load.pinned
  BY DEF Init, Stored
<1>3. \A a \in Account : DOMAIN shown[a] = load.pinned /\ \A p \in Pin : mine[a][p] = None
  BY DEF Init
<1>4. used = load.pinned
  BY DEF Init
<1> QED
  BY <1>1, <1>2, <1>3, <1>4 DEF KnownInd, Known, Is, Toggle

(* A step that brings no pin to anybody's knowledge, and none to be posted. *)
LEMMA KnownKept ==
  ASSUME Shape, KnownInd, used \subseteq used', \A p \in Pin : Known(p)' => Known(p),
         \A s \in Slot : Is(s, "pin")' => Is(s, "pin") /\ call'[s].on = call[s].on
  PROVE  KnownInd'
<1>1. \A s \in Slot : Is(s, "pin") => call[s].on \in Pin
  BY Running DEF Is, Fits
<1> QED
  BY <1>1 DEF KnownInd

(* The knowledge of pins rests on four things. *)
LEMMA KnownShrinks ==
  ASSUME Stored' \subseteq Stored, UNCHANGED <<shown, mine>>,
         \A s \in Slot : Is(s, "list")' \/ Toggle(s)' => call'[s] = call[s]
  PROVE  \A p \in Pin : Known(p)' => Known(p)
BY DEF Known, Is, Toggle

LEMMA KnownTicketStep ==
  ASSUME Shape, KnownInd, NEW s \in Slot, TicketStep(s)
  PROVE  KnownInd'
<1>1. /\ Moves(s, {"go", "withdraw"}) /\ UNCHANGED <<pins, shown>>
  BY TicketStepKeeps
<1>2. used \subseteq used'
  BY DEF TicketStep, Withdraw, Go, GoCount, GoInsert, GoKeep, GoLost,
     WithdrawDelete, WithdrawForget, WithdrawLost
<1>3. ASSUME NEW t \in Slot, Is(t, "pin") \/ Is(t, "pin")' \/ Is(t, "list") \/ Is(t, "list")'
      PROVE  call'[t] = call[t]
  BY <1>1, <1>3, Apart DEF Is
<1>4. ASSUME Toggle(s)' PROVE Known(call'[s].on)
  <2>1. ASSUME NEW a \in Account, NEW p \in Pin, Withdraw(s, a, p) \/ Go(s, a, p)
        PROVE  Known(p) /\ call'[s].on = p
    BY <2>1 DEF Withdraw, Go, Known, Start, Shape
  <2>2. CASE GoCount(s) \/ GoInsert(s) \/ GoKeep(s) \/ GoLost(s)
             \/ WithdrawDelete(s) \/ WithdrawForget(s) \/ WithdrawLost(s)
    <3>1. Toggle(s) /\ (Done(s) \/ \E step \in Steps : To(s, step, call[s].arg))
      BY <2>2 DEF GoCount, GoInsert, GoKeep, GoLost,
         WithdrawDelete, WithdrawForget, WithdrawLost, At, Is, Toggle, Steps
    <3>2. call[s] \in Call /\ call[s].arg \in Ticket
      BY <3>1, Running DEF Is, Toggle, Fits
    <3>3. call[s].arg \in Body \cup Rotation \cup Answer \cup Ticket \cup SUBSET Account
      BY <3>2
    <3>4. call'[s] = None \/ call'[s].on = call[s].on
      BY <3>1, <3>3, Ends, GoesOn DEF Goes, Is, Toggle
    <3> QED BY <1>4, <3>1, <3>4 DEF Known, Is, Toggle
  <2> QED BY <2>1, <2>2 DEF TicketStep
<1>5. ASSUME NEW a \in Account, NEW p \in Pin, mine'[a][p] # None PROVE Known(p)
  <2>1. CASE GoKeep(s) \/ WithdrawForget(s)
    <3>1. /\ \E t : mine' = [mine EXCEPT ![call[s].by][call[s].on] = t]
          /\ Toggle(s)
      BY <2>1 DEF GoKeep, WithdrawForget, At, Is, Toggle
    <3>2. p = call[s].on \/ mine'[a][p] = mine[a][p]
      BY <3>1 DEF Shape, Rows
    <3> QED BY <1>5, <3>1, <3>2 DEF Known
  <2>2. CASE mine' = mine
    BY <1>5, <2>2 DEF Known
  <2> QED BY <2>1, <2>2 DEF TicketStep, Withdraw, Go, GoCount, GoInsert, GoLost,
                            WithdrawDelete, WithdrawLost
<1>6. \A p \in Pin : Known(p)' => Known(p)
  <2>1. SUFFICES ASSUME NEW p \in Pin, Known(p)' PROVE Known(p)
    OBVIOUS
  <2>2. CASE \E t \in Slot : Toggle(t)' /\ call'[t].on = p
    <3>1. PICK t \in Slot : Toggle(t)' /\ call'[t].on = p
      BY <2>2
    <3>2. CASE t = s
      BY <1>4, <3>1, <3>2
    <3>3. CASE t # s
      BY <1>1, <3>1, <3>3 DEF Moves, Known, Toggle, Is
    <3> QED BY <3>2, <3>3
  <2>3. CASE p \in Stored' \/ \E a \in Account : p \in DOMAIN shown'[a]
    BY <1>1, <2>3 DEF Known, Stored
  <2>4. CASE \E t \in Slot : Is(t, "list")' /\ call'[t].arg.pins[p] # None
    BY <1>3, <2>4 DEF Known, Is
  <2> QED BY <1>5, <2>1, <2>2, <2>3, <2>4 DEF Known
<1> QED
  BY <1>2, <1>3, <1>6, KnownKept DEF Is

LEMMA KnownStep == Shape /\ KnownInd /\ [Next]_vars => KnownInd'
<1> SUFFICES ASSUME Shape, KnownInd, [Next]_vars PROVE KnownInd'
  OBVIOUS
<1>1. CASE UNCHANGED vars
  BY <1>1 DEF KnownInd, Known, Is, Toggle, Stored
<1>2. ASSUME Stored' \subseteq Stored, UNCHANGED <<shown, mine>>, used \subseteq used',
             \A t \in Slot : Is(t, "list")' \/ Toggle(t)' \/ Is(t, "pin")' => call'[t] = call[t]
      PROVE  KnownInd'
  <2>1. \A p \in Pin : Known(p)' => Known(p)
    BY <1>2, KnownShrinks
  <2> QED BY <1>2, <2>1, KnownKept DEF Is
<1>3. CASE MemberStep
  BY <1>2, <1>3, MemberStepKeeps DEF Stored
<1>4. CASE PinGone
  <2>1. UNCHANGED <<shown, mine, used, call>> /\ pins \in [Pin -> Row \cup {None}]
    BY <1>4 DEF PinGone, Approve, Unpin, Shape, Rows
  <2>2. Stored' \subseteq Stored
    BY <1>4, <2>1 DEF PinGone, Approve, Unpin, Stored
  <2> QED BY <1>2, <2>1, <2>2
<1>5. ASSUME NEW s \in Slot, ReportStep(s) PROVE KnownInd'
  <2>1. used \subseteq used'
    BY <1>5 DEF ReportStep, ReportRead, ReportRow, ReportSeal, ReportHalved
  <2>2. Moves(s, {"report"}) /\ UNCHANGED <<pins, shown, mine>>
    BY <1>5, ReportStepKeeps
  <2> QED BY <1>2, <2>1, <2>2, Apart DEF Stored, Is, Toggle
<1>6. ASSUME NEW s \in Slot, RotateStep(s) PROVE KnownInd'
  <2>1. Moves(s, {"rotate"}) /\ UNCHANGED <<pins, shown, mine, used>>
    BY <1>6, RotateStepKeeps
  <2> QED BY <1>2, <2>1, Apart DEF Stored, Is, Toggle
<1>7. ASSUME NEW s \in Slot, RotateCommit(s) PROVE KnownInd'
  <2>1. Moves(s, {"rotate"}) /\ UNCHANGED <<shown, mine, used>>
    BY <1>7, RotateCommitKeeps
  <2>2. Stored' \subseteq Stored
    BY <1>7 DEF RotateCommit, Resealed, Stored
  <2> QED BY <1>2, <2>1, <2>2, Apart DEF Is, Toggle
<1>8. ASSUME NEW s \in Slot, PinLabel(s) PROVE KnownInd'
  <2> DEFINE b == [call[s].arg EXCEPT !.label = key[call[s].by]]
  <2>1. Moves(s, {"pin"}) /\ UNCHANGED <<pins, shown, mine>> /\ To(s, "post", b) /\ Is(s, "pin")
        /\ used' = used
    BY <1>8, PinStepKeeps DEF PinStep, PinLabel, At, Is
  <2>2. call[s] \in Call /\ DOMAIN call = Slot
    BY <2>1, Running DEF Is, Shape
  <2> HIDE DEF b
  <2>3. call' = [call EXCEPT ![s] = [call[s] EXCEPT !.step = "post", !.arg = b]]
    BY <2>1 DEF To
  <2>4. call'[s].on = call[s].on
    BY <2>2, <2>3 DEF Call
  <2>5. \A t \in Slot : Is(t, "list")' \/ Toggle(t)' => call'[t] = call[t]
    BY <2>1, Apart DEF Is, Toggle
  <2>6. \A p \in Pin : Known(p)' => Known(p)
    BY <2>1, <2>5, KnownShrinks DEF Stored
  <2>7. \A t \in Slot : Is(t, "pin")' => Is(t, "pin") /\ call'[t].on = call[t].on
    BY <2>1, <2>4 DEF Moves, Is
  <2> QED BY <2>1, <2>6, <2>7, KnownKept
<1>9. ASSUME NEW s \in Slot, NEW a \in Account, NEW p \in Pin, PinSeal(s, a, p) PROVE KnownInd'
  <2>1. Moves(s, {"pin"}) /\ UNCHANGED <<pins, shown, mine>> /\ p \notin used
        /\ used' = used \cup {p} /\ call[s] = None /\ call'[s].on = p
    BY <1>9, PinStepKeeps DEF PinStep, PinSeal, Start, Shape
  <2>2. \A t \in Slot : Is(t, "list")' \/ Toggle(t)' => call'[t] = call[t]
    BY <2>1, Apart DEF Is, Toggle
  <2>3. \A q \in Pin : Known(q)' => Known(q)
    BY <2>1, <2>2, KnownShrinks DEF Stored
  <2>4. \A t \in Slot : Is(t, "pin")' /\ t # s => Is(t, "pin") /\ call'[t] = call[t]
    BY <2>1 DEF Moves, Is
  <2>5. \A t \in Slot : Is(t, "pin") => call[t].on \in Pin
    BY Running DEF Is, Fits
  <2> QED BY <2>1, <2>3, <2>4, <2>5 DEF KnownInd
<1>10. ASSUME NEW s \in Slot, PinPost(s) PROVE KnownInd'
  <2> DEFINE p == call[s].on
  <2>1. Moves(s, {"pin"}) /\ Is(s, "pin") /\ call'[s] = None /\ UNCHANGED <<shown, mine, used>>
    BY <1>10, PinPostKeeps DEF Is
  <2>2. Stored' \subseteq Stored \cup {p} /\ p \in Pin
    <3>1. UNCHANGED pins \/ \E r : pins' = [pins EXCEPT ![p] = r]
      BY <1>10 DEF PinPost
    <3>2. pins \in [Pin -> Row \cup {None}] /\ p \in Pin
      BY <2>1, Running DEF Shape, Rows, Is, Fits
    <3> QED BY <3>1, <3>2 DEF Stored
  <2>3. \A t \in Slot : t # s => call'[t] = call[t]
    BY <2>1 DEF Moves
  <2>4. \A q \in Pin : Known(q)' => Known(q) \/ q = p
    BY <2>1, <2>2, <2>3 DEF Known, Is, Toggle
  <2>5. \A t \in Slot : Is(t, "pin")' => t # s /\ Is(t, "pin") /\ call'[t] = call[t]
                                        /\ call[t].on # p /\ call[t].on \in Pin
    BY <2>1, <2>3, Running DEF KnownInd, Is, Fits
  <2> HIDE DEF p
  <2>6. p \in used
    BY <2>1 DEF KnownInd, p
  <2> QED BY <2>1, <2>4, <2>5, <2>6 DEF KnownInd
<1>11. ASSUME NEW s \in Slot, NEW a \in Account, ListRead(s, a) PROVE KnownInd'
  <2>1. Moves(s, {"list"}) /\ UNCHANGED <<pins, shown, mine, used>>
    BY <1>11, ListKeeps DEF ListRead
  <2>2. call[s] = None /\ call'[s] = [op |-> "list", by |-> a, step |-> "show", on |-> None,
                                      arg |-> [pins |-> pins, under |-> epoch]]
    BY <1>11 DEF ListRead, Start, Shape
  <2>3. call'[s].arg.pins = pins /\ call'[s].op = "list"
    BY <2>2
  <2>4. \A t \in Slot : t # s => call'[t] = call[t]
    BY <2>1 DEF Moves
  <2>5. \A p \in Pin : Known(p)' => Known(p)
    BY <2>1, <2>3, <2>4 DEF Known, Is, Toggle, Stored
  <2> QED BY <2>1, <2>3, <2>4, <2>5, KnownKept DEF Is
<1>12. ASSUME NEW s \in Slot, ListShow(s) PROVE KnownInd'
  <2>1. Moves(s, {"list"}) /\ UNCHANGED <<pins, mine, used>> /\ call'[s] = None /\ Is(s, "list")
    BY <1>12, ListKeeps, Ends DEF ListShow, At, Is
  <2>2. DOMAIN shown'[call[s].by] \subseteq {p \in Pin : call[s].arg.pins[p] # None}
        /\ \A x \in Account \ {call[s].by} : shown'[x] = shown[x]
    <3>1. call[s].by \in Account /\ DOMAIN shown = Account
      BY <2>1, Running DEF Is, Shape, Rows
    <3> QED BY <1>12, <3>1 DEF ListShow
  <2>3. \A t \in Slot : t # s => call'[t] = call[t]
    BY <2>1 DEF Moves
  <2>4. \A p \in Pin : Known(p)' => Known(p)
    BY <2>1, <2>2, <2>3 DEF Known, Is, Toggle, Stored
  <2> QED BY <2>1, <2>3, <2>4, KnownKept DEF Is
<1> QED
  BY <1>1, <1>3, <1>4, <1>5, <1>6, <1>7, <1>8, <1>9, <1>10, <1>11, <1>12, Kinds, KnownTicketStep
     DEF PinStep

-----------------------------------------------------------------------------
(* What the steps of a ticket do. *)

Others(s) == \A u \in Slot : u # s => call'[u] = call[u]

LEMMA TicketCall ==
  ASSUME Shape, NEW s \in Slot, Toggle(s)
  PROVE  /\ call[s] \in Call /\ call[s] # None /\ s \in load.slots
         /\ call[s].by \in Account /\ call[s].on \in Pin /\ call[s].arg \in Ticket
BY Running DEF Toggle, Is, Fits

LEMMA TicketOn ==
  ASSUME Shape, NEW s \in Slot, Toggle(s), NEW step \in Steps, To(s, step, call[s].arg)
  PROVE  /\ call'[s] # None /\ call'[s].op = call[s].op /\ call'[s].by = call[s].by
         /\ call'[s].on = call[s].on /\ call'[s].arg = call[s].arg /\ call'[s].step = step
         /\ Others(s)
<1>1. call[s] # None
      /\ call[s].arg \in Body \cup Rotation \cup Answer \cup Ticket \cup SUBSET Account
  BY TicketCall
<1> QED
  BY <1>1, GoesOn DEF Goes, Others

LEMMA GoBegins ==
  ASSUME Shape, NEW s \in Slot, NEW a \in Account, NEW p \in Pin, Go(s, a, p)
  PROVE  \E t \in Ticket \ used :
           /\ call[s] = None /\ call'[s] # None /\ call'[s].op = "go" /\ call'[s].step = "count"
           /\ call'[s].by = a /\ call'[s].on = p /\ call'[s].arg = t /\ Others(s)
           /\ used' = used \cup {t} /\ UNCHANGED <<pins, tickets, mine, lost, load>>
           /\ load.taps = "once" => ~Toggling(a) /\ mine[a][p] = None
<1>1. PICK t \in Ticket \ used :
        /\ Start(s, "go", a, "count", p, t) /\ used' = used \cup {t}
        /\ UNCHANGED <<pins, tickets, mine, lost, load>>
        /\ load.taps = "once" => ~Toggling(a) /\ mine[a][p] = None
  <2>1. Drawn(Ticket) \in Ticket \ used
    BY DEF Go, Drawn
  <2> QED BY <2>1 DEF Go
<1>2. t \in Body \cup Rotation \cup Answer \cup Ticket \cup SUBSET Account
  OBVIOUS
<1> QED
  BY <1>1, <1>2, Begins DEF Ops, Steps, Others

LEMMA WithdrawBegins ==
  ASSUME Shape, NEW s \in Slot, NEW a \in Account, NEW p \in Pin, Withdraw(s, a, p)
  PROVE  /\ mine[a][p] \in Ticket
         /\ call[s] = None /\ call'[s] # None
         /\ call'[s].op = "withdraw" /\ call'[s].step = "delete"
         /\ call'[s].by = a /\ call'[s].on = p /\ call'[s].arg = mine[a][p] /\ Others(s)
         /\ UNCHANGED <<pins, tickets, mine, lost, used, load>>
         /\ load.taps = "once" => ~Toggling(a)
<1>1. /\ Start(s, "withdraw", a, "delete", p, mine[a][p])
      /\ UNCHANGED <<pins, tickets, mine, lost, used, load>>
      /\ load.taps = "once" => ~Toggling(a)
      /\ mine[a][p] \in Ticket
  BY DEF Withdraw, Shape, Rows
<1>2. mine[a][p] \in Body \cup Rotation \cup Answer \cup Ticket \cup SUBSET Account
  BY <1>1
<1> QED
  BY <1>1, <1>2, Begins DEF Ops, Steps, Others

LEMMA GoCounts ==
  ASSUME Shape, NEW s \in Slot, GoCount(s)
  PROVE  /\ At(s, "go", "count") /\ Toggle(s) /\ Others(s)
         /\ UNCHANGED <<pins, tickets, mine, lost, used, load, active>>
         /\ \/ call'[s] = None
            \/ /\ call'[s] # None /\ call'[s].op = "go" /\ call'[s].step = "insert"
               /\ call'[s].by = call[s].by /\ call'[s].on = call[s].on
               /\ call'[s].arg = call[s].arg
               /\ Cardinality(tickets[call[s].on]) < Cardinality(active)
<1>1. /\ At(s, "go", "count") /\ Toggle(s)
      /\ UNCHANGED <<pins, tickets, mine, lost, used, load, active>>
      /\ \/ Done(s)
         \/ To(s, "insert", call[s].arg) /\ RoomFor(call[s].on)
  BY DEF GoCount, At, Toggle, Is
<1>2. "insert" \in Steps
  BY DEF Steps
<1> QED
  BY <1>1, <1>2, Ends, TicketOn DEF Others, RoomFor, At

LEMMA GoInserts ==
  ASSUME Shape, NEW s \in Slot, GoInsert(s)
  PROVE  /\ At(s, "go", "insert") /\ Toggle(s) /\ Others(s)
         /\ UNCHANGED <<pins, mine, lost, used, load>>
         /\ \/ call'[s] = None /\ UNCHANGED tickets
            \/ /\ call'[s] # None /\ call'[s].op = "go" /\ call'[s].step = "keep"
               /\ call'[s].by = call[s].by /\ call'[s].on = call[s].on
               /\ call'[s].arg = call[s].arg
               /\ tickets'[call[s].on] = tickets[call[s].on] \cup {call[s].arg}
               /\ \A q \in Pin : q # call[s].on => tickets'[q] = tickets[q]
<1>1. /\ At(s, "go", "insert") /\ Toggle(s)
      /\ UNCHANGED <<pins, mine, lost, used, load>>
      /\ \/ Done(s) /\ UNCHANGED tickets
         \/ /\ To(s, "keep", call[s].arg)
            /\ tickets' = [tickets EXCEPT ![call[s].on] = tickets[call[s].on] \cup {call[s].arg}]
  BY DEF GoInsert, At, Toggle, Is
<1>2. "keep" \in Steps /\ tickets \in [Pin -> SUBSET Ticket] /\ call[s].on \in Pin
  BY <1>1, TicketCall DEF Steps, Shape, Rows
<1>3. CASE Done(s) /\ UNCHANGED tickets
  BY <1>1, <1>3, Ends DEF Others
<1>4. CASE /\ To(s, "keep", call[s].arg)
           /\ tickets' = [tickets EXCEPT ![call[s].on] = tickets[call[s].on] \cup {call[s].arg}]
  BY <1>1, <1>2, <1>4, TicketOn DEF At
<1> QED
  BY <1>1, <1>3, <1>4

LEMMA GoKeeps ==
  ASSUME Shape, NEW s \in Slot, GoKeep(s)
  PROVE  /\ At(s, "go", "keep") /\ Toggle(s) /\ Others(s) /\ call'[s] = None
         /\ UNCHANGED <<pins, tickets, lost, used, load>>
         /\ mine'[call[s].by][call[s].on] = call[s].arg
         /\ \A a \in Account, p \in Pin :
              ~(a = call[s].by /\ p = call[s].on) => mine'[a][p] = mine[a][p]
<1>1. /\ At(s, "go", "keep") /\ Toggle(s) /\ Done(s) /\ UNCHANGED <<pins, tickets, lost, used, load>>
      /\ mine' = [mine EXCEPT ![call[s].by][call[s].on] = call[s].arg]
  BY DEF GoKeep, At, Toggle, Is
<1>2. mine \in [Account -> [Pin -> Ticket \cup {None}]]
      /\ call[s].by \in Account /\ call[s].on \in Pin
  BY <1>1, TicketCall DEF Shape, Rows
<1> QED
  BY <1>1, <1>2, Ends DEF Others

LEMMA WithdrawForgets ==
  ASSUME Shape, NEW s \in Slot, WithdrawForget(s)
  PROVE  /\ At(s, "withdraw", "forget") /\ Toggle(s) /\ Others(s) /\ call'[s] = None
         /\ UNCHANGED <<pins, tickets, lost, used, load>>
         /\ mine'[call[s].by][call[s].on] = None
         /\ \A a \in Account, p \in Pin :
              ~(a = call[s].by /\ p = call[s].on) => mine'[a][p] = mine[a][p]
<1>1. /\ At(s, "withdraw", "forget") /\ Toggle(s) /\ Done(s)
      /\ UNCHANGED <<pins, tickets, lost, used, load>>
      /\ mine' = [mine EXCEPT ![call[s].by][call[s].on] = None]
  BY DEF WithdrawForget, At, Toggle, Is
<1>2. mine \in [Account -> [Pin -> Ticket \cup {None}]]
      /\ call[s].by \in Account /\ call[s].on \in Pin
  BY <1>1, TicketCall DEF Shape, Rows
<1> QED
  BY <1>1, <1>2, Ends DEF Others

LEMMA Loses ==
  ASSUME Shape, NEW s \in Slot, GoLost(s) \/ WithdrawLost(s)
  PROVE  /\ Toggle(s) /\ Others(s) /\ call'[s] = None
         /\ UNCHANGED <<pins, tickets, mine, used, load>> /\ lost \subseteq lost'
         /\ At(s, "go", "keep") \/ At(s, "withdraw", "forget") => call[s].arg \in lost'
<1>1. /\ Toggle(s) /\ Done(s) /\ UNCHANGED <<pins, tickets, mine, used, load>>
      /\ lost \subseteq lost'
  BY DEF GoLost, WithdrawLost, At, Toggle, Is
<1>2. call[s].arg \in Ticket
  BY <1>1, TicketCall
<1>3. At(s, "go", "keep") \/ At(s, "withdraw", "forget") => call[s].arg \in lost'
  BY <1>2 DEF GoLost, WithdrawLost, At
<1> QED
  BY <1>1, <1>3, Ends DEF Others

LEMMA WithdrawDeletes ==
  ASSUME Shape, NEW s \in Slot, WithdrawDelete(s)
  PROVE  /\ At(s, "withdraw", "delete") /\ Toggle(s) /\ Others(s)
         /\ UNCHANGED <<pins, mine, lost, used, load>>
         /\ \/ call'[s] = None /\ UNCHANGED tickets
            \/ /\ call'[s] # None /\ call'[s].op = "withdraw" /\ call'[s].step = "forget"
               /\ call'[s].by = call[s].by /\ call'[s].on = call[s].on
               /\ call'[s].arg = call[s].arg
               /\ tickets'[call[s].on] = tickets[call[s].on] \ {call[s].arg}
               /\ \A q \in Pin : q # call[s].on => tickets'[q] = tickets[q]
<1>1. /\ At(s, "withdraw", "delete") /\ Toggle(s)
      /\ UNCHANGED <<pins, mine, lost, used, load>>
      /\ \/ Done(s) /\ UNCHANGED tickets
         \/ /\ To(s, "forget", call[s].arg)
            /\ tickets' = [tickets EXCEPT ![call[s].on] = tickets[call[s].on] \ {call[s].arg}]
  BY DEF WithdrawDelete, At, Toggle, Is
<1>2. "forget" \in Steps /\ tickets \in [Pin -> SUBSET Ticket] /\ call[s].on \in Pin
  BY <1>1, TicketCall DEF Steps, Shape, Rows
<1>3. CASE Done(s) /\ UNCHANGED tickets
  BY <1>1, <1>3, Ends DEF Others
<1>4. CASE /\ To(s, "forget", call[s].arg)
           /\ tickets' = [tickets EXCEPT ![call[s].on] = tickets[call[s].on] \ {call[s].arg}]
  BY <1>1, <1>2, <1>4, TicketOn DEF At
<1> QED
  BY <1>1, <1>3, <1>4

(* A step of another kind moves no toggling call, and of the rows the tickets *)
(* rest on it takes away at most a pin with its tickets, or posts a pin that  *)
(* no device knows.                                                            *)
Aside ==
  /\ \A t \in Slot : Toggle(t) \/ Toggle(t)' => call'[t] = call[t]
  /\ UNCHANGED <<mine, lost, load>> /\ used \subseteq used'
  /\ \A p \in Pin : \/ tickets'[p] = tickets[p] /\ (p \in Stored' => p \in Stored \/ ~Known(p))
                    \/ tickets'[p] = {} /\ p \notin Stored'

LEMMA AsideStep ==
  ASSUME Shape, KnownInd, [Next]_vars
  PROVE  Aside \/ \E s \in Slot : TicketStep(s)
<1>1. CASE UNCHANGED vars
  BY <1>1 DEF Aside, Stored, Toggle, Is
<1>2. CASE MemberStep
  BY <1>2, MemberStepKeeps DEF Aside, Stored, Toggle, Is
<1>3. CASE PinGone
  <2>1. UNCHANGED <<mine, lost, load, used, call>> /\ pins \in [Pin -> Row \cup {None}]
        /\ tickets \in [Pin -> SUBSET Ticket]
    BY <1>3 DEF PinGone, Approve, Unpin, Shape, Rows
  <2>2. \A p \in Pin : \/ tickets'[p] = tickets[p] /\ (p \in Stored' => p \in Stored)
                       \/ tickets'[p] = {} /\ p \notin Stored'
    BY <1>3, <2>1 DEF PinGone, Approve, Unpin, TicketsGo, Stored
  <2> QED BY <2>1, <2>2 DEF Aside
<1>4. ASSUME NEW s \in Slot, ReportStep(s) PROVE Aside
  <2>1. used \subseteq used'
    BY <1>4 DEF ReportStep, ReportRead, ReportRow, ReportSeal, ReportHalved
  <2>2. Moves(s, {"report"}) /\ UNCHANGED <<pins, tickets, mine, lost, load>>
    BY <1>4, ReportStepKeeps
  <2> QED BY <2>1, <2>2, Apart DEF Aside, Stored, Is, Toggle
<1>5. ASSUME NEW s \in Slot, RotateStep(s) PROVE Aside
  <2>1. Moves(s, {"rotate"}) /\ UNCHANGED <<pins, tickets, mine, lost, load, used>>
    BY <1>5, RotateStepKeeps
  <2> QED BY <2>1, Apart DEF Aside, Stored, Is, Toggle
<1>6. ASSUME NEW s \in Slot, RotateCommit(s) PROVE Aside
  <2>1. Moves(s, {"rotate"}) /\ UNCHANGED <<tickets, mine, lost, load, used>>
    BY <1>6, RotateCommitKeeps
  <2>2. Stored' \subseteq Stored
    BY <1>6 DEF RotateCommit, Resealed, Stored
  <2> QED BY <2>1, <2>2, Apart DEF Aside, Is, Toggle
<1>7. ASSUME NEW s \in Slot, PinStep(s) PROVE Aside
  <2>1. used \subseteq used'
    BY <1>7 DEF PinStep, PinSeal, PinLabel
  <2>2. Moves(s, {"pin"}) /\ UNCHANGED <<pins, tickets, mine, lost, load>>
    BY <1>7, PinStepKeeps
  <2> QED BY <2>1, <2>2, Apart DEF Aside, Stored, Is, Toggle
<1>8. ASSUME NEW s \in Slot, PinPost(s) PROVE Aside
  <2>1. Moves(s, {"pin"}) /\ Is(s, "pin") /\ UNCHANGED <<tickets, mine, lost, load, used>>
    BY <1>8, PinPostKeeps DEF Is
  <2>2. Stored' \subseteq Stored \cup {call[s].on}
    <3>1. UNCHANGED pins \/ \E r : pins' = [pins EXCEPT ![call[s].on] = r]
      BY <1>8 DEF PinPost
    <3>2. pins \in [Pin -> Row \cup {None}] /\ call[s].on \in Pin
      BY <2>1, Running DEF Shape, Rows, Is, Fits
    <3> QED BY <3>1, <3>2 DEF Stored
  <2>3. ~Known(call[s].on)
    BY <2>1 DEF KnownInd
  <2>4. \A t \in Slot : Toggle(t) \/ Toggle(t)' => call'[t] = call[t]
    BY <2>1, Apart DEF Is, Toggle
  <2> QED BY <2>1, <2>2, <2>3, <2>4 DEF Aside
<1>9. ASSUME NEW s \in Slot, ListShow(s) \/ \E a \in Account : ListRead(s, a) PROVE Aside
  <2>1. Moves(s, {"list"}) /\ UNCHANGED <<pins, tickets, mine, lost, load, used>>
    BY <1>9, ListKeeps
  <2> QED BY <2>1, Apart DEF Aside, Stored, Is, Toggle
<1> QED
  BY <1>1, <1>2, <1>3, <1>4, <1>5, <1>6, <1>7, <1>8, <1>9, Kinds

-----------------------------------------------------------------------------
(* How many tickets an event has: those that were inserted, and those whose  *)
(* insert is under way, are fewer than the members and the calls in flight.  *)

Inserting(p) == {s \in Slot : At(s, "go", "insert") /\ call[s].on = p}

BoundInd ==
  \A p \in Pin :
    /\ IsFiniteSet(tickets[p])
    /\ Cardinality(tickets[p]) + Cardinality(Inserting(p))
         < Cardinality(load.members) + Cardinality(load.slots)

LEMMA InsertingFinite ==
  ASSUME Shape, NEW p \in Pin
  PROVE  /\ Inserting(p) \subseteq load.slots /\ IsFiniteSet(Inserting(p))
         /\ Cardinality(Inserting(p)) \in Nat
         /\ Cardinality(Inserting(p)) <= Cardinality(load.slots)
         /\ Cardinality(load.slots) \in Nat /\ Cardinality(load.members) \in Nat
         /\ Cardinality(load.members) # 0
         /\ IsFiniteSet(load.members)
<1>1. Inserting(p) \subseteq load.slots
  BY Running DEF Inserting, At
<1>2. /\ load \in Loads /\ IsFiniteSet(load.slots)
      /\ IsFiniteSet(load.members) /\ load.members # {}
  BY Constants DEF Shape, Rows
<1> QED
  BY <1>1, <1>2, FS_Subset, FS_CardinalityType, FS_EmptySet

LEMMA InitBound == Init => BoundInd
<1> SUFFICES ASSUME Init, NEW p \in Pin
             PROVE  /\ IsFiniteSet(tickets[p])
                    /\ Cardinality(tickets[p]) + Cardinality(Inserting(p))
                         < Cardinality(load.members) + Cardinality(load.slots)
  BY DEF BoundInd
<1>1. tickets[p] = {}
  BY DEF Init
<1>2. Inserting(p) = {}
  BY DEF Init, Inserting, At
<1> QED
  BY <1>1, <1>2, InitShape, InsertingFinite, FS_EmptySet

LEMMA BoundKept ==
  ASSUME Shape, BoundInd, UNCHANGED load, NEW p \in Pin,
         tickets'[p] \subseteq tickets[p], Inserting(p)' \subseteq Inserting(p)
  PROVE  /\ IsFiniteSet(tickets'[p])
         /\ Cardinality(tickets'[p]) + Cardinality(Inserting(p)')
              < Cardinality(load.members) + Cardinality(load.slots)
<1> DEFINE T == tickets'[p]
           I == Inserting(p)'
<1>1. IsFiniteSet(tickets[p]) /\ IsFiniteSet(Inserting(p))
  BY InsertingFinite DEF BoundInd
<1>2. T \subseteq tickets[p] /\ I \subseteq Inserting(p)
  OBVIOUS
<1> HIDE DEF T, I
<1>3. /\ IsFiniteSet(T) /\ Cardinality(T) <= Cardinality(tickets[p]) /\ Cardinality(T) \in Nat
      /\ Cardinality(I) <= Cardinality(Inserting(p)) /\ Cardinality(I) \in Nat
      /\ Cardinality(tickets[p]) \in Nat /\ Cardinality(Inserting(p)) \in Nat
  BY <1>1, <1>2, FS_Subset, FS_CardinalityType
<1>4. Cardinality(tickets[p]) + Cardinality(Inserting(p))
        < Cardinality(load.members) + Cardinality(load.slots)
  BY DEF BoundInd
<1>5. /\ IsFiniteSet(T)
      /\ Cardinality(T) + Cardinality(I) < Cardinality(load.members) + Cardinality(load.slots)
  BY <1>3, <1>4, InsertingFinite
<1> QED
  BY <1>5 DEF T, I

LEMMA BoundStep == Shape /\ KnownInd /\ BoundInd /\ [Next]_vars => BoundInd'
<1> SUFFICES ASSUME Shape, KnownInd, BoundInd, [Next]_vars PROVE BoundInd'
  OBVIOUS
<1>1. ASSUME UNCHANGED load,
             \A p \in Pin : tickets'[p] \subseteq tickets[p]
                            /\ Inserting(p)' \subseteq Inserting(p)
      PROVE  BoundInd'
  BY <1>1, BoundKept DEF BoundInd
<1>2. CASE Aside
  <2>1. \A p \in Pin : Inserting(p)' \subseteq Inserting(p)
    BY <1>2 DEF Aside, Inserting, At, Toggle, Is
  <2> QED BY <1>1, <1>2, <2>1 DEF Aside
<1>3. ASSUME NEW s \in Slot, Others(s), UNCHANGED load, At(s, "go", "insert")' => FALSE,
             \A p \in Pin : tickets'[p] \subseteq tickets[p]
      PROVE  BoundInd'
  <2>1. \A p \in Pin : Inserting(p)' \subseteq Inserting(p)
    BY <1>3 DEF Others, Inserting, At
  <2> QED BY <1>1, <1>3, <2>1
<1>4. ASSUME NEW s \in Slot, NEW a \in Account, NEW p \in Pin, Go(s, a, p) PROVE BoundInd'
  BY <1>3, <1>4, GoBegins DEF At
<1>5. ASSUME NEW s \in Slot, NEW a \in Account, NEW p \in Pin, Withdraw(s, a, p) PROVE BoundInd'
  BY <1>3, <1>5, WithdrawBegins DEF At
<1>6. ASSUME NEW s \in Slot, GoKeep(s) PROVE BoundInd'
  BY <1>3, <1>6, GoKeeps DEF At
<1>7. ASSUME NEW s \in Slot, WithdrawForget(s) PROVE BoundInd'
  BY <1>3, <1>7, WithdrawForgets DEF At
<1>8. ASSUME NEW s \in Slot, GoLost(s) \/ WithdrawLost(s) PROVE BoundInd'
  <2>1. Others(s) /\ call'[s] = None /\ UNCHANGED <<tickets, load>>
    BY <1>8, Loses
  <2> QED BY <1>3, <2>1 DEF At
<1>9. ASSUME NEW s \in Slot, WithdrawDelete(s) PROVE BoundInd'
  <2>1. /\ Others(s) /\ UNCHANGED load /\ \A p \in Pin : tickets'[p] \subseteq tickets[p]
        /\ ~At(s, "go", "insert")'
    BY <1>9, WithdrawDeletes DEF At
  <2> QED BY <1>3, <2>1
<1>10. ASSUME NEW s \in Slot, GoCount(s) PROVE BoundInd'
  <2>1. Others(s) /\ UNCHANGED <<tickets, load>> /\ At(s, "go", "count") /\ Toggle(s)
    BY <1>10, GoCounts
  <2>2. CASE call'[s] = None
    BY <1>3, <2>1, <2>2 DEF At
  <2>3. CASE /\ call'[s] # None /\ call'[s].on = call[s].on
             /\ Cardinality(tickets[call[s].on]) < Cardinality(active)
    <3>1. \A p \in Pin : p # call[s].on => Inserting(p)' \subseteq Inserting(p)
      BY <2>1, <2>3 DEF Others, Inserting, At
    <3>2. \A p \in Pin : p # call[s].on =>
            /\ IsFiniteSet(tickets'[p])
            /\ Cardinality(tickets'[p]) + Cardinality(Inserting(p)')
                 < Cardinality(load.members) + Cardinality(load.slots)
      BY <2>1, <3>1, BoundKept
    <3>3. PICK p \in Pin : p = call[s].on
      BY <2>1, TicketCall
    <3>4. active \subseteq load.members /\ IsFiniteSet(load.members) /\ IsFiniteSet(tickets[p])
      BY <3>3, InsertingFinite DEF Shape, Rows, BoundInd
    <3>5. /\ Cardinality(tickets[p]) \in Nat /\ Cardinality(active) \in Nat
          /\ Cardinality(active) <= Cardinality(load.members)
      BY <3>4, FS_Subset, FS_CardinalityType
    <3>6. Inserting(p)' \subseteq load.slots /\ IsFiniteSet(load.slots)
      <4>1. Inserting(p)' \subseteq Inserting(p) \cup {s}
        BY <2>1 DEF Others, Inserting, At
      <4> QED BY <2>1, <4>1, TicketCall, InsertingFinite, Constants DEF Shape, Rows
    <3>7. /\ Cardinality(Inserting(p)') \in Nat
          /\ Cardinality(Inserting(p)') <= Cardinality(load.slots)
          /\ Cardinality(load.slots) \in Nat /\ Cardinality(load.members) \in Nat
      <4> DEFINE I == Inserting(p)'
      <4>1. I \subseteq load.slots
        BY <3>6
      <4> HIDE DEF I
      <4>2. Cardinality(I) \in Nat /\ Cardinality(I) <= Cardinality(load.slots)
        BY <3>6, <4>1, FS_Subset, FS_CardinalityType
      <4> QED BY <4>2, InsertingFinite DEF I
    <3>8. /\ IsFiniteSet(tickets'[p])
          /\ Cardinality(tickets'[p]) + Cardinality(Inserting(p)')
               < Cardinality(load.members) + Cardinality(load.slots)
      BY <2>1, <2>3, <3>3, <3>4, <3>5, <3>7
    <3> QED BY <2>1, <3>2, <3>3, <3>8 DEF BoundInd
  <2> QED BY <1>10, <2>2, <2>3, GoCounts
<1>11. ASSUME NEW s \in Slot, GoInsert(s) PROVE BoundInd'
  <2>1. Others(s) /\ UNCHANGED load /\ At(s, "go", "insert") /\ Toggle(s)
    BY <1>11, GoInserts
  <2>2. CASE call'[s] = None /\ UNCHANGED tickets
    BY <1>3, <2>1, <2>2 DEF At
  <2>3. CASE /\ call'[s] # None /\ call'[s].step = "keep"
             /\ tickets'[call[s].on] = tickets[call[s].on] \cup {call[s].arg}
             /\ \A q \in Pin : q # call[s].on => tickets'[q] = tickets[q]
    <3>1. \A p \in Pin : Inserting(p)' \subseteq Inserting(p)
      BY <2>1, <2>3 DEF Others, Inserting, At
    <3>2. \A p \in Pin : p # call[s].on =>
            /\ IsFiniteSet(tickets'[p])
            /\ Cardinality(tickets'[p]) + Cardinality(Inserting(p)')
                 < Cardinality(load.members) + Cardinality(load.slots)
      BY <2>1, <2>3, <3>1, BoundKept
    <3>3. PICK p \in Pin : p = call[s].on
      BY <2>1, TicketCall
    <3>4. Inserting(p)' = Inserting(p) \ {s} /\ s \in Inserting(p)
      BY <2>1, <2>3, <3>3 DEF Others, Inserting, At
    <3>5. tickets'[p] = tickets[p] \cup {call[s].arg}
      BY <2>3, <3>3
    <3>6. IsFiniteSet(tickets[p]) /\ IsFiniteSet(Inserting(p))
          /\ Cardinality(load.slots) \in Nat /\ Cardinality(load.members) \in Nat
      BY InsertingFinite DEF BoundInd
    <3>7. /\ IsFiniteSet(tickets[p] \cup {call[s].arg})
          /\ Cardinality(tickets[p] \cup {call[s].arg}) \in Nat /\ Cardinality(tickets[p]) \in Nat
          /\ Cardinality(tickets[p] \cup {call[s].arg}) <= Cardinality(tickets[p]) + 1
      <4>1. IsFiniteSet(tickets[p] \cup {call[s].arg})
            /\ Cardinality(tickets[p] \cup {call[s].arg}) =
                 IF call[s].arg \in tickets[p] THEN Cardinality(tickets[p])
                                               ELSE Cardinality(tickets[p]) + 1
        BY <3>6, FS_AddElement
      <4>2. Cardinality(tickets[p]) \in Nat
        BY <3>6, FS_CardinalityType
      <4> QED BY <4>1, <4>2
    <3>8. /\ Cardinality(Inserting(p) \ {s}) = Cardinality(Inserting(p)) - 1
          /\ Cardinality(Inserting(p)) \in Nat
      BY <3>4, <3>6, FS_RemoveElement, FS_CardinalityType
    <3>9. Cardinality(tickets[p]) + Cardinality(Inserting(p))
            < Cardinality(load.members) + Cardinality(load.slots)
      BY DEF BoundInd
    <3>10. /\ IsFiniteSet(tickets'[p])
           /\ Cardinality(tickets'[p]) + Cardinality(Inserting(p)')
                < Cardinality(load.members) + Cardinality(load.slots)
      BY <3>4, <3>5, <3>6, <3>7, <3>8, <3>9
    <3> QED BY <2>1, <3>2, <3>3, <3>10 DEF BoundInd
  <2> QED BY <1>11, <2>2, <2>3, GoInserts
<1> QED
  BY <1>2, <1>4, <1>5, <1>6, <1>7, <1>8, <1>9, <1>10, <1>11, AsideStep DEF TicketStep

-----------------------------------------------------------------------------
(* Whose ticket is whose.  A device claims a ticket when it holds it or has a *)
(* call under way for it.  No two claims are of the same ticket but those of  *)
(* one device for one pin; and while a ticket is on its way, nobody else has  *)
(* it.                                                                         *)

Claim(t, a, p) ==
  \/ mine[a][p] = t
  \/ \E s \in Slot : Toggle(s) /\ call[s].by = a /\ call[s].on = p /\ call[s].arg = t

ClaimsApart ==
  \A t \in Ticket, a \in Account, p \in Pin : Claim(t, a, p) =>
    /\ t \in used
    /\ \A b \in Account, q \in Pin : Claim(t, b, q) => b = a /\ q = p
    /\ \A q \in Pin : t \in tickets[q] => q = p

TicketsUsed == \A p \in Pin : \A t \in tickets[p] : t \in used

Fresh(s) ==
  /\ \A u \in Slot : Toggle(u) /\ call[u].arg = call[s].arg => u = s
  /\ \A a \in Account, p \in Pin : mine[a][p] # call[s].arg
  /\ call[s].step # "keep" => \A p \in Pin : call[s].arg \notin tickets[p]
  /\ call[s].step = "keep" /\ call[s].on \in Stored => call[s].arg \in tickets[call[s].on]

OnItsWay ==
  /\ \A s \in Slot : Is(s, "go") => Fresh(s)
  /\ \A s \in Slot : At(s, "withdraw", "forget") => call[s].arg \notin tickets[call[s].on]

(* Of a user who waits after a tap, the calls and the device's ticket agree. *)
Waiting ==
  load.taps = "once" =>
    \A s \in Slot : Toggle(s) =>
      /\ \A u \in Slot : Toggle(u) /\ call[u].by = call[s].by => u = s
      /\ call[s].op = "go" => mine[call[s].by][call[s].on] = None
      /\ call[s].op = "withdraw" => mine[call[s].by][call[s].on] = call[s].arg

ClaimsInd == ClaimsApart /\ TicketsUsed

LEMMA InitClaims == Init => ClaimsInd /\ OnItsWay /\ Waiting /\ TicketsHeld /\ MineCounts
<1> SUFFICES ASSUME Init PROVE ClaimsInd /\ OnItsWay /\ Waiting /\ TicketsHeld /\ MineCounts
  OBVIOUS
<1>1. /\ \A s \in Slot : call[s] = None
      /\ \A a \in Account, p \in Pin : mine[a][p] = None
      /\ \A p \in Pin : tickets[p] = {}
  BY DEF Init
<1>2. \A t \in Ticket : t # None
  BY Constants
<1> QED
  BY <1>1, <1>2 DEF ClaimsInd, ClaimsApart, TicketsUsed, Claim, OnItsWay, Waiting,
     TicketsHeld, MineCounts, Is, Toggle, At, Stored

(* No new claim, and no ticket stored but for a pin it is claimed for. *)
LEMMA ClaimsKept ==
  ASSUME ClaimsInd, Shape, used \subseteq used',
         \A t \in Ticket, a \in Account, p \in Pin : Claim(t, a, p)' => Claim(t, a, p),
         \A p \in Pin : \A t \in tickets'[p] :
           t \in Ticket /\ (t \in tickets[p] \/ \E a \in Account : Claim(t, a, p))
  PROVE  ClaimsInd'
<1>1. TicketsUsed'
  BY DEF ClaimsInd, ClaimsApart, TicketsUsed
<1>2. ASSUME NEW t \in Ticket, NEW a \in Account, NEW p \in Pin, Claim(t, a, p)'
      PROVE  /\ t \in used'
             /\ \A b \in Account, q \in Pin : Claim(t, b, q)' => b = a /\ q = p
             /\ \A q \in Pin : t \in tickets'[q] => q = p
  BY <1>2 DEF ClaimsInd, ClaimsApart
<1> QED
  BY <1>1, <1>2 DEF ClaimsInd, ClaimsApart

LEMMA ClaimsAside ==
  ASSUME Shape, ClaimsInd, Aside
  PROVE  ClaimsInd'
<1>1. \A t \in Ticket, a \in Account, p \in Pin : Claim(t, a, p)' => Claim(t, a, p)
  BY DEF Aside, Claim, Toggle, Is
<1>2. tickets \in [Pin -> SUBSET Ticket]
  BY DEF Shape, Rows
<1> QED
  BY <1>1, <1>2, ClaimsKept DEF Aside

(* A ticket's call claims what it claimed, and the device keeps no other.    *)
LEMMA ClaimsOfCall ==
  ASSUME Shape, NEW s \in Slot, Toggle(s), Others(s),
         \/ call'[s] = None
         \/ call'[s].by = call[s].by /\ call'[s].on = call[s].on /\ call'[s].arg = call[s].arg,
         \A a \in Account, p \in Pin :
           \/ mine'[a][p] \in {None, mine[a][p]}
           \/ a = call[s].by /\ p = call[s].on /\ mine'[a][p] = call[s].arg
  PROVE  \A t \in Ticket, a \in Account, p \in Pin : Claim(t, a, p)' => Claim(t, a, p)
BY Constants DEF Others, Claim, Toggle, Is

LEMMA ClaimsStep == Shape /\ KnownInd /\ ClaimsInd /\ [Next]_vars => ClaimsInd'
<1> SUFFICES ASSUME Shape, KnownInd, ClaimsInd, [Next]_vars PROVE ClaimsInd'
  OBVIOUS
<1>0. tickets \in [Pin -> SUBSET Ticket]
  BY DEF Shape, Rows
<1>1. ASSUME NEW s \in Slot, Toggle(s), Others(s), UNCHANGED used,
             \/ call'[s] = None
             \/ call'[s].by = call[s].by /\ call'[s].on = call[s].on /\ call'[s].arg = call[s].arg,
             \A a \in Account, p \in Pin :
               \/ mine'[a][p] \in {None, mine[a][p]}
               \/ a = call[s].by /\ p = call[s].on /\ mine'[a][p] = call[s].arg,
             \A p \in Pin : \A t \in tickets'[p] :
               t \in tickets[p] \/ (p = call[s].on /\ t = call[s].arg)
      PROVE  ClaimsInd'
  <2>1. \A t \in Ticket, a \in Account, p \in Pin : Claim(t, a, p)' => Claim(t, a, p)
    BY <1>1, ClaimsOfCall
  <2>2. Claim(call[s].arg, call[s].by, call[s].on) /\ call[s].by \in Account
        /\ call[s].arg \in Ticket
    BY <1>1, TicketCall DEF Claim
  <2>3. \A p \in Pin : \A t \in tickets'[p] :
          t \in Ticket /\ (t \in tickets[p] \/ \E a \in Account : Claim(t, a, p))
    BY <1>0, <1>1, <2>2
  <2> QED BY <1>1, <2>1, <2>3, ClaimsKept
<1>2. ASSUME NEW s \in Slot, NEW a \in Account, NEW p \in Pin, Go(s, a, p) PROVE ClaimsInd'
  <2>1. PICK t \in Ticket \ used :
           /\ call[s] = None /\ call'[s] # None /\ call'[s].op = "go"
           /\ call'[s].by = a /\ call'[s].on = p /\ call'[s].arg = t /\ Others(s)
           /\ used' = used \cup {t} /\ UNCHANGED <<tickets, mine>>
    BY <1>2, GoBegins
  <2>2. \A x \in Ticket, b \in Account, q \in Pin :
          Claim(x, b, q)' => Claim(x, b, q) \/ (x = t /\ b = a /\ q = p)
    BY <2>1 DEF Claim, Others, Toggle, Is
  <2>3. \A b \in Account, q \in Pin : ~Claim(t, b, q) /\ t \notin tickets[q]
    BY <2>1 DEF ClaimsInd, ClaimsApart, TicketsUsed
  <2>4. ASSUME NEW x \in Ticket, NEW b \in Account, NEW q \in Pin, Claim(x, b, q)'
        PROVE  /\ x \in used'
               /\ \A c \in Account, r \in Pin : Claim(x, c, r)' => c = b /\ r = q
               /\ \A r \in Pin : x \in tickets'[r] => r = q
    <3>1. CASE x = t
      BY <2>1, <2>2, <2>3, <2>4, <3>1
    <3>2. CASE x # t
      BY <2>1, <2>2, <2>4, <3>2 DEF ClaimsInd, ClaimsApart
    <3> QED BY <3>1, <3>2
  <2>5. TicketsUsed'
    BY <2>1 DEF ClaimsInd, TicketsUsed
  <2> QED BY <2>4, <2>5 DEF ClaimsInd, ClaimsApart
<1>3. ASSUME NEW s \in Slot, NEW a \in Account, NEW p \in Pin, Withdraw(s, a, p) PROVE ClaimsInd'
  <2>1. /\ call[s] = None /\ call'[s].by = a /\ call'[s].on = p /\ call'[s].arg = mine[a][p]
        /\ Others(s) /\ UNCHANGED <<tickets, mine, used>>
    BY <1>3, WithdrawBegins
  <2>2. \A x \in Ticket, b \in Account, q \in Pin : Claim(x, b, q)' => Claim(x, b, q)
    BY <2>1 DEF Claim, Others, Toggle, Is
  <2> QED BY <1>0, <2>1, <2>2, ClaimsKept
<1>4. ASSUME NEW s \in Slot, GoCount(s) PROVE ClaimsInd'
  BY <1>1, <1>4, GoCounts
<1>5. ASSUME NEW s \in Slot, GoInsert(s) PROVE ClaimsInd'
  BY <1>1, <1>5, GoInserts
<1>6. ASSUME NEW s \in Slot, GoKeep(s) PROVE ClaimsInd'
  BY <1>1, <1>6, GoKeeps
<1>7. ASSUME NEW s \in Slot, GoLost(s) \/ WithdrawLost(s) PROVE ClaimsInd'
  BY <1>1, <1>7, Loses
<1>8. ASSUME NEW s \in Slot, WithdrawDelete(s) PROVE ClaimsInd'
  BY <1>1, <1>8, WithdrawDeletes
<1>9. ASSUME NEW s \in Slot, WithdrawForget(s) PROVE ClaimsInd'
  BY <1>1, <1>9, WithdrawForgets
<1> QED
  BY <1>2, <1>3, <1>4, <1>5, <1>6, <1>7, <1>8, <1>9, AsideStep, ClaimsAside DEF TicketStep

(* What a step leaves of a ticket on its way. *)
LEMMA FreshKept ==
  ASSUME NEW s \in Slot, Is(s, "go"), Fresh(s), UNCHANGED pins, call'[s] = call[s],
         \A u \in Slot : u # s => ~(Toggle(u)' /\ call'[u].arg = call[s].arg),
         \A a \in Account, p \in Pin : mine'[a][p] # call[s].arg,
         \A p \in Pin : (call[s].arg \in tickets'[p]) = (call[s].arg \in tickets[p]),
         call[s].on \in Pin
  PROVE  Fresh(s)'
BY DEF Fresh, Stored

LEMMA OnItsWayStep ==
  Shape /\ KnownInd /\ ClaimsInd /\ OnItsWay /\ [Next]_vars => OnItsWay'
<1> SUFFICES ASSUME Shape, KnownInd, ClaimsInd, OnItsWay, [Next]_vars PROVE OnItsWay'
  OBVIOUS
<1>0. \A u \in Slot : Is(u, "go") =>
        /\ Toggle(u) /\ Fresh(u) /\ call[u].on \in Pin /\ call[u].arg \in Ticket
        /\ call[u].arg # None
  BY TicketCall, Constants DEF OnItsWay, Toggle
<1>1. CASE Aside
  <2>1. \A u \in Slot : Toggle(u) \/ Toggle(u)' => Toggle(u) /\ call'[u] = call[u]
    BY <1>1 DEF Aside, Toggle, Is
  <2>2. ASSUME NEW u \in Slot, Is(u, "go")' PROVE Fresh(u)'
    <3>1. Is(u, "go") /\ call'[u] = call[u] /\ call[u].on \in Pin
      BY <1>0, <2>1, <2>2 DEF Toggle, Is
    <3>2. Known(call[u].on)
      BY <3>1 DEF Known, Toggle
    <3> QED BY <1>0, <1>1, <2>1, <3>1, <3>2 DEF Aside, Fresh
  <2>3. ASSUME NEW u \in Slot, At(u, "withdraw", "forget")'
        PROVE  call'[u].arg \notin tickets'[call'[u].on]
    <3>1. At(u, "withdraw", "forget") /\ call'[u] = call[u] /\ call[u].on \in Pin
      BY <2>1, <2>3, TicketCall DEF At, Toggle, Is
    <3> QED BY <1>1, <3>1 DEF Aside, OnItsWay
  <2> QED BY <2>2, <2>3 DEF OnItsWay
(* The other calls, when the ticket of s is stored or taken away, or kept. *)
<1>2. ASSUME NEW s \in Slot, Others(s), UNCHANGED pins,
             Toggle(s)' => \/ Toggle(s) /\ call'[s].arg = call[s].arg
                           \/ \A u \in Slot : Is(u, "go") => call[u].arg # call'[s].arg,
             \A a \in Account, p \in Pin :
               \/ mine'[a][p] \in {None, mine[a][p]}
               \/ Toggle(s) /\ mine'[a][p] = call[s].arg,
             \A p \in Pin : \A t \in Ticket :
               (t \in tickets'[p]) = (t \in tickets[p]) \/ (Toggle(s) /\ t = call[s].arg)
      PROVE  \A u \in Slot : u # s /\ Is(u, "go")' => Fresh(u)'
  <2>1. SUFFICES ASSUME NEW u \in Slot, u # s, Is(u, "go")' PROVE Fresh(u)'
    OBVIOUS
  <2>2. call'[u] = call[u] /\ Is(u, "go") /\ Fresh(u) /\ call[u].arg \in Ticket
        /\ call[u].arg # None /\ call[u].on \in Pin
    BY <1>0, <1>2, <2>1 DEF Others, Is
  <2>3. Toggle(s) => call[s].arg # call[u].arg
    BY <2>1, <2>2 DEF Fresh
  <2>4. \A v \in Slot : v # u => ~(Toggle(v)' /\ call'[v].arg = call[u].arg)
    BY <1>2, <2>2, <2>3 DEF Fresh, Others, Toggle, Is
  <2>5. \A a \in Account, p \in Pin : mine'[a][p] # call[u].arg
    BY <1>2, <2>2, <2>3 DEF Fresh
  <2>6. \A p \in Pin : (call[u].arg \in tickets'[p]) = (call[u].arg \in tickets[p])
    BY <1>2, <2>2, <2>3
  <2> QED BY <1>2, <2>2, <2>4, <2>5, <2>6, FreshKept
<1>3. ASSUME NEW s \in Slot, Others(s),
             \A p \in Pin : \A t \in tickets'[p] : t \in tickets[p] \/ (Is(s, "go") /\ t = call[s].arg)
      PROVE  \A u \in Slot : u # s /\ At(u, "withdraw", "forget")'
                             => call'[u].arg \notin tickets'[call'[u].on]
  <2>1. SUFFICES ASSUME NEW u \in Slot, u # s, At(u, "withdraw", "forget")'
                 PROVE  call'[u].arg \notin tickets'[call'[u].on]
    OBVIOUS
  <2>2. call'[u] = call[u] /\ At(u, "withdraw", "forget") /\ Toggle(u) /\ call[u].on \in Pin
    BY <1>3, <2>1, TicketCall DEF Others, At, Toggle, Is
  <2>3. Is(s, "go") => call[u].arg # call[s].arg
    BY <1>0, <2>1, <2>2 DEF Fresh
  <2> QED BY <1>3, <2>2, <2>3 DEF OnItsWay
<1>4. ASSUME NEW s \in Slot, GoLost(s) \/ WithdrawLost(s) PROVE OnItsWay'
  <2>1. Others(s) /\ call'[s] = None /\ UNCHANGED <<pins, tickets, mine>>
    BY <1>4, Loses
  <2> QED BY <1>2, <1>3, <2>1 DEF OnItsWay, Toggle, Is, At
<1>5. ASSUME NEW s \in Slot, GoKeep(s) PROVE OnItsWay'
  <2>1. /\ Others(s) /\ call'[s] = None /\ UNCHANGED <<pins, tickets>> /\ Toggle(s)
        /\ \A a \in Account, p \in Pin : mine'[a][p] = mine[a][p] \/ mine'[a][p] = call[s].arg
    BY <1>5, GoKeeps
  <2> QED BY <1>2, <1>3, <2>1 DEF OnItsWay, Toggle, Is, At
<1>6. ASSUME NEW s \in Slot, WithdrawForget(s) PROVE OnItsWay'
  <2>1. /\ Others(s) /\ call'[s] = None /\ UNCHANGED <<pins, tickets>>
        /\ \A a \in Account, p \in Pin : mine'[a][p] = mine[a][p] \/ mine'[a][p] = None
    BY <1>6, WithdrawForgets
  <2> QED BY <1>2, <1>3, <2>1 DEF OnItsWay, Toggle, Is, At
<1>7. ASSUME NEW s \in Slot, NEW a \in Account, NEW p \in Pin, Withdraw(s, a, p) PROVE OnItsWay'
  <2>1. /\ Others(s) /\ call'[s] # None /\ call'[s].op = "withdraw" /\ call'[s].step = "delete"
        /\ call'[s].arg = mine[a][p] /\ UNCHANGED <<pins, tickets, mine>>
    BY <1>7, WithdrawBegins
  <2>2. \A u \in Slot : Is(u, "go") => call[u].arg # call'[s].arg
    BY <1>0, <2>1 DEF Fresh
  <2>3. \A u \in Slot : u # s /\ Is(u, "go")' => Fresh(u)'
    BY <1>2, <2>1, <2>2
  <2>4. \A u \in Slot : u # s /\ At(u, "withdraw", "forget")'
                             => call'[u].arg \notin tickets'[call'[u].on]
    BY <1>3, <2>1
  <2> QED BY <2>1, <2>3, <2>4 DEF OnItsWay, Is, At
<1>8. ASSUME NEW s \in Slot, NEW a \in Account, NEW p \in Pin, Go(s, a, p) PROVE OnItsWay'
  <2>1. PICK t \in Ticket \ used :
          /\ call'[s] # None /\ call'[s].op = "go" /\ call'[s].step = "count"
          /\ call'[s].by = a /\ call'[s].on = p /\ call'[s].arg = t /\ Others(s)
          /\ UNCHANGED <<pins, tickets, mine>>
    BY <1>8, GoBegins
  <2>2. \A b \in Account, q \in Pin : ~Claim(t, b, q) /\ t \notin tickets[q]
    BY <2>1 DEF ClaimsInd, ClaimsApart, TicketsUsed
  <2>3. \A u \in Slot : Toggle(u) => call[u].arg # t
    BY <2>2, TicketCall DEF Claim
  <2>4. \A b \in Account, q \in Pin : mine[b][q] # t
    BY <2>2 DEF Claim
  <2>5. Fresh(s)'
    BY <2>1, <2>2, <2>3, <2>4 DEF Fresh, Others, Toggle, Is
  <2>6. \A u \in Slot : u # s /\ Is(u, "go")' => Fresh(u)'
    BY <1>2, <2>1, <2>3 DEF Toggle
  <2>7. \A u \in Slot : u # s /\ At(u, "withdraw", "forget")'
                             => call'[u].arg \notin tickets'[call'[u].on]
    BY <1>3, <2>1
  <2> QED BY <2>1, <2>5, <2>6, <2>7 DEF OnItsWay, Is, At
<1>9. ASSUME NEW s \in Slot, GoCount(s) PROVE OnItsWay'
  <2>1. /\ At(s, "go", "count") /\ Toggle(s) /\ Others(s) /\ UNCHANGED <<pins, tickets, mine>>
        /\ \/ call'[s] = None
           \/ /\ call'[s] # None /\ call'[s].op = "go" /\ call'[s].step = "insert"
              /\ call'[s].arg = call[s].arg /\ call'[s].on = call[s].on
    BY <1>9, GoCounts
  <2>2. \A u \in Slot : u # s /\ Is(u, "go")' => Fresh(u)'
    BY <1>2, <2>1 DEF Toggle, Is
  <2>3. \A u \in Slot : u # s /\ At(u, "withdraw", "forget")'
                             => call'[u].arg \notin tickets'[call'[u].on]
    BY <1>3, <2>1
  <2>4. Is(s, "go")' => Fresh(s)'
    <3>1. Fresh(s) /\ call[s].step = "count"
      BY <1>0, <2>1 DEF At, Is
    <3> QED BY <2>1, <3>1 DEF Fresh, Others, Toggle, Is
  <2> QED BY <2>1, <2>2, <2>3, <2>4 DEF OnItsWay, Is, At
<1>10. ASSUME NEW s \in Slot, GoInsert(s) PROVE OnItsWay'
  <2>1. /\ At(s, "go", "insert") /\ Toggle(s) /\ Others(s) /\ UNCHANGED <<pins, mine>>
        /\ \/ call'[s] = None /\ UNCHANGED tickets
           \/ /\ call'[s] # None /\ call'[s].op = "go" /\ call'[s].step = "keep"
              /\ call'[s].on = call[s].on /\ call'[s].arg = call[s].arg
              /\ tickets'[call[s].on] = tickets[call[s].on] \cup {call[s].arg}
              /\ \A q \in Pin : q # call[s].on => tickets'[q] = tickets[q]
    BY <1>10, GoInserts
  <2>2. \A u \in Slot : u # s /\ Is(u, "go")' => Fresh(u)'
    BY <1>2, <2>1 DEF Toggle, Is
  <2>3. \A u \in Slot : u # s /\ At(u, "withdraw", "forget")'
                             => call'[u].arg \notin tickets'[call'[u].on]
    BY <1>3, <2>1 DEF At, Is
  <2>4. Is(s, "go")' => Fresh(s)'
    <3>1. Fresh(s)
      BY <1>0, <2>1 DEF At, Is
    <3> QED BY <2>1, <3>1 DEF Fresh, Others, Toggle, Is
  <2> QED BY <2>1, <2>2, <2>3, <2>4 DEF OnItsWay, Is, At
<1>11. ASSUME NEW s \in Slot, WithdrawDelete(s) PROVE OnItsWay'
  <2>1. /\ At(s, "withdraw", "delete") /\ Toggle(s) /\ Others(s) /\ UNCHANGED <<pins, mine>>
        /\ \/ call'[s] = None /\ UNCHANGED tickets
           \/ /\ call'[s] # None /\ call'[s].op = "withdraw" /\ call'[s].step = "forget"
              /\ call'[s].on = call[s].on /\ call'[s].arg = call[s].arg
              /\ tickets'[call[s].on] = tickets[call[s].on] \ {call[s].arg}
              /\ \A q \in Pin : q # call[s].on => tickets'[q] = tickets[q]
    BY <1>11, WithdrawDeletes
  <2>2. \A u \in Slot : u # s /\ Is(u, "go")' => Fresh(u)'
    BY <1>2, <2>1 DEF Toggle, Is
  <2>3. \A u \in Slot : u # s /\ At(u, "withdraw", "forget")'
                             => call'[u].arg \notin tickets'[call'[u].on]
    BY <1>3, <2>1
  <2> QED BY <2>1, <2>2, <2>3 DEF OnItsWay, Is, At
<1> QED
  BY <1>1, <1>4, <1>5, <1>6, <1>7, <1>8, <1>9, <1>10, <1>11, AsideStep DEF TicketStep

LEMMA WaitingStep == Shape /\ KnownInd /\ Waiting /\ [Next]_vars => Waiting'
<1> SUFFICES ASSUME Shape, KnownInd, Waiting, [Next]_vars, load'.taps = "once" PROVE Waiting'
  BY DEF Waiting
<1>1. CASE Aside
  <2>1. \A u \in Slot : Toggle(u) \/ Toggle(u)' => Toggle(u) /\ call'[u] = call[u]
    BY <1>1 DEF Aside, Toggle, Is
  <2> QED BY <1>1, <2>1 DEF Aside, Waiting
(* A call that goes on, or ends; and whatever it does to the device's ticket. *)
<1>2. ASSUME NEW s \in Slot, Toggle(s), Others(s), UNCHANGED load,
             \A a \in Account, p \in Pin : a # call[s].by => mine'[a][p] = mine[a][p],
             \/ call'[s] = None
             \/ /\ call'[s].op = call[s].op /\ call'[s].by = call[s].by
                /\ call'[s].on = call[s].on /\ call'[s].arg = call[s].arg /\ UNCHANGED mine
      PROVE  Waiting'
  <2>1. \A u \in Slot : Toggle(u) => call[u].by \in Account /\ call[u].on \in Pin
    BY TicketCall
  <2>2. \A u \in Slot : u # s /\ Toggle(u)' => Toggle(u) /\ call'[u] = call[u]
    BY <1>2 DEF Others, Toggle, Is
  <2>3. \A u \in Slot : u # s /\ Toggle(u) => call[u].by # call[s].by
    BY <1>2 DEF Waiting
  <2>4. CASE call'[s] = None
    BY <1>2, <2>1, <2>2, <2>3, <2>4 DEF Waiting, Toggle, Is
  <2>5. CASE /\ call'[s].op = call[s].op /\ call'[s].by = call[s].by
             /\ call'[s].on = call[s].on /\ call'[s].arg = call[s].arg /\ UNCHANGED mine
    BY <1>2, <2>1, <2>2, <2>3, <2>5 DEF Waiting, Toggle, Is
  <2> QED BY <1>2, <2>4, <2>5
<1>3. ASSUME NEW s \in Slot, NEW a \in Account, NEW p \in Pin, Withdraw(s, a, p) \/ Go(s, a, p)
      PROVE  Waiting'
  <2>1. /\ call[s] = None /\ call'[s].by = a /\ call'[s].on = p /\ Others(s)
        /\ UNCHANGED <<mine, load>> /\ ~Toggling(a)
        /\ \/ call'[s].op = "go" /\ mine[a][p] = None
           \/ call'[s].op = "withdraw" /\ mine[a][p] = call'[s].arg
    BY <1>3, GoBegins, WithdrawBegins
  <2>2. \A u \in Slot : u # s /\ Toggle(u)' => Toggle(u) /\ call'[u] = call[u] /\ call[u].by # a
    BY <2>1 DEF Others, Toggle, Is, Toggling
  <2> QED BY <2>1, <2>2 DEF Waiting, Toggle, Is
<1>4. ASSUME NEW s \in Slot, GoCount(s) PROVE Waiting'
  BY <1>2, <1>4, GoCounts DEF At
<1>5. ASSUME NEW s \in Slot, GoInsert(s) PROVE Waiting'
  BY <1>2, <1>5, GoInserts DEF At
<1>6. ASSUME NEW s \in Slot, GoKeep(s) PROVE Waiting'
  BY <1>2, <1>6, GoKeeps
<1>7. ASSUME NEW s \in Slot, GoLost(s) \/ WithdrawLost(s) PROVE Waiting'
  BY <1>2, <1>7, Loses
<1>8. ASSUME NEW s \in Slot, WithdrawDelete(s) PROVE Waiting'
  BY <1>2, <1>8, WithdrawDeletes DEF At
<1>9. ASSUME NEW s \in Slot, WithdrawForget(s) PROVE Waiting'
  BY <1>2, <1>9, WithdrawForgets
<1> QED
  BY <1>1, <1>3, <1>4, <1>5, <1>6, <1>7, <1>8, <1>9, AsideStep DEF TicketStep

-----------------------------------------------------------------------------
(* Device and server agree on who goes. *)

LEMMA HeldStep ==
  Shape /\ KnownInd /\ ClaimsInd /\ OnItsWay /\ Waiting /\ TicketsHeld /\ [Next]_vars
  => TicketsHeld'
<1> SUFFICES ASSUME Shape, KnownInd, ClaimsInd, OnItsWay, Waiting, TicketsHeld, [Next]_vars,
                    load'.taps = "once", NEW p \in Pin, NEW t \in tickets'[p] \ lost'
             PROVE  \/ \E a \in Account : mine'[a][p] = t
                    \/ \E s \in Slot : At(s, "go", "keep")' /\ call'[s].arg = t
  BY DEF TicketsHeld
<1>0. UNCHANGED load
  BY AsideStep, TicketStepKeeps DEF Aside
<1>1. t \in tickets[p] /\ t \notin lost =>
        \/ \E a \in Account : mine[a][p] = t
        \/ \E s \in Slot : At(s, "go", "keep") /\ call[s].arg = t
  BY <1>0 DEF TicketsHeld
<1>2. CASE Aside
  BY <1>1, <1>2 DEF Aside, At, Toggle, Is
<1>3. ASSUME NEW s \in Slot, Others(s), ~At(s, "go", "keep"), lost \subseteq lost',
             t \in tickets[p], UNCHANGED mine
      PROVE  \/ \E a \in Account : mine'[a][p] = t
             \/ \E u \in Slot : At(u, "go", "keep")' /\ call'[u].arg = t
  BY <1>1, <1>3 DEF Others, At
<1>4. ASSUME NEW s \in Slot, NEW a \in Account, NEW q \in Pin, Withdraw(s, a, q) \/ Go(s, a, q)
      PROVE  \/ \E b \in Account : mine'[b][p] = t
             \/ \E u \in Slot : At(u, "go", "keep")' /\ call'[u].arg = t
  <2>1. Others(s) /\ call[s] = None /\ UNCHANGED <<tickets, mine, lost>>
    BY <1>4, GoBegins, WithdrawBegins
  <2> QED BY <1>3, <2>1 DEF At
<1>5. ASSUME NEW s \in Slot, GoCount(s)
      PROVE  \/ \E a \in Account : mine'[a][p] = t
             \/ \E u \in Slot : At(u, "go", "keep")' /\ call'[u].arg = t
  BY <1>3, <1>5, GoCounts DEF At
<1>6. ASSUME NEW s \in Slot, GoInsert(s)
      PROVE  \/ \E a \in Account : mine'[a][p] = t
             \/ \E u \in Slot : At(u, "go", "keep")' /\ call'[u].arg = t
  <2>1. CASE t \in tickets[p]
    BY <1>3, <1>6, <2>1, GoInserts DEF At
  <2>2. CASE t \notin tickets[p]
    BY <1>6, <2>2, GoInserts DEF At
  <2> QED BY <2>1, <2>2
<1>7. ASSUME NEW s \in Slot, GoKeep(s)
      PROVE  \/ \E a \in Account : mine'[a][p] = t
             \/ \E u \in Slot : At(u, "go", "keep")' /\ call'[u].arg = t
  <2>1. /\ At(s, "go", "keep") /\ Toggle(s) /\ Others(s)
        /\ UNCHANGED <<tickets, lost>> /\ mine'[call[s].by][call[s].on] = call[s].arg
        /\ \A a \in Account, q \in Pin :
             ~(a = call[s].by /\ q = call[s].on) => mine'[a][q] = mine[a][q]
    BY <1>7, GoKeeps
  <2>2. call[s].by \in Account /\ call[s].arg \in Ticket /\ call[s].on \in Pin
    BY <2>1, TicketCall
  <2>3. mine[call[s].by][call[s].on] = None
    BY <1>0, <2>1 DEF Waiting, At
  <2>4. t # None
    BY <2>1, Constants DEF Shape, Rows
  <2>5. CASE t = call[s].arg
    <3>1. Claim(t, call[s].by, call[s].on)
      BY <2>1, <2>5 DEF Claim
    <3>2. p = call[s].on
      BY <2>1, <2>2, <2>5, <3>1 DEF ClaimsInd, ClaimsApart
    <3> QED BY <2>1, <2>2, <2>5, <3>2
  <2>6. CASE t # call[s].arg
    BY <1>1, <2>1, <2>3, <2>4, <2>6 DEF Others, At
  <2> QED BY <2>5, <2>6
<1>8. ASSUME NEW s \in Slot, GoLost(s) \/ WithdrawLost(s)
      PROVE  \/ \E a \in Account : mine'[a][p] = t
             \/ \E u \in Slot : At(u, "go", "keep")' /\ call'[u].arg = t
  <2>1. /\ Others(s) /\ UNCHANGED <<tickets, mine>> /\ lost \subseteq lost'
        /\ At(s, "go", "keep") => call[s].arg \in lost'
    BY <1>8, Loses
  <2> QED BY <1>1, <2>1 DEF Others, At
<1>9. ASSUME NEW s \in Slot, WithdrawDelete(s)
      PROVE  \/ \E a \in Account : mine'[a][p] = t
             \/ \E u \in Slot : At(u, "go", "keep")' /\ call'[u].arg = t
  <2>1. /\ Others(s) /\ UNCHANGED <<mine, lost>> /\ At(s, "withdraw", "delete")
        /\ tickets'[p] \subseteq tickets[p]
    BY <1>9, WithdrawDeletes
  <2> QED BY <1>3, <2>1 DEF At
<1>10. ASSUME NEW s \in Slot, WithdrawForget(s)
       PROVE  \/ \E a \in Account : mine'[a][p] = t
              \/ \E u \in Slot : At(u, "go", "keep")' /\ call'[u].arg = t
  <2>1. /\ At(s, "withdraw", "forget") /\ Toggle(s) /\ Others(s) /\ UNCHANGED <<tickets, lost>>
        /\ \A a \in Account, q \in Pin :
             ~(a = call[s].by /\ q = call[s].on) => mine'[a][q] = mine[a][q]
    BY <1>10, WithdrawForgets
  <2>2. mine[call[s].by][call[s].on] = call[s].arg /\ call[s].arg \notin tickets[call[s].on]
    BY <1>0, <2>1 DEF Waiting, OnItsWay, At
  <2> QED BY <1>1, <2>1, <2>2 DEF Others, At
<1>11. CASE UNCHANGED vars
  BY <1>1, <1>11 DEF At
<1> QED
  BY <1>2, <1>4, <1>5, <1>6, <1>7, <1>8, <1>9, <1>10, AsideStep DEF TicketStep

LEMMA CountsStep ==
  Shape /\ KnownInd /\ ClaimsInd /\ OnItsWay /\ MineCounts /\ [Next]_vars => MineCounts'
<1> DEFINE Counted(t, p) == \/ t \in tickets[p] \/ t \in lost
                            \/ \E s \in Slot : At(s, "withdraw", "forget") /\ call[s].arg = t
<1> SUFFICES ASSUME Shape, KnownInd, ClaimsInd, OnItsWay, MineCounts, [Next]_vars,
                    NEW a \in Account, NEW p \in Stored', NEW t, t = mine'[a][p], t # None
             PROVE  Counted(t, p)'
  BY DEF MineCounts
<1>0. p \in Pin
  BY DEF Stored
<1>1. p \in Stored /\ mine[a][p] = t => Counted(t, p)
  BY DEF MineCounts
<1>2. CASE Aside
  <2>1. mine[a][p] = t /\ p \in Stored /\ tickets'[p] = tickets[p]
    BY <1>0, <1>2 DEF Aside, Known
  <2> QED BY <1>1, <1>2, <2>1 DEF Aside, At, Toggle, Is
<1>3. ASSUME NEW s \in Slot, Others(s), ~At(s, "withdraw", "forget"), lost \subseteq lost',
             t \in tickets[p] => t \in tickets'[p], UNCHANGED pins, mine[a][p] = t
      PROVE  Counted(t, p)'
  <2>1. Counted(t, p)
    BY <1>1, <1>3 DEF Stored
  <2> QED BY <1>3, <2>1 DEF Others, At
<1>4. ASSUME NEW s \in Slot, NEW b \in Account, NEW q \in Pin, Withdraw(s, b, q) \/ Go(s, b, q)
      PROVE  Counted(t, p)'
  <2>1. Others(s) /\ call[s] = None /\ UNCHANGED <<pins, tickets, mine, lost>>
    BY <1>4, GoBegins, WithdrawBegins
  <2> QED BY <1>3, <2>1 DEF At
<1>5. ASSUME NEW s \in Slot, GoCount(s) PROVE Counted(t, p)'
  <2>1. Others(s) /\ UNCHANGED <<pins, tickets, mine, lost>> /\ At(s, "go", "count")
    BY <1>5, GoCounts
  <2> QED BY <1>3, <2>1 DEF At
<1>6. ASSUME NEW s \in Slot, GoInsert(s) PROVE Counted(t, p)'
  <2>1. /\ Others(s) /\ UNCHANGED <<pins, mine, lost>> /\ At(s, "go", "insert")
        /\ tickets[p] \subseteq tickets'[p]
    BY <1>0, <1>6, GoInserts
  <2> QED BY <1>3, <2>1 DEF At
<1>7. ASSUME NEW s \in Slot, GoKeep(s) PROVE Counted(t, p)'
  <2>1. /\ At(s, "go", "keep") /\ Others(s) /\ UNCHANGED <<pins, tickets, lost>>
        /\ mine'[call[s].by][call[s].on] = call[s].arg
        /\ ~(a = call[s].by /\ p = call[s].on) => mine'[a][p] = mine[a][p]
    BY <1>0, <1>7, GoKeeps
  <2>2. CASE a = call[s].by /\ p = call[s].on
    <3>1. Fresh(s) /\ call[s].on \in Stored
      BY <2>1, <2>2 DEF OnItsWay, At, Is, Stored
    <3> QED BY <2>1, <2>2, <3>1 DEF Fresh, At
  <2>3. CASE ~(a = call[s].by /\ p = call[s].on)
    BY <1>3, <2>1, <2>3 DEF At
  <2> QED BY <2>2, <2>3
<1>8. ASSUME NEW s \in Slot, GoLost(s) \/ WithdrawLost(s) PROVE Counted(t, p)'
  <2>1. /\ Others(s) /\ UNCHANGED <<pins, tickets, mine>> /\ lost \subseteq lost'
        /\ At(s, "withdraw", "forget") => call[s].arg \in lost'
    BY <1>8, Loses
  <2>2. Counted(t, p)
    BY <1>1, <2>1 DEF Stored
  <2> QED BY <2>1, <2>2 DEF Others, At
<1>9. ASSUME NEW s \in Slot, WithdrawDelete(s) PROVE Counted(t, p)'
  <2>1. /\ Others(s) /\ UNCHANGED <<pins, mine, lost>> /\ At(s, "withdraw", "delete")
        /\ \/ UNCHANGED tickets
           \/ /\ call'[s] # None /\ call'[s].op = "withdraw" /\ call'[s].step = "forget"
              /\ call'[s].arg = call[s].arg
              /\ tickets'[p] = tickets[p] \/ tickets'[p] = tickets[p] \ {call[s].arg}
    BY <1>0, <1>9, WithdrawDeletes
  <2>2. CASE t \in tickets[p] => t \in tickets'[p]
    BY <1>3, <2>1, <2>2 DEF At
  <2>3. CASE t \in tickets[p] /\ t \notin tickets'[p]
    BY <2>1, <2>3 DEF At
  <2> QED BY <2>2, <2>3
<1>10. ASSUME NEW s \in Slot, WithdrawForget(s) PROVE Counted(t, p)'
  <2>1. /\ At(s, "withdraw", "forget") /\ Toggle(s) /\ Others(s)
        /\ UNCHANGED <<pins, tickets, lost>> /\ mine'[call[s].by][call[s].on] = None
        /\ ~(a = call[s].by /\ p = call[s].on) => mine'[a][p] = mine[a][p]
    BY <1>0, <1>10, WithdrawForgets
  <2>2. ~(a = call[s].by /\ p = call[s].on) /\ mine[a][p] = t
    BY <2>1
  <2>3. t # call[s].arg
    <3>1. Claim(call[s].arg, call[s].by, call[s].on) /\ call[s].arg \in Ticket
          /\ call[s].by \in Account /\ call[s].on \in Pin
      BY <2>1, TicketCall DEF Claim
    <3>2. Claim(t, a, p)
      BY <2>2 DEF Claim
    <3> QED BY <1>0, <2>2, <3>1, <3>2 DEF ClaimsInd, ClaimsApart
  <2>4. Counted(t, p)
    BY <1>1, <2>1, <2>2 DEF Stored
  <2> QED BY <2>1, <2>3, <2>4 DEF Others, At
<1>11. CASE UNCHANGED vars
  BY <1>1, <1>11 DEF At, Stored
<1> QED
  BY <1>2, <1>4, <1>5, <1>6, <1>7, <1>8, <1>9, <1>10, AsideStep DEF TicketStep

-----------------------------------------------------------------------------
(* The inductive invariant of the board. *)

BoardInd ==
  /\ Shape /\ PinsInd /\ ViewsInd /\ ReportsInd
  /\ KnownInd /\ BoundInd /\ ClaimsInd /\ OnItsWay /\ Waiting /\ TicketsHeld /\ MineCounts

LEMMA BoardInductive == BoardSpec => []BoardInd
<1>1. Init => BoardInd
  BY InitShape, InitPins, InitViews, InitReports, InitKnown, InitBound, InitClaims DEF BoardInd
<1>2. BoardInd /\ [Next]_vars => BoardInd'
  BY ShapeStep, PinsStep, ViewsStep, ReportsStep, KnownStep, BoundStep, ClaimsStep,
     OnItsWayStep, WaitingStep, HeldStep, CountsStep DEF BoardInd
<1> QED
  BY <1>1, <1>2, PTL DEF BoardSpec

(* The rows are well-formed; every pin is sealed under the community's current *)
(* key unless it arrived late or during a rotation; and a view with nothing   *)
(* left to do shows the pins there are, and rightly who vouches for them      *)
(* (postArtifact, rotateCommunity, the Hub's channel-artifacts.ts).            *)
THEOREM TheBoardHolds == BoardSpec => []BoardInvariant
<1>1. BoardInd => BoardInvariant
  <2> SUFFICES ASSUME BoardInd PROVE BoardInvariant
    OBVIOUS
  <2>1. \A p \in Pin : pins[p] # None => pins[p].by \in Account
    BY DEF BoardInd, Shape, Rows, Row
  <2>2. BoardTypeOK
    BY <2>1, Constants DEF BoardInd, Shape, Rows, BoardTypeOK
  <2> QED BY <2>2 DEF BoardInvariant, BoardInd, PinsInd, ViewsInd
<1> QED
  BY <1>1, BoardInductive, PTL

(* An event has fewer tickets than members and calls in flight; every ticket  *)
(* that counts can be taken back, unless an answer was lost; and a device that *)
(* says "going" is counted (postTicket, deleteTicket, the Hub's participate).  *)
THEOREM TicketsHold == BoardSpec => []TicketsAgree
<1>1. BoardInd => TicketsAgree
  <2> SUFFICES ASSUME BoardInd, NEW p \in Pin
               PROVE  Cardinality(tickets[p]) < Cardinality(load.members) + Cardinality(load.slots)
    BY DEF TicketsAgree, TicketsBounded, BoardInd
  <2>1. IsFiniteSet(tickets[p])
        /\ Cardinality(tickets[p]) + Cardinality(Inserting(p))
             < Cardinality(load.members) + Cardinality(load.slots)
    BY DEF BoardInd, BoundInd
  <2>2. Cardinality(Inserting(p)) \in Nat /\ Cardinality(load.slots) \in Nat
        /\ Cardinality(load.members) \in Nat
    BY InsertingFinite DEF BoardInd
  <2>3. Cardinality(tickets[p]) \in Nat
    BY <2>1, FS_CardinalityType
  <2> QED BY <2>1, <2>2, <2>3
<1> QED
  BY <1>1, BoardInductive, PTL

(* A report nobody has handled is in the queue of every leader, unless its    *)
(* filing is under way or stopped halfway (postReport, listReports).           *)
THEOREM ReportsReach == BoardSpec => []ReportReaches
<1>1. BoardInd => ReportReaches
  BY DEF BoardInd, ReportsInd, Led, ReportReaches, InQueueOf
<1> QED
  BY <1>1, BoardInductive, PTL

-----------------------------------------------------------------------------
(* The reminders *)

USE DEF reminderVars, firingVars, clientVars, requestVars, reminderHistory

(* The ledger forgets a push only after the window in which it could be      *)
(* asked for again; a handler that was let through is still inside it.       *)
OnceInv ==
  /\ now \in Nat
  /\ fires \subseteq Event \X Nat
  /\ passed \subseteq Client \X Event
  /\ pushes \in [Event -> Nat]
  /\ \A f \in fires : Instant[f[1]] <= f[2] + Early
  /\ \A h \in passed : Accepted(h[2])
  /\ \A e \in Event : pushes[e] <= 1
  /\ \A e \in Event : pushes[e] # 0 => Fired(e) \/ Instant[e] + Grace < now

LEMMA OnceInit == ReminderInit => OnceInv
BY ReminderAssumption DEF ReminderInit, OnceInv

(* A step of the clients alone disturbs nothing that the invariant is about. *)
LEMMA OnceSame ==
  OnceInv /\ UNCHANGED <<now, fires, passed, pushes>> => OnceInv'
BY DEF OnceInv, Accepted, Fired

LEMMA OnceStep == OnceInv /\ [ReminderNext]_reminderVars => OnceInv'
<1> SUFFICES ASSUME OnceInv, [ReminderNext]_reminderVars
             PROVE  OnceInv'
  OBVIOUS
<1> USE ReminderAssumption
<1>1. CASE Tick
  <2>1. /\ now' = now + 1 /\ passed' = {} /\ fires' = fires /\ pushes' = pushes
    BY <1>1 DEF Tick
  <2>2. \A e \in Event : pushes'[e] # 0 => Fired(e)' \/ Instant[e] + Grace < now'
    BY <2>1 DEF OnceInv, Fired
  <2>. QED
    BY <2>1, <2>2 DEF OnceInv
<1>2. CASE Prune
  <2>1. /\ now' = now /\ passed' = passed /\ pushes' = pushes
        /\ fires' = {f \in fires : ~Outlived(f[2])}
    BY <1>2 DEF Prune
  <2>2. \A e \in Event : pushes'[e] # 0 => Fired(e)' \/ Instant[e] + Grace < now'
    <3> SUFFICES ASSUME NEW e \in Event, pushes[e] # 0, ~(Instant[e] + Grace < now)
                 PROVE  Fired(e)'
      BY <2>1
    <3>1. PICK f \in fires : f[1] = e
      BY DEF OnceInv, Fired
    <3>2. f[2] \in Nat /\ Instant[e] <= f[2] + Early /\ Instant[e] \in Nat
      BY <3>1 DEF OnceInv
    <3>3. ~Outlived(f[2])
      BY <3>2 DEF Outlived, OnceInv
    <3>. QED
      BY <3>1, <3>3, <2>1 DEF Fired
  <2>. QED
    BY <2>1, <2>2 DEF OnceInv, Accepted
<1>3. ASSUME NEW a \in Client, NEW e \in Event, Admit(a, e)
      PROVE  OnceInv'
  <2>1. /\ now' = now /\ fires' = fires /\ pushes' = pushes
        /\ passed' = passed \cup {<<a, e>>} /\ Accepted(e)
    BY <1>3 DEF Admit
  <2>. QED
    BY <2>1 DEF OnceInv, Accepted, Fired
<1>4. ASSUME NEW a \in Client, NEW e \in Event, Fire(a, e)
      PROVE  OnceInv'
  <2>1. /\ now' = now /\ <<a, e>> \in passed /\ passed' = passed \ {<<a, e>>}
    BY <1>4 DEF Fire
  <2>2. Accepted(e)
    BY <2>1 DEF OnceInv
  <2>3. CASE Fired(e)
    <3>1. fires' = fires /\ pushes' = pushes
      BY <1>4, <2>3 DEF Fire
    <3>. QED
      BY <2>1, <3>1 DEF OnceInv, Accepted, Fired
  <2>4. CASE ~Fired(e)
    <3>1. /\ fires' = fires \cup {<<e, now>>}
          /\ pushes' = [pushes EXCEPT ![e] = @ + 1]
      BY <1>4, <2>4 DEF Fire, Pushed
    <3>2. pushes[e] = 0
      BY <2>2, <2>4 DEF OnceInv, Accepted
    <3>3. pushes' \in [Event -> Nat] /\ \A x \in Event : pushes'[x] <= 1
      BY <3>1, <3>2 DEF OnceInv
    <3>4. fires' \subseteq Event \X Nat /\ \A f \in fires' : Instant[f[1]] <= f[2] + Early
      BY <3>1, <2>2 DEF OnceInv, Accepted
    <3>5. ASSUME NEW x \in Event, pushes'[x] # 0
          PROVE  Fired(x)' \/ Instant[x] + Grace < now'
      <4>1. CASE x = e
        <5>1. <<e, now>> \in fires' /\ <<e, now>>[1] = e
          BY <3>1
        <5>. QED
          BY <4>1, <5>1 DEF Fired
      <4>2. CASE x # e
        BY <4>2, <3>1, <3>5, <2>1 DEF OnceInv, Fired
      <4>. QED
        BY <4>1, <4>2
    <3>. QED
      BY <2>1, <3>3, <3>4, <3>5 DEF OnceInv, Accepted
  <2>. QED
    BY <2>3, <2>4
<1>5. ASSUME NEW e \in Event, UnpinEvent(e)
      PROVE  OnceInv'
  BY <1>5, OnceSame DEF UnpinEvent
<1>6. ASSUME NEW a \in Client,
             \/ Open(a) \/ Load(a) \/ Close(a) \/ SweepDue(a) \/ SweepEarly(a)
             \/ \E e \in Event : Refuse(a, e) \/ Defer(a, e)
      PROVE  OnceInv'
  BY <1>6, OnceSame DEF Open, Load, Close, SweepDue, SweepEarly, Refuse, Defer
<1>7. CASE UNCHANGED reminderVars
  BY <1>7, OnceSame
<1>. QED
  BY <1>1, <1>2, <1>3, <1>4, <1>5, <1>6, <1>7 DEF ReminderNext

(* Whoever asks, whenever and however often, an event is pushed once: the    *)
(* ledger of triggerChannelReminder and its pruning after a day.             *)
THEOREM ReminderFiresOnce == ReminderSpec => []ReminderOnce
<1>1. OnceInv => ReminderOnce
  BY DEF OnceInv, ReminderOnce
<1>. QED
  BY <1>1, OnceInit, OnceStep, PTL DEF ReminderSpec

-----------------------------------------------------------------------------
(* The shape of the state: what is waited for was asked, what is past its   *)
(* checks is still asked, and who watches an event has it loaded.            *)
LEMMA ShapeInit == ReminderInit => RemindersTypeOK
BY ReminderAssumption DEF ReminderInit, RemindersTypeOK

LEMMA ClockStep == OnceInv /\ RemindersTypeOK /\ [ReminderNext]_reminderVars => RemindersTypeOK'
<1> SUFFICES ASSUME OnceInv, RemindersTypeOK, [ReminderNext]_reminderVars
             PROVE  RemindersTypeOK'
  OBVIOUS
<1> USE ReminderAssumption DEF RemindersTypeOK
<1>1. CASE Tick
  <2>1. now' \in 0 .. MaxTime
    BY <1>1 DEF Tick
  <2>2. \A f \in fires : f[2] <= now'
    BY <1>1 DEF Tick, OnceInv
  <2>3. \A e \in Event : watched'[e] \subseteq loaded
    BY <1>1 DEF Tick, Asks, Watching
  <2>. QED
    BY <1>1, <2>1, <2>2, <2>3 DEF Tick
<1>2. CASE Prune
  BY <1>2 DEF Prune
<1>3. ASSUME NEW e \in Event, UnpinEvent(e)
      PROVE  RemindersTypeOK'
  BY <1>3 DEF UnpinEvent
<1>4. ASSUME NEW a \in Client, Open(a) \/ Load(a) \/ SweepDue(a) \/ SweepEarly(a)
      PROVE  RemindersTypeOK'
  <2>1. CASE Open(a) \/ Load(a)
    BY <1>4, <2>1 DEF Open, Load
  <2>2. CASE SweepDue(a)
    BY <1>4, <2>2 DEF SweepDue
  <2>3. CASE SweepEarly(a)
    BY <1>4, <2>3 DEF SweepEarly
  <2>. QED
    BY <1>4, <2>1, <2>2, <2>3
<1>5. ASSUME NEW a \in Client, Close(a)
      PROVE  RemindersTypeOK'
  <2>1. /\ online' = online \ {a} /\ loaded' = loaded \ {a}
        /\ waited' \subseteq waited
        /\ \A e \in Event : watched'[e] = watched[e] \ {a}
        /\ UNCHANGED <<now, firingVars, asked>>
    BY <1>5 DEF Close
  <2>. QED
    BY <2>1
<1>6. ASSUME NEW a \in Client, NEW e \in Event, Refuse(a, e) \/ Defer(a, e)
      PROVE  RemindersTypeOK'
  <2>1. /\ <<a, e>> \notin passed
        /\ asked' = asked \ {<<a, e>>} /\ waited' = waited \ {<<a, e>>}
        /\ UNCHANGED <<now, firingVars, online, loaded, reminderHistory>>
    BY <1>6 DEF Refuse, Defer, Answered
  <2>. QED
    BY <2>1
<1>7. ASSUME NEW a \in Client, NEW e \in Event, Admit(a, e)
      PROVE  RemindersTypeOK'
  BY <1>7 DEF Admit
<1>8. ASSUME NEW a \in Client, NEW e \in Event, Fire(a, e)
      PROVE  RemindersTypeOK'
  <2>1. /\ asked' = asked \ {<<a, e>>} /\ waited' = waited \ {<<a, e>>}
        /\ passed' = passed \ {<<a, e>>}
        /\ fires' = fires \/ fires' = fires \cup {<<e, now>>}
        /\ UNCHANGED <<now, pinned, online, loaded, watched>>
    BY <1>8 DEF Fire, Answered
  <2>2. \A f \in fires' : f[1] \in Event /\ f[2] <= now'
    BY <2>1 DEF OnceInv
  <2>. QED
    BY <2>1, <2>2
<1>9. CASE UNCHANGED reminderVars
  BY <1>9
<1>. QED
  BY <1>1, <1>2, <1>3, <1>4, <1>5, <1>6, <1>7, <1>8, <1>9 DEF ReminderNext

(* Both, of every reachable state. *)
THEOREM RemindersHold == ReminderSpec => []ReminderInvariant
<1>1. OnceInv /\ RemindersTypeOK => ReminderInvariant
  BY DEF OnceInv, ReminderOnce, ReminderInvariant
<1>. QED
  BY <1>1, OnceInit, OnceStep, ShapeInit, ClockStep, PTL DEF ReminderSpec

-----------------------------------------------------------------------------
(* Why an event is pushed at all.  In its window every manager who is online *)
(* asks for it, or it is shadowed; a manager who has swept waits for an       *)
(* answer that can only be the push.  So once the first tick of the window is  *)
(* over without a push no manager is online, and nobody defers those who       *)
(* watch.                                                                      *)

InWindow(e) == Instant[e] <= now /\ now <= Instant[e] + Grace

Waits(a, e) == a \in swept => <<a, e>> \in waited

Unheard(e) == e \in pinned /\ e \notin shadowed /\ pushes[e] = 0

ReachOf(e) ==
  /\ Fired(e) => pushes[e] # 0
  /\ Unheard(e) =>
       /\ InWindow(e) =>
            /\ \A a \in watched[e] : Asks(a, e)
            /\ \A a \in Manager \cap online : Asks(a, e) /\ Waits(a, e)
            /\ now # Instant[e] => /\ Manager \cap online = {}
                                   /\ \A a \in watched[e] : Waits(a, e)
       /\ now > Instant[e] + Grace => watched[e] = {}

ReachInv == \A e \in Event : ReachOf(e)

LEMMA ReachInit == ReminderInit => ReachInv
BY ReminderAssumption DEF ReminderInit, ReachInv, ReachOf, Fired, InWindow, Unheard

ResolvedOK == resolved \in [Client -> SUBSET Event]

LEMMA ResolvedStep ==
  RemindersTypeOK /\ ResolvedOK /\ [ReminderNext]_reminderVars => ResolvedOK'
<1> SUFFICES ASSUME RemindersTypeOK, ResolvedOK, [ReminderNext]_reminderVars
             PROVE  ResolvedOK'
  OBVIOUS
<1> USE DEF ResolvedOK
<1>1. ASSUME NEW b \in Client, Open(b) \/ SweepEarly(b) PROVE ResolvedOK'
  BY <1>1 DEF Open, SweepEarly, RemindersTypeOK
<1>2. ASSUME NEW b \in Client, NEW x \in Event, Refuse(b, x) \/ Fire(b, x) PROVE ResolvedOK'
  BY <1>2 DEF Refuse, Fire, Resolves
<1>3. CASE UNCHANGED resolved
  BY <1>3
<1> QED
  BY <1>1, <1>2, <1>3 DEF ReminderNext, Tick, Prune, UnpinEvent, Load, Close, SweepDue, Defer, Admit

(* A step that adds to the shadowed, takes from the pinned, and lets those    *)
(* who asked go on asking.                                                   *)
LEMMA ReachKept ==
  ASSUME RemindersTypeOK, NEW e \in Event, ReachOf(e),
         now' = now, pinned' \subseteq pinned, shadowed \subseteq shadowed',
         pushes' = pushes, Fired(e)' => Fired(e), watched'[e] \subseteq watched[e],
         InWindow(e) /\ Unheard(e)' => (Manager \cap online)' \subseteq Manager \cap online,
         InWindow(e) => \A a \in Client : Asks(a, e) /\ Unheard(e)' /\ (a \in watched'[e] \/ a \in (Manager \cap online)') =>
           /\ Asks(a, e)'
           /\ Waits(a, e) /\ (a \in Manager \/ Manager \cap online = {}) => Waits(a, e)'
  PROVE  ReachOf(e)'
<1>1. Unheard(e)' => Unheard(e)
  BY DEF Unheard
<1>2. InWindow(e)' <=> InWindow(e)
  BY DEF InWindow
<1>3. watched[e] \subseteq Client /\ Manager \subseteq Client
  BY ReminderAssumption DEF RemindersTypeOK
<1>4. now' > Instant[e] + Grace /\ Unheard(e)' => watched'[e] = {}
  BY <1>1 DEF ReachOf
<1>5. ASSUME Unheard(e)', InWindow(e)
      PROVE  /\ \A a \in watched'[e] : Asks(a, e)'
             /\ \A a \in (Manager \cap online)' : Asks(a, e)' /\ Waits(a, e)'
             /\ now # Instant[e] => /\ (Manager \cap online)' = {}
                                    /\ \A a \in watched'[e] : Waits(a, e)'
  BY <1>1, <1>3, <1>5 DEF ReachOf
<1> QED
  BY <1>2, <1>4, <1>5 DEF ReachOf

(* What one client's sweep or the answer to one request leaves of the others. *)
LEMMA TickStep ==
  ASSUME OnceInv, RemindersTypeOK, NEW e \in Event, ReachOf(e), Tick
  PROVE  ReachOf(e)'
<1> USE ReminderAssumption
<1>1. /\ now' = now + 1 /\ now \in Nat /\ Instant[e] \in Nat /\ Grace \in Nat \ {0}
      /\ waited = {} /\ swept' = {} /\ UNCHANGED <<firingVars, online, loaded, resolved, pushes>>
      /\ \A a \in Client : Watching(a) => a \in swept
  BY DEF Tick, OnceInv
<1>2. Fired(e)' => pushes'[e] # 0
  BY <1>1 DEF ReachOf, Fired
<1>3. \A a \in Client : Asks(a, e)' <=> Asks(a, e)
  BY <1>1 DEF Asks, Watching
<1>4. watched[e] \subseteq Client /\ Manager \subseteq Client
  BY DEF RemindersTypeOK
<1>5. SUFFICES ASSUME Unheard(e)'
      PROVE  /\ InWindow(e)' =>
                  /\ \A a \in watched'[e] : Asks(a, e)'
                  /\ \A a \in (Manager \cap online)' : Asks(a, e)' /\ Waits(a, e)'
                  /\ now' # Instant[e] => /\ (Manager \cap online)' = {}
                                          /\ \A a \in watched'[e] : Waits(a, e)'
             /\ now' > Instant[e] + Grace => watched'[e] = {}
  BY <1>2 DEF ReachOf
<1>6. shadowed' = shadowed \cup
        {x \in Event : Instant[x] <= now + 1 /\ now + 1 <= Instant[x] + Grace
                       /\ \E a \in Client : Shadows(a, x)}
      /\ watched' = [x \in Event |->
           IF now + 1 = Instant[x] THEN {a \in Client : Asks(a, x)} ELSE watched[x]]
  BY DEF Tick
<1>7. Unheard(e)
  BY <1>1, <1>5, <1>6 DEF Unheard
<1>8. \A a \in Client : Waits(a, e)'
  BY <1>1 DEF Waits
<1>9. CASE now + 1 < Instant[e]
  BY <1>1, <1>9 DEF InWindow
<1>10. CASE now + 1 = Instant[e]
  <2>1. InWindow(e)' /\ now' = Instant[e] /\ ~(now' > Instant[e] + Grace)
    BY <1>1, <1>10 DEF InWindow
  <2>2. \A a \in watched'[e] : a \in Client /\ Asks(a, e)'
    BY <1>3, <1>6, <1>10
  <2>3. \A a \in Client : ~Shadows(a, e)
    <3>1. Instant[e] <= now + 1 /\ now + 1 <= Instant[e] + Grace
      BY <1>1, <1>10
    <3>2. e \notin shadowed'
      BY <1>5 DEF Unheard
    <3> QED
      BY <3>1, <3>2, <1>6
  <2>4. \A a \in (Manager \cap online)' : Asks(a, e)' /\ Waits(a, e)'
    BY <2>3, <1>1, <1>3, <1>4, <1>8 DEF Shadows
  <2> QED
    BY <2>1, <2>2, <2>4
<1>11. CASE InWindow(e)
  <2>1. watched'[e] = watched[e]
    BY <1>1, <1>6, <1>11 DEF InWindow
  <2>2. \A a \in Client : Asks(a, e) => a \in swept
    BY <1>1 DEF Asks
  <2>3. \A a \in Client : Asks(a, e) => ~Waits(a, e)
    BY <2>2, <1>1 DEF Waits
  <2>4. /\ \A a \in watched[e] : Asks(a, e)
        /\ \A a \in Manager \cap online : Asks(a, e) /\ Waits(a, e)
        /\ now # Instant[e] => \A a \in watched[e] : Waits(a, e)
    BY <1>7, <1>11 DEF ReachOf
  <2>5. Manager \cap online = {}
    BY <2>3, <2>4, <1>4
  <2>6. (Manager \cap online)' = {}
    BY <2>5, <1>1
  <2>7. \A a \in watched'[e] : a \in Client /\ Asks(a, e)' /\ Waits(a, e)'
    BY <2>1, <2>4, <1>3, <1>4, <1>8
  <2>8. now # Instant[e] => watched'[e] = {}
    BY <2>1, <2>3, <2>4, <1>4
  <2>9. now = Instant[e] => ~(now' > Instant[e] + Grace)
    BY <1>1
  <2> QED
    BY <2>6, <2>7, <2>8, <2>9
<1>12. CASE now > Instant[e] + Grace
  <2>1. watched'[e] = watched[e] /\ watched[e] = {} /\ ~InWindow(e)'
    BY <1>1, <1>6, <1>7, <1>12 DEF ReachOf, InWindow
  <2> QED
    BY <2>1
<1> QED
  BY <1>1, <1>9, <1>10, <1>11, <1>12 DEF InWindow

LEMMA ReachStep ==
  OnceInv /\ RemindersTypeOK /\ ResolvedOK /\ ReachInv /\ [ReminderNext]_reminderVars
    => ReachInv'
<1> SUFFICES ASSUME OnceInv, RemindersTypeOK, ResolvedOK, ReachInv, [ReminderNext]_reminderVars,
                    NEW e \in Event
             PROVE  ReachOf(e)'
  BY DEF ReachInv
<1>0. ReachOf(e) /\ now \in Nat /\ Instant[e] \in Nat /\ Early \in Nat
  BY ReminderAssumption DEF ReachInv, OnceInv
<1>1. CASE Tick
  BY <1>0, <1>1, TickStep
<1>2. CASE Prune
  <2>1. UNCHANGED <<now, pinned, passed, clientVars, requestVars, reminderHistory>>
        /\ fires' \subseteq fires
    BY <1>2 DEF Prune
  <2>2. Fired(e)' => Fired(e)
    BY <2>1 DEF Fired
  <2> QED
    BY <1>0, <2>1, <2>2, ReachKept DEF Asks, Watching, Waits
<1>3. ASSUME NEW x \in Event, UnpinEvent(x)
      PROVE  ReachOf(e)'
  BY <1>0, <1>3, ReachKept DEF UnpinEvent, Asks, Watching, Waits, Fired
<1>4. ASSUME NEW b \in Client, Open(b)
      PROVE  ReachOf(e)'
  <2>1. /\ b \notin online /\ online' = online \cup {b}
        /\ resolved' = [resolved EXCEPT ![b] = {}]
        /\ shadowed' = shadowed \cup {x \in Event : Due(x) /\ b \in Manager}
        /\ UNCHANGED <<now, firingVars, loaded, swept, requestVars, pushes, watched>>
    BY <1>4 DEF Open
  <2>2. b \notin loaded /\ b \notin watched[e]
    BY <2>1 DEF RemindersTypeOK
  <2>3. InWindow(e) /\ Unheard(e)' => b \notin Manager
    BY <2>1 DEF InWindow, Due, Unheard
  <2>4. \A a \in Client : a # b => resolved'[a] = resolved[a]
    BY <2>1
  <2>5. \A a \in Client : a # b /\ Asks(a, e) => Asks(a, e)'
    BY <2>1, <2>4 DEF Asks, Watching
  <2>6. \A a \in Client : Waits(a, e)' <=> Waits(a, e)
    BY <2>1 DEF Waits
  <2>7. Fired(e)' => Fired(e)
    BY <2>1 DEF Fired
  <2>8. InWindow(e) /\ Unheard(e)' => (Manager \cap online)' \subseteq Manager \cap online
    BY <2>1, <2>3
  <2> QED
    BY <1>0, <2>1, <2>2, <2>3, <2>5, <2>6, <2>7, <2>8, ReachKept
<1>5. ASSUME NEW b \in Client, Load(b)
      PROVE  ReachOf(e)'
  <2>1. /\ loaded' = loaded \cup {b}
        /\ UNCHANGED <<now, firingVars, online, resolved, swept, requestVars, reminderHistory>>
    BY <1>5 DEF Load
  <2> QED
    BY <1>0, <2>1, ReachKept DEF Asks, Watching, Waits, Fired
<1>6. ASSUME NEW b \in Client, Close(b)
      PROVE  ReachOf(e)'
  <2>1. /\ online' = online \ {b} /\ loaded' = loaded \ {b}
        /\ waited' = {w \in waited : w[1] # b}
        /\ watched' = [x \in Event |-> watched[x] \ {b}]
        /\ UNCHANGED <<now, firingVars, resolved, swept, asked, pushes, shadowed>>
    BY <1>6 DEF Close
  <2>2. \A a \in Client : a # b => (Asks(a, e)' <=> Asks(a, e)) /\ (Waits(a, e)' <=> Waits(a, e))
    BY <2>1 DEF Asks, Watching, Waits
  <2>3. b \notin watched'[e] /\ b \notin online' /\ watched'[e] \subseteq watched[e]
    BY <2>1
  <2>4. Fired(e)' => Fired(e)
    BY <2>1 DEF Fired
  <2> QED
    BY <1>0, <2>1, <2>2, <2>3, <2>4, ReachKept
<1>7. ASSUME NEW b \in Client, SweepDue(b)
      PROVE  ReachOf(e)'
  <2>1. /\ swept' = swept \cup {b}
        /\ waited' = waited \cup {<<b, x>> : x \in {y \in pinned : Due(y) /\ y \notin resolved[b]}}
        /\ UNCHANGED <<now, firingVars, online, loaded, resolved, reminderHistory>>
    BY <1>7 DEF SweepDue
  <2>2. \A a \in Client : Asks(a, e)' <=> Asks(a, e)
    BY <2>1 DEF Asks, Watching
  <2>3. \A a \in Client : a # b /\ Waits(a, e) => Waits(a, e)'
    BY <2>1 DEF Waits
  <2>4. InWindow(e) /\ Unheard(e)' /\ Asks(b, e) => Waits(b, e)'
    <3> SUFFICES ASSUME InWindow(e), Unheard(e)', Asks(b, e) PROVE <<b, e>> \in waited'
      BY DEF Waits
    <3>1. e \in {y \in pinned : Due(y) /\ y \notin resolved[b]}
      BY <2>1 DEF InWindow, Due, Unheard, Asks
    <3> QED
      BY <2>1, <3>1
  <2>5. Fired(e)' => Fired(e)
    BY <2>1 DEF Fired
  <2> QED
    BY <1>0, <2>1, <2>2, <2>3, <2>4, <2>5, ReachKept
<1>8. ASSUME NEW b \in Client, SweepEarly(b)
      PROVE  ReachOf(e)'
  <2>1. /\ resolved' = [resolved EXCEPT ![b] = @ \cup {x \in pinned : Soon(x) /\ x \notin resolved[b]}]
        /\ UNCHANGED <<now, firingVars, online, loaded, swept, waited, reminderHistory>>
    BY <1>8 DEF SweepEarly
  <2>2. InWindow(e) => ~Soon(e)
    BY <1>0 DEF InWindow, Soon
  <2>3. \A a \in Client : InWindow(e) /\ Asks(a, e) => Asks(a, e)'
    BY <2>1, <2>2 DEF Asks, Watching
  <2>4. \A a \in Client : Waits(a, e)' <=> Waits(a, e)
    BY <2>1 DEF Waits
  <2>5. Fired(e)' => Fired(e)
    BY <2>1 DEF Fired
  <2> QED
    BY <1>0, <2>1, <2>3, <2>4, <2>5, ReachKept
<1>9. ASSUME NEW b \in Client, NEW x \in Event, Refuse(b, x) \/ Defer(b, x)
      PROVE  ReachOf(e)'
  <2>1. /\ waited' = waited \ {<<b, x>>}
        /\ resolved' = resolved \/ resolved' = [resolved EXCEPT ![b] = @ \cup {x}]
        /\ UNCHANGED <<now, firingVars, online, loaded, swept, reminderHistory>>
    BY <1>9 DEF Refuse, Defer, Answered, Resolves
  <2>2. \A a \in Client : a # b \/ x # e =>
          (Asks(a, e) => Asks(a, e)') /\ (Waits(a, e) => Waits(a, e)')
    BY <2>1 DEF ResolvedOK, Asks, Watching, Waits
  <2>3. InWindow(e) => Accepted(e)
    BY <1>0 DEF InWindow, Accepted
  <2>4. CASE Refuse(b, x)
    <3>1. InWindow(e) /\ Unheard(e)' /\ x = e => ~Asks(b, e)
      BY <2>1, <2>3, <2>4 DEF Refuse, Asks, Unheard
    <3>2. Fired(e)' => Fired(e)
      BY <2>1 DEF Fired
    <3> QED
      BY <1>0, <2>1, <2>2, <3>1, <3>2, ReachKept
  <2>5. CASE Defer(b, x)
    <3>1. b \notin Manager /\ Manager \cap online # {} /\ resolved' = resolved
      BY <2>5 DEF Defer, MayTrigger
    <3>2. \A a \in Client : Asks(a, e)' <=> Asks(a, e)
      BY <2>1, <3>1 DEF Asks, Watching
    <3>3. Fired(e)' => Fired(e)
      BY <2>1 DEF Fired
    <3> QED
      BY <1>0, <2>1, <2>2, <3>1, <3>2, <3>3, ReachKept
  <2> QED
    BY <1>9, <2>4, <2>5
<1>10. ASSUME NEW b \in Client, NEW x \in Event, Admit(b, x)
       PROVE  ReachOf(e)'
  BY <1>0, <1>10, ReachKept DEF Admit, Asks, Watching, Waits, Fired
<1>11. ASSUME NEW b \in Client, NEW x \in Event, Fire(b, x)
       PROVE  ReachOf(e)'
  <2>1. /\ waited' = waited \ {<<b, x>>}
        /\ resolved' = resolved \/ resolved' = [resolved EXCEPT ![b] = @ \cup {x}]
        /\ \/ Fired(x) /\ UNCHANGED <<fires, pushes>>
           \/ fires' = fires \cup {<<x, now>>} /\ pushes' = [pushes EXCEPT ![x] = @ + 1]
        /\ UNCHANGED <<now, pinned, online, loaded, swept, watched, shadowed>>
    BY <1>11 DEF Fire, Answered, Resolves, Pushed
  <2>2. pushes \in [Event -> Nat]
    BY DEF OnceInv
  <2>3. CASE x = e
    <3>1. pushes'[e] # 0
      BY <2>1, <2>2, <2>3, <1>0 DEF ReachOf
    <3> QED
      BY <3>1 DEF ReachOf, Unheard
  <2>4. CASE x # e
    <3>1. pushes'[e] = pushes[e]
      BY <2>1, <2>2, <2>4
    <3>2. Fired(e)' => Fired(e)
      BY <2>1, <2>4 DEF Fired
    <3>3. \A a \in Client : (Asks(a, e) => Asks(a, e)') /\ (Waits(a, e) => Waits(a, e)')
      BY <2>1, <2>4 DEF ResolvedOK, Asks, Watching, Waits
    <3>4. Unheard(e)' <=> Unheard(e)
      BY <2>1, <3>1 DEF Unheard
    <3>5. InWindow(e)' <=> InWindow(e)
      BY <2>1 DEF InWindow
    <3>6. watched[e] \subseteq Client /\ Manager \subseteq Client
      BY ReminderAssumption DEF RemindersTypeOK
    <3> QED
      BY <1>0, <2>1, <3>1, <3>2, <3>3, <3>4, <3>5, <3>6 DEF ReachOf
  <2> QED
    BY <2>3, <2>4
<1>12. CASE UNCHANGED reminderVars
  BY <1>0, <1>12, ReachKept DEF Asks, Watching, Waits, Fired
<1> QED
  BY <1>1, <1>2, <1>3, <1>4, <1>5, <1>6, <1>7, <1>8, <1>9, <1>10, <1>11, <1>12 DEF ReminderNext

(* An event that stays pinned is pushed by the end of its window when some    *)
(* client asks for it all the time and no idle manager bars it: the clients'   *)
(* clock and the 409 of triggerChannelReminder.                                *)
THEOREM ReminderIsSent == ReminderSpec => []ReminderReaches
<1>1. OnceInv /\ RemindersTypeOK /\ ReachInv => ReminderReaches
  <2> SUFFICES ASSUME OnceInv, RemindersTypeOK, ReachInv, NEW e \in pinned \ shadowed,
                      now > Instant[e] + Grace, watched[e] # {}
               PROVE  pushes[e] = 1
    BY DEF ReminderReaches
  <2>1. e \in Event /\ ReachOf(e)
    BY DEF RemindersTypeOK, ReachInv
  <2>2. pushes[e] # 0
    BY <2>1 DEF ReachOf, Unheard
  <2> QED
    BY <2>1, <2>2 DEF OnceInv
<1> QED
  <2>1. ReminderInit => ResolvedOK
    BY DEF ReminderInit, ResolvedOK
  <2> QED
    BY <1>1, <2>1, OnceInit, OnceStep, ShapeInit, ClockStep, ResolvedStep, ReachInit, ReachStep, PTL
       DEF ReminderSpec
=============================================================================
