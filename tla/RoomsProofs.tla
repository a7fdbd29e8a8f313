---------------------------- MODULE RoomsProofs ----------------------------
(* A room, for every number of accounts, of places, of handlers in flight     *)
(* and of join requests.                                                       *)
EXTENDS RoomsProps, FiniteSetTheorems, TLAPS

USE DEF roomVars, vars

-----------------------------------------------------------------------------
(* The shape of the rows, and of the handlers in flight. *)

Statuses == {"none", "active", "kicked", "left"}
Request == [by : Account, status : {"pending", "stale", "resolved"}]

(* What a handler carries, by what it is. *)
Fits(r) ==
  /\ r.op = "join" /\ r.step = "check" => r.on \in {"open", "in_progress"}
  /\ r.op \in {"decline", "approve"} /\ Exists => r.on \in DOMAIN requests
  /\ r.op = "kick" => r.on \in Account
  /\ r.op = "leave" /\ r.step \in {"write", "promote"} => r.on \in Account
  /\ r.op = "phase" => r.on \in {"open", "in_progress"}

CallsFit == \A s \in Slot : call[s] # NoCall => s \in load.slots /\ call[s] \in Call /\ Fits(call[s])

Shape ==
  /\ load \in Loads
  /\ phase \in Phases /\ host \in Account /\ member \in [Account -> Statuses]
  /\ InLine /\ (~Exists => Active = {})
  /\ requests \in Seq(Request)
  /\ DOMAIN call = Slot /\ CallsFit

LEMMA Constants ==
  ASSUME load \in Loads
  PROVE  /\ load.slots \subseteq Slot /\ load.requests \in 0..MaxRequests
         /\ Creator \in Account /\ IsFiniteSet(Account) /\ IsFiniteSet(Slot)
         /\ MaxMembers \in Nat \ {0} /\ MaxRequests \in Nat /\ NoCall \notin Call
BY RoomsAssumption DEF RoomsAssumption

LEMMA InitShape == Init => Shape
<1> SUFFICES ASSUME Init PROVE Shape
  OBVIOUS
<1>1. phase \in Phases /\ host \in Account /\ member \in [Account -> Statuses]
  BY RoomsAssumption DEF Init, RoomsAssumption, Phases, Statuses
<1>2. Active = {Creator}
  BY RoomsAssumption DEF Init, Active, RoomsAssumption
<1>3. InLine
  BY <1>2 DEF Init, InLine
<1>4. DOMAIN call = Slot /\ CallsFit
  BY DEF Init, CallsFit
<1> QED
  BY <1>1, <1>3, <1>4 DEF Init, Shape, Exists

-----------------------------------------------------------------------------
(* The line of the members. *)

LEMMA Leaves ==
  ASSUME InLine, NEW a \in Account, older' = Without(a), Active' = Active \ {a}
  PROVE  InLine'
<1>1. older' \subseteq older /\ \A x, y : <<x, y>> \in older' <=> <<x, y>> \in older /\ x # a /\ y # a
  BY DEF Without
<1>2. older' \subseteq Active' \X Active'
  <2> SUFFICES ASSUME NEW p \in older' PROVE p \in Active' \X Active'
    OBVIOUS
  <2>1. p \in Active \X Active /\ p[1] # a /\ p[2] # a
    BY DEF Without, InLine
  <2> QED BY <2>1
<1> QED
  BY <1>1, <1>2 DEF InLine

LEMMA Comes ==
  ASSUME InLine, NEW a \in Account, older' = Rejoined(a), Active' = Active \cup {a}
  PROVE  InLine'
<1>1. \A x, y : <<x, y>> \in older' <=>
        \/ <<x, y>> \in older /\ x # a /\ y # a
        \/ x \in Active \ {a} /\ y = a
  BY DEF Rejoined, Without
<1>2. older' \subseteq Active' \X Active'
  <2> SUFFICES ASSUME NEW p \in older' PROVE p \in Active' \X Active'
    OBVIOUS
  <2>1. p \in older \/ p \in (Active \ {a}) \X {a}
    BY DEF Rejoined, Without
  <2> QED BY <2>1 DEF InLine
<1>3. \A x, y \in Active' : x # y <=> (<<x, y>> \in older' \/ <<y, x>> \in older')
  BY <1>1 DEF InLine
<1>4. \A x, y, z \in Active' : <<x, y>> \in older' /\ <<y, z>> \in older' => <<x, z>> \in older'
  BY <1>1, <1>2 DEF InLine
<1> QED
  BY <1>2, <1>3, <1>4 DEF InLine

(* What the writes make of the members. *)
Joined(a) == member' = [member EXCEPT ![a] = "active"] /\ older' = Rejoined(a)
Parted(a, status) == member' = [member EXCEPT ![a] = status] /\ older' = Without(a)

LEMMA JoinedLine ==
  ASSUME InLine, member \in [Account -> Statuses], NEW a \in Account, Joined(a)
  PROVE  InLine' /\ member' \in [Account -> Statuses] /\ Active' = Active \cup {a}
<1>1. member' \in [Account -> Statuses] /\ Active' = Active \cup {a}
  BY DEF Joined, Statuses, Active
<1> QED
  BY <1>1, Comes DEF Joined

LEMMA PartedLine ==
  ASSUME InLine, member \in [Account -> Statuses], NEW a \in Account,
         NEW status \in {"kicked", "left"}, Parted(a, status)
  PROVE  InLine' /\ member' \in [Account -> Statuses] /\ Active' = Active \ {a}
<1>1. member' \in [Account -> Statuses] /\ Active' = Active \ {a}
  BY DEF Parted, Statuses, Active
<1> QED
  BY <1>1, Leaves DEF Parted

LEMMA SameLine ==
  ASSUME InLine, member' = member, older' = older
  PROVE  InLine' /\ Active' = Active
BY DEF InLine, Active
-----------------------------------------------------------------------------
(* How a handler moves. *)

(* A handler that goes on keeps what it is and, but for ContinueOn, its subject. *)
Kept(s, step, on) ==
  /\ call'[s].op = call[s].op /\ call'[s].by = call[s].by
  /\ call'[s].step = step /\ call'[s].on = on
  /\ call'[s] \in Call

LEMMA GoesOn ==
  ASSUME Shape, NEW s \in Slot, call[s] # NoCall, NEW step \in Steps, NEW on \in Targets,
         (Continue(s, step) /\ on = call[s].on) \/ ContinueOn(s, step, on)
  PROVE  /\ DOMAIN call' = Slot /\ Kept(s, step, on)
         /\ \A t \in Slot \ {s} : call'[t] = call[t]
<1>1. call[s] \in Call /\ DOMAIN call = Slot
  BY DEF Shape, CallsFit
<1>2. \/ call' = [call EXCEPT ![s] = [call[s] EXCEPT !.step = step]] /\ on = call[s].on
      \/ call' = [call EXCEPT ![s] = [call[s] EXCEPT !.step = step, !.on = on]]
  BY DEF Continue, ContinueOn
<1>3. \/ call'[s] = [call[s] EXCEPT !.step = step] /\ on = call[s].on
      \/ call'[s] = [call[s] EXCEPT !.step = step, !.on = on]
  BY <1>1, <1>2
<1>4. Kept(s, step, on)
  BY <1>1, <1>3 DEF Kept, Call
<1> QED
  BY <1>1, <1>2, <1>4

LEMMA Ends ==
  ASSUME Shape, NEW s \in Slot, Done(s)
  PROVE  /\ DOMAIN call' = Slot /\ call'[s] = NoCall
         /\ \A t \in Slot \ {s} : call'[t] = call[t]
BY DEF Done, Shape

Began(s, r) ==
  /\ call[s] = NoCall /\ call' = [call EXCEPT ![s] = r] /\ r \in Call
  /\ UNCHANGED roomVars

LEMMA Begins ==
  ASSUME NEW s \in Slot, NEW op \in Ops, NEW a \in Account, NEW step \in Steps, NEW on \in Targets,
         Begin(s, op, a, step, on)
  PROVE  \E r : /\ Began(s, r) /\ r.op = op /\ r.by = a /\ r.step = step /\ r.on = on
<1> DEFINE r == [op |-> op, by |-> a, step |-> step, on |-> on]
<1>1. Began(s, r)
  BY DEF Begin, Began, Call
<1> QED BY <1>1

(* What a request must have found to be let in. *)
Found(r) ==
  \/ /\ r.op = "join" /\ r.step = "check" /\ r.on = phase /\ phase \in {"open", "in_progress"}
     /\ phase = "in_progress" => Len(requests) + Cardinality(Knocking) < load.requests
  \/ /\ r.op = "decline" /\ r.step = "write" /\ r.on \in DOMAIN requests
  \/ /\ r.op = "approve" /\ r.step = "count" /\ r.on \in DOMAIN requests
  \/ /\ r.op = "kick" /\ r.step = "write" /\ r.on \in Account /\ r.on # host
  \/ /\ r.op = "leave" /\ r.step = "write" /\ r.on = host /\ member[r.by] = "active"
  \/ /\ r.op = "phase" /\ r.step = "write" /\ r.on \in {"open", "in_progress"} /\ NotClosed
  \/ r.op = "close" /\ r.step = "close"
  \/ r.op = "prune" /\ r.step = "delete"

LEMMA Arrives ==
  ASSUME Shape, NEW s \in Slot, Arrive(s)
  PROVE  \E r : Began(s, r) /\ Found(r)
<1>0. /\ phase \in Phases /\ host \in Account /\ DOMAIN requests \subseteq Nat
      /\ Phases \subseteq Targets /\ Nat \subseteq Targets /\ Account \subseteq Targets
  BY DEF Shape, Targets
<1>1. ASSUME NEW a \in Account, JoinStart(s, a) PROVE \E r : Began(s, r) /\ Found(r)
  <2>1. Begin(s, "join", a, "check", phase)
    BY <1>1 DEF JoinStart
  <2>2. PICK r : Began(s, r) /\ r.op = "join" /\ r.by = a /\ r.step = "check" /\ r.on = phase
    BY <1>0, <2>1, Begins DEF Ops, Steps
  <2> QED BY <1>0, <1>1, <2>2 DEF JoinStart, Found, Phases
<1>2. ASSUME NEW a \in Account, LeaveStart(s, a) PROVE \E r : Began(s, r) /\ Found(r)
  <2>1. Begin(s, "leave", a, "write", host)
    BY <1>2 DEF LeaveStart
  <2>2. PICK r : Began(s, r) /\ r.op = "leave" /\ r.by = a /\ r.step = "write" /\ r.on = host
    BY <1>0, <2>1, Begins DEF Ops, Steps
  <2> QED BY <1>2, <2>2 DEF LeaveStart, Found
<1>3. ASSUME NEW a \in Account, ResolveStart(s, a) PROVE \E r : Began(s, r) /\ Found(r)
  <2>1. PICK i \in DOMAIN requests :
          Begin(s, "decline", a, "write", i) \/ Begin(s, "approve", a, "count", i)
    BY <1>3 DEF ResolveStart
  <2>2. PICK r : /\ Began(s, r) /\ r.on = i
                 /\ (r.op = "decline" /\ r.step = "write") \/ (r.op = "approve" /\ r.step = "count")
    BY <1>0, <2>1, Begins DEF Ops, Steps
  <2> QED BY <2>2 DEF Found
<1>4. ASSUME NEW a \in Account, KickStart(s, a) PROVE \E r : Began(s, r) /\ Found(r)
  <2>1. PICK x \in Active \ {a} : host = a /\ Begin(s, "kick", a, "write", x)
    BY <1>4 DEF KickStart
  <2>2. x \in Account
    BY DEF Active
  <2>3. PICK r : Began(s, r) /\ r.op = "kick" /\ r.step = "write" /\ r.on = x
    BY <1>0, <2>1, <2>2, Begins DEF Ops, Steps
  <2> QED BY <2>1, <2>2, <2>3 DEF Found
<1>5. ASSUME NEW a \in Account, SetPhaseStart(s, a) PROVE \E r : Began(s, r) /\ Found(r)
  <2>1. PICK p \in {"open", "in_progress"} : Begin(s, "phase", a, "write", p)
    BY <1>5 DEF SetPhaseStart
  <2>2. PICK r : Began(s, r) /\ r.op = "phase" /\ r.step = "write" /\ r.on = p
    BY <1>0, <2>1, Begins DEF Ops, Steps, Phases
  <2> QED BY <1>5, <2>2 DEF SetPhaseStart, Found
<1>6. ASSUME NEW a \in Account, CloseStart(s, a) PROVE \E r : Began(s, r) /\ Found(r)
  <2>1. Begin(s, "close", a, "close", 0)
    BY <1>6 DEF CloseStart
  <2>2. PICK r : Began(s, r) /\ r.op = "close" /\ r.step = "close"
    BY <1>0, <2>1, Begins DEF Ops, Steps
  <2> QED BY <2>2 DEF Found
<1>7. CASE PruneSelect(s)
  <2>1. Begin(s, "prune", host, "delete", 0)
    BY <1>7 DEF PruneSelect
  <2>2. PICK r : Began(s, r) /\ r.op = "prune" /\ r.step = "delete"
    BY <1>0, <2>1, Begins DEF Ops, Steps
  <2> QED BY <2>2 DEF Found
<1> QED
  BY <1>1, <1>2, <1>3, <1>4, <1>5, <1>6, <1>7 DEF Arrive

(* Nobody else's call changes with a handler's step. *)
LEMMA OthersFit ==
  ASSUME Shape, NEW s \in load.slots, s \in Slot, load' = load,
         Exists' => Exists /\ DOMAIN requests \subseteq DOMAIN requests',
         DOMAIN call' = Slot, \A t \in Slot \ {s} : call'[t] = call[t],
         call'[s] = NoCall \/ (call'[s] \in Call /\ Fits(call[s])')
  PROVE  CallsFit'
<1>1. ASSUME NEW t \in Slot \ {s}, call'[t] # NoCall
      PROVE  t \in load.slots /\ call'[t] \in Call /\ Fits(call[t])'
  BY <1>1 DEF Shape, CallsFit, Fits
<1> QED
  BY <1>1 DEF CallsFit
-----------------------------------------------------------------------------
(* The shape is kept by every step. *)

LEMMA Resolves ==
  ASSUME requests \in Seq(Request), NEW i, Resolve(i)
  PROVE  /\ requests' \in Seq(Request) /\ DOMAIN requests' = DOMAIN requests
         /\ Len(requests') = Len(requests)
         /\ \A j \in DOMAIN requests : /\ requests'[j].by = requests[j].by
                                       /\ requests'[j].status \in {requests[j].status, "resolved"}
         /\ i \in DOMAIN requests => requests'[i].status = "resolved"
<1>1. CASE i \in DOMAIN requests
  <2> DEFINE q == [requests[i] EXCEPT !.status = "resolved"]
  <2>1. requests[i] \in Request
    BY <1>1
  <2>2. q \in Request /\ q.by = requests[i].by /\ q.status = "resolved"
    BY <2>1 DEF Request
  <2>3. requests' = [requests EXCEPT ![i] = q]
    BY <1>1 DEF Resolve
  <2> HIDE DEF q
  <2> QED BY <1>1, <2>2, <2>3
<1>2. CASE i \notin DOMAIN requests
  BY <1>2 DEF Resolve
<1> QED BY <1>1, <1>2

LEMMA Ages ==
  ASSUME requests \in Seq(Request), RequestAges \/ PruneRequests
  PROVE  /\ requests' \in Seq(Request) /\ DOMAIN requests' = DOMAIN requests
         /\ Len(requests') = Len(requests)
         /\ \A j \in DOMAIN requests : /\ requests'[j].by = requests[j].by
                                       /\ Pending(j)' => Pending(j)
<1>0. \A j \in DOMAIN requests : requests[j] \in Request
  OBVIOUS
<1>1. CASE RequestAges
  <2>1. PICK i \in DOMAIN requests : /\ requests[i].status = "pending"
                                     /\ requests' = [requests EXCEPT ![i].status = "stale"]
    BY <1>1 DEF RequestAges
  <2> DEFINE q == [requests[i] EXCEPT !.status = "stale"]
  <2>2. q \in Request /\ q.by = requests[i].by
    BY <1>0 DEF Request
  <2>3. requests' = [requests EXCEPT ![i] = q]
    BY <2>1
  <2> HIDE DEF q
  <2> QED BY <2>1, <2>2, <2>3 DEF Pending
<1>2. CASE PruneRequests
  <2> DEFINE q(j) == IF requests[j].status = "stale"
                     THEN [requests[j] EXCEPT !.status = "resolved"] ELSE requests[j]
  <2>1. requests' = [j \in DOMAIN requests |-> q(j)]
    BY <1>2 DEF PruneRequests
  <2>2. \A j \in DOMAIN requests :
          /\ q(j) \in Request /\ q(j).by = requests[j].by
          /\ q(j).status \in {"pending", "stale"} => Pending(j)
    BY <1>0 DEF Request, Pending
  <2> HIDE DEF q
  <2>3. DOMAIN requests = 1..Len(requests) /\ Len(requests) \in Nat
    OBVIOUS
  <2>4. requests' \in Seq(Request) /\ DOMAIN requests' = DOMAIN requests
        /\ Len(requests') = Len(requests)
    BY <2>1, <2>2, <2>3
  <2> QED BY <2>1, <2>2, <2>4 DEF Pending
<1> QED BY <1>1, <1>2

(* A step of a handler keeps the shape when it keeps that of the rows and its *)
(* call ends, or goes on and still fits.                                       *)
LEMMA KeepsShape ==
  ASSUME Shape, NEW s \in load.slots, load' = load,
         phase' \in Phases, host' \in Account, member' \in [Account -> Statuses], InLine',
         ~Exists' => Active' = {}, Exists' => Exists, requests' \in Seq(Request),
         Exists' => DOMAIN requests \subseteq DOMAIN requests',
         call[s] # NoCall,
         \/ Done(s)
         \/ \E step \in Steps, on \in Targets :
              /\ (Continue(s, step) /\ on = call[s].on) \/ ContinueOn(s, step, on)
              /\ Kept(s, step, on) => Fits(call[s])'
  PROVE  Shape'
<1>0. s \in Slot
  BY Constants DEF Shape
<1>1. /\ DOMAIN call' = Slot /\ \A t \in Slot \ {s} : call'[t] = call[t]
      /\ call'[s] = NoCall \/ (call'[s] \in Call /\ Fits(call[s])')
  <2>1. CASE Done(s)
    BY <1>0, <2>1, Ends
  <2>2. ASSUME NEW step \in Steps, NEW on \in Targets,
               (Continue(s, step) /\ on = call[s].on) \/ ContinueOn(s, step, on),
               Kept(s, step, on) => Fits(call[s])'
        PROVE  /\ DOMAIN call' = Slot /\ \A t \in Slot \ {s} : call'[t] = call[t]
               /\ call'[s] \in Call /\ Fits(call[s])'
    <3>1. /\ DOMAIN call' = Slot /\ Kept(s, step, on)
          /\ \A t \in Slot \ {s} : call'[t] = call[t]
      BY <1>0, <2>2, GoesOn
    <3> QED BY <2>2, <3>1 DEF Kept
  <2> QED BY <2>1, <2>2
<1>2. CallsFit'
  BY <1>0, <1>1, OthersFit
<1> QED
  BY <1>1, <1>2 DEF Shape

LEMMA ShapeStep == Shape /\ [Next]_<<vars, load>> => Shape'
<1> SUFFICES ASSUME Shape, [Next]_<<vars, load>> PROVE Shape'
  OBVIOUS
<1>0. /\ load \in Loads /\ phase \in Phases /\ host \in Account /\ member \in [Account -> Statuses]
      /\ InLine /\ (~Exists => Active = {}) /\ requests \in Seq(Request)
      /\ DOMAIN call = Slot /\ CallsFit /\ load.slots \subseteq Slot
      /\ Account \subseteq Targets /\ Nat \subseteq Targets /\ DOMAIN requests \subseteq Nat
  BY Constants DEF Shape, Targets
<1>1. ASSUME NEW s \in load.slots, Arrive(s), load' = load PROVE Shape'
  <2>1. PICK r : Began(s, r) /\ Found(r)
    BY <1>0, <1>1, Arrives
  <2>2. /\ DOMAIN call' = Slot /\ call'[s] = r /\ \A t \in Slot \ {s} : call'[t] = call[t]
        /\ UNCHANGED roomVars /\ r \in Call
    BY <1>0, <2>1 DEF Began
  <2>3. Fits(call[s])'
    BY <1>0, <2>1, <2>2 DEF Found, Fits
  <2>4. CallsFit'
    BY <1>0, <1>1, <2>2, <2>3, OthersFit DEF Exists
  <2> QED BY <1>0, <1>1, <2>2, <2>4, SameLine DEF Shape, Exists
<1>2. ASSUME NEW s \in load.slots, Proceed(s), load' = load PROVE Shape'
  <2> DEFINE r == call[s]
  <2>0. /\ s \in Slot
        /\ r # NoCall => r \in Call /\ Fits(r) /\ r.by \in Account /\ r.on \in Targets
    BY <1>0, <1>2 DEF CallsFit, Call
  <2>1. CASE JoinCheck(s) \/ Knock(s) \/ ApproveCount(s) \/ Migrate(s)
    <3>0. UNCHANGED roomVars
      BY <2>1 DEF JoinCheck, Knock, ApproveCount, Migrate
    <3>1. /\ phase' \in Phases /\ host' \in Account /\ member' \in [Account -> Statuses]
          /\ InLine' /\ (~Exists' => Active' = {}) /\ Exists' = Exists
          /\ requests' \in Seq(Request) /\ DOMAIN requests' = DOMAIN requests
      BY <1>0, <3>0, SameLine DEF Exists
    <3>2. CASE JoinCheck(s)
      <4>1. /\ r # NoCall /\ r.op = "join" /\ r.step = "check"
            /\ Done(s) \/ \E step \in {"admit", "knock"} : Continue(s, step)
        BY <3>2 DEF JoinCheck, At
      <4> QED BY <1>2, <2>0, <3>1, <4>1, KeepsShape DEF Steps, Kept, Fits
    <3>3. CASE Knock(s)
      <4>1. /\ r # NoCall /\ r.op = "join"
            /\ \/ Done(s) \/ Continue(s, "insert")
               \/ \E i \in DOMAIN requests : ContinueOn(s, "expire", i)
        BY <3>3 DEF Knock, At, Waiting
      <4> QED BY <1>0, <1>2, <2>0, <3>1, <4>1, KeepsShape DEF Steps, Kept, Fits
    <3>4. CASE ApproveCount(s)
      <4>1. r # NoCall /\ r.op = "approve" /\ (Done(s) \/ Continue(s, "write"))
        BY <3>4 DEF ApproveCount, At
      <4>2. ASSUME Kept(s, "write", r.on) PROVE Fits(call[s])'
        BY <2>0, <3>1, <4>1, <4>2 DEF Kept, Fits
      <4> QED BY <1>2, <2>0, <3>1, <4>1, <4>2, KeepsShape DEF Steps
    <3>5. CASE Migrate(s)
      <4>1. /\ r # NoCall /\ r.op = "leave"
            /\ Continue(s, "close") \/ \E a \in Active : ContinueOn(s, "promote", a)
        BY <3>5 DEF Migrate, At
      <4>2. Active \subseteq Account
        BY DEF Active
      <4> QED BY <1>0, <1>2, <2>0, <3>1, <4>1, <4>2, KeepsShape DEF Steps, Kept, Fits
    <3> QED BY <2>1, <3>2, <3>3, <3>4, <3>5
  <2>2. CASE JoinAdmit(s)
    <3>1. /\ r # NoCall /\ Done(s) /\ UNCHANGED <<phase, host, requests>>
          /\ (Exists /\ Joined(r.by)) \/ UNCHANGED <<member, older>>
      BY <2>2 DEF JoinAdmit, At, Activate, Joined
    <3>2. member' \in [Account -> Statuses] /\ InLine' /\ (~Exists' => Active' = {})
      BY <1>0, <2>0, <3>1, JoinedLine, SameLine DEF Exists
    <3> QED BY <1>0, <1>2, <3>1, <3>2, KeepsShape DEF Exists
  <2>3. CASE KnockExpire(s) \/ Decline(s)
    <3>1. /\ r # NoCall /\ Resolve(r.on) /\ UNCHANGED <<phase, host, member, older>>
          /\ Done(s) \/ (Continue(s, "insert") /\ r.op = "join")
      BY <2>3 DEF KnockExpire, Decline, At
    <3>2. requests' \in Seq(Request) /\ DOMAIN requests' = DOMAIN requests
      BY <1>0, <3>1, Resolves
    <3> QED BY <1>0, <1>2, <2>0, <3>1, <3>2, SameLine, KeepsShape DEF Exists, Steps, Kept, Fits
  <2>4. CASE KnockInsert(s)
    <3>1. /\ r # NoCall /\ Done(s) /\ UNCHANGED <<phase, host, member, older>>
          /\ requests' = IF Exists THEN Append(requests, [by |-> r.by, status |-> "pending"])
                         ELSE requests
      BY <2>4 DEF KnockInsert, At
    <3>2. [by |-> r.by, status |-> "pending"] \in Request
      BY <2>0, <3>1 DEF Request
    <3>3. requests' \in Seq(Request) /\ DOMAIN requests \subseteq DOMAIN requests'
      BY <1>0, <3>1, <3>2
    <3> QED BY <1>0, <1>2, <3>1, <3>3, SameLine, KeepsShape DEF Exists
  <2>5. CASE Approve(s)
    <3>1. /\ r # NoCall /\ r.op = "approve" /\ Resolve(r.on) /\ Done(s) /\ UNCHANGED <<phase, host>>
          /\ (Exists /\ Joined(requests[r.on].by)) \/ UNCHANGED <<member, older>>
      BY <2>5 DEF Approve, At, Activate, Joined
    <3>2. requests' \in Seq(Request) /\ DOMAIN requests' = DOMAIN requests
      BY <1>0, <3>1, Resolves
    <3>3. Exists => requests[r.on].by \in Account
      <4>1. Exists => r.on \in DOMAIN requests
        BY <2>0, <3>1 DEF Fits
      <4>2. \A i \in DOMAIN requests : requests[i] \in Request
        BY <1>0
      <4> QED BY <4>1, <4>2 DEF Request
    <3>4. member' \in [Account -> Statuses] /\ InLine' /\ (~Exists' => Active' = {})
      BY <1>0, <3>1, <3>3, JoinedLine, SameLine DEF Exists
    <3> QED BY <1>0, <1>2, <3>1, <3>2, <3>4, KeepsShape DEF Exists
  <2>6. ASSUME r # NoCall, NEW a \in Account, NEW status \in {"kicked", "left"}, SetMember(a, status),
               UNCHANGED <<phase, host, requests>>
        PROVE  member' \in [Account -> Statuses] /\ InLine' /\ (~Exists' => Active' = {})
    <3>1. CASE Exists
      BY <1>0, <2>6, <3>1, PartedLine DEF SetMember, Parted, Exists
    <3>2. CASE ~Exists
      <4>1. Active = {} /\ Active' = {} /\ member' = member
        BY <1>0, <2>6, <3>2 DEF SetMember, Active
      <4>2. older' = {} /\ older = {}
        BY <1>0, <2>6, <4>1 DEF SetMember, Without, InLine
      <4> QED BY <1>0, <4>1, <4>2, SameLine
    <3> QED BY <3>1, <3>2
  <2>7. CASE Kick(s)
    <3>1. /\ r # NoCall /\ r.op = "kick" /\ SetMember(r.on, "kicked") /\ Done(s)
          /\ UNCHANGED <<phase, host, requests>>
      BY <2>7 DEF Kick, At
    <3>2. r.on \in Account
      BY <2>0, <3>1 DEF Fits
    <3> QED BY <1>0, <1>2, <2>6, <3>1, <3>2, KeepsShape DEF Exists
  <2>8. CASE Leave(s)
    <3>1. /\ r # NoCall /\ r.op = "leave" /\ SetMember(r.by, "left")
          /\ Done(s) \/ ContinueOn(s, "migrate", 0)
          /\ UNCHANGED <<phase, host, requests>>
      BY <2>8 DEF Leave, At
    <3>2. member' \in [Account -> Statuses] /\ InLine' /\ (~Exists' => Active' = {})
      BY <2>0, <2>6, <3>1
    <3> QED BY <1>0, <1>2, <2>0, <3>1, <3>2, KeepsShape DEF Exists, Steps, Kept, Fits
  <2>9. CASE Promote(s)
    <3>1. /\ r # NoCall /\ r.op = "leave" /\ r.step = "promote" /\ Done(s)
          /\ host' = (IF Exists THEN r.on ELSE host) /\ UNCHANGED <<phase, member, older, requests>>
      BY <2>9 DEF Promote, At
    <3>2. host' \in Account
      BY <1>0, <2>0, <3>1 DEF Fits
    <3> QED BY <1>0, <1>2, <3>1, <3>2, SameLine, KeepsShape DEF Exists
  <2>10. CASE SetPhase(s) \/ Close(s)
    <3>1. /\ r # NoCall /\ Done(s) /\ UNCHANGED <<host, member, older, requests>>
          /\ (r.op = "phase" /\ SetPhaseTo(r.on)) \/ SetPhaseTo("closed")
      BY <2>10 DEF SetPhase, Close, At
    <3>2. phase' \in Phases /\ Exists' = Exists
      BY <1>0, <2>0, <3>1 DEF SetPhaseTo, Fits, Exists, Phases
    <3> QED BY <1>0, <1>2, <3>1, <3>2, SameLine, KeepsShape
  <2>11. CASE PruneDelete(s)
    <3>1. /\ r # NoCall /\ Done(s) /\ phase' = "deleted" /\ member' = [a \in Account |-> "none"]
          /\ older' = {} /\ requests' = << >> /\ host' = host
      BY <2>11 DEF PruneDelete, At
    <3>2. Active' = {} /\ member' \in [Account -> Statuses]
      BY <3>1 DEF Active, Statuses
    <3>3. InLine'
      BY <3>1, <3>2 DEF InLine
    <3> QED BY <1>0, <1>2, <3>1, <3>2, <3>3, KeepsShape DEF Exists, Phases
  <2> QED
    BY <1>2, <2>1, <2>2, <2>3, <2>4, <2>5, <2>7, <2>8, <2>9, <2>10, <2>11 DEF Proceed
<1>3. CASE Housekeeping /\ load' = load
  <2>1. CASE RequestAges \/ PruneRequests
    <3>1. UNCHANGED <<phase, host, member, older, call>>
      BY <2>1 DEF RequestAges, PruneRequests
    <3>2. requests' \in Seq(Request) /\ DOMAIN requests' = DOMAIN requests
      BY <1>0, <2>1, Ages
    <3> QED BY <1>0, <1>3, <3>1, <3>2, SameLine DEF Shape, Exists, CallsFit, Fits
  <2>2. CASE PruneIdle
    <3>1. UNCHANGED <<host, member, older, requests, call>> /\ phase' = "closed" /\ Exists
      BY <2>2 DEF PruneIdle, NotClosed, Exists
    <3> QED BY <1>0, <1>3, <3>1, SameLine DEF Shape, Exists, CallsFit, Fits, Phases
  <2> QED BY <1>3, <2>1, <2>2 DEF Housekeeping
<1>4. CASE UNCHANGED <<vars, load>>
  BY <1>0, <1>4, SameLine DEF Shape, Exists, CallsFit, Fits
<1> QED
  BY <1>1, <1>2, <1>3, <1>4 DEF Next
-----------------------------------------------------------------------------
(* The bound on the requests: a join that may still ask has its place.        *)

RequestsFit == Len(requests) + Cardinality(Knocking) <= load.requests

LEMMA KnockingFinite ==
  ASSUME load \in Loads
  PROVE  IsFiniteSet(Knocking) /\ Cardinality(Knocking) \in Nat
<1>1. IsFiniteSet(Slot) /\ Knocking \subseteq Slot
  BY Constants DEF Knocking
<1> QED BY <1>1, FS_Subset, FS_CardinalityType

LEMMA RequestsInit == Init => RequestsFit
<1> SUFFICES ASSUME Init PROVE RequestsFit
  OBVIOUS
<1>1. Knocking = {} /\ Len(requests) = 0 /\ load.requests \in Nat
  BY Constants DEF Init, Knocking
<1> QED BY <1>1, FS_EmptySet DEF RequestsFit

(* Fewer that may ask, and no request more, or one of them has asked.         *)
LEMMA RequestsKept ==
  ASSUME load \in Loads, load' = load, RequestsFit, requests \in Seq(Request), requests' \in Seq(Request),
         Knocking' \subseteq Knocking,
         \/ Len(requests') <= Len(requests)
         \/ /\ Len(requests') = Len(requests) + 1
            /\ \E s \in Knocking : s \notin Knocking'
  PROVE  RequestsFit'
<1>0. /\ IsFiniteSet(Knocking) /\ Cardinality(Knocking) \in Nat /\ load.requests \in Nat
      /\ Len(requests) \in Nat /\ Len(requests') \in Nat
  BY KnockingFinite, Constants
<1>1. CASE Len(requests') <= Len(requests)
  <2>1. Cardinality(Knocking') <= Cardinality(Knocking) /\ Cardinality(Knocking') \in Nat
    BY <1>0, FS_Subset, FS_CardinalityType
  <2> QED BY <1>0, <1>1, <2>1 DEF RequestsFit
<1>2. ASSUME Len(requests') = Len(requests) + 1, NEW s \in Knocking, s \notin Knocking'
      PROVE  RequestsFit'
  <2>1. Knocking' \subseteq Knocking \ {s}
    BY <1>2
  <2>2. /\ IsFiniteSet(Knocking \ {s})
        /\ Cardinality(Knocking \ {s}) = Cardinality(Knocking) - 1
    BY <1>0, <1>2, FS_RemoveElement
  <2>3. Cardinality(Knocking') <= Cardinality(Knocking) - 1 /\ Cardinality(Knocking') \in Nat
    BY <2>1, <2>2, FS_Subset, FS_CardinalityType
  <2> QED BY <1>0, <1>2, <2>3 DEF RequestsFit
<1> QED BY <1>1, <1>2

Asks(r) ==
  /\ r # NoCall /\ r.op = "join"
  /\ r.step \in {"knock", "expire", "insert"} \/ (r.step = "check" /\ r.on = "in_progress")

LEMMA RequestsStep == Shape /\ RequestsFit /\ [Next]_<<vars, load>> => RequestsFit'
<1> SUFFICES ASSUME Shape, RequestsFit, [Next]_<<vars, load>> PROVE RequestsFit'
  OBVIOUS
<1>0. /\ load \in Loads /\ load.slots \subseteq Slot /\ load.requests \in Nat /\ IsFiniteSet(Slot)
      /\ requests \in Seq(Request) /\ requests' \in Seq(Request) /\ DOMAIN requests \subseteq Nat
      /\ Knocking = {t \in Slot : Asks(call[t])} /\ Knocking' = {t \in Slot : Asks(call'[t])}
  BY Constants, ShapeStep DEF Shape, Knocking, Asks
<1>1. ASSUME NEW s \in load.slots, Arrive(s), load' = load PROVE RequestsFit'
  <2>1. PICK r : Began(s, r) /\ Found(r)
    BY <1>0, <1>1, Arrives
  <2>2. call'[s] = r /\ (\A t \in Slot \ {s} : call'[t] = call[t]) /\ requests' = requests
        /\ call[s] = NoCall
    BY <1>0, <2>1 DEF Began, Shape
  <2>3. CASE Asks(r)
    <3>1. Len(requests) + Cardinality(Knocking) < load.requests
      BY <2>1, <2>3 DEF Found, Asks
    <3>2. s \notin Knocking /\ Knocking' = Knocking \cup {s}
      BY <1>0, <2>2, <2>3 DEF Asks
    <3>3. Cardinality(Knocking \cup {s}) = Cardinality(Knocking) + 1
      BY <1>0, <3>2, KnockingFinite, FS_AddElement
    <3>4. Cardinality(Knocking') = Cardinality(Knocking) + 1
      BY <3>2, <3>3
    <3>5. Cardinality(Knocking) \in Nat /\ Len(requests) \in Nat
      BY <1>0, KnockingFinite
    <3> QED BY <1>0, <1>1, <2>2, <3>1, <3>4, <3>5 DEF RequestsFit
  <2>4. CASE ~Asks(r)
    <3>1. Knocking' \subseteq Knocking
      BY <1>0, <2>2, <2>4
    <3> QED BY <1>0, <1>1, <2>2, <3>1, RequestsKept
  <2> QED BY <2>3, <2>4
<1>2. ASSUME NEW s \in load.slots, Proceed(s), load' = load PROVE RequestsFit'
  <2> DEFINE r == call[s]
  <2>0. s \in Slot /\ (r # NoCall => r \in Call /\ Fits(r) /\ r.on \in Targets)
    BY <1>0 DEF Shape, CallsFit, Call
  <2>1. ASSUME r # NoCall, NEW step \in Steps, NEW on \in Targets,
               (Continue(s, step) /\ on = r.on) \/ ContinueOn(s, step, on),
               r.op = "join" /\ step \in {"knock", "expire", "insert"} => Asks(r),
               step # "check"
        PROVE  Knocking' \subseteq Knocking
    <3>1. Kept(s, step, on) /\ \A t \in Slot \ {s} : call'[t] = call[t]
      BY <2>0, <2>1, GoesOn
    <3>2. Asks(call'[s]) => Asks(r)
      BY <2>1, <3>1 DEF Kept, Asks
    <3> QED BY <1>0, <3>1, <3>2
  <2>2. ASSUME Done(s) PROVE Knocking' \subseteq Knocking \ {s}
    <3>1. call'[s] = NoCall /\ \A t \in Slot \ {s} : call'[t] = call[t]
      BY <2>0, <2>2, Ends
    <3> QED BY <1>0, <3>1 DEF Asks
  <2>3. CASE KnockInsert(s)
    <3>1. /\ Asks(r) /\ Done(s)
          /\ requests' = IF Exists THEN Append(requests, [by |-> r.by, status |-> "pending"])
                         ELSE requests
      BY <2>3 DEF KnockInsert, At, Asks
    <3>2. Len(requests') = Len(requests) \/ Len(requests') = Len(requests) + 1
      BY <1>0, <3>1
    <3>3. s \in Knocking
      BY <1>0, <2>0, <3>1
    <3> QED BY <1>0, <1>2, <2>2, <3>1, <3>2, <3>3, RequestsKept
  <2>4. CASE PruneDelete(s)
    <3>1. Done(s) /\ Len(requests') <= Len(requests)
      BY <1>0, <2>4 DEF PruneDelete
    <3> QED BY <1>0, <1>2, <2>2, <3>1, RequestsKept
  <2>5. ASSUME Len(requests') = Len(requests), Knocking' \subseteq Knocking PROVE RequestsFit'
    <3>1. Len(requests') <= Len(requests)
      BY <1>0, <2>5
    <3> QED BY <1>0, <1>2, <2>5, <3>1, RequestsKept
  <2>6. CASE JoinCheck(s)
    <3>1. /\ r # NoCall /\ r.op = "join" /\ r.step = "check" /\ requests' = requests
          /\ \/ Done(s) \/ (Continue(s, "admit") /\ r.on = "open")
             \/ (Continue(s, "knock") /\ r.on # "open")
      BY <2>6 DEF JoinCheck, At
    <3>2. r.on # "open" => Asks(r)
      BY <2>0, <3>1 DEF Fits, Asks
    <3> QED BY <2>0, <2>1, <2>2, <2>5, <3>1, <3>2 DEF Steps
  <2>7. CASE Knock(s)
    <3>1. /\ Asks(r) /\ requests' = requests
          /\ Done(s) \/ Continue(s, "insert") \/ \E i \in DOMAIN requests : ContinueOn(s, "expire", i)
      BY <2>7 DEF Knock, At, Asks, Waiting
    <3>2. r # NoCall /\ DOMAIN requests \subseteq Targets
      BY <1>0, <3>1 DEF Asks, Targets
    <3> QED BY <2>0, <2>1, <2>2, <2>5, <3>1, <3>2 DEF Steps
  <2>8. CASE KnockExpire(s)
    <3>1. Asks(r) /\ r # NoCall /\ Resolve(r.on) /\ Continue(s, "insert")
      BY <2>8 DEF KnockExpire, At, Asks
    <3> QED BY <1>0, <2>0, <2>1, <2>5, <3>1, Resolves DEF Steps
  <2>9. CASE Decline(s) \/ Approve(s)
    <3>1. Resolve(r.on) /\ Done(s)
      BY <2>9 DEF Decline, Approve
    <3> QED BY <1>0, <2>2, <2>5, <3>1, Resolves
  <2>10. CASE ApproveCount(s) \/ Leave(s) \/ Migrate(s)
    <3>1. /\ r # NoCall /\ r.op \in {"approve", "leave"} /\ requests' = requests
          /\ \/ Done(s)
             \/ \E step \in {"write", "close", "migrate", "promote"} :
                  Continue(s, step) \/ \E on \in Account \cup {0} : ContinueOn(s, step, on)
      BY <2>10 DEF ApproveCount, Leave, Migrate, At, Active
    <3>2. Account \cup {0} \subseteq Targets
      BY DEF Targets
    <3> QED BY <2>0, <2>1, <2>2, <2>5, <3>1, <3>2 DEF Steps
  <2>11. CASE JoinAdmit(s) \/ Kick(s) \/ Promote(s) \/ SetPhase(s) \/ Close(s)
    BY <2>2, <2>5, <2>11 DEF JoinAdmit, Kick, Promote, SetPhase, Close
  <2> QED
    BY <1>2, <2>3, <2>4, <2>6, <2>7, <2>8, <2>9, <2>10, <2>11 DEF Proceed
<1>3. CASE Housekeeping /\ load' = load
  <2>1. call' = call /\ Len(requests') = Len(requests)
    BY <1>0, <1>3, Ages DEF Housekeeping, RequestAges, PruneRequests, PruneIdle
  <2> QED BY <1>0, <1>3, <2>1 DEF RequestsFit
<1>4. CASE UNCHANGED <<vars, load>>
  BY <1>0, <1>4 DEF RequestsFit
<1> QED
  BY <1>1, <1>2, <1>3, <1>4 DEF Next
-----------------------------------------------------------------------------
(* One handler at a time: what it has read still holds when it writes.        *)

Full == Cardinality(Active) <= MaxMembers

OneWaits ==
  \A i, j \in DOMAIN requests :
    i # j /\ requests[i].by = requests[j].by => ~(Pending(i) /\ Pending(j))

Leaving(r) == r # NoCall /\ r.op = "leave" /\ r.step \in {"migrate", "promote", "close"}

Hosted == Live /\ (\A s \in Slot : ~Leaving(call[s])) => member[host] = "active"

Read(r) ==
  /\ r.op = "join" /\ r.step = "admit" => ~Barred(r.by)
  /\ r.op = "join" /\ r.step = "expire" => Waiting(r.by) \subseteq {r.on}
  /\ r.op = "join" /\ r.step = "insert" => Waiting(r.by) = {}
  /\ r.op = "approve" /\ r.step = "write" => HasRoom(Cardinality(Active))
  /\ r.op = "kick" => r.on # host
  /\ r.op = "leave" /\ r.step = "write" => r.on = host /\ member[r.by] = "active"
  /\ r.op = "leave" /\ r.step = "promote" => r.on \in Active
  /\ r.op = "phase" => Live

AloneInv == Alone => Full /\ OneWaits /\ Hosted /\ \A s \in Slot : call[s] # NoCall => Read(call[s])

LEMMA ActiveFinite ==
  ASSUME load \in Loads
  PROVE  IsFiniteSet(Active) /\ Cardinality(Active) \in Nat
<1>1. IsFiniteSet(Account) /\ Active \subseteq Account
  BY Constants DEF Active
<1> QED BY <1>1, FS_Subset, FS_CardinalityType

LEMMA AloneInit == Init => AloneInv
<1> SUFFICES ASSUME Init PROVE AloneInv
  OBVIOUS
<1>1. Active = {Creator} /\ member[host] = "active" /\ MaxMembers \in Nat \ {0}
  BY Constants DEF Init, Active
<1>2. Full
  BY <1>1, FS_Singleton DEF Full
<1> QED
  BY <1>1, <1>2 DEF Init, AloneInv, OneWaits, Hosted

(* The one slot in use. *)
LEMMA Single ==
  ASSUME Shape, Alone
  PROVE  \E s \in Slot : load.slots = {s} /\ \A t \in Slot \ {s} : call[t] = NoCall
<1>1. load.slots \subseteq Slot /\ IsFiniteSet(Slot)
  BY Constants DEF Shape
<1>2. PICK s : load.slots = {s}
  <2>1. IsFiniteSet(load.slots)
    BY <1>1, FS_Subset
  <2> QED BY <2>1, FS_Singleton DEF Alone
<1> QED
  BY <1>1, <1>2 DEF Shape, CallsFit

LEMMA FewerActive ==
  ASSUME load \in Loads, load' = load, Active' \subseteq Active
  PROVE  Cardinality(Active') <= Cardinality(Active) /\ Cardinality(Active') \in Nat
<1>1. IsFiniteSet(Active)
  BY ActiveFinite
<1> QED BY <1>1, FS_Subset, FS_CardinalityType

LEMMA OneMore ==
  ASSUME load \in Loads, NEW a, Active' = Active \cup {a}, HasRoom(Cardinality(Active))
  PROVE  Cardinality(Active') <= MaxMembers
<1>1. IsFiniteSet(Active) /\ Cardinality(Active) \in Nat /\ MaxMembers \in Nat
  BY ActiveFinite, Constants
<1>2. Cardinality(Active \cup {a}) \in {Cardinality(Active), Cardinality(Active) + 1}
  BY <1>1, FS_AddElement
<1> QED BY <1>1, <1>2 DEF HasRoom

(* When the requests keep to their accounts and none becomes pending again.   *)
LEMMA WaitsLess ==
  ASSUME OneWaits, DOMAIN requests' = DOMAIN requests,
         \A j \in DOMAIN requests : requests'[j].by = requests[j].by /\ (Pending(j)' => Pending(j))
  PROVE  OneWaits' /\ \A a : Waiting(a)' \subseteq Waiting(a)
BY DEF OneWaits, Waiting

LEMMA AloneStep == Shape /\ AloneInv /\ [Next]_<<vars, load>> => AloneInv'
<1> SUFFICES ASSUME Shape, AloneInv, [Next]_<<vars, load>>, Alone, load' = load
             PROVE  /\ Full' /\ OneWaits' /\ Hosted'
                    /\ \A s \in Slot : call'[s] # NoCall => Read(call[s])'
  BY DEF AloneInv, Alone, Next
<1>0. /\ load \in Loads /\ phase \in Phases /\ host \in Account /\ member \in [Account -> Statuses]
      /\ InLine /\ (~Exists => Active = {}) /\ requests \in Seq(Request)
      /\ DOMAIN call = Slot /\ MaxMembers \in Nat \ {0} /\ Shape'
      /\ \A i \in DOMAIN requests : requests[i] \in Request
  BY Constants, ShapeStep DEF Shape
<1>1. PICK s \in Slot : load.slots = {s} /\ \A t \in Slot \ {s} : call[t] = NoCall
  BY Single
<1> DEFINE r == call[s]
<1>2. /\ Full /\ OneWaits /\ Cardinality(Active) \in Nat
      /\ r # NoCall => Read(r) /\ r \in Call /\ Fits(r) /\ r.by \in Account /\ r.on \in Targets
      /\ Live /\ ~Leaving(r) => member[host] = "active"
      /\ NoCall # r => \A t \in Slot : call[t] = NoCall \/ t = s
  BY <1>1, ActiveFinite DEF AloneInv, Hosted, Shape, CallsFit, Call, Leaving
<1>3. ASSUME Arrive(s)
      PROVE  /\ Full' /\ OneWaits' /\ Hosted'
             /\ \A t \in Slot : call'[t] # NoCall => Read(call[t])'
  <2>1. PICK q : Began(s, q) /\ Found(q)
    BY <1>3, Arrives
  <2>2. /\ UNCHANGED roomVars /\ call'[s] = q /\ \A t \in Slot \ {s} : call'[t] = NoCall
        /\ r = NoCall
    BY <1>0, <1>1, <2>1 DEF Began
  <2>3. Active' = Active /\ Live' = Live
    BY <2>2 DEF Active, Live
  <2>4. Full' /\ OneWaits'
    BY <1>2, <2>2, <2>3 DEF Full, OneWaits, Pending
  <2>5. Hosted'
    BY <1>2, <2>2, <2>3 DEF Hosted, Leaving
  <2>6. Read(q) /\ \A i \in {"admit", "expire", "insert", "promote"} : q.step # i
    BY <2>1, <2>2 DEF Read, Found, NotClosed, Live, Shape, Phases
  <2>7. Read(call[s])'
    BY <2>2, <2>3, <2>6 DEF Read
  <2> QED BY <2>2, <2>4, <2>5, <2>7
<1>4. ASSUME Proceed(s)
      PROVE  /\ Full' /\ OneWaits' /\ Hosted'
             /\ \A t \in Slot : call'[t] # NoCall => Read(call[t])'
  <2> DEFINE Goal == /\ Full' /\ OneWaits' /\ Hosted'
                     /\ \A t \in Slot : call'[t] # NoCall => Read(call[t])'
  <2>0. r # NoCall
    BY <1>4 DEF Proceed, JoinCheck, JoinAdmit, Knock, KnockExpire, KnockInsert, Decline,
                ApproveCount, Approve, Kick, Leave, Migrate, Promote, SetPhase, Close, PruneDelete,
                At
  <2>1. /\ Read(r) /\ r \in Call /\ Fits(r) /\ r.by \in Account /\ r.on \in Targets
        /\ Live /\ ~Leaving(r) => member[host] = "active"
    BY <1>2, <2>0
  <2>2. ASSUME Done(s), Full', OneWaits', Live' => member'[host'] = "active" PROVE Goal
    <3>1. \A t \in Slot : call'[t] = NoCall
      BY <1>1, <2>2, Ends
    <3> QED BY <2>2, <3>1 DEF Hosted
  <2>3. ASSUME NEW step \in Steps, NEW on \in Targets,
               (Continue(s, step) /\ on = r.on) \/ ContinueOn(s, step, on),
               Full', OneWaits', Kept(s, step, on) => Read(call[s])',
               \/ Live' => member'[host'] = "active"
               \/ r.op = "leave" /\ step \in {"migrate", "promote", "close"}
        PROVE  Goal
    <3>1. Kept(s, step, on) /\ \A t \in Slot \ {s} : call'[t] = NoCall
      BY <1>1, <2>0, <2>3, GoesOn
    <3>2. call'[s] # NoCall
      BY <1>0, <3>1, Constants DEF Kept
    <3>3. Hosted'
      BY <2>3, <3>1, <3>2 DEF Hosted, Leaving, Kept
    <3> QED BY <2>3, <3>1, <3>3
  <2>4. ASSUME UNCHANGED <<member, requests>> PROVE Full' /\ OneWaits' /\ Active' = Active
    BY <1>2, <2>4 DEF Full, OneWaits, Pending, Active
  <2>5. CASE JoinCheck(s)
    <3>1. /\ r.op = "join" /\ UNCHANGED roomVars
          /\ Done(s) \/ (~Barred(r.by) /\ \E step \in {"admit", "knock"} : Continue(s, step))
      BY <2>5 DEF JoinCheck, At
    <3>2. Live' => member'[host'] = "active"
      BY <2>1, <3>1 DEF Live, Leaving
    <3>3. ASSUME NEW step \in {"admit", "knock"}, ~Barred(r.by), Kept(s, step, r.on)
          PROVE  Read(call[s])'
      BY <3>1, <3>3 DEF Kept, Read, Barred
    <3> QED BY <2>1, <2>2, <2>3, <2>4, <3>1, <3>2, <3>3 DEF Steps
  <2>6. CASE JoinAdmit(s)
    <3>1. /\ r.op = "join" /\ Done(s) /\ UNCHANGED <<phase, host, requests>>
          /\ \/ Recount /\ Joined(r.by)
             \/ UNCHANGED <<member, requests>>
      BY <2>6 DEF JoinAdmit, At, Activate, Joined
    <3>2. CASE UNCHANGED <<member, requests>>
      BY <2>1, <2>2, <2>4, <3>1, <3>2 DEF Live, Leaving
    <3>3. CASE Recount /\ Joined(r.by)
      <4>1. Active' = Active \cup {r.by}
        BY <1>0, <2>1, <3>3, JoinedLine
      <4>2. Full'
        BY <1>0, <3>3, <4>1, OneMore DEF Full, Recount
      <4>3. OneWaits'
        BY <1>2, <3>1 DEF OneWaits, Pending
      <4>4. Live' => member'[host'] = "active"
        BY <1>0, <2>1, <3>1, <3>3 DEF Joined, Live, Leaving
      <4> QED BY <2>2, <3>1, <4>2, <4>3, <4>4
    <3> QED BY <3>1, <3>2, <3>3
  <2>7. CASE Knock(s)
    <3>1. /\ r.op = "join" /\ UNCHANGED roomVars
          /\ \/ Done(s)
             \/ Waiting(r.by) = {} /\ Continue(s, "insert")
             \/ \E i \in Waiting(r.by) : ContinueOn(s, "expire", i)
      BY <2>7 DEF Knock, At
    <3>2. Live' => member'[host'] = "active"
      BY <2>1, <3>1 DEF Live, Leaving
    <3>3. \A a : Waiting(a)' = Waiting(a)
      BY <3>1 DEF Waiting, Pending
    <3>4. CASE Done(s)
      BY <2>2, <2>4, <3>1, <3>2, <3>4
    <3>5. CASE Waiting(r.by) = {} /\ Continue(s, "insert")
      <4>1. Kept(s, "insert", r.on) => Read(call[s])'
        BY <3>1, <3>3, <3>5 DEF Kept, Read
      <4> QED BY <2>1, <2>3, <2>4, <3>1, <3>2, <3>5, <4>1 DEF Steps
    <3>6. ASSUME NEW i \in Waiting(r.by), ContinueOn(s, "expire", i) PROVE Goal
      <4>1. Waiting(r.by) \subseteq {i} /\ i \in Targets
        BY <1>0, <1>2, <3>6 DEF Waiting, OneWaits, Targets
      <4>2. Kept(s, "expire", i) => Read(call[s])'
        BY <3>1, <3>3, <4>1 DEF Kept, Read
      <4> QED BY <2>3, <2>4, <3>1, <3>2, <3>6, <4>1, <4>2 DEF Steps
    <3> QED BY <3>1, <3>4, <3>5, <3>6
  <2>8. ASSUME Resolve(r.on)
        PROVE  OneWaits' /\ (\A a : Waiting(a)' \subseteq Waiting(a) \ {r.on})
    <3>1. /\ DOMAIN requests' = DOMAIN requests
          /\ \A j \in DOMAIN requests : /\ requests'[j].by = requests[j].by
                                        /\ requests'[j].status \in {requests[j].status, "resolved"}
          /\ r.on \in DOMAIN requests => requests'[r.on].status = "resolved"
      BY <1>0, <2>8, Resolves
    <3>2. \A j \in DOMAIN requests : (Pending(j)' => Pending(j)) /\ (Pending(j)' => j # r.on)
      BY <3>1 DEF Pending
    <3>3. OneWaits' /\ \A a : Waiting(a)' \subseteq Waiting(a)
      BY <1>2, <3>1, <3>2, WaitsLess
    <3> QED BY <3>2, <3>1, <3>3 DEF Waiting
  <2>9. CASE KnockExpire(s)
    <3>1. /\ r.op = "join" /\ r.step = "expire" /\ Resolve(r.on) /\ Continue(s, "insert")
          /\ UNCHANGED <<phase, host, member, older>>
      BY <2>9 DEF KnockExpire, At
    <3>2. Full' /\ (Live' => member'[host'] = "active")
      BY <1>2, <2>1, <3>1 DEF Full, Active, Live, Leaving
    <3>3. ASSUME NEW a, a = r.by PROVE Waiting(a)' = {}
      <4>1. Waiting(a) \subseteq {r.on}
        BY <2>1, <3>1, <3>3 DEF Read
      <4>2. Waiting(a)' \subseteq Waiting(a) \ {r.on}
        BY <2>8, <3>1
      <4> QED BY <4>1, <4>2
    <3>4. Kept(s, "insert", r.on) => Read(call[s])'
      BY <3>1, <3>3 DEF Kept, Read
    <3> QED BY <2>1, <2>3, <2>8, <3>1, <3>2, <3>4 DEF Steps
  <2>10. CASE KnockInsert(s)
    <3>1. /\ r.op = "join" /\ r.step = "insert" /\ Done(s) /\ UNCHANGED <<phase, host, member, older>>
          /\ \/ requests' = requests
             \/ requests' = Append(requests, [by |-> r.by, status |-> "pending"])
      BY <2>10 DEF KnockInsert, At
    <3>2. Full' /\ (Live' => member'[host'] = "active")
      BY <1>2, <2>1, <3>1 DEF Full, Active, Live, Leaving
    <3>3. CASE requests' = requests
      BY <2>2, <2>4, <3>1, <3>2, <3>3
    <3>4. CASE requests' = Append(requests, [by |-> r.by, status |-> "pending"])
      <4>1. Waiting(r.by) = {}
        BY <2>1, <3>1 DEF Read
      <4>2. \A i \in DOMAIN requests' :
              \/ i \in DOMAIN requests /\ requests'[i] = requests[i]
              \/ i = Len(requests) + 1 /\ requests'[i].by = r.by
        BY <1>0, <3>4
      <4>3. OneWaits'
        BY <1>2, <4>1, <4>2 DEF OneWaits, Waiting, Pending
      <4> QED BY <2>2, <3>1, <3>2, <4>3
    <3> QED BY <3>1, <3>3, <3>4
  <2>11. CASE Decline(s)
    <3>1. r.op = "decline" /\ Resolve(r.on) /\ Done(s) /\ UNCHANGED <<phase, host, member, older>>
      BY <2>11 DEF Decline, At
    <3>2. Full' /\ (Live' => member'[host'] = "active")
      BY <1>2, <2>1, <3>1 DEF Full, Active, Live, Leaving
    <3> QED BY <2>2, <2>8, <3>1, <3>2
  <2>12. CASE ApproveCount(s)
    <3>1. /\ r.op = "approve" /\ UNCHANGED roomVars
          /\ Done(s) \/ (HasRoom(Cardinality(Active)) /\ Continue(s, "write"))
      BY <2>12 DEF ApproveCount, At
    <3>2. Live' => member'[host'] = "active"
      BY <2>1, <3>1 DEF Live, Leaving
    <3>3. Active' = Active
      BY <3>1 DEF Active
    <3>4. HasRoom(Cardinality(Active)) /\ Kept(s, "write", r.on) => Read(call[s])'
      BY <3>1, <3>3 DEF Kept, Read, HasRoom
    <3> QED BY <2>1, <2>2, <2>3, <2>4, <3>1, <3>2, <3>4 DEF Steps
  <2>13. CASE Approve(s)
    <3>1. /\ r.op = "approve" /\ r.step = "write" /\ Resolve(r.on) /\ Done(s) /\ UNCHANGED <<phase, host>>
          /\ (Exists /\ Joined(requests[r.on].by)) \/ UNCHANGED member
      BY <2>13 DEF Approve, At, Activate, Joined
    <3>2. CASE UNCHANGED member
      <4>1. Full' /\ (Live' => member'[host'] = "active")
        BY <1>2, <2>1, <3>1, <3>2 DEF Full, Active, Live, Leaving
      <4> QED BY <2>2, <2>8, <3>1, <4>1
    <3>3. CASE Exists /\ Joined(requests[r.on].by)
      <4>1. requests[r.on].by \in Account
        <5>1. r.on \in DOMAIN requests
          BY <2>1, <3>1, <3>3 DEF Fits
        <5> QED BY <1>0, <5>1 DEF Request
      <4>2. Active' = Active \cup {requests[r.on].by}
        BY <1>0, <3>3, <4>1, JoinedLine
      <4>3. HasRoom(Cardinality(Active))
        BY <2>1, <3>1 DEF Read
      <4>4. Full'
        BY <1>0, <4>2, <4>3, OneMore DEF Full
      <4>5. Live' => member'[host'] = "active"
        BY <1>0, <2>1, <3>1, <3>3, <4>1 DEF Joined, Live, Leaving
      <4> QED BY <2>2, <2>8, <3>1, <4>4, <4>5
    <3> QED BY <3>1, <3>2, <3>3
  <2>14. ASSUME NEW a \in Account, NEW status \in {"kicked", "left"}, SetMember(a, status),
                UNCHANGED <<phase, host, requests>>
         PROVE  /\ Full' /\ OneWaits'
                /\ a # host /\ Live /\ member[host] = "active" => member'[host'] = "active"
    <3>1. Active' \subseteq Active
      BY <1>0, <2>14 DEF SetMember, Active
    <3>2. Full'
      BY <1>0, <1>2, <3>1, FewerActive DEF Full
    <3>3. OneWaits'
      BY <1>2, <2>14 DEF OneWaits, Pending
    <3> QED BY <1>0, <2>14, <3>2, <3>3 DEF SetMember
  <2>15. CASE Kick(s)
    <3>1. /\ r.op = "kick" /\ SetMember(r.on, "kicked") /\ Done(s)
          /\ UNCHANGED <<phase, host, requests>>
      BY <2>15 DEF Kick, At
    <3>2. r.on \in Account /\ r.on # host
      BY <2>1, <3>1 DEF Fits, Read
    <3>3. Live' => member'[host'] = "active"
      BY <2>1, <2>14, <3>1, <3>2 DEF Live, Leaving
    <3> QED BY <2>2, <2>14, <3>1, <3>2, <3>3
  <2>16. CASE Leave(s)
    <3>1. /\ r.op = "leave" /\ r.step = "write" /\ SetMember(r.by, "left")
          /\ (r.on # r.by /\ Done(s)) \/ ContinueOn(s, "migrate", 0)
          /\ UNCHANGED <<phase, host, requests>>
      BY <2>16 DEF Leave, At, WasHost
    <3>2. r.on # r.by => (Live' => member'[host'] = "active")
      BY <2>1, <2>14, <3>1 DEF Live, Leaving, Read
    <3>3. Kept(s, "migrate", 0) => Read(call[s])'
      BY <3>1 DEF Kept, Read
    <3>4. 0 \in Targets
      BY DEF Targets
    <3> QED BY <2>1, <2>2, <2>3, <2>14, <3>1, <3>2, <3>3, <3>4 DEF Steps
  <2>17. CASE Migrate(s)
    <3>1. /\ r.op = "leave" /\ UNCHANGED roomVars
          /\ Continue(s, "close") \/ \E a \in Active : ContinueOn(s, "promote", a)
      BY <2>17 DEF Migrate, At
    <3>2. Active \subseteq Targets
      BY DEF Active, Targets
    <3>3. Kept(s, "close", r.on) => Read(call[s])'
      BY <3>1 DEF Kept, Read
    <3>4. ASSUME NEW a \in Active PROVE Kept(s, "promote", a) => Read(call[s])'
      BY <2>4, <3>1, <3>4 DEF Kept, Read
    <3> QED BY <2>1, <2>3, <2>4, <3>1, <3>2, <3>3, <3>4 DEF Steps
  <2>18. CASE Promote(s)
    <3>1. /\ r.op = "leave" /\ r.step = "promote" /\ Done(s)
          /\ host' = (IF Exists THEN r.on ELSE host) /\ UNCHANGED <<phase, member, requests>>
      BY <2>18 DEF Promote, At
    <3>2. r.on \in Active
      BY <2>1, <3>1 DEF Read
    <3>3. Live' => member'[host'] = "active"
      BY <3>1, <3>2 DEF Active, Live, Exists
    <3> QED BY <2>2, <2>4, <3>1, <3>3
  <2>19. CASE SetPhase(s)
    <3>1. r.op = "phase" /\ Done(s) /\ UNCHANGED <<host, member, requests>>
      BY <2>19 DEF SetPhase, At
    <3>2. member[host] = "active"
      BY <2>1, <3>1 DEF Read, Leaving
    <3> QED BY <2>2, <2>4, <3>1, <3>2
  <2>20. CASE Close(s)
    <3>1. Done(s) /\ UNCHANGED <<host, member, requests>> /\ ~Live'
      BY <2>20 DEF Close, SetPhaseTo, Live, Exists
    <3> QED BY <2>2, <2>4, <3>1
  <2>21. CASE PruneDelete(s)
    <3>1. Done(s) /\ ~Live' /\ requests' = << >> /\ member' = [a \in Account |-> "none"]
      BY <2>21 DEF PruneDelete, Live
    <3>2. Active' = {} /\ OneWaits'
      BY <3>1 DEF Active, OneWaits
    <3>3. Full'
      BY <1>0, <3>2, FS_EmptySet DEF Full
    <3> QED BY <2>2, <3>1, <3>2, <3>3
  <2>22. Goal
    BY <1>4, <2>5, <2>6, <2>7, <2>9, <2>10, <2>11, <2>12, <2>13, <2>15, <2>16, <2>17, <2>18, <2>19,
       <2>20, <2>21 DEF Proceed
  <2> QED BY <2>22
<1>5. ASSUME Housekeeping
      PROVE  /\ Full' /\ OneWaits' /\ Hosted'
             /\ \A t \in Slot : call'[t] # NoCall => Read(call[t])'
  <2>1. CASE RequestAges \/ PruneRequests
    <3>1. UNCHANGED <<phase, host, member, older, call>>
      BY <2>1 DEF RequestAges, PruneRequests
    <3>2. OneWaits' /\ \A a : Waiting(a)' \subseteq Waiting(a)
      BY <1>0, <1>2, <2>1, Ages, WaitsLess
    <3>3. Full' /\ Hosted' /\ Active' = Active
      BY <1>2, <1>1, <3>1 DEF Full, Hosted, Active, Live, Leaving, AloneInv
    <3>4. ASSUME r # NoCall PROVE Read(call[s])'
      BY <1>2, <3>1, <3>2, <3>3, <3>4 DEF Read, Barred, Live
    <3> QED BY <1>1, <3>1, <3>2, <3>3, <3>4
  <2>2. CASE PruneIdle
    <3>1. /\ UNCHANGED <<host, member, older, requests, call>> /\ ~Live' /\ r = NoCall
      BY <1>1, <2>2 DEF PruneIdle, Live
    <3>2. Full' /\ OneWaits' /\ Hosted'
      BY <1>2, <3>1 DEF Full, OneWaits, Pending, Active, Hosted
    <3> QED BY <1>1, <3>1, <3>2
  <2> QED BY <1>5, <2>1, <2>2 DEF Housekeeping
<1>6. ASSUME UNCHANGED vars
      PROVE  /\ Full' /\ OneWaits' /\ Hosted'
             /\ \A t \in Slot : call'[t] # NoCall => Read(call[t])'
  <2>1. Active' = Active /\ Live' = Live /\ \A a : Waiting(a)' = Waiting(a)
    BY <1>6 DEF Active, Live, Waiting, Pending
  <2>2. Full' /\ OneWaits' /\ Hosted'
    BY <1>2, <1>6, <2>1 DEF Full, OneWaits, Pending, Hosted, Leaving, AloneInv
  <2>3. r # NoCall => Read(call[s])'
    BY <1>2, <1>6, <2>1 DEF Read, Barred
  <2> QED BY <1>1, <1>6, <2>2, <2>3
<1> QED
  BY <1>1, <1>3, <1>4, <1>5, <1>6 DEF Next
-----------------------------------------------------------------------------
(* The theorems. *)

RoomsInd == Shape /\ RequestsFit /\ AloneInv

LEMMA RoomsInductive == Spec => []RoomsInd
<1>1. Init => RoomsInd
  BY InitShape, RequestsInit, AloneInit DEF RoomsInd
<1>2. RoomsInd /\ [Next]_<<vars, load>> => RoomsInd'
  BY ShapeStep, RequestsStep, AloneStep DEF RoomsInd
<1> QED
  BY <1>1, <1>2, PTL DEF Spec

(* However many handlers interleave, the active members stand in one line by  *)
(* the time they joined; and handlers that run one after the other keep the    *)
(* room within its limit, with a host who is in it, and with one request of an *)
(* account that a host can act upon.                                            *)
THEOREM RoomHolds == Spec => []RoomInvariant
<1>1. RoomsInd => RoomInvariant
  <2> SUFFICES ASSUME RoomsInd PROVE RoomInvariant
    OBVIOUS
  <2>1. RoomsTypeOK
    <3>1. Len(requests) + Cardinality(Knocking) <= load.requests /\ Cardinality(Knocking) \in Nat
          /\ load.requests \in 0..MaxRequests /\ MaxRequests \in Nat /\ Len(requests) \in Nat
      BY KnockingFinite, Constants DEF RoomsInd, Shape, RequestsFit
    <3>2. Len(requests) <= MaxRequests
      BY <3>1
    <3> QED BY <3>2 DEF RoomsInd, Shape, RoomsTypeOK, Statuses
  <2>2. ASSUME Alone PROVE CapHolds /\ HostIsMember /\ OneRequest
    <3>1. CapHolds
      BY <2>2 DEF RoomsInd, AloneInv, Full, CapHolds
    <3>2. HostIsMember
      BY <2>2 DEF RoomsInd, AloneInv, Hosted, HostIsMember, Quiet, Leaving
    <3>3. OneRequest
      BY <2>2 DEF RoomsInd, AloneInv, OneWaits, Pending, OneRequest
    <3> QED BY <3>1, <3>2, <3>3
  <2> QED BY <2>1, <2>2 DEF RoomInvariant
<1> QED
  BY <1>1, RoomsInductive, PTL

(* However many ask at once, an open join fills no room beyond its limit: it  *)
(* counts again under the lock.  And one after the other, nobody who was       *)
(* kicked comes back but by the host's approval.                                *)
THEOREM TheDoorHolds == Spec => DoorHolds
<1>1. RoomsInd /\ [Next]_<<vars, load>> =>
        [/\ \A s \in Slot : JoinAdmit(s) /\ Active' # Active => Cardinality(Active') <= MaxMembers
         /\ Alone => \A a \in Account :
              member[a] = "kicked" /\ phase' # "deleted"
                => member'[a] = "kicked" \/ \E s \in Slot : Approve(s)]_vars
  <2> SUFFICES ASSUME RoomsInd, [Next]_<<vars, load>>
               PROVE  /\ \A s \in Slot : JoinAdmit(s) /\ Active' # Active
                                           => Cardinality(Active') <= MaxMembers
                      /\ Alone => \A a \in Account :
                           member[a] = "kicked" /\ phase' # "deleted"
                             => member'[a] = "kicked" \/ \E s \in Slot : Approve(s)
    OBVIOUS
  <2>0. Shape /\ load \in Loads /\ member \in [Account -> Statuses] /\ InLine /\ AloneInv
    BY DEF RoomsInd, Shape
  <2>1. ASSUME NEW s \in Slot, JoinAdmit(s), Active' # Active
        PROVE  Cardinality(Active') <= MaxMembers
    <3>1. Recount /\ Joined(call[s].by) /\ call[s] # NoCall
      BY <2>1 DEF JoinAdmit, At, Activate, Joined, Active
    <3>2. call[s].by \in Account
      BY <2>0, <2>1, <3>1 DEF Shape, CallsFit, Call
    <3>3. Active' = Active \cup {call[s].by}
      BY <2>0, <3>1, <3>2, JoinedLine
    <3> QED BY <2>0, <3>1, <3>3, OneMore DEF Recount
  <2>2. ASSUME Alone, NEW a \in Account, member[a] = "kicked", phase' # "deleted",
               ~\E s \in Slot : Approve(s)
        PROVE  member'[a] = "kicked"
    <3>0. load.slots \subseteq Slot
      BY <2>0, Constants
    <3>1. ASSUME NEW s \in load.slots, Proceed(s) PROVE member'[a] = "kicked"
      <4>0. s \in Slot /\ (call[s] # NoCall => Read(call[s]))
        BY <2>0, <2>2, <3>0 DEF AloneInv
      <4>1. CASE JoinAdmit(s)
        <5>1. call[s] # NoCall /\ call[s].op = "join" /\ call[s].step = "admit"
          BY <4>1 DEF JoinAdmit, At
        <5>2. call[s].by # a
          BY <2>2, <4>0, <5>1 DEF Read, Barred
        <5>3. member' = member \/ member' = [member EXCEPT ![call[s].by] = "active"]
          BY <4>1 DEF JoinAdmit, Activate
        <5> QED BY <2>0, <2>2, <5>2, <5>3
      <4>2. CASE Leave(s)
        <5>1. call[s] # NoCall /\ call[s].op = "leave" /\ call[s].step = "write"
          BY <4>2 DEF Leave, At
        <5>2. call[s].by # a
          BY <2>2, <4>0, <5>1 DEF Read
        <5>3. member' = member \/ member' = [member EXCEPT ![call[s].by] = "left"]
          BY <4>2 DEF Leave, SetMember
        <5> QED BY <2>0, <2>2, <5>2, <5>3
      <4>3. CASE Kick(s)
        <5>1. member' = member \/ member' = [member EXCEPT ![call[s].on] = "kicked"]
          BY <4>3 DEF Kick, SetMember
        <5> QED BY <2>0, <2>2, <5>1
      <4>4. CASE PruneDelete(s)
        BY <2>2, <4>4 DEF PruneDelete
      <4>5. CASE \/ JoinCheck(s) \/ Knock(s) \/ KnockExpire(s) \/ KnockInsert(s) \/ Decline(s)
                 \/ ApproveCount(s) \/ Migrate(s) \/ Promote(s) \/ SetPhase(s) \/ Close(s)
        <5>1. member' = member
          BY <4>5 DEF JoinCheck, Knock, KnockExpire, KnockInsert, Decline, ApproveCount, Migrate,
                      Promote, SetPhase, Close
        <5> QED BY <2>2, <5>1
      <4> QED BY <2>2, <3>1, <4>0, <4>1, <4>2, <4>3, <4>4, <4>5 DEF Proceed
    <3>2. ASSUME NEW s \in load.slots, Arrive(s) PROVE member' = member
      <4>1. \E r : Began(s, r)
        BY <2>0, <3>0, <3>2, Arrives
      <4> QED BY <4>1 DEF Began
    <3>3. CASE Housekeeping
      BY <2>2, <3>3 DEF Housekeeping, RequestAges, PruneRequests, PruneIdle
    <3>4. CASE UNCHANGED vars
      BY <2>2, <3>4
    <3> QED BY <2>2, <3>1, <3>2, <3>3, <3>4 DEF Next
  <2> QED BY <2>1, <2>2
<1> QED
  BY <1>1, RoomsInductive, PTL DEF Spec, DoorHolds
=============================================================================
