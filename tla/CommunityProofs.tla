-------------------------- MODULE CommunityProofs --------------------------
(* Members, invites and roll-calls, for every number of accounts, handlers   *)
(* in flight and roll-calls.  What holds only with one handler at a time is   *)
(* proved from what each handler has read and nobody has changed since.  And  *)
(* the keys of a community, for every number of accounts and epochs.           *)
EXTENDS CommunityProps, CommunityKeysProps, FiniteSetTheorems, TLAPS

USE DEF communityVars, vars

-----------------------------------------------------------------------------
(* The shape of the rows, and of the handlers in flight. *)

Statuses == {"none", "invited", "pending", "active", "removed"}
Ranks == {"moderator", "member"}
Standing == [status : Statuses, role : Ranks, muted : BOOLEAN]
Channel == [exists : BOOLEAN, access : {"members", "leaders"},
            joins : {"open", "request"}, listed : BOOLEAN]
Rollcall == [state : {"open", "closed", "gone"}, answers : SUBSET Account]
Tokens == [state : {"none", "usable", "ended"}, uses : Nat]

Args == {"activate", "request", "decline", "invite", "moderator", "member", "leader",
         "removed", "left"} \cup BOOLEAN \cup Channel \cup Nat

Ops == {"join", "code", "resolve", "target", "moderator", "mute", "kick", "role", "remove",
        "leave", "update", "delete", "roll", "answer", "sweep"}
Steps == {"write", "flag", "consume"}

Call == [op : Ops, by : Account, step : Steps, on : SUBSET Account, arg : Args]

(* What a handler carries, by what it is. *)
Fits(r) ==
  /\ r.op = "moderator" => r.arg \in Ranks
  /\ r.op = "mute" => r.arg \in BOOLEAN
  /\ r.op = "kick" => r.arg = 0
  /\ r.op = "role" => r.arg \in {"leader", "member"}
  /\ r.op = "remove" => r.arg = "removed"
  /\ r.op = "leave" => r.arg = "left"
  /\ r.op = "update" => r.arg \in Channel /\ r.arg.exists
  /\ r.op = "sweep" => r.arg \in DOMAIN rollcalls

CallsFit == \A s \in Slot : call[s] # NoCall => call[s] \in Call /\ Fits(call[s])

Shape ==
  /\ load \in Loads
  /\ member \in [Account -> {"none", "active", "left", "removed"}]
  /\ role \in [Account -> {"owner", "leader", "member"}]
  /\ channel \in Channel
  /\ standing \in [Account -> Standing]
  /\ invite \in [{"community", "code"} -> Tokens]
  /\ rollcalls \in Seq(Rollcall)
  /\ pending \in [{"meta", "channel"} -> BOOLEAN]
  /\ ~Exists => \A a \in Account : standing[a] = NoStanding
  /\ DOMAIN call = Slot /\ CallsFit

LEMMA InitShape == Init => Shape
<1> SUFFICES ASSUME Init PROVE Shape
  OBVIOUS
<1>0. load \in Loads /\ load.joins \in {"open", "request"}
  BY CommunityAssumption DEF Init, CommunityAssumption
<1>1. /\ member \in [Account -> {"none", "active", "left", "removed"}]
      /\ role \in [Account -> {"owner", "leader", "member"}]
      /\ channel \in Channel /\ Exists
  BY <1>0 DEF Init, Channel, Exists
<1>2. standing \in [Account -> Standing]
  BY DEF Init, Standing, Statuses, Ranks, Activated, NoStanding
<1>3. /\ invite \in [{"community", "code"} -> Tokens] /\ rollcalls \in Seq(Rollcall)
      /\ pending \in [{"meta", "channel"} -> BOOLEAN]
  BY DEF Init, Tokens
<1>4. DOMAIN call = Slot /\ CallsFit
  BY DEF Init, CallsFit
<1> QED
  BY <1>0, <1>1, <1>2, <1>3, <1>4 DEF Shape

(* A handler that goes on keeps all but its step. *)
Kept(s, step) ==
  /\ call'[s].step = step /\ call'[s].op = call[s].op /\ call'[s].by = call[s].by
  /\ call'[s].on = call[s].on /\ call'[s].arg = call[s].arg /\ call'[s] \in Call

LEMMA GoesOn ==
  ASSUME Shape, NEW s \in Slot, call[s] # NoCall, NEW step \in Steps, Continue(s, step)
  PROVE  /\ DOMAIN call' = Slot /\ Kept(s, step)
         /\ \A t \in Slot \ {s} : call'[t] = call[t]
<1>1. call[s] \in Call /\ DOMAIN call = Slot
  BY DEF Shape, CallsFit
<1>2. call' = [call EXCEPT ![s] = [call[s] EXCEPT !.step = step]]
  BY DEF Continue
<1>3. call'[s] = [call[s] EXCEPT !.step = step]
  BY <1>1, <1>2
<1>4. Kept(s, step)
  BY <1>1, <1>3 DEF Kept, Call
<1> QED
  BY <1>1, <1>2, <1>4

LEMMA Ends ==
  ASSUME Shape, NEW s \in Slot, Done(s)
  PROVE  /\ DOMAIN call' = Slot /\ call'[s] = NoCall
         /\ \A t \in Slot \ {s} : call'[t] = call[t]
BY DEF Done, Shape

(* What follows for the shape of the calls. *)
LEMMA CallsOn ==
  ASSUME Shape, NEW s \in Slot, DOMAIN rollcalls \subseteq DOMAIN rollcalls',
         Done(s) \/ (call[s] # NoCall /\ \E step \in Steps : Continue(s, step))
  PROVE  DOMAIN call' = Slot /\ CallsFit'
<1>1. \A t \in Slot : call'[t] = call[t] \/ call'[t] = NoCall
                      \/ (t = s /\ call[s] # NoCall /\ \E step \in Steps : Kept(s, step))
  BY GoesOn, Ends
<1>2. DOMAIN call' = Slot
  BY GoesOn, Ends
<1>3. ASSUME NEW t \in Slot, call'[t] # NoCall PROVE call'[t] \in Call /\ Fits(call[t])' 
  <2>1. CASE call'[t] = call[t]
    BY <1>3, <2>1 DEF Shape, CallsFit, Fits
  <2>2. ASSUME t = s, call[s] # NoCall, NEW step \in Steps, Kept(s, step)
        PROVE  call'[t] \in Call /\ Fits(call[t])'
    BY <2>2 DEF Shape, CallsFit, Fits, Kept
  <2> QED BY <1>1, <1>3, <2>1, <2>2
<1> QED
  BY <1>2, <1>3 DEF CallsFit
-----------------------------------------------------------------------------
(* What a handler has read when it arrives, as its writes rely on. *)

Enterer(r, a) ==
  /\ r.on = {a} /\ Exists /\ Eligible(a) /\ r.arg \in {"activate", "request"}
  /\ standing[a].status \notin {"active", "pending"}
  /\ r.arg = "activate" =>
       HasPlace /\ (channel.joins = "open" \/ (r.op = "join" /\ standing[a].status = "invited"))

Pre(r) ==
  r.step = "write" =>
    /\ r.op \in {"join", "code"} => \E a \in Account : Enterer(r, a)
    /\ r.op = "resolve" => /\ r.arg \in {"activate", "decline"}
                           /\ r.arg = "activate" => HasPlace
                           /\ \E a \in Account : r.on = {a} /\ standing[a].status = "pending"
    /\ r.op = "target" => \E a \in Account : r.on = {a} /\ Eligible(a) /\ ~InChannel(a)
    /\ r.op = "moderator" => \E a \in Account : r.on = {a} /\ InChannel(a)
    /\ r.op = "sweep" => \A a \in r.on : /\ ~IsManager(a) /\ standing[a].role = "member"
                                         /\ a \notin rollcalls[r.arg].answers

Began(s, r) ==
  /\ call[s] = NoCall /\ call' = [call EXCEPT ![s] = r]
  /\ r \in Call /\ Fits(r) /\ (load.serial => Idle) /\ Pre(r)
  /\ UNCHANGED <<communityVars, load>>

(* A request that passed its checks is in flight, and nothing else happened. *)
LEMMA Arrives ==
  ASSUME Shape, NEW s \in Slot, Arrive(s)
  PROVE  \E r : Began(s, r) /\ (r.op = "code" => InviteUnlocked /\ Usable("code"))
<1> USE DEF Begin, BeginWith, Began, Admitted
<1>0. /\ channel \in Channel /\ standing \in [Account -> Standing] /\ Owner \in Account
      /\ rollcalls \in Seq(Rollcall) /\ Policy \subseteq Channel /\ \A p \in Policy : p.exists
  BY CommunityAssumption DEF Shape, CommunityAssumption, Policy, Channel
<1>1. ASSUME NEW a \in Account, NEW op \in Ops, NEW x \in SUBSET Account, NEW arg \in Args,
             Begin(s, op, a, x, arg)
      PROVE  LET r == [op |-> op, by |-> a, step |-> "write", on |-> x, arg |-> arg]
             IN  /\ r \in Call /\ call' = [call EXCEPT ![s] = r]
                 /\ r.op = op /\ r.step = "write" /\ r.on = x /\ r.arg = arg
  BY <1>1 DEF Call, Steps
<1>2. ASSUME NEW a \in Account, JoinStart(s, a)
      PROVE  \E r : Began(s, r) /\ r.op # "code"
  <2> DEFINE d == Admission(standing[a].status)
             r == [op |-> "join", by |-> a, step |-> "write", on |-> {a}, arg |-> d]
  <2>1. /\ d \in {"activate", "request"} /\ standing[a].status \notin {"active", "pending"}
        /\ d = "activate" => channel.joins = "open" \/ standing[a].status = "invited"
    BY <1>0, <1>2 DEF JoinStart, Admission, Standing, Statuses
  <2>2. r \in Call /\ Fits(r)
    BY <2>1 DEF Call, Ops, Steps, Args, Fits
  <2>3. Enterer(r, a)
    BY <1>2, <2>1 DEF JoinStart, Enterer
  <2>4. Pre(r)
    BY <2>3 DEF Pre
  <2>5. Began(s, r) /\ r.op # "code"
    BY <1>2, <2>2, <2>4 DEF JoinStart
  <2> QED BY <2>5
<1>3. ASSUME NEW a \in Account, CodeStart(s, a)
      PROVE  \E r : Began(s, r) /\ r.op = "code" /\ InviteUnlocked /\ Usable("code")
  <2> DEFINE d == IF channel.joins = "open" THEN "activate" ELSE "request"
             r == [op |-> "code", by |-> a, step |-> "write", on |-> {a}, arg |-> d]
  <2>1. r \in Call /\ Fits(r)
    BY DEF Call, Ops, Steps, Args, Fits
  <2>2. Enterer(r, a)
    BY <1>3 DEF CodeStart, Enterer
  <2>3. Pre(r)
    BY <2>2 DEF Pre
  <2>4. Began(s, r)
    BY <1>3, <2>1, <2>3 DEF CodeStart
  <2> QED BY <1>3, <2>4 DEF CodeStart
<1>4. ASSUME NEW m \in Account, NEW x \in Account, ResolveStart(s, m, x)
      PROVE  \E r : Began(s, r) /\ r.op # "code"
  <2>1. PICK d \in {"activate", "decline"} :
          (d = "activate" => HasPlace) /\ Begin(s, "resolve", m, {x}, d)
    BY <1>4 DEF ResolveStart
  <2> DEFINE r == [op |-> "resolve", by |-> m, step |-> "write", on |-> {x}, arg |-> d]
  <2>2. r \in Call /\ Fits(r) /\ Pre(r)
    BY <1>4, <2>1 DEF Call, Ops, Steps, Args, Fits, Pre, ResolveStart
  <2>3. Began(s, r) /\ r.op # "code"
    BY <2>1, <2>2
  <2> QED BY <2>3
<1>5. ASSUME NEW m \in Account, NEW x \in Account, TargetStart(s, m, x)
      PROVE  \E r : Began(s, r) /\ r.op # "code"
  <2> DEFINE r == [op |-> "target", by |-> m, step |-> "write", on |-> {x}, arg |-> "invite"]
  <2>1. r \in Call /\ Fits(r) /\ Pre(r)
    BY <1>5 DEF Call, Ops, Steps, Args, Fits, Pre, TargetStart
  <2>2. Began(s, r) /\ r.op # "code"
    BY <1>5, <2>1 DEF TargetStart
  <2> QED BY <2>2
<1>6. ASSUME NEW m \in Account, NEW x \in Account, ModeratorStart(s, m, x)
      PROVE  \E r : Began(s, r) /\ r.op # "code"
  <2>1. PICK d \in {"moderator", "member"} : Begin(s, "moderator", m, {x}, d)
    BY <1>6 DEF ModeratorStart
  <2> DEFINE r == [op |-> "moderator", by |-> m, step |-> "write", on |-> {x}, arg |-> d]
  <2>2. r \in Call /\ Fits(r) /\ Pre(r)
    BY <1>6, <2>1 DEF Call, Ops, Steps, Args, Fits, Pre, ModeratorStart, Ranks
  <2>3. Began(s, r) /\ r.op # "code"
    BY <2>1, <2>2
  <2> QED BY <2>3
<1>7. ASSUME NEW a \in Account, NEW op \in Ops, NEW x \in SUBSET Account, NEW arg \in Args,
             Begin(s, op, a, x, arg), Fits([op |-> op, arg |-> arg]),
             op \notin {"join", "code", "resolve", "target", "moderator", "sweep"}
      PROVE  \E r : Began(s, r) /\ r.op # "code"
  <2> DEFINE r == [op |-> op, by |-> a, step |-> "write", on |-> x, arg |-> arg]
  <2>1. r \in Call /\ Fits(r) /\ Pre(r)
    BY <1>7 DEF Call, Ops, Steps, Fits, Pre
  <2>2. Began(s, r) /\ r.op # "code"
    BY <1>7, <2>1
  <2> QED BY <2>2
<1>8. ASSUME NEW m \in Account, NEW x \in Account,
             MuteStart(s, m, x) \/ KickStart(s, m, x) \/ RemoveStart(s, m, x)
      PROVE  \E r : Began(s, r) /\ r.op # "code"
  <2>1. CASE MuteStart(s, m, x)
    <3>1. PICK b \in BOOLEAN : Begin(s, "mute", m, {x}, b)
      BY <2>1 DEF MuteStart
    <3> QED BY <1>7, <3>1 DEF Fits, Args, Ops
  <2>2. CASE KickStart(s, m, x)
    BY <1>7, <2>2 DEF KickStart, Fits, Args, Ops
  <2>3. CASE RemoveStart(s, m, x)
    <3>1. Begin(s, "remove", m, {x}, "removed")
      BY <2>3 DEF RemoveStart
    <3> QED BY <1>7, <3>1 DEF Fits, Args, Ops
  <2> QED BY <1>8, <2>1, <2>2, <2>3
<1>9. ASSUME NEW a \in Account,
             \/ LeaveStart(s, a) \/ RoleStart(s, a) \/ UpdateStart(s, a)
             \/ DeleteStart(s, a) \/ RollStart(s, a) \/ AnswerStart(s, a)
      PROVE  \E r : Began(s, r) /\ r.op # "code"
  <2>1. CASE LeaveStart(s, a)
    BY <1>7, <2>1 DEF LeaveStart, Fits, Args, Ops
  <2>2. CASE RoleStart(s, a)
    <3>1. PICK d \in {"leader", "member"} : Begin(s, "role", Owner, {a}, d)
      BY <2>2 DEF RoleStart
    <3> QED BY <1>0, <1>7, <3>1 DEF Fits, Args, Ops
  <2>3. CASE UpdateStart(s, a)
    <3>1. PICK p \in Policy : Begin(s, "update", a, {}, p)
      BY <2>3 DEF UpdateStart
    <3>2. p \in Channel /\ p.exists /\ p \in Args
      BY <1>0, <3>1 DEF Args
    <3> QED BY <1>7, <3>1, <3>2 DEF Fits, Ops
  <2>4. CASE DeleteStart(s, a) \/ RollStart(s, a)
    BY <1>7, <2>4 DEF DeleteStart, RollStart, Fits, Args, Ops
  <2>5. CASE AnswerStart(s, a)
    <3>1. PICK i \in DOMAIN rollcalls : Begin(s, "answer", a, {a}, i)
      BY <2>5 DEF AnswerStart
    <3>2. i \in Args
      BY <1>0, <3>1 DEF Args
    <3> QED BY <1>7, <3>1, <3>2 DEF Fits, Ops
  <2> QED BY <1>9, <2>1, <2>2, <2>3, <2>4, <2>5
<1>10. ASSUME NEW a \in Account, SweepStart(s, a)
       PROVE  \E r : Began(s, r) /\ r.op # "code"
  <2>1. PICK i \in Held : BeginWith(s, "sweep", a, IF Silent(i) = {} THEN "consume" ELSE "write",
                                    Silent(i), i)
    BY <1>10 DEF SweepStart
  <2>2. i \in DOMAIN rollcalls /\ i \in Args
    BY <1>0, <2>1 DEF Held, Args
  <2> DEFINE r == [op |-> "sweep", by |-> a, step |-> IF Silent(i) = {} THEN "consume" ELSE "write",
                   on |-> Silent(i), arg |-> i]
  <2>3. r \in Call /\ Fits(r)
    BY <2>2 DEF Call, Ops, Steps, Fits, Silent
  <2>4. Pre(r)
    BY <1>0 DEF Pre, Silent, Standing, Ranks
  <2>5. Began(s, r) /\ r.op # "code"
    BY <2>1, <2>3, <2>4
  <2> QED BY <2>5
<1> QED
  BY <1>2, <1>3, <1>4, <1>5, <1>6, <1>8, <1>9, <1>10 DEF Arrive
-----------------------------------------------------------------------------
(* Every handler, one step at a time. *)

LEMMA Sets ==
  ASSUME Shape, NEW S, NEW f, SetStanding(S, f),
         \A a \in S : a \in Account => f[a] \in Standing
  PROVE  /\ standing' \in [Account -> Standing]
         /\ \A a \in Account : standing'[a] = IF a \in S /\ Exists THEN f[a] ELSE standing[a]
BY DEF SetStanding, Shape

LEMMA Changes ==
  ASSUME NEW r \in Standing
  PROVE  /\ Activated(r) \in Standing /\ Requested(r) \in Standing /\ Removed(r) \in Standing
         /\ Activated(r).status = "active" /\ Activated(r).role = r.role
         /\ Requested(r).status = "pending" /\ Requested(r).role = "member"
         /\ Removed(r).status = "removed" /\ Removed(r).role = "member"
         /\ \A st \in Statuses : LET q == [r EXCEPT !.status = st]
                                 IN  q \in Standing /\ q.status = st /\ q.role = r.role
         /\ \A ro \in Ranks : LET q == [r EXCEPT !.role = ro]
                              IN  q \in Standing /\ q.status = r.status /\ q.role = ro
         /\ \A b \in BOOLEAN : LET q == [r EXCEPT !.muted = b]
                               IN  q \in Standing /\ q.status = r.status /\ q.role = r.role
<1>1. Activated(r) \in Standing /\ Activated(r).status = "active" /\ Activated(r).role = r.role
  BY DEF Standing, Statuses, Ranks, Activated
<1>2. Requested(r) \in Standing /\ Requested(r).status = "pending" /\ Requested(r).role = "member"
  BY DEF Standing, Statuses, Ranks, Requested
<1>3. Removed(r) \in Standing /\ Removed(r).status = "removed" /\ Removed(r).role = "member"
  BY DEF Standing, Statuses, Ranks, Removed
<1>4. \A st \in Statuses : LET q == [r EXCEPT !.status = st]
                           IN  q \in Standing /\ q.status = st /\ q.role = r.role
  BY DEF Standing
<1>5. \A ro \in Ranks : LET q == [r EXCEPT !.role = ro]
                        IN  q \in Standing /\ q.status = r.status /\ q.role = ro
  BY DEF Standing
<1>6. \A b \in BOOLEAN : LET q == [r EXCEPT !.muted = b]
                         IN  q \in Standing /\ q.status = r.status /\ q.role = r.role
  BY DEF Standing
<1> QED
  BY <1>1, <1>2, <1>3, <1>4, <1>5, <1>6

(* What each write makes of the standing of an account.                      *)
Written(s, a) ==
  LET r == call[s]
      old == standing[a]
      new == standing'[a]
  IN  \/ new = old
      \/ /\ a \in r.on /\ Exists /\ r.step = "write"
         /\ \/ r.op \in {"join", "code"} /\ r.arg = "activate"
               /\ new.status = "active" /\ new.role = old.role
            \/ r.op \in {"join", "code"} /\ r.arg # "activate"
               /\ new.status = "pending" /\ new.role = "member"
            \/ r.op = "resolve" /\ new.role = old.role
               /\ new.status = IF r.arg = "activate" THEN "active" ELSE "removed"
            \/ r.op = "target" /\ new.status = "invited" /\ new.role = old.role
            \/ r.op = "moderator" /\ new.status = old.status /\ new.role \in Ranks
            \/ r.op = "mute" /\ new.status = old.status /\ new.role = old.role
            \/ r.op \in {"kick", "remove", "leave"}
               /\ new.status = "removed" /\ new.role = "member"
            \/ r.op = "sweep" /\ new.status = "removed" /\ new.role = old.role
      \/ r.op = "delete" /\ new = NoStanding

(* What any step of a handler does.                                          *)
Proceeded(s) ==
  /\ call[s] # NoCall /\ load' = load
  /\ Done(s) \/ \E step \in {"flag", "consume"} : Continue(s, step)
  /\ \A a \in Account : Written(s, a)
  /\ standing' \in [Account -> Standing]
  /\ Exists' => Exists
  /\ ~Exists /\ ~Exists' => standing' = standing
  /\ Exists /\ ~Exists' => \A a \in Account : standing'[a] = NoStanding
  /\ channel' \in Channel /\ (channel' = channel \/ call[s].op \in {"update", "delete"})
  /\ \/ member' = member
     \/ /\ call[s].op \in {"remove", "leave"} /\ call[s].step = "write"
        /\ member' = [a \in Account |-> IF a \in call[s].on THEN call[s].arg ELSE member[a]]
        /\ \A a \in call[s].on : Exists => standing'[a].status \in {"none", "removed"}
  /\ role' = role \/ (call[s].op = "role" /\ role' \in [Account -> {"owner", "leader", "member"}])
  /\ rollcalls' \in Seq(Rollcall) /\ DOMAIN rollcalls \subseteq DOMAIN rollcalls'
  /\ pending' \in [{"meta", "channel"} -> BOOLEAN]
  /\ \/ invite' = invite
     \/ At(s, "code", "write") /\ CountUse("code") /\ Done(s)
     \/ invite' = [invite EXCEPT !["code"] = [state |-> "none", uses |-> 0]] /\ InviteUnlocked

LEMMA Proceeds ==
  ASSUME Shape, NEW s \in Slot, Proceed(s)
  PROVE  Proceeded(s)
<1>0. /\ channel \in Channel /\ standing \in [Account -> Standing]
      /\ rollcalls \in Seq(Rollcall) /\ pending \in [{"meta", "channel"} -> BOOLEAN]
      /\ role \in [Account -> {"owner", "leader", "member"}]
      /\ call[s] # NoCall => call[s] \in Call /\ Fits(call[s])
  BY DEF Shape, CallsFit
<1>1. ASSUME UNCHANGED <<channel, standing>>, call[s] # NoCall
      PROVE  /\ \A a \in Account : Written(s, a)
             /\ channel' \in Channel /\ standing' \in [Account -> Standing]
             /\ Exists' = Exists
  BY <1>0, <1>1 DEF Written, Exists
<1>2. ASSUME NEW S, NEW f, SetStanding(S, f), UNCHANGED <<channel, role, rollcalls, load>>,
             \A a \in S : a \in Account => f[a] \in Standing,
             \A a \in Account : Written(s, a), call[s] # NoCall,
             Done(s) \/ \E step \in {"flag", "consume"} : Continue(s, step)
      PROVE  /\ call[s] # NoCall /\ load' = load
             /\ standing' \in [Account -> Standing] /\ channel' \in Channel
             /\ Exists' = Exists /\ (~Exists => standing' = standing)
             /\ rollcalls' \in Seq(Rollcall) /\ DOMAIN rollcalls \subseteq DOMAIN rollcalls'
  <2>1. standing' \in [Account -> Standing]
    BY <1>2, Sets
  <2>2. ~Exists => standing' = standing
    BY <1>0, <1>2 DEF SetStanding
  <2> QED BY <1>0, <1>2, <2>1, <2>2 DEF Exists
<1>3. CASE JoinWrite(s) \/ CodeWrite(s)
  <2> DEFINE f == [a \in Account |->
        IF call[s].arg = "activate" THEN Activated(standing[a]) ELSE Requested(standing[a])]
  <2>1. /\ SetStanding(call[s].on, f) /\ call[s].op \in {"join", "code"} /\ call[s].step = "write"
        /\ call[s] # NoCall /\ Done(s)
        /\ UNCHANGED <<member, channel, role, rollcalls, pending, load>>
        /\ invite' = invite \/ (At(s, "code", "write") /\ CountUse("code"))
    BY <1>3 DEF JoinWrite, CodeWrite, Enter, At
  <2>2. \A a \in Account : f[a] \in Standing
    BY <1>0, Changes
  <2>3. \A a \in Account : standing'[a] = IF a \in call[s].on /\ Exists THEN f[a] ELSE standing[a]
    BY <2>1, <2>2, Sets
  <2>4. \A a \in Account : Written(s, a)
    <3> SUFFICES ASSUME NEW a \in Account, standing'[a] # standing[a] PROVE Written(s, a)
      BY DEF Written
    <3>1. a \in call[s].on /\ Exists /\ standing'[a] = f[a] /\ standing[a] \in Standing
      BY <1>0, <2>3
    <3>2. IF call[s].arg = "activate" THEN f[a].status = "active" /\ f[a].role = standing[a].role
         ELSE f[a].status = "pending" /\ f[a].role = "member"
      BY <1>0, <2>1, <3>1, Changes
    <3> QED BY <2>1, <3>1, <3>2 DEF Written
  <2>5. call[s].on \subseteq Account
    BY <1>0, <2>1 DEF Call
  <2> HIDE DEF f
  <2> QED BY <1>0, <1>2, <2>1, <2>2, <2>4, <2>5 DEF Proceeded
<1>4. CASE ResolveWrite(s)
  <2> DEFINE f == [a \in Account |-> IF call[s].arg = "activate" THEN Activated(standing[a])
                                     ELSE [standing[a] EXCEPT !.status = "removed"]]
  <2>1. /\ SetStanding(call[s].on, f) /\ call[s].op = "resolve" /\ call[s].step = "write"
        /\ call[s] # NoCall /\ Done(s)
        /\ UNCHANGED <<member, channel, role, rollcalls, pending, invite, load>>
    BY <1>4 DEF ResolveWrite, At
  <2>2. \A a \in Account : f[a] \in Standing
    BY <1>0, Changes DEF Statuses
  <2>3. \A a \in Account : standing'[a] = IF a \in call[s].on /\ Exists THEN f[a] ELSE standing[a]
    BY <2>1, <2>2, Sets
  <2>4. \A a \in Account : Written(s, a)
    <3> SUFFICES ASSUME NEW a \in Account, standing'[a] # standing[a] PROVE Written(s, a)
      BY DEF Written
    <3>1. a \in call[s].on /\ Exists /\ standing'[a] = f[a] /\ standing[a] \in Standing
      BY <1>0, <2>3
    <3>2. /\ f[a].role = standing[a].role
          /\ f[a].status = IF call[s].arg = "activate" THEN "active" ELSE "removed"
      BY <3>1 DEF Standing, Activated
    <3> QED BY <2>1, <3>1, <3>2 DEF Written
  <2> HIDE DEF f
  <2> QED BY <1>0, <1>2, <2>1, <2>2, <2>4 DEF Proceeded
<1>5. CASE TargetWrite(s)
  <2> DEFINE f == [a \in Account |-> [standing[a] EXCEPT !.status = "invited"]]
  <2>1. /\ SetStanding(call[s].on, f) /\ call[s].op = "target" /\ call[s].step = "write"
        /\ call[s] # NoCall /\ Done(s)
        /\ UNCHANGED <<member, channel, role, rollcalls, pending, invite, load>>
    BY <1>5 DEF TargetWrite, At
  <2>2. \A a \in Account : f[a] \in Standing
    BY <1>0, Changes DEF Statuses
  <2>3. \A a \in Account : standing'[a] = IF a \in call[s].on /\ Exists THEN f[a] ELSE standing[a]
    BY <2>1, <2>2, Sets
  <2>4. \A a \in Account : Written(s, a)
    <3> SUFFICES ASSUME NEW a \in Account, standing'[a] # standing[a] PROVE Written(s, a)
      BY DEF Written
    <3>1. a \in call[s].on /\ Exists /\ standing'[a] = f[a] /\ standing[a] \in Standing
      BY <1>0, <2>3
    <3>2. f[a].status = "invited" /\ f[a].role = standing[a].role
      BY <1>0, <2>1, <3>1, Changes DEF Statuses
    <3> QED BY <2>1, <3>1, <3>2 DEF Written
  <2> HIDE DEF f
  <2> QED BY <1>0, <1>2, <2>1, <2>2, <2>4 DEF Proceeded
<1>6. CASE ModeratorWrite(s)
  <2> DEFINE f == [a \in Account |-> [standing[a] EXCEPT !.role = call[s].arg]]
  <2>1. /\ SetStanding(call[s].on, f) /\ call[s].op = "moderator" /\ call[s].step = "write"
        /\ call[s] # NoCall /\ (Done(s) \/ Continue(s, "flag"))
        /\ UNCHANGED <<member, channel, role, rollcalls, pending, invite, load>>
    BY <1>6 DEF ModeratorWrite, At
  <2>2. call[s].arg \in Ranks
    BY <1>0, <2>1 DEF Fits
  <2>3. \A a \in Account : f[a] \in Standing
    BY <1>0, <2>2, Changes
  <2>4. \A a \in Account : standing'[a] = IF a \in call[s].on /\ Exists THEN f[a] ELSE standing[a]
    BY <2>1, <2>3, Sets
  <2>5. \A a \in Account : Written(s, a)
    <3> SUFFICES ASSUME NEW a \in Account, standing'[a] # standing[a] PROVE Written(s, a)
      BY DEF Written
    <3>1. a \in call[s].on /\ Exists /\ standing'[a] = f[a] /\ standing[a] \in Standing
      BY <1>0, <2>4
    <3>2. f[a].status = standing[a].status /\ f[a].role \in Ranks
      BY <2>2, <3>1 DEF Standing
    <3> QED BY <2>1, <3>1, <3>2 DEF Written
  <2> HIDE DEF f
  <2> QED BY <1>0, <1>2, <2>1, <2>3, <2>5 DEF Proceeded
<1>7. CASE MuteWrite(s)
  <2> DEFINE f == [a \in Account |-> [standing[a] EXCEPT !.muted = call[s].arg]]
  <2>1. /\ SetStanding(call[s].on, f) /\ call[s].op = "mute" /\ call[s].step = "write"
        /\ call[s] # NoCall /\ Done(s)
        /\ UNCHANGED <<member, channel, role, rollcalls, pending, invite, load>>
    BY <1>7 DEF MuteWrite, At
  <2>2. call[s].arg \in BOOLEAN
    BY <1>0, <2>1 DEF Fits
  <2>3. \A a \in Account : f[a] \in Standing
    BY <1>0, <2>2, Changes
  <2>4. \A a \in Account : standing'[a] = IF a \in call[s].on /\ Exists THEN f[a] ELSE standing[a]
    BY <2>1, <2>3, Sets
  <2>5. \A a \in Account : Written(s, a)
    <3> SUFFICES ASSUME NEW a \in Account, standing'[a] # standing[a] PROVE Written(s, a)
      BY DEF Written
    <3>1. a \in call[s].on /\ Exists /\ standing'[a] = f[a] /\ standing[a] \in Standing
      BY <1>0, <2>4
    <3>2. f[a].status = standing[a].status /\ f[a].role = standing[a].role
      BY <3>1 DEF Standing
    <3> QED BY <2>1, <3>1, <3>2 DEF Written
  <2> HIDE DEF f
  <2> QED BY <1>0, <1>2, <2>1, <2>3, <2>5 DEF Proceeded
<1>8. CASE KickWrite(s)
  <2> DEFINE f == [a \in Account |-> Removed(standing[a])]
  <2>1. /\ SetStanding(call[s].on, f) /\ call[s].op = "kick" /\ call[s].step = "write"
        /\ call[s] # NoCall /\ (Done(s) \/ Continue(s, "flag"))
        /\ UNCHANGED <<member, channel, role, rollcalls, pending, invite, load>>
    BY <1>8 DEF KickWrite, At
  <2>3. \A a \in Account : f[a] \in Standing
    BY <1>0, Changes
  <2>4. \A a \in Account : standing'[a] = IF a \in call[s].on /\ Exists THEN f[a] ELSE standing[a]
    BY <2>1, <2>3, Sets
  <2>5. \A a \in Account : Written(s, a)
    <3> SUFFICES ASSUME NEW a \in Account, standing'[a] # standing[a] PROVE Written(s, a)
      BY DEF Written
    <3>1. a \in call[s].on /\ Exists /\ standing'[a] = f[a] /\ standing[a] \in Standing
      BY <1>0, <2>4
    <3>2. f[a].status = "removed" /\ f[a].role = "member"
      BY <1>0, <2>1, <3>1, Changes
    <3> QED BY <2>1, <3>1, <3>2 DEF Written
  <2> HIDE DEF f
  <2> QED BY <1>0, <1>2, <2>1, <2>3, <2>5 DEF Proceeded
<1>9. CASE SweepWrite(s)
  <2> DEFINE f == [a \in Account |-> [standing[a] EXCEPT !.status = "removed"]]
  <2>1. /\ SetStanding(call[s].on, f) /\ call[s].op = "sweep" /\ call[s].step = "write"
        /\ call[s] # NoCall /\ (Continue(s, "consume") \/ Continue(s, "flag"))
        /\ UNCHANGED <<member, channel, role, rollcalls, pending, invite, load>>
    BY <1>9 DEF SweepWrite, At
  <2>3. \A a \in Account : f[a] \in Standing
    BY <1>0, Changes DEF Statuses
  <2>4. \A a \in Account : standing'[a] = IF a \in call[s].on /\ Exists THEN f[a] ELSE standing[a]
    BY <2>1, <2>3, Sets
  <2>5. \A a \in Account : Written(s, a)
    <3> SUFFICES ASSUME NEW a \in Account, standing'[a] # standing[a] PROVE Written(s, a)
      BY DEF Written
    <3>1. a \in call[s].on /\ Exists /\ standing'[a] = f[a] /\ standing[a] \in Standing
      BY <1>0, <2>4
    <3>2. f[a].status = "removed" /\ f[a].role = standing[a].role
      BY <1>0, <2>1, <3>1, Changes DEF Statuses
    <3> QED BY <2>1, <3>1, <3>2 DEF Written
  <2> HIDE DEF f
  <2> QED BY <1>0, <1>2, <2>1, <2>3, <2>5 DEF Proceeded
<1>10. CASE ExitWrite(s)
  <2> DEFINE f == [a \in Account |->
        IF standing[a].status = "none" THEN standing[a] ELSE Removed(standing[a])]
             S == call[s].on
  <2>1. /\ SetStanding(S, f) /\ call[s].op \in {"remove", "leave"} /\ call[s].step = "write"
        /\ call[s] # NoCall /\ Continue(s, "flag")
        /\ member' = [a \in Account |-> IF a \in S THEN call[s].arg ELSE member[a]]
        /\ pending' = [pending EXCEPT !["channel"] = @ \/ MarksChannel(S)]
        /\ UNCHANGED <<channel, role, rollcalls, invite, load>>
    BY <1>10 DEF ExitWrite, At
  <2>2. \A a \in Account : f[a] \in Standing
    BY <1>0, Changes
  <2>3. \A a \in Account : standing'[a] = IF a \in S /\ Exists THEN f[a] ELSE standing[a]
    BY <2>1, <2>2, Sets
  <2>4. \A a \in Account : Written(s, a)
    <3> SUFFICES ASSUME NEW a \in Account, standing'[a] # standing[a] PROVE Written(s, a)
      BY DEF Written
    <3>1. a \in call[s].on /\ Exists /\ standing'[a] = f[a] /\ standing[a] \in Standing
      BY <1>0, <2>3
    <3>2. standing[a].status = "none" \/ (f[a].status = "removed" /\ f[a].role = "member")
      BY <1>0, <2>1, <3>1, Changes
    <3> QED BY <2>1, <3>1, <3>2 DEF Written
  <2>5. S \subseteq Account
    BY <1>0, <2>1 DEF Call
  <2>7. ASSUME NEW a \in S, Exists PROVE standing'[a].status \in {"none", "removed"}
    <3>1. standing'[a] = f[a] /\ a \in Account /\ standing[a] \in Standing
      BY <1>0, <2>3, <2>5, <2>7
    <3> QED BY <3>1 DEF Removed, Standing
  <2>6. pending' \in [{"meta", "channel"} -> BOOLEAN]
    <3>1. \A k \in {"meta", "channel"} : pending'[k] = (pending[k] \/ (k = "channel" /\ MarksChannel(S)))
      BY <1>0, <2>1
    <3> QED BY <1>0, <2>1, Zenon
  <2> HIDE DEF f
  <2> QED BY <1>0, <1>2, <2>1, <2>2, <2>4, <2>5, <2>6, <2>7 DEF Proceeded
<1>11. CASE RoleWrite(s)
  <2>1. /\ call[s].op = "role" /\ call[s] # NoCall /\ (Done(s) \/ Continue(s, "flag"))
        /\ role' = [a \in Account |-> IF a \in call[s].on THEN call[s].arg ELSE role[a]]
        /\ UNCHANGED <<member, channel, standing, rollcalls, pending, invite, load>>
    BY <1>11 DEF RoleWrite, At
  <2>2. role' \in [Account -> {"owner", "leader", "member"}]
    BY <1>0, <2>1 DEF Fits
  <2> QED BY <1>0, <1>1, <2>1, <2>2 DEF Proceeded, Exists
<1>12. CASE FlagMeta(s) \/ FlagChannel(s)
  <2>1. PICK k \in {"meta", "channel"} :
          /\ Flag(k) /\ call[s] # NoCall /\ Done(s)
          /\ UNCHANGED <<member, role, channel, standing, invite, rollcalls, load>>
    BY <1>12 DEF FlagMeta, FlagChannel, FlagStep, At
  <2>2. pending' \in [{"meta", "channel"} -> BOOLEAN]
    <3>1. \A j \in {"meta", "channel"} :
            pending'[j] = IF j = k THEN pending[j] \/ k = "meta" \/ Exists ELSE pending[j]
      BY <1>0, <2>1 DEF Flag
    <3>2. \A j \in {"meta", "channel"} : pending'[j] \in BOOLEAN
      BY <1>0, <3>1, Zenon
    <3>3. DOMAIN pending' = {"meta", "channel"} /\ pending' = [j \in DOMAIN pending' |-> pending'[j]]
      BY <1>0, <2>1 DEF Flag
    <3> QED BY <3>2, <3>3
  <2> QED BY <1>0, <1>1, <2>1, <2>2 DEF Proceeded
<1>13. CASE UpdateWrite(s)
  <2>1. /\ call[s].op = "update" /\ call[s] # NoCall /\ Done(s)
        /\ channel' = IF Exists THEN call[s].arg ELSE channel
        /\ UNCHANGED <<member, role, standing, rollcalls, pending, invite, load>>
    BY <1>13 DEF UpdateWrite, At
  <2>2. channel' \in Channel /\ (Exists' <=> Exists)
    BY <1>0, <2>1 DEF Fits, Exists
  <2> QED BY <1>0, <2>1, <2>2 DEF Proceeded, Written
<1>14. CASE DeleteWrite(s)
  <2>1. /\ call[s].op = "delete" /\ call[s] # NoCall /\ Done(s) /\ InviteUnlocked
        /\ UNCHANGED <<member, role, rollcalls, pending, load>>
        /\ \/ UNCHANGED <<channel, standing, invite>>
           \/ /\ channel' = [channel EXCEPT !.exists = FALSE]
              /\ standing' = [a \in Account |-> NoStanding]
              /\ invite' = [invite EXCEPT !["code"] = [state |-> "none", uses |-> 0]]
    BY <1>14 DEF DeleteWrite, At
  <2>2. CASE UNCHANGED <<channel, standing, invite>>
    BY <1>0, <1>1, <2>1, <2>2 DEF Proceeded
  <2>3. CASE /\ channel' = [channel EXCEPT !.exists = FALSE]
             /\ standing' = [a \in Account |-> NoStanding]
             /\ invite' = [invite EXCEPT !["code"] = [state |-> "none", uses |-> 0]]
    <3>1. channel' \in Channel /\ ~Exists'
      BY <1>0, <2>3 DEF Channel, Exists
    <3>2. standing' \in [Account -> Standing] /\ \A a \in Account : standing'[a] = NoStanding
      BY <2>3 DEF Standing, Statuses, Ranks, NoStanding
    <3>3. ~Exists => standing' = standing
      BY <1>0, <3>2 DEF Shape
    <3>4. \A a \in Account : Written(s, a)
      BY <2>1, <3>2 DEF Written
    <3> QED BY <1>0, <2>1, <2>3, <3>1, <3>2, <3>3, <3>4 DEF Proceeded
  <2> QED BY <2>1, <2>2, <2>3
<1>15. CASE RollWrite(s)
  <2>1. /\ call[s] # NoCall /\ Done(s)
        /\ rollcalls' = IF Exists THEN Append(rollcalls, [state |-> "open", answers |-> {}])
                        ELSE rollcalls
        /\ UNCHANGED <<member, role, channel, standing, invite, pending, load>>
    BY <1>15 DEF RollWrite, At
  <2>2. [state |-> "open", answers |-> {}] \in Rollcall
    BY DEF Rollcall
  <2>3. rollcalls' \in Seq(Rollcall) /\ DOMAIN rollcalls \subseteq DOMAIN rollcalls'
    BY <1>0, <2>1, <2>2
  <2> QED BY <1>0, <1>1, <2>1, <2>3 DEF Proceeded
<1>16. CASE AnswerWrite(s)
  <2>1. /\ call[s] # NoCall /\ Done(s)
        /\ rollcalls' = IF call[s].arg \in Held
                        THEN [rollcalls EXCEPT ![call[s].arg].answers = @ \cup call[s].on]
                        ELSE rollcalls
        /\ UNCHANGED <<member, role, channel, standing, invite, pending, load>>
    BY <1>16 DEF AnswerWrite, At
  <2>2. rollcalls' \in Seq(Rollcall) /\ DOMAIN rollcalls \subseteq DOMAIN rollcalls'
    <3>1. CASE call[s].arg \in Held
      <4> DEFINE i == call[s].arg
      <4>1. i \in DOMAIN rollcalls /\ call[s].on \subseteq Account
        BY <1>0, <2>1, <3>1 DEF Held, Call
      <4>2. rollcalls[i] \in Rollcall
        BY <1>0, <4>1
      <4>3. [rollcalls[i] EXCEPT !.answers = @ \cup call[s].on] \in Rollcall
        BY <4>1, <4>2 DEF Rollcall
      <4>4. rollcalls' = [rollcalls EXCEPT ![i] = [rollcalls[i] EXCEPT !.answers = @ \cup call[s].on]]
        BY <2>1, <3>1
      <4> QED BY <1>0, <4>1, <4>3, <4>4
    <3> QED BY <1>0, <2>1, <3>1
  <2> QED BY <1>0, <1>1, <2>1, <2>2 DEF Proceeded
<1>17. CASE SweepFlag(s)
  <2>1. /\ Flag("channel") /\ call[s] # NoCall /\ Continue(s, "consume")
        /\ UNCHANGED <<member, role, channel, standing, invite, rollcalls, load>>
    BY <1>17 DEF SweepFlag, At
  <2>2. pending' \in [{"meta", "channel"} -> BOOLEAN]
    <3>1. \A j \in {"meta", "channel"} :
            pending'[j] = IF j = "channel" THEN pending[j] \/ Exists ELSE pending[j]
      BY <1>0, <2>1 DEF Flag
    <3>2. \A j \in {"meta", "channel"} : pending'[j] \in BOOLEAN
      BY <1>0, <3>1, Zenon
    <3>3. DOMAIN pending' = {"meta", "channel"} /\ pending' = [j \in DOMAIN pending' |-> pending'[j]]
      BY <1>0, <2>1 DEF Flag
    <3> QED BY <3>2, <3>3
  <2> QED BY <1>0, <1>1, <2>1, <2>2 DEF Proceeded
<1>18. CASE SweepConsume(s)
  <2> DEFINE i == call[s].arg
  <2>1. /\ call[s] # NoCall /\ Done(s) /\ call[s].op = "sweep"
        /\ rollcalls' = [rollcalls EXCEPT ![i].state = "gone"]
        /\ UNCHANGED <<member, role, channel, standing, invite, pending, load>>
    BY <1>18 DEF SweepConsume, At
  <2>2. rollcalls' \in Seq(Rollcall) /\ DOMAIN rollcalls \subseteq DOMAIN rollcalls'
    <3>1. i \in DOMAIN rollcalls /\ rollcalls[i] \in Rollcall
      BY <1>0, <2>1 DEF Fits
    <3>2. [rollcalls[i] EXCEPT !.state = "gone"] \in Rollcall
      BY <3>1 DEF Rollcall
    <3>3. rollcalls' = [rollcalls EXCEPT ![i] = [rollcalls[i] EXCEPT !.state = "gone"]]
      BY <2>1
    <3> QED BY <1>0, <3>1, <3>2, <3>3
  <2> QED BY <1>0, <1>1, <2>1, <2>2 DEF Proceeded
<1> QED
  BY <1>3, <1>4, <1>5, <1>6, <1>7, <1>8, <1>9, <1>10, <1>11, <1>12, <1>13, <1>14, <1>15, <1>16,
     <1>17, <1>18 DEF Proceed
-----------------------------------------------------------------------------
(* The steps that are no handler's: what they leave alone. *)
Apart ==
  /\ UNCHANGED <<channel, standing, pending, load>>
  /\ member' \in [Account -> {"none", "active", "left", "removed"}]
  /\ role' \in [Account -> {"owner", "leader", "member"}]
  /\ \A a \in Account : member[a] = "active" => member'[a] = "active"
  /\ (member' = member /\ role' = role) \/ (load.serial => Idle)
  /\ invite' \in [{"community", "code"} -> Tokens]
  /\ \A k \in {"community", "code"} :
       invite'[k].uses \in {0, invite[k].uses}
       \/ (invite[k].uses < MaxUses /\ k = "community" /\ invite'[k].uses = invite[k].uses + 1)
  /\ rollcalls' \in Seq(Rollcall) /\ DOMAIN rollcalls' = DOMAIN rollcalls
  /\ \A i \in DOMAIN rollcalls : rollcalls'[i].answers = rollcalls[i].answers
  /\ call' = call \/ call' = [s \in Slot |-> NoCall]

LEMMA StandsApart ==
  ASSUME Shape, Alone
  PROVE  Apart
<1>0. /\ member \in [Account -> {"none", "active", "left", "removed"}]
      /\ role \in [Account -> {"owner", "leader", "member"}]
      /\ invite \in [{"community", "code"} -> Tokens]
      /\ rollcalls \in Seq(Rollcall) /\ DOMAIN invite = {"community", "code"}
  BY DEF Shape
<1>1. ASSUME UNCHANGED <<member, role, channel, standing, rollcalls, pending, call, load>>,
             invite' \in [{"community", "code"} -> Tokens],
             \A k \in {"community", "code"} : invite'[k].uses \in {0, invite[k].uses}
      PROVE  Apart
  BY <1>0, <1>1 DEF Apart
<1>2. ASSUME UNCHANGED <<member, role, channel, standing, invite, pending, call, load>>,
             NEW i \in DOMAIN rollcalls, NEW st \in {"open", "closed", "gone"},
             rollcalls' = [rollcalls EXCEPT ![i].state = st]
      PROVE  Apart
  <2>1. rollcalls[i] \in Rollcall
    BY <1>0
  <2>2. /\ [rollcalls[i] EXCEPT !.state = st] \in Rollcall
        /\ [rollcalls[i] EXCEPT !.state = st].answers = rollcalls[i].answers
    BY <2>1 DEF Rollcall
  <2>3. rollcalls' = [rollcalls EXCEPT ![i] = [rollcalls[i] EXCEPT !.state = st]]
    BY <1>2
  <2>4. rollcalls' \in Seq(Rollcall) /\ DOMAIN rollcalls' = DOMAIN rollcalls
    BY <1>0, <2>2, <2>3
  <2>5. \A j \in DOMAIN rollcalls : rollcalls'[j].answers = rollcalls[j].answers
    BY <2>2, <2>3
  <2> QED BY <1>0, <1>2, <2>4, <2>5 DEF Apart
<1>3. ASSUME NEW k \in {"community", "code"}, CreateInvite(k) \/ EndInvite(k) PROVE Apart
  <2>1. /\ UNCHANGED <<member, role, channel, standing, rollcalls, pending, call, load>>
        /\ invite' = [invite EXCEPT ![k] = [state |-> "usable", uses |-> 0]]
           \/ invite' = [invite EXCEPT ![k].state = "ended"]
    BY <1>3 DEF CreateInvite, EndInvite
  <2>2. invite[k] \in Tokens
    BY <1>0
  <2>3. PICK t \in Tokens : invite' = [invite EXCEPT ![k] = t] /\ t.uses \in {0, invite[k].uses}
    <3>1. CASE invite' = [invite EXCEPT ![k] = [state |-> "usable", uses |-> 0]]
      <4>1. [state |-> "usable", uses |-> 0] \in Tokens
        BY DEF Tokens
      <4> WITNESS [state |-> "usable", uses |-> 0] \in Tokens
      <4> QED BY <3>1
    <3>2. CASE invite' = [invite EXCEPT ![k].state = "ended"]
      <4>1. [invite[k] EXCEPT !.state = "ended"] \in Tokens
        BY <2>2 DEF Tokens
      <4> WITNESS [invite[k] EXCEPT !.state = "ended"] \in Tokens
      <4> QED BY <2>2, <3>2 DEF Tokens
    <3> QED BY <2>1, <3>1, <3>2
  <2>4. /\ invite' \in [{"community", "code"} -> Tokens]
        /\ \A j \in {"community", "code"} : invite'[j].uses \in {0, invite[j].uses}
    BY <1>0, <2>3
  <2> QED BY <1>1, <2>1, <2>4
<1>4. ASSUME NEW a \in Account, AcceptInvite(a) PROVE Apart
  <2>1. /\ load.serial => Idle
        /\ invite["community"].uses < MaxUses
        /\ member' = [member EXCEPT ![a] = "active"] /\ role' = [role EXCEPT ![a] = "member"]
        /\ invite' = [invite EXCEPT !["community"].uses = @ + 1]
        /\ UNCHANGED <<channel, standing, rollcalls, pending, call, load>>
    BY <1>4 DEF AcceptInvite, Admitted, Usable, CountUse
  <2>2. invite["community"] \in Tokens
    BY <1>0
  <2> DEFINE t == [invite["community"] EXCEPT !.uses = @ + 1]
  <2>3. t \in Tokens /\ t.uses = invite["community"].uses + 1
    BY <2>2 DEF Tokens
  <2>4. invite' = [invite EXCEPT !["community"] = t]
    BY <2>1
  <2> HIDE DEF t
  <2>5. /\ invite' \in [{"community", "code"} -> Tokens]
        /\ invite'["community"].uses = invite["community"].uses + 1
        /\ invite'["code"].uses = invite["code"].uses
    BY <1>0, <2>3, <2>4
  <2>6. /\ member' \in [Account -> {"none", "active", "left", "removed"}]
        /\ role' \in [Account -> {"owner", "leader", "member"}]
        /\ \A x \in Account : member[x] = "active" => member'[x] = "active"
    BY <1>0, <2>1
  <2> QED BY <1>0, <2>1, <2>5, <2>6 DEF Apart
<1>5. CASE PruneInvites
  <2>1. /\ UNCHANGED <<member, role, channel, standing, rollcalls, pending, call, load>>
        /\ invite' = [k \in {"community", "code"} |->
             IF invite[k].state = "ended" THEN [state |-> "none", uses |-> 0] ELSE invite[k]]
    BY <1>0, <1>5 DEF PruneInvites
  <2>2. [state |-> "none", uses |-> 0] \in Tokens
    BY DEF Tokens
  <2>3. /\ invite' \in [{"community", "code"} -> Tokens]
        /\ \A j \in {"community", "code"} : invite'[j].uses \in {0, invite[j].uses}
    BY <1>0, <2>1, <2>2
  <2> QED BY <1>1, <2>1, <2>3
<1>6. CASE RollCloses
  BY <1>2, <1>6 DEF RollCloses
<1>7. CASE PruneRollcalls
  BY <1>2, <1>7 DEF PruneRollcalls
<1>8. CASE Restart
  BY <1>0, <1>8 DEF Restart, Apart
<1> QED
  BY <1>3, <1>4, <1>5, <1>6, <1>7, <1>8 DEF Alone

LEMMA ShapeStep == Shape /\ [Next]_vars => Shape'
<1> SUFFICES ASSUME Shape, [Next]_vars PROVE Shape'
  OBVIOUS
<1>1. ASSUME NEW s \in Slot, Arrive(s) PROVE Shape'
  <2>1. PICK r : Began(s, r)
    BY <1>1, Arrives
  <2>2. /\ DOMAIN call' = Slot /\ UNCHANGED <<communityVars, load>>
        /\ \A t \in Slot : call'[t] = call[t] \/ (call'[t] = r /\ r \in Call /\ Fits(r))
    BY <2>1 DEF Began, Shape
  <2>3. CallsFit'
    BY <2>2 DEF Shape, CallsFit, Fits
  <2> QED BY <2>2, <2>3 DEF Shape, Exists
<1>2. ASSUME NEW s \in Slot, Proceed(s) PROVE Shape'
  <2>1. Proceeded(s)
    BY <1>2, Proceeds
  <2>2. DOMAIN call' = Slot /\ CallsFit'
    BY <2>1, CallsOn DEF Proceeded, Steps
  <2>3. member' \in [Account -> {"none", "active", "left", "removed"}]
    BY <2>1 DEF Proceeded, Shape, CallsFit, Fits
  <2>4. ~Exists' => \A a \in Account : standing'[a] = NoStanding
    BY <2>1 DEF Proceeded, Shape
  <2>5. invite' \in [{"community", "code"} -> Tokens]
    <3>1. invite \in [{"community", "code"} -> Tokens] /\ invite["code"] \in Tokens
      BY DEF Shape
    <3>2. PICK t \in Tokens : invite' = invite \/ invite' = [invite EXCEPT !["code"] = t]
      <4>1. CASE invite' = invite
        BY <3>1, <4>1
      <4>2. CASE CountUse("code")
        <5>1. [invite["code"] EXCEPT !.uses = @ + 1] \in Tokens
          BY <3>1 DEF Tokens
        <5> WITNESS [invite["code"] EXCEPT !.uses = @ + 1] \in Tokens
        <5> QED BY <4>2 DEF CountUse
      <4>3. CASE invite' = [invite EXCEPT !["code"] = [state |-> "none", uses |-> 0]]
        <5>1. [state |-> "none", uses |-> 0] \in Tokens
          BY DEF Tokens
        <5> QED BY <4>3, <5>1
      <4> QED BY <2>1, <4>1, <4>2, <4>3 DEF Proceeded
    <3> QED BY <3>1, <3>2
  <2> QED BY <2>1, <2>2, <2>3, <2>4, <2>5 DEF Proceeded, Shape
<1>3. CASE Alone
  <2>1. Apart
    BY <1>3, StandsApart
  <2>2. CallsFit' /\ DOMAIN call' = Slot
    BY <2>1 DEF Apart, Shape, CallsFit, Fits
  <2> QED BY <2>1, <2>2 DEF Apart, Shape, Exists
<1>4. CASE UNCHANGED vars
  BY <1>4 DEF Shape, CallsFit, Fits, Exists
<1> QED
  BY <1>1, <1>2, <1>3, <1>4 DEF Next
-----------------------------------------------------------------------------
(* The bound on an invite by code: the one handler that counts a use under   *)
(* the row lock is still below it, for nothing else raises the count.         *)

UseInv ==
  /\ UsesBounded
  /\ \A s, t \in Slot : At(s, "code", "write") /\ At(t, "code", "write") => s = t
  /\ \A s \in Slot : At(s, "code", "write") => invite["code"].uses < MaxUses

LEMMA UseInit == Init => UseInv
BY CommunityAssumption DEF Init, UseInv, UsesBounded, At, CommunityAssumption

LEMMA UseStep == Shape /\ UseInv /\ [Next]_vars => UseInv'
<1> SUFFICES ASSUME Shape, UseInv, [Next]_vars PROVE UseInv'
  OBVIOUS
<1>0. /\ invite \in [{"community", "code"} -> Tokens] /\ DOMAIN invite = {"community", "code"}
      /\ \A k \in {"community", "code"} : invite[k].uses \in Nat /\ invite[k].uses <= MaxUses
      /\ MaxUses \in Nat
  BY CommunityAssumption DEF Shape, UseInv, UsesBounded, CommunityAssumption, Tokens
<1>1. ASSUME NEW s \in Slot, Arrive(s) PROVE UseInv'
  <2>1. PICK r : Began(s, r) /\ (r.op = "code" => InviteUnlocked /\ Usable("code"))
    BY <1>1, Arrives
  <2>2. invite' = invite /\ \A t \in Slot : call'[t] = IF t = s THEN r ELSE call[t]
    BY <2>1 DEF Began, Shape
  <2>3. \A t \in Slot : At(t, "code", "write")' =>
          At(t, "code", "write") \/ (t = s /\ InviteUnlocked /\ Usable("code"))
    BY <2>1, <2>2 DEF At
  <2> QED BY <2>2, <2>3 DEF UseInv, UsesBounded, InviteUnlocked, Usable
<1>2. ASSUME NEW s \in Slot, Proceed(s) PROVE UseInv'
  <2>1. Proceeded(s)
    BY <1>2, Proceeds
  <2>2. \A t \in Slot : At(t, "code", "write")' => At(t, "code", "write") /\ t # s
    <3>1. CASE Done(s)
      BY <3>1, Ends DEF At
    <3>2. ASSUME NEW step \in {"flag", "consume"}, Continue(s, step)
          PROVE  \A t \in Slot : At(t, "code", "write")' => At(t, "code", "write") /\ t # s
      BY <2>1, <3>2, GoesOn DEF At, Kept, Proceeded, Steps
    <3> QED BY <2>1, <3>1, <3>2 DEF Proceeded
  <2>3. CASE invite' = invite
    BY <2>2, <2>3 DEF UseInv, UsesBounded
  <2>4. CASE At(s, "code", "write") /\ CountUse("code")
    <3>1. /\ DOMAIN invite' = {"community", "code"}
          /\ invite'["community"] = invite["community"]
          /\ invite'["code"].uses = invite["code"].uses + 1
      BY <1>0, <2>4 DEF CountUse, Tokens
    <3>2. \A t \in Slot : ~At(t, "code", "write")'
      BY <2>2, <2>4 DEF UseInv
    <3>3. invite["code"].uses < MaxUses
      BY <2>4 DEF UseInv
    <3> QED BY <1>0, <3>1, <3>2, <3>3 DEF UseInv, UsesBounded
  <2>5. CASE invite' = [invite EXCEPT !["code"] = [state |-> "none", uses |-> 0]] /\ InviteUnlocked
    <3>1. /\ DOMAIN invite' = {"community", "code"}
          /\ invite'["community"] = invite["community"] /\ invite'["code"].uses = 0
      BY <1>0, <2>5
    <3>2. \A t \in Slot : ~At(t, "code", "write")'
      BY <2>2, <2>5 DEF InviteUnlocked
    <3> QED BY <1>0, <3>1, <3>2 DEF UseInv, UsesBounded
  <2> QED BY <2>1, <2>3, <2>4, <2>5 DEF Proceeded
<1>3. CASE Alone
  <2>1. Apart
    BY <1>3, StandsApart
  <2>2. \A t \in Slot : At(t, "code", "write")' => At(t, "code", "write")
    BY <2>1 DEF Apart, At
  <2>3. DOMAIN invite' = {"community", "code"}
    BY <2>1 DEF Apart
  <2>4. UsesBounded'
    BY <1>0, <2>1, <2>3 DEF Apart, UsesBounded
  <2>5. invite["code"].uses < MaxUses => invite'["code"].uses < MaxUses
    BY <1>0, <2>1 DEF Apart
  <2> QED BY <2>2, <2>4, <2>5 DEF UseInv
<1>4. CASE UNCHANGED vars
  BY <1>4 DEF UseInv, UsesBounded, At
<1> QED
  BY <1>1, <1>2, <1>3, <1>4 DEF Next

-----------------------------------------------------------------------------
(* One handler at a time: what it has read still holds when it writes.        *)

Used == {a \in Account : InChannel(a)}

Row(a) ==
  /\ standing[a].status \in {"active", "pending", "invited"} => member[a] = "active"
  /\ ~InChannel(a) => standing[a].role = "member"

Rows == \A a \in Account : Row(a)

Only == \A s, t \in Slot : call[s] # NoCall /\ call[t] # NoCall => s = t

SerialInv ==
  load.serial =>
    /\ Only /\ Rows
    /\ Mode = "group_key" => Cardinality(Used) <= ChannelCap
    /\ \A s \in Slot : call[s] # NoCall => Pre(call[s])

LEMMA UsedFinite == IsFiniteSet(Used) /\ Cardinality(Used) \in Nat
<1>1. IsFiniteSet(Account) /\ Used \subseteq Account
  BY CommunityAssumption DEF CommunityAssumption, Used
<1> QED BY <1>1, FS_Subset, FS_CardinalityType

LEMMA SerialInit == Init => SerialInv
<1> SUFFICES ASSUME Init PROVE SerialInv
  OBVIOUS
<1>1. Only /\ \A s \in Slot : call[s] = NoCall
  BY DEF Init, Only
<1>2. load.inside \subseteq load.members /\ load.members \subseteq Account
      /\ (Mode = "group_key" => Cardinality(load.inside \cup {Owner}) <= ChannelCap)
      /\ Owner \in Account
  BY CommunityAssumption DEF Init, CommunityAssumption, Mode
<1>3. Rows
  BY <1>2 DEF Init, Rows, Row, InChannel, Activated, NoStanding
<1>4. Used = load.inside \cup {Owner}
  BY <1>2 DEF Init, Used, InChannel, Activated, NoStanding
<1> QED
  BY <1>1, <1>2, <1>3, <1>4 DEF SerialInv

(* A write of the handler that runs alone keeps the rows and the limit.       *)
LEMMA WriteKeeps ==
  ASSUME Shape, Rows, Mode = "group_key" => Cardinality(Used) <= ChannelCap,
         NEW s \in Slot, Proceeded(s), Pre(call[s])
  PROVE  Rows' /\ (Mode' = "group_key" => Cardinality(Used') <= ChannelCap)
<1> DEFINE r == call[s]
<1>0. /\ r \in Call /\ Fits(r) /\ standing \in [Account -> Standing]
      /\ member \in [Account -> {"none", "active", "left", "removed"}]
  BY DEF Shape, CallsFit, Proceeded
<1>1. ASSUME NEW a \in Account PROVE Row(a)'
  <2>0. /\ standing[a].status \in {"active", "pending", "invited"} => member[a] = "active"
        /\ standing[a].status # "active" => standing[a].role = "member"
    BY DEF Rows, Row, InChannel
  <2>1. \/ r.op \in {"remove", "leave"} /\ r.step = "write" /\ a \in r.on
        \/ member'[a] = member[a]
    BY <1>0 DEF Proceeded
  <2>2. CASE standing'[a] = NoStanding
    BY <2>2 DEF NoStanding, InChannel, Row
  <2>3. CASE member'[a] = member[a] /\ standing'[a] = standing[a]
    BY <2>0, <2>3 DEF InChannel, Row
  <2>4. CASE standing'[a].status = "removed" /\ standing'[a].role = "member"
    BY <2>4 DEF InChannel, Row
  <2>5. CASE standing'[a] # standing[a] /\ standing'[a] # NoStanding /\ r.op \notin {"remove", "leave"}
    <3>1. member'[a] = member[a] /\ a \in r.on /\ r.step = "write" /\ Written(s, a)
      BY <2>1, <2>5 DEF Proceeded, Written
    <3>2. CASE r.op \in {"join", "code"}
      <4>1. member[a] = "active" /\ standing[a].status # "active"
        BY <3>1, <3>2 DEF Pre, Enterer, Eligible
      <4> QED BY <2>0, <2>5, <3>1, <3>2, <4>1 DEF Written, InChannel, Row
    <3>3. CASE r.op = "resolve"
      <4>1. standing[a].status = "pending"
        BY <3>1, <3>3 DEF Pre
      <4> QED BY <2>0, <2>5, <3>1, <3>3, <4>1 DEF Written, InChannel, Row
    <3>4. CASE r.op = "target"
      <4>1. member[a] = "active" /\ standing[a].status # "active"
        BY <3>1, <3>4 DEF Pre, Eligible, InChannel
      <4> QED BY <2>0, <2>5, <3>1, <3>4, <4>1 DEF Written, InChannel, Row
    <3>5. CASE r.op = "moderator"
      <4>1. standing[a].status = "active"
        BY <3>1, <3>5 DEF Pre, InChannel
      <4> QED BY <2>0, <2>5, <3>1, <3>5, <4>1 DEF Written, InChannel, Row
    <3>6. CASE r.op = "sweep"
      <4>1. standing[a].role = "member"
        BY <3>1, <3>6 DEF Pre
      <4> QED BY <2>0, <2>5, <3>1, <3>6, <4>1 DEF Written, InChannel, Row
    <3>7. CASE r.op \in {"mute", "kick", "delete"}
      BY <2>0, <2>5, <3>1, <3>7 DEF Written, InChannel, Row
    <3> QED BY <2>5, <3>1, <3>2, <3>3, <3>4, <3>5, <3>6, <3>7 DEF Written
  <2>6. CASE r.op \in {"remove", "leave"} /\ standing'[a] # NoStanding
    <3>1. CASE standing'[a] = standing[a]
      <4>1. CASE a \in r.on /\ r.step = "write" /\ member'[a] # member[a]
        <5>1. Exists \/ standing[a] = NoStanding
          BY DEF Shape
        <5>2. standing'[a].status \in {"none", "removed"}
          BY <2>6, <3>1, <4>1, <5>1 DEF Proceeded
        <5> QED BY <2>0, <3>1, <5>2 DEF InChannel, Row
      <4> QED BY <2>1, <2>3, <3>1, <4>1
    <3>2. CASE standing'[a] # standing[a]
      BY <2>4, <2>6, <3>2 DEF Proceeded, Written
    <3> QED BY <3>1, <3>2
  <2> QED BY <2>1, <2>2, <2>3, <2>5, <2>6
<1>2. ASSUME Mode' = "group_key" PROVE Cardinality(Used') <= ChannelCap
  <2>1. Mode = "group_key" /\ Cardinality(Used) <= ChannelCap /\ ChannelCap \in Nat
    BY <1>2, CommunityAssumption DEF Mode, Proceeded, CommunityAssumption
  <2>2. \A a \in Account : InChannel(a)' => InChannel(a) \/
          (HasPlace /\ r.on = {a})
    <3> TAKE a \in Account
    <3> HAVE InChannel(a)'
    <3>1. CASE standing'[a] = standing[a]
      BY <3>1 DEF InChannel
    <3>2. CASE standing'[a] # standing[a] /\ ~InChannel(a)
      <4>1. Written(s, a) /\ standing'[a].status = "active" /\ standing[a].status # "active"
        BY <3>2 DEF Proceeded, InChannel
      <4>2. /\ a \in r.on /\ r.step = "write" /\ r.arg = "activate"
            /\ r.op \in {"join", "code", "resolve"}
        BY <3>2, <4>1 DEF Written, NoStanding
      <4> QED BY <4>2 DEF Pre, Enterer
    <3> QED BY <3>1, <3>2
  <2>3. CASE Used' \subseteq Used
    <3>1. Cardinality(Used') <= Cardinality(Used)
      BY <2>3, UsedFinite, FS_Subset
    <3> QED BY <2>1, <2>3, <3>1, UsedFinite, FS_Subset, FS_CardinalityType
  <2>4. CASE ~(Used' \subseteq Used)
    <3>1. PICK a \in Account : HasPlace /\ r.on = {a} /\ ~InChannel(a)
      BY <2>2, <2>4 DEF Used
    <3>2. Used' \subseteq Used \cup {a}
      BY <2>2, <3>1 DEF Used
    <3>3. Cardinality(Used) < ChannelCap
      BY <2>1, <3>1 DEF HasPlace, Used
    <3>4. IsFiniteSet(Used \cup {a}) /\ Cardinality(Used \cup {a}) = Cardinality(Used) + 1
      BY <3>1, UsedFinite, FS_AddElement DEF Used
    <3>5. Cardinality(Used') <= Cardinality(Used) + 1 /\ Cardinality(Used') \in Nat
      BY <3>2, <3>4, FS_Subset, FS_CardinalityType
    <3> QED BY <2>1, <3>3, <3>5, UsedFinite
  <2> QED BY <2>3, <2>4
<1> QED
  BY <1>1, <1>2 DEF Rows

LEMMA SerialStep == Shape /\ SerialInv /\ [Next]_vars => SerialInv'
<1> SUFFICES ASSUME Shape, SerialInv, [Next]_vars PROVE SerialInv'
  OBVIOUS
<1>1. ASSUME NEW s \in Slot, Arrive(s) PROVE SerialInv'
  <2>1. PICK r : Began(s, r)
    BY <1>1, Arrives
  <2>2. /\ UNCHANGED <<communityVars, load>> /\ DOMAIN call' = Slot
        /\ \A t \in Slot : call'[t] = IF t = s THEN r ELSE call[t]
    BY <2>1 DEF Began, Shape
  <2>3. load.serial => \A t \in Slot : call[t] = NoCall
    BY <2>1 DEF Began, Idle
  <2>4. Pre(r)'
    BY <2>1, <2>2 DEF Began, Pre, Enterer, Eligible, IsLeader, IsManager, InChannel, Exists,
                      HasPlace, Mode
  <2>5. Used' = Used /\ Mode' = Mode /\ (load.serial => Rows')
    BY <2>2 DEF SerialInv, Rows, Row, InChannel, Used, Mode
  <2>6. load.serial => Only' /\ \A t \in Slot : call'[t] # NoCall => call'[t] = r
    BY <2>2, <2>3 DEF Only
  <2> QED BY <2>2, <2>4, <2>5, <2>6 DEF SerialInv, Pre
<1>2. ASSUME NEW s \in Slot, Proceed(s) PROVE SerialInv'
  <2>1. Proceeded(s)
    BY <1>2, Proceeds
  <2>2. ASSUME load.serial PROVE \A t \in Slot : call'[t] # NoCall => t = s /\ call'[t].step # "write"
    <3>1. \A t \in Slot : t # s => call[t] = NoCall
      BY <2>1, <2>2 DEF SerialInv, Only, Proceeded
    <3>2. CASE Done(s)
      BY <3>1, <3>2, Ends
    <3>3. ASSUME NEW step \in {"flag", "consume"}, Continue(s, step)
          PROVE  \A t \in Slot : call'[t] # NoCall => t = s /\ call'[t].step # "write"
      BY <2>1, <3>1, <3>3, GoesOn DEF Kept, Proceeded, Steps
    <3> QED BY <2>1, <3>2, <3>3 DEF Proceeded
  <2>3. load.serial => Rows' /\ (Mode' = "group_key" => Cardinality(Used') <= ChannelCap)
    BY <2>1, WriteKeeps DEF SerialInv, Proceeded
  <2>4. load' = load
    BY <2>1 DEF Proceeded
  <2> QED BY <2>2, <2>3, <2>4 DEF SerialInv, Only, Pre
<1>3. CASE Alone
  <2>1. Apart
    BY <1>3, StandsApart
  <2>2. load' = load /\ standing' = standing /\ channel' = channel /\ Used' = Used
    BY <2>1 DEF Apart, Used, InChannel
  <2>3. load.serial => Only' /\ \A t \in Slot : call'[t] # NoCall => call'[t] = call[t]
    BY <2>1 DEF Apart, SerialInv, Only
  <2>4. load.serial => Rows'
    BY <2>1, <2>2 DEF Apart, SerialInv, Rows, Row, InChannel
  <2>5. ASSUME load.serial, NEW t \in Slot, call'[t] # NoCall PROVE Pre(call[t])'
    <3>1. call'[t] = call[t] /\ call[t] # NoCall /\ Pre(call[t]) /\ Fits(call[t])
      BY <2>3, <2>5 DEF SerialInv, Shape, CallsFit
    <3>2. member' = member /\ role' = role
      BY <2>1, <2>5, <3>1 DEF Apart, Idle
    <3>3. \A i \in DOMAIN rollcalls : rollcalls'[i].answers = rollcalls[i].answers
      BY <2>1 DEF Apart
    <3> QED BY <2>2, <3>1, <3>2, <3>3 DEF Pre, Fits, Enterer, Eligible, IsLeader, IsManager,
                                          InChannel, Exists, HasPlace, Mode
  <2> QED BY <2>2, <2>3, <2>4, <2>5 DEF SerialInv, Mode
<1>4. CASE UNCHANGED vars
  <2>1. Rows' = Rows /\ Only' = Only /\ Used' = Used /\ Mode' = Mode
    BY <1>4 DEF Rows, Row, Only, InChannel, Used, Mode
  <2>2. \A t \in Slot : Pre(call[t])' = Pre(call[t])
    BY <1>4 DEF Pre, Enterer, Eligible, IsLeader, IsManager, InChannel, Exists, HasPlace, Mode
  <2> QED BY <1>4, <2>1, <2>2 DEF SerialInv
<1> QED
  BY <1>1, <1>2, <1>3, <1>4 DEF Next
-----------------------------------------------------------------------------
(* The theorems. *)

MembershipInd == Shape /\ UseInv /\ SerialInv

LEMMA MembershipInductive == Spec => []MembershipInd
<1>1. Init => MembershipInd
  BY InitShape, UseInit, SerialInit DEF MembershipInd
<1>2. MembershipInd /\ [Next]_vars => MembershipInd'
  BY ShapeStep, UseStep, SerialStep DEF MembershipInd
<1> QED
  BY <1>1, <1>2, PTL DEF Spec

(* Whoever redeems the codes, approves, invites, joins, kicks, exits and      *)
(* sweeps, and in whatever order: no invite by code admits more than it says, *)
(* nobody stays in a channel who is not in the community, and a channel with  *)
(* a shared key never outgrows its limit (the last two with one handler at a  *)
(* time).                                                                      *)
THEOREM MembershipHolds == Spec => []MembershipInvariant
<1>1. MembershipInd => MembershipInvariant
  <2> SUFFICES ASSUME MembershipInd PROVE MembershipInvariant
    OBVIOUS
  <2>1. CommunityTypeOK
    <3>1. \A i \in DOMAIN rollcalls : rollcalls[i] \in Rollcall
      BY DEF MembershipInd, Shape
    <3>2. ~channel.exists => standing = [a \in Account |-> NoStanding]
      BY DEF MembershipInd, Shape, Exists
    <3> QED BY <3>1, <3>2 DEF MembershipInd, Shape, CommunityTypeOK, Channel, Standing, Statuses,
                             Ranks, Tokens, Rollcall
  <2>2. MembersOnly
    BY DEF MembershipInd, SerialInv, Rows, Row, MembersOnly, InChannel
  <2>3. ChannelCapHolds
    BY DEF MembershipInd, SerialInv, Used, ChannelCapHolds
  <2> QED BY <2>1, <2>2, <2>3 DEF MembershipInd, UseInv, MembershipInvariant
<1> QED
  BY <1>1, MembershipInductive, PTL

(* Only a handler's step changes who is in the channel, and with one handler  *)
(* at a time it is the one whose call is in flight.                            *)
LEMMA Mover ==
  ASSUME Shape, SerialInv, [Next]_vars, load.serial,
         NEW a \in Account, InChannel(a)' # InChannel(a)
  PROVE  \E s \in Slot :
           /\ Proceeded(s) /\ Pre(call[s]) /\ Row(a) /\ Written(s, a)
           /\ standing'[a] # standing[a]
           /\ \A t \in Slot : call[t] # NoCall => t = s
<1>1. standing' # standing
  BY DEF InChannel
<1>2. ~(\E s \in Slot : Arrive(s))
  BY <1>1, Arrives DEF Began
<1>3. ~Alone
  BY <1>1, StandsApart DEF Apart
<1>4. PICK s \in Slot : Proceed(s)
  BY <1>1, <1>2, <1>3 DEF Next
<1>5. Proceeded(s)
  BY <1>4, Proceeds
<1>6. Only /\ Rows /\ \A t \in Slot : call[t] # NoCall => Pre(call[t])
  BY DEF SerialInv
<1> QED
  BY <1>5, <1>6 DEF Proceeded, Only, Rows, InChannel

(* Whoever gets into a channel that asks for approval was invited or is being *)
(* approved, and nobody comes back as the moderator they once were: every way  *)
(* in has read the row it writes, and every way out resets the role.            *)
THEOREM NobodySlipsIn == Spec => EntersProperly
<1>1. MembershipInd /\ [Next]_vars =>
        [load.serial => \A a \in Account : Enters(a) =>
           /\ standing'[a].role = "member"
           /\ channel.joins = "request" =>
                \/ standing[a].status = "invited"
                \/ standing[a].status = "pending" /\ \E s \in Slot : At(s, "resolve", "write")]_vars
  <2> SUFFICES ASSUME MembershipInd, [Next]_vars, load.serial, NEW a \in Account, Enters(a)
               PROVE  /\ standing'[a].role = "member"
                      /\ channel.joins = "request" =>
                           \/ standing[a].status = "invited"
                           \/ /\ standing[a].status = "pending"
                              /\ \E s \in Slot : At(s, "resolve", "write")
    OBVIOUS
  <2>1. PICK s \in Slot : /\ Proceeded(s) /\ Pre(call[s]) /\ Row(a) /\ Written(s, a)
                          /\ standing'[a] # standing[a]
    BY Mover DEF MembershipInd, Enters
  <2>2. /\ standing[a].role = "member" /\ standing'[a].status = "active"
        /\ standing[a].status # "active"
    BY <2>1 DEF Enters, Row, InChannel
  <2>3. /\ a \in call[s].on /\ call[s].step = "write" /\ call[s].arg = "activate"
        /\ call[s].op \in {"join", "code", "resolve"} /\ standing'[a].role = standing[a].role
    BY <2>1, <2>2 DEF Written, NoStanding
  <2>4. CASE call[s].op \in {"join", "code"}
    <3>1. Enterer(call[s], a)
      BY <2>1, <2>3, <2>4 DEF Pre, Enterer
    <3> QED BY <2>2, <2>3, <3>1 DEF Enterer
  <2>5. CASE call[s].op = "resolve"
    <3>1. standing[a].status = "pending" /\ At(s, "resolve", "write")
      BY <2>1, <2>3, <2>5 DEF Pre, At, Proceeded
    <3> QED BY <2>2, <2>3, <3>1
  <2> QED BY <2>3, <2>4, <2>5
<1> QED
  BY <1>1, MembershipInductive, PTL DEF Spec, EntersProperly

(* A sweep that runs beside no other handler removes nobody who answered the  *)
(* roll-call, and nobody who manages the channel.                              *)
THEOREM SweepIsFair == Spec => SweepSpares
<1>1. MembershipInd /\ [Next]_vars =>
        [\A s \in Slot : load.serial /\ At(s, "sweep", "write") =>
           \A a \in Account : InChannel(a) /\ ~InChannel(a)' =>
             ~IsManager(a) /\ a \notin rollcalls[call[s].arg].answers]_vars
  <2> SUFFICES ASSUME MembershipInd, [Next]_vars, NEW s \in Slot, load.serial,
                      At(s, "sweep", "write"), NEW a \in Account, InChannel(a), ~InChannel(a)'
               PROVE  ~IsManager(a) /\ a \notin rollcalls[call[s].arg].answers
    OBVIOUS
  <2>1. PICK t \in Slot : /\ Proceeded(t) /\ Pre(call[t]) /\ Written(t, a)
                          /\ standing'[a] # standing[a]
                          /\ \A u \in Slot : call[u] # NoCall => u = t
    BY Mover DEF MembershipInd
  <2>2. t = s /\ call[s].op = "sweep" /\ call[s].step = "write"
    BY <2>1 DEF At
  <2>3. a \in call[s].on
    BY <2>1, <2>2 DEF Written
  <2> QED BY <2>1, <2>2, <2>3 DEF Pre
<1> QED
  BY <1>1, MembershipInductive, PTL DEF Spec, SweepSpares

-----------------------------------------------------------------------------
(* A set of numbers with a bound has a greatest.                              *)
LEMMA Greatest ==
  ASSUME NEW N \in Nat, NEW S \in SUBSET (0 .. N), S # {}
  PROVE  \E m \in S : \A n \in S : n <= m
<1> DEFINE R == StrictSubsetOrdering(0 .. N)
           After(e) == {n \in 0 .. N : n > e}
           T == {After(e) : e \in S}
<1>1. IsFiniteSet(0 .. N)
  BY FS_Interval
<1>2. T \subseteq FiniteSubsetsOf(0 .. N) /\ T # {}
  <2>1. \A e \in S : After(e) \subseteq 0 .. N /\ IsFiniteSet(After(e))
    BY <1>1, FS_Subset
  <2> QED BY <2>1 DEF FiniteSubsetsOf
<1>3. PICK x \in T : \A y \in T : ~(<<y, x>> \in R)
  <2> HIDE DEF R, T
  <2> QED BY <1>2, WFMin, FS_StrictSubsetOrderingWellFounded DEF R
<1>4. PICK m \in S : x = After(m)
  OBVIOUS
<1>5. ASSUME NEW n \in S, ~(n <= m) PROVE FALSE
  <2>1. After(n) \subseteq After(m) /\ n \in After(m) /\ n \notin After(n)
    BY <1>5
  <2>2. After(n) # After(m) /\ After(n) \in SUBSET (0 .. N) /\ After(m) \in SUBSET (0 .. N)
    BY <2>1
  <2>3. ~(<<After(n), After(m)>> \in R)
    BY <1>3, <1>4
  <2> HIDE DEF After
  <2>4. <<After(n), After(m)>> \in R
    BY <2>1, <2>2 DEF StrictSubsetOrdering
  <2> QED BY <2>3, <2>4
<1> QED
  BY <1>5

-----------------------------------------------------------------------------
(* The keys: the shape of what the server keeps and of what the clients do.  *)

AnyCap == [of : Account, scope : {"community", "channel"},
           as : {"owner", "leader", "member", "moderator"}, by : Account]

Task == [op : {"fetch", "send", "rotate", "grant", "meta", "metaGrant", "caps"},
         step : {"reply", "seal", "read", "check", "commit", "adopt", "list", "insert", "post"},
         epoch : Epochs, who : Account \cup {NoOne}, to : SUBSET (Account \cup AnyCap)]

(* What a client's task knows of the keys. *)
OfRotation(k, d, t) ==
  /\ t.step \in {"check", "commit"} => t.epoch < MaxEpoch /\ (k = "meta" => t.to \subseteq Account)
  /\ t.step = "adopt" => t.epoch + 1 <= epoch[k] /\ commitment[k][t.epoch + 1] = d

OfGrant(k, t) == t.epoch <= epoch[k] /\ t.who \in Account /\ t.to \subseteq Account

TaskFits(d, t) ==
  /\ t.op \in {"fetch", "send"} /\ t.step = "reply" =>
       /\ t.epoch <= epoch["channel"] /\ t.who = commitment["channel"][t.epoch]
       /\ t.to \subseteq Account
  /\ t.op = "send" /\ t.step = "seal" /\ t.who # NoOne => t.epoch <= highWater[d]
  /\ t.op = "rotate" => OfRotation("channel", d, t)
  /\ t.op = "meta" => OfRotation("meta", d, t)
  /\ t.op = "grant" => OfGrant("channel", t)
  /\ t.op = "metaGrant" => OfGrant("meta", t)

TasksFit == \A d \in Account : task[d] # NoCall => task[d] \in Task /\ TaskFits(d, task[d])

KeyShape ==
  /\ epoch \in [Key -> Epochs]
  /\ commitment \in [Key -> [Epochs -> Account \cup {NoOne}]]
  /\ grants \in [Key -> SUBSET [epoch : Epochs, to : Account, minter : Account]]
  /\ held \in [Key -> [Account -> [Epochs -> Account \cup {NoOne}]]]
  /\ highWater \in [Account -> Epochs]
  /\ DOMAIN task = Account

(* A commitment is published for each epoch that has begun and no other. *)
Committed == \A k \in Key : \A e \in Epochs : commitment[k][e] # NoOne <=> e <= epoch[k]

GrantsInTime == \A k \in Key : \A g \in grants[k] : g.epoch <= epoch[k]

OneMeta ==
  \A d \in Account : \A e, f \in Epochs :
    held["meta"][d][e] # NoOne /\ held["meta"][d][f] # NoOne => e = f

(* The current K_channel was granted to its minter, in the transaction. *)
Backed == commitment["channel"][epoch["channel"]] \in GrantedTo("channel", epoch["channel"])

KeysInd ==
  /\ load \in Loads
  /\ KeyShape /\ TasksFit /\ Committed /\ GrantsInTime /\ OneMeta /\ OneKeyPerEpoch /\ Backed

LEMMA Bounds ==
  ASSUME load \in Loads
  PROVE  /\ MaxEpoch \in Nat /\ NoOne \notin Account /\ Owner \in Account
         /\ load.mode = "group_key" /\ load.epochs \in 0 .. MaxEpoch
BY KeysAssumption, CommunityAssumption DEF KeysAssumption, CommunityAssumption

(* The newest epoch that a device holds is one it holds. *)
LEMMA LatestHeld ==
  ASSUME KeyShape, NEW k \in Key, NEW d \in Account
  PROVE  /\ Latest(k, d) \in Int
         /\ Latest(k, d) # -1 => Latest(k, d) \in Epochs /\ held[k][d][Latest(k, d)] # NoOne
<1>1. MaxEpoch \in Nat /\ HeldEpochs(k, d) \in SUBSET (0 .. MaxEpoch)
  BY KeysAssumption DEF KeysAssumption, HeldEpochs, Epochs
<1>2. CASE HeldEpochs(k, d) = {}
  BY <1>2 DEF Latest
<1>3. CASE HeldEpochs(k, d) # {}
  <2>1. \E m \in HeldEpochs(k, d) : \A n \in HeldEpochs(k, d) : n <= m
    BY <1>1, <1>3, Greatest
  <2>2. Latest(k, d) \in HeldEpochs(k, d)
    BY <1>3, <2>1 DEF Latest
  <2> QED BY <1>1, <2>2 DEF HeldEpochs, Epochs
<1> QED
  BY <1>2, <1>3

-----------------------------------------------------------------------------
(* Frames: what most steps have in common. *)

(* Epochs only go up, and what was committed to stays. *)
Grows ==
  /\ \A k \in Key : epoch[k] <= epoch'[k]
  /\ \A k \in Key : \A e \in Epochs : e <= epoch[k] => commitment'[k][e] = commitment[k][e]
  /\ \A d \in Account : highWater[d] <= highWater'[d]

LEMMA FitsStill ==
  ASSUME KeyShape, KeyShape', Grows, MaxEpoch \in Nat, NEW d \in Account, NEW t \in Task, TaskFits(d, t)
  PROVE  TaskFits(d, t)'
<1>1. /\ t.epoch \in Nat /\ t.epoch \in Epochs /\ Epochs = 0 .. MaxEpoch
      /\ \A k \in Key : epoch[k] \in 0 .. MaxEpoch /\ epoch'[k] \in 0 .. MaxEpoch /\ epoch[k] <= epoch'[k]
      /\ highWater[d] \in Nat /\ highWater'[d] \in Nat /\ highWater[d] <= highWater'[d]
      /\ "channel" \in Key /\ "meta" \in Key
  BY DEF KeyShape, Grows, Task, Epochs, Key
<1>2. ASSUME NEW k \in Key, t.epoch <= epoch[k]
      PROVE  t.epoch <= epoch'[k] /\ commitment'[k][t.epoch] = commitment[k][t.epoch]
  BY <1>1, <1>2 DEF Grows
<1>3. ASSUME NEW k \in Key, OfRotation(k, d, t) PROVE OfRotation(k, d, t)'
  <2>1. ASSUME t.epoch + 1 <= epoch[k]
        PROVE  t.epoch + 1 <= epoch'[k] /\ commitment'[k][t.epoch + 1] = commitment[k][t.epoch + 1]
    BY <1>1, <2>1 DEF Grows
  <2> QED BY <1>3, <2>1 DEF OfRotation
<1>4. ASSUME NEW k \in Key, OfGrant(k, t) PROVE OfGrant(k, t)'
  BY <1>2, <1>4 DEF OfGrant
<1> QED
  BY <1>1, <1>2, <1>3, <1>4 DEF TaskFits

(* A device's task becomes t, and the tasks of the others stay. *)
LEMMA Turned ==
  ASSUME KeyShape, KeyShape', TasksFit, Grows, MaxEpoch \in Nat, NEW d \in Account, NEW t,
         task' = [task EXCEPT ![d] = t], t # NoCall => t \in Task /\ TaskFits(d, t)'
  PROVE  TasksFit'
<1>1. ASSUME NEW x \in Account, NEW u, u = task'[x], u # NoCall
      PROVE  u \in Task /\ TaskFits(x, u)'
  <2>1. CASE x = d
    BY <1>1, <2>1 DEF KeyShape
  <2>2. CASE x # d
    <3>1. task[x] = u
      BY <1>1, <2>2 DEF KeyShape
    <3>2. u \in Task /\ TaskFits(x, u)
      BY <1>1, <3>1 DEF TasksFit
    <3> QED BY <3>2, FitsStill
  <2> QED BY <2>1, <2>2
<1>2. ASSUME NEW x \in Account, NEW u, u = task'[x], TaskFits(x, u)'
      PROVE  TaskFits(x, task[x])'
  BY <1>2 DEF TaskFits, OfRotation, OfGrant
<1>3. ASSUME NEW x \in Account, task'[x] # NoCall
      PROVE  task'[x] \in Task /\ TaskFits(x, task[x])'
  BY <1>1, <1>2, <1>3
<1> QED
  BY <1>3 DEF TasksFit

(* A step that only turns a task. *)
OnlyTask(d, t) ==
  /\ task' = [task EXCEPT ![d] = t] /\ (t # NoCall => t \in Task /\ TaskFits(d, t))
  /\ UNCHANGED <<load, epoch, commitment, grants, caps, held, highWater>>

LEMMA TaskOnly ==
  ASSUME KeysInd, NEW d \in Account, NEW t, OnlyTask(d, t)
  PROVE  KeysInd'
<1>1. KeyShape' /\ MaxEpoch \in Nat
  BY Bounds DEF KeysInd, KeyShape, OnlyTask
<1>2. Grows
  BY <1>1 DEF Grows, OnlyTask, KeyShape, KeysInd, Epochs
<1>3. TaskFits(d, t)' <=> TaskFits(d, t)
  BY DEF OnlyTask, TaskFits, OfRotation, OfGrant
<1>4. TasksFit'
  BY <1>1, <1>2, <1>3, Turned DEF KeysInd, OnlyTask
<1> QED
  BY <1>1, <1>4 DEF KeysInd, OnlyTask, Committed, GrantsInTime, OneMeta, OneKeyPerEpoch, Backed, GrantedTo,
     KeyShape


(* Steps that read, and remember what they read. *)
LEMMA ReadsFit ==
  ASSUME KeysInd, NEW d \in Account,
         \/ FetchRead(d, "fetch") \/ FetchRead(d, "send") \/ RotateNoticed(d) \/ GrantStart(d)
         \/ MetaRead(d) \/ MetaGrantList(d) \/ CapsStart(d)
  PROVE  KeysInd'
<1>1. /\ KeyShape /\ Epochs = 0 .. MaxEpoch /\ MaxEpoch \in Nat /\ NoOne \notin Account
      /\ "channel" \in Key /\ "meta" \in Key /\ load.epochs \in 0 .. MaxEpoch /\ 0 \in Epochs
  BY Bounds DEF KeysInd, Epochs, Key
<1>2. epoch["channel"] \in Epochs /\ epoch["meta"] \in Epochs
  BY <1>1 DEF KeyShape
<1>3. ASSUME NEW op \in {"fetch", "send"}, FetchRead(d, op) PROVE KeysInd'
  <2> DEFINE c == commitment["channel"][epoch["channel"]]
             to == {g.minter : g \in {h \in grants["channel"] : h.epoch = epoch["channel"] /\ h.to = d}}
             t == [op |-> op, step |-> "reply", epoch |-> epoch["channel"], who |-> c, to |-> to]
  <2>1. c \in Account \cup {NoOne} /\ to \subseteq Account
    BY <1>1, <1>2 DEF KeyShape
  <2>2. t \in Task
    BY <1>2, <2>1 DEF Task
  <2>3. TaskFits(d, t)
    BY <1>1, <1>2, <2>1 DEF TaskFits, Epochs
  <2>4. OnlyTask(d, t)
    BY <1>3, <2>2, <2>3 DEF OnlyTask, FetchRead, Take, SetTask
  <2> QED BY <2>4, TaskOnly
<1>4. CASE RotateNoticed(d)
  <2> DEFINE t == [op |-> "rotate", step |-> "read", epoch |-> 0, who |-> NoOne, to |-> {}]
  <2>1. t \in Task /\ TaskFits(d, t)
    BY <1>1 DEF Task, TaskFits, OfRotation
  <2>2. OnlyTask(d, t)
    BY <1>4, <2>1 DEF OnlyTask, RotateNoticed, Take, SetTask
  <2> QED BY <2>2, TaskOnly
<1>5. CASE GrantStart(d)
  <2> DEFINE e == Latest("channel", d)
             t == [op |-> "grant", step |-> "list", epoch |-> e, who |-> held["channel"][d][e], to |-> {}]
  <2>1. e \in Int /\ e # -1
    BY <1>1, <1>5, LatestHeld DEF GrantStart
  <2>2. e \in Epochs /\ held["channel"][d][e] # NoOne
    BY <1>1, <2>1, LatestHeld
  <2>3. held["channel"][d][e] \in Account
    BY <1>1, <2>2 DEF KeyShape
  <2>4. e <= epoch["channel"]
    BY <1>1, <1>2, <2>2 DEF KeysInd, OneKeyPerEpoch, Committed
  <2>5. t \in Task
    BY <2>2, <2>3 DEF Task
  <2>6. TaskFits(d, t)
    BY <2>3, <2>4 DEF TaskFits, OfGrant
  <2>7. OnlyTask(d, t)
    BY <1>5, <2>5, <2>6 DEF OnlyTask, GrantStart, Take, SetTask
  <2> QED BY <2>7, TaskOnly
<1>6. CASE MetaRead(d)
  <2> DEFINE to == {x \in Account \ {d} : Entitled("meta", x) /\ HoldsCap(d, x)}
             t == [op |-> "meta", step |-> "commit", epoch |-> epoch["meta"], who |-> d, to |-> to]
  <2>1. t \in Task
    BY <1>2 DEF Task
  <2>2. epoch["meta"] < MaxEpoch
    BY <1>1, <1>2, <1>6 DEF MetaRead, Epochs
  <2>3. TaskFits(d, t)
    BY <1>1, <2>2 DEF TaskFits, OfRotation
  <2>4. OnlyTask(d, t)
    BY <1>6, <2>1, <2>3 DEF OnlyTask, MetaRead, Take, SetTask
  <2> QED BY <2>4, TaskOnly
<1>7. CASE MetaGrantList(d)
  <2> DEFINE e == epoch["meta"]
             to == {x \in Account \ {d} : Entitled("meta", x) /\ HoldsCap(d, x)}
             t == [op |-> "metaGrant", step |-> "check", epoch |-> e, who |-> held["meta"][d][e], to |-> to]
  <2>1. Latest("meta", d) = e /\ e # -1
    BY <1>1, <1>2, <1>7 DEF MetaGrantList, Fresh
  <2>2. held["meta"][d][e] # NoOne
    BY <1>1, <2>1, LatestHeld
  <2>3. held["meta"][d][e] \in Account
    BY <1>1, <1>2, <2>2 DEF KeyShape
  <2>4. t \in Task
    BY <1>2, <2>3 DEF Task
  <2>5. TaskFits(d, t)
    BY <1>1, <1>2, <2>3 DEF TaskFits, OfGrant, Epochs
  <2>6. OnlyTask(d, t)
    BY <1>7, <2>4, <2>5 DEF OnlyTask, MetaGrantList, Take, SetTask
  <2> QED BY <2>6, TaskOnly
<1>8. CASE CapsStart(d)
  <2> DEFINE t == [op |-> "caps", step |-> "list", epoch |-> epoch["meta"], who |-> d, to |-> {}]
  <2>1. t \in Task
    BY <1>2 DEF Task
  <2>2. TaskFits(d, t)
    BY DEF TaskFits
  <2>3. OnlyTask(d, t)
    BY <1>8, <2>1, <2>2 DEF OnlyTask, CapsStart, Take, SetTask
  <2> QED BY <2>3, TaskOnly
<1> QED
  BY <1>3, <1>4, <1>5, <1>6, <1>7, <1>8

(* Steps that check, seal or give up. *)
LEMMA ChecksFit ==
  ASSUME Shape, KeysInd, NEW d \in Account,
         \/ SendSeal(d) \/ SendRefuse(d) \/ RotateRead(d) \/ RotateCheck(d) \/ GrantList(d)
         \/ GrantCheck(d) \/ MetaGrantCheck(d) \/ CapsList(d) \/ ClientRestart(d)
  PROVE  KeysInd'
<1>1. /\ KeyShape /\ Epochs = 0 .. MaxEpoch /\ MaxEpoch \in Nat /\ NoOne \notin Account
      /\ "channel" \in Key /\ "meta" \in Key /\ load.epochs \in 0 .. MaxEpoch /\ 0 \in Epochs
      /\ task[d] # NoCall => task[d] \in Task /\ TaskFits(d, task[d])
  BY Bounds DEF KeysInd, Epochs, Key, TasksFit
<1>2. epoch["channel"] \in Epochs /\ epoch["meta"] \in Epochs
  BY <1>1 DEF KeyShape
<1>3. ASSUME Finish(d), UNCHANGED <<load, epoch, commitment, grants, caps, held, highWater>>
      PROVE  KeysInd'
  <2>1. OnlyTask(d, NoCall)
    BY <1>3 DEF OnlyTask, Finish, SetTask
  <2> QED BY <2>1, TaskOnly
<1>4. CASE SendSeal(d) \/ SendRefuse(d)
  BY <1>3, <1>4 DEF SendSeal, SendRefuse
<1>5. CASE ClientRestart(d)
  BY <1>3, <1>5 DEF ClientRestart
<1>6. CASE RotateRead(d)
  <2> DEFINE t == [op |-> "rotate", step |-> "check", epoch |-> epoch["channel"], who |-> NoOne, to |-> {}]
  <2>1. CASE member[d] = "active" /\ epoch["channel"] < load.epochs
    <3>1. t \in Task
      BY <1>2 DEF Task
    <3>2. TaskFits(d, t)
      BY <1>1, <1>2, <2>1 DEF TaskFits, OfRotation
    <3>3. OnlyTask(d, t)
      BY <1>6, <2>1, <3>1, <3>2 DEF OnlyTask, RotateRead, Take, SetTask
    <3> QED BY <3>3, TaskOnly
  <2>2. CASE ~(member[d] = "active" /\ epoch["channel"] < load.epochs)
    BY <1>3, <1>6, <2>2 DEF RotateRead
  <2> QED BY <2>1, <2>2
<1>7. CASE RotateCheck(d)
  <2> DEFINE t == [task[d] EXCEPT !.step = "commit"]
  <2>1. CASE IsManager(d)
    <3>1. task[d] \in Task /\ task[d].op = "rotate" /\ task[d].step = "check" /\ TaskFits(d, task[d])
      BY <1>1, <1>7 DEF RotateCheck, Doing, Free
    <3>2. t \in Task /\ t.op = "rotate" /\ t.step = "commit" /\ t.epoch = task[d].epoch
      BY <3>1 DEF Task
    <3>3. TaskFits(d, t)
      BY <3>1, <3>2 DEF TaskFits, OfRotation
    <3>4. OnlyTask(d, t)
      BY <1>7, <2>1, <3>2, <3>3 DEF OnlyTask, RotateCheck, Turn, SetTask
    <3> QED BY <3>4, TaskOnly
  <2>2. CASE ~IsManager(d)
    BY <1>3, <1>7, <2>2 DEF RotateCheck
  <2> QED BY <2>1, <2>2
<1>8. CASE GrantList(d)
  <2> DEFINE to == {x \in Grantable : x = d \/ HoldsCap(d, x)}
             t == [task[d] EXCEPT !.step = "check", !.to = to]
  <2>1. CASE Fresh(d) /\ IsManager(d) /\ to # {}
    <3>1. task[d] \in Task /\ task[d].op = "grant" /\ TaskFits(d, task[d])
      BY <1>1, <1>8 DEF GrantList, Doing, Free
    <3>2. to \subseteq Account
      BY DEF Grantable
    <3>3. t \in Task /\ t.op = "grant" /\ t.epoch = task[d].epoch /\ t.who = task[d].who /\ t.to = to
      BY <3>1, <3>2 DEF Task
    <3>4. TaskFits(d, t)
      BY <3>1, <3>2, <3>3 DEF TaskFits, OfGrant
    <3>5. OnlyTask(d, t)
      BY <1>8, <2>1, <3>3, <3>4 DEF OnlyTask, GrantList, SetTask
    <3> QED BY <3>5, TaskOnly
  <2>2. CASE ~(Fresh(d) /\ IsManager(d) /\ to # {})
    BY <1>3, <1>8, <2>2 DEF GrantList
  <2> QED BY <2>1, <2>2
<1>9. CASE GrantCheck(d) \/ MetaGrantCheck(d)
  <2> DEFINE t == [task[d] EXCEPT !.step = "insert"]
  <2>1. /\ task[d] \in Task /\ task[d].op \in {"grant", "metaGrant"}
        /\ TaskFits(d, task[d])
    BY <1>1, <1>9 DEF GrantCheck, MetaGrantCheck, Doing, Free
  <2>2. t \in Task /\ t.op = task[d].op /\ t.epoch = task[d].epoch /\ t.who = task[d].who /\ t.to = task[d].to
    BY <2>1 DEF Task
  <2>3. TaskFits(d, t)
    BY <2>1, <2>2 DEF TaskFits, OfGrant
  <2>4. CASE task' = [task EXCEPT ![d] = t]
    <3>1. OnlyTask(d, t)
      BY <1>9, <2>2, <2>3, <2>4 DEF OnlyTask, GrantCheck, MetaGrantCheck
    <3> QED BY <3>1, TaskOnly
  <2>5. CASE Finish(d)
    BY <1>3, <1>9, <2>5 DEF GrantCheck, MetaGrantCheck
  <2> QED BY <1>9, <2>4, <2>5 DEF GrantCheck, MetaGrantCheck, Turn, SetTask
<1>10. CASE CapsList(d)
  <2> DEFINE t == [task[d] EXCEPT !.step = "post", !.to = Issued(d)]
  <2>1. CASE IsLeader(d)
    <3>1. task[d] \in Task /\ task[d].op = "caps" /\ TaskFits(d, task[d])
      BY <1>1, <1>10 DEF CapsList, Doing, Free
    <3>2. Issued(d) \subseteq AnyCap
      BY DEF Shape, Issued, AnyCap, Cap
    <3>3. t \in Task /\ t.op = "caps"
      BY <3>1, <3>2 DEF Task
    <3>4. TaskFits(d, t)
      BY <3>3 DEF TaskFits
    <3>5. OnlyTask(d, t)
      BY <1>10, <2>1, <3>3, <3>4 DEF OnlyTask, CapsList, SetTask
    <3> QED BY <3>5, TaskOnly
  <2>2. CASE ~IsLeader(d)
    BY <1>3, <1>10, <2>2 DEF CapsList
  <2> QED BY <2>1, <2>2
<1> QED
  BY <1>4, <1>5, <1>6, <1>7, <1>8, <1>9, <1>10


-----------------------------------------------------------------------------
(* Steps that change what the server or a device keeps. *)

LEMMA Keeps ==
  ASSUME KeyShape, NEW k \in Key, NEW d \in Account, NEW e \in Epochs, NEW m \in Account \cup {NoOne},
         Keep(k, d, e, m)
  PROVE  /\ held' \in [Key -> [Account -> [Epochs -> Account \cup {NoOne}]]]
         /\ \A j \in Key, x \in Account : j # k \/ x # d => held'[j][x] = held[j][x]
         /\ \A f \in Epochs : held'[k][d][f] = IF f = e THEN m ELSE IF k = "meta" THEN NoOne ELSE held[k][d][f]
<1>1. held \in [Key -> [Account -> [Epochs -> Account \cup {NoOne}]]]
  BY DEF KeyShape
<1> DEFINE h == IF k = "meta" THEN [f \in Epochs |-> IF f = e THEN m ELSE NoOne]
                ELSE [held[k][d] EXCEPT ![e] = m]
<1>2. held' = [held EXCEPT ![k] = [held[k] EXCEPT ![d] = h]]
  BY DEF Keep
<1>3. h \in [Epochs -> Account \cup {NoOne}]
  BY <1>1
<1>4. \A f \in Epochs : h[f] = IF f = e THEN m ELSE IF k = "meta" THEN NoOne ELSE held[k][d][f]
  BY <1>1
<1> HIDE DEF h
<1>5. /\ held'[k][d] = h
      /\ held' \in [Key -> [Account -> [Epochs -> Account \cup {NoOne}]]]
      /\ \A j \in Key, x \in Account : j # k \/ x # d => held'[j][x] = held[j][x]
  BY <1>1, <1>2, <1>3
<1> QED
  BY <1>4, <1>5

(* What a device newly keeps is what was committed to. *)
LEMMA KeptAsCommitted ==
  ASSUME KeysInd, NEW k \in Key, NEW d \in Account, NEW e \in Epochs,
         Keep(k, d, e, commitment[k][e]), UNCHANGED commitment
  PROVE  /\ held' \in [Key -> [Account -> [Epochs -> Account \cup {NoOne}]]]
         /\ OneMeta' /\ OneKeyPerEpoch'
<1> DEFINE m == commitment[k][e]
<1>1. KeyShape /\ m \in Account \cup {NoOne}
  BY DEF KeysInd, KeyShape
<1>2. /\ held' \in [Key -> [Account -> [Epochs -> Account \cup {NoOne}]]]
      /\ \A j \in Key, x \in Account : j # k \/ x # d => held'[j][x] = held[j][x]
      /\ \A f \in Epochs : held'[k][d][f] = IF f = e THEN m ELSE IF k = "meta" THEN NoOne ELSE held[k][d][f]
  BY <1>1, Keeps
<1>3. OneMeta'
  <2> SUFFICES ASSUME NEW x \in Account, NEW f \in Epochs, NEW g \in Epochs,
                      held'["meta"][x][f] # NoOne, held'["meta"][x][g] # NoOne
               PROVE  f = g
    BY DEF OneMeta
  <2>1. CASE k = "meta" /\ x = d
    BY <1>2, <2>1
  <2>2. CASE ~(k = "meta" /\ x = d)
    <3>1. held'["meta"][x] = held["meta"][x]
      BY <1>2, <2>2 DEF Key
    <3> QED BY <3>1 DEF KeysInd, OneMeta
  <2> QED BY <2>1, <2>2
<1>4. OneKeyPerEpoch'
  <2> SUFFICES ASSUME NEW j \in Key, NEW x \in Account, NEW f \in Epochs, held'[j][x][f] # NoOne
               PROVE  held'[j][x][f] = commitment[j][f]
    BY DEF OneKeyPerEpoch
  <2>1. CASE j # k \/ x # d
    <3>1. held'[j][x] = held[j][x]
      BY <1>2, <2>1
    <3> QED BY <3>1 DEF KeysInd, OneKeyPerEpoch
  <2>2. CASE j = k /\ x = d
    BY <1>2, <2>2 DEF KeysInd, OneKeyPerEpoch
  <2> QED BY <2>1, <2>2
<1> QED
  BY <1>2, <1>3, <1>4

LEMMA SeesMore ==
  ASSUME KeyShape, NEW d \in Account, NEW e \in Epochs, Sees(d, e), MaxEpoch \in Nat
  PROVE  /\ highWater' \in [Account -> Epochs] /\ highWater'[d] >= e
         /\ \A x \in Account : highWater[x] <= highWater'[x]
<1>1. highWater \in [Account -> Epochs] /\ \A x \in Account : highWater[x] \in Int
  BY DEF KeyShape, Epochs
<1> QED
  BY <1>1 DEF Sees, Epochs

Accounts(to) == to \subseteq Account

(* The rotation's transaction. *)
LEMMA Advances ==
  ASSUME KeyShape, Committed, GrantsInTime, MaxEpoch \in Nat, NoOne \notin Account,
         NEW k \in Key, NEW e \in Epochs, e = epoch[k] + 1, NEW d \in Account,
         NEW to, Accounts(to), Advance(k, e, d, to)
  PROVE  /\ epoch' \in [Key -> Epochs] /\ epoch'[k] = e
         /\ commitment' \in [Key -> [Epochs -> Account \cup {NoOne}]] /\ commitment'[k][e] = d
         /\ \A j \in Key : epoch[j] <= epoch'[j]
         /\ \A j \in Key : \A f \in Epochs : f <= epoch[j] => commitment'[j][f] = commitment[j][f]
         /\ grants' \in [Key -> SUBSET [epoch : Epochs, to : Account, minter : Account]]
         /\ Sealed(k, e, d, to) \subseteq grants'[k]
         /\ Committed' /\ GrantsInTime'
<1>1. /\ epoch \in [Key -> Epochs] /\ \A j \in Key : epoch[j] \in Int
      /\ commitment \in [Key -> [Epochs -> Account \cup {NoOne}]]
      /\ grants \in [Key -> SUBSET [epoch : Epochs, to : Account, minter : Account]]
      /\ \A f \in Epochs : f \in Int
  BY DEF KeyShape, Epochs
<1>2. epoch' \in [Key -> Epochs] /\ epoch'[k] = e /\ \A j \in Key : j # k => epoch'[j] = epoch[j]
  BY <1>1 DEF Advance
<1>3. \A j \in Key : epoch[j] <= epoch'[j]
  BY <1>1, <1>2
<1>4. commitment' = [commitment EXCEPT ![k] = [commitment[k] EXCEPT ![e] = d]]
  BY DEF Advance
<1>5. /\ commitment' \in [Key -> [Epochs -> Account \cup {NoOne}]] /\ commitment'[k][e] = d
      /\ \A j \in Key : \A f \in Epochs : j # k \/ f # e => commitment'[j][f] = commitment[j][f]
  BY <1>1, <1>4
<1>6. \A j \in Key : \A f \in Epochs : f <= epoch[j] => commitment'[j][f] = commitment[j][f]
  BY <1>1, <1>5
<1> DEFINE G == Sealed(k, e, d, to) \cup IF k = "meta" THEN {} ELSE grants[k]
<1>7. grants' = [grants EXCEPT ![k] = G]
  BY DEF Advance
<1>8. Sealed(k, e, d, to) \subseteq [epoch : Epochs, to : Account, minter : Account]
  BY DEF Sealed, Accounts
<1>9. G \in SUBSET [epoch : Epochs, to : Account, minter : Account]
  BY <1>1, <1>8
<1>10. \A g \in Sealed(k, e, d, to) : g.epoch = e
  BY DEF Sealed
<1>11. \A g \in G : g.epoch = e \/ g \in grants[k]
  BY <1>10
<1>12. Sealed(k, e, d, to) \subseteq G
  OBVIOUS
<1> HIDE DEF G
<1>13. /\ grants' \in [Key -> SUBSET [epoch : Epochs, to : Account, minter : Account]]
       /\ grants'[k] = G /\ \A j \in Key : j # k => grants'[j] = grants[j]
  BY <1>1, <1>7, <1>9
<1>14. GrantsInTime'
  <2> SUFFICES ASSUME NEW j \in Key, NEW g \in grants'[j] PROVE g.epoch <= epoch'[j]
    BY DEF GrantsInTime
  <2>1. CASE g \in grants[j]
    <3>1. g.epoch \in Int /\ g.epoch <= epoch[j]
      BY <1>1, <2>1 DEF GrantsInTime
    <3> QED BY <1>1, <1>2, <1>3, <3>1
  <2>2. CASE g \notin grants[j]
    BY <1>1, <1>2, <1>11, <1>13, <2>2
  <2> QED BY <2>1, <2>2
<1>15. Committed'
  <2> SUFFICES ASSUME NEW j \in Key, NEW f \in Epochs
               PROVE  commitment'[j][f] # NoOne <=> f <= epoch'[j]
    BY DEF Committed
  <2>1. CASE j = k /\ f = e
    BY <1>1, <1>2, <1>5, <2>1
  <2>2. CASE j = k /\ f # e
    BY <1>1, <1>2, <1>5, <2>2 DEF Committed
  <2>3. CASE j # k
    BY <1>2, <1>5, <2>3 DEF Committed
  <2> QED BY <2>1, <2>2, <2>3
<1> QED
  BY <1>2, <1>3, <1>5, <1>6, <1>12, <1>13, <1>14, <1>15

(* What was kept stays what was committed to when more is committed to. *)
LEMMA StillAsCommitted ==
  ASSUME KeysInd, UNCHANGED held,
         \A j \in Key : \A f \in Epochs : f <= epoch[j] => commitment'[j][f] = commitment[j][f]
  PROVE  OneMeta' /\ OneKeyPerEpoch'
<1>1. OneMeta'
  BY DEF KeysInd, OneMeta
<1>2. OneKeyPerEpoch'
  BY DEF KeysInd, OneKeyPerEpoch, Committed
<1> QED
  BY <1>1, <1>2

LEMMA Inserts ==
  ASSUME KeysInd, NEW k \in Key, NEW d \in Account, task[d] # NoCall, OfGrant(k, task[d]), Insert(k, d)
  PROVE  /\ commitment' = commitment
         /\ grants' \in [Key -> SUBSET [epoch : Epochs, to : Account, minter : Account]]
         /\ \A j \in Key : grants[j] \subseteq grants'[j]
         /\ \A j \in Key : \A g \in grants'[j] \ grants[j] : g.epoch <= epoch[j]
         /\ \A j \in Key : \A g \in grants'[j] \ grants[j] :
              j = k /\ g.epoch = task[d].epoch /\ g.to \in task[d].to
<1> DEFINE e == task[d].epoch
<1>1. /\ e \in Epochs /\ e <= epoch[k] /\ task[d].who \in Account /\ task[d].to \subseteq Account
      /\ commitment \in [Key -> [Epochs -> Account \cup {NoOne}]]
      /\ grants \in [Key -> SUBSET [epoch : Epochs, to : Account, minter : Account]]
  BY DEF KeysInd, KeyShape, OfGrant, TasksFit, Task
<1>2. commitment[k][e] # NoOne
  BY <1>1 DEF KeysInd, Committed
<1>3. commitment' = commitment
  BY <1>1, <1>2 DEF Insert
<1> DEFINE S == Sealed(k, e, task[d].who, task[d].to \ GrantedTo(k, e))
<1>4. grants' = [grants EXCEPT ![k] = @ \cup S]
  BY DEF Insert
<1>5. S \subseteq [epoch : Epochs, to : Account, minter : Account]
      /\ \A g \in S : g.epoch = e /\ g.to \in task[d].to
  BY <1>1 DEF Sealed
<1> HIDE DEF S
<1>6. /\ grants' \in [Key -> SUBSET [epoch : Epochs, to : Account, minter : Account]]
      /\ \A j \in Key : grants[j] \subseteq grants'[j]
      /\ \A j \in Key : \A g \in grants'[j] \ grants[j] : j = k /\ g \in S
  BY <1>1, <1>4, <1>5
<1>7. \A j \in Key : \A g \in grants'[j] \ grants[j] : j = k /\ g.epoch = e /\ g.to \in task[d].to
  BY <1>5, <1>6
<1> QED
  BY <1>1, <1>3, <1>6, <1>7


LEMMA FetchApplyFits ==
  ASSUME KeysInd, NEW d \in Account, FetchApply(d)
  PROVE  KeysInd'
<1> DEFINE e == task[d].epoch
           m == task[d].who
<1>1. /\ KeyShape /\ MaxEpoch \in Nat /\ NoOne \notin Account /\ "channel" \in Key
      /\ task[d] \in Task /\ TaskFits(d, task[d])
      /\ task[d].op \in {"fetch", "send"} /\ task[d].step = "reply"
  BY Bounds DEF KeysInd, Key, TasksFit, FetchApply, Doing, Free
<1>2. e \in Epochs /\ e <= epoch["channel"] /\ m = commitment["channel"][e]
      /\ m \in Account \cup {NoOne}
  BY <1>1 DEF TaskFits, Task
<1>3. UNCHANGED <<load, epoch, commitment, grants, caps>>
  BY DEF FetchApply
<1>4. /\ held' \in [Key -> [Account -> [Epochs -> Account \cup {NoOne}]]]
      /\ OneMeta' /\ OneKeyPerEpoch'
  <2>1. CASE UNCHANGED held
    BY <1>1, <1>3, <2>1, StillAsCommitted DEF KeyShape
  <2>2. CASE Keep("channel", d, e, m)
    BY <1>1, <1>2, <1>3, <2>2, KeptAsCommitted
  <2> QED BY <2>1, <2>2 DEF FetchApply
<1>5. /\ highWater' \in [Account -> Epochs] /\ (SignerKnown(m) => highWater'[d] >= e)
      /\ \A x \in Account : highWater[x] <= highWater'[x]
  <2>1. CASE SignerKnown(m)
    <3>1. Sees(d, e)
      BY <2>1 DEF FetchApply
    <3> QED BY <1>1, <1>2, <3>1, SeesMore
  <2>2. CASE ~SignerKnown(m)
    <3>1. UNCHANGED highWater
      BY <2>2 DEF FetchApply
    <3> QED BY <1>1, <2>2, <3>1 DEF KeyShape, Epochs
  <2> QED BY <2>1, <2>2
<1>6. PICK t : task' = [task EXCEPT ![d] = t] /\
               \/ t = NoCall
               \/ t = [op |-> "send", step |-> "seal", epoch |-> e,
                       who |-> IF SignerKnown(m) THEN m ELSE NoOne, to |-> {}]
  BY DEF FetchApply, Take, SetTask, Finish
<1>7. KeyShape'
  BY <1>1, <1>3, <1>4, <1>5, <1>6 DEF KeyShape
<1>8. Grows
  BY <1>1, <1>3, <1>5 DEF Grows, KeyShape, Epochs
<1>9. t # NoCall => t \in Task /\ TaskFits(d, t)'
  <2>1. ASSUME t # NoCall PROVE t \in Task
    BY <1>2, <1>6, <2>1 DEF Task
  <2>2. ASSUME t # NoCall PROVE TaskFits(d, t)'
    <3>1. t.op = "send" /\ t.step = "seal" /\ t.epoch = e /\ (t.who # NoOne => SignerKnown(m))
      BY <1>6, <2>2
    <3>2. t.who # NoOne => e <= highWater'[d]
      BY <1>2, <1>5, <3>1 DEF Epochs
    <3> QED BY <3>1, <3>2 DEF TaskFits
  <2> QED BY <2>1, <2>2
<1>10. TasksFit'
  BY <1>1, <1>6, <1>7, <1>8, <1>9, Turned DEF KeysInd
<1> QED
  BY <1>3, <1>4, <1>7, <1>10 DEF KeysInd, Committed, GrantsInTime, Backed, GrantedTo

LEMMA RotateAdoptFits ==
  ASSUME KeysInd, NEW d \in Account, RotateAdopt(d)
  PROVE  KeysInd'
<1> DEFINE e == task[d].epoch + 1
<1>1. /\ KeyShape /\ MaxEpoch \in Nat /\ NoOne \notin Account /\ "channel" \in Key
      /\ task[d] \in Task /\ TaskFits(d, task[d]) /\ task[d].op = "rotate" /\ task[d].step = "adopt"
  BY Bounds DEF KeysInd, Key, TasksFit, RotateAdopt, Doing, Free
<1>2. e <= epoch["channel"] /\ commitment["channel"][e] = d
  BY <1>1 DEF TaskFits, OfRotation
<1>3. e \in Epochs
  BY <1>1, <1>2 DEF Task, KeyShape, Epochs
<1>4. UNCHANGED <<load, epoch, commitment, grants, caps>>
  BY DEF RotateAdopt
<1>5. /\ held' \in [Key -> [Account -> [Epochs -> Account \cup {NoOne}]]]
      /\ OneMeta' /\ OneKeyPerEpoch'
  <2>1. Keep("channel", d, e, commitment["channel"][e])
    BY <1>2 DEF RotateAdopt
  <2> QED BY <1>1, <1>3, <1>4, <2>1, KeptAsCommitted
<1>6. /\ highWater' \in [Account -> Epochs]
      /\ \A x \in Account : highWater[x] <= highWater'[x]
  <2>1. Sees(d, e)
    BY DEF RotateAdopt
  <2> QED BY <1>1, <1>3, <2>1, SeesMore
<1>7. PICK t : /\ task' = [task EXCEPT ![d] = t]
               /\ t = [op |-> "grant", step |-> "list", epoch |-> e, who |-> d, to |-> {}]
  BY DEF RotateAdopt, Take, SetTask
<1>8. KeyShape'
  BY <1>1, <1>4, <1>5, <1>6, <1>7 DEF KeyShape
<1>9. Grows
  BY <1>1, <1>4, <1>6 DEF Grows, KeyShape, Epochs
<1>10. t \in Task /\ TaskFits(d, t)'
  <2>1. t \in Task
    BY <1>3, <1>7 DEF Task
  <2>2. t.op = "grant" /\ t.epoch = e /\ t.who = d /\ t.to = {}
    BY <1>7
  <2> QED BY <1>2, <1>4, <2>1, <2>2 DEF TaskFits, OfGrant
<1>11. TasksFit'
  BY <1>1, <1>7, <1>8, <1>9, <1>10, Turned DEF KeysInd
<1> QED
  BY <1>4, <1>5, <1>8, <1>11 DEF KeysInd, Committed, GrantsInTime, Backed, GrantedTo

LEMMA MetaAdoptFits ==
  ASSUME KeysInd, NEW d \in Account, MetaAdopt(d)
  PROVE  KeysInd'
<1> DEFINE e == task[d].epoch + 1
<1>1. /\ KeyShape /\ MaxEpoch \in Nat /\ NoOne \notin Account /\ "meta" \in Key
      /\ task[d] \in Task /\ TaskFits(d, task[d]) /\ task[d].op = "meta" /\ task[d].step = "adopt"
  BY Bounds DEF KeysInd, Key, TasksFit, MetaAdopt, Doing, Free
<1>2. e <= epoch["meta"] /\ commitment["meta"][e] = d
  BY <1>1 DEF TaskFits, OfRotation
<1>3. e \in Epochs
  BY <1>1, <1>2 DEF Task, KeyShape, Epochs
<1>4. UNCHANGED <<load, epoch, commitment, grants, caps, highWater>>
  BY DEF MetaAdopt
<1>5. /\ held' \in [Key -> [Account -> [Epochs -> Account \cup {NoOne}]]]
      /\ OneMeta' /\ OneKeyPerEpoch'
  <2>1. Keep("meta", d, e, commitment["meta"][e])
    BY <1>2 DEF MetaAdopt
  <2> QED BY <1>1, <1>3, <1>4, <2>1, KeptAsCommitted
<1>7. PICK t : /\ task' = [task EXCEPT ![d] = t]
               /\ t = [op |-> "caps", step |-> "list", epoch |-> e, who |-> d, to |-> {}]
  BY DEF MetaAdopt, Take, SetTask
<1>8. KeyShape'
  BY <1>1, <1>4, <1>5, <1>7 DEF KeyShape
<1>9. Grows
  BY <1>1, <1>4 DEF Grows, KeyShape, Epochs
<1>10. t \in Task /\ TaskFits(d, t)'
  <2>1. t \in Task
    BY <1>3, <1>7 DEF Task
  <2>2. t.op = "caps"
    BY <1>7
  <2> QED BY <2>1, <2>2 DEF TaskFits
<1>11. TasksFit'
  BY <1>1, <1>7, <1>8, <1>9, <1>10, Turned DEF KeysInd
<1> QED
  BY <1>4, <1>5, <1>8, <1>11 DEF KeysInd, Committed, GrantsInTime, Backed, GrantedTo

(* The tasks stay, and what they know of only grows. *)
LEMMA NoneTurned ==
  ASSUME KeyShape, KeyShape', TasksFit, Grows, MaxEpoch \in Nat, UNCHANGED task
  PROVE  TasksFit'
<1>1. ASSUME NEW x \in Account, NEW u, u = task[x], u # NoCall
      PROVE  u \in Task /\ TaskFits(x, u)'
  <2>1. u \in Task /\ TaskFits(x, u)
    BY <1>1 DEF TasksFit
  <2> QED BY <2>1, FitsStill
<1>2. ASSUME NEW x \in Account, NEW u, u = task[x], TaskFits(x, u)'
      PROVE  TaskFits(x, task[x])'
  BY <1>2 DEF TaskFits, OfRotation, OfGrant
<1>3. ASSUME NEW x \in Account, task'[x] # NoCall
      PROVE  task'[x] \in Task /\ TaskFits(x, task[x])'
  BY <1>1, <1>2, <1>3
<1> QED
  BY <1>3 DEF TasksFit

LEMMA MetaFetchFits ==
  ASSUME KeysInd, NEW d \in Account, MetaFetch(d)
  PROVE  KeysInd'
<1>1. KeyShape /\ MaxEpoch \in Nat /\ "meta" \in Key /\ epoch["meta"] \in Epochs
  BY Bounds DEF KeysInd, Key, KeyShape
<1>2. UNCHANGED <<load, epoch, commitment, grants, caps, highWater, task>>
  BY DEF MetaFetch
<1>3. /\ held' \in [Key -> [Account -> [Epochs -> Account \cup {NoOne}]]]
      /\ OneMeta' /\ OneKeyPerEpoch'
  <2>1. Keep("meta", d, epoch["meta"], commitment["meta"][epoch["meta"]])
    BY DEF MetaFetch
  <2> QED BY <1>1, <1>2, <2>1, KeptAsCommitted
<1>4. KeyShape'
  BY <1>1, <1>2, <1>3 DEF KeyShape
<1>5. Grows
  BY <1>1, <1>2 DEF Grows, KeyShape, Epochs
<1>6. TasksFit'
  BY <1>1, <1>2, <1>4, <1>5, NoneTurned DEF KeysInd
<1> QED
  BY <1>2, <1>3, <1>4, <1>6 DEF KeysInd, Committed, GrantsInTime, Backed, GrantedTo

LEMMA InsertFits ==
  ASSUME KeysInd, NEW d \in Account, GrantInsert(d) \/ MetaGrantInsert(d)
  PROVE  KeysInd'
<1>1. /\ KeyShape /\ MaxEpoch \in Nat /\ "channel" \in Key /\ "meta" \in Key
      /\ task[d] # NoCall /\ TaskFits(d, task[d])
  BY Bounds DEF KeysInd, Key, TasksFit, GrantInsert, MetaGrantInsert, Doing, Free
<1>2. PICK k \in Key : OfGrant(k, task[d]) /\ Insert(k, d)
  BY <1>1 DEF GrantInsert, MetaGrantInsert, TaskFits, Doing
<1>3. /\ commitment' = commitment
      /\ grants' \in [Key -> SUBSET [epoch : Epochs, to : Account, minter : Account]]
      /\ \A j \in Key : grants[j] \subseteq grants'[j]
      /\ \A j \in Key : \A g \in grants'[j] \ grants[j] : g.epoch <= epoch[j]
  BY <1>1, <1>2, Inserts
<1>4. UNCHANGED <<load, epoch, caps, held, highWater>> /\ Finish(d)
  BY DEF GrantInsert, MetaGrantInsert
<1>5. KeyShape'
  BY <1>1, <1>3, <1>4 DEF KeyShape, Finish, SetTask
<1>6. Grows
  BY <1>1, <1>3, <1>4 DEF Grows, KeyShape, Epochs
<1>7. TasksFit'
  <2>1. PICK t : t = NoCall
    OBVIOUS
  <2>2. task' = [task EXCEPT ![d] = t]
    BY <1>4, <2>1 DEF Finish, SetTask
  <2> QED BY <1>1, <1>5, <1>6, <2>1, <2>2, Turned DEF KeysInd
<1>8. GrantsInTime'
  <2> SUFFICES ASSUME NEW j \in Key, NEW g \in grants'[j] PROVE g.epoch <= epoch[j]
    BY <1>4 DEF GrantsInTime
  <2> QED BY <1>3 DEF KeysInd, GrantsInTime
<1>9. Backed'
  <2>1. PICK g \in grants["channel"] : /\ g.epoch = epoch["channel"]
                                       /\ g.to = commitment["channel"][epoch["channel"]]
    BY DEF KeysInd, Backed, GrantedTo
  <2>2. g \in grants'["channel"]
    BY <1>1, <1>3
  <2> QED BY <1>3, <1>4, <2>1, <2>2 DEF Backed, GrantedTo
<1> QED
  BY <1>3, <1>4, <1>5, <1>7, <1>8, <1>9 DEF KeysInd, Committed, OneMeta, OneKeyPerEpoch


LEMMA RotateCommitFits ==
  ASSUME KeysInd, NEW d \in Account, RotateCommit(d)
  PROVE  KeysInd'
<1> DEFINE e == task[d].epoch + 1
<1>1. /\ KeyShape /\ MaxEpoch \in Nat /\ NoOne \notin Account /\ "channel" \in Key
      /\ task[d] \in Task /\ TaskFits(d, task[d]) /\ task[d].op = "rotate" /\ task[d].step = "commit"
  BY Bounds DEF KeysInd, Key, TasksFit, RotateCommit, Doing, Free
<1>2. UNCHANGED <<load, caps, held, highWater>>
  BY DEF RotateCommit, CommunityButFlags
<1>3. CASE StillAt("channel", task[d].epoch) /\ AllEntitled("channel", {d})
  <2>1. e \in Epochs /\ e = epoch["channel"] + 1
    BY <1>1, <1>3 DEF TaskFits, OfRotation, Task, Epochs, StillAt
  <2>2. Advance("channel", e, d, {d}) /\ Accounts({d})
    BY <1>3 DEF RotateCommit, Accounts
  <2>3. /\ epoch' \in [Key -> Epochs] /\ epoch'["channel"] = e
        /\ commitment' \in [Key -> [Epochs -> Account \cup {NoOne}]] /\ commitment'["channel"][e] = d
        /\ \A j \in Key : epoch[j] <= epoch'[j]
        /\ \A j \in Key : \A f \in Epochs : f <= epoch[j] => commitment'[j][f] = commitment[j][f]
        /\ grants' \in [Key -> SUBSET [epoch : Epochs, to : Account, minter : Account]]
        /\ Sealed("channel", e, d, {d}) \subseteq grants'["channel"]
        /\ Committed' /\ GrantsInTime'
    BY <1>1, <2>1, <2>2, Advances DEF KeysInd
  <2>4. PICK t : task' = [task EXCEPT ![d] = t] /\ (t = NoCall \/ t = [task[d] EXCEPT !.step = "adopt"])
    BY <1>3 DEF RotateCommit, Turn, SetTask, Finish
  <2>5. KeyShape'
    BY <1>1, <1>2, <2>3, <2>4 DEF KeyShape
  <2>6. Grows
    <3>1. \A x \in Account : highWater[x] <= highWater'[x]
      BY <1>1, <1>2 DEF KeyShape, Epochs
    <3> QED BY <2>3, <3>1 DEF Grows
  <2>7. t # NoCall => t \in Task /\ TaskFits(d, t)'
    <3>1. ASSUME t # NoCall
          PROVE  /\ t \in Task /\ t.op = "rotate" /\ t.step = "adopt" /\ t.epoch + 1 = e
      BY <1>1, <2>4, <3>1 DEF Task
    <3>2. ASSUME t # NoCall PROVE TaskFits(d, t)'
      BY <1>1, <2>1, <2>3, <3>1, <3>2 DEF TaskFits, OfRotation, Epochs
    <3> QED BY <3>1, <3>2
  <2>8. TasksFit'
    BY <1>1, <2>4, <2>5, <2>6, <2>7, Turned DEF KeysInd
  <2>9. Backed'
    <3>1. [epoch |-> e, to |-> d, minter |-> d] \in Sealed("channel", e, d, {d})
      BY DEF Sealed
    <3>2. \E g \in grants'["channel"] : g.epoch = e /\ g.to = d
      BY <2>3, <3>1
    <3> QED BY <2>3, <3>2 DEF Backed, GrantedTo
  <2>10. OneMeta' /\ OneKeyPerEpoch'
    BY <1>2, <2>3, StillAsCommitted
  <2> QED BY <1>2, <2>3, <2>5, <2>8, <2>9, <2>10 DEF KeysInd
<1>4. CASE ~(StillAt("channel", task[d].epoch) /\ AllEntitled("channel", {d}))
  <2>1. PICK t : t = NoCall
    OBVIOUS
  <2>2. OnlyTask(d, t)
    BY <1>2, <1>4, <2>1 DEF OnlyTask, RotateCommit, Finish, SetTask
  <2> QED BY <2>2, TaskOnly
<1> QED
  BY <1>3, <1>4

LEMMA MetaCommitFits ==
  ASSUME KeysInd, NEW d \in Account, MetaCommit(d)
  PROVE  KeysInd'
<1> DEFINE e == task[d].epoch + 1
           to == task[d].to
<1>1. /\ KeyShape /\ MaxEpoch \in Nat /\ NoOne \notin Account /\ "meta" \in Key
      /\ task[d] \in Task /\ TaskFits(d, task[d]) /\ task[d].op = "meta" /\ task[d].step = "commit"
  BY Bounds DEF KeysInd, Key, TasksFit, MetaCommit, Doing, Free
<1>2. UNCHANGED <<load, held, highWater>> /\ to \in SUBSET Account
  BY <1>1 DEF MetaCommit, CommunityButFlags, TaskFits, OfRotation
<1>3. CASE IsLeader(d) /\ StillAt("meta", task[d].epoch) /\ AllEntitled("meta", to)
  <2>1. e \in Epochs /\ e = epoch["meta"] + 1
    BY <1>1, <1>3 DEF TaskFits, OfRotation, Task, Epochs, StillAt
  <2>2. Advance("meta", e, d, to) /\ caps' = {}
    BY <1>3 DEF MetaCommit
  <2>3. /\ epoch' \in [Key -> Epochs] /\ epoch'["meta"] = e
        /\ commitment' \in [Key -> [Epochs -> Account \cup {NoOne}]] /\ commitment'["meta"][e] = d
        /\ \A j \in Key : epoch[j] <= epoch'[j]
        /\ \A j \in Key : \A f \in Epochs : f <= epoch[j] => commitment'[j][f] = commitment[j][f]
        /\ grants' \in [Key -> SUBSET [epoch : Epochs, to : Account, minter : Account]]
        /\ Committed' /\ GrantsInTime'
    <3>1. PICK z \in Epochs, y \in SUBSET Account : z = e /\ y = to
      BY <1>2, <2>1
    <3>2. z = epoch["meta"] + 1 /\ Advance("meta", z, d, y) /\ Committed /\ GrantsInTime
      BY <2>1, <2>2, <3>1 DEF KeysInd
    <3>3. /\ epoch' \in [Key -> Epochs] /\ epoch'["meta"] = z
          /\ commitment' \in [Key -> [Epochs -> Account \cup {NoOne}]] /\ commitment'["meta"][z] = d
          /\ \A j \in Key : epoch[j] <= epoch'[j]
          /\ \A j \in Key : \A f \in Epochs : f <= epoch[j] => commitment'[j][f] = commitment[j][f]
          /\ grants' \in [Key -> SUBSET [epoch : Epochs, to : Account, minter : Account]]
          /\ Sealed("meta", z, d, y) \subseteq grants'["meta"]
          /\ Committed' /\ GrantsInTime'
      <4>1. KeyShape /\ Committed /\ GrantsInTime /\ MaxEpoch \in Nat /\ NoOne \notin Account /\ "meta" \in Key
        BY <1>1, <3>2
      <4>2. z = epoch["meta"] + 1 /\ Advance("meta", z, d, y) /\ Accounts(y)
        BY <3>1, <3>2 DEF Accounts
      <4> QED BY <4>1, <4>2, Advances
    <3> QED BY <3>1, <3>3
  <2>4. PICK t : task' = [task EXCEPT ![d] = t] /\ (t = NoCall \/ t = [task[d] EXCEPT !.step = "adopt"])
    BY <1>3 DEF MetaCommit, Turn, SetTask, Finish
  <2>5. KeyShape'
    BY <1>1, <1>2, <2>2, <2>3, <2>4 DEF KeyShape
  <2>6. Grows
    <3>1. \A x \in Account : highWater[x] <= highWater'[x]
      BY <1>1, <1>2 DEF KeyShape, Epochs
    <3> QED BY <2>3, <3>1 DEF Grows
  <2>7. t # NoCall => t \in Task /\ TaskFits(d, t)'
    <3>1. ASSUME t # NoCall
          PROVE  /\ t \in Task /\ t.op = "meta" /\ t.step = "adopt" /\ t.epoch + 1 = e
      BY <1>1, <2>4, <3>1 DEF Task
    <3>2. ASSUME t # NoCall PROVE TaskFits(d, t)'
      BY <1>1, <2>1, <2>3, <3>1, <3>2 DEF TaskFits, OfRotation, Epochs
    <3> QED BY <3>1, <3>2
  <2>8. TasksFit'
    BY <1>1, <2>4, <2>5, <2>6, <2>7, Turned DEF KeysInd
  <2>9. Backed'
    <3>1. /\ epoch["channel"] \in Epochs /\ epoch'["channel"] = epoch["channel"]
          /\ grants'["channel"] = grants["channel"] /\ "channel" \in Key
      BY <1>1, <2>2 DEF KeyShape, Advance, Key
    <3>2. epoch["channel"] <= epoch["channel"]
      BY <1>1, <3>1 DEF Epochs
    <3>3. commitment'["channel"][epoch["channel"]] = commitment["channel"][epoch["channel"]]
      BY <2>3, <3>1, <3>2
    <3> QED BY <3>1, <3>3 DEF KeysInd, Backed, GrantedTo
  <2>10. OneMeta' /\ OneKeyPerEpoch'
    BY <1>2, <2>3, StillAsCommitted
  <2> QED BY <1>2, <2>3, <2>5, <2>8, <2>9, <2>10 DEF KeysInd
<1>4. CASE ~(IsLeader(d) /\ StillAt("meta", task[d].epoch) /\ AllEntitled("meta", to))
  <2>1. PICK t : t = NoCall
    OBVIOUS
  <2>2. OnlyTask(d, t)
    BY <1>2, <1>4, <2>1 DEF OnlyTask, MetaCommit, Finish, SetTask
  <2> QED BY <2>2, TaskOnly
<1> QED
  BY <1>3, <1>4

LEMMA CapsPostFits ==
  ASSUME KeysInd, NEW d \in Account, CapsPost(d)
  PROVE  KeysInd'
<1>1. KeyShape /\ MaxEpoch \in Nat
  BY Bounds DEF KeysInd
<1>2. UNCHANGED <<load, epoch, commitment, grants, held, highWater>> /\ Finish(d)
  BY DEF CapsPost
<1>3. KeyShape' /\ Grows
  BY <1>1, <1>2 DEF KeyShape, Grows, Finish, SetTask, Epochs
<1>4. PICK t : t = NoCall /\ task' = [task EXCEPT ![d] = t]
  BY <1>2 DEF Finish, SetTask
<1>5. TasksFit'
  BY <1>1, <1>3, <1>4, Turned DEF KeysInd
<1> QED
  BY <1>2, <1>3, <1>5 DEF KeysInd, Committed, GrantsInTime, OneMeta, OneKeyPerEpoch, Backed, GrantedTo

(* The members, and the server's own flags, leave the keys alone. *)
LEMMA MembersMove ==
  ASSUME KeysInd, load' = load, UNCHANGED <<epoch, commitment, grants, held, highWater, task>>
  PROVE  KeysInd'
<1>1. KeyShape /\ MaxEpoch \in Nat
  BY Bounds DEF KeysInd
<1>2. KeyShape' /\ Grows
  BY <1>1 DEF KeyShape, Grows, Epochs
<1>3. TasksFit'
  BY <1>1, <1>2, NoneTurned DEF KeysInd
<1> QED
  BY <1>2, <1>3 DEF KeysInd, Committed, GrantsInTime, OneMeta, OneKeyPerEpoch, Backed, GrantedTo

LEMMA LoadStays == Next => load' = load
<1>1. ASSUME NEW s \in Slot, Arrive(s) PROVE load' = load
  BY <1>1 DEF Arrive, JoinStart, CodeStart, LeaveStart, RoleStart, UpdateStart, DeleteStart, RollStart,
     AnswerStart, SweepStart, ResolveStart, TargetStart, ModeratorStart, MuteStart, KickStart,
     RemoveStart, Begin, BeginWith
<1>2. ASSUME NEW s \in Slot, Proceed(s) PROVE load' = load
  BY <1>2 DEF Proceed, JoinWrite, CodeWrite, ResolveWrite, TargetWrite, ModeratorWrite, MuteWrite,
     KickWrite, RoleWrite, ExitWrite, FlagMeta, FlagChannel, FlagStep, UpdateWrite, DeleteWrite,
     RollWrite, AnswerWrite, SweepWrite, SweepFlag, SweepConsume
<1>3. ASSUME Alone PROVE load' = load
  BY <1>3 DEF Alone, CreateInvite, EndInvite, AcceptInvite, PruneInvites, RollCloses, PruneRollcalls,
     Restart
<1> QED
  BY <1>1, <1>2, <1>3 DEF Next

LEMMA KeysInit == InitKeys => KeysInd
<1> SUFFICES ASSUME InitKeys PROVE KeysInd
  OBVIOUS
<1>1. /\ load \in Loads /\ Owner \in Account /\ MaxEpoch \in Nat /\ NoOne \notin Account
      /\ Epochs = 0 .. MaxEpoch /\ 0 \in Epochs /\ "channel" \in Key
  BY KeysAssumption, CommunityAssumption DEF KeysAssumption, CommunityAssumption, InitKeys, Init, Epochs, Key
<1>2. /\ epoch \in [Key -> Epochs] /\ \A k \in Key : epoch[k] = 0
      /\ commitment \in [Key -> [Epochs -> Account \cup {NoOne}]]
      /\ \A k \in Key, e \in Epochs : commitment[k][e] = IF e = 0 THEN Owner ELSE NoOne
      /\ highWater \in [Account -> Epochs]
  BY <1>1 DEF InitKeys
<1>3. /\ held \in [Key -> [Account -> [Epochs -> Account \cup {NoOne}]]]
      /\ \A k \in Key, d \in Account, e \in Epochs :
           held[k][d][e] = IF e = 0 /\ Entitled(k, d) THEN Owner ELSE NoOne
  BY <1>1 DEF InitKeys
<1> DEFINE G(k) == {[epoch |-> 0, to |-> x, minter |-> Owner] : x \in {y \in Account : Entitled(k, y)}}
<1>4. \A k \in Key : G(k) \subseteq [epoch : Epochs, to : Account, minter : Account]
                      /\ \A g \in G(k) : g.epoch = 0
  BY <1>1
<1>5. grants = [k \in Key |-> G(k)]
  BY DEF InitKeys
<1>6. /\ grants \in [Key -> SUBSET [epoch : Epochs, to : Account, minter : Account]]
      /\ \A k \in Key : \A g \in grants[k] : g.epoch = 0
  BY <1>4, <1>5
<1>7. KeyShape /\ TasksFit
  BY <1>2, <1>3, <1>6 DEF KeyShape, TasksFit, InitKeys
<1>8. Committed /\ GrantsInTime
  BY <1>1, <1>2, <1>6 DEF Committed, GrantsInTime
<1>9. OneMeta /\ OneKeyPerEpoch
  BY <1>1, <1>2, <1>3 DEF OneMeta, OneKeyPerEpoch, Key
<1>10. Backed
  <2>1. Entitled("channel", Owner)
    BY <1>1 DEF InitKeys, Init, Entitled, OfChannel, InChannel, Eligible
  <2>2. [epoch |-> 0, to |-> Owner, minter |-> Owner] \in grants["channel"]
    BY <1>1, <1>5, <2>1
  <2>3. \E g \in grants["channel"] : g.epoch = 0 /\ g.to = Owner
    BY <2>2
  <2> QED BY <1>1, <1>2, <2>3 DEF Backed, GrantedTo
<1> QED
  BY <1>1, <1>7, <1>8, <1>9, <1>10 DEF KeysInd

LEMMA KeysStep == Shape /\ KeysInd /\ [NextKeys]_allVars => KeysInd'
<1> SUFFICES ASSUME Shape, KeysInd, [NextKeys]_allVars PROVE KeysInd'
  OBVIOUS
<1>1. CASE Community1
  BY <1>1, MembersMove, LoadStays DEF Community1
<1>2. ASSUME NEW d \in Account, ClientStarts(d) PROVE KeysInd'
  BY <1>2, ReadsFit, MetaFetchFits DEF ClientStarts
<1>3. ASSUME NEW d \in Account, ClientProceeds(d) PROVE KeysInd'
  BY <1>3, ChecksFit, FetchApplyFits, RotateCommitFits, RotateAdoptFits, InsertFits, MetaCommitFits,
     MetaAdoptFits, CapsPostFits DEF ClientProceeds
<1>4. ASSUME NEW d \in Account, ClientRestart(d) PROVE KeysInd'
  BY <1>4, ChecksFit
<1>5. CASE UNCHANGED allVars
  BY <1>5, MembersMove DEF allVars, keyVars
<1> QED
  BY <1>1, <1>2, <1>3, <1>4, <1>5 DEF NextKeys


-----------------------------------------------------------------------------
(* What a client's step leaves alone. *)

ClientStep(d) == ClientStarts(d) \/ ClientProceeds(d) \/ ClientRestart(d)

LEMMA ClientsApart ==
  ASSUME NEW d \in Account, ClientStep(d)
  PROVE  /\ UNCHANGED CommunityButFlags
         /\ pending' = pending \/ \E k \in Key : pending' = [pending EXCEPT ![k] = FALSE]
<1>1. CASE UNCHANGED vars
  BY <1>1 DEF CommunityButFlags
<1>2. CASE RotateCommit(d) \/ MetaCommit(d)
  BY <1>2 DEF RotateCommit, MetaCommit, Advance, Key
<1>3. CASE ~(RotateCommit(d) \/ MetaCommit(d))
  <2>1. UNCHANGED vars
    BY <1>3 DEF ClientStep, ClientStarts, ClientProceeds, ClientRestart, FetchRead, RotateNoticed,
       GrantStart, MetaRead, MetaFetch, MetaGrantList, CapsStart, FetchApply, SendSeal, SendRefuse,
       RotateRead, RotateCheck, RotateAdopt, GrantList, GrantCheck, GrantInsert, MetaAdopt,
       MetaGrantCheck, MetaGrantInsert, CapsList, CapsPost
  <2> QED BY <1>1, <2>1
<1> QED
  BY <1>2, <1>3

LEMMA ShapeStays ==
  ASSUME Shape, UNCHANGED CommunityButFlags, pending' \in [{"meta", "channel"} -> BOOLEAN]
  PROVE  Shape'
BY DEF Shape, CommunityButFlags, CallsFit, Fits, Exists

LEMMA SerialStays ==
  ASSUME SerialInv, UNCHANGED CommunityButFlags
  PROVE  SerialInv'
<1>1. Rows' = Rows /\ Only' = Only /\ Used' = Used /\ Mode' = Mode
  BY DEF CommunityButFlags, Rows, Row, Only, InChannel, Used, Mode
<1>2. \A t \in Slot : Pre(call[t])' = Pre(call[t])
  BY DEF CommunityButFlags, Pre, Enterer, Eligible, IsLeader, IsManager, InChannel, Exists, HasPlace, Mode
<1> QED
  BY <1>1, <1>2 DEF SerialInv, CommunityButFlags

MembersInd == Shape /\ SerialInv

LEMMA MembersStep == MembersInd /\ [NextKeys]_allVars => MembersInd'
<1> SUFFICES ASSUME Shape, SerialInv, [NextKeys]_allVars PROVE Shape' /\ SerialInv'
  BY DEF MembersInd
<1>1. CASE Community1 \/ UNCHANGED allVars
  <2>1. [Next]_vars
    BY <1>1 DEF Community1, allVars
  <2> QED BY <2>1, ShapeStep, SerialStep
<1>2. ASSUME NEW d \in Account, ClientStep(d) PROVE Shape' /\ SerialInv'
  <2>1. UNCHANGED CommunityButFlags /\ pending' \in [{"meta", "channel"} -> BOOLEAN]
    BY <1>2, ClientsApart DEF Shape
  <2> QED BY <2>1, ShapeStays, SerialStays
<1> QED
  BY <1>1, <1>2 DEF NextKeys, ClientStep

-----------------------------------------------------------------------------
(* Keys in use: what was committed to, and never lost.                        *)

KeysInductive == MembersInd /\ KeysInd

LEMMA KeysHold == SpecKeys => []KeysInductive
<1>1. InitKeys => KeysInductive
  BY InitShape, SerialInit, KeysInit DEF KeysInductive, MembersInd, InitKeys
<1>2. KeysInductive /\ [NextKeys]_allVars => KeysInductive'
  BY MembersStep, KeysStep DEF KeysInductive, MembersInd
<1> QED
  BY <1>1, <1>2, PTL DEF SpecKeys

(* Whatever rotations, grants and answers cross, get lost or come twice: a    *)
(* device that holds a key for an epoch holds the one whose commitment is     *)
(* published, keeps K_meta for one epoch only, nothing is granted beyond the  *)
(* current epoch, and the minter of the current K_channel can always find it. *)
THEOREM KeysAreCommitted == SpecKeys => []KeyInvariant
<1>1. KeysInductive => KeyInvariant
  <2> SUFFICES ASSUME KeysInd PROVE KeyInvariant
    BY DEF KeysInductive
  <2>0. MaxEpoch \in Nat /\ "channel" \in Key /\ epoch["channel"] \in Epochs
    BY Bounds DEF KeysInd, KeyShape, Key
  <2>1. ASSUME NEW d \in Account PROVE Cardinality(HeldEpochs("meta", d)) <= 1
    <3> DEFINE H == HeldEpochs("meta", d)
    <3>1. CASE H = {}
      BY <3>1, FS_EmptySet
    <3>2. ASSUME NEW e \in H PROVE Cardinality(H) <= 1
      <4>1. H = {e}
        BY <3>2 DEF KeysInd, OneMeta, HeldEpochs
      <4>2. Cardinality({e}) = 1
        BY FS_Singleton
      <4> QED BY <4>1, <4>2
    <3> QED BY <3>1, <3>2
  <2>2. KeysTypeOK
    BY <2>1 DEF KeysInd, KeyShape, GrantsInTime, KeysTypeOK
  <2>3. KeyRecoverable
    BY <2>0 DEF KeysInd, Committed, Backed, KeyRecoverable, Epochs
  <2> QED BY <2>2, <2>3 DEF KeyInvariant, KeysInd
<1> QED
  BY <1>1, KeysHold, PTL


-----------------------------------------------------------------------------
(* Who is out while the current key still reaches them: every way out leaves  *)
(* a request, or the handler that is about to; and nobody who is out gets a   *)
(* key that was not theirs already.                                           *)

Watched == load.serial /\ ~load.crash

(* The keys never let the channel's row go. *)
FlagInd == MembersInd /\ KeysInd /\ (Watched => Exists) /\ OutIsFlagged

(* Requests are kept, and whoever gets out leaves one. *)
Leaving ==
  /\ Exists'
  /\ \A k \in Key : pending[k] => pending'[k]
  /\ \A k \in Key, x \in Account : Asking(k, x) => Asking(k, x)' \/ pending'[k]
  /\ \A k \in Key, x \in Account : Out(k, x)' /\ ~Out(k, x) => pending'[k] \/ Asking(k, x)'

LEMMA FlagsRise ==
  ASSUME Shape, Exists, NEW j \in {"meta", "channel"}, Flag(j)
  PROVE  pending'[j] /\ \A k \in Key : pending[k] => pending'[k]
BY DEF Flag, Shape, Key

LEMMA ProceedLeaves ==
  ASSUME Shape, SerialInv, Watched, Mode = "group_key", Exists, NEW s \in Slot, Proceed(s)
  PROVE  Leaving
<1>1. /\ Proceeded(s) /\ call[s] # NoCall /\ Pre(call[s]) /\ load' = load /\ Only
      /\ call[s] \in Call /\ Fits(call[s])
      /\ pending \in [{"meta", "channel"} -> BOOLEAN] /\ Key = {"meta", "channel"}
  BY Proceeds DEF Proceeded, SerialInv, Watched, Shape, CallsFit, Key
<1>2. ASSUME NEW a \in Account PROVE Written(s, a)
  BY <1>1 DEF Proceeded
<1>3. Referenced
  BY DEF Referenced
<1>4. Exists'
  <2>1. CASE UpdateWrite(s)
    BY <1>1, <2>1 DEF UpdateWrite, At, Fits, Exists
  <2>2. CASE ~UpdateWrite(s)
    BY <1>3, <2>2 DEF Proceed, JoinWrite, CodeWrite, ResolveWrite, TargetWrite, ModeratorWrite, MuteWrite,
       KickWrite, RoleWrite, ExitWrite, FlagMeta, FlagChannel, FlagStep, DeleteWrite, RollWrite,
       AnswerWrite, SweepWrite, SweepFlag, SweepConsume, Exists
  <2> QED BY <2>1, <2>2
<1>5. \A k \in Key : pending[k] => pending'[k]
  <2>1. CASE pending' = pending
    BY <2>1
  <2>2. ASSUME NEW j \in {"meta", "channel"}, Flag(j) PROVE \A k \in Key : pending[k] => pending'[k]
    BY <2>2, FlagsRise
  <2>3. CASE ExitWrite(s)
    BY <1>1, <2>3 DEF ExitWrite
  <2> QED BY <2>1, <2>2, <2>3 DEF Proceed, JoinWrite, CodeWrite, ResolveWrite, TargetWrite,
       ModeratorWrite, MuteWrite, KickWrite, RoleWrite, FlagMeta, FlagChannel, FlagStep, UpdateWrite,
       DeleteWrite, RollWrite, AnswerWrite, SweepWrite, SweepFlag, SweepConsume
<1>6. ASSUME NEW k \in Key, NEW x \in Account, Asking(k, x) PROVE pending'[k]
  <2>1. /\ call[s].step = "flag" /\ (k = "meta" <=> call[s].op \in {"remove", "leave"})
        /\ call[s].op # "moderator" /\ call[s].op # "role"
    BY <1>1, <1>6 DEF Asking, Only
  <2>2. FlagMeta(s) \/ FlagChannel(s) \/ SweepFlag(s)
    BY <2>1 DEF Proceed, JoinWrite, CodeWrite, ResolveWrite, TargetWrite, ModeratorWrite, MuteWrite,
       KickWrite, RoleWrite, ExitWrite, UpdateWrite, DeleteWrite, RollWrite, AnswerWrite, SweepWrite,
       SweepConsume, At
  <2>3. Flag(k)
    BY <1>1, <2>1, <2>2 DEF FlagMeta, FlagChannel, FlagStep, SweepFlag, At
  <2> QED BY <1>1, <2>3, FlagsRise
<1>7. ASSUME NEW k \in Key, NEW x \in Account, NEW step \in Steps, Continue(s, step), step = "flag",
             x \in call[s].on, (k = "meta") <=> (call[s].op \in {"remove", "leave"}),
             call[s].op \in {"kick", "sweep", "remove", "leave"}
      PROVE  Asking(k, x)'
  <2>1. Kept(s, step)
    BY <1>1, <1>7, GoesOn
  <2>2. call'[s] # NoCall
    <3>1. call'[s] \in Call /\ call'[s].op = call[s].op /\ call'[s].arg = call[s].arg /\ call'[s].step = "flag"
      BY <1>7, <2>1 DEF Kept
    <3>2. call[s].arg \in Nat \cup {"removed", "left"}
      <4>1. DOMAIN rollcalls \subseteq Nat
        BY DEF Shape
      <4> QED BY <1>1, <1>7, <4>1 DEF Fits
    <3>3. call'[s] \in [op : {"kick", "sweep", "remove", "leave"}, by : Account, step : {"flag"},
                        on : SUBSET Account, arg : Nat \cup {"removed", "left"}]
      BY <1>7, <3>1, <3>2 DEF Call
    <3>4. NoCall \notin [op : {"kick", "sweep", "remove", "leave"}, by : Account, step : {"flag"},
                          on : SUBSET Account, arg : Nat \cup {"removed", "left"}]
      BY KeysAssumption DEF KeysAssumption
    <3> QED BY <3>3, <3>4
  <2> QED BY <1>7, <2>1, <2>2 DEF Kept, Asking
<1>8. ASSUME NEW k \in Key, NEW x \in Account, ExitWrite(s), x \in call[s].on, ~Out(k, x)
      PROVE  pending'[k] \/ Asking(k, x)'
  <2>1. call[s].op \in {"remove", "leave"} /\ Continue(s, "flag")
    BY <1>8 DEF ExitWrite, At
  <2>2. CASE k = "meta"
    BY <1>7, <1>8, <2>1, <2>2 DEF Steps
  <2>3. CASE k = "channel"
    <3>1. MarksChannel(call[s].on)
      BY <1>8, <2>3 DEF MarksChannel, Out
    <3> QED BY <1>1, <1>8, <2>3, <3>1 DEF ExitWrite
  <2> QED BY <1>1, <2>2, <2>3
<1>9. ASSUME NEW k \in Key, NEW x \in Account, Out(k, x)', ~Out(k, x)
      PROVE  pending'[k] \/ Asking(k, x)'
  <2>1. CASE member'[x] # member[x]
    <3>1. call[s].op \in {"remove", "leave"} /\ call[s].step = "write" /\ x \in call[s].on
      BY <1>1, <2>1 DEF Proceeded, Shape
    <3>2. ExitWrite(s)
      BY <3>1 DEF Proceed, JoinWrite, CodeWrite, ResolveWrite, TargetWrite, ModeratorWrite, MuteWrite,
         KickWrite, RoleWrite, FlagMeta, FlagChannel, FlagStep, UpdateWrite, DeleteWrite, RollWrite,
         AnswerWrite, SweepWrite, SweepFlag, SweepConsume, At
    <3> QED BY <1>8, <1>9, <3>1, <3>2
  <2>2. CASE member'[x] = member[x]
    <3>1. k = "channel" /\ standing[x].status = "active" /\ standing'[x].status # "active"
      BY <1>9, <2>2 DEF Out, InChannel
    <3>2. standing'[x] # standing[x]
      BY <3>1
    <3>3. CASE DeleteWrite(s)
      BY <1>3, <3>2, <3>3 DEF DeleteWrite
    <3>4. CASE ~DeleteWrite(s)
      <4>0. call[s].op # "delete"
        BY <3>4 DEF Proceed, JoinWrite, CodeWrite, ResolveWrite, TargetWrite, ModeratorWrite, MuteWrite,
           KickWrite, RoleWrite, ExitWrite, FlagMeta, FlagChannel, FlagStep, UpdateWrite, RollWrite,
           AnswerWrite, SweepWrite, SweepFlag, SweepConsume, At
      <4>1. /\ x \in call[s].on /\ call[s].step = "write"
            /\ call[s].op \in {"join", "code", "resolve", "target", "kick", "remove", "leave", "sweep"}
        BY <1>2, <3>1, <3>2, <4>0 DEF Written
      <4>2. call[s].op \notin {"join", "code", "resolve", "target"}
        BY <1>1, <3>1, <4>1 DEF Pre, Enterer, InChannel
      <4>3. CASE call[s].op \in {"kick", "sweep"}
        <5>1. KickWrite(s) \/ SweepWrite(s)
          BY <4>1, <4>3 DEF Proceed, JoinWrite, CodeWrite, ResolveWrite, TargetWrite, ModeratorWrite,
             MuteWrite, RoleWrite, ExitWrite, FlagMeta, FlagChannel, FlagStep, UpdateWrite, DeleteWrite,
             RollWrite, AnswerWrite, SweepFlag, SweepConsume, At
        <5>2. Continue(s, "flag")
          BY <5>1 DEF KickWrite, SweepWrite
        <5> QED BY <1>7, <3>1, <4>1, <4>3, <5>2 DEF Steps
      <4>4. CASE call[s].op \in {"remove", "leave"}
        <5>1. ExitWrite(s)
          BY <4>1, <4>4 DEF Proceed, JoinWrite, CodeWrite, ResolveWrite, TargetWrite, ModeratorWrite,
             MuteWrite, KickWrite, RoleWrite, FlagMeta, FlagChannel, FlagStep, UpdateWrite, DeleteWrite,
             RollWrite, AnswerWrite, SweepWrite, SweepFlag, SweepConsume, At
        <5> QED BY <1>8, <1>9, <4>1, <5>1
      <4> QED BY <4>1, <4>2, <4>3, <4>4
    <3> QED BY <3>3, <3>4
  <2> QED BY <2>1, <2>2
<1> QED
  BY <1>4, <1>5, <1>6, <1>9 DEF Leaving

LEMMA MembersLeave ==
  ASSUME Shape, SerialInv, Watched, Mode = "group_key", Exists, [Next]_vars
  PROVE  Leaving
<1>1. ASSUME NEW s \in Slot, Arrive(s) PROVE Leaving
  <2>1. PICK r : Began(s, r)
    BY <1>1, Arrives
  <2>2. UNCHANGED communityVars /\ Idle
    BY <2>1 DEF Began, Watched
  <2> QED BY <2>2 DEF Leaving, Exists, Asking, Idle, Out, InChannel
<1>2. ASSUME NEW s \in Slot, Proceed(s) PROVE Leaving
  BY <1>2, ProceedLeaves
<1>3. CASE Alone
  <2>1. /\ UNCHANGED <<channel, standing, pending, call>>
        /\ member' = member \/ \E a \in Account : member' = [member EXCEPT ![a] = "active"]
    BY <1>3 DEF Watched, Alone, CreateInvite, EndInvite, AcceptInvite, PruneInvites, RollCloses,
       PruneRollcalls, Restart
  <2>2. \A x \in Account : member'[x] = member[x] \/ member'[x] = "active"
    BY <2>1 DEF Shape
  <2> QED BY <2>1, <2>2 DEF Leaving, Exists, Asking, Out, InChannel
<1>4. CASE UNCHANGED vars
  BY <1>4 DEF Leaving, Exists, Asking, Out, InChannel
<1> QED
  BY <1>1, <1>2, <1>3, <1>4 DEF Next

-----------------------------------------------------------------------------
(* Whom a client's step gets the current key to. *)

Reacher(k, d, x) ==
  Doing(d, IF k = "meta" THEN "metaGrant" ELSE "grant", "insert") /\ task[d].epoch = epoch[k] /\ x \in task[d].to

(* Nobody new, but who may have the key. *)
Careful ==
  \A k \in Key, x \in Account : Reaches(k, x)' =>
    Entitled(k, x) \/ (Reaches(k, x) /\ pending'[k] = pending[k])

LEMMA QuietReach ==
  ASSUME KeyShape, UNCHANGED <<epoch, grants, pending>>, NEW d \in Account, NEW t,
         task' = [task EXCEPT ![d] = t],
         \/ t = NoCall \/ t.step # "insert"
         \/ \A k \in Key : t.op = (IF k = "meta" THEN "metaGrant" ELSE "grant") => AllEntitled(k, t.to)
  PROVE  Careful
<1> SUFFICES ASSUME NEW k \in Key, NEW x \in Account, Reaches(k, x)'
             PROVE  Entitled(k, x) \/ Reaches(k, x)
  BY DEF Careful
<1>1. CASE x \in GrantedTo(k, epoch[k])'
  BY <1>1 DEF GrantedTo, Reaches
<1>2. ASSUME NEW y \in Account, Reacher(k, y, x)' PROVE Entitled(k, x) \/ Reaches(k, x)
  <2>1. CASE y = d
    <3>1. task'[y] = t
      BY <2>1 DEF KeyShape
    <3> QED BY <1>2, <3>1 DEF Reacher, Doing, Free, AllEntitled
  <2>2. CASE y # d
    <3>1. task'[y] = task[y]
      BY <2>2 DEF KeyShape
    <3>2. Reacher(k, y, x)
      BY <1>2, <3>1 DEF Reacher, Doing, Free
    <3> QED BY <3>2 DEF Reacher, Reaches
  <2> QED BY <2>1, <2>2
<1> QED
  BY <1>1, <1>2 DEF Reaches, Reacher


(* A rotation reaches only whom it was sealed to: no older grant and no grant *)
(* in flight is of the new epoch.                                             *)
LEMMA AdvanceReach ==
  ASSUME KeysInd, NEW k \in Key, NEW d \in Account, NEW t, NEW e, NEW to, epoch[k] = e, e \in Nat,
         Advance(k, e + 1, d, to), AllEntitled(k, to),
         Shape, task' = [task EXCEPT ![d] = t], t = NoCall \/ t.step # "insert"
  PROVE  Careful
<1>1. /\ KeyShape /\ GrantsInTime /\ TasksFit
      /\ epoch \in [Key -> Epochs] /\ \A j \in Key : epoch[j] \in Int
      /\ grants \in [Key -> SUBSET [epoch : Epochs, to : Account, minter : Account]]
      /\ pending \in [Key -> BOOLEAN]
  BY DEF KeysInd, KeyShape, Epochs, Shape, Key
<1> SUFFICES ASSUME NEW j \in Key, NEW x \in Account, Reaches(j, x)'
             PROVE  Entitled(j, x) \/ (Reaches(j, x) /\ pending'[j] = pending[j])
  BY DEF Careful
<1>2. /\ epoch'[k] = e + 1 /\ \A i \in Key : i # k => epoch'[i] = epoch[i]
      /\ \A i \in Key : i # k => pending'[i] = pending[i] /\ grants'[i] = grants[i]
      /\ \A g \in grants'[k] : g \in grants[k] \/ (g.epoch = e + 1 /\ g.to \in to)
  <2>1. grants'[k] \subseteq grants[k] \cup Sealed(k, e + 1, d, to)
    BY <1>1 DEF Advance
  <2>2. \A g \in Sealed(k, e + 1, d, to) : g.epoch = e + 1 /\ g.to \in to
    BY DEF Sealed
  <2>3. \A i \in Key : i # k => grants'[i] = grants[i]
    BY <1>1 DEF Advance
  <2>4. /\ epoch'[k] = e + 1
        /\ \A i \in Key : i # k => epoch'[i] = epoch[i] /\ pending'[i] = pending[i]
    BY <1>1 DEF Advance
  <2> QED BY <2>1, <2>2, <2>3, <2>4
<1>3. ASSUME NEW y \in Account, Reacher(j, y, x)' PROVE j # k /\ Reacher(j, y, x)
  <2>1. y # d
    BY <1>1, <1>3 DEF KeyShape, Reacher, Doing, Free
  <2>2. task'[y] = task[y] /\ task[y] # NoCall
    BY <1>1, <1>3, <2>1 DEF KeyShape, Reacher, Doing, Free
  <2>3. task[y].epoch <= epoch[j] /\ task[y].epoch \in Int
    <3>1. TaskFits(y, task[y]) /\ task[y] \in Task
      BY <1>1, <2>2 DEF TasksFit
    <3>2. task[y].op = IF j = "meta" THEN "metaGrant" ELSE "grant"
      BY <1>3, <2>2 DEF Reacher, Doing
    <3> QED BY <3>1, <3>2 DEF TaskFits, OfGrant, Task, Epochs, Key
  <2>4. task[y].epoch = epoch'[j]
    BY <1>3, <2>2 DEF Reacher
  <2>5. j # k
    BY <1>1, <1>2, <2>3, <2>4
  <2> QED BY <1>2, <1>3, <2>2, <2>5 DEF Reacher, Doing, Free
<1>4. CASE j # k
  <2>1. epoch'[j] = epoch[j] /\ pending'[j] = pending[j] /\ grants'[j] = grants[j]
    BY <1>2, <1>4
  <2>2. GrantedTo(j, epoch[j])' = GrantedTo(j, epoch[j])
    BY <2>1 DEF GrantedTo
  <2> QED BY <1>3, <2>1, <2>2 DEF Reaches, Reacher
<1>5. CASE j = k
  <2>1. x \in GrantedTo(k, epoch[k])'
    BY <1>3, <1>5 DEF Reaches, Reacher
  <2>2. PICK g \in grants'[k] : g.epoch = e + 1 /\ g.to = x
    BY <1>2, <2>1 DEF GrantedTo
  <2>3. g \notin grants[k]
    BY <1>1, <2>2 DEF GrantsInTime
  <2>4. x \in to
    BY <1>2, <2>2, <2>3
  <2> QED BY <1>5, <2>4 DEF AllEntitled
<1> QED
  BY <1>4, <1>5

LEMMA InsertReach ==
  ASSUME KeysInd, NEW d \in Account, GrantInsert(d) \/ MetaGrantInsert(d)
  PROVE  Careful
<1>1. /\ KeyShape /\ "channel" \in Key /\ "meta" \in Key /\ task[d] # NoCall /\ TaskFits(d, task[d])
      /\ UNCHANGED <<epoch, pending>> /\ task' = [task EXCEPT ![d] = NoCall]
  BY DEF KeysInd, Key, TasksFit, GrantInsert, MetaGrantInsert, Doing, Free, Finish, SetTask
<1>2. PICK k \in Key : /\ OfGrant(k, task[d]) /\ Insert(k, d)
                       /\ Doing(d, IF k = "meta" THEN "metaGrant" ELSE "grant", "insert")
  BY <1>1 DEF GrantInsert, MetaGrantInsert, TaskFits, Doing
<1>3. \A j \in Key : \A g \in grants'[j] \ grants[j] :
        j = k /\ g.epoch = task[d].epoch /\ g.to \in task[d].to
  BY <1>1, <1>2, Inserts
<1> SUFFICES ASSUME NEW j \in Key, NEW x \in Account, Reaches(j, x)'
             PROVE  Reaches(j, x)
  BY <1>1 DEF Careful
<1>4. CASE x \in GrantedTo(j, epoch[j])'
  <2>1. PICK g \in grants'[j] : g.epoch = epoch[j] /\ g.to = x
    BY <1>1, <1>4 DEF GrantedTo
  <2>2. CASE g \in grants[j]
    BY <2>1, <2>2 DEF GrantedTo, Reaches
  <2>3. CASE g \notin grants[j]
    <3>1. j = k /\ task[d].epoch = epoch[j] /\ x \in task[d].to
      BY <1>3, <2>1, <2>3
    <3> QED BY <1>2, <3>1 DEF Reaches
  <2> QED BY <2>2, <2>3
<1>5. ASSUME NEW y \in Account, Reacher(j, y, x)' PROVE Reacher(j, y, x)
  <2>1. task'[y] = task[y]
    BY <1>1, <1>5 DEF KeyShape, Reacher, Doing, Free
  <2> QED BY <1>1, <1>5, <2>1 DEF Reacher, Doing, Free
<1> QED
  BY <1>4, <1>5 DEF Reaches, Reacher

LEMMA ClientsCareful ==
  ASSUME Shape, KeysInd, NEW d \in Account, ClientStep(d)
  PROVE  Careful
<1>1. KeyShape /\ MaxEpoch \in Nat /\ (task[d] # NoCall => task[d] \in Task /\ TaskFits(d, task[d]))
      /\ \A k \in Key : epoch[k] \in Nat
  BY Bounds DEF KeysInd, TasksFit, KeyShape, Epochs
<1>2. ASSUME NEW t, UNCHANGED <<epoch, grants, vars>>, task' = [task EXCEPT ![d] = t],
             t = NoCall \/ t.step # "insert"
      PROVE  Careful
  <2>1. UNCHANGED <<epoch, grants, pending>>
    BY <1>2
  <2> QED BY <1>1, <1>2, <2>1, QuietReach
<1>3. CASE \/ FetchRead(d, "fetch") \/ FetchRead(d, "send") \/ RotateNoticed(d) \/ GrantStart(d)
           \/ MetaRead(d) \/ MetaGrantList(d) \/ CapsStart(d)
  <2>1. PICK t : task' = [task EXCEPT ![d] = t] /\ t.step # "insert"
    <3>1. ASSUME NEW op, NEW step \in {"reply", "read", "list", "commit", "check"}, NEW e, NEW who, NEW to,
                 Take(d, op, step, e, who, to)
          PROVE  \E t : task' = [task EXCEPT ![d] = t] /\ t.step # "insert"
      <4>1. PICK t : t = [op |-> op, step |-> step, epoch |-> e, who |-> who, to |-> to]
        OBVIOUS
      <4>2. task' = [task EXCEPT ![d] = t] /\ t.step # "insert"
        BY <3>1, <4>1 DEF Take, SetTask
      <4> QED BY <4>2
    <3> QED BY <1>3, <3>1 DEF FetchRead, RotateNoticed, GrantStart, MetaRead, MetaGrantList, CapsStart
  <2> QED BY <1>2, <1>3, <2>1 DEF FetchRead, RotateNoticed, GrantStart, MetaRead, MetaGrantList, CapsStart
<1>4. CASE MetaFetch(d)
  BY <1>4 DEF MetaFetch, Careful, Reaches, GrantedTo, Doing, Free
<1>5. CASE \/ FetchApply(d) \/ SendSeal(d) \/ SendRefuse(d) \/ RotateRead(d) \/ RotateAdopt(d)
           \/ MetaAdopt(d) \/ CapsPost(d) \/ ClientRestart(d)
  <2>1. PICK t : task' = [task EXCEPT ![d] = t] /\ (t = NoCall \/ t.step # "insert")
    <3>1. ASSUME NEW op, NEW step \in {"seal", "check", "list"}, NEW e, NEW who, NEW to,
                 Take(d, op, step, e, who, to)
          PROVE  \E t : task' = [task EXCEPT ![d] = t] /\ t.step # "insert"
      <4>1. PICK t : t = [op |-> op, step |-> step, epoch |-> e, who |-> who, to |-> to]
        OBVIOUS
      <4>2. task' = [task EXCEPT ![d] = t] /\ t.step # "insert"
        BY <3>1, <4>1 DEF Take, SetTask
      <4> QED BY <4>2
    <3>2. Finish(d) => \E t : task' = [task EXCEPT ![d] = t] /\ t = NoCall
      BY DEF Finish, SetTask
    <3> QED BY <1>5, <3>1, <3>2 DEF FetchApply, SendSeal, SendRefuse, RotateRead, RotateAdopt, MetaAdopt,
               CapsPost, ClientRestart
  <2> QED BY <1>2, <1>5, <2>1 DEF FetchApply, SendSeal, SendRefuse, RotateRead, RotateAdopt, MetaAdopt,
             CapsPost, ClientRestart
<1>6. CASE RotateCheck(d) \/ GrantList(d) \/ CapsList(d)
  <2>1. task[d] \in Task
    BY <1>1, <1>6 DEF RotateCheck, GrantList, CapsList, Doing, Free
  <2>2. PICK t : task' = [task EXCEPT ![d] = t] /\ (t = NoCall \/ t.step # "insert")
    <3>1. ASSUME NEW step \in {"commit", "check", "post"}, NEW to,
                 \/ task' = [task EXCEPT ![d] = [task[d] EXCEPT !.step = step]]
                 \/ task' = [task EXCEPT ![d] = [task[d] EXCEPT !.step = step, !.to = to]]
          PROVE  \E t : task' = [task EXCEPT ![d] = t] /\ t.step # "insert"
      <4>1. PICK t : task' = [task EXCEPT ![d] = t] /\ (\/ t = [task[d] EXCEPT !.step = step]
                                                     \/ t = [task[d] EXCEPT !.step = step, !.to = to])
        BY <3>1
      <4>2. t.step = step
        BY <2>1, <4>1 DEF Task
      <4> QED BY <4>1, <4>2
    <3>2. Finish(d) => \E t : task' = [task EXCEPT ![d] = t] /\ t = NoCall
      BY DEF Finish, SetTask
    <3> QED BY <1>6, <3>1, <3>2 DEF RotateCheck, GrantList, CapsList, Turn, SetTask
  <2> QED BY <1>2, <1>6, <2>2 DEF RotateCheck, GrantList, CapsList
<1>7. CASE GrantCheck(d) \/ MetaGrantCheck(d)
  <2>0. UNCHANGED <<epoch, grants, pending, vars>>
    BY <1>7 DEF GrantCheck, MetaGrantCheck
  <2>1. CASE Finish(d)
    <3>1. PICK t : t = NoCall /\ task' = [task EXCEPT ![d] = t]
      BY <2>1 DEF Finish, SetTask
    <3> QED BY <1>2, <2>0, <3>1
  <2>2. CASE ~Finish(d)
    <3>1. PICK k \in Key : /\ task[d] # NoCall
                           /\ task[d].op = (IF k = "meta" THEN "metaGrant" ELSE "grant")
                           /\ AllEntitled(k, task[d].to) /\ Turn(d, "insert")
      BY <1>7, <2>2 DEF GrantCheck, MetaGrantCheck, Doing, Free, Key
    <3>2. PICK t : t = [task[d] EXCEPT !.step = "insert"] /\ task' = [task EXCEPT ![d] = t]
      BY <3>1 DEF Turn, SetTask
    <3>3. t.op = task[d].op /\ t.to = task[d].to
      BY <1>1, <3>1, <3>2 DEF Task
    <3>4. \A j \in Key : t.op = (IF j = "meta" THEN "metaGrant" ELSE "grant") => AllEntitled(j, t.to)
      BY <3>1, <3>3 DEF Key
    <3> QED BY <1>1, <2>0, <3>2, <3>4, QuietReach
  <2> QED BY <2>1, <2>2
<1>8. CASE RotateCommit(d) \/ MetaCommit(d)
  <2>1. task[d] # NoCall /\ task[d] \in Task
    BY <1>1, <1>8 DEF RotateCommit, MetaCommit, Doing, Free
  <2>2. CASE UNCHANGED <<epoch, grants, pending>> /\ Finish(d)
    <3>1. PICK t : t = NoCall /\ task' = [task EXCEPT ![d] = t]
      BY <2>2 DEF Finish, SetTask
    <3> QED BY <1>1, <2>2, <3>1, QuietReach
  <2>3. CASE ~(UNCHANGED <<epoch, grants, pending>> /\ Finish(d))
    <3>1. PICK k, to : /\ k \in Key /\ StillAt(k, task[d].epoch) /\ AllEntitled(k, to)
                       /\ Advance(k, task[d].epoch + 1, d, to)
                       /\ Turn(d, "adopt") \/ Finish(d)
      BY <1>8, <2>3 DEF RotateCommit, MetaCommit, Key
    <3>2. PICK t : task' = [task EXCEPT ![d] = t] /\ (t = NoCall \/ t.step # "insert")
      <4>1. Turn(d, "adopt") => \E t : task' = [task EXCEPT ![d] = t] /\ t.step # "insert"
        BY <2>1 DEF Turn, SetTask, Task
      <4>2. Finish(d) => \E t : task' = [task EXCEPT ![d] = t] /\ t = NoCall
        BY DEF Finish, SetTask
      <4> QED BY <3>1, <4>1, <4>2
    <3>3. PICK e : e = task[d].epoch /\ e \in Nat /\ epoch[k] = e
      BY <1>1, <3>1 DEF StillAt
    <3>4. Advance(k, e + 1, d, to)
      BY <3>1, <3>3
    <3> QED BY <3>1, <3>2, <3>3, <3>4, AdvanceReach
  <2> QED BY <2>2, <2>3
<1>9. CASE GrantInsert(d) \/ MetaGrantInsert(d)
  BY <1>9, InsertReach
<1> QED
  BY <1>3, <1>4, <1>5, <1>6, <1>7, <1>8, <1>9 DEF ClientStep, ClientStarts, ClientProceeds


LEMMA FlagsStep == FlagInd /\ [NextKeys]_allVars => OutIsFlagged' /\ (Watched' => Exists')
<1> SUFFICES ASSUME Shape, SerialInv, KeysInd, Watched => Exists, OutIsFlagged, [NextKeys]_allVars
             PROVE  OutIsFlagged' /\ (Watched' => Exists')
  BY DEF FlagInd, MembersInd
<1>1. CASE Community1 \/ UNCHANGED allVars
  <2>1. [Next]_vars /\ load' = load /\ UNCHANGED <<epoch, grants, task>>
    BY <1>1, LoadStays DEF Community1, allVars, keyVars
  <2>2. \A k \in Key, x \in Account : Reaches(k, x)' <=> Reaches(k, x)
    BY <2>1 DEF Reaches, GrantedTo, Doing, Free
  <2>3. CASE Watched
    <3>1. Leaving
      BY <2>1, <2>3, Bounds, MembersLeave DEF KeysInd, Mode
    <3>2. Exists' /\ Watched'
      BY <2>1, <2>3, <3>1 DEF Leaving, Watched
    <3>3. ASSUME NEW k \in Key, NEW x \in Account, Out(k, x)', Reaches(k, x)'
          PROVE  pending'[k] \/ Asking(k, x)'
      <4>1. Reaches(k, x)
        BY <2>2, <3>3
      <4>2. CASE Out(k, x)
        BY <2>3, <3>1, <4>1, <4>2 DEF OutIsFlagged, Watched, Leaving
      <4>3. CASE ~Out(k, x)
        BY <3>1, <3>3, <4>3 DEF Leaving
      <4> QED BY <4>2, <4>3
    <3> QED BY <3>2, <3>3 DEF OutIsFlagged
  <2>4. CASE ~Watched
    BY <2>1, <2>4 DEF Watched, OutIsFlagged
  <2> QED BY <2>3, <2>4
<1>2. ASSUME NEW d \in Account, ClientStep(d) PROVE OutIsFlagged' /\ (Watched' => Exists')
  <2>1. UNCHANGED CommunityButFlags
    BY <1>2, ClientsApart
  <2>2. /\ Watched' <=> Watched
        /\ Exists' <=> Exists
        /\ \A k \in Key, x \in Account : /\ Out(k, x)' <=> Out(k, x)
                                         /\ Asking(k, x)' <=> Asking(k, x)
    BY <2>1 DEF CommunityButFlags, Watched, Exists, Out, InChannel, Asking
  <2>3. Careful
    BY <1>2, ClientsCareful
  <2>4. \A k \in Key, x \in Account : Out(k, x) => ~Entitled(k, x)
    BY DEF Key, Out, Entitled, OfCommunity, OfChannel, Eligible
  <2>5. ASSUME Watched, NEW k \in Key, NEW x \in Account, Out(k, x), Reaches(k, x)'
        PROVE  pending'[k] \/ Asking(k, x)
    <3>1. Reaches(k, x) /\ pending'[k] = pending[k]
      BY <2>3, <2>4, <2>5 DEF Careful
    <3> QED BY <2>5, <3>1 DEF OutIsFlagged, Watched
  <2> QED BY <2>2, <2>5 DEF OutIsFlagged, Watched
<1> QED
  BY <1>1, <1>2 DEF NextKeys, ClientStep

(* However rotations, grants and fetches cross the exits: when the server's   *)
(* handlers come one at a time and none is cut off, whoever is out of the     *)
(* community or the channel while the current key still reaches them has left *)
(* a durable request for a new one, or the handler is about to write it.      *)
THEOREM WhoIsOutIsFlagged == SpecKeys => []OutIsFlagged
<1>1. InitKeys => FlagInd
  <2> SUFFICES ASSUME InitKeys PROVE FlagInd
    OBVIOUS
  <2>1. MembersInd /\ KeysInd /\ Exists
    BY InitShape, SerialInit, KeysInit DEF MembersInd, InitKeys, Init, Exists
  <2>2. ASSUME NEW k \in Key, NEW x \in Account, Reaches(k, x) PROVE ~Out(k, x)
    <3>1. x \in GrantedTo(k, 0)
      BY <2>2 DEF InitKeys, Reaches, Doing, Free
    <3>2. PICK g \in grants[k] : g.to = x
      BY <3>1 DEF GrantedTo
    <3>3. Entitled(k, x)
      BY <3>2 DEF InitKeys
    <3> QED BY <3>3 DEF Key, Out, Entitled, OfCommunity, OfChannel, Eligible
  <2> QED BY <2>1, <2>2 DEF FlagInd, OutIsFlagged
<1>2. FlagInd /\ [NextKeys]_allVars => FlagInd'
  BY MembersStep, KeysStep, FlagsStep DEF FlagInd, MembersInd
<1> QED
  BY <1>1, <1>2, PTL DEF SpecKeys, FlagInd

(* A device never seals below the newest rotation it was told of by someone   *)
(* it knows, and a device with the community's current K_meta adopts a        *)
(* K_channel only from the owner, a leader or a moderator.                     *)
THEOREM KeysAreVetted == SpecKeys => KeysVetted
<1>1. KeysInductive /\ [NextKeys]_allVars =>
        [\A d \in Account :
           /\ SendSeal(d) /\ task[d].who # NoOne =>
                Latest("channel", d) >= task[d].epoch
           /\ \A e \in Epochs :
                held["channel"][d][e] = NoOne /\ held["channel"]'[d][e] \notin {NoOne, d} /\ Fresh(d) =>
                  MayMint(d, held["channel"]'[d][e])]_allVars
  <2> SUFFICES ASSUME KeysInd, NextKeys, NEW d \in Account
               PROVE  /\ SendSeal(d) /\ task[d].who # NoOne =>
                           Latest("channel", d) >= task[d].epoch
                      /\ \A e \in Epochs :
                           held["channel"][d][e] = NoOne /\ held["channel"]'[d][e] \notin {NoOne, d} /\ Fresh(d)
                             => MayMint(d, held["channel"]'[d][e])
    BY DEF KeysInductive
  <2>0. KeyShape /\ MaxEpoch \in Nat /\ "channel" \in Key /\ "meta" \in Key /\ NoOne \notin Account
    BY Bounds DEF KeysInd, Key
  <2>1. ASSUME SendSeal(d), task[d].who # NoOne PROVE Latest("channel", d) >= task[d].epoch
    <3>1. /\ task[d] \in Task /\ TaskFits(d, task[d]) /\ task[d].op = "send" /\ task[d].step = "seal"
      BY <2>1 DEF KeysInd, TasksFit, SendSeal, Doing, Free
    <3>2. task[d].epoch \in Int /\ highWater[d] \in Int /\ task[d].epoch <= highWater[d]
      BY <2>0, <2>1, <3>1 DEF TaskFits, Task, KeyShape, Epochs
    <3>3. Latest("channel", d) \in Int /\ Latest("channel", d) >= highWater[d]
      BY <2>0, <2>1, LatestHeld DEF SendSeal, MaySeal
    <3> QED BY <3>2, <3>3
  <2>2. ASSUME NEW e \in Epochs, held["channel"][d][e] = NoOne, held'["channel"][d][e] \notin {NoOne, d}, Fresh(d)
        PROVE  MayMint(d, held'["channel"][d][e])
    <3>1. held' # held
      BY <2>2
    <3>2. PICK x \in Account : FetchApply(x) \/ RotateAdopt(x) \/ MetaAdopt(x) \/ MetaFetch(x)
      BY <3>1 DEF NextKeys, Community1, ClientStarts, ClientProceeds, ClientRestart, FetchRead,
         RotateNoticed, GrantStart, MetaRead, MetaGrantList, CapsStart, SendSeal, SendRefuse, RotateRead,
         RotateCheck, RotateCommit, GrantList, GrantCheck, GrantInsert, MetaCommit, MetaGrantCheck,
         MetaGrantInsert, CapsList, CapsPost
    <3>3. ASSUME NEW m \in Account \cup {NoOne}, NEW f \in Epochs, NEW k \in Key, Keep(k, x, f, m)
          PROVE  k = "channel" /\ x = d /\ held'["channel"][d][e] = m
      <4>1. /\ \A j \in Key, y \in Account : j # k \/ y # x => held'[j][y] = held[j][y]
            /\ \A g \in Epochs : held'[k][x][g] = IF g = f THEN m ELSE IF k = "meta" THEN NoOne ELSE held[k][x][g]
        BY <2>0, <3>3, Keeps
      <4>2. k = "channel" /\ x = d
        BY <2>0, <2>2, <4>1
      <4> QED BY <2>2, <4>1, <4>2
    <3>4. CASE FetchApply(x)
      <4>1. /\ task[x] \in Task /\ TaskFits(x, task[x])
            /\ task[x].op \in {"fetch", "send"} /\ task[x].step = "reply"
        BY <3>4 DEF KeysInd, TasksFit, FetchApply, Doing, Free
      <4>2. Keep("channel", x, task[x].epoch, task[x].who) /\ Trusted(x, task[x].who)
        BY <3>1, <3>4 DEF FetchApply
      <4>3. task[x].who \in Account \cup {NoOne} /\ task[x].epoch \in Epochs
        BY <4>1 DEF Task
      <4>4. x = d /\ held'["channel"][d][e] = task[x].who
        BY <2>0, <3>3, <4>2, <4>3
      <4>5. Latest("meta", d) # -1
        BY <2>0, <2>2 DEF Fresh, KeyShape, Epochs
      <4> QED BY <4>2, <4>4, <4>5 DEF Trusted
    <3>5. CASE RotateAdopt(x)
      <4>1. task[x] \in Task /\ TaskFits(x, task[x]) /\ task[x].op = "rotate" /\ task[x].step = "adopt"
        BY <3>5 DEF KeysInd, TasksFit, RotateAdopt, Doing, Free
      <4>2. task[x].epoch + 1 \in Epochs
        BY <2>0, <4>1 DEF TaskFits, OfRotation, Task, KeyShape, Epochs
      <4>3. x = d /\ held'["channel"][d][e] = x
        BY <2>0, <3>3, <3>5, <4>2 DEF RotateAdopt
      <4> QED BY <2>2, <4>3
    <3>6. CASE MetaAdopt(x)
      <4>1. task[x] \in Task /\ TaskFits(x, task[x]) /\ task[x].op = "meta" /\ task[x].step = "adopt"
        BY <3>6 DEF KeysInd, TasksFit, MetaAdopt, Doing, Free
      <4>2. task[x].epoch + 1 \in Epochs
        BY <2>0, <4>1 DEF TaskFits, OfRotation, Task, KeyShape, Epochs
      <4> QED BY <2>0, <3>3, <3>6, <4>2 DEF MetaAdopt
    <3>7. CASE MetaFetch(x)
      <4>1. epoch["meta"] \in Epochs /\ commitment["meta"][epoch["meta"]] \in Account \cup {NoOne}
        BY <2>0 DEF KeyShape
      <4> QED BY <2>0, <3>3, <3>7, <4>1 DEF MetaFetch
    <3> QED BY <3>2, <3>4, <3>5, <3>6, <3>7
  <2>3. held["channel"]' = held'["channel"]
    OBVIOUS
  <2> QED BY <2>1, <2>2, <2>3
<1> QED
  BY <1>1, KeysHold, PTL DEF SpecKeys, KeysVetted
=============================================================================
