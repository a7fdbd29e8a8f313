---------------------------- MODULE FriendsProofs ----------------------------
(* Invites, blocks, connect requests and DM groups, for every number of      *)
(* accounts, invites and requests in flight, with restarts; then presence,   *)
(* for every number of clients and sockets.                                  *)
EXTENDS PresenceProps, FiniteSetTheorems, TLAPS

USE DEF rows, notes, friendVars, presenceVars, vars

-----------------------------------------------------------------------------
(* The shape of the rows and of the requests in flight. *)

LEMMA Two ==
  ASSUME NEW a \in Account, NEW b \in Account
  PROVE  {a, b} \in Pairs <=> a # b
<1>1. Cardinality({a}) = 1 /\ IsFiniteSet({a})
  BY FS_Singleton
<1>2. CASE a = b
  BY <1>1, <1>2 DEF Pairs
<1>3. CASE a # b
  <2>1. {a, b} = {a} \cup {b} /\ b \notin {a}
    BY <1>3
  <2>2. Cardinality({a} \cup {b}) = 2
    BY <1>1, <2>1, FS_AddElement
  <2> QED BY <1>3, <2>1, <2>2 DEF Pairs
<1> QED
  BY <1>2, <1>3

Acceptances == [op : {"accept"}, step : {"lock", "blocks", "existing", "form", "found", "announce"},
                invite : Invite, by : Account, from : Account]
Answers == [op : {"acceptRequest"}, step : {"take", "blocks", "form", "found", "announce"},
            from : Account, by : Account]
Connects == [op : {"request"}, step : {"blocked", "friends", "existing", "insert"},
             from : Account, to : Account]
Blocks == [op : {"block"}, step : {"store", "sever"}, by : Account, from : Account]

Calls ==
  {r \in Acceptances \cup Answers \cup Blocks : r.by # r.from}
    \cup {r \in Connects : r.from # r.to} \cup {Idle}

Shape ==
  /\ invite \in [Invite -> [status : {"none", "open", "closed"}, uses : Nat]]
  /\ blocks \subseteq Account \X Account
  /\ requests \subseteq {r \in Account \X Account : r[1] # r[2]}
  /\ friends \subseteq Pairs /\ groups \in [Pairs -> Nat]
  /\ call \in [Slot -> Calls]
  /\ formed \in [Pairs -> Nat] /\ redone \in [Pairs -> Nat] /\ accepted \in [Invite -> Nat]
  /\ crashed \in BOOLEAN
  /\ load \in [ops : SUBSET STRING, asks : Nat, sets : Nat, calm : BOOLEAN,
               friends : SUBSET Pairs, who : SUBSET Account, clients : SUBSET Client,
               sockets : SUBSET Socket, pref : [Account -> {"online", "away", "invisible"}]]

LEMMA Kinds ==
  ASSUME NEW r \in Calls
  PROVE  /\ r.op = "accept" => r \in Acceptances /\ r.by # r.from
         /\ r.op = "acceptRequest" => r \in Answers /\ r.by # r.from
         /\ r.op = "block" => r \in Blocks /\ r.by # r.from
         /\ r.op = "request" => r \in Connects /\ r.from # r.to
         /\ r.step \in {"found", "announce"} => r.op \in {"accept", "acceptRequest"}
BY DEF Calls, Acceptances, Answers, Connects, Blocks, Idle

(* A request that goes on stays what it is. *)
LEMMA Kept ==
  ASSUME NEW r \in Calls, NEW step,
         \/ r.op = "accept" /\ step \in {"lock", "blocks", "existing", "form", "found", "announce"}
         \/ r.op = "acceptRequest" /\ step \in {"take", "blocks", "form", "found", "announce"}
         \/ r.op = "request" /\ step \in {"blocked", "friends", "existing", "insert"}
         \/ r.op = "block" /\ step \in {"store", "sever"}
  PROVE  LET n == [r EXCEPT !.step = step]
         IN  /\ n \in Calls /\ n.step = step /\ n.op = r.op /\ n.from = r.from
             /\ r.op # "request" => n.by = r.by
             /\ r.op = "request" => n.to = r.to
             /\ r.op = "accept" => n.invite = r.invite
<1>1. CASE r.op = "accept"
  <2>1. r \in Acceptances /\ r.by # r.from
    BY <1>1, Kinds
  <2> QED BY <1>1, <2>1 DEF Acceptances, Calls
<1>2. CASE r.op = "acceptRequest"
  <2>1. r \in Answers /\ r.by # r.from
    BY <1>2, Kinds
  <2> QED BY <1>2, <2>1 DEF Answers, Calls
<1>3. CASE r.op = "request"
  <2>1. r \in Connects /\ r.from # r.to
    BY <1>3, Kinds
  <2> QED BY <1>3, <2>1 DEF Connects, Calls
<1>4. CASE r.op = "block"
  <2>1. r \in Blocks /\ r.by # r.from
    BY <1>4, Kinds
  <2> QED BY <1>4, <2>1 DEF Blocks, Calls
<1> QED
  BY <1>1, <1>2, <1>3, <1>4

(* What a step of a request does to the others: nothing. *)
LEMMA GoesOn ==
  ASSUME call \in [Slot -> Calls], NEW i \in Slot, NEW step, Go(i, step),
         \/ call[i].op = "accept" /\ step \in {"lock", "blocks", "existing", "form", "found", "announce"}
         \/ call[i].op = "acceptRequest" /\ step \in {"take", "blocks", "form", "found", "announce"}
         \/ call[i].op = "request" /\ step \in {"blocked", "friends", "existing", "insert"}
         \/ call[i].op = "block" /\ step \in {"store", "sever"}
  PROVE  /\ call' \in [Slot -> Calls]
         /\ \A j \in Slot \ {i} : call'[j] = call[j]
         /\ call'[i].step = step /\ call'[i].op = call[i].op /\ call'[i].from = call[i].from
         /\ call[i].op # "request" => call'[i].by = call[i].by
         /\ call[i].op = "request" => call'[i].to = call[i].to
         /\ call[i].op = "accept" => call'[i].invite = call[i].invite
<1>1. call' = [call EXCEPT ![i] = [call[i] EXCEPT !.step = step]]
  BY DEF Go
<1>2. call'[i] = [call[i] EXCEPT !.step = step]
  BY <1>1
<1>3. [call[i] EXCEPT !.step = step] \in Calls
  BY Kept
<1>4. call' \in [Slot -> Calls] /\ \A j \in Slot \ {i} : call'[j] = call[j]
  BY <1>1, <1>3
<1> QED
  BY <1>2, <1>4, Kept

LEMMA Ends ==
  ASSUME call \in [Slot -> Calls], NEW i \in Slot, End(i)
  PROVE  /\ call' \in [Slot -> Calls]
         /\ \A j \in Slot \ {i} : call'[j] = call[j]
         /\ call'[i] = Idle
BY DEF End, Calls

(* What a new request does. *)
Asked(i) ==
  /\ call[i] = Idle /\ call' \in [Slot -> Calls]
  /\ \A j \in Slot \ {i} : call'[j] = call[j]
  /\ call'[i].op \in {"accept", "acceptRequest", "request", "block"}
  /\ call'[i].step \in {"lock", "take", "blocked", "store"}
  /\ load.asks > 0 /\ load' = [load EXCEPT !.asks = @ - 1]
  /\ UNCHANGED <<rows, notes>>

LEMMA Asking ==
  ASSUME Shape, NEW i \in Slot, Asks(i)
  PROVE  Asked(i)
<1> USE DEF Begin, Asked
<1>0. /\ call \in [Slot -> Calls] /\ load.who \subseteq Account
      /\ requests \subseteq {r \in Account \X Account : r[1] # r[2]}
  BY DEF Shape
<1>1. ASSUME NEW r \in Calls, Begin(i, r), UNCHANGED <<rows, notes>>,
             r.op \in {"accept", "acceptRequest", "request", "block"},
             r.step \in {"lock", "take", "blocked", "store"}
      PROVE  Asked(i)
  BY <1>0, <1>1
<1>2. ASSUME NEW a \in load.who, NEW v \in Invite, AskAccept(i, a, v) PROVE Asked(i)
  <2>1. Inviter[v] \in Account
    BY FriendsAssumption DEF FriendsAssumption
  <2>2. [op |-> "accept", step |-> "lock", invite |-> v, by |-> a, from |-> Inviter[v]] \in Calls
    BY <1>0, <1>2, <2>1 DEF AskAccept, Calls, Acceptances
  <2> QED BY <1>1, <1>2, <2>2 DEF AskAccept
<1>3. ASSUME NEW a \in load.who, NEW b \in load.who, AskRequest(i, a, b) PROVE Asked(i)
  <2>1. a # b
    BY <1>0, <1>3, Two, FriendsAssumption DEF AskRequest, FriendsAssumption
  <2>2. [op |-> "request", step |-> "blocked", from |-> a, to |-> b] \in Calls
    BY <1>0, <2>1 DEF Calls, Connects
  <2> QED BY <1>1, <1>3, <2>2 DEF AskRequest
<1>4. ASSUME NEW a \in load.who, NEW b \in load.who, AskBlock(i, a, b) PROVE Asked(i)
  <2>1. [op |-> "block", step |-> "store", by |-> a, from |-> b] \in Calls
    BY <1>0, <1>4 DEF AskBlock, Calls, Blocks
  <2> QED BY <1>1, <1>4, <2>1 DEF AskBlock
<1>5. ASSUME NEW r \in requests, AskAcceptRequest(i, r) PROVE Asked(i)
  <2>1. [op |-> "acceptRequest", step |-> "take", from |-> r[1], by |-> r[2]] \in Calls
    BY <1>0 DEF Calls, Answers
  <2> QED BY <1>1, <1>5, <2>1 DEF AskAcceptRequest
<1> QED
  BY <1>2, <1>3, <1>4, <1>5 DEF Asks

(* What a step is to the rows, whatever it is to presence. *)
LEMMA Cases ==
  ASSUME Shape, [Next]_vars
  PROVE  \/ UNCHANGED <<rows, notes, call>> /\ (load' = load \/ (load' = [load EXCEPT !.sets = @ - 1] /\ load.sets > 0))
         \/ \E i \in Slot : Asked(i)
         \/ \E i \in Slot : Serve(i)
         \/ \E i \in Slot : /\ call[i].step = "announce" /\ End(i)
                           /\ UNCHANGED <<rows, notes, load>>
         \/ \E v \in Invite : CreateInvite(v) \/ RevokeInvite(v)
         \/ \E r \in requests : Drop(r)
         \/ \E p \in friends : RemoveFriend(p)
         \/ \E k \in blocks : Unblock(k)
         \/ Crash
<1>1. CASE FriendsNext
  BY <1>1, Asking DEF FriendsNext
<1>2. CASE \E i \in Slot : Announce(i)
  BY <1>2 DEF Announce
<1>3. CASE \E s \in Socket : Work(s) \/ Close(s) \/ CloseEarly(s) \/ \E c \in Client : Connect(s, c)
  <2> PICK s \in Socket : Work(s) \/ Close(s) \/ CloseEarly(s) \/ \E c \in Client : Connect(s, c)
    BY <1>3
  <2>1. CASE Work(s)
    BY <2>1 DEF Work, Join, ReadPref, ReadFriends, Snapshot
  <2>2. CASE Close(s) \/ CloseEarly(s)
    BY <2>2 DEF Close, CloseEarly
  <2>3. CASE \E c \in Client : Connect(s, c)
    BY <2>3 DEF Connect
  <2> QED BY <2>1, <2>2, <2>3
<1>4. CASE \E c \in Client, status \in Statuses : SetSelf(c, status)
  BY <1>4 DEF SetSelf
<1>5. CASE Broadcasts
  BY <1>5 DEF Broadcasts, ReadTargets, Send
<1>6. CASE UNCHANGED vars
  BY <1>6
<1> QED
  BY <1>1, <1>2, <1>3, <1>4, <1>5, <1>6 DEF Next

LEMMA ShapeInit == Init => Shape
<1> SUFFICES ASSUME Init PROVE Shape
  OBVIOUS
<1>1. load \in [ops : SUBSET STRING, asks : Nat, sets : Nat, calm : BOOLEAN,
               friends : SUBSET Pairs, who : SUBSET Account, clients : SUBSET Client,
               sockets : SUBSET Socket, pref : [Account -> {"online", "away", "invisible"}]]
  BY PresenceAssumption DEF PresenceAssumption, Init, FriendsInit
<1>2. call \in [Slot -> Calls]
  BY DEF Init, FriendsInit, Calls
<1>3. friends \subseteq Pairs
  BY <1>1 DEF Init, FriendsInit
<1> QED
  BY <1>1, <1>2, <1>3 DEF Init, FriendsInit, Shape

(* Every request, one step at a time. *)
LEMMA ServeShape ==
  ASSUME Shape, NEW i \in Slot, Serve(i)
  PROVE  Shape'
<1>0. /\ call \in [Slot -> Calls]
      /\ invite \in [Invite -> [status : {"none", "open", "closed"}, uses : Nat]]
      /\ friends \subseteq Pairs /\ groups \in [Pairs -> Nat]
      /\ formed \in [Pairs -> Nat] /\ redone \in [Pairs -> Nat] /\ accepted \in [Invite -> Nat]
  BY DEF Shape
<1>1. CASE Lock(i)
  <2>1. call' \in [Slot -> Calls]
    BY <1>0, <1>1, GoesOn, Ends DEF Lock, Is
  <2> QED BY <1>1, <2>1 DEF Lock, Shape
<1>2. CASE CheckBlocks(i)
  <2>1. call' \in [Slot -> Calls]
    BY <1>0, <1>2, GoesOn, Ends DEF CheckBlocks
  <2> QED BY <1>2, <2>1 DEF CheckBlocks, Shape
<1>3. CASE CheckFriends(i)
  <2>1. call' \in [Slot -> Calls]
    BY <1>0, <1>3, GoesOn, Ends DEF CheckFriends, Is
  <2> QED BY <1>3, <2>1 DEF CheckFriends, Shape
<1>4. CASE Form(i)
  <2>1. call' \in [Slot -> Calls]
    BY <1>0, <1>4, GoesOn, Ends DEF Form, Is, Befriended, CallsHook
  <2>2. call[i] \in Acceptances /\ call[i].by # call[i].from
    BY <1>0, <1>4, Kinds DEF Form, Is
  <2>3. {call[i].by, call[i].from} \in Pairs /\ call[i].invite \in Invite
    BY <2>2, Two DEF Acceptances
  <2> DEFINE p == {call[i].by, call[i].from}
             v == call[i].invite
  <2>4. CASE p \in friends
    BY <1>4, <2>1, <2>4 DEF Form, Shape
  <2>5. CASE p \notin friends
    <3>1. /\ friends' = friends \cup {p} /\ formed' = [formed EXCEPT ![p] = @ + 1]
          /\ accepted' = [accepted EXCEPT ![v] = @ + 1]
          /\ invite' = [invite EXCEPT ![v].uses = @ + 1]
          /\ UNCHANGED <<blocks, requests, groups, redone, crossing, crashed, load>>
      BY <1>4, <2>5 DEF Form
    <3>2. p \in Pairs /\ v \in Invite
      BY <2>3
    <3> HIDE DEF p, v
    <3>3. friends' \subseteq Pairs /\ formed' \in [Pairs -> Nat] /\ accepted' \in [Invite -> Nat]
      BY <1>0, <3>1, <3>2
    <3>4. invite' \in [Invite -> [status : {"none", "open", "closed"}, uses : Nat]]
      BY <1>0, <3>1, <3>2
    <3> QED BY <2>1, <3>1, <3>3, <3>4 DEF Shape
  <2> QED BY <2>4, <2>5
<1>5. CASE Found(i)
  <2>1. call[i].op \in {"accept", "acceptRequest"}
    BY <1>0, <1>5, Kinds DEF Found
  <2>2. call' \in [Slot -> Calls]
    BY <1>0, <1>5, <2>1, GoesOn DEF Found
  <2>3. {call[i].by, call[i].from} \in Pairs
    BY <1>0, <2>1, Kinds, Two DEF Acceptances, Answers
  <2>4. groups' \in [Pairs -> Nat]
    BY <1>0, <1>5, <2>3 DEF Found
  <2> QED BY <1>5, <2>2, <2>4 DEF Found, Shape
<1>6. CASE Gates(i)
  <2>1. call' \in [Slot -> Calls] /\ UNCHANGED <<rows, notes, load>>
    BY <1>0, <1>6, GoesOn, Ends DEF Gates, Gate, Is
  <2> QED BY <2>1 DEF Shape
<1>7. CASE Request(i)
  <2>1. call' \in [Slot -> Calls]
    BY <1>0, <1>7, Ends DEF Request
  <2>2. call[i] \in Connects /\ call[i].from # call[i].to
    BY <1>0, <1>7, Kinds DEF Request, Is
  <2>3. requests' \subseteq {r \in Account \X Account : r[1] # r[2]}
    BY <1>7, <2>2 DEF Request, Shape, Connects
  <2> QED BY <1>7, <2>1, <2>3 DEF Request, Shape
<1>8. CASE Take(i)
  <2>1. call' \in [Slot -> Calls]
    BY <1>0, <1>8, GoesOn, Ends DEF Take, Is
  <2> QED BY <1>8, <2>1 DEF Take, Shape
<1>9. CASE FormByRequest(i)
  <2>1. call' \in [Slot -> Calls]
    BY <1>0, <1>9, GoesOn, Ends DEF FormByRequest, Is, Befriended, CallsHook
  <2>2. {call[i].by, call[i].from} \in Pairs
    BY <1>0, <1>9, Kinds, Two DEF FormByRequest, Is, Answers
  <2> DEFINE p == {call[i].by, call[i].from}
  <2>a. /\ friends' = friends \cup {p}
        /\ formed' = [formed EXCEPT ![p] = IF p \in friends THEN formed[p] ELSE formed[p] + 1]
        /\ redone' = [redone EXCEPT ![p] = IF p \in friends THEN redone[p] + 1 ELSE redone[p]]
    BY <1>9 DEF FormByRequest
  <2>b. p \in Pairs
    BY <2>2
  <2> HIDE DEF p
  <2>3. friends' \subseteq Pairs /\ formed' \in [Pairs -> Nat] /\ redone' \in [Pairs -> Nat]
    BY <1>0, <2>a, <2>b
  <2> QED BY <1>9, <2>1, <2>3 DEF FormByRequest, Shape
<1>10. CASE Store(i)
  <2>1. call' \in [Slot -> Calls]
    BY <1>0, <1>10, GoesOn DEF Store, Is
  <2>2. call[i].by \in Account /\ call[i].from \in Account
    BY <1>0, <1>10, Kinds DEF Store, Is, Blocks
  <2> QED BY <1>10, <2>1, <2>2 DEF Store, Shape
<1>11. CASE Sever(i)
  <2>1. call' \in [Slot -> Calls]
    BY <1>0, <1>11, Ends DEF Sever
  <2> QED BY <1>11, <2>1 DEF Sever, Without, Shape
<1> QED
  BY <1>1, <1>2, <1>3, <1>4, <1>5, <1>6, <1>7, <1>8, <1>9, <1>10, <1>11 DEF Serve

LEMMA ShapeStep == Shape /\ [Next]_vars => Shape'
<1> SUFFICES ASSUME Shape, [Next]_vars PROVE Shape'
  OBVIOUS
<1>1. CASE UNCHANGED <<rows, notes, call>> /\ (load' = load \/ (load' = [load EXCEPT !.sets = @ - 1] /\ load.sets > 0))
  BY <1>1 DEF Shape
<1>2. CASE \E i \in Slot : Asked(i)
  BY <1>2 DEF Shape, Asked
<1>3. CASE \E i \in Slot : /\ call[i].step = "announce" /\ End(i)
                        /\ UNCHANGED <<rows, notes, load>>
  BY <1>3, Ends DEF Shape
<1>4. CASE \E v \in Invite : CreateInvite(v) \/ RevokeInvite(v)
  BY <1>4 DEF Shape, CreateInvite, RevokeInvite
<1>5. CASE \/ \E r \in requests : Drop(r)
           \/ \E p \in friends : RemoveFriend(p)
           \/ \E k \in blocks : Unblock(k)
  BY <1>5 DEF Shape, Drop, RemoveFriend, Unblock
<1>6. CASE Crash
  <2>1. call' \in [Slot -> Calls]
    BY <1>6 DEF Crash, Calls
  <2> QED BY <1>6, <2>1 DEF Shape, Crash
<1> QED
  BY <1>1, <1>2, <1>3, <1>4, <1>5, <1>6, ServeShape, Cases

-----------------------------------------------------------------------------
(* Invites.  Whoever is past the lock of an invite is there alone, and the   *)
(* invite is usable until it has ended.                                       *)

Holding(r) == r.op = "accept" /\ r.step \in {"blocks", "existing", "form"}

MayForm(i) == Holding(call[i]) => Usable(call[i].invite)

Apart(i, j) ==
  (Holding(call[i]) /\ Holding(call[j]) /\ call[i].invite = call[j].invite) => i = j

UseInv ==
  /\ InviteUses
  /\ \A i \in Slot : MayForm(i)
  /\ \A i, j \in Slot : Apart(i, j)

LEMMA UseInit == Init => UseInv
<1> SUFFICES ASSUME Init PROVE UseInv
  OBVIOUS
<1>1. InviteUses
  BY FriendsAssumption DEF Init, FriendsInit, FriendsAssumption, InviteUses
<1>2. \A i \in Slot : ~Holding(call[i])
  BY DEF Init, FriendsInit, Idle, Holding
<1> QED
  BY <1>1, <1>2 DEF UseInv, MayForm, Apart

LEMMA UseStep == Shape /\ UseInv /\ [Next]_vars => UseInv'
<1> SUFFICES ASSUME Shape, UseInv, [Next]_vars PROVE UseInv'
  OBVIOUS
<1>0. /\ call \in [Slot -> Calls]
      /\ invite \in [Invite -> [status : {"none", "open", "closed"}, uses : Nat]]
      /\ accepted \in [Invite -> Nat]
      /\ \A i \in Slot : Holding(call[i]) => call[i].invite \in Invite
  BY Kinds DEF Shape, Holding, Acceptances
<1>1. CASE UNCHANGED <<invite, call, accepted>>
  BY <1>1 DEF UseInv, InviteUses, MayForm, Apart, Usable
<1>2. ASSUME NEW i \in Slot, UNCHANGED <<invite, accepted>>,
             \A j \in Slot \ {i} : call'[j] = call[j],
             Holding(call'[i]) =>
               \/ Holding(call[i]) /\ call'[i].invite = call[i].invite
               \/ Usable(call'[i].invite) /\ call'[i].invite \notin InvitesHeld
      PROVE  UseInv'
  <2>1. InviteUses'
    BY <1>2 DEF UseInv, InviteUses
  <2>2. \A j \in Slot : MayForm(j)'
    BY <1>2 DEF UseInv, MayForm, Usable
  <2>3. \A j \in Slot \ {i} : Holding(call[j]) => call[j].invite \in InvitesHeld
    BY DEF InvitesHeld, Holding
  <2>4. \A j \in Slot \ {i} : Holding(call'[j]) /\ Holding(call'[i]) => call'[j].invite # call'[i].invite
    BY <1>2, <2>3 DEF UseInv, Apart
  <2>5. \A j, k \in Slot : Apart(j, k)'
    <3> SUFFICES ASSUME NEW j \in Slot, NEW k \in Slot PROVE Apart(j, k)'
      OBVIOUS
    <3>1. CASE j = i \/ k = i
      BY <2>4, <3>1 DEF Apart
    <3>2. CASE j # i /\ k # i
      <4>1. Apart(j, k)
        BY DEF UseInv
      <4> QED BY <1>2, <3>2, <4>1 DEF Apart
    <3> QED BY <3>1, <3>2
  <2> QED BY <2>1, <2>2, <2>5 DEF UseInv
<1>3. CASE \E i \in Slot : Asked(i)
  BY <1>2, <1>3 DEF Asked, Holding
<1>4. ASSUME NEW i \in Slot, Serve(i) PROVE UseInv'
  <2>1. ASSUME End(i), UNCHANGED <<invite, accepted>> PROVE UseInv'
    BY <1>0, <1>2, <2>1, Ends DEF Holding, Idle
  <2>2. CASE Lock(i)
    <3>1. CASE End(i)
      BY <2>1, <2>2, <3>1 DEF Lock
    <3>2. CASE ~End(i)
      <4>1. /\ \A j \in Slot \ {i} : call'[j] = call[j]
            /\ call'[i].invite = call[i].invite /\ UNCHANGED <<invite, accepted>>
            /\ Usable(call[i].invite) /\ call[i].invite \notin InvitesHeld
        BY <1>0, <2>2, <3>2, GoesOn DEF Lock, Is, HeldBack, WaitsFor
      <4> QED BY <1>2, <4>1
    <3> QED BY <3>1, <3>2
  <2>3. CASE CheckBlocks(i) \/ CheckFriends(i)
    <3>1. CASE End(i)
      BY <2>1, <2>3, <3>1 DEF CheckBlocks, CheckFriends
    <3>2. CASE ~End(i)
      <4>1. /\ \A j \in Slot \ {i} : call'[j] = call[j]
            /\ UNCHANGED <<invite, accepted>>
            /\ call'[i].op = call[i].op
            /\ call[i].op = "accept" => call'[i].invite = call[i].invite
            /\ call[i].step \in {"blocks", "existing"}
        BY <1>0, <2>3, <3>2, GoesOn DEF CheckBlocks, CheckFriends, Is
      <4>2. Holding(call'[i]) => Holding(call[i]) /\ call'[i].invite = call[i].invite
        BY <4>1 DEF Holding
      <4>3. \A j \in Slot \ {i} : call'[j] = call[j]
        BY <4>1
      <4>4. UNCHANGED <<invite, accepted>>
        BY <4>1
      <4>5. CASE Holding(call'[i])
        BY <1>2, <4>2, <4>3, <4>4, <4>5
      <4>6. CASE ~Holding(call'[i])
        BY <1>2, <4>3, <4>4, <4>6
      <4> QED BY <4>5, <4>6
    <3> QED BY <3>1, <3>2
  <2>4. CASE Form(i)
    <3> DEFINE v == call[i].invite
    <3>1. CASE {call[i].by, call[i].from} \in friends
      BY <2>1, <2>4, <3>1 DEF Form
    <3>2. CASE {call[i].by, call[i].from} \notin friends
      <4>1. /\ invite' = [invite EXCEPT ![v].uses = @ + 1] /\ accepted' = [accepted EXCEPT ![v] = @ + 1]
            /\ \A j \in Slot \ {i} : call'[j] = call[j]
            /\ ~Holding(call'[i])
        BY <1>0, <2>4, <3>2, GoesOn DEF Form, Is, Befriended, CallsHook, Holding
      <4>2. Holding(call[i]) /\ v \in Invite /\ Usable(v)
        BY <1>0, <2>4 DEF Form, Is, Holding, UseInv, MayForm
      <4>3. InviteUses'
        <5>1. invite[v].uses + 1 <= MaxUses[v]
          BY <1>0, <4>2, FriendsAssumption DEF Usable, FriendsAssumption
        <5> QED BY <1>0, <4>1, <4>2, <5>1 DEF UseInv, InviteUses
      <4>4. \A j \in Slot : Holding(call'[j]) => j # i /\ call'[j] = call[j] /\ call[j].invite # v
        BY <4>1, <4>2 DEF UseInv, Apart
      <4>5. \A j \in Slot : MayForm(j)'
        BY <1>0, <4>1, <4>2, <4>4 DEF MayForm, Usable, UseInv
      <4>6. \A j, k \in Slot : Apart(j, k)'
        BY <4>4 DEF UseInv, Apart
      <4> QED BY <4>3, <4>5, <4>6 DEF UseInv
    <3> QED BY <3>1, <3>2
  <2>5. CASE Found(i)
    <3>1. call[i].op \in {"accept", "acceptRequest"}
      BY <1>0, <2>5, Kinds DEF Found
    <3> QED BY <1>0, <1>2, <2>5, <3>1, GoesOn DEF Found, Holding
  <2>6. CASE Gates(i)
    <3>1. /\ \A j \in Slot \ {i} : call'[j] = call[j]
          /\ call'[i].op # "accept" /\ UNCHANGED <<invite, accepted>>
      BY <1>0, <2>6, GoesOn, Ends DEF Gates, Gate, Is, Idle
    <3> QED BY <1>2, <3>1 DEF Holding
  <2>7. CASE Request(i) \/ Sever(i)
    BY <2>1, <2>7 DEF Request, Sever
  <2>8. CASE Take(i) \/ Store(i)
    <3>1. /\ \A j \in Slot \ {i} : call'[j] = call[j]
          /\ call'[i].op # "accept" /\ UNCHANGED <<invite, accepted>>
      BY <1>0, <2>8, GoesOn, Ends DEF Take, Store, Is, Idle
    <3> QED BY <1>2, <3>1 DEF Holding
  <2>9. CASE FormByRequest(i)
    <3>1. /\ \A j \in Slot \ {i} : call'[j] = call[j]
          /\ call'[i].op # "accept" /\ UNCHANGED <<invite, accepted>>
      BY <1>0, <2>9, GoesOn, Ends DEF FormByRequest, Befriended, CallsHook, Is, Idle
    <3> QED BY <1>2, <3>1 DEF Holding
  <2> QED BY <1>4, <2>2, <2>3, <2>4, <2>5, <2>6, <2>7, <2>8, <2>9 DEF Serve
<1>5. CASE \E i \in Slot : /\ call[i].step = "announce" /\ End(i)
                        /\ UNCHANGED <<rows, notes, load>>
  BY <1>0, <1>2, <1>5, Ends DEF Holding, Idle
<1>6. ASSUME NEW v \in Invite, CreateInvite(v) \/ RevokeInvite(v) PROVE UseInv'
  <2>1. \A i \in Slot : Holding(call[i]) => call[i].invite \in InvitesHeld
    BY DEF InvitesHeld, Holding
  <2>2. \A i \in Slot : Holding(call[i]) => call[i].invite # v
    BY <1>6, <2>1 DEF CreateInvite, RevokeInvite, UseInv, MayForm, Usable
  <2>3. /\ UNCHANGED <<call, accepted>>
        /\ \A x \in Invite : invite'[x].uses = invite[x].uses /\ (x # v => invite'[x] = invite[x])
    BY <1>0, <1>6 DEF CreateInvite, RevokeInvite
  <2>4. InviteUses'
    BY <2>3 DEF UseInv, InviteUses
  <2>5. \A i \in Slot : MayForm(i)'
    BY <1>0, <2>2, <2>3 DEF UseInv, MayForm, Usable
  <2> QED BY <2>3, <2>4, <2>5 DEF UseInv, Apart
<1>7. CASE \/ \E r \in requests : Drop(r)
           \/ \E p \in friends : RemoveFriend(p)
           \/ \E k \in blocks : Unblock(k)
  BY <1>1, <1>7 DEF Drop, RemoveFriend, Unblock
<1>8. CASE Crash
  <2>1. \A i \in Slot : ~Holding(call'[i])
    BY <1>8 DEF Crash, Holding, Idle
  <2>2. InviteUses'
    BY <1>8 DEF Crash, UseInv, InviteUses
  <2> QED BY <2>1, <2>2 DEF UseInv, MayForm, Apart
<1> QED
  BY <1>1, <1>3, <1>4, <1>5, <1>6, <1>7, <1>8, Cases
-----------------------------------------------------------------------------
(* Blocks.  What a block has not severed is being severed, or is late. *)

Severed(b) ==
  \/ {b[1], b[2]} \notin friends \/ {b[1], b[2]} \in late
  \/ \E i \in Slot : Is(i, "block", "sever") /\ {call[i].by, call[i].from} = {b[1], b[2]}

BlockInv == \A b \in blocks : Severed(b)

LEMMA BlockInit == Init => BlockInv
BY DEF Init, FriendsInit, BlockInv

(* A step that befriends nobody, keeps the severing and what is late. *)
LEMMA SeversOn ==
  ASSUME BlockInv, blocks' \subseteq blocks, friends' \subseteq friends, late \subseteq late',
         \A i \in Slot : Is(i, "block", "sever") => call'[i] = call[i]
  PROVE  BlockInv'
<1> SUFFICES ASSUME NEW b \in blocks' PROVE Severed(b)'
  BY DEF BlockInv
<1>1. Severed(b)
  BY DEF BlockInv
<1>2. CASE {b[1], b[2]} \notin friends \/ {b[1], b[2]} \in late
  BY <1>2 DEF Severed
<1>3. CASE \E i \in Slot : Is(i, "block", "sever") /\ {call[i].by, call[i].from} = {b[1], b[2]}
  BY <1>3 DEF Severed, Is
<1> QED
  BY <1>1, <1>2, <1>3 DEF Severed

(* A pair is befriended, and noted. *)
LEMMA NotesBlock ==
  ASSUME Shape, BlockInv, NEW i \in Slot, call[i].op # "block", Note(call[i].by, call[i].from),
         friends' = friends \cup {{call[i].by, call[i].from}}, blocks' = blocks,
         \A j \in Slot \ {i} : call'[j] = call[j]
  PROVE  BlockInv'
<1> SUFFICES ASSUME NEW b \in blocks PROVE Severed(b)'
  BY DEF BlockInv
<1>1. b \in Account \X Account
  BY DEF Shape
<1>2. CASE {b[1], b[2]} = {call[i].by, call[i].from}
  <2>1. Blocked(call[i].by, call[i].from)
    BY <1>1, <1>2 DEF Blocked
  <2> QED BY <1>2, <2>1 DEF Note, Severed
<1>3. CASE {b[1], b[2]} # {call[i].by, call[i].from}
  <2>1. Severed(b)
    BY DEF BlockInv
  <2>2. late \subseteq late'
    BY DEF Note
  <2>3. CASE {b[1], b[2]} \notin friends \/ {b[1], b[2]} \in late
    BY <1>3, <2>2, <2>3 DEF Severed
  <2>4. CASE \E j \in Slot : Is(j, "block", "sever") /\ {call[j].by, call[j].from} = {b[1], b[2]}
    BY <2>4 DEF Severed, Is
  <2> QED BY <2>1, <2>3, <2>4 DEF Severed
<1> QED
  BY <1>2, <1>3

(* A pair is severed. *)
LEMMA SeversPair ==
  ASSUME BlockInv, NEW p, friends' = friends \ {p}, late' = late \ {p}, blocks' = blocks,
         \A j \in Slot : (Is(j, "block", "sever") /\ {call[j].by, call[j].from} # p)
                           => call'[j] = call[j]
  PROVE  BlockInv'
<1> SUFFICES ASSUME NEW b \in blocks PROVE Severed(b)'
  BY DEF BlockInv
<1>1. Severed(b)
  BY DEF BlockInv
<1>2. CASE {b[1], b[2]} = p \/ {b[1], b[2]} \notin friends
  BY <1>2 DEF Severed
<1>3. CASE {b[1], b[2]} # p /\ {b[1], b[2]} \in late
  BY <1>3 DEF Severed
<1>4. ASSUME {b[1], b[2]} # p, NEW i \in Slot, Is(i, "block", "sever"),
             {call[i].by, call[i].from} = {b[1], b[2]}
      PROVE  Severed(b)'
  BY <1>4 DEF Severed, Is
<1> QED
  BY <1>1, <1>2, <1>3, <1>4 DEF Severed

LEMMA BlockStep == Shape /\ BlockInv /\ [Next]_vars => BlockInv'
<1> SUFFICES ASSUME Shape, BlockInv, [Next]_vars PROVE BlockInv'
  OBVIOUS
<1>0. call \in [Slot -> Calls]
  BY DEF Shape
<1>1. CASE UNCHANGED <<rows, notes, call>>
  BY <1>1, SeversOn
<1>2. CASE \E i \in Slot : Asked(i)
  <2> PICK i \in Slot : Asked(i)
    BY <1>2
  <2>1. \A j \in Slot : Is(j, "block", "sever") => call'[j] = call[j]
    BY DEF Asked, Is, Idle
  <2> QED BY <2>1, SeversOn DEF Asked
<1>3. ASSUME NEW i \in Slot, Serve(i) PROVE BlockInv'
  <2>1. ASSUME call[i].op # "block", \A j \in Slot \ {i} : call'[j] = call[j],
               UNCHANGED <<blocks, friends, late>>
        PROVE  BlockInv'
    <3>1. \A j \in Slot : Is(j, "block", "sever") => call'[j] = call[j]
      BY <2>1 DEF Is
    <3> QED BY <2>1, <3>1, SeversOn
  <2>2. CASE Lock(i) \/ CheckBlocks(i) \/ CheckFriends(i) \/ Take(i)
    BY <1>0, <2>1, <2>2, GoesOn, Ends DEF Lock, CheckBlocks, CheckFriends, Take, Is
  <2>3. CASE Form(i)
    <3>1. call[i].op # "block" /\ blocks' = blocks
      BY <2>3 DEF Form, Is
    <3>2. \A j \in Slot \ {i} : call'[j] = call[j]
      BY <1>0, <2>3, GoesOn, Ends DEF Form, Is, Befriended, CallsHook
    <3>3. CASE {call[i].by, call[i].from} \in friends
      BY <2>1, <2>3, <3>1, <3>2, <3>3 DEF Form
    <3>4. CASE {call[i].by, call[i].from} \notin friends
      <4>1. Note(call[i].by, call[i].from) /\ friends' = friends \cup {{call[i].by, call[i].from}}
        BY <2>3, <3>4 DEF Form
      <4> QED BY <3>1, <3>2, <4>1, NotesBlock
    <3> QED BY <3>3, <3>4
  <2>4. CASE Found(i)
    <3>1. call[i].op \in {"accept", "acceptRequest"}
      BY <1>0, <2>4, Kinds DEF Found
    <3> QED BY <1>0, <2>1, <2>4, <3>1, GoesOn DEF Found
  <2>5. CASE Gates(i) \/ Request(i)
    BY <1>0, <2>1, <2>5, GoesOn, Ends DEF Gates, Gate, Request, Is
  <2>6. CASE FormByRequest(i)
    <3>1. call[i].op # "block" /\ blocks' = blocks
      BY <2>6 DEF FormByRequest, Is
    <3>2. \A j \in Slot \ {i} : call'[j] = call[j]
      BY <1>0, <2>6, GoesOn, Ends DEF FormByRequest, Is, Befriended, CallsHook
    <3>3. Note(call[i].by, call[i].from) /\ friends' = friends \cup {{call[i].by, call[i].from}}
      BY <2>6 DEF FormByRequest
    <3> QED BY <3>1, <3>2, <3>3, NotesBlock
  <2>7. CASE Store(i)
    <3>1. /\ blocks' = blocks \cup {<<call[i].by, call[i].from>>}
          /\ UNCHANGED <<friends, late>>
          /\ Is(i, "block", "store")
      BY <2>7 DEF Store
    <3>2. /\ \A j \in Slot \ {i} : call'[j] = call[j]
          /\ call'[i].op = "block" /\ call'[i].step = "sever"
          /\ call'[i].by = call[i].by /\ call'[i].from = call[i].from
      BY <1>0, <2>7, <3>1, GoesOn DEF Store, Is
    <3>3. ASSUME NEW b, b = <<call[i].by, call[i].from>> PROVE Severed(b)'
      BY <3>2, <3>3 DEF Severed, Is
    <3>4. ASSUME NEW b \in blocks PROVE Severed(b)'
      <4>1. Severed(b)
        BY DEF BlockInv
      <4>2. \A j \in Slot : Is(j, "block", "sever") => call'[j] = call[j]
        BY <3>1, <3>2 DEF Is
      <4> QED BY <3>1, <4>1, <4>2 DEF Severed, Is
    <3> QED BY <3>1, <3>3, <3>4 DEF BlockInv
  <2>8. CASE Sever(i)
    <3>0. PICK p : p = {call[i].by, call[i].from}
      OBVIOUS
    <3>1. friends' = friends \ {p} /\ late' = late \ {p} /\ blocks' = blocks
      BY <2>8, <3>0 DEF Sever, Without
    <3>2. \A j \in Slot \ {i} : call'[j] = call[j]
      BY <1>0, <2>8, Ends DEF Sever
    <3>3. \A j \in Slot : (Is(j, "block", "sever") /\ {call[j].by, call[j].from} # p)
                         => call'[j] = call[j]
      BY <3>0, <3>2
    <3> QED BY <3>1, <3>3, SeversPair
  <2> QED BY <1>3, <2>2, <2>3, <2>4, <2>5, <2>6, <2>7, <2>8 DEF Serve
<1>4. CASE \E i \in Slot : /\ call[i].step = "announce" /\ End(i)
                        /\ UNCHANGED <<rows, notes, load>>
  <2> PICK i \in Slot : call[i].step = "announce" /\ End(i) /\ UNCHANGED <<rows, notes, load>>
    BY <1>4
  <2>1. \A j \in Slot : Is(j, "block", "sever") => call'[j] = call[j]
    BY <1>0, Ends DEF Is
  <2> QED BY <2>1, SeversOn
<1>5. CASE \/ \E v \in Invite : CreateInvite(v) \/ RevokeInvite(v)
           \/ \E r \in requests : Drop(r)
           \/ \E k \in blocks : Unblock(k)
  BY <1>5, SeversOn DEF CreateInvite, RevokeInvite, Drop, Unblock
<1>6. CASE \E p \in friends : RemoveFriend(p)
  BY <1>6, SeversPair DEF RemoveFriend
<1>7. CASE Crash
  <2> SUFFICES ASSUME NEW b \in blocks PROVE Severed(b)'
    BY <1>7 DEF Crash, BlockInv
  <2>1. Severed(b)
    BY DEF BlockInv
  <2> QED BY <1>7, <2>1 DEF Crash, Severed
<1> QED
  BY <1>1, <1>2, <1>3, <1>4, <1>5, <1>6, <1>7, Cases
-----------------------------------------------------------------------------
(* Requests.  Whoever is past the last gate found no request of the other,   *)
(* or the other has passed that gate meanwhile and the pair is noted.         *)

Crossed(i) ==
  (Is(i, "request", "insert") /\ <<call[i].to, call[i].from>> \in requests)
    => {call[i].from, call[i].to} \in crossing

PendingInv == OnePending /\ \A i \in Slot : Crossed(i)

LEMMA PendingInit == Init => PendingInv
BY DEF Init, FriendsInit, PendingInv, OnePending, Crossed, Is, Idle

(* A step that sends no request and brings none past the last gate. *)
LEMMA NonePasses ==
  ASSUME PendingInv, requests' \subseteq requests, crossing' = crossing,
         \A i \in Slot : call'[i].op = "request" /\ call'[i].step = "insert" => call'[i] = call[i]
  PROVE  PendingInv'
<1>1. OnePending'
  BY DEF PendingInv, OnePending
<1>2. ASSUME NEW i \in Slot PROVE Crossed(i)'
  <2>1. Crossed(i)
    BY DEF PendingInv
  <2> QED BY <2>1 DEF Crossed, Is
<1> QED
  BY <1>1, <1>2 DEF PendingInv

LEMMA PendingStep == Shape /\ PendingInv /\ [Next]_vars => PendingInv'
<1> SUFFICES ASSUME Shape, PendingInv, [Next]_vars PROVE PendingInv'
  OBVIOUS
<1>0. call \in [Slot -> Calls]
  BY DEF Shape
<1>1. CASE UNCHANGED <<rows, notes, call>>
  BY <1>1, NonePasses
<1>2. CASE \E i \in Slot : Asked(i)
  <2> PICK i \in Slot : Asked(i)
    BY <1>2
  <2>1. \A j \in Slot : call'[j].op = "request" /\ call'[j].step = "insert" => call'[j] = call[j]
    BY DEF Asked
  <2> QED BY <2>1, NonePasses DEF Asked
<1>3. ASSUME NEW i \in Slot, Serve(i) PROVE PendingInv'
  <2>1. ASSUME call'[i].op # "request" \/ call'[i].step # "insert",
               \A j \in Slot \ {i} : call'[j] = call[j],
               requests' \subseteq requests, crossing' = crossing
        PROVE  PendingInv'
    <3>1. \A j \in Slot : call'[j].op = "request" /\ call'[j].step = "insert" => call'[j] = call[j]
      BY <2>1
    <3> QED BY <2>1, <3>1, NonePasses
  <2>2. CASE Lock(i) \/ CheckBlocks(i) \/ CheckFriends(i) \/ Take(i)
    BY <1>0, <2>1, <2>2, GoesOn, Ends DEF Lock, CheckBlocks, CheckFriends, Take, Is, Idle
  <2>3. CASE Form(i)
    BY <1>0, <2>1, <2>3, GoesOn, Ends DEF Form, Is, Befriended, CallsHook, Idle
  <2>4. CASE Found(i)
    <3>1. call[i].op \in {"accept", "acceptRequest"}
      BY <1>0, <2>4, Kinds DEF Found
    <3> QED BY <1>0, <2>1, <2>4, <3>1, GoesOn DEF Found
  <2>5. CASE Gates(i)
    <3>1. CASE End(i)
      BY <1>0, <2>1, <2>5, <3>1, Ends DEF Gates, Gate, Idle
    <3>2. CASE Is(i, "request", "blocked") \/ Is(i, "request", "friends")
      BY <1>0, <2>1, <2>5, <3>1, <3>2, GoesOn DEF Gates, Gate, Is
    <3>3. CASE Is(i, "request", "existing") /\ ~End(i)
      <4>1. /\ ~Pending(call[i].from, call[i].to) /\ Go(i, "insert")
            /\ UNCHANGED <<requests, crossing>>
        BY <2>5, <3>3 DEF Gates, Gate, Is
      <4>2. /\ \A j \in Slot \ {i} : call'[j] = call[j]
            /\ call'[i].from = call[i].from /\ call'[i].to = call[i].to
        BY <1>0, <3>3, <4>1, GoesOn DEF Is
      <4>3. OnePending'
        BY <4>1 DEF PendingInv, OnePending
      <4>4. Crossed(i)'
        BY <4>1, <4>2 DEF Crossed, Pending
      <4>5. \A j \in Slot \ {i} : Crossed(j)'
        BY <4>1, <4>2 DEF PendingInv, Crossed, Is
      <4> QED BY <4>3, <4>4, <4>5 DEF PendingInv
    <3> QED BY <2>5, <3>1, <3>2, <3>3 DEF Gates
  <2>6. CASE Request(i)
    <3>0. PICK a, b : a = call[i].from /\ b = call[i].to
      OBVIOUS
    <3>1. /\ requests' = requests \cup {<<a, b>>} /\ Is(i, "request", "insert")
          /\ crossing \subseteq crossing'
          /\ (\E j \in Slot \ {i} : Is(j, "request", "insert") /\ call[j].from = b /\ call[j].to = a)
               => {a, b} \in crossing'
      BY <2>6, <3>0 DEF Request
    <3>2. /\ \A j \in Slot \ {i} : call'[j] = call[j]
          /\ call'[i] = Idle
      BY <1>0, <2>6, Ends DEF Request
    <3>3. <<b, a>> \in requests => {a, b} \in crossing
      BY <3>0, <3>1 DEF PendingInv, Crossed
    <3>4. a # b /\ \A r \in requests : r = <<r[1], r[2]>>
      BY <1>0, <3>0, <3>1, Kinds DEF Is, Shape
    <3>5. OnePending'
      <4> SUFFICES ASSUME NEW r \in requests', <<r[2], r[1]>> \in requests' PROVE {r[1], r[2]} \in crossing'
        BY DEF OnePending
      <4>1. CASE r \in requests /\ <<r[2], r[1]>> \in requests
        BY <3>1, <4>1 DEF PendingInv, OnePending
      <4>2. CASE r = <<a, b>>
        BY <3>1, <3>3, <3>4, <4>2
      <4>3. CASE <<r[2], r[1]>> = <<a, b>>
        <5>1. r = <<b, a>>
          BY <3>1, <3>4, <4>3
        <5> QED BY <3>1, <3>3, <3>4, <5>1
      <4> QED BY <3>1, <4>1, <4>2, <4>3
    <3>6. ASSUME NEW j \in Slot \ {i} PROVE Crossed(j)'
      <4>1. Crossed(j)
        BY DEF PendingInv
      <4>2. CASE <<call[j].to, call[j].from>> = <<a, b>>
        BY <3>1, <3>2, <4>2 DEF Crossed, Is
      <4>3. CASE <<call[j].to, call[j].from>> # <<a, b>>
        BY <3>1, <3>2, <4>1, <4>3 DEF Crossed, Is
      <4> QED BY <4>2, <4>3
    <3>7. Crossed(i)'
      BY <3>2 DEF Crossed, Is, Idle
    <3> QED BY <3>5, <3>6, <3>7 DEF PendingInv
  <2>7. CASE FormByRequest(i)
    BY <1>0, <2>1, <2>7, GoesOn, Ends DEF FormByRequest, Is, Befriended, CallsHook, Idle
  <2>8. CASE Store(i) \/ Sever(i)
    BY <1>0, <2>1, <2>8, GoesOn, Ends DEF Store, Sever, Is, Idle
  <2> QED BY <1>3, <2>2, <2>3, <2>4, <2>5, <2>6, <2>7, <2>8 DEF Serve
<1>4. CASE \E i \in Slot : /\ call[i].step = "announce" /\ End(i)
                        /\ UNCHANGED <<rows, notes, load>>
  <2> PICK i \in Slot : call[i].step = "announce" /\ End(i) /\ UNCHANGED <<rows, notes, load>>
    BY <1>4
  <2>1. \A j \in Slot : call'[j].op = "request" /\ call'[j].step = "insert" => call'[j] = call[j]
    BY <1>0, Ends DEF Idle
  <2> QED BY <2>1, NonePasses
<1>5. CASE \/ \E v \in Invite : CreateInvite(v) \/ RevokeInvite(v)
           \/ \E r \in requests : Drop(r)
           \/ \E p \in friends : RemoveFriend(p)
           \/ \E k \in blocks : Unblock(k)
  BY <1>5, NonePasses DEF CreateInvite, RevokeInvite, Drop, RemoveFriend, Unblock
<1>6. CASE Crash
  <2>1. \A j \in Slot : call'[j].op # "request"
    BY <1>6 DEF Crash, Idle
  <2> QED BY <1>6, <2>1, NonePasses DEF Crash
<1> QED
  BY <1>1, <1>2, <1>3, <1>4, <1>5, <1>6, Cases

-----------------------------------------------------------------------------
(* What keeps two accounts apart keeps them apart, what brings them together *)
(* is used once: the uses of an invite, blocks and pending requests of       *)
(* friends/service.ts, for every interleaving and with a restart.            *)
THEOREM FriendshipHolds == Spec => []FriendshipInvariant
<1> DEFINE I == Shape /\ UseInv /\ BlockInv /\ PendingInv
<1>1. Init => I
  BY ShapeInit, UseInit, BlockInit, PendingInit
<1>2. I /\ [Next]_vars => I'
  BY ShapeStep, UseStep, BlockStep, PendingStep
<1>3. I => FriendshipInvariant
  BY DEF FriendshipInvariant, UseInv, BlockInv, Severed, BlockSevers, PendingInv, Is
<1> HIDE DEF I
<1> QED
  BY <1>1, <1>2, <1>3, PTL DEF Spec
-----------------------------------------------------------------------------
(* Groups.  The group of a new friendship is there or about to be founded,   *)
(* until a restart.                                                           *)

Founding(p) == {i \in Slot : call[i].step = "found" /\ {call[i].by, call[i].from} = p}

Even(p) == groups[p] + Cardinality(Founding(p)) = formed[p] + redone[p]

GroupInv == ~crashed => \A p \in Pairs : Even(p)

LEMMA Counted ==
  ASSUME NEW p
  PROVE  IsFiniteSet(Founding(p)) /\ Cardinality(Founding(p)) \in Nat
<1>1. Founding(p) \subseteq Slot
  BY DEF Founding
<1> QED
  BY <1>1, FS_Subset, FS_CardinalityType, FriendsAssumption DEF FriendsAssumption

LEMMA GroupInit == Init => GroupInv
<1> SUFFICES ASSUME Init, NEW p \in Pairs PROVE Even(p)
  BY DEF GroupInv
<1>1. Founding(p) = {}
  BY DEF Init, FriendsInit, Founding, Idle
<1>2. groups[p] \in Nat /\ formed[p] = groups[p] /\ redone[p] = 0
  BY DEF Init, FriendsInit
<1> QED
  BY <1>1, <1>2, FS_EmptySet DEF Even

(* A step after which the same requests are about to found. *)
LEMMA SameFounding ==
  ASSUME GroupInv, crashed' = crashed, UNCHANGED <<groups, formed, redone>>,
         \A i \in Slot : \/ call'[i] = call[i]
                         \/ call'[i].step # "found" /\ call[i].step # "found"
  PROVE  GroupInv'
<1>1. ASSUME NEW p \in Pairs PROVE Founding(p)' = Founding(p)
  BY DEF Founding
<1> QED
  BY <1>1 DEF GroupInv, Even

(* A request that makes two accounts friends is about to found.             *)
LEMMA FoundsNext ==
  ASSUME Shape, GroupInv, crashed' = crashed, NEW i \in Slot, NEW q \in Pairs,
         call[i].step # "found", call'[i].step = "found", {call'[i].by, call'[i].from} = q,
         \A j \in Slot \ {i} : call'[j] = call[j],
         groups' = groups, formed' \in [Pairs -> Nat], redone' \in [Pairs -> Nat],
         \A p \in Pairs \ {q} : formed'[p] = formed[p] /\ redone'[p] = redone[p],
         formed'[q] + redone'[q] = formed[q] + redone[q] + 1
  PROVE  GroupInv'
<1> SUFFICES ASSUME ~crashed, NEW p \in Pairs PROVE Even(p)'
  BY DEF GroupInv
<1>0. Even(p) /\ Cardinality(Founding(p)) \in Nat /\ IsFiniteSet(Founding(p))
  BY Counted DEF GroupInv
<1>1. groups[p] \in Nat /\ formed[p] \in Nat /\ redone[p] \in Nat
  BY DEF Shape
<1>2. CASE p = q
  <2>1. Founding(p)' = Founding(p) \cup {i} /\ i \notin Founding(p)
    BY <1>2 DEF Founding
  <2>2. Cardinality(Founding(p)') = Cardinality(Founding(p)) + 1
    BY <1>0, <2>1, FS_AddElement
  <2> QED BY <1>0, <1>1, <1>2, <2>2 DEF Even
<1>3. CASE p # q
  <2>1. Founding(p)' = Founding(p)
    BY <1>3 DEF Founding
  <2> QED BY <1>0, <1>3, <2>1 DEF Even
<1> QED
  BY <1>2, <1>3

LEMMA FoundStep ==
  ASSUME Shape, GroupInv, NEW i \in Slot, Found(i)
  PROVE  GroupInv'
<1> SUFFICES ASSUME ~crashed, NEW p \in Pairs PROVE Even(p)'
  BY DEF GroupInv, Found
<1>0. Even(p) /\ Cardinality(Founding(p)) \in Nat /\ IsFiniteSet(Founding(p))
  BY Counted DEF Found, GroupInv
<1>1. /\ call \in [Slot -> Calls] /\ groups \in [Pairs -> Nat]
      /\ formed[p] \in Nat /\ redone[p] \in Nat
  BY DEF Shape
<1>2. PICK q : q = {call[i].by, call[i].from}
  OBVIOUS
<1>3. call[i].op \in {"accept", "acceptRequest"} /\ call[i].step = "found"
  BY <1>1, Kinds DEF Found
<1>4. q \in Pairs
  BY <1>1, <1>2, <1>3, Kinds, Two DEF Acceptances, Answers
<1>5. /\ \A j \in Slot \ {i} : call'[j] = call[j]
      /\ call'[i].step = "announce"
  BY <1>1, <1>3, GoesOn DEF Found
<1>6. groups' = [groups EXCEPT ![q] = @ + 1] /\ UNCHANGED <<formed, redone>>
  BY <1>2 DEF Found
<1>7. CASE p = q
  <2>1. Founding(p)' = Founding(p) \ {i} /\ i \in Founding(p)
    BY <1>2, <1>3, <1>5, <1>7 DEF Founding
  <2>2. Cardinality(Founding(p)') = Cardinality(Founding(p)) - 1
    BY <1>0, <2>1, FS_RemoveElement
  <2>3. groups'[p] = groups[p] + 1 /\ groups[p] \in Nat
    BY <1>1, <1>4, <1>6, <1>7
  <2> QED BY <1>0, <1>1, <1>6, <2>2, <2>3 DEF Even
<1>8. CASE p # q
  <2>1. Founding(p)' = Founding(p)
    BY <1>2, <1>5, <1>8 DEF Founding
  <2>2. groups'[p] = groups[p]
    BY <1>1, <1>6, <1>8
  <2> QED BY <1>0, <1>6, <2>1, <2>2 DEF Even
<1> QED
  BY <1>7, <1>8

LEMMA GroupStep == Shape /\ GroupInv /\ [Next]_vars => GroupInv'
<1> SUFFICES ASSUME Shape, GroupInv, [Next]_vars PROVE GroupInv'
  OBVIOUS
<1>0. /\ call \in [Slot -> Calls]
      /\ formed \in [Pairs -> Nat] /\ redone \in [Pairs -> Nat]
      /\ Shape'
  BY ShapeStep DEF Shape
<1>1. CASE UNCHANGED <<rows, notes, call>>
  BY <1>1, SameFounding
<1>2. CASE \E i \in Slot : Asked(i)
  <2> PICK i \in Slot : Asked(i)
    BY <1>2
  <2>1. call'[i].step # "found" /\ call[i].step # "found" /\ \A j \in Slot \ {i} : call'[j] = call[j]
    BY DEF Asked, Idle
  <2> QED BY <2>1, SameFounding DEF Asked
<1>3. ASSUME NEW i \in Slot, Serve(i) PROVE GroupInv'
  <2>1. ASSUME call[i].step # "found", call'[i].step # "found",
               \A j \in Slot \ {i} : call'[j] = call[j],
               UNCHANGED <<groups, formed, redone, crashed>>
        PROVE  GroupInv'
    <3>1. \A j \in Slot : \/ call'[j] = call[j]
                          \/ call'[j].step # "found" /\ call[j].step # "found"
      BY <2>1
    <3> QED BY <2>1, <3>1, SameFounding
  <2>2. CASE Lock(i) \/ CheckBlocks(i) \/ CheckFriends(i) \/ Take(i)
    BY <1>0, <2>1, <2>2, GoesOn, Ends DEF Lock, CheckBlocks, CheckFriends, Take, Is, Idle
  <2>3. CASE Gates(i) \/ Request(i)
    BY <1>0, <2>1, <2>3, GoesOn, Ends DEF Gates, Gate, Request, Is, Idle
  <2>4. CASE Store(i) \/ Sever(i)
    BY <1>0, <2>1, <2>4, GoesOn, Ends DEF Store, Sever, Is, Idle
  <2>5. CASE Found(i)
    BY <2>5, FoundStep
  <2>6. CASE Form(i) \/ FormByRequest(i)
    <3>0. PICK q : q = {call[i].by, call[i].from}
      OBVIOUS
    <3>1. call[i].op \in {"accept", "acceptRequest"} /\ call[i].step = "form"
      BY <2>6 DEF Form, FormByRequest, Is
    <3>2. q \in Pairs
      BY <1>0, <3>0, <3>1, Kinds, Two DEF Acceptances, Answers
    <3>3. CASE Form(i) /\ q \in friends
      BY <1>0, <2>1, <3>0, <3>1, <3>3, Ends DEF Form, Idle
    <3>4. CASE (Form(i) /\ q \notin friends) \/ FormByRequest(i)
      <4>1. Befriended(i) /\ groups' = groups /\ crashed' = crashed
        BY <3>0, <3>4 DEF Form, FormByRequest
      <4>2. /\ \A j \in Slot \ {i} : call'[j] = call[j]
            /\ call'[i].step = "found" /\ {call'[i].by, call'[i].from} = q
        BY <1>0, <3>0, <3>1, <4>1, GoesOn DEF Befriended, CallsHook
      <4>3. \/ formed' = [formed EXCEPT ![q] = @ + 1] /\ redone' = redone
            \/ formed' = [formed EXCEPT ![q] = @ + 1] /\ redone' = [redone EXCEPT ![q] = @]
            \/ formed' = [formed EXCEPT ![q] = @] /\ redone' = [redone EXCEPT ![q] = @ + 1]
        BY <3>0, <3>4 DEF Form, FormByRequest
      <4>4. /\ \A p \in Pairs \ {q} : formed'[p] = formed[p] /\ redone'[p] = redone[p]
            /\ formed'[q] + redone'[q] = formed[q] + redone[q] + 1
        BY <1>0, <3>2, <4>3
      <4>5. formed' \in [Pairs -> Nat] /\ redone' \in [Pairs -> Nat]
        BY <1>0 DEF Shape
      <4> QED BY <3>1, <3>2, <4>1, <4>2, <4>4, <4>5, FoundsNext
    <3> QED BY <2>6, <3>3, <3>4
  <2> QED BY <1>3, <2>2, <2>3, <2>4, <2>5, <2>6 DEF Serve
<1>4. CASE \E i \in Slot : /\ call[i].step = "announce" /\ End(i)
                        /\ UNCHANGED <<rows, notes, load>>
  <2> PICK i \in Slot : call[i].step = "announce" /\ End(i) /\ UNCHANGED <<rows, notes, load>>
    BY <1>4
  <2>1. call'[i].step # "found" /\ call[i].step # "found" /\ \A j \in Slot \ {i} : call'[j] = call[j]
    BY <1>0, Ends DEF Idle
  <2> QED BY <2>1, SameFounding
<1>5. CASE \/ \E v \in Invite : CreateInvite(v) \/ RevokeInvite(v)
           \/ \E r \in requests : Drop(r)
           \/ \E p \in friends : RemoveFriend(p)
           \/ \E k \in blocks : Unblock(k)
  BY <1>5, SameFounding DEF CreateInvite, RevokeInvite, Drop, RemoveFriend, Unblock
<1>6. CASE Crash
  BY <1>6 DEF Crash, GroupInv
<1> QED
  BY <1>1, <1>2, <1>3, <1>4, <1>5, <1>6, Cases

(* No friendship is left without its DM group, and none gets two, unless the *)
(* server was restarted (onFriendshipCreated, createDmGroup): for every       *)
(* number of acceptances at once.                                             *)
THEOREM GroupsHold == Spec => []GroupsFounded
<1> DEFINE I == Shape /\ GroupInv
<1>1. Init => I
  BY ShapeInit, GroupInit
<1>2. I /\ [Next]_vars => I'
  BY ShapeStep, GroupStep
<1>3. I => GroupsFounded
  <2> SUFFICES ASSUME I, Settled, ~crashed, NEW p \in Pairs PROVE groups[p] = formed[p] + redone[p]
    BY DEF GroupsFounded
  <2>1. Founding(p) = {}
    BY DEF Settled, Founding, Idle
  <2>2. groups[p] \in Nat
    BY DEF Shape
  <2> QED BY <2>1, <2>2, FS_EmptySet DEF GroupInv, Even
<1> HIDE DEF I
<1> QED
  BY <1>1, <1>2, <1>3, PTL DEF Spec

-----------------------------------------------------------------------------
(* Presence: what a step does to the sockets, to the statuses and to what    *)
(* the clients see.                                                          *)

Shown == Visible \cup {"offline"}

Gateway == [step : {"none", "hello", "pref", "friends", "show", "up"}, open : BOOLEAN,
            client : Client \cup {Fresh.client}, first : BOOLEAN, friends : SUBSET Account]

(* The shape of the sockets, statuses, broadcasts and views. *)
SocketShape ==
  /\ socket \in [Socket -> Gateway]
  /\ \A s \in Socket : IF socket[s].step = "none" THEN socket[s] = Fresh ELSE socket[s].client \in Client
  /\ registered \subseteq Socket
  /\ live \in [Account -> Statuses \cup {"none"}]
  /\ casts \subseteq [of : Account, status : Shown, to : {Unread} \cup SUBSET Account]
  /\ view \in [Client -> [Account -> Shown]]
  /\ self \in [Client -> Statuses]

(* A registered socket was greeted, and is open unless it closed too early.  *)
Greeted ==
  /\ \A s \in registered : socket[s].step \notin {"none", "hello"} /\ (socket[s].open \/ s \in lost)
  /\ \A s \in Socket : socket[s].step = "hello" => socket[s].open \/ s \in lost

LEMMA Statuses3 ==
  ASSUME SocketShape, Shape, NEW a \in Account
  PROVE  /\ Effective(a) \in Shown
         /\ Of \in [Client -> Account]
         /\ load.pref \in [Account -> Statuses]
BY PresenceAssumption DEF SocketShape, Shape, Effective, Shown, Visible, Statuses, PresenceAssumption

(* A message to the accounts A is seen by whoever it reaches. *)
LEMMA ShowsType ==
  ASSUME NEW v \in [Client -> [Account -> Shown]], NEW A, NEW a \in Account, NEW status \in Shown
  PROVE  Show(v, A, a, status) \in [Client -> [Account -> Shown]]
<1>1. ASSUME NEW c \in Client
      PROVE  (IF c \in Reached(A) THEN [v[c] EXCEPT ![a] = status] ELSE v[c]) \in [Account -> Shown]
  <2>1. v[c] \in [Account -> Shown]
    OBVIOUS
  <2> QED BY <2>1
<1> QED
  BY <1>1 DEF Show

LEMMA ShowsTo ==
  ASSUME NEW v \in [Client -> [Account -> Shown]], NEW A, NEW a \in Account, NEW status \in Shown,
         NEW c \in Reached(A)
  PROVE  Show(v, A, a, status)[c][a] = status
<1>1. c \in Client /\ v[c] \in [Account -> Shown]
  BY DEF Reached
<1>2. Show(v, A, a, status)[c] = [v[c] EXCEPT ![a] = status]
  BY <1>1 DEF Show
<1> QED
  BY <1>1, <1>2

LEMMA ShowsOnly ==
  ASSUME NEW v \in [Client -> [Account -> Shown]], NEW A, NEW a \in Account, NEW status \in Shown,
         NEW c \in Client, NEW x \in Account, x # a
  PROVE  Show(v, A, a, status)[c][x] = v[c][x]
<1>1. v[c] \in [Account -> Shown]
  OBVIOUS
<1>2. Show(v, A, a, status)[c] = IF c \in Reached(A) THEN [v[c] EXCEPT ![a] = status] ELSE v[c]
  BY DEF Show
<1> QED
  BY <1>1, <1>2

LEMMA ShowsNone ==
  ASSUME NEW v, NEW A, NEW a, NEW status, NEW c \in Client, c \notin Reached(A)
  PROVE  Show(v, A, a, status)[c] = v[c]
BY DEF Show

(* A row of a socket, and what the steps make of it. *)
LEMMA Untouched == Fresh \in Gateway /\ Fresh.step = "none" /\ Fresh.first = FALSE
BY DEF Fresh, Gateway

LEMMA Greeting ==
  ASSUME NEW r \in Gateway, NEW c \in Client
  PROVE  LET n == [r EXCEPT !.step = "hello", !.open = TRUE, !.client = c]
         IN  n \in Gateway /\ n.step = "hello" /\ n.open = TRUE /\ n.client = c /\ n.first = r.first
BY DEF Gateway

LEMMA Going ==
  ASSUME NEW r \in Gateway, NEW step \in {"pref", "friends", "show", "up"}
  PROVE  LET n == [r EXCEPT !.step = step]
         IN  n \in Gateway /\ n.step = step /\ n.open = r.open /\ n.client = r.client
             /\ n.first = r.first /\ n.friends = r.friends
BY DEF Gateway

LEMMA Shutting ==
  ASSUME NEW r \in Gateway
  PROVE  LET n == [r EXCEPT !.open = FALSE]
         IN  n \in Gateway /\ n.step = r.step /\ n.open = FALSE /\ n.client = r.client
             /\ n.first = r.first /\ n.friends = r.friends
BY DEF Gateway

LEMMA Falling ==
  ASSUME NEW r \in Gateway
  PROVE  LET n == [r EXCEPT !.step = "up", !.open = FALSE]
         IN  n \in Gateway /\ n.step = "up" /\ n.open = FALSE /\ n.client = r.client
BY DEF Gateway

(* The only socket that a step touches, and what it leaves of it. *)
Becomes(s, r) ==
  /\ \A t \in Socket \ {s} : socket'[t] = socket[t]
  /\ socket'[s] = r /\ socket' \in [Socket -> Gateway]

LEMMA Touched ==
  ASSUME SocketShape, NEW s \in Socket, NEW r \in Gateway, socket' = [socket EXCEPT ![s] = r]
  PROVE  Becomes(s, r)
BY DEF SocketShape, Becomes

Steps(s, step) ==
  /\ \A t \in Socket \ {s} : socket'[t] = socket[t]
  /\ socket'[s].step = step /\ socket'[s].open = socket[s].open
  /\ socket'[s].client = socket[s].client

LEMMA Connecting ==
  ASSUME SocketShape, NEW s \in Socket, NEW c \in Client, Connect(s, c)
  PROVE  /\ SocketShape'
         /\ \A t \in Socket \ {s} : socket'[t] = socket[t]
         /\ socket[s].step = "none"
         /\ socket'[s].step = "hello" /\ socket'[s].open /\ socket'[s].client = c
         /\ socket'[s].first = FALSE
<1> DEFINE r == [Fresh EXCEPT !.step = "hello", !.open = TRUE, !.client = c]
<1>1. r \in Gateway /\ r.step = "hello" /\ r.open = TRUE /\ r.client = c /\ r.first = FALSE
  BY Untouched, Greeting
<1>2. socket' = [socket EXCEPT ![s] = r]
  BY DEF Connect
<1> HIDE DEF r
<1>3. Becomes(s, r)
  BY <1>1, <1>2, Touched
<1>4. socket[s].step = "none"
  BY Untouched DEF Connect
<1>5. UNCHANGED <<registered, live, casts, view, self>>
  BY DEF Connect
<1>6. SocketShape'
  BY <1>1, <1>3, <1>5 DEF SocketShape, Becomes
<1> QED
  BY <1>1, <1>3, <1>4, <1>6 DEF Becomes

LEMMA Joining ==
  ASSUME SocketShape, NEW s \in Socket, Join(s)
  PROVE  /\ SocketShape'
         /\ Steps(s, IF live[AccountOf(s)] = "none" THEN "pref" ELSE "friends")
         /\ socket'[s].first <=> SocketsOf(AccountOf(s)) = {}
         /\ socket[s].step = "hello" /\ socket[s].client \in Client
         /\ registered' = registered \cup {s}
<1> PICK step : step = IF live[AccountOf(s)] = "none" THEN "pref" ELSE "friends"
  OBVIOUS
<1> PICK first \in BOOLEAN : first = (SocketsOf(AccountOf(s)) = {})
  <2>1. CASE SocketsOf(AccountOf(s)) = {}
    <3>1. TRUE = (SocketsOf(AccountOf(s)) = {})
      BY <2>1
    <3> QED BY <3>1
  <2>2. CASE SocketsOf(AccountOf(s)) # {}
    <3>1. FALSE = (SocketsOf(AccountOf(s)) = {})
      BY <2>2
    <3> QED BY <3>1
  <2> QED BY <2>1, <2>2
<1> DEFINE r == [[socket[s] EXCEPT !.step = step] EXCEPT !.first = first]
<1>0. step \in {"pref", "friends"}
  OBVIOUS
<1>1. socket[s] \in Gateway /\ socket[s].step = "hello" /\ socket[s].client \in Client
  BY DEF Join, SocketShape
<1>2. socket' = [socket EXCEPT ![s] = r]
  BY DEF Join, SocketShape
<1>3. registered' = registered \cup {s} /\ UNCHANGED <<live, casts, view, self>>
  BY DEF Join
<1>4. /\ r \in Gateway /\ r.step = step /\ r.open = socket[s].open /\ r.client = socket[s].client
      /\ r.first = first
  BY <1>0, <1>1 DEF Gateway
<1> HIDE DEF r
<1>5. Becomes(s, r)
  BY <1>2, <1>4, Touched
<1>6. SocketShape'
  BY <1>1, <1>3, <1>4, <1>5 DEF SocketShape, Becomes
<1>7. Steps(s, step) /\ socket'[s].first = first
  BY <1>4, <1>5 DEF Becomes, Steps
<1> QED
  BY <1>1, <1>3, <1>6, <1>7

LEMMA Preferring ==
  ASSUME SocketShape, Shape, NEW s \in Socket, ReadPref(s)
  PROVE  /\ SocketShape'
         /\ Steps(s, "friends") /\ socket'[s].first = socket[s].first
         /\ socket[s].step = "pref" /\ socket[s].client \in Client /\ AccountOf(s) \in Account
         /\ live' = [live EXCEPT ![AccountOf(s)] = load.pref[AccountOf(s)]]
         /\ load.pref[AccountOf(s)] \in Statuses
         /\ UNCHANGED <<friendVars, registered, casts, view, self, lost, unsure>>
<1> DEFINE r == [socket[s] EXCEPT !.step = "friends"]
<1>1. socket[s] \in Gateway /\ socket[s].step = "pref" /\ socket[s].client \in Client
  BY DEF ReadPref, SocketShape
<1>2. socket' = [socket EXCEPT ![s] = r]
  BY DEF ReadPref, SocketShape
<1>3. /\ r \in Gateway /\ r.step = "friends" /\ r.open = socket[s].open
      /\ r.client = socket[s].client /\ r.first = socket[s].first
  BY <1>1, Going
<1> HIDE DEF r
<1>4. Becomes(s, r)
  BY <1>2, <1>3, Touched
<1>5. AccountOf(s) \in Account
  BY <1>1, PresenceAssumption DEF PresenceAssumption, AccountOf
<1>6. load.pref[AccountOf(s)] \in Statuses
  BY <1>5 DEF Shape, Statuses, Visible
<1>7. /\ live' = [live EXCEPT ![AccountOf(s)] = load.pref[AccountOf(s)]]
      /\ UNCHANGED <<friendVars, registered, casts, view, self, lost, unsure>>
  BY DEF ReadPref
<1>8. live' \in [Account -> Statuses \cup {"none"}]
  BY <1>5, <1>6, <1>7 DEF SocketShape
<1>9. SocketShape'
  BY <1>1, <1>3, <1>4, <1>7, <1>8 DEF SocketShape, Becomes
<1> QED
  BY <1>1, <1>3, <1>4, <1>5, <1>6, <1>7, <1>9 DEF Becomes, Steps

LEMMA Befriends ==
  ASSUME NEW s \in Socket, ReadFriends(s), SocketShape
  PROVE  /\ SocketShape'
         /\ Steps(s, "show") /\ socket'[s].first = socket[s].first
         /\ socket'[s].friends = FriendsOf(AccountOf(s))
         /\ socket[s].step = "friends" /\ socket[s].client \in Client
         /\ UNCHANGED <<friendVars, registered, live, casts, view, self, lost, unsure>>
<1> PICK x : x = FriendsOf(AccountOf(s))
  OBVIOUS
<1> DEFINE r == [[socket[s] EXCEPT !.step = "show"] EXCEPT !.friends = x]
<1>0. x \in SUBSET Account
  BY DEF FriendsOf
<1>1. socket[s] \in Gateway /\ socket[s].step = "friends" /\ socket[s].client \in Client
  BY DEF ReadFriends, SocketShape
<1>2. socket' = [socket EXCEPT ![s] = r]
  BY DEF ReadFriends, SocketShape
<1>3. /\ r \in Gateway /\ r.step = "show" /\ r.open = socket[s].open
      /\ r.client = socket[s].client /\ r.first = socket[s].first /\ r.friends = x
  BY <1>0, <1>1 DEF Gateway
<1> HIDE DEF r
<1>4. Becomes(s, r)
  BY <1>2, <1>3, Touched
<1>5. UNCHANGED <<friendVars, registered, live, casts, view, self, lost, unsure>>
  BY DEF ReadFriends
<1>6. SocketShape'
  BY <1>1, <1>3, <1>4, <1>5 DEF SocketShape, Becomes
<1> QED
  BY <1>1, <1>3, <1>4, <1>5, <1>6 DEF Becomes, Steps

(* What the snapshot and its announcement make the clients see. *)
Sees(s, c, x) ==
  IF /\ socket[s].first /\ Effective(AccountOf(s)) # "offline"
     /\ c \in Reached(socket[s].friends) /\ x = AccountOf(s)
  THEN Effective(AccountOf(s))
  ELSE IF c = socket[s].client /\ socket[s].open
  THEN IF x \in socket[s].friends THEN Effective(x) ELSE "offline"
  ELSE view[c][x]

LEMMA Snaps ==
  ASSUME NEW s \in Socket, Snapshot(s), SocketShape, Shape
  PROVE  /\ SocketShape'
         /\ Steps(s, "up") /\ socket'[s].first = socket[s].first
         /\ socket[s].step = "show" /\ socket[s].client \in Client /\ AccountOf(s) \in Account
         /\ \A c \in Client, x \in Account : view'[c][x] = Sees(s, c, x)
         /\ unsure' = unsure \cup {<<socket[s].client, a>> : a \in
                {b \in FriendsOf(AccountOf(s)) : Guessed(b) \/ b \notin socket[s].friends}}
         /\ UNCHANGED <<friendVars, registered, live, casts, self, lost>>
<1> PICK a : a = AccountOf(s)
  OBVIOUS
<1> DEFINE r == [[socket[s] EXCEPT !.step = "up"] EXCEPT !.friends = {}]
           w == WithSnapshot(s)
<1>1. socket[s] \in Gateway /\ socket[s].step = "show" /\ socket[s].client \in Client
  BY DEF Snapshot, SocketShape
<1>2. socket' = [socket EXCEPT ![s] = r]
  BY DEF Snapshot, SocketShape
<1>3. /\ r \in Gateway /\ r.step = "up" /\ r.open = socket[s].open
      /\ r.client = socket[s].client /\ r.first = socket[s].first
  BY <1>1 DEF Gateway
<1>4. a \in Account
  BY <1>1, PresenceAssumption DEF PresenceAssumption, AccountOf
<1>5. \A x \in Account : Effective(x) \in Shown
  BY Statuses3
<1>6. /\ w \in [Client -> [Account -> Shown]]
      /\ \A c \in Client, x \in Account :
           w[c][x] = IF c = socket[s].client /\ socket[s].open
                     THEN IF x \in socket[s].friends THEN Effective(x) ELSE "offline"
                     ELSE view[c][x]
  <2>1. PICK n : n = [x \in Account |-> IF x \in socket[s].friends THEN Effective(x) ELSE "offline"]
    OBVIOUS
  <2>2. n \in [Account -> Shown]
    BY <1>5, <2>1 DEF Shown
  <2>3. w = [view EXCEPT ![socket[s].client] = IF socket[s].open THEN n ELSE view[socket[s].client]]
    BY <1>1, <2>1 DEF WithSnapshot, SocketShape
  <2>4. view \in [Client -> [Account -> Shown]]
    BY DEF SocketShape
  <2> HIDE DEF w
  <2>5. w \in [Client -> [Account -> Shown]]
    BY <1>1, <2>2, <2>3, <2>4
  <2>6. \A c \in Client : w[c] = IF c = socket[s].client /\ socket[s].open THEN n ELSE view[c]
    BY <1>1, <2>3, <2>4
  <2> QED BY <2>1, <2>5, <2>6
<1>7. view' = IF socket[s].first /\ Effective(a) # "offline"
              THEN Show(w, socket[s].friends, a, Effective(a)) ELSE w
  BY DEF Snapshot, Tells
<1>8. /\ unsure' = unsure \cup {<<socket[s].client, y>> : y \in
                {b \in FriendsOf(AccountOf(s)) : Guessed(b) \/ b \notin socket[s].friends}}
      /\ UNCHANGED <<friendVars, registered, live, casts, self, lost>>
  BY DEF Snapshot
<1> HIDE DEF r, w
<1>9. view' \in [Client -> [Account -> Shown]] /\ \A c \in Client, x \in Account : view'[c][x] = Sees(s, c, x)
  <2>1. CASE socket[s].first /\ Effective(a) # "offline"
    <3>1. view' = Show(w, socket[s].friends, a, Effective(a))
      BY <1>7, <2>1
    <3>2. Effective(a) \in Shown /\ w \in [Client -> [Account -> Shown]]
      BY <1>4, <1>5, <1>6
    <3>3. view' \in [Client -> [Account -> Shown]]
      BY <1>4, <3>1, <3>2, ShowsType
    <3>4. ASSUME NEW c \in Client, NEW x \in Account PROVE view'[c][x] = Sees(s, c, x)
      <4>1. CASE c \in Reached(socket[s].friends) /\ x = a
        <5>1. view'[c][x] = Effective(a)
          BY <1>4, <3>1, <3>2, <4>1, ShowsTo
        <5> QED BY <2>1, <4>1, <5>1 DEF Sees
      <4>2. CASE c \notin Reached(socket[s].friends) \/ x # a
        <5>1. view'[c][x] = w[c][x]
          <6>1. CASE c \notin Reached(socket[s].friends)
            BY <3>1, <6>1, ShowsNone
          <6>2. CASE x # a
            BY <1>4, <3>1, <3>2, <6>2, ShowsOnly
          <6> QED BY <4>2, <6>1, <6>2
        <5> QED BY <1>6, <4>2, <5>1 DEF Sees
      <4> QED BY <4>1, <4>2
    <3> QED BY <3>3, <3>4
  <2>2. CASE ~(socket[s].first /\ Effective(a) # "offline")
    BY <1>6, <1>7, <2>2 DEF Sees
  <2> QED BY <2>1, <2>2
<1>10. Becomes(s, r)
  BY <1>2, <1>3, Touched
<1>11. SocketShape'
  BY <1>1, <1>3, <1>8, <1>9, <1>10 DEF SocketShape, Becomes
<1> QED
  BY <1>1, <1>3, <1>4, <1>8, <1>9, <1>10, <1>11 DEF Becomes, Steps

(* What a disconnection does to the statuses. *)
LEMMA Disconnects ==
  ASSUME SocketShape, NEW r \in SUBSET registered, NEW a \in Account, OnDisconnect(r, a)
  PROVE  /\ live' \in [Account -> Statuses \cup {"none"}]
         /\ \A b \in Account \ {a} : live'[b] = live[b]
         /\ (\E t \in r : AccountOf(t) = a) => live' = live
         /\ ~(\E t \in r : AccountOf(t) = a) => live'[a] = "none"
         /\ casts' \subseteq [of : Account, status : Shown, to : {Unread} \cup SUBSET Account]
         /\ casts \subseteq casts'
         /\ \A k \in casts' \ casts : k.of = a /\ k.status = "offline" /\ k.to = Unread
                                        /\ ~(\E t \in r : AccountOf(t) = a)
         /\ ~(\E t \in r : AccountOf(t) = a) /\ live[a] # "invisible" =>
              [of |-> a, status |-> "offline", to |-> Unread] \in casts'
<1>1. live' = IF \E t \in r : AccountOf(t) = a THEN live ELSE [live EXCEPT ![a] = "none"]
  BY DEF OnDisconnect, LiveAfter
<1>2. casts' = IF ~(\E t \in r : AccountOf(t) = a) /\ live[a] # "invisible"
               THEN casts \cup {[of |-> a, status |-> "offline", to |-> Unread]} ELSE casts
  BY DEF OnDisconnect, Leaves
<1>3. [of |-> a, status |-> "offline", to |-> Unread]
        \in [of : Account, status : Shown, to : {Unread} \cup SUBSET Account]
  BY DEF Shown
<1>4. /\ live' \in [Account -> Statuses \cup {"none"}]
      /\ \A b \in Account \ {a} : live'[b] = live[b]
      /\ (\E t \in r : AccountOf(t) = a) => live' = live
      /\ ~(\E t \in r : AccountOf(t) = a) => live'[a] = "none"
  BY <1>1 DEF SocketShape
<1>5. casts \subseteq [of : Account, status : Shown, to : {Unread} \cup SUBSET Account]
  BY DEF SocketShape
<1> QED
  BY <1>2, <1>3, <1>4, <1>5

LEMMA Closing ==
  ASSUME SocketShape, NEW s \in Socket, Close(s), socket[s].step # "none"
  PROVE  /\ SocketShape'
         /\ \A t \in Socket \ {s} : socket'[t] = socket[t]
         /\ socket'[s].step = socket[s].step /\ socket'[s].open = FALSE
         /\ socket'[s].client = socket[s].client /\ socket'[s].first = socket[s].first
         /\ AccountOf(s) \in Account /\ registered' = registered \ {s}
         /\ OnDisconnect(registered \ {s}, AccountOf(s))
<1> DEFINE r == [socket[s] EXCEPT !.open = FALSE]
<1>1. socket[s] \in Gateway /\ socket[s].client \in Client
  BY DEF SocketShape
<1>2. socket' = [socket EXCEPT ![s] = r]
  BY DEF Close, SocketShape
<1>3. /\ r \in Gateway /\ r.step = socket[s].step /\ r.open = FALSE
      /\ r.client = socket[s].client /\ r.first = socket[s].first
  BY <1>1, Shutting
<1> HIDE DEF r
<1>4. Becomes(s, r)
  BY <1>2, <1>3, Touched
<1>5. AccountOf(s) \in Account
  BY <1>1, PresenceAssumption DEF PresenceAssumption, AccountOf
<1>6. /\ registered' = registered \ {s} /\ UNCHANGED <<view, self>>
      /\ OnDisconnect(registered \ {s}, AccountOf(s))
  BY DEF Close, Removed
<1>7. /\ live' \in [Account -> Statuses \cup {"none"}]
      /\ casts' \subseteq [of : Account, status : Shown, to : {Unread} \cup SUBSET Account]
  BY <1>5, <1>6, Disconnects
<1>8. SocketShape'
  BY <1>1, <1>3, <1>4, <1>6, <1>7 DEF SocketShape, Becomes
<1> QED
  BY <1>3, <1>4, <1>5, <1>6, <1>8 DEF Becomes

LEMMA ClosingEarly ==
  ASSUME SocketShape, NEW s \in Socket, CloseEarly(s)
  PROVE  /\ SocketShape'
         /\ \A t \in Socket \ {s} : socket'[t] = socket[t]
         /\ socket'[s].step = "hello" /\ socket'[s].client = socket[s].client
         /\ AccountOf(s) \in Account /\ socket[s].step = "hello"
<1> DEFINE r == [socket[s] EXCEPT !.open = FALSE]
<1>1. socket[s] \in Gateway /\ socket[s].client \in Client /\ socket[s].step = "hello"
  BY DEF SocketShape, CloseEarly
<1>2. socket' = [socket EXCEPT ![s] = r]
  BY DEF CloseEarly, SocketShape
<1>3. /\ r \in Gateway /\ r.step = "hello" /\ r.open = FALSE /\ r.client = socket[s].client
  BY <1>1, Shutting
<1> HIDE DEF r
<1>4. Becomes(s, r)
  BY <1>2, <1>3, Touched
<1>5. AccountOf(s) \in Account
  BY <1>1, PresenceAssumption DEF PresenceAssumption, AccountOf
<1>6. /\ registered' = registered /\ UNCHANGED <<view, self>>
      /\ OnDisconnect(registered, AccountOf(s)) \/ UNCHANGED <<live, casts>>
  BY DEF CloseEarly
<1>7. /\ live' \in [Account -> Statuses \cup {"none"}]
      /\ casts' \subseteq [of : Account, status : Shown, to : {Unread} \cup SUBSET Account]
  <2>1. CASE OnDisconnect(registered, AccountOf(s))
    BY <1>5, <2>1, Disconnects
  <2>2. CASE UNCHANGED <<live, casts>>
    BY <2>2 DEF SocketShape
  <2> QED BY <1>6, <2>1, <2>2
<1>8. SocketShape'
  BY <1>1, <1>3, <1>4, <1>6, <1>7 DEF SocketShape, Becomes
<1> QED
  BY <1>1, <1>3, <1>4, <1>5, <1>8 DEF Becomes

LEMMA Choosing ==
  ASSUME SocketShape, NEW c \in Client, NEW status \in Statuses, SetSelf(c, status)
  PROVE  /\ SocketShape' /\ Of[c] \in Account
         /\ UNCHANGED <<rows, call, notes, socket, registered, view, lost, unsure>>
         /\ \/ /\ Online(Of[c]) /\ live' = [live EXCEPT ![Of[c]] = status]
               /\ LET after == IF status = "invisible" THEN "offline" ELSE status
                  IN  casts' = IF Effective(Of[c]) # after
                               THEN casts \cup {[of |-> Of[c], status |-> after, to |-> Unread]}
                               ELSE casts
            \/ UNCHANGED <<live, casts>>
<1> PICK after : after = IF status = "invisible" THEN "offline" ELSE status
  OBVIOUS
<1>1. Of[c] \in Account
  BY PresenceAssumption DEF PresenceAssumption
<1>2. self' \in [Client -> Statuses] /\ UNCHANGED <<rows, call, notes, socket, registered, view, lost, unsure>>
  BY DEF SetSelf, SocketShape
<1>3. CASE \E s \in registered : socket[s].client = c /\ socket[s].open
  <2>1. Online(Of[c])
    BY <1>3 DEF Online, SocketsOf, AccountOf
  <2>2. /\ live' = [live EXCEPT ![Of[c]] = status]
        /\ casts' = IF Effective(Of[c]) # after
                    THEN casts \cup {[of |-> Of[c], status |-> after, to |-> Unread]}
                    ELSE casts
    BY <1>3 DEF SetSelf, Differs
  <2>3. after \in Shown
    BY DEF Shown, Statuses
  <2>4. [of |-> Of[c], status |-> after, to |-> Unread]
          \in [of : Account, status : Shown, to : {Unread} \cup SUBSET Account]
    BY <1>1, <2>3
  <2>5. live' \in [Account -> Statuses \cup {"none"}]
    BY <1>1, <2>2 DEF SocketShape
  <2>6. casts' \subseteq [of : Account, status : Shown, to : {Unread} \cup SUBSET Account]
    BY <2>2, <2>4 DEF SocketShape
  <2>7. SocketShape'
    BY <1>2, <2>5, <2>6 DEF SocketShape
  <2> QED BY <1>1, <1>2, <2>1, <2>2, <2>7
<1>4. CASE ~(\E s \in registered : socket[s].client = c /\ socket[s].open)
  <2>1. UNCHANGED <<live, casts>>
    BY <1>4 DEF SetSelf
  <2>2. SocketShape'
    BY <1>2, <2>1 DEF SocketShape
  <2> QED BY <1>1, <1>2, <2>1, <2>2
<1> QED
  BY <1>3, <1>4

LEMMA Targeting ==
  ASSUME SocketShape, NEW k \in casts, ReadTargets(k)
  PROVE  /\ SocketShape' /\ k.of \in Account
         /\ UNCHANGED <<friendVars, socket, registered, live, view, self, lost, unsure>>
         /\ \A x \in casts \ {k} : x \in casts'
         /\ \E n \in casts' : /\ casts' \subseteq casts \cup {n}
                              /\ n.of = k.of /\ n.status = k.status /\ n.to = FriendsOf(k.of)
<1>1. /\ casts' = (casts \ {k}) \cup {[k EXCEPT !.to = FriendsOf(k.of)]}
      /\ UNCHANGED <<friendVars, socket, registered, live, view, self, lost, unsure>>
  BY DEF ReadTargets
<1>2. k \in [of : Account, status : Shown, to : {Unread} \cup SUBSET Account]
  BY DEF SocketShape
<1> PICK x : x = FriendsOf(k.of)
  OBVIOUS
<1> DEFINE n == [k EXCEPT !.to = x]
<1>3. x \in SUBSET Account
  BY DEF FriendsOf
<1>4. /\ n \in [of : Account, status : Shown, to : {Unread} \cup SUBSET Account]
      /\ n.of = k.of /\ n.status = k.status /\ n.to = x
  BY <1>2, <1>3
<1>5. casts' = (casts \ {k}) \cup {n}
  BY <1>1
<1> HIDE DEF n
<1>6. SocketShape'
  BY <1>1, <1>4, <1>5 DEF SocketShape
<1> QED
  BY <1>1, <1>2, <1>4, <1>5, <1>6

LEMMA Sends ==
  ASSUME SocketShape, NEW k \in casts, Send(k)
  PROVE  /\ SocketShape' /\ k.of \in Account /\ k.status \in Shown
         /\ view' = Show(view, k.to, k.of, k.status) /\ casts' = casts \ {k} /\ k.to # Unread
         /\ UNCHANGED <<friendVars, socket, registered, live, self, lost, unsure>>
<1>1. /\ view' = Show(view, k.to, k.of, k.status) /\ casts' = casts \ {k} /\ k.to # Unread
      /\ UNCHANGED <<friendVars, socket, registered, live, self, lost, unsure>>
  BY DEF Send
<1>2. k.of \in Account /\ k.status \in Shown
  BY DEF SocketShape
<1>3. view \in [Client -> [Account -> Shown]]
  BY DEF SocketShape
<1>4. view' \in [Client -> [Account -> Shown]]
  BY <1>1, <1>2, <1>3, ShowsType
<1>5. SocketShape'
  BY <1>1, <1>4 DEF SocketShape
<1> QED
  BY <1>1, <1>2, <1>5

LEMMA Announcing ==
  ASSUME SocketShape, Shape, NEW i \in Slot, Announce(i)
  PROVE  LET a == call[i].by
             b == call[i].from
         IN  /\ SocketShape'
             /\ a \in Account /\ b \in Account /\ a # b
             /\ view' = Show(Show(view, {a}, b, Effective(b)), {b}, a, Effective(a))
             /\ Show(view, {a}, b, Effective(b)) \in [Client -> [Account -> Shown]]
<1> PICK a, b : a = call[i].by /\ b = call[i].from
  OBVIOUS
<1>1. a \in Account /\ b \in Account /\ a # b
  <2>1. call[i] \in Calls /\ call[i].step = "announce"
    BY DEF Shape, Announce
  <2> QED BY <2>1, Kinds DEF Acceptances, Answers
<1>2. Effective(a) \in Shown /\ Effective(b) \in Shown
  BY <1>1, Statuses3
<1>3. view' = Show(Show(view, {a}, b, Effective(b)), {b}, a, Effective(a))
  BY DEF Announce, Introduced
<1>4. view \in [Client -> [Account -> Shown]]
  BY DEF SocketShape
<1>5. Show(view, {a}, b, Effective(b)) \in [Client -> [Account -> Shown]]
  BY <1>1, <1>2, <1>4, ShowsType
<1>6. view' \in [Client -> [Account -> Shown]]
  BY <1>1, <1>2, <1>3, <1>5, ShowsType
<1>7. UNCHANGED <<socket, registered, live, casts, self>>
  BY DEF Announce
<1>8. SocketShape'
  BY <1>6, <1>7 DEF SocketShape
<1> QED
  BY <1>1, <1>3, <1>5, <1>8

LEMMA Crashing ==
  ASSUME SocketShape, Crash
  PROVE  /\ SocketShape'
         /\ registered' = {} /\ casts' = {} /\ \A a \in Account : live'[a] = "none"
         /\ \A s \in Socket : socket'[s].step \in {"none", "up"}
         /\ UNCHANGED <<load, lost>>
<1>1. \A s \in Socket :
        /\ socket'[s] \in Gateway /\ socket'[s].step \in {"none", "up"}
        /\ IF socket'[s].step = "none" THEN socket'[s] = Fresh ELSE socket'[s].client \in Client
  <2> TAKE s \in Socket
  <2>1. /\ socket[s] \in Gateway
        /\ socket[s] # Fresh => socket[s].client \in Client
    BY DEF SocketShape
  <2>2. CASE socket[s] = Fresh
    <3>1. socket'[s] = Fresh
      BY <2>2 DEF Crash
    <3> QED BY <3>1, Untouched
  <2>3. CASE socket[s] # Fresh
    <3>1. socket'[s] = [socket[s] EXCEPT !.step = "up", !.open = FALSE]
      BY <2>3 DEF Crash
    <3> QED BY <2>1, <2>3, <3>1, Falling
  <2> QED BY <2>2, <2>3
<1>2. socket' \in [Socket -> Gateway]
  <2>1. socket' = [s \in Socket |-> socket'[s]]
    BY DEF Crash
  <2> QED BY <1>1, <2>1
<1>3. /\ registered' = {} /\ casts' = {} /\ live' = [a \in Account |-> "none"]
      /\ UNCHANGED <<load, lost, view, self>>
  BY DEF Crash
<1>4. SocketShape'
  BY <1>1, <1>2, <1>3 DEF SocketShape
<1> QED
  BY <1>1, <1>3, <1>4

-----------------------------------------------------------------------------
(* Types, and who is in the registry. *)

(* Every step of presence, by itself. *)
LEMMA Happens ==
  ASSUME [Next]_vars
  PROVE  \/ UNCHANGED presenceVars
         \/ \E i \in Slot : Announce(i)
         \/ \E s \in Socket, c \in Client : Connect(s, c)
         \/ \E s \in Socket : Join(s)
         \/ \E s \in Socket : ReadPref(s)
         \/ \E s \in Socket : ReadFriends(s)
         \/ \E s \in Socket : Snapshot(s)
         \/ \E s \in Socket : Close(s)
         \/ \E s \in Socket : CloseEarly(s)
         \/ \E c \in Client, status \in Statuses : SetSelf(c, status)
         \/ \E k \in casts : ReadTargets(k)
         \/ \E k \in casts : Send(k)
         \/ Crash
<1>1. CASE FriendsNext /\ UNCHANGED presenceVars
  BY <1>1
<1>2. CASE \E s \in Socket : Work(s) \/ Close(s) \/ CloseEarly(s) \/ \E c \in Client : Connect(s, c)
  BY <1>2 DEF Work
<1>3. CASE Broadcasts
  BY <1>3 DEF Broadcasts
<1>4. CASE UNCHANGED vars
  BY <1>4
<1> QED
  BY <1>1, <1>2, <1>3, <1>4 DEF Next

(* The bounds of a load stay as they are. *)
LEMMA SameLoad ==
  ASSUME Shape, [Next]_vars
  PROVE  load'.calm = load.calm /\ load'.pref = load.pref
<1>0. load \in [ops : SUBSET STRING, asks : Nat, sets : Nat, calm : BOOLEAN,
               friends : SUBSET Pairs, who : SUBSET Account, clients : SUBSET Client,
               sockets : SUBSET Socket, pref : [Account -> {"online", "away", "invisible"}]]
  BY DEF Shape
<1>1. ASSUME load' = [load EXCEPT !.asks = @ - 1] \/ load' = [load EXCEPT !.sets = @ - 1]
      PROVE  load'.calm = load.calm /\ load'.pref = load.pref
  BY <1>0, <1>1
<1>2. CASE load' = load
  BY <1>2
<1>3. CASE \E i \in Slot : Asked(i)
  BY <1>1, <1>3 DEF Asked
<1>4. CASE \E i \in Slot : Serve(i)
  <2>1. load' = load
    BY <1>4 DEF Serve, Lock, CheckBlocks, CheckFriends, Form, Found, Gates, Gate, Request, Take,
                FormByRequest, Store, Sever
  <2> QED BY <2>1
<1>5. CASE \/ \E v \in Invite : CreateInvite(v) \/ RevokeInvite(v)
           \/ \E r \in requests : Drop(r)
           \/ \E p \in friends : RemoveFriend(p)
           \/ \E k \in blocks : Unblock(k)
           \/ Crash
  <2>1. load' = load
    BY <1>5 DEF CreateInvite, RevokeInvite, Drop, RemoveFriend, Unblock, Crash
  <2> QED BY <2>1
<1> QED
  BY <1>1, <1>2, <1>3, <1>4, <1>5, Cases

Sockets == SocketShape /\ Greeted

LEMMA SocketsInit == Init => Sockets
<1> SUFFICES ASSUME Init PROVE Sockets
  OBVIOUS
<1>1. socket = [s \in Socket |-> Fresh] /\ registered = {} /\ casts = {}
  BY DEF Init
<1>2. socket \in [Socket -> Gateway] /\ \A s \in Socket : socket[s].step = "none" /\ socket[s] = Fresh
  BY <1>1, Untouched
<1>3. /\ live \in [Account -> Statuses \cup {"none"}]
      /\ view \in [Client -> [Account -> Shown]]
      /\ self \in [Client -> Statuses]
  BY DEF Init, Shown, Statuses, Visible
<1> QED
  BY <1>1, <1>2, <1>3 DEF Sockets, SocketShape, Greeted

LEMMA SocketsStep == Shape /\ Sockets /\ [Next]_vars => Sockets'
<1> SUFFICES ASSUME Shape, Sockets, [Next]_vars PROVE Sockets'
  OBVIOUS
<1>0. SocketShape /\ Greeted
  BY DEF Sockets
<1>1. CASE UNCHANGED presenceVars
  <2>1. SocketShape'
    BY <1>0, <1>1 DEF SocketShape
  <2>2. Greeted'
    BY <1>0, <1>1 DEF Greeted
  <2> QED BY <2>1, <2>2 DEF Sockets
<1>2. ASSUME NEW i \in Slot, Announce(i) PROVE Sockets'
  <2>1. SocketShape'
    BY <1>0, <1>2, Announcing
  <2> QED BY <1>0, <1>2, <2>1 DEF Sockets, Greeted, Announce
<1>3. ASSUME NEW s \in Socket, NEW c \in Client, Connect(s, c) PROVE Sockets'
  <2>1. /\ SocketShape' /\ socket[s].step = "none" /\ socket'[s].step = "hello" /\ socket'[s].open
        /\ \A t \in Socket \ {s} : socket'[t] = socket[t]
    BY <1>0, <1>3, Connecting
  <2>2. registered' = registered /\ lost' = lost
    BY <1>3 DEF Connect
  <2>3. Greeted'
    BY <1>0, <2>1, <2>2 DEF Greeted, SocketShape
  <2> QED BY <2>1, <2>3 DEF Sockets
<1>4. ASSUME NEW s \in Socket, Join(s) PROVE Sockets'
  <2>1. /\ SocketShape' /\ Steps(s, IF live[AccountOf(s)] = "none" THEN "pref" ELSE "friends")
        /\ socket[s].step = "hello" /\ registered' = registered \cup {s}
    BY <1>0, <1>4, Joining
  <2>2. lost' = lost
    BY <1>4 DEF Join
  <2>3. Greeted'
    BY <1>0, <2>1, <2>2 DEF Greeted, SocketShape, Steps
  <2> QED BY <2>1, <2>3 DEF Sockets
<1>5. ASSUME NEW s \in Socket, NEW step, step \notin {"none", "hello"}, SocketShape',
             socket[s].step \notin {"none", "hello"}, Steps(s, step),
             UNCHANGED <<registered, lost>>
      PROVE  Sockets'
  <2>1. Greeted'
    BY <1>0, <1>5 DEF Greeted, SocketShape, Steps
  <2> QED BY <1>5, <2>1 DEF Sockets
<1>6. ASSUME NEW s \in Socket, ReadPref(s) PROVE Sockets'
  <2>1. /\ SocketShape' /\ Steps(s, "friends") /\ socket[s].step = "pref"
        /\ UNCHANGED <<registered, lost>>
    BY <1>0, <1>6, Preferring
  <2> QED BY <1>5, <2>1
<1>7. ASSUME NEW s \in Socket, ReadFriends(s) PROVE Sockets'
  <2>1. /\ SocketShape' /\ Steps(s, "show") /\ socket[s].step = "friends"
        /\ UNCHANGED <<registered, lost>>
    BY <1>0, <1>7, Befriends
  <2> QED BY <1>5, <2>1
<1>8. ASSUME NEW s \in Socket, Snapshot(s) PROVE Sockets'
  <2>1. /\ SocketShape' /\ Steps(s, "up") /\ socket[s].step = "show"
        /\ UNCHANGED <<registered, lost>>
    BY <1>0, <1>8, Snaps
  <2> QED BY <1>5, <2>1
<1>9. ASSUME NEW s \in Socket, Close(s) PROVE Sockets'
  <2>1. s \in registered /\ lost' = lost
    BY <1>9 DEF Close
  <2>2. socket[s].step \notin {"none", "hello"}
    BY <1>0, <2>1 DEF Greeted
  <2>3. /\ SocketShape' /\ registered' = registered \ {s} /\ socket'[s].step = socket[s].step
        /\ \A t \in Socket \ {s} : socket'[t] = socket[t]
    BY <1>0, <1>9, <2>2, Closing
  <2>4. Greeted'
    BY <1>0, <2>1, <2>2, <2>3 DEF Greeted, SocketShape
  <2> QED BY <2>3, <2>4 DEF Sockets
<1>10. ASSUME NEW s \in Socket, CloseEarly(s) PROVE Sockets'
  <2>1. /\ SocketShape' /\ socket[s].step = "hello" /\ socket'[s].step = "hello"
        /\ \A t \in Socket \ {s} : socket'[t] = socket[t]
    BY <1>0, <1>10, ClosingEarly
  <2>2. lost' = lost \cup {s} /\ registered' = registered
    BY <1>10 DEF CloseEarly
  <2>3. Greeted'
    BY <1>0, <2>1, <2>2 DEF Greeted, SocketShape
  <2> QED BY <2>1, <2>3 DEF Sockets
<1>11. ASSUME NEW c \in Client, NEW status \in Statuses, SetSelf(c, status) PROVE Sockets'
  <2>1. SocketShape' /\ UNCHANGED <<socket, registered, lost>>
    BY <1>0, <1>11, Choosing
  <2> QED BY <1>0, <2>1 DEF Sockets, Greeted
<1>12. ASSUME NEW k \in casts, ReadTargets(k) \/ Send(k) PROVE Sockets'
  <2>1. SocketShape' /\ UNCHANGED <<socket, registered, lost>>
    BY <1>0, <1>12, Targeting, Sends
  <2> QED BY <1>0, <2>1 DEF Sockets, Greeted
<1>13. CASE Crash
  <2>1. /\ SocketShape' /\ registered' = {}
        /\ \A s \in Socket : socket'[s].step \in {"none", "up"}
    BY <1>0, <1>13, Crashing
  <2> QED BY <2>1 DEF Sockets, Greeted
<1> QED
  BY <1>1, <1>2, <1>3, <1>4, <1>6, <1>7, <1>8, <1>9, <1>10, <1>11, <1>12, <1>13, Happens

-----------------------------------------------------------------------------
(* The live status of an account lasts as long as its sockets, if no status  *)
(* is changed while another change of it is under way.                       *)

Lives ==
  load.calm =>
    /\ \A a \in Account : live[a] # "none" => Online(a)
    /\ \A a \in Account : Online(a) /\ live[a] = "none" =>
         \E s \in Socket : socket[s].step = "pref" /\ AccountOf(s) = a
    /\ \A s \in Socket : Working(s) /\ socket[s].step # "hello" => s \in registered

LEMMA OnlineBy ==
  ASSUME NEW a
  PROVE  /\ Online(a) <=> \E s \in registered : AccountOf(s) = a
         /\ Online(a)' <=> \E s \in registered' : AccountOf(s)' = a
BY DEF Online, SocketsOf

LEMMA AccountsOf ==
  ASSUME NEW s, socket'[s].client = socket[s].client
  PROVE  AccountOf(s)' = AccountOf(s)
BY DEF AccountOf

(* A socket that goes on to friends, to its snapshot or to its end. *)
LEMMA LivesOn ==
  ASSUME SocketShape, Lives, load.calm, NEW s \in Socket, NEW step, Steps(s, step),
         step \in {"friends", "show", "up"},
         socket[s].step \in {"pref", "friends", "show"}, registered' = registered,
         \A b \in Account : \/ live'[b] = live[b] /\ (AccountOf(s) # b \/ socket[s].step # "pref")
                            \/ live'[b] # "none" /\ AccountOf(s) = b
  PROVE  Lives'
<1>1. Working(s) /\ s \in registered
  BY DEF Working, Lives
<1>2. \A t \in Socket : AccountOf(t)' = AccountOf(t)
  BY AccountsOf DEF Steps
<1>3. \A b : Online(b)' <=> Online(b)
  <2> TAKE b
  <2>1. \A t \in registered : AccountOf(t)' = AccountOf(t)
    BY <1>2 DEF SocketShape
  <2> QED BY <2>1, OnlineBy
<1>4. \A b \in Account : live'[b] # "none" => Online(b)'
  <2> TAKE b \in Account
  <2>1. AccountOf(s) = b => Online(b)
    BY <1>1, OnlineBy
  <2> QED BY <1>3, <2>1 DEF Lives
<1>5. ASSUME NEW b \in Account, Online(b)', live'[b] = "none"
      PROVE  \E t \in Socket : socket'[t].step = "pref" /\ AccountOf(t)' = b
  <2>1. live[b] = "none" /\ (AccountOf(s) # b \/ socket[s].step # "pref")
    BY <1>5
  <2>2. PICK t \in Socket : socket[t].step = "pref" /\ AccountOf(t) = b
    BY <1>3, <1>5, <2>1 DEF Lives
  <2>3. t # s
    BY <2>1, <2>2
  <2> QED BY <1>2, <2>2, <2>3 DEF Steps
<1>6. ASSUME NEW t \in Socket, Working(t)', socket'[t].step # "hello" PROVE t \in registered'
  <2>1. CASE t = s
    BY <1>1, <2>1
  <2>2. CASE t # s
    BY <1>6, <2>2 DEF Lives, Working, Steps
  <2> QED BY <2>1, <2>2
<1> QED
  BY <1>4, <1>5, <1>6 DEF Lives

LEMMA LivesStep == Shape /\ Sockets /\ Lives /\ [Next]_vars => Lives'
<1> SUFFICES ASSUME Shape, Sockets, Lives, [Next]_vars, load'.calm PROVE Lives'
  BY DEF Lives
<1>0. SocketShape /\ Greeted /\ load.calm
  BY SameLoad DEF Sockets
<1>1. /\ \A a \in Account : live[a] # "none" => Online(a)
      /\ \A a \in Account : Online(a) /\ live[a] = "none" =>
           \E s \in Socket : socket[s].step = "pref" /\ AccountOf(s) = a
      /\ \A s \in Socket : Working(s) /\ socket[s].step # "hello" => s \in registered
  BY <1>0 DEF Lives
<1>2. ASSUME UNCHANGED <<socket, registered>>,
             \A a \in Account : \/ live'[a] = live[a]
                                \/ live'[a] # "none" /\ Online(a)
      PROVE  Lives'
  <2>1. \A t : AccountOf(t)' = AccountOf(t)
    BY <1>2, AccountsOf
  <2>2. \A b : Online(b)' <=> Online(b)
    BY <1>2, <2>1, OnlineBy
  <2>3. \A t \in Socket : Working(t)' <=> Working(t)
    BY <1>2 DEF Working
  <2> QED BY <1>1, <1>2, <2>1, <2>2, <2>3 DEF Lives
<1>3. CASE UNCHANGED presenceVars
  BY <1>2, <1>3
<1>4. ASSUME NEW i \in Slot, Announce(i) PROVE Lives'
  BY <1>2, <1>4 DEF Announce
<1>5. ASSUME NEW s \in Socket, NEW c \in Client, Connect(s, c) PROVE Lives'
  <2>1. /\ socket[s].step = "none" /\ socket'[s].step = "hello"
        /\ \A t \in Socket \ {s} : socket'[t] = socket[t]
    BY <1>0, <1>5, Connecting
  <2>2. registered' = registered /\ live' = live
    BY <1>5 DEF Connect
  <2>3. s \notin registered
    BY <1>0, <2>1 DEF Greeted
  <2>4. \A t \in Socket \ {s} : AccountOf(t)' = AccountOf(t)
    BY <2>1, AccountsOf
  <2>5. \A b : Online(b)' <=> Online(b)
    <3> TAKE b
    <3>1. \A t \in registered : AccountOf(t)' = AccountOf(t)
      BY <1>0, <2>3, <2>4 DEF SocketShape
    <3> QED BY <2>2, <3>1, OnlineBy
  <2>6. ASSUME NEW b \in Account, Online(b)', live'[b] = "none"
        PROVE  \E t \in Socket : socket'[t].step = "pref" /\ AccountOf(t)' = b
    <3>1. PICK t \in Socket : socket[t].step = "pref" /\ AccountOf(t) = b
      BY <1>1, <2>2, <2>5, <2>6
    <3> QED BY <2>1, <2>4, <3>1
  <2>7. \A t \in Socket : Working(t)' /\ socket'[t].step # "hello" => t \in registered'
    BY <1>1, <2>1, <2>2 DEF Working
  <2> QED BY <1>1, <2>2, <2>5, <2>6, <2>7 DEF Lives
<1>6. ASSUME NEW s \in Socket, Join(s) PROVE Lives'
  <2>1. /\ Steps(s, IF live[AccountOf(s)] = "none" THEN "pref" ELSE "friends")
        /\ socket[s].step = "hello" /\ registered' = registered \cup {s}
    BY <1>0, <1>6, Joining
  <2>2. live' = live
    BY <1>6 DEF Join
  <2>3. \A t \in Socket : AccountOf(t)' = AccountOf(t)
    BY <2>1, AccountsOf DEF Steps
  <2>4. \A t \in registered : AccountOf(t)' = AccountOf(t)
    BY <1>0, <2>3 DEF SocketShape
  <2>5. ASSUME NEW b \in Account, live'[b] # "none" PROVE Online(b)'
    <3>1. Online(b)
      BY <1>1, <2>2, <2>5
    <3> QED BY <2>1, <2>4, <3>1, OnlineBy
  <2>6. ASSUME NEW b \in Account, Online(b)', live'[b] = "none"
        PROVE  \E t \in Socket : socket'[t].step = "pref" /\ AccountOf(t)' = b
    <3>1. CASE b = AccountOf(s)
      <4>1. socket'[s].step = "pref"
        BY <2>1, <2>2, <2>6, <3>1 DEF Steps
      <4> QED BY <2>3, <3>1, <4>1
    <3>2. CASE b # AccountOf(s)
      <4>1. Online(b)
        BY <2>1, <2>3, <2>4, <2>6, <3>2, OnlineBy
      <4>2. PICK t \in Socket : socket[t].step = "pref" /\ AccountOf(t) = b
        BY <1>1, <2>2, <2>6, <4>1
      <4> QED BY <2>1, <2>3, <4>2, <3>2 DEF Steps
    <3> QED BY <3>1, <3>2
  <2>7. \A t \in Socket : Working(t)' /\ socket'[t].step # "hello" => t \in registered'
    <3> TAKE t \in Socket
    <3>1. CASE t = s
      BY <2>1, <3>1
    <3>2. CASE t # s
      BY <1>1, <2>1, <3>2 DEF Working, Steps
    <3> QED BY <3>1, <3>2
  <2> QED BY <2>5, <2>6, <2>7 DEF Lives
<1>7. ASSUME NEW s \in Socket, ReadPref(s) PROVE Lives'
  <2>1. /\ Steps(s, "friends") /\ socket[s].step = "pref" /\ AccountOf(s) \in Account
        /\ live' = [live EXCEPT ![AccountOf(s)] = load.pref[AccountOf(s)]]
        /\ load.pref[AccountOf(s)] \in Statuses /\ registered' = registered
    BY <1>0, <1>7, Preferring
  <2>2. \A b \in Account : \/ live'[b] = live[b] /\ AccountOf(s) # b
                           \/ live'[b] # "none" /\ AccountOf(s) = b
    BY <1>0, <2>1 DEF Statuses, Visible, SocketShape
  <2> QED BY <1>0, <2>1, <2>2, LivesOn
<1>8. ASSUME NEW s \in Socket, ReadFriends(s) PROVE Lives'
  <2>1. Steps(s, "show") /\ socket[s].step = "friends" /\ UNCHANGED <<registered, live>>
    BY <1>0, <1>8, Befriends
  <2> QED BY <1>0, <2>1, LivesOn
<1>9. ASSUME NEW s \in Socket, Snapshot(s) PROVE Lives'
  <2>1. Steps(s, "up") /\ socket[s].step = "show" /\ UNCHANGED <<registered, live>>
    BY <1>0, <1>9, Snaps
  <2> QED BY <1>0, <2>1, LivesOn
<1>10. ASSUME NEW s \in Socket, Close(s) PROVE Lives'
  <2>0. s \in registered /\ ~Busy(AccountOf(s))
    BY <1>0, <1>10 DEF Close
  <2>1. socket[s].step \notin {"none", "hello"}
    BY <1>0, <2>0 DEF Greeted
  <2>2. /\ registered' = registered \ {s} /\ socket'[s].step = socket[s].step
        /\ socket'[s].client = socket[s].client /\ AccountOf(s) \in Account
        /\ \A t \in Socket \ {s} : socket'[t] = socket[t]
        /\ OnDisconnect(registered \ {s}, AccountOf(s))
    BY <1>0, <1>10, <2>1, Closing
  <2> PICK a \in Account : a = AccountOf(s)
    BY <2>2
  <2>3. /\ \A b \in Account \ {a} : live'[b] = live[b]
        /\ (\E t \in registered \ {s} : AccountOf(t) = a) => live' = live
        /\ ~(\E t \in registered \ {s} : AccountOf(t) = a) => live'[a] = "none"
    <3>1. OnDisconnect(registered \ {s}, a) 
      BY <2>2
    <3> QED BY <1>0, <3>1 DEF OnDisconnect, LiveAfter, SocketShape
  <2>4. \A t \in Socket : AccountOf(t)' = AccountOf(t)
    BY <2>2, AccountsOf
  <2>5. \A b : Online(b)' <=> \E t \in registered \ {s} : AccountOf(t) = b
    <3> TAKE b
    <3>1. \A t \in registered' : AccountOf(t)' = AccountOf(t)
      BY <1>0, <2>2, <2>4 DEF SocketShape
    <3> QED BY <2>2, <3>1, OnlineBy
  <2>6. ASSUME NEW b \in Account, live'[b] # "none" PROVE Online(b)'
    <3>1. CASE b = a
      BY <2>3, <2>5, <2>6, <3>1
    <3>2. CASE b # a
      <4>1. Online(b)
        BY <1>1, <2>3, <2>6, <3>2
      <4> QED BY <2>5, <3>2, <4>1, OnlineBy
    <3> QED BY <3>1, <3>2
  <2>7. ASSUME NEW b \in Account, Online(b)', live'[b] = "none"
        PROVE  \E t \in Socket : socket'[t].step = "pref" /\ AccountOf(t)' = b
    <3>1. Online(b) /\ live[b] = "none"
      BY <2>3, <2>5, <2>7, OnlineBy
    <3>2. PICK t \in Socket : socket[t].step = "pref" /\ AccountOf(t) = b
      BY <1>1, <3>1
    <3> QED BY <2>2, <2>4, <3>2
  <2>8. \A t \in Socket : Working(t)' /\ socket'[t].step # "hello" => t \in registered'
    <3> TAKE t \in Socket
    <3>1. CASE t = s
      <4>1. ~Working(s)
        BY <2>0 DEF Busy
      <4> QED BY <2>2, <3>1, <4>1 DEF Working
    <3>2. CASE t # s
      BY <1>1, <2>2, <3>2 DEF Working
    <3> QED BY <3>1, <3>2
  <2> QED BY <2>6, <2>7, <2>8 DEF Lives
<1>11. ASSUME NEW s \in Socket, CloseEarly(s) PROVE Lives'
  <2>1. /\ socket[s].step = "hello" /\ socket'[s].step = "hello"
        /\ socket'[s].client = socket[s].client /\ AccountOf(s) \in Account
        /\ \A t \in Socket \ {s} : socket'[t] = socket[t]
    BY <1>0, <1>11, ClosingEarly
  <2>2. registered' = registered /\ (OnDisconnect(registered, AccountOf(s)) \/ live' = live)
    BY <1>11 DEF CloseEarly
  <2>3. \A t \in Socket : AccountOf(t)' = AccountOf(t)
    BY <2>1, AccountsOf
  <2>4. \A b : Online(b)' <=> Online(b)
    <3> TAKE b
    <3>1. \A t \in registered : AccountOf(t)' = AccountOf(t)
      BY <1>0, <2>3 DEF SocketShape
    <3> QED BY <2>2, <3>1, OnlineBy
  <2>5. \A b \in Account : live'[b] = live[b] \/ (live'[b] = "none" /\ ~Online(b))
    <3>1. CASE OnDisconnect(registered, AccountOf(s))
      <4> PICK a \in Account : a = AccountOf(s)
        BY <2>1
      <4>1. /\ \A b \in Account \ {a} : live'[b] = live[b]
            /\ (\E t \in registered : AccountOf(t) = a) => live' = live
            /\ ~(\E t \in registered : AccountOf(t) = a) => live'[a] = "none"
        <5>1. OnDisconnect(registered, a) 
          BY <3>1
        <5> QED BY <1>0, <5>1 DEF OnDisconnect, LiveAfter, SocketShape
      <4> QED BY <4>1, OnlineBy
    <3>2. CASE live' = live
      BY <3>2
    <3> QED BY <2>2, <3>1, <3>2
  <2>6. ASSUME NEW b \in Account, Online(b)', live'[b] = "none"
        PROVE  \E t \in Socket : socket'[t].step = "pref" /\ AccountOf(t)' = b
    <3>1. PICK t \in Socket : socket[t].step = "pref" /\ AccountOf(t) = b
      BY <1>1, <2>4, <2>5, <2>6
    <3> QED BY <2>1, <2>3, <3>1
  <2>7. \A t \in Socket : Working(t)' /\ socket'[t].step # "hello" => t \in registered'
    BY <1>1, <2>1, <2>2 DEF Working
  <2>8. \A b \in Account : live'[b] # "none" => Online(b)'
    BY <1>1, <2>4, <2>5
  <2> QED BY <2>6, <2>7, <2>8 DEF Lives
<1>12. ASSUME NEW c \in Client, NEW status \in Statuses, SetSelf(c, status) PROVE Lives'
  <2>1. /\ UNCHANGED <<socket, registered>> /\ Of[c] \in Account
        /\ \/ Online(Of[c]) /\ live' = [live EXCEPT ![Of[c]] = status]
           \/ live' = live
    BY <1>0, <1>12, Choosing
  <2>2. status # "none"
    BY DEF Statuses, Visible
  <2> QED BY <1>0, <1>2, <2>1, <2>2 DEF SocketShape
<1>13. ASSUME NEW k \in casts, ReadTargets(k) \/ Send(k) PROVE Lives'
  <2>1. UNCHANGED <<socket, registered, live>>
    BY <1>0, <1>13, Targeting, Sends
  <2> QED BY <1>2, <2>1
<1>14. CASE Crash
  <2>1. /\ registered' = {} /\ \A a \in Account : live'[a] = "none"
        /\ \A s \in Socket : socket'[s].step \in {"none", "up"}
    BY <1>0, <1>14, Crashing
  <2>2. \A b : ~Online(b)'
    BY <2>1, OnlineBy
  <2> QED BY <2>1, <2>2 DEF Lives, Working
<1> QED
  BY <1>3, <1>4, <1>5, <1>6, <1>7, <1>8, <1>9, <1>10, <1>11, <1>12, <1>13, <1>14, Happens

-----------------------------------------------------------------------------
(* In a calm load a status is changed by one socket or one broadcast at a    *)
(* time, which knows what it is now.                                          *)

Orderly ==
  /\ \A s \in Socket : Working(s) => socket[s].open
  /\ \A s, t \in Socket : Working(s) /\ Working(t) /\ AccountOf(s) = AccountOf(t) => s = t
  /\ \A s \in Socket, k \in casts : Working(s) => AccountOf(s) # k.of
  /\ \A s \in Socket : socket[s].step = "pref" => live[AccountOf(s)] = "none" /\ socket[s].first
  /\ \A s \in Socket : socket[s].step \in {"friends", "show"} => live[AccountOf(s)] # "none"
  /\ \A k \in casts : k.status = Effective(k.of)

(* The status of an account is what it was. *)
Keeps(a) == (Online(a)' <=> Online(a)) /\ live'[a] = live[a]

LEMMA KeepsStatus ==
  ASSUME NEW a, Keeps(a)
  PROVE  Effective(a)' = Effective(a) /\ (load'.pref = load.pref => (Guessed(a)' <=> Guessed(a)))
BY DEF Keeps, Effective, Guessed

LEMMA KeepsAll ==
  ASSUME SocketShape, live' = live, registered' = registered,
         \A s \in registered : socket'[s].client = socket[s].client
  PROVE  \A a : Keeps(a)
<1> TAKE a
<1>1. \A s \in registered : AccountOf(s)' = AccountOf(s)
  BY AccountsOf
<1> QED
  BY <1>1, OnlineBy DEF Keeps

(* A status does not depend on the sockets of others. *)
LEMMA KeepsOther ==
  ASSUME SocketShape, NEW s \in Socket, NEW a \in Account, a # AccountOf(s), live'[a] = live[a],
         registered' \ {s} = registered \ {s},
         \A t \in Socket : socket'[t].client = socket[t].client
  PROVE  Keeps(a)
<1>1. \A t \in Socket : AccountOf(t)' = AccountOf(t)
  BY AccountsOf
<1>2. \A t \in registered : t # s => t \in registered' /\ AccountOf(t)' = AccountOf(t)
  BY <1>1 DEF SocketShape
<1>3. \A t \in registered' : t # s => t \in registered /\ AccountOf(t)' = AccountOf(t)
  BY <1>1 DEF SocketShape
<1>4. AccountOf(s)' # a
  BY <1>1
<1> QED
  BY <1>2, <1>3, <1>4, OnlineBy DEF Keeps

LEMMA OrderlySame ==
  ASSUME SocketShape, Orderly, UNCHANGED <<socket, registered, live>>,
         \A n \in casts' : \E k \in casts : n.of = k.of /\ n.status = k.status
  PROVE  Orderly'
<1>1. \A t : AccountOf(t)' = AccountOf(t)
  BY AccountsOf
<1>2. \A a : Effective(a)' = Effective(a)
  BY KeepsAll, KeepsStatus
<1>3. \A t \in Socket : Working(t)' <=> Working(t)
  BY DEF Working
<1>4. \A k \in casts' : k.status = Effective(k.of)'
  BY <1>2 DEF Orderly
<1>5. \A s \in Socket, k \in casts' : Working(s) => AccountOf(s) # k.of
  BY DEF Orderly
<1> QED
  BY <1>1, <1>3, <1>4, <1>5 DEF Orderly

LEMMA OrderlyOn ==
  ASSUME SocketShape, Orderly, NEW s \in Socket, NEW step, Steps(s, step),
         step \in {"friends", "show", "up"}, Working(s),
         registered' = registered, casts' = casts,
         \A b \in Account : b # AccountOf(s) => live'[b] = live[b],
         live'[AccountOf(s)] # "none" \/ step = "up"
  PROVE  Orderly'
<1>1. \A t \in Socket : AccountOf(t)' = AccountOf(t)
  BY AccountsOf DEF Steps
<1>2. \A t \in Socket : Working(t)' => Working(t)
  BY DEF Working, Steps
<1>3. \A b \in Account : b # AccountOf(s) => Effective(b)' = Effective(b)
  BY KeepsOther, KeepsStatus DEF Steps
<1>4. \A k \in casts' : k.status = Effective(k.of)'
  BY <1>3 DEF Orderly, SocketShape
<1>5. \A t \in Socket : Working(t) => AccountOf(t) \in Account
  BY PresenceAssumption DEF PresenceAssumption, AccountOf, SocketShape, Working
<1>6. \A t \in Socket : Working(t) /\ t # s => AccountOf(t) # AccountOf(s) /\ socket'[t] = socket[t]
  BY DEF Orderly, Steps
<1>7. \A t \in Socket : Working(t)' => socket'[t].open
  BY <1>2, <1>6 DEF Orderly, Steps
<1>8. \A t \in Socket : socket'[t].step = "pref" => live'[AccountOf(t)] = "none" /\ socket'[t].first
  <2> TAKE t \in Socket
  <2>1. CASE t = s
    BY <2>1 DEF Steps
  <2>2. CASE t # s /\ socket'[t].step = "pref"
    <3>1. Working(t)
      BY <2>2 DEF Working, Steps
    <3> QED BY <1>5, <1>6, <2>2, <3>1 DEF Orderly
  <2> QED BY <2>1, <2>2
<1>9. \A t \in Socket : socket'[t].step \in {"friends", "show"} => live'[AccountOf(t)] # "none"
  <2> TAKE t \in Socket
  <2>1. CASE t = s
    BY <2>1 DEF Steps
  <2>2. CASE t # s /\ socket'[t].step \in {"friends", "show"}
    <3>1. Working(t)
      BY <2>2 DEF Working, Steps
    <3> QED BY <1>5, <1>6, <2>2, <3>1 DEF Orderly
  <2> QED BY <2>1, <2>2
<1>10. \A t, u \in Socket : Working(t)' /\ Working(u)' /\ AccountOf(t)' = AccountOf(u)' => t = u
  BY <1>1, <1>2 DEF Orderly
<1>11. \A t \in Socket, k \in casts' : Working(t)' => AccountOf(t)' # k.of
  BY <1>1, <1>2 DEF Orderly
<1> QED
  BY <1>1, <1>4, <1>7, <1>8, <1>9, <1>10, <1>11 DEF Orderly

(* An account whose status is not being changed. *)
LEMMA NotBusy ==
  ASSUME NEW a, ~Busy(a)
  PROVE  /\ \A s \in Socket : Working(s) => AccountOf(s) # a
         /\ \A k \in casts : k.of # a
         /\ Lives /\ load.calm /\ a \in Account /\ Online(a) => live[a] # "none"
BY DEF Busy, Lives, Working

(* A new status, and the broadcast of it. *)
LEMMA OrderlyNew ==
  ASSUME SocketShape, Orderly, NEW a \in Account, ~Busy(a),
         \A s \in Socket : /\ socket'[s].step = socket[s].step /\ socket'[s].client = socket[s].client
                           /\ socket'[s].first = socket[s].first
                           /\ Working(s) => socket'[s].open = socket[s].open,
         \A b \in Account : b # a => Keeps(b),
         \A k \in casts' \ casts : k.of = a /\ k.status = Effective(a)'
  PROVE  Orderly'
<1>0. /\ \A s \in Socket : Working(s) => AccountOf(s) # a
      /\ \A k \in casts : k.of # a
  BY NotBusy
<1>1. \A t \in Socket : AccountOf(t)' = AccountOf(t)
  BY AccountsOf
<1>2. \A t \in Socket : Working(t)' <=> Working(t)
  BY DEF Working
<1>3. \A b \in Account : b # a => live'[b] = live[b] /\ Effective(b)' = Effective(b)
  BY KeepsStatus DEF Keeps
<1>4. \A t \in Socket : Working(t) => AccountOf(t) \in Account
  BY PresenceAssumption DEF PresenceAssumption, AccountOf, SocketShape, Working
<1>5. \A k \in casts' : k.status = Effective(k.of)'
  BY <1>0, <1>3 DEF Orderly, SocketShape
<1>6. \A t \in Socket, k \in casts' : Working(t)' => AccountOf(t)' # k.of
  BY <1>0, <1>1, <1>2 DEF Orderly
<1>7. \A t \in Socket : Working(t)' => socket'[t].open
  BY <1>2 DEF Orderly
<1>8. \A t \in Socket : Working(t) => live'[AccountOf(t)] = live[AccountOf(t)]
  BY <1>0, <1>3, <1>4
<1>9. \A t \in Socket : socket'[t].step \in {"pref", "friends", "show"} => Working(t)
  BY DEF Working
<1>10. \A t \in Socket : socket'[t].step = "pref" => live'[AccountOf(t)] = "none" /\ socket'[t].first
  BY <1>8, <1>9 DEF Orderly
<1>11. \A t \in Socket : socket'[t].step \in {"friends", "show"} => live'[AccountOf(t)] # "none"
  BY <1>8, <1>9 DEF Orderly
<1>12. \A t, u \in Socket : Working(t)' /\ Working(u)' /\ AccountOf(t)' = AccountOf(u)' => t = u
  BY <1>1, <1>2 DEF Orderly
<1> QED
  BY <1>1, <1>5, <1>6, <1>7, <1>10, <1>11, <1>12 DEF Orderly

(* What a disconnection, or a choice, does to the status of an account. *)
LEMMA ClosesStatus ==
  ASSUME Shape, Sockets, Lives, load.calm, NEW s \in Socket, Close(s), NEW a, a = AccountOf(s)
  PROVE  /\ a \in Account /\ ~Busy(a) /\ s \in registered /\ ~Working(s)
         /\ registered' = registered \ {s} /\ casts \subseteq casts'
         /\ \A t \in Socket \ {s} : socket'[t] = socket[t]
         /\ socket'[s].step = socket[s].step /\ socket'[s].open = FALSE
         /\ socket'[s].client = socket[s].client /\ socket'[s].first = socket[s].first
         /\ \A b \in Account : b # a => Keeps(b)
         /\ \A k \in casts' \ casts : k.of = a /\ k.status = Effective(a)'
         /\ \/ Keeps(a)
            \/ Effective(a)' = "offline" /\ ~Guessed(a)' /\ Effective(a) = "offline"
            \/ ~Guessed(a)' /\ \E k \in casts' : k.of = a /\ k.to = Unread
<1>0. SocketShape /\ Greeted
  BY DEF Sockets
<1>1. s \in registered /\ ~Busy(a)
  BY DEF Close
<1>2. socket[s].step \notin {"none", "hello"}
  BY <1>0, <1>1 DEF Greeted
<1>3. /\ registered' = registered \ {s} /\ a \in Account
      /\ \A t \in Socket \ {s} : socket'[t] = socket[t]
      /\ socket'[s].step = socket[s].step /\ socket'[s].open = FALSE
      /\ socket'[s].client = socket[s].client /\ socket'[s].first = socket[s].first
      /\ OnDisconnect(registered \ {s}, a)
  BY <1>0, <1>2, Closing
<1>4. ~Working(s)
  BY <1>1, NotBusy
<1>5. \A t \in Socket : AccountOf(t)' = AccountOf(t)
  BY <1>3, AccountsOf
<1>6. live' = IF \E t \in registered \ {s} : AccountOf(t) = a THEN live ELSE [live EXCEPT ![a] = "none"]
  BY <1>3 DEF OnDisconnect, LiveAfter
<1>7. casts' = IF ~(\E t \in registered \ {s} : AccountOf(t) = a) /\ live[a] # "invisible"
               THEN casts \cup {[of |-> a, status |-> "offline", to |-> Unread]} ELSE casts
  BY <1>3 DEF OnDisconnect, Leaves
<1>8. \A b \in Account : b # a => Keeps(b)
  <2> SUFFICES ASSUME NEW b \in Account, b # a PROVE Keeps(b)
    OBVIOUS
  <2>1. live'[b] = live[b]
    BY <1>0, <1>6 DEF SocketShape
  <2>2. registered' \ {s} = registered \ {s}
    BY <1>3
  <2> QED BY <1>0, <1>3, <2>1, <2>2, KeepsOther
<1>9. Online(a)' <=> \E t \in registered \ {s} : AccountOf(t) = a
  <2>1. \A t \in registered' : AccountOf(t)' = AccountOf(t)
    BY <1>0, <1>3, <1>5 DEF SocketShape
  <2> QED BY <1>3, <2>1, OnlineBy
<1>10. Online(a)
  BY <1>1, OnlineBy
<1>11. CASE \E t \in registered \ {s} : AccountOf(t) = a
  <2>1. Keeps(a) /\ casts' = casts
    BY <1>6, <1>7, <1>9, <1>10, <1>11 DEF Keeps
  <2> QED BY <1>1, <1>3, <1>4, <1>8, <2>1
<1>12. CASE ~(\E t \in registered \ {s} : AccountOf(t) = a)
  <2>1. Effective(a)' = "offline" /\ ~Guessed(a)'
    BY <1>9, <1>12 DEF Effective, Guessed
  <2>2. CASE live[a] = "invisible"
    <3>1. Effective(a) = "offline" /\ casts' = casts
      BY <1>7, <2>2 DEF Effective
    <3> QED BY <1>1, <1>3, <1>4, <1>8, <2>1, <3>1
  <2>3. CASE live[a] # "invisible"
    <3> PICK n : n = [of |-> a, status |-> "offline", to |-> Unread]
      OBVIOUS
    <3>1. casts' = casts \cup {n} /\ n.of = a /\ n.status = "offline" /\ n.to = Unread
      BY <1>7, <1>12, <2>3
    <3>2. /\ \A k \in casts' \ casts : k.of = a /\ k.status = Effective(a)'
          /\ \E k \in casts' : k.of = a /\ k.to = Unread
      BY <2>1, <3>1
    <3> QED BY <1>1, <1>3, <1>4, <1>8, <2>1, <3>1, <3>2
  <2> QED BY <2>2, <2>3
<1> QED
  BY <1>11, <1>12

LEMMA ChoosesStatus ==
  ASSUME Shape, Sockets, load.calm, NEW c \in Client, NEW status \in Statuses, SetSelf(c, status)
  PROVE  LET a == Of[c]
         IN  /\ a \in Account /\ ~Busy(a) /\ casts \subseteq casts'
             /\ UNCHANGED <<rows, call, notes, socket, registered, view, lost, unsure>>
             /\ \A b \in Account : b # a => Keeps(b)
             /\ \A k \in casts' \ casts : k.of = a /\ k.status = Effective(a)'
             /\ \/ Keeps(a) 
                \/ Effective(a)' = Effective(a) /\ ~Guessed(a)' /\ Online(a)
                \/ ~Guessed(a)' /\ \E k \in casts' : k.of = a /\ k.to = Unread
<1> PICK a : a = Of[c]
  OBVIOUS
<1> PICK after : after = IF status = "invisible" THEN "offline" ELSE status
  OBVIOUS
<1>0. SocketShape
  BY DEF Sockets
<1>1. ~Busy(a)
  BY DEF SetSelf, MayChange
<1>2. /\ a \in Account
      /\ UNCHANGED <<rows, call, notes, socket, registered, view, lost, unsure>>
      /\ \/ /\ Online(a) /\ live' = [live EXCEPT ![a] = status]
            /\ casts' = IF Effective(a) # after
                        THEN casts \cup {[of |-> a, status |-> after, to |-> Unread]} ELSE casts
         \/ UNCHANGED <<live, casts>>
  BY <1>0, Choosing
<1>3. \A t : AccountOf(t)' = AccountOf(t)
  BY <1>2, AccountsOf
<1>4. \A b : Online(b)' <=> Online(b)
  BY <1>2, <1>3, OnlineBy
<1>5. CASE UNCHANGED <<live, casts>>
  BY <1>1, <1>2, <1>4, <1>5 DEF Keeps
<1>6. CASE /\ Online(a) /\ live' = [live EXCEPT ![a] = status]
           /\ casts' = IF Effective(a) # after
                       THEN casts \cup {[of |-> a, status |-> after, to |-> Unread]} ELSE casts
  <2>1. \A b \in Account : b # a => Keeps(b)
    BY <1>0, <1>4, <1>6 DEF Keeps, SocketShape
  <2>2. live'[a] = status /\ status # "none"
    BY <1>0, <1>2, <1>6 DEF SocketShape, Statuses, Visible
  <2>3. Effective(a)' = after /\ ~Guessed(a)'
    BY <1>4, <1>6, <2>2 DEF Effective, Guessed
  <2>4. CASE Effective(a) = after
    BY <1>1, <1>2, <1>6, <2>1, <2>3, <2>4
  <2>5. CASE Effective(a) # after
    <3> PICK n : n = [of |-> a, status |-> after, to |-> Unread]
      OBVIOUS
    <3>1. casts' = casts \cup {n} /\ n.of = a /\ n.status = after /\ n.to = Unread
      BY <1>6, <2>5
    <3>2. /\ \A k \in casts' \ casts : k.of = a /\ k.status = Effective(a)'
          /\ \E k \in casts' : k.of = a /\ k.to = Unread
      BY <2>3, <3>1
    <3> QED BY <1>1, <1>2, <2>1, <2>3, <3>1, <3>2
  <2> QED BY <2>4, <2>5
<1> QED
  BY <1>2, <1>5, <1>6

LEMMA JoinsStatus ==
  ASSUME Sockets, NEW s \in Socket, Join(s)
  PROVE  /\ \A t \in Socket : AccountOf(t)' = AccountOf(t)
         /\ \A b \in Account : b # AccountOf(s) \/ Online(b) => Keeps(b)
         /\ Online(AccountOf(s))' /\ AccountOf(s) \in Account
         /\ UNCHANGED <<friendVars, live, casts, view, lost, unsure>>
<1>1. /\ SocketShape /\ registered' = registered \cup {s} /\ socket[s].client \in Client
      /\ Steps(s, IF live[AccountOf(s)] = "none" THEN "pref" ELSE "friends")
  BY Joining DEF Sockets
<1>2. UNCHANGED <<friendVars, live, casts, view, lost, unsure>>
  BY DEF Join
<1>3. \A t \in Socket : AccountOf(t)' = AccountOf(t)
  BY <1>1, AccountsOf DEF Steps
<1>4. \A t \in registered' : AccountOf(t)' = AccountOf(t)
  BY <1>1, <1>3 DEF SocketShape
<1>5. \A b : b # AccountOf(s) \/ Online(b) => Keeps(b)
  BY <1>1, <1>2, <1>4, OnlineBy DEF Keeps
<1>6. Online(AccountOf(s))'
  BY <1>1, <1>4, OnlineBy
<1>7. AccountOf(s) \in Account
  BY <1>1, PresenceAssumption DEF PresenceAssumption, AccountOf
<1> QED
  BY <1>2, <1>3, <1>5, <1>6, <1>7

LEMMA OrderlyInit == Init => Orderly
<1> SUFFICES ASSUME Init PROVE Orderly
  OBVIOUS
<1>1. casts = {} /\ socket = [s \in Socket |-> Fresh]
  BY DEF Init
<1>2. \A s \in Socket : socket[s].step = "none"
  BY <1>1, Untouched
<1> QED
  BY <1>1, <1>2 DEF Orderly, Working

LEMMA OrderlyStep ==
  ASSUME Shape, Sockets, Lives, Orderly, load.calm, [Next]_vars, lost' = {}, lost = {}
  PROVE  Orderly'
<1>0. SocketShape /\ Greeted
  BY DEF Sockets
<1>1. CASE UNCHANGED presenceVars
  BY <1>0, <1>1, OrderlySame
<1>2. ASSUME NEW i \in Slot, Announce(i) PROVE Orderly'
  BY <1>0, <1>2, OrderlySame DEF Announce
<1>3. ASSUME NEW s \in Socket, NEW c \in Client, Connect(s, c) PROVE Orderly'
  <2>1. /\ socket[s].step = "none" /\ socket'[s].step = "hello" /\ socket'[s].open
        /\ socket'[s].client = c
        /\ \A t \in Socket \ {s} : socket'[t] = socket[t]
    BY <1>0, <1>3, Connecting
  <2>2. UNCHANGED <<registered, live, casts>> /\ ~Busy(Of[c])
    BY <1>3 DEF Connect, MayChange
  <2>3. s \notin registered
    BY <1>0, <2>1 DEF Greeted
  <2>4. (\A t \in Socket \ {s} : AccountOf(t)' = AccountOf(t)) /\ AccountOf(s)' = Of[c]
    BY <2>1, AccountsOf DEF AccountOf
  <2>5. \A t \in registered : socket'[t].client = socket[t].client
    BY <1>0, <2>1, <2>3 DEF SocketShape
  <2>6. \A a : Effective(a)' = Effective(a)
    BY <1>0, <2>2, <2>5, KeepsAll, KeepsStatus
  <2>7. /\ \A t \in Socket : Working(t) => AccountOf(t) # Of[c]
        /\ \A k \in casts : k.of # Of[c]
    BY <2>2, NotBusy
  <2>8. \A t \in Socket \ {s} : Working(t)' <=> Working(t)
    BY <2>1 DEF Working
  <2>9. ASSUME NEW t \in Socket, NEW u \in Socket, Working(t)', Working(u)', AccountOf(t)' = AccountOf(u)'
        PROVE  t = u
    BY <2>4, <2>7, <2>8, <2>9 DEF Orderly
  <2>10. \A t \in Socket, k \in casts' : Working(t)' => AccountOf(t)' # k.of
    BY <2>2, <2>4, <2>7, <2>8 DEF Orderly
  <2>11. \A t \in Socket : Working(t)' => socket'[t].open
    BY <2>1, <2>8 DEF Orderly
  <2>12. \A t \in Socket : socket'[t].step = "pref" => live'[AccountOf(t)'] = "none" /\ socket'[t].first
    BY <2>1, <2>2, <2>4 DEF Orderly
  <2>13. \A t \in Socket : socket'[t].step \in {"friends", "show"} => live'[AccountOf(t)'] # "none"
    BY <2>1, <2>2, <2>4 DEF Orderly
  <2>14. \A k \in casts' : k.status = Effective(k.of)'
    BY <2>2, <2>6 DEF Orderly
  <2> QED BY <2>9, <2>10, <2>11, <2>12, <2>13, <2>14 DEF Orderly
<1>4. ASSUME NEW s \in Socket, Join(s) PROVE Orderly'
  <2> PICK step : step = IF live[AccountOf(s)] = "none" THEN "pref" ELSE "friends"
    OBVIOUS
  <2>1. /\ Steps(s, step) /\ socket[s].step = "hello"
        /\ socket'[s].first <=> SocketsOf(AccountOf(s)) = {}
    BY <1>0, <1>4, Joining
  <2>2. /\ \A t \in Socket : AccountOf(t)' = AccountOf(t)
        /\ \A b \in Account : b # AccountOf(s) => Keeps(b)
        /\ AccountOf(s) \in Account /\ UNCHANGED <<live, casts>>
    BY <1>4, JoinsStatus
  <2>3. Working(s) /\ \A t \in Socket : Working(t)' => Working(t)
    BY <2>1 DEF Working, Steps
  <2>4. \A k \in casts' : k.status = Effective(k.of)'
    <3>1. \A k \in casts : k.of \in Account /\ k.of # AccountOf(s) /\ k.status = Effective(k.of)
      BY <1>0, <2>3 DEF Orderly, SocketShape
    <3> QED BY <2>2, <3>1, KeepsStatus
  <2>5. \A t, u \in Socket : Working(t)' /\ Working(u)' /\ AccountOf(t)' = AccountOf(u)' => t = u
    BY <2>2, <2>3 DEF Orderly
  <2>6. \A t \in Socket, k \in casts' : Working(t)' => AccountOf(t)' # k.of
    BY <2>2, <2>3 DEF Orderly
  <2>7. \A t \in Socket : Working(t)' => socket'[t].open
    BY <2>1, <2>3 DEF Orderly, Steps
  <2>8. live[AccountOf(s)] = "none" => SocketsOf(AccountOf(s)) = {}
    <3> SUFFICES ASSUME live[AccountOf(s)] = "none", Online(AccountOf(s)) PROVE FALSE
      BY DEF Online
    <3>1. PICK t \in Socket : socket[t].step = "pref" /\ AccountOf(t) = AccountOf(s)
      BY <2>2 DEF Lives
    <3>2. Working(t)
      BY <3>1 DEF Working
    <3> QED BY <2>1, <2>3, <3>1, <3>2 DEF Orderly
  <2>9. \A t \in Socket : socket'[t].step = "pref" => live'[AccountOf(t)'] = "none" /\ socket'[t].first
    <3> TAKE t \in Socket
    <3>1. CASE t = s
      BY <2>1, <2>2, <2>8, <3>1 DEF Steps
    <3>2. CASE t # s
      BY <2>1, <2>2, <3>2 DEF Orderly, Steps
    <3> QED BY <3>1, <3>2
  <2>10. \A t \in Socket : socket'[t].step \in {"friends", "show"} => live'[AccountOf(t)'] # "none"
    <3> TAKE t \in Socket
    <3>1. CASE t = s
      BY <2>1, <2>2, <3>1 DEF Steps
    <3>2. CASE t # s
      BY <2>1, <2>2, <3>2 DEF Orderly, Steps
    <3> QED BY <3>1, <3>2
  <2> QED BY <2>4, <2>5, <2>6, <2>7, <2>9, <2>10 DEF Orderly
<1>5. ASSUME NEW s \in Socket, ReadPref(s) PROVE Orderly'
  <2>1. /\ Steps(s, "friends") /\ socket[s].step = "pref" /\ AccountOf(s) \in Account
        /\ live' = [live EXCEPT ![AccountOf(s)] = load.pref[AccountOf(s)]]
        /\ load.pref[AccountOf(s)] \in Statuses /\ UNCHANGED <<registered, casts>>
    BY <1>0, <1>5, Preferring
  <2>2. \A b \in Account : b # AccountOf(s) => live'[b] = live[b]
    BY <1>0, <2>1 DEF SocketShape
  <2>3. live'[AccountOf(s)] # "none"
    BY <1>0, <2>1 DEF SocketShape, Statuses, Visible
  <2>4. Working(s)
    BY <2>1 DEF Working
  <2> QED BY <1>0, <2>1, <2>2, <2>3, <2>4, OrderlyOn
<1>6. ASSUME NEW s \in Socket, ReadFriends(s) PROVE Orderly'
  <2>1. Steps(s, "show") /\ socket[s].step = "friends" /\ UNCHANGED <<registered, live, casts>>
    BY <1>0, <1>6, Befriends
  <2>2. live[AccountOf(s)] # "none"
    BY <2>1 DEF Orderly
  <2>3. Working(s)
    BY <2>1 DEF Working
  <2> QED BY <1>0, <2>1, <2>2, <2>3, OrderlyOn
<1>7. ASSUME NEW s \in Socket, Snapshot(s) PROVE Orderly'
  <2>1. Steps(s, "up") /\ socket[s].step = "show" /\ UNCHANGED <<registered, live, casts>>
    BY <1>0, <1>7, Snaps
  <2>2. Working(s)
    BY <2>1 DEF Working
  <2> QED BY <1>0, <2>1, <2>2, OrderlyOn
<1>8. ASSUME NEW s \in Socket, Close(s) PROVE Orderly'
  <2> PICK a : a = AccountOf(s)
    OBVIOUS
  <2>1. /\ a \in Account /\ ~Busy(a) /\ ~Working(s)
        /\ \A t \in Socket \ {s} : socket'[t] = socket[t]
        /\ socket'[s].step = socket[s].step
        /\ socket'[s].client = socket[s].client /\ socket'[s].first = socket[s].first
        /\ \A b \in Account : b # a => Keeps(b)
        /\ \A k \in casts' \ casts : k.of = a /\ k.status = Effective(a)'
    BY <1>0, <1>8, ClosesStatus
  <2>2. \A t \in Socket : /\ socket'[t].step = socket[t].step /\ socket'[t].client = socket[t].client
                          /\ socket'[t].first = socket[t].first
                          /\ Working(t) => socket'[t].open = socket[t].open
    BY <2>1
  <2> QED BY <1>0, <2>1, <2>2, OrderlyNew
<1>9. ASSUME NEW s \in Socket, CloseEarly(s) PROVE Orderly'
  BY <1>9 DEF CloseEarly
<1>10. ASSUME NEW c \in Client, NEW status \in Statuses, SetSelf(c, status) PROVE Orderly'
  <2> PICK a : a = Of[c]
    OBVIOUS
  <2>1. /\ a \in Account /\ ~Busy(a) /\ socket' = socket
        /\ \A b \in Account : b # a => Keeps(b)
        /\ \A k \in casts' \ casts : k.of = a /\ k.status = Effective(a)'
    BY <1>10, ChoosesStatus
  <2> QED BY <1>0, <2>1, OrderlyNew
<1>11. ASSUME NEW k \in casts, ReadTargets(k) PROVE Orderly'
  <2>1. UNCHANGED <<socket, registered, live>>
    BY <1>0, <1>11, Targeting
  <2>2. \E n \in casts' : /\ casts' \subseteq casts \cup {n}
                          /\ n.of = k.of /\ n.status = k.status /\ n.to = FriendsOf(k.of)
    BY <1>0, <1>11, Targeting
  <2> QED BY <1>0, <2>1, <2>2, OrderlySame
<1>12. ASSUME NEW k \in casts, Send(k) PROVE Orderly'
  <2>1. UNCHANGED <<socket, registered, live>> /\ casts' = casts \ {k}
    BY <1>0, <1>12, Sends
  <2> QED BY <1>0, <2>1, OrderlySame
<1>13. CASE Crash
  <2>1. casts' = {} /\ \A s \in Socket : socket'[s].step \in {"none", "up"}
    BY <1>0, <1>13, Crashing
  <2> QED BY <2>1 DEF Orderly, Working
<1> QED
  BY <1>1, <1>2, <1>3, <1>4, <1>5, <1>6, <1>7, <1>8, <1>9, <1>10, <1>11, <1>12, <1>13, Happens

-----------------------------------------------------------------------------
(* What a client sees of a friend is right, or is about to be: both are      *)
(* being introduced, the client awaits its snapshot, or a broadcast or the    *)
(* first socket of the friend will reach it.                                  *)

Here(c) == \E s \in registered : socket[s].client = c /\ socket[s].open
Introduces(p) ==
  \E i \in Slot : call[i].step \in {"found", "announce"} /\ {call[i].by, call[i].from} = p
Learning(c) == \E s \in Socket : socket[s].client = c /\ socket[s].open /\ Working(s)
Telling(c, a) ==
  \E s \in Socket : /\ AccountOf(s) = a /\ socket[s].first
                    /\ \/ socket[s].step \in {"pref", "friends"}
                       \/ socket[s].step = "show" /\ Of[c] \in socket[s].friends
Sending(c, a) == \E k \in casts : k.of = a /\ (k.to = Unread \/ Of[c] \in k.to)

(* A status guessed from a missing preference has been shown to nobody yet.   *)
Knows(c, a) ==
  IF Guessed(a) THEN view[c][a] = "offline"
  ELSE \/ view[c][a] = Effective(a)
       \/ Sending(c, a)
       \/ Telling(c, a) /\ Effective(a) # "offline"

Awaits(c, a) == Introduces({Of[c], a}) \/ Learning(c) \/ Knows(c, a)

SeenBy(c, a) ==
  a \in FriendsOf(Of[c]) /\ Here(c) /\ <<c, a>> \notin unsure => Awaits(c, a)

Seen == load.calm /\ lost = {} => Orderly /\ \A c \in Client, a \in Account : SeenBy(c, a)

LEMMA ReachedIf ==
  ASSUME NEW c \in Client, NEW A
  PROVE  c \in Reached(A) <=> Here(c) /\ Of[c] \in A
BY DEF Reached, Here

LEMMA Mutual ==
  ASSUME NEW c \in Client, NEW a, a \in FriendsOf(Of[c])
  PROVE  Of[c] \in FriendsOf(a) /\ a # Of[c] /\ a \in Account /\ Of[c] \in Account
<1>1. Of[c] \in Account /\ a \in Account \ {Of[c]} /\ {Of[c], a} \in friends
  BY PresenceAssumption DEF PresenceAssumption, FriendsOf
<1>2. {a, Of[c]} = {Of[c], a}
  OBVIOUS
<1> QED
  BY <1>1, <1>2 DEF FriendsOf

(* The calls of a pair become friends introduce them. *)
LEMMA Introductions ==
  ASSUME Shape, FriendsNext, NEW p
  PROVE  /\ Introduces(p) => Introduces(p)'
         /\ p \in friends' \ friends => Introduces(p)'
<1>0. call \in [Slot -> Calls]
  BY DEF Shape
<1>1. ASSUME UNCHANGED call, friends' \subseteq friends
      PROVE  /\ Introduces(p) => Introduces(p)'
             /\ p \in friends' \ friends => Introduces(p)'
  BY <1>1 DEF Introduces
<1>2. ASSUME NEW i \in Slot, \A j \in Slot \ {i} : call'[j] = call[j], friends' \subseteq friends,
             call[i].step \notin {"found", "announce"}
      PROVE  /\ Introduces(p) => Introduces(p)'
             /\ p \in friends' \ friends => Introduces(p)'
  BY <1>2 DEF Introduces
<1>3. ASSUME NEW i \in Slot, Asks(i)
      PROVE  /\ Introduces(p) => Introduces(p)'
             /\ p \in friends' \ friends => Introduces(p)'
  <2>1. Asked(i)
    BY <1>3, Asking
  <2> QED BY <1>2, <2>1 DEF Asked, Idle
<1>4. ASSUME NEW i \in Slot, Serve(i)
      PROVE  /\ Introduces(p) => Introduces(p)'
             /\ p \in friends' \ friends => Introduces(p)'
  <2>1. CASE Lock(i) \/ CheckBlocks(i) \/ CheckFriends(i) \/ Take(i)
    <3>1. call[i].step \notin {"found", "announce"} /\ friends' = friends
      BY <2>1 DEF Lock, CheckBlocks, CheckFriends, Take, Is
    <3>2. \A j \in Slot \ {i} : call'[j] = call[j]
      BY <1>0, <2>1 DEF Lock, CheckBlocks, CheckFriends, Take, Go, End
    <3> QED BY <1>2, <3>1, <3>2
  <2>2. CASE Gates(i) \/ Request(i)
    <3>1. call[i].step \notin {"found", "announce"} /\ friends' = friends
      BY <2>2 DEF Gates, Gate, Request, Is
    <3>2. \A j \in Slot \ {i} : call'[j] = call[j]
      BY <1>0, <2>2 DEF Gates, Gate, Request, Go, End
    <3> QED BY <1>2, <3>1, <3>2
  <2>3. CASE Store(i) \/ Sever(i)
    <3>1. call[i].step \notin {"found", "announce"} /\ friends' \subseteq friends
      BY <2>3 DEF Store, Sever, Is, Without
    <3>2. \A j \in Slot \ {i} : call'[j] = call[j]
      BY <1>0, <2>3 DEF Store, Sever, Go, End
    <3> QED BY <1>2, <3>1, <3>2
  <2>4. CASE Found(i)
    <3>1. call[i].step = "found" /\ friends' = friends
      BY <2>4 DEF Found
    <3>2. call[i] \in Acceptances \cup Answers
      BY <1>0, <3>1, Kinds
    <3>3. Go(i, "announce") /\ call[i].op \in {"accept", "acceptRequest"}
      BY <2>4, <3>2 DEF Found, Acceptances, Answers
    <3>4. /\ \A j \in Slot \ {i} : call'[j] = call[j]
          /\ call'[i].step = "announce" /\ call'[i].by = call[i].by /\ call'[i].from = call[i].from
      BY <1>0, <3>3, GoesOn
    <3> QED BY <3>1, <3>4 DEF Introduces
  <2>5. CASE Form(i) \/ FormByRequest(i)
    <3>0. PICK q : q = {call[i].by, call[i].from}
      OBVIOUS
    <3>1. call[i].op \in {"accept", "acceptRequest"} /\ call[i].step = "form"
      BY <2>5 DEF Form, FormByRequest, Is
    <3>2. CASE Form(i) /\ q \in friends
      <4>1. End(i) /\ friends' = friends
        BY <3>0, <3>2 DEF Form
      <4> QED BY <1>0, <1>2, <3>1, <4>1, Ends
    <3>3. CASE (Form(i) /\ q \notin friends) \/ FormByRequest(i)
      <4>1. Befriended(i) /\ friends' = friends \cup {q}
        BY <3>0, <3>3 DEF Form, FormByRequest
      <4>2. /\ \A j \in Slot \ {i} : call'[j] = call[j]
            /\ call'[i].step = "found" /\ {call'[i].by, call'[i].from} = q
        BY <1>0, <3>0, <3>1, <4>1, GoesOn DEF Befriended, CallsHook
      <4>3. Introduces(q)'
        BY <4>2 DEF Introduces
      <4>4. Introduces(p) => Introduces(p)'
        BY <3>1, <4>2 DEF Introduces
      <4> QED BY <4>1, <4>3, <4>4
    <3> QED BY <2>5, <3>2, <3>3
  <2> QED BY <1>4, <2>1, <2>2, <2>3, <2>4, <2>5 DEF Serve
<1>5. CASE \/ \E v \in Invite : CreateInvite(v) \/ RevokeInvite(v)
           \/ \E r \in requests : Drop(r)
           \/ \E r \in friends : RemoveFriend(r)
           \/ \E k \in blocks : Unblock(k)
  BY <1>1, <1>5 DEF CreateInvite, RevokeInvite, Drop, RemoveFriend, Unblock
<1> QED
  BY <1>3, <1>4, <1>5 DEF FriendsNext

LEMMA KnowsStill ==
  ASSUME NEW c, NEW a, Knows(c, a), Keeps(a), load'.pref = load.pref, view'[c][a] = view[c][a],
         Sending(c, a) => Sending(c, a)', Telling(c, a) => Telling(c, a)'
  PROVE  Knows(c, a)'
<1>1. Effective(a)' = Effective(a) /\ (Guessed(a)' <=> Guessed(a))
  BY KeepsStatus
<1>2. CASE Guessed(a)
  BY <1>1, <1>2 DEF Knows
<1>3. CASE ~Guessed(a)
  BY <1>1, <1>3 DEF Knows
<1> QED
  BY <1>2, <1>3

(* A step of another socket, or none. *)
LEMMA TellsStill ==
  ASSUME NEW s \in Socket, NEW c, NEW a, AccountOf(s) # a \/ ~Working(s),
         \A t \in Socket \ {s} : socket'[t] = socket[t]
  PROVE  Telling(c, a) => Telling(c, a)'
<1> SUFFICES ASSUME NEW t \in Socket, AccountOf(t) = a, socket[t].first,
                    \/ socket[t].step \in {"pref", "friends"}
                    \/ socket[t].step = "show" /\ Of[c] \in socket[t].friends
             PROVE  Telling(c, a)'
  BY DEF Telling
<1>1. t # s
  BY DEF Working
<1>2. AccountOf(t)' = AccountOf(t)
  BY <1>1, AccountsOf
<1> QED
  BY <1>1, <1>2 DEF Telling

LEMMA LearnsStill ==
  ASSUME NEW s \in Socket, NEW c, ~Working(s) \/ socket[s].client # c \/ (Working(s)' /\
           socket'[s].client = socket[s].client /\ socket'[s].open = socket[s].open),
         \A t \in Socket \ {s} : socket'[t] = socket[t]
  PROVE  Learning(c) => Learning(c)'
<1> SUFFICES ASSUME NEW t \in Socket, socket[t].client = c, socket[t].open, Working(t)
             PROVE  Learning(c)'
  BY DEF Learning
<1>1. CASE t = s
  BY <1>1 DEF Learning
<1>2. CASE t # s
  BY <1>2 DEF Learning, Working
<1> QED
  BY <1>1, <1>2

(* What a calm load has come to, before its next step. *)
Calmly ==
  /\ Shape /\ Sockets /\ Lives /\ load.calm /\ Orderly
  /\ \A c \in Client, a \in Account : SeenBy(c, a)

(* A pair that nothing new is told about. *)
LEMMA StillSeen ==
  ASSUME NEW c \in Client, NEW a \in Account, SeenBy(c, a),
         a \in FriendsOf(Of[c]), Here(c), unsure \subseteq unsure', <<c, a>> \notin unsure',
         Introduces({Of[c], a}) => Introduces({Of[c], a})',
         Learning(c) => Learning(c)',
         Knows(c, a) => Awaits(c, a)'
  PROVE  Awaits(c, a)'
BY DEF SeenBy, Awaits

LEMMA JoinSees ==
  ASSUME Calmly, load'.pref = load.pref, NEW s \in Socket, Join(s),
         NEW c \in Client, NEW a \in Account
  PROVE  SeenBy(c, a)'
<1> PICK x : x = AccountOf(s)
  OBVIOUS
<1> PICK step : step = IF live[x] = "none" THEN "pref" ELSE "friends"
  OBVIOUS
<1>0. SocketShape /\ SeenBy(c, a)
  BY DEF Calmly, Sockets
<1>1. /\ Steps(s, step) /\ socket[s].step = "hello" /\ registered' = registered \cup {s}
      /\ socket'[s].first <=> SocketsOf(x) = {}
  BY <1>0, Joining
<1>2. /\ \A t \in Socket : AccountOf(t)' = AccountOf(t)
      /\ \A b \in Account : b # x \/ Online(b) => Keeps(b)
      /\ Online(x)' /\ x \in Account
      /\ UNCHANGED <<friendVars, live, casts, view, lost, unsure>>
  BY JoinsStatus DEF Calmly
<1>3. Working(s) /\ Working(s)' /\ step \in {"pref", "friends"}
  BY <1>1 DEF Working, Steps
<1> SUFFICES ASSUME a \in FriendsOf(Of[c]), Here(c)', <<c, a>> \notin unsure PROVE Awaits(c, a)'
  BY <1>2 DEF SeenBy, FriendsOf
<1>4. CASE ~Here(c)
  <2>1. socket[s].client = c /\ socket[s].open
    BY <1>0, <1>1, <1>4 DEF Here, Steps, SocketShape
  <2>2. Learning(c)'
    BY <1>1, <1>3, <2>1 DEF Learning, Steps
  <2> QED BY <2>2 DEF Awaits
<1>5. CASE Here(c)
  <2>1. Introduces({Of[c], a}) => Introduces({Of[c], a})'
    BY <1>2 DEF Introduces
  <2>2. Learning(c) => Learning(c)'
    BY <1>1, <1>3, LearnsStill DEF Steps
  <2>3. Sending(c, a) => Sending(c, a)'
    BY <1>2 DEF Sending
  <2>4. Telling(c, a) => Telling(c, a)'
    <3> SUFFICES ASSUME NEW t \in Socket, AccountOf(t) = a, socket[t].first,
                        \/ socket[t].step \in {"pref", "friends"}
                        \/ socket[t].step = "show" /\ Of[c] \in socket[t].friends
                 PROVE  Telling(c, a)'
      BY DEF Telling
    <3>1. t # s
      BY <1>1
    <3> QED BY <1>1, <1>2, <3>1 DEF Telling, Steps
  <2>5. CASE a # x \/ Online(a)
    <3>1. Keeps(a) /\ view' = view
      BY <1>2, <2>5
    <3>2. Knows(c, a) => Knows(c, a)'
      BY <2>3, <2>4, <3>1, KnowsStill
    <3> QED BY <1>0, <1>2, <1>5, <2>1, <2>2, <3>2, StillSeen DEF Awaits
  <2>6. CASE a = x /\ ~Online(a)
    <3>1. Effective(a) = "offline" /\ ~Guessed(a) /\ live[a] = "none"
      BY <2>6 DEF Effective, Guessed, Calmly, Lives
    <3>2. ~Sending(c, a)
      BY <1>3, <2>6 DEF Sending, Calmly, Orderly
    <3>3. Knows(c, a) => view[c][a] = "offline"
      BY <3>1, <3>2 DEF Knows
    <3>4. Telling(c, a)'
      <4>1. socket'[s].step = "pref" /\ socket'[s].first
        BY <1>1, <2>6, <3>1 DEF Steps, Online
      <4> QED BY <1>2, <2>6, <4>1 DEF Telling
    <3>5. Effective(a)' = "online"
      BY <1>2, <2>6, <3>1 DEF Effective
    <3>6. Knows(c, a) => Knows(c, a)'
      <4>1. CASE Guessed(a)'
        BY <1>2, <3>3, <4>1 DEF Knows
      <4>2. CASE ~Guessed(a)'
        BY <3>4, <3>5, <4>2 DEF Knows
      <4> QED BY <4>1, <4>2
    <3> QED BY <1>0, <1>2, <1>5, <2>1, <2>2, <3>6, StillSeen DEF Awaits
  <2> QED BY <2>5, <2>6
<1> QED
  BY <1>4, <1>5

LEMMA PrefSees ==
  ASSUME Calmly, load'.pref = load.pref, NEW s \in Socket, ReadPref(s),
         NEW c \in Client, NEW a \in Account
  PROVE  SeenBy(c, a)'
<1> PICK x : x = AccountOf(s)
  OBVIOUS
<1>0. SocketShape /\ SeenBy(c, a)
  BY DEF Calmly, Sockets
<1>1. /\ Steps(s, "friends") /\ socket'[s].first = socket[s].first
      /\ socket[s].step = "pref" /\ x \in Account
      /\ live' = [live EXCEPT ![x] = load.pref[x]] /\ load.pref[x] \in Statuses
      /\ UNCHANGED <<friendVars, registered, casts, view, self, lost, unsure>>
  BY <1>0, Preferring DEF Calmly
<1>2. Working(s) /\ Working(s)'
  BY <1>1 DEF Working, Steps
<1>3. \A t \in Socket : AccountOf(t)' = AccountOf(t)
  BY <1>1, AccountsOf DEF Steps
<1>4. Here(c)' <=> Here(c)
  BY <1>0, <1>1 DEF Here, Steps, SocketShape
<1> SUFFICES ASSUME a \in FriendsOf(Of[c]), Here(c), <<c, a>> \notin unsure PROVE Awaits(c, a)'
  BY <1>1, <1>4 DEF SeenBy, FriendsOf
<1>5. Introduces({Of[c], a}) => Introduces({Of[c], a})'
  BY <1>1 DEF Introduces
<1>6. Learning(c) => Learning(c)'
  BY <1>1, <1>2, LearnsStill DEF Steps
<1>7. CASE a # x
  <2>1. live'[a] = live[a]
    BY <1>0, <1>1, <1>7 DEF SocketShape
  <2>2. Keeps(a)
    BY <1>0, <1>1, <1>7, <2>1, KeepsOther DEF Steps
  <2>3. Sending(c, a) => Sending(c, a)'
    BY <1>1 DEF Sending
  <2>4. Telling(c, a) => Telling(c, a)'
    BY <1>1, <1>7, TellsStill DEF Steps
  <2>5. Knows(c, a) => Knows(c, a)'
    BY <1>1, <2>2, <2>3, <2>4, KnowsStill
  <2> QED BY <1>0, <1>1, <1>5, <1>6, <2>5, StillSeen DEF Awaits
<1>8. CASE a = x
  <2>1. live[a] = "none" /\ socket[s].first /\ s \in registered
    BY <1>1, <1>2, <1>8 DEF Calmly, Orderly, Lives
  <2>2. Online(a) /\ Online(a)'
    BY <1>1, <1>3, <1>8, <2>1, OnlineBy
  <2>3. Telling(c, a)'
    BY <1>1, <1>3, <1>8, <2>1 DEF Telling, Steps
  <2>4. live'[a] = load.pref[a] /\ load.pref[a] # "none"
    BY <1>0, <1>1, <1>8 DEF SocketShape, Statuses, Visible
  <2>5. ~Guessed(a)'
    BY <2>4 DEF Guessed
  <2>6. CASE load.pref[a] = "invisible"
    <3>1. Guessed(a)
      BY <2>1, <2>2, <2>6 DEF Guessed
    <3>2. Effective(a)' = "offline"
      BY <2>4, <2>6 DEF Effective
    <3>3. Knows(c, a) => Knows(c, a)'
      BY <1>1, <2>5, <3>1, <3>2 DEF Knows
    <3> QED BY <1>0, <1>1, <1>5, <1>6, <3>3, StillSeen DEF Awaits
  <2>7. CASE load.pref[a] # "invisible"
    <3>1. Effective(a)' # "offline"
      BY <1>1, <1>8, <2>2, <2>4, <2>7 DEF Effective, Statuses, Visible
    <3>2. Knows(c, a)'
      BY <2>3, <2>5, <3>1 DEF Knows
    <3> QED BY <3>2 DEF Awaits
  <2> QED BY <2>6, <2>7
<1> QED
  BY <1>7, <1>8

LEMMA ListSees ==
  ASSUME Calmly, load'.pref = load.pref, NEW s \in Socket, ReadFriends(s),
         NEW c \in Client, NEW a \in Account
  PROVE  SeenBy(c, a)'
<1>0. SocketShape /\ SeenBy(c, a)
  BY DEF Calmly, Sockets
<1>1. /\ Steps(s, "show") /\ socket'[s].first = socket[s].first
      /\ socket'[s].friends = FriendsOf(AccountOf(s)) /\ socket[s].step = "friends"
      /\ UNCHANGED <<friendVars, registered, live, casts, view, self, lost, unsure>>
  BY <1>0, Befriends
<1>2. Working(s) /\ Working(s)'
  BY <1>1 DEF Working, Steps
<1>3. \A t \in Socket : AccountOf(t)' = AccountOf(t)
  BY <1>1, AccountsOf DEF Steps
<1>4. Here(c)' <=> Here(c)
  BY <1>0, <1>1 DEF Here, Steps, SocketShape
<1> SUFFICES ASSUME a \in FriendsOf(Of[c]), Here(c), <<c, a>> \notin unsure PROVE Awaits(c, a)'
  BY <1>1, <1>4 DEF SeenBy, FriendsOf
<1>5. Introduces({Of[c], a}) => Introduces({Of[c], a})'
  BY <1>1 DEF Introduces
<1>6. Learning(c) => Learning(c)'
  BY <1>1, <1>2, LearnsStill DEF Steps
<1>7. Keeps(a)
  <2>1. \A t \in registered : socket'[t].client = socket[t].client
    BY <1>0, <1>1 DEF Steps, SocketShape
  <2> QED BY <1>0, <1>1, <2>1, KeepsAll
<1>8. Telling(c, a) => Telling(c, a)'
  <2> SUFFICES ASSUME NEW t \in Socket, AccountOf(t) = a, socket[t].first,
                      \/ socket[t].step \in {"pref", "friends"}
                      \/ socket[t].step = "show" /\ Of[c] \in socket[t].friends
               PROVE  Telling(c, a)'
    BY DEF Telling
  <2>1. CASE t = s
    <3>1. Of[c] \in socket'[s].friends
      BY <1>1, <2>1, Mutual
    <3> QED BY <1>1, <1>3, <2>1, <3>1 DEF Telling, Steps
  <2>2. CASE t # s
    BY <1>1, <1>3, <2>2 DEF Telling, Steps
  <2> QED BY <2>1, <2>2
<1>9. Sending(c, a) => Sending(c, a)'
  BY <1>1 DEF Sending
<1>10. Knows(c, a) => Knows(c, a)'
  BY <1>1, <1>7, <1>8, <1>9, KnowsStill
<1> QED
  BY <1>0, <1>1, <1>5, <1>6, <1>10, StillSeen DEF Awaits

LEMMA SnapSees ==
  ASSUME Calmly, load'.pref = load.pref, NEW s \in Socket, Snapshot(s),
         NEW c \in Client, NEW a \in Account
  PROVE  SeenBy(c, a)'
<1> PICK x : x = AccountOf(s)
  OBVIOUS
<1>0. SocketShape /\ SeenBy(c, a)
  BY DEF Calmly, Sockets
<1>1. /\ Steps(s, "up") /\ socket'[s].first = socket[s].first
      /\ socket[s].step = "show" /\ socket[s].client \in Client /\ x \in Account
      /\ view'[c][a] = Sees(s, c, a)
      /\ unsure' = unsure \cup {<<socket[s].client, y>> : y \in
                {b \in FriendsOf(x) : Guessed(b) \/ b \notin socket[s].friends}}
      /\ UNCHANGED <<friendVars, registered, live, casts, self, lost>>
  BY <1>0, Snaps DEF Calmly
<1>2. Working(s) /\ socket[s].open /\ live[x] # "none"
  BY <1>1 DEF Working, Calmly, Orderly
<1>3. \A t \in Socket : AccountOf(t)' = AccountOf(t)
  BY <1>1, AccountsOf DEF Steps
<1>4. Here(c)' <=> Here(c)
  BY <1>0, <1>1 DEF Here, Steps, SocketShape
<1>5. unsure \subseteq unsure'
  BY <1>1
<1> SUFFICES ASSUME a \in FriendsOf(Of[c]), Here(c), <<c, a>> \notin unsure' PROVE Awaits(c, a)'
  BY <1>1, <1>4 DEF SeenBy, FriendsOf
<1>6. Introduces({Of[c], a}) => Introduces({Of[c], a})'
  BY <1>1 DEF Introduces
<1>7. Keeps(a)
  <2>1. \A t \in registered : socket'[t].client = socket[t].client
    BY <1>0, <1>1 DEF Steps, SocketShape
  <2> QED BY <1>0, <1>1, <2>1, KeepsAll
<1>8. Effective(a)' = Effective(a) /\ (Guessed(a)' <=> Guessed(a))
  BY <1>7, KeepsStatus
<1>9. Sending(c, a) => Sending(c, a)'
  BY <1>1 DEF Sending
<1>10. CASE c = socket[s].client
  <2>1. x = Of[c] /\ a # x
    BY <1>10, Mutual DEF AccountOf
  <2>2. ~Guessed(a) /\ a \in socket[s].friends
    BY <1>1, <1>10, <2>1
  <2>3. Sees(s, c, a) = Effective(a)
    BY <1>2, <1>10, <2>1, <2>2 DEF Sees
  <2>4. Knows(c, a)'
    BY <1>1, <1>8, <2>2, <2>3 DEF Knows
  <2> QED BY <2>4 DEF Awaits
<1>11. CASE c # socket[s].client /\ a # x
  <2>1. view'[c][a] = view[c][a]
    BY <1>1, <1>11 DEF Sees
  <2>2. Telling(c, a) => Telling(c, a)'
    BY <1>1, <1>11, TellsStill DEF Steps
  <2>3. Learning(c) => Learning(c)'
    BY <1>1, <1>11, LearnsStill DEF Steps
  <2>4. Knows(c, a) => Knows(c, a)'
    BY <1>1, <1>7, <1>9, <2>1, <2>2, KnowsStill
  <2> QED BY <1>0, <1>5, <1>6, <2>3, <2>4, StillSeen DEF Awaits
<1>12. CASE c # socket[s].client /\ a = x
  <2>1. Learning(c) => Learning(c)'
    BY <1>1, <1>12, LearnsStill DEF Steps
  <2>2. ~Guessed(a)
    BY <1>2, <1>12 DEF Guessed
  <2>3. ~Sending(c, a)
    BY <1>2, <1>12 DEF Sending, Calmly, Orderly
  <2>4. CASE socket[s].first /\ Effective(x) # "offline" /\ c \in Reached(socket[s].friends)
    <3>1. view'[c][a] = Effective(a)
      BY <1>1, <1>12, <2>4 DEF Sees
    <3> QED BY <1>8, <2>2, <3>1 DEF Awaits, Knows
  <2>5. CASE ~(socket[s].first /\ Effective(x) # "offline" /\ c \in Reached(socket[s].friends))
    <3>1. view'[c][a] = view[c][a]
      BY <1>1, <1>12, <2>5 DEF Sees
    <3>2. ~(Telling(c, a) /\ Effective(a) # "offline")
      <4> SUFFICES ASSUME NEW t \in Socket, AccountOf(t) = a, socket[t].first, Effective(a) # "offline",
                          \/ socket[t].step \in {"pref", "friends"}
                          \/ socket[t].step = "show" /\ Of[c] \in socket[t].friends
                   PROVE  FALSE
        BY DEF Telling
      <4>1. Working(t)
        BY DEF Working
      <4>2. t = s
        BY <1>2, <1>12, <4>1 DEF Calmly, Orderly
      <4>3. Of[c] \in socket[s].friends
        BY <1>1, <4>2
      <4>4. c \in Reached(socket[s].friends)
        BY <4>3, ReachedIf
      <4> QED BY <1>12, <2>5, <4>2, <4>4
    <3>3. Knows(c, a) => Knows(c, a)'
      BY <1>8, <2>2, <2>3, <3>1, <3>2 DEF Knows
    <3> QED BY <1>0, <1>5, <1>6, <2>1, <3>3, StillSeen DEF Awaits
  <2> QED BY <2>4, <2>5
<1> QED
  BY <1>10, <1>11, <1>12

(* Nothing is under way about an account that is not busy. *)
LEMMA Quiet ==
  ASSUME Calmly, NEW c, NEW a \in Account, ~Busy(a), Knows(c, a)
  PROVE  ~Guessed(a) /\ view[c][a] = Effective(a)
<1>1. /\ \A s \in Socket : Working(s) => AccountOf(s) # a
      /\ \A k \in casts : k.of # a
      /\ Online(a) => live[a] # "none"
  BY NotBusy DEF Calmly
<1>2. ~Guessed(a) /\ ~Sending(c, a) /\ ~Telling(c, a)
  BY <1>1 DEF Guessed, Sending, Telling, Working
<1> QED
  BY <1>2 DEF Knows

LEMMA CloseSees ==
  ASSUME Calmly, load'.pref = load.pref, NEW s \in Socket, Close(s),
         NEW c \in Client, NEW a \in Account
  PROVE  SeenBy(c, a)'
<1> PICK x : x = AccountOf(s)
  OBVIOUS
<1>0. SocketShape /\ SeenBy(c, a)
  BY DEF Calmly, Sockets
<1>1. /\ x \in Account /\ ~Busy(x) /\ s \in registered /\ ~Working(s)
      /\ registered' = registered \ {s} /\ casts \subseteq casts'
      /\ \A t \in Socket \ {s} : socket'[t] = socket[t]
      /\ \A b \in Account : b # x => Keeps(b)
      /\ \/ Keeps(x)
         \/ Effective(x)' = "offline" /\ ~Guessed(x)' /\ Effective(x) = "offline"
         \/ ~Guessed(x)' /\ \E k \in casts' : k.of = x /\ k.to = Unread
  BY ClosesStatus DEF Calmly
<1>2. UNCHANGED <<friendVars, view, unsure>>
  BY DEF Close
<1>3. Here(c)' => Here(c)
  BY <1>0, <1>1 DEF Here, SocketShape
<1> SUFFICES ASSUME a \in FriendsOf(Of[c]), Here(c), <<c, a>> \notin unsure PROVE Awaits(c, a)'
  BY <1>2, <1>3 DEF SeenBy, FriendsOf
<1>4. Introduces({Of[c], a}) => Introduces({Of[c], a})'
  BY <1>2 DEF Introduces
<1>5. Learning(c) => Learning(c)'
  BY <1>1, LearnsStill
<1>6. Knows(c, a) => Knows(c, a)'
  <2>1. CASE Keeps(a)
    <3>1. Sending(c, a) => Sending(c, a)'
      BY <1>1 DEF Sending
    <3>2. Telling(c, a) => Telling(c, a)'
      BY <1>1, TellsStill
    <3> QED BY <1>2, <2>1, <3>1, <3>2, KnowsStill
  <2>2. CASE a = x /\ ~Keeps(x)
    <3> SUFFICES ASSUME Knows(c, a) PROVE Knows(c, a)'
      OBVIOUS
    <3>1. view[c][a] = Effective(a)
      BY <1>1, <2>2, Quiet
    <3>2. CASE Effective(x)' = "offline" /\ ~Guessed(x)' /\ Effective(x) = "offline"
      BY <1>2, <2>2, <3>1, <3>2 DEF Knows
    <3>3. CASE ~Guessed(x)' /\ \E k \in casts' : k.of = x /\ k.to = Unread
      <4>1. Sending(c, a)'
        BY <2>2, <3>3 DEF Sending
      <4> QED BY <2>2, <3>3, <4>1 DEF Knows
    <3> QED BY <1>1, <2>2, <3>2, <3>3
  <2> QED BY <1>1, <2>1, <2>2
<1> QED
  BY <1>0, <1>2, <1>4, <1>5, <1>6, StillSeen DEF Awaits

LEMMA SetSees ==
  ASSUME Calmly, load'.pref = load.pref, NEW d \in Client, NEW status \in Statuses, SetSelf(d, status),
         NEW c \in Client, NEW a \in Account
  PROVE  SeenBy(c, a)'
<1> PICK x : x = Of[d]
  OBVIOUS
<1>0. SocketShape /\ SeenBy(c, a)
  BY DEF Calmly, Sockets
<1>1. /\ x \in Account /\ ~Busy(x) /\ casts \subseteq casts'
      /\ UNCHANGED <<rows, call, notes, socket, registered, view, lost, unsure>>
      /\ \A b \in Account : b # x => Keeps(b)
      /\ \/ Keeps(x)
         \/ Effective(x)' = Effective(x) /\ ~Guessed(x)' /\ Online(x)
         \/ ~Guessed(x)' /\ \E k \in casts' : k.of = x /\ k.to = Unread
  BY ChoosesStatus DEF Calmly
<1>2. Here(c)' <=> Here(c)
  BY <1>1 DEF Here
<1> SUFFICES ASSUME a \in FriendsOf(Of[c]), Here(c), <<c, a>> \notin unsure PROVE Awaits(c, a)'
  BY <1>1, <1>2 DEF SeenBy, FriendsOf
<1>3. Introduces({Of[c], a}) => Introduces({Of[c], a})'
  BY <1>1 DEF Introduces
<1>4. Learning(c) => Learning(c)'
  BY <1>1 DEF Learning, Working
<1>5. Knows(c, a) => Knows(c, a)'
  <2>1. CASE Keeps(a)
    <3>1. Sending(c, a) => Sending(c, a)'
      BY <1>1 DEF Sending
    <3>2. Telling(c, a) => Telling(c, a)'
      BY <1>1, AccountsOf DEF Telling
    <3> QED BY <1>1, <2>1, <3>1, <3>2, KnowsStill
  <2>2. CASE a = x /\ ~Keeps(x)
    <3> SUFFICES ASSUME Knows(c, a) PROVE Knows(c, a)'
      OBVIOUS
    <3>1. view[c][a] = Effective(a)
      BY <1>1, <2>2, Quiet
    <3>2. CASE Effective(x)' = Effective(x) /\ ~Guessed(x)'
      BY <1>1, <2>2, <3>1, <3>2 DEF Knows
    <3>3. CASE ~Guessed(x)' /\ \E k \in casts' : k.of = x /\ k.to = Unread
      <4>1. Sending(c, a)'
        BY <2>2, <3>3 DEF Sending
      <4> QED BY <2>2, <3>3, <4>1 DEF Knows
    <3> QED BY <1>1, <2>2, <3>2, <3>3
  <2> QED BY <1>1, <2>1, <2>2
<1> QED
  BY <1>0, <1>1, <1>3, <1>4, <1>5, StillSeen DEF Awaits

LEMMA TargetSees ==
  ASSUME Calmly, load'.pref = load.pref, NEW k \in casts, ReadTargets(k),
         NEW c \in Client, NEW a \in Account
  PROVE  SeenBy(c, a)'
<1>0. SocketShape /\ SeenBy(c, a)
  BY DEF Calmly, Sockets
<1>1. UNCHANGED <<friendVars, socket, registered, live, view, self, lost, unsure>>
  BY DEF ReadTargets
<1>2. \A x \in casts \ {k} : x \in casts'
  BY <1>0, Targeting
<1>3. \E n \in casts' : n.of = k.of /\ n.to = FriendsOf(k.of)
  BY <1>0, Targeting
<1>4. Here(c)' <=> Here(c)
  BY <1>1 DEF Here
<1> SUFFICES ASSUME a \in FriendsOf(Of[c]), Here(c), <<c, a>> \notin unsure PROVE Awaits(c, a)'
  BY <1>1, <1>4 DEF SeenBy, FriendsOf
<1>5. Introduces({Of[c], a}) => Introduces({Of[c], a})'
  BY <1>1 DEF Introduces
<1>6. Learning(c) => Learning(c)'
  BY <1>1 DEF Learning, Working
<1>7. Sending(c, a) => Sending(c, a)'
  <2> SUFFICES ASSUME NEW y \in casts, y.of = a, y.to = Unread \/ Of[c] \in y.to
               PROVE  Sending(c, a)'
    BY DEF Sending
  <2>1. CASE y = k
    <3>1. Of[c] \in FriendsOf(k.of)
      BY <2>1, Mutual
    <3> QED BY <1>3, <2>1, <3>1 DEF Sending
  <2>2. CASE y # k
    BY <1>2, <2>2 DEF Sending
  <2> QED BY <2>1, <2>2
<1>8. Telling(c, a) => Telling(c, a)'
  BY <1>1, AccountsOf DEF Telling
<1>9. Keeps(a)
  BY <1>0, <1>1, KeepsAll
<1>10. Knows(c, a) => Knows(c, a)'
  BY <1>1, <1>7, <1>8, <1>9, KnowsStill
<1> QED
  BY <1>0, <1>1, <1>5, <1>6, <1>10, StillSeen DEF Awaits

LEMMA SendSees ==
  ASSUME Calmly, load'.pref = load.pref, NEW k \in casts, Send(k),
         NEW c \in Client, NEW a \in Account
  PROVE  SeenBy(c, a)'
<1>0. SocketShape /\ SeenBy(c, a)
  BY DEF Calmly, Sockets
<1>1. /\ k.of \in Account /\ k.status \in Shown
      /\ view' = Show(view, k.to, k.of, k.status) /\ casts' = casts \ {k} /\ k.to # Unread
      /\ UNCHANGED <<friendVars, socket, registered, live, self, lost, unsure>>
  BY <1>0, Sends
<1>2. view \in [Client -> [Account -> Shown]]
  BY <1>0 DEF SocketShape
<1>3. Here(c)' <=> Here(c)
  BY <1>1 DEF Here
<1> SUFFICES ASSUME a \in FriendsOf(Of[c]), Here(c), <<c, a>> \notin unsure PROVE Awaits(c, a)'
  BY <1>1, <1>3 DEF SeenBy, FriendsOf
<1>4. Introduces({Of[c], a}) => Introduces({Of[c], a})'
  BY <1>1 DEF Introduces
<1>5. Learning(c) => Learning(c)'
  BY <1>1 DEF Learning, Working
<1>6. Telling(c, a) => Telling(c, a)'
  BY <1>1, AccountsOf DEF Telling
<1>7. Keeps(a)
  BY <1>0, <1>1, KeepsAll
<1>8. CASE a # k.of \/ Of[c] \notin k.to
  <2>1. view'[c][a] = view[c][a]
    <3>1. CASE a # k.of
      BY <1>1, <1>2, <3>1, ShowsOnly
    <3>2. CASE Of[c] \notin k.to
      <4>1. c \notin Reached(k.to)
        BY <3>2, ReachedIf
      <4> QED BY <1>1, <4>1, ShowsNone
    <3> QED BY <1>8, <3>1, <3>2
  <2>2. Sending(c, a) => Sending(c, a)'
    BY <1>1, <1>8 DEF Sending
  <2>3. Knows(c, a) => Knows(c, a)'
    BY <1>1, <1>6, <1>7, <2>1, <2>2, KnowsStill
  <2> QED BY <1>0, <1>1, <1>4, <1>5, <2>3, StillSeen DEF Awaits
<1>9. CASE a = k.of /\ Of[c] \in k.to
  <2>1. c \in Reached(k.to)
    BY <1>9, ReachedIf
  <2>2. view'[c][a] = k.status
    BY <1>1, <1>2, <1>9, <2>1, ShowsTo
  <2>3. k.status = Effective(a) /\ \A s \in Socket : Working(s) => AccountOf(s) # a
    BY <1>9 DEF Calmly, Orderly
  <2>4. ~Guessed(a)
    <3> SUFFICES ASSUME Online(a), live[a] = "none" PROVE FALSE
      BY DEF Guessed
    <3>1. PICK s \in Socket : socket[s].step = "pref" /\ AccountOf(s) = a
      BY DEF Calmly, Lives
    <3> QED BY <2>3, <3>1 DEF Working
  <2>5. Effective(a)' = Effective(a) /\ ~Guessed(a)'
    BY <1>7, <2>4, KeepsStatus
  <2> QED BY <2>2, <2>3, <2>5 DEF Awaits, Knows
<1> QED
  BY <1>8, <1>9

LEMMA AnnounceSees ==
  ASSUME Calmly, load'.pref = load.pref, NEW i \in Slot, Announce(i),
         NEW c \in Client, NEW a \in Account
  PROVE  SeenBy(c, a)'
<1> PICK x, y : x = call[i].by /\ y = call[i].from
  OBVIOUS
<1> PICK ex, ey, v, w : /\ ex = Effective(x) /\ ey = Effective(y) /\ v = view
                        /\ w = Show(v, {x}, y, ey)
  OBVIOUS
<1>0. SocketShape /\ Shape /\ SeenBy(c, a)
  BY DEF Calmly, Sockets
<1>1. /\ x \in Account /\ y \in Account /\ x # y
      /\ view' = Show(w, {y}, x, ex) /\ w \in [Client -> [Account -> Shown]]
  BY <1>0, Announcing
<1>2. /\ unsure' = unsure \cup {k \in Client \X {x, y} : k[2] # Of[k[1]] /\ Guessed(k[2])}
      /\ End(i) /\ UNCHANGED <<rows, notes, load, socket, registered, live, casts, self, lost>>
  BY DEF Announce
<1>3. v \in [Client -> [Account -> Shown]] /\ ex \in Shown /\ ey \in Shown
  BY <1>0, <1>1, Statuses3 DEF SocketShape
<1>a. PICK n : n = view'
  OBVIOUS
<1>b. /\ c \in Reached({x}) /\ a = y => n[c][a] = ey
      /\ c \in Reached({y}) /\ a = x => n[c][a] = ex
      /\ ~(c \in Reached({x}) /\ a = y) /\ ~(c \in Reached({y}) /\ a = x) => n[c][a] = v[c][a]
  <2>1. n = Show(w, {y}, x, ex) /\ w = Show(v, {x}, y, ey)
    BY <1>1, <1>a
  <2>2. v[c] \in [Account -> Shown] /\ w[c] \in [Account -> Shown]
    BY <1>1, <1>3
  <2>3. /\ w[c] = IF c \in Reached({x}) THEN [v[c] EXCEPT ![y] = ey] ELSE v[c]
        /\ n[c] = IF c \in Reached({y}) THEN [w[c] EXCEPT ![x] = ex] ELSE w[c]
    BY <2>1 DEF Show
  <2> QED BY <1>1, <2>2, <2>3
<1>4. Here(c)' <=> Here(c)
  BY <1>2 DEF Here
<1>5. unsure \subseteq unsure'
  BY <1>2
<1> SUFFICES ASSUME a \in FriendsOf(Of[c]), Here(c), <<c, a>> \notin unsure' PROVE Awaits(c, a)'
  BY <1>2, <1>4 DEF SeenBy, FriendsOf
<1>6. Keeps(a)
  BY <1>0, <1>2, KeepsAll
<1>7. Effective(a)' = Effective(a) /\ (Guessed(a)' <=> Guessed(a))
  BY <1>2, <1>6, KeepsStatus
<1>8. CASE {Of[c], a} = {x, y}
  <2>0. a # Of[c]
    BY Mutual
  <2>1. (Of[c] = x /\ a = y) \/ (Of[c] = y /\ a = x)
    BY <1>8, <2>0
  <2>2. ~Guessed(a)
    BY <1>2, <2>0, <2>1
  <2>3. view'[c][a] = Effective(a)
    <3>1. CASE Of[c] = x /\ a = y
      <4>1. c \in Reached({x})
        BY <3>1, ReachedIf
      <4> QED BY <1>a, <1>b, <3>1, <4>1
    <3>2. CASE Of[c] = y /\ a = x
      <4>1. c \in Reached({y})
        BY <3>2, ReachedIf
      <4> QED BY <1>a, <1>b, <3>2, <4>1
    <3> QED BY <2>1, <3>1, <3>2
  <2> QED BY <1>7, <2>2, <2>3 DEF Awaits, Knows
<1>9. CASE {Of[c], a} # {x, y}
  <2>1. ~(c \in Reached({x}) /\ a = y) /\ ~(c \in Reached({y}) /\ a = x)
    BY <1>9, ReachedIf
  <2>2. view'[c][a] = view[c][a]
    BY <1>a, <1>b, <2>1
  <2>3. Introduces({Of[c], a}) => Introduces({Of[c], a})'
    <3> SUFFICES ASSUME NEW j \in Slot, call[j].step \in {"found", "announce"},
                        {call[j].by, call[j].from} = {Of[c], a}
                 PROVE  Introduces({Of[c], a})'
      BY DEF Introduces
    <3>1. j # i
      BY <1>9
    <3>2. call'[j] = call[j]
      BY <1>0, <1>2, <3>1, Ends DEF Shape
    <3> QED BY <3>2 DEF Introduces
  <2>4. Learning(c) => Learning(c)'
    BY <1>2 DEF Learning, Working
  <2>5. Telling(c, a) => Telling(c, a)'
    BY <1>2, AccountsOf DEF Telling
  <2>6. Sending(c, a) => Sending(c, a)'
    BY <1>2 DEF Sending
  <2>7. Knows(c, a) => Knows(c, a)'
    BY <1>2, <1>6, <2>2, <2>5, <2>6, KnowsStill
  <2> QED BY <1>0, <1>5, <2>3, <2>4, <2>7, StillSeen DEF Awaits
<1> QED
  BY <1>8, <1>9

LEMMA ConnectSees ==
  ASSUME Calmly, load'.pref = load.pref, NEW s \in Socket, NEW d \in Client, Connect(s, d),
         NEW c \in Client, NEW a \in Account
  PROVE  SeenBy(c, a)'
<1>0. SocketShape /\ Greeted /\ SeenBy(c, a)
  BY DEF Calmly, Sockets
<1>1. /\ socket[s].step = "none" /\ \A t \in Socket \ {s} : socket'[t] = socket[t]
      /\ UNCHANGED <<friendVars, registered, live, casts, view, self, lost, unsure>>
  BY <1>0, Connecting DEF Connect
<1>2. s \notin registered /\ ~Working(s)
  BY <1>0, <1>1 DEF Greeted, Working
<1>3. \A t \in registered : socket'[t] = socket[t]
  BY <1>0, <1>1, <1>2 DEF SocketShape
<1>4. Here(c)' <=> Here(c)
  BY <1>1, <1>3 DEF Here
<1> SUFFICES ASSUME a \in FriendsOf(Of[c]), Here(c), <<c, a>> \notin unsure PROVE Awaits(c, a)'
  BY <1>1, <1>4 DEF SeenBy, FriendsOf
<1>5. Introduces({Of[c], a}) => Introduces({Of[c], a})'
  BY <1>1 DEF Introduces
<1>6. Learning(c) => Learning(c)'
  BY <1>1, <1>2, LearnsStill
<1>7. Telling(c, a) => Telling(c, a)'
  BY <1>1, <1>2, TellsStill
<1>8. Sending(c, a) => Sending(c, a)'
  BY <1>1 DEF Sending
<1>9. Keeps(a)
  BY <1>0, <1>1, <1>3, KeepsAll
<1>10. Knows(c, a) => Knows(c, a)'
  BY <1>1, <1>7, <1>8, <1>9, KnowsStill
<1> QED
  BY <1>0, <1>1, <1>5, <1>6, <1>10, StillSeen DEF Awaits

LEMMA FriendsSee ==
  ASSUME Calmly, load'.pref = load.pref, FriendsNext \/ UNCHANGED friendVars, UNCHANGED presenceVars,
         NEW c \in Client, NEW a \in Account
  PROVE  SeenBy(c, a)'
<1>0. SocketShape /\ Shape /\ SeenBy(c, a)
  BY DEF Calmly, Sockets
<1>1. UNCHANGED <<socket, registered, live, casts, view, self, lost, unsure>>
  OBVIOUS
<1>2. PICK p : p = {Of[c], a}
  OBVIOUS
<1>3. /\ Introduces(p) => Introduces(p)'
      /\ p \in friends' \ friends => Introduces(p)'
  <2>1. CASE FriendsNext
    BY <1>0, <2>1, Introductions
  <2>2. CASE UNCHANGED friendVars
    BY <2>2 DEF Introduces
  <2> QED BY <2>1, <2>2
<1>4. Here(c)' <=> Here(c)
  BY <1>1 DEF Here
<1> SUFFICES ASSUME a \in FriendsOf(Of[c])', Here(c), <<c, a>> \notin unsure PROVE Awaits(c, a)'
  BY <1>1, <1>4 DEF SeenBy
<1>5. CASE a \notin FriendsOf(Of[c])
  <2>1. p \in friends' \ friends
    BY <1>2, <1>5 DEF FriendsOf
  <2> QED BY <1>2, <1>3, <2>1 DEF Awaits
<1>6. CASE a \in FriendsOf(Of[c])
  <2>1. Learning(c) => Learning(c)'
    BY <1>1 DEF Learning, Working
  <2>2. Telling(c, a) => Telling(c, a)'
    BY <1>1, AccountsOf DEF Telling
  <2>3. Sending(c, a) => Sending(c, a)'
    BY <1>1 DEF Sending
  <2>4. Keeps(a)
    BY <1>0, <1>1, KeepsAll
  <2>5. Knows(c, a) => Knows(c, a)'
    BY <1>1, <2>2, <2>3, <2>4, KnowsStill
  <2> QED BY <1>0, <1>1, <1>2, <1>3, <1>6, <2>1, <2>5, StillSeen DEF Awaits
<1> QED
  BY <1>5, <1>6

LEMMA SeenInit == Init => Seen
<1> SUFFICES ASSUME Init PROVE Seen
  OBVIOUS
<1>1. Orderly
  BY OrderlyInit
<1>2. \A c : ~Here(c)
  BY DEF Init, Here
<1> QED
  BY <1>1, <1>2 DEF Seen, SeenBy

LEMMA SeenStep == Shape /\ Sockets /\ Lives /\ Seen /\ [Next]_vars => Seen'
<1> SUFFICES ASSUME Shape, Sockets, Lives, Seen, [Next]_vars, load'.calm, lost' = {}
             PROVE  Orderly' /\ \A c \in Client, a \in Account : SeenBy(c, a)'
  BY DEF Seen
<1>0. load.calm /\ load'.pref = load.pref
  BY SameLoad
<1>1. lost = {}
  <2>1. lost \subseteq lost'
    <3>1. CASE UNCHANGED presenceVars
      BY <3>1
    <3>2. ASSUME NEW s \in Socket, Join(s) \/ ReadPref(s) \/ ReadFriends(s) \/ Snapshot(s)
                                     \/ Close(s) \/ CloseEarly(s) \/ \E c \in Client : Connect(s, c)
          PROVE  lost \subseteq lost'
      BY <3>2 DEF Join, ReadPref, ReadFriends, Snapshot, Close, CloseEarly, Connect
    <3>3. CASE \/ \E i \in Slot : Announce(i)
               \/ \E c \in Client, status \in Statuses : SetSelf(c, status)
               \/ \E k \in casts : ReadTargets(k) \/ Send(k)
               \/ Crash
      BY <3>3 DEF Announce, SetSelf, ReadTargets, Send, Crash
    <3> QED BY <3>1, <3>2, <3>3, Happens
  <2> QED BY <2>1
<1>2. Calmly
  BY <1>0, <1>1 DEF Calmly, Seen
<1>3. Orderly'
  BY <1>0, <1>1, <1>2, OrderlyStep DEF Calmly
<1>4. ASSUME NEW c \in Client, NEW a \in Account PROVE SeenBy(c, a)'
  <2>1. CASE (FriendsNext \/ UNCHANGED friendVars) /\ UNCHANGED presenceVars
    BY <1>0, <1>2, <2>1, FriendsSee
  <2>2. CASE \E i \in Slot : Announce(i)
    BY <1>0, <1>2, <2>2, AnnounceSees
  <2>3. ASSUME NEW s \in Socket, Work(s) PROVE SeenBy(c, a)'
    BY <1>0, <1>2, <2>3, JoinSees, PrefSees, ListSees, SnapSees DEF Work
  <2>4. ASSUME NEW s \in Socket, Close(s) PROVE SeenBy(c, a)'
    BY <1>0, <1>2, <2>4, CloseSees
  <2>5. ASSUME NEW s \in Socket, CloseEarly(s) PROVE FALSE
    BY <2>5 DEF CloseEarly
  <2>6. ASSUME NEW s \in Socket, NEW d \in Client, Connect(s, d) PROVE SeenBy(c, a)'
    BY <1>0, <1>2, <2>6, ConnectSees
  <2>7. ASSUME NEW d \in Client, NEW status \in Statuses, SetSelf(d, status) PROVE SeenBy(c, a)'
    BY <1>0, <1>2, <2>7, SetSees
  <2>8. CASE Broadcasts
    BY <1>0, <1>2, <2>8, TargetSees, SendSees DEF Broadcasts
  <2>9. CASE Crash
    BY <2>9 DEF Crash, SeenBy, Here
  <2> QED BY <2>1, <2>2, <2>3, <2>4, <2>5, <2>6, <2>7, <2>8, <2>9 DEF Next
<1> QED
  BY <1>3, <1>4

(* Everybody is seen as they are once all has settled, for every number of   *)
(* accounts, clients and sockets (PresenceService): what a client sees of a   *)
(* friend, who has a live status and who is in the registry.                  *)
THEOREM PresenceHolds == Spec => []PresenceInvariant
<1> DEFINE I == Shape /\ Sockets /\ Lives /\ Seen
<1>1. Init => I
  <2> SUFFICES ASSUME Init PROVE I
    OBVIOUS
  <2>1. Lives
    <3>1. \A s \in Socket : socket[s].step = "none"
      BY Untouched DEF Init
    <3>2. \A a \in Account : ~Online(a) /\ live[a] = "none"
      BY DEF Init, Online, SocketsOf
    <3> QED BY <3>1, <3>2 DEF Lives, Working
  <2> QED BY <2>1, ShapeInit, SocketsInit, SeenInit
<1>2. I /\ [Next]_vars => I'
  BY ShapeStep, SocketsStep, LivesStep, SeenStep
<1>3. I => PresenceInvariant
  <2> SUFFICES ASSUME I PROVE PresenceInvariant
    OBVIOUS
  <2>1. PeopleTypeOK
    BY DEF PeopleTypeOK, Shape, Sockets, SocketShape, Shown
  <2>2. NoGhosts
    BY DEF NoGhosts, Sockets, Greeted
  <2>3. LiveWhileOnline
    BY DEF LiveWhileOnline, Lives, Settled, Working
  <2>4. StatusSeen
    <3> SUFFICES ASSUME Settled, load.calm, lost = {}, NEW c \in Client, NEW a \in FriendsOf(Of[c]),
                        c \in Reached({Of[c]}), <<c, a>> \notin unsure
                 PROVE  view[c][a] = Effective(a)
      BY DEF StatusSeen
    <3>1. a \in Account
      BY DEF FriendsOf
    <3>2. Here(c)
      BY ReachedIf
    <3>3. Awaits(c, a)
      BY <3>1, <3>2 DEF Seen, SeenBy
    <3>4. ~Introduces({Of[c], a}) /\ ~Learning(c) /\ ~Sending(c, a) /\ ~Telling(c, a)
      BY DEF Settled, Introduces, Idle, Learning, Sending, Telling, Working
    <3>5. ~Guessed(a)
      <4> SUFFICES ASSUME Online(a), live[a] = "none" PROVE FALSE
        BY DEF Guessed
      <4>1. PICK s \in Socket : socket[s].step = "pref"
        BY <3>1 DEF Lives
      <4> QED BY <4>1 DEF Settled, Working
    <3> QED BY <3>3, <3>4, <3>5 DEF Awaits, Knows
  <2> QED BY <2>1, <2>2, <2>3, <2>4 DEF PresenceInvariant
<1> HIDE DEF I
<1> QED
  BY <1>1, <1>2, <1>3, PTL DEF Spec
=============================================================================
