-------------------------- MODULE MlsChannelProofs --------------------------
(* Proofs about an MLS channel, for every set of accounts, every bound and   *)
(* every load: what shows ready is counted by the server, and who is out     *)
(* stays out.                                                                *)
EXTENDS MlsChannelProps, TLAPS

USE DEF serverVars, historyVars, vars

-----------------------------------------------------------------------------
(* Types *)

Jobs ==
  {NoJob}
    \cup [op : {"found"}, step : {"post"}]
    \cup [op : {"open", "join"}, step : {"answer"}, info : States \cup {None}, tries : Nat]
    \cup [op : {"open", "join"}, step : {"post"}, base : Seq(Account), tries : Nat]
    \cup [op : {"sweep"}, step : {"build"}, who : Account]
    \cup [op : {"sweep"}, step : {"post"}, who : Account, base : Seq(Account)]

Checks ==
  {NoCheck}
    \cup [step : {"due"}]
    \cup [step : {"fetch"}, epoch : Nat]
    \cup [step : {"judge"}, epoch : Nat, tree : SUBSET Account, trusted : BOOLEAN]

Clients ==
  [mem : States \cup {None}, known : BOOLEAN, disk : States \cup {None}, cursor : Nat,
   ready : BOOLEAN, status : {"idle", "joining", "ready", "locked", "pending", "untrusted"},
   untrusted : BOOLEAN, held : Nat, job : Jobs, check : Checks,
   vetted : [epoch : Nat, tree : SUBSET Account]]

Rows == [by : Account, base : Seq(Account), adds : SUBSET Account, removes : SUBSET Account,
         to : SUBSET Account]

(* The server: its rows are typed, the owner stays, and the GroupInfo is of *)
(* the epoch the log has reached.                                           *)
ServerShape ==
  /\ load \in Loads
  /\ member \subseteq Account /\ leaves \subseteq Account /\ capped \subseteq Account
  /\ chan \in [Account -> {"none", "active", "removed"}]
  /\ epoch \in 0 .. MaxEpoch /\ pending \in BOOLEAN
  /\ info \in States \cup {None}
  /\ log \in Seq(Rows)
  /\ gone \in [Account -> Nat]
  /\ swept \subseteq Account /\ expelled \subseteq swept /\ failed \subseteq Account
  /\ Owner \in member /\ chan[Owner] = "active" /\ Owner \notin swept
  /\ info # None => Len(info.line) = Len(log)
  /\ \A n \in 1 .. Len(log) : Len(log[n].base) = n - 1
  /\ info = None => log = << >> /\ leaves = {}

Sends(c) == c.job.op # "none" /\ c.job.step = "post"
Enters(c) == c.job.op \in {"open", "join"}

(* A device: what it is about to post is the state it holds and has stored; *)
(* it posts a join only while it does not show the channel ready.           *)
Fits(d, c) ==
  /\ c.disk \in {None, c.mem}
  /\ c.known => c.mem # None
  /\ c.cursor <= Len(log) /\ c.held <= epoch
  /\ Sends(c) => c.mem # None /\ c.disk = c.mem
  /\ c.job.op = "found" => d = Owner /\ c.mem = [line |-> << >>, tree |-> {Owner}]
  /\ Enters(c) => c.check = NoCheck
  /\ (Enters(c) /\ c.job.step = "answer" /\ c.job.info # None) => info # None
  /\ (Enters(c) /\ c.job.step = "post") =>
       c.mem.line = Append(c.job.base, d) /\ ~c.ready /\ c.status # "ready"
  /\ c.job.op = "sweep" => d = Owner /\ c.mem # None /\ c.job.who \in swept
  /\ (c.job.op = "sweep" /\ c.job.step = "post") => c.mem.line = Append(c.job.base, d)
  /\ c.check.step = "fetch" => c.known

Devices == client \in [Account -> Clients] /\ \A d \in Account : Fits(d, client[d])

Shape == ServerShape /\ Devices

(* Nothing a device relies on goes away. *)
Grows ==
  /\ Len(log) <= Len(log') /\ epoch <= epoch'
  /\ info # None => info' # None
  /\ swept \subseteq swept'

(* A device that posts its founding or its join. *)
Flies(c) == Sends(c) /\ c.job.op # "sweep"

(* A device that takes itself for a member of the group. *)
Claims(c) == c.ready \/ c.known \/ c.mem # None \/ c.status = "ready"

Serves(d, c) == c.ready /\ c.mem # None /\ c.disk = c.mem /\ Active(d) /\ d \in leaves

(* What the steps of a device, from k to c, have in common: it claims       *)
(* nothing new; its state and its sweep go on, if it is a working member;   *)
(* and a device in a founded group posts a join only if it was not ready.   *)
Keeps(d, k, c) ==
  /\ (Claims(c) /\ ~Flies(c)) => (Claims(k) /\ ~Flies(k)) \/ d \in leaves' \/ d \in failed'
  /\ (Serves(d, k) /\ d \notin failed') =>
       /\ c.ready /\ c.mem = k.mem /\ c.disk = k.mem
       /\ c.job = k.job \/ (c.job.op # "sweep" /\ k.job.op # "sweep")
  /\ (Enters(c) /\ c.job.step = "post") =>
       (Enters(k) /\ k.job.step = "post") \/ (info # None /\ ~k.ready)

(* Its verdict on the channel stands, or begins anew. *)
SameVerdict(k, c) ==
  /\ (c.vetted = k.vetted /\ c.untrusted = k.untrusted) \/ c.vetted = [epoch |-> 0, tree |-> {}]
  /\ c.check = k.check \/ c.check.step \in {"none", "due"}

Alone(d) == \A e \in Account \ {d} : client'[e] = client[e]

Goes(d) ==
  /\ Alone(d)
  /\ Keeps(d, client[d], client'[d])
  /\ SameVerdict(client[d], client'[d])

-----------------------------------------------------------------------------
(* Jobs, checks and states *)

(* What a job of each kind carries. *)
LEMMA JobFields ==
  ASSUME NEW j \in Jobs
  PROVE  /\ j.op \in {"none", "found", "open", "join", "sweep"}
         /\ j.op = "none" <=> j = NoJob
         /\ j.op = "found" => j.step = "post"
         /\ j.op # "none" => j.step \in {"answer", "build", "post"}
         /\ j.op \in {"open", "join"} => j.step \in {"answer", "post"} /\ j.tries \in Nat
         /\ j.op \in {"open", "join"} /\ j.step = "answer" => j.info \in States \cup {None}
         /\ j.op \in {"open", "join"} /\ j.step = "post" => j.base \in Seq(Account)
         /\ j.op = "sweep" => j.who \in Account /\ j.step \in {"build", "post"}
         /\ (j.op = "sweep" /\ j.step = "post") => j.base \in Seq(Account)
BY DEF Jobs, NoJob

LEMMA JobKinds ==
  /\ NoJob \in Jobs
  /\ [op |-> "found", step |-> "post"] \in Jobs
  /\ \A op \in {"open", "join"}, i \in States \cup {None}, n \in Nat :
       [op |-> op, step |-> "answer", info |-> i, tries |-> n] \in Jobs
  /\ \A op \in {"open", "join"}, b \in Seq(Account), n \in Nat :
       [op |-> op, step |-> "post", base |-> b, tries |-> n] \in Jobs
  /\ \A a \in Account : [op |-> "sweep", step |-> "build", who |-> a] \in Jobs
  /\ \A a \in Account, b \in Seq(Account) :
       [op |-> "sweep", step |-> "post", who |-> a, base |-> b] \in Jobs
BY DEF Jobs

LEMMA CheckFields ==
  ASSUME NEW k \in Checks
  PROVE  /\ k.step \in {"none", "due", "fetch", "judge"}
         /\ k.step \in {"fetch", "judge"} => k.epoch \in Nat
         /\ k.step = "judge" => k.tree \subseteq Account /\ k.trusted \in BOOLEAN
BY DEF Checks, NoCheck

LEMMA CheckKinds ==
  /\ NoCheck \in Checks /\ NoCheck.step = "none" /\ [step |-> "due"] \in Checks
  /\ \A e \in Nat : [step |-> "fetch", epoch |-> e] \in Checks
  /\ \A e \in Nat, t \in SUBSET Account, b \in BOOLEAN :
       [step |-> "judge", epoch |-> e, tree |-> t, trusted |-> b] \in Checks
BY DEF Checks, NoCheck

LEMMA ClientFields ==
  ASSUME NEW c \in Clients
  PROVE  /\ c.mem \in States \cup {None} /\ c.disk \in States \cup {None}
         /\ c.known \in BOOLEAN /\ c.ready \in BOOLEAN /\ c.untrusted \in BOOLEAN
         /\ c.cursor \in Nat /\ c.held \in Nat
         /\ c.job \in Jobs /\ c.check \in Checks
         /\ c.status \in {"idle", "joining", "ready", "locked", "pending", "untrusted"}
         /\ c.vetted.epoch \in Nat /\ c.vetted.tree \subseteq Account
BY DEF Clients

LEMMA StateFields ==
  /\ None \notin States
  /\ \A s \in States : s.line \in Seq(Account) /\ s.tree \subseteq Account
  /\ \A l \in Seq(Account), t \in SUBSET Account : [line |-> l, tree |-> t] \in States
BY ChannelAssumption DEF States

LEMMA Extended ==
  ASSUME NEW s \in States, NEW d \in Account, NEW out \in SUBSET Account
  PROVE  /\ Joined(d, s) \in States /\ Joined(d, s).line = Append(s.line, d)
         /\ Evicted(d, s, out) \in States /\ Evicted(d, s, out).line = Append(s.line, d)
         /\ Len(Append(s.line, d)) = Len(s.line) + 1
BY DEF States, Joined, Evicted

-----------------------------------------------------------------------------
(* Steps of one device *)

LEMMA FreshClient == Fresh \in Clients
<1>1. NoJob \in Jobs /\ NoCheck \in Checks
  BY JobKinds, CheckKinds
<1>. QED  BY <1>1 DEF Fresh, Clients

LEMMA StillFits ==
  ASSUME Grows, NEW d \in Account, NEW c \in Clients, Fits(d, c), ServerShape, ServerShape'
  PROVE  Fits(d, c)'
<1>1. Len(log) \in Nat /\ Len(log') \in Nat /\ epoch \in Nat /\ epoch' \in Nat
  BY DEF ServerShape
<1>2. c.cursor \in Nat /\ c.held \in Nat
  BY ClientFields
<1>. QED  BY <1>1, <1>2 DEF Fits, Grows, Sends, Enters

(* A step of one device concerns that device. *)
LEMMA Moves ==
  ASSUME Shape, ServerShape', Grows, NEW d \in Account, NEW c \in Clients, Turn(d, c), Fits(d, c)'
  PROVE  Shape' /\ client'[d] = c /\ \A e \in Account \ {d} : client'[e] = client[e]
<1>1. /\ client' \in [Account -> Clients] /\ client'[d] = c
      /\ \A e \in Account \ {d} : client'[e] = client[e]
  BY DEF Turn, Shape, Devices
<1>2. ASSUME NEW e \in Account PROVE Fits(e, client[e])'
  <2>1. CASE e = d
    BY <2>1, <1>1 DEF Fits, Sends, Enters
  <2>2. CASE e # d
    <3>1. PICK k : k = client[e]
      OBVIOUS
    <3>2. k \in Clients /\ Fits(e, k)
      BY <3>1 DEF Shape, Devices
    <3>3. Fits(e, k)'
      BY <3>2, StillFits DEF Shape
    <3>. QED  BY <3>1, <3>3, <1>1, <2>2 DEF Fits, Sends, Enters
  <2>. QED  BY <2>1, <2>2
<1>. QED  BY <1>1, <1>2 DEF Shape, Devices, Fits, Sends, Enters

(* A step of the server alone. *)
LEMMA Stays ==
  ASSUME Shape, ServerShape', Grows, UNCHANGED client
  PROVE  Shape'
<1>1. ASSUME NEW e \in Account PROVE Fits(e, client[e])'
  <2>1. PICK k : k = client[e]
    OBVIOUS
  <2>2. k \in Clients /\ Fits(e, k)
    BY <2>1 DEF Shape, Devices
  <2>3. Fits(e, k)'
    BY <2>2, StillFits DEF Shape
  <2>. QED  BY <2>1, <2>3 DEF Fits, Sends, Enters
<1>. QED  BY <1>1 DEF Shape, Devices, Fits, Sends, Enters

(* A step that leaves the rows of the server alone. *)
LEMMA Quiet ==
  ASSUME ServerShape, UNCHANGED <<serverVars, gone, swept, expelled, load>>,
         failed' \subseteq Account
  PROVE  ServerShape' /\ Grows
BY DEF ServerShape, Grows
-----------------------------------------------------------------------------
(* Every action keeps the shape *)

(* What a handled row makes of the state. *)
Received(c, row) ==
  [line |-> Append(row.base, row.by), tree |-> (c.mem.tree \cup row.adds) \ row.removes]

(* A device that handles a row stays where it is, but for its cursor, or    *)
(* moves down the line of its state.                                        *)
Handles(d, k, c, s) ==
  LET n == k.cursor + 1
  IN  /\ n \in 1 .. Len(log) /\ k.disk # None /\ k.mem \in States
      /\ \/ c = [k EXCEPT !.cursor = n]
         \/ /\ Len(k.mem.line) = n - 1
            /\ s.line = Append(k.mem.line, log[n].by)
            /\ c = [k EXCEPT !.mem = s, !.disk = s, !.cursor = n]

LEMMA Receives ==
  ASSUME Shape, NEW d \in Account, Receive(d)
  PROVE  \E c \in Clients, s \in States : Turn(d, c) /\ Handles(d, client[d], c, s)
<1>1. PICK c : c = client[d]
  OBVIOUS
<1>2. c \in Clients /\ Fits(d, c)
  BY <1>1 DEF Shape, Devices
<1>3. PICK row : row = log[c.cursor + 1]
  OBVIOUS
<1>4. c.cursor \in Nat /\ c.cursor < Len(log) /\ c.disk # None /\ c.mem \in States
  BY <1>1, <1>2, ClientFields DEF Receive, Fits
<1>5. PICK n \in Nat : n = c.cursor + 1
  BY <1>4
<1>6. n \in 1 .. Len(log) /\ log \in Seq(Rows)
  BY <1>4, <1>5 DEF Shape, ServerShape
<1>7. row \in Rows
  BY <1>3, <1>5, <1>6
<1>8. Len(row.base) = n - 1
  <2>1. \A i \in 1 .. Len(log) : Len(log[i].base) = i - 1
    BY DEF Shape, ServerShape
  <2>2. Len(log[n].base) = n - 1
    BY <2>1, <1>6
  <2>3. row = log[n]
    BY <1>3, <1>5
  <2>. QED  BY <2>2, <2>3
<1>9. CASE row.by # d /\ row.base = c.mem.line
  <2>1. PICK s : s = Received(c, row)
    OBVIOUS
  <2>2. s \in States /\ s.line = Append(c.mem.line, row.by)
    BY <2>1, <1>4, <1>7, <1>9 DEF Received, States, Rows
  <2>3. PICK c2 : c2 = [c EXCEPT !.mem = s, !.disk = s, !.cursor = n]
    OBVIOUS
  <2>4. c2 \in Clients
    BY <2>2, <2>3, <1>2 DEF Clients
  <2>5. Turn(d, c2)
    BY <2>1, <2>3, <1>1, <1>3, <1>5, <1>9 DEF Receive, Holding, Received
  <2>. QED  BY <2>2, <2>3, <2>4, <2>5, <1>1, <1>3, <1>4, <1>5, <1>6, <1>8, <1>9 DEF Handles
<1>10. CASE ~(row.by # d /\ row.base = c.mem.line)
  <2>1. PICK c2 : c2 = [c EXCEPT !.cursor = n]
    OBVIOUS
  <2>2. c2 \in Clients
    BY <2>1, <1>2 DEF Clients
  <2>3. Turn(d, c2)
    BY <2>1, <1>1, <1>3, <1>5, <1>10 DEF Receive
  <2>. QED  BY <2>1, <2>2, <2>3, <1>1, <1>4, <1>5, <1>6 DEF Handles
<1>. QED  BY <1>9, <1>10

LEMMA ReceiveShape ==
  ASSUME Shape, NEW d \in Account, Receive(d)
  PROVE  /\ Shape' /\ Alone(d) /\ SameVerdict(client[d], client'[d])
         /\ LET k == client[d]
                c == client'[d]
            IN  /\ c.known = k.known /\ c.ready = k.ready /\ c.status = k.status
                /\ c.job = k.job /\ c.mem # None /\ k.mem # None /\ ~Flies(k) /\ ~Sends(k)
                /\ \/ c.mem = k.mem /\ c.disk = k.disk
                   \/ /\ c.disk = c.mem /\ Len(k.mem.line) < Len(log)
                      /\ c.mem.line = Append(k.mem.line, log[Len(k.mem.line) + 1].by)
<1>1. PICK k : k = client[d]
  OBVIOUS
<1>2. k \in Clients /\ Fits(d, k)
  BY <1>1 DEF Shape, Devices
<1>3. PICK c \in Clients, s \in States : Turn(d, c) /\ Handles(d, k, c, s)
  BY Receives, <1>1
<1>4. ServerShape' /\ Grows
  BY Quiet DEF Receive, Shape, ServerShape
<1>5. PICK n : n = k.cursor + 1
  OBVIOUS
<1>6. n \in Nat /\ n <= Len(log)
  BY <1>3, <1>5 DEF Handles
<1>7. /\ c = [k EXCEPT !.cursor = n] \/ c = [k EXCEPT !.mem = s, !.disk = s, !.cursor = n]
      /\ k.mem \in States
  BY <1>3, <1>5 DEF Handles
<1>8. /\ c.cursor = n /\ c.held = k.held /\ c.known = k.known /\ c.job = k.job
      /\ c.vetted = k.vetted /\ c.untrusted = k.untrusted
      /\ c.check = k.check /\ c.ready = k.ready /\ c.status = k.status
      /\ (c.mem = k.mem /\ c.disk = k.disk) \/ (c.mem = s /\ c.disk = s)
  <2>1. CASE c = [k EXCEPT !.cursor = n]
    BY <2>1, <1>2, <1>6 DEF Clients
  <2>2. CASE c = [k EXCEPT !.mem = s, !.disk = s, !.cursor = n]
    BY <2>2, <1>2, <1>6 DEF Clients
  <2>. QED  BY <2>1, <2>2, <1>7
<1>9. ~Sends(k) /\ k.job \in Jobs
  BY <1>1, <1>2 DEF Posting, Sends, Clients, Receive
<1>10. k.job.op # "found" /\ (k.job.op \in {"open", "join", "sweep"} => k.job.step # "post")
  BY <1>9, JobFields DEF Sends
<1>11. c.mem # None /\ c.disk \in {None, c.mem}
  BY <1>2, <1>7, <1>8, StateFields DEF Fits
<1>12. Fits(d, c)
  BY <1>2, <1>6, <1>8, <1>9, <1>10, <1>11 DEF Fits, Sends, Enters
<1>13. Fits(d, c)'
  BY <1>12, <1>4, StillFits DEF Shape
<1>14. Shape' /\ client'[d] = c /\ Alone(d)
  BY <1>3, <1>4, <1>13, Moves DEF Alone
<1>15. (c.mem = k.mem /\ c.disk = k.disk) \/ (c.disk = c.mem /\ Len(k.mem.line) < Len(log)
          /\ c.mem.line = Append(k.mem.line, log[Len(k.mem.line) + 1].by))
  <2>1. CASE c = [k EXCEPT !.cursor = n]
    BY <2>1, <1>2, <1>6 DEF Clients
  <2>2. CASE c # [k EXCEPT !.cursor = n]
    <3>1. /\ c = [k EXCEPT !.mem = s, !.disk = s, !.cursor = n]
          /\ Len(k.mem.line) = n - 1 /\ s.line = Append(k.mem.line, log[n].by)
      BY <2>2, <1>3, <1>5 DEF Handles
    <3>2. c.mem = s /\ c.disk = s
      BY <3>1, <1>2, <1>6 DEF Clients
    <3>3. Len(k.mem.line) \in Nat
      BY <1>7, StateFields
    <3>4. Len(k.mem.line) + 1 = n /\ Len(k.mem.line) < Len(log)
      BY <3>1, <3>3, <1>6 DEF Shape, ServerShape
    <3>. QED  BY <3>1, <3>2, <3>4
  <2>. QED  BY <2>1, <2>2
<1>16. SameVerdict(k, c)
  BY <1>8 DEF SameVerdict
<1>17. k.mem # None /\ ~Flies(k)
  BY <1>7, <1>9, StateFields DEF Flies
<1>. QED  BY <1>1, <1>8, <1>9, <1>11, <1>14, <1>15, <1>16, <1>17
-----------------------------------------------------------------------------
(* What the steps of one device have in common *)

LEMMA Settles ==
  ASSUME Shape, NEW d \in Account, NEW c \in Clients, Turn(d, c), Fits(d, c),
         UNCHANGED <<serverVars, gone, swept, expelled, load>>, failed' \subseteq Account
  PROVE  Shape' /\ client'[d] = c /\ Alone(d)
<1>1. ServerShape' /\ Grows
  BY Quiet DEF Shape
<1>2. Fits(d, c)'
  BY <1>1, StillFits DEF Shape
<1>. QED  BY <1>1, <1>2, Moves DEF Alone

(* A device without a job fits if its store agrees with its memory. *)
LEMMA IdleFits ==
  ASSUME NEW d \in Account, NEW k, Fits(d, k), NEW c, c.job = NoJob,
         c.disk \in {None, c.mem}, c.known => c.mem # None,
         c.cursor = k.cursor, c.held = k.held, c.check.step = "fetch" => c.known
  PROVE  Fits(d, c)
BY DEF Fits, Sends, Enters, NoJob

LEMMA Ends ==
  ASSUME NEW k \in Clients,
         NEW st \in {"idle", "joining", "ready", "locked", "pending", "untrusted"}
  PROVE  LET c == EndWith(k, st)
         IN  /\ c \in Clients
             /\ c.mem = k.mem /\ c.disk = k.disk /\ c.known = k.known /\ c.cursor = k.cursor
             /\ c.ready = k.ready /\ c.untrusted = k.untrusted /\ c.held = k.held
             /\ c.vetted = k.vetted /\ c.status = st /\ c.job = NoJob
             /\ c.check.step \in {"none", "due"}
<1>1. PICK j : j = IF k.job.op = "open" THEN [step |-> "due"] ELSE NoCheck
  OBVIOUS
<1>2. j \in Checks /\ j.step \in {"none", "due"} /\ NoJob \in Jobs
  BY <1>1, CheckKinds, JobKinds
<1>3. PICK c : c = [k EXCEPT !.status = st, !.job = NoJob, !.check = j]
  OBVIOUS
<1>4. c = EndWith(k, st)
  BY <1>1, <1>3 DEF EndWith
<1>5. c \in Clients
  BY <1>2, <1>3 DEF Clients
<1>6. /\ c.mem = k.mem /\ c.disk = k.disk /\ c.known = k.known /\ c.cursor = k.cursor
      /\ c.ready = k.ready /\ c.untrusted = k.untrusted /\ c.held = k.held
      /\ c.vetted = k.vetted /\ c.status = st /\ c.job = NoJob /\ c.check = j
  BY <1>3 DEF Clients
<1>. QED  BY <1>2, <1>4, <1>5, <1>6

LEMMA SendShape ==
  ASSUME Shape, NEW d \in Account, Send(d)
  PROVE  Shape' /\ Goes(d)
<1>1. PICK k : k = client[d]
  OBVIOUS
<1>2. k \in Clients /\ Fits(d, k)
  BY <1>1 DEF Shape, Devices
<1>3. UNCHANGED <<serverVars, gone, swept, expelled, load>> /\ failed' \subseteq Account
  BY DEF Send, Shape, ServerShape
<1>4. ~Sends(k) /\ k.mem \in States /\ k.job \in Jobs
  BY <1>1, <1>2, ClientFields DEF Send, Posting, Sends
<1>5. k.job.op # "found" /\ (k.job.op \in {"open", "join", "sweep"} => k.job.step # "post")
  BY <1>4, JobFields DEF Sends
<1>6. CASE Active(d) /\ d \in leaves
  <2>1. PICK c : c = [k EXCEPT !.mem = k.mem, !.disk = k.mem]
    OBVIOUS
  <2>2. c \in Clients /\ Turn(d, c)
    BY <2>1, <1>1, <1>2, <1>4, <1>6 DEF Clients, Send, Holding
  <2>3. /\ c.mem = k.mem /\ c.disk = k.mem /\ c.known = k.known /\ c.cursor = k.cursor
        /\ c.ready = k.ready /\ c.untrusted = k.untrusted /\ c.held = k.held /\ c.job = k.job
        /\ c.vetted = k.vetted /\ c.status = k.status /\ c.check = k.check
    BY <2>1, <1>2 DEF Clients
  <2>4. Fits(d, c)
    BY <2>3, <1>2, <1>4, <1>5 DEF Fits, Sends, Enters
  <2>5. Keeps(d, k, c) /\ SameVerdict(k, c)
    BY <2>3, <1>4 DEF Keeps, SameVerdict, Claims, Flies, Sends, Serves, Enters
  <2>. QED  BY <2>2, <2>4, <2>5, <1>1, <1>3, Settles DEF Goes
<1>7. CASE ~(Active(d) /\ d \in leaves)
  <2>1. PICK c : c = [k EXCEPT !.ready = FALSE, !.disk = None, !.status = "idle"]
    OBVIOUS
  <2>2. c \in Clients /\ Turn(d, c)
    BY <2>1, <1>1, <1>2, <1>4, <1>7 DEF Clients, Send, Forgotten
  <2>3. /\ c.mem = k.mem /\ c.disk = None /\ c.known = k.known /\ c.cursor = k.cursor
        /\ c.ready = FALSE /\ c.untrusted = k.untrusted /\ c.held = k.held /\ c.job = k.job
        /\ c.vetted = k.vetted /\ c.status = "idle" /\ c.check = k.check
    BY <2>1, <1>2 DEF Clients
  <2>4. Fits(d, c)
    BY <2>3, <1>2, <1>4, <1>5 DEF Fits, Sends, Enters
  <2>5. Keeps(d, k, c) /\ SameVerdict(k, c)
    BY <2>3, <1>4, <1>7 DEF Keeps, SameVerdict, Claims, Flies, Sends, Serves, Enters
  <2>. QED  BY <2>2, <2>4, <2>5, <1>1, <1>3, Settles DEF Goes
<1>. QED  BY <1>6, <1>7
LEMMA BootstrapShape ==
  ASSUME Shape, Bootstrap
  PROVE  Shape' /\ Goes(Owner)
<1>. Owner \in Account
  BY ChannelAssumption
<1>1. PICK k : k = client[Owner]
  OBVIOUS
<1>2. k \in Clients /\ Fits(Owner, k)
  BY <1>1 DEF Shape, Devices
<1>3. UNCHANGED <<serverVars, gone, swept, expelled, load>> /\ failed' \subseteq Account
  BY DEF Bootstrap, Shape, ServerShape
<1>4. info = None /\ k.job = NoJob /\ k.mem = None
  BY <1>1 DEF Bootstrap
<1>5. PICK s, j : s = [line |-> << >>, tree |-> {Owner}] /\ j = [op |-> "found", step |-> "post"]
  OBVIOUS
<1>6. s \in States /\ j \in Jobs /\ None \notin States
  <2>1. << >> \in Seq(Account) /\ {Owner} \in SUBSET Account
    OBVIOUS
  <2>. QED  BY <2>1, <1>5, StateFields, JobKinds
<1>7. PICK c : c = [k EXCEPT !.mem = s, !.disk = s, !.job = j]
  OBVIOUS
<1>8. c \in Clients /\ Turn(Owner, c)
  BY <1>1, <1>2, <1>5, <1>6, <1>7 DEF Clients, Bootstrap, Holding
<1>9. /\ c.mem = s /\ c.disk = s /\ c.known = k.known /\ c.cursor = k.cursor
      /\ c.ready = k.ready /\ c.untrusted = k.untrusted /\ c.held = k.held /\ c.job = j
      /\ c.vetted = k.vetted /\ c.status = k.status /\ c.check = k.check
  BY <1>2, <1>7 DEF Clients
<1>10. Fits(Owner, c)
  <2>1. j.op = "found" /\ s # None /\ ~k.known /\ k.check.step # "fetch"
    BY <1>2, <1>4, <1>5, <1>6 DEF Fits
  <2>2. k.cursor <= Len(log) /\ k.held <= epoch
    BY <1>2 DEF Fits
  <2>. QED  BY <2>1, <2>2, <1>5, <1>9 DEF Fits, Sends, Enters
<1>11. Keeps(Owner, k, c) /\ SameVerdict(k, c)
  BY <1>4, <1>5, <1>9 DEF Keeps, SameVerdict, Claims, Flies, Sends, Serves, Enters
<1>. QED  BY <1>1, <1>3, <1>8, <1>10, <1>11, Settles DEF Goes

(* An end of a job without a posted change. *)
LEMMA EndsFits ==
  ASSUME Shape, NEW d \in Account, NEW k \in Clients, k = client[d], Fits(d, k), ~Sends(k),
         NEW c \in Clients, c.mem = k.mem, c.disk = k.disk, c.known = k.known,
         c.cursor = k.cursor, c.held = k.held, c.job = NoJob, c.check.step \in {"none", "due"}
  PROVE  Fits(d, c)
<1>1. c.disk \in {None, c.mem} /\ (c.known => c.mem # None)
  BY DEF Fits
<1>. QED  BY <1>1, IdleFits

LEMMA OpenShape ==
  ASSUME Shape, NEW d \in Account, Open(d)
  PROVE  Shape' /\ Goes(d)
<1>1. PICK k : k = client[d]
  OBVIOUS
<1>2. k \in Clients /\ Fits(d, k)
  BY <1>1 DEF Shape, Devices
<1>3. UNCHANGED <<serverVars, gone, swept, expelled, load>> /\ failed' \subseteq Account
  BY DEF Open, Shape, ServerShape
<1>4. k.job = NoJob /\ k.check = NoCheck
  BY <1>1 DEF Open, Resting
<1>5. ~Sends(k) /\ k.job.op = "none"
  BY <1>4 DEF Sends, NoJob
<1>6. CASE k.ready \/ d \notin member
  <2>1. PICK st : st = IF k.ready THEN "ready" ELSE "locked"
    OBVIOUS
  <2>2. PICK j : j = [step |-> "due"]
    OBVIOUS
  <2>3. j \in Checks /\ NoJob \in Jobs
    BY <2>2, CheckKinds, JobKinds
  <2>4. PICK c : c = [k EXCEPT !.status = st, !.job = NoJob, !.check = j]
    OBVIOUS
  <2>5. c \in Clients
    BY <2>1, <2>3, <2>4, <1>2 DEF Clients
  <2>6. [k EXCEPT !.job.op = "open"].job.op = "open"
    BY <1>2, <1>4 DEF Clients, NoJob
  <2>7. c = EndWith([k EXCEPT !.job.op = "open"], st)
    BY <2>2, <2>4, <2>6, <1>2 DEF Clients, EndWith
  <2>8. Turn(d, c)
    BY <2>1, <2>7, <1>1, <1>6 DEF Open
  <2>9. /\ c.mem = k.mem /\ c.disk = k.disk /\ c.known = k.known /\ c.cursor = k.cursor
        /\ c.ready = k.ready /\ c.untrusted = k.untrusted /\ c.held = k.held /\ c.job = NoJob
        /\ c.vetted = k.vetted /\ c.status = st /\ c.check = j
    BY <2>4, <1>2 DEF Clients
  <2>10. Fits(d, c)
    BY <2>2, <2>9, <2>5, <1>1, <1>2, <1>5, EndsFits
  <2>11. Keeps(d, k, c) /\ SameVerdict(k, c)
    BY <2>1, <2>2, <2>9, <1>4, <1>5 DEF Keeps, SameVerdict, Claims, Flies, Sends, Serves, Enters, NoJob
  <2>. QED  BY <2>5, <2>8, <2>10, <2>11, <1>1, <1>3, Settles DEF Goes
<1>7. CASE ~k.ready /\ d \in member
  <2>1. PICK j : j = Answer(d, "open", chan[d], 1)
    OBVIOUS
  <2>2. j = [op |-> "open", step |-> "answer", info |-> InfoFor(d, chan[d]), tries |-> 1]
    BY <2>1 DEF Answer
  <2>3. InfoFor(d, chan[d]) \in {info, None} /\ info \in States \cup {None}
    BY DEF InfoFor, Shape, ServerShape
  <2>4. j \in Jobs
    BY <2>2, <2>3, JobKinds
  <2>5. PICK c : c = [k EXCEPT !.status = "joining", !.job = j]
    OBVIOUS
  <2>6. c \in Clients /\ Turn(d, c)
    BY <2>1, <2>4, <2>5, <1>1, <1>2, <1>7 DEF Clients, Open
  <2>7. /\ c.mem = k.mem /\ c.disk = k.disk /\ c.known = k.known /\ c.cursor = k.cursor
        /\ c.ready = k.ready /\ c.untrusted = k.untrusted /\ c.held = k.held /\ c.job = j
        /\ c.vetted = k.vetted /\ c.status = "joining" /\ c.check = k.check
    BY <2>5, <1>2 DEF Clients
  <2>8. Fits(d, c)
    BY <2>2, <2>3, <2>7, <1>2, <1>4 DEF Fits, Sends, Enters
  <2>9. Keeps(d, k, c) /\ SameVerdict(k, c)
    BY <2>2, <2>7, <1>5 DEF Keeps, SameVerdict, Claims, Flies, Sends, Serves, Enters
  <2>. QED  BY <2>6, <2>8, <2>9, <1>1, <1>3, Settles DEF Goes
<1>. QED  BY <1>6, <1>7

LEMMA ConsumeShape ==
  ASSUME Shape, NEW d \in Account, Consume(d)
  PROVE  Shape' /\ Goes(d)
<1>1. PICK k : k = client[d]
  OBVIOUS
<1>2. k \in Clients /\ Fits(d, k)
  BY <1>1 DEF Shape, Devices
<1>3. UNCHANGED <<serverVars, gone, swept, expelled, load>> /\ failed' \subseteq Account
  BY DEF Consume, Shape, ServerShape
<1>4. PICK op \in {"open", "join"} :
        /\ k.job.op = op /\ k.job.step = "answer"
        /\ Turn(d, IF k.job.info = None THEN EndWith(k, "pending")
                   ELSE IF Taken(k) THEN EndWith([k EXCEPT !.ready = TRUE], "ready")
                   ELSE IF d \in k.job.info.tree THEN EndWith(k, "pending")
                   ELSE [Holding(k, Joined(d, k.job.info)) EXCEPT
                           !.known = TRUE, !.status = "joining",
                           !.job = [op |-> op, step |-> "post", base |-> k.job.info.line,
                                    tries |-> k.job.tries]])
  BY <1>1 DEF Consume, Doing
<1>5. /\ ~Sends(k) /\ k.job.info \in States \cup {None} /\ k.job.tries \in Nat
      /\ k.job \in Jobs /\ None \notin States
  BY <1>2, <1>4, JobFields, ClientFields, StateFields DEF Sends
<1>6. CASE k.job.info = None \/ (~Taken(k) /\ d \in k.job.info.tree)
  <2>1. PICK c : c = EndWith(k, "pending")
    OBVIOUS
  <2>2. /\ c \in Clients
        /\ c.mem = k.mem /\ c.disk = k.disk /\ c.known = k.known /\ c.cursor = k.cursor
        /\ c.ready = k.ready /\ c.untrusted = k.untrusted /\ c.held = k.held
        /\ c.vetted = k.vetted /\ c.status = "pending" /\ c.job = NoJob
        /\ c.check.step \in {"none", "due"}
    BY <2>1, <1>2, Ends
  <2>3. Turn(d, c)
    BY <2>1, <1>4, <1>6
  <2>4. Fits(d, c)
    BY <2>2, <1>1, <1>2, <1>5, EndsFits
  <2>5. Keeps(d, k, c) /\ SameVerdict(k, c)
    BY <2>2, <1>4, <1>5 DEF Keeps, SameVerdict, Claims, Flies, Sends, Serves, Enters, NoJob
  <2>. QED  BY <2>2, <2>3, <2>4, <2>5, <1>1, <1>3, Settles DEF Goes
<1>7. CASE k.job.info # None /\ Taken(k)
  <2>1. PICK e : e = [k EXCEPT !.ready = TRUE]
    OBVIOUS
  <2>2. e \in Clients
    BY <2>1, <1>2 DEF Clients
  <2>3. /\ e.mem = k.mem /\ e.disk = k.disk /\ e.known = k.known /\ e.cursor = k.cursor
        /\ e.ready = TRUE /\ e.untrusted = k.untrusted /\ e.held = k.held
        /\ e.vetted = k.vetted
    BY <2>1, <1>2 DEF Clients
  <2>4. PICK c : c = EndWith(e, "ready")
    OBVIOUS
  <2>5. /\ c \in Clients
        /\ c.mem = e.mem /\ c.disk = e.disk /\ c.known = e.known /\ c.cursor = e.cursor
        /\ c.ready = e.ready /\ c.untrusted = e.untrusted /\ c.held = e.held
        /\ c.vetted = e.vetted /\ c.status = "ready" /\ c.job = NoJob
        /\ c.check.step \in {"none", "due"}
    BY <2>2, <2>4, Ends
  <2>6. Turn(d, c)
    BY <2>1, <2>4, <1>4, <1>7
  <2>7. Fits(d, c)
    BY <2>3, <2>5, <1>1, <1>2, <1>5, EndsFits
  <2>8. Keeps(d, k, c) /\ SameVerdict(k, c)
    BY <2>3, <2>5, <1>4, <1>5, <1>7 DEF Keeps, SameVerdict, Claims, Flies, Sends, Serves, Enters, NoJob, Taken
  <2>. QED  BY <2>5, <2>6, <2>7, <2>8, <1>1, <1>3, Settles DEF Goes
<1>8. CASE k.job.info # None /\ ~Taken(k) /\ d \notin k.job.info.tree
  <2>1. PICK i : i = k.job.info
    OBVIOUS
  <2>2. i \in States /\ info # None
    BY <2>1, <1>2, <1>4, <1>5, <1>8 DEF Fits, Enters
  <2>3. PICK s : s = Joined(d, i)
    OBVIOUS
  <2>4. s \in States /\ s.line = Append(i.line, d) /\ i.line \in Seq(Account)
    BY <2>2, <2>3, Extended, StateFields
  <2>5. PICK j : j = [op |-> op, step |-> "post", base |-> i.line, tries |-> k.job.tries]
    OBVIOUS
  <2>6. j \in Jobs
    BY <2>4, <2>5, <1>5, JobKinds
  <2>7. PICK c : c = [k EXCEPT !.mem = s, !.disk = s, !.known = TRUE, !.status = "joining",
                               !.job = j]
    OBVIOUS
  <2>8. c \in Clients
    BY <2>4, <2>6, <2>7, <1>2 DEF Clients
  <2>9. Turn(d, c)
    BY <2>1, <2>3, <2>5, <2>7, <1>4, <1>8 DEF Holding
  <2>10. /\ c.mem = s /\ c.disk = s /\ c.known = TRUE /\ c.cursor = k.cursor
         /\ c.ready = k.ready /\ c.untrusted = k.untrusted /\ c.held = k.held /\ c.job = j
         /\ c.vetted = k.vetted /\ c.status = "joining" /\ c.check = k.check
    BY <2>7, <1>2 DEF Clients
  <2>11. s # None /\ ~k.ready /\ k.check = NoCheck
    BY <2>4, <1>2, <1>4, <1>5, <1>8 DEF Taken, Fits, Enters
  <2>12. Fits(d, c)
    BY <2>4, <2>5, <2>10, <2>11, <1>2, <1>4 DEF Fits, Sends, Enters
  <2>13. Keeps(d, k, c) /\ SameVerdict(k, c)
    BY <2>2, <2>5, <2>10, <2>11 DEF Keeps, SameVerdict, Claims, Flies, Sends, Serves, Enters
  <2>. QED  BY <2>8, <2>9, <2>12, <2>13, <1>1, <1>3, Settles DEF Goes
<1>. QED  BY <1>6, <1>7, <1>8
LEMMA JoinConflictShape ==
  ASSUME Shape, NEW d \in Account, JoinConflict(d)
  PROVE  Shape' /\ Goes(d)
<1>1. PICK k : k = client[d]
  OBVIOUS
<1>2. k \in Clients /\ Fits(d, k)
  BY <1>1 DEF Shape, Devices
<1>3. UNCHANGED <<serverVars, gone, swept, expelled, load>> /\ failed' \subseteq Account
  BY DEF JoinConflict, Shape, ServerShape
<1>4. PICK op \in {"open", "join"} :
        /\ k.job.op = op /\ k.job.step = "post"
        /\ Turn(d, IF k.job.tries = MaxTries THEN EndWith(Dropped(k), "pending")
                   ELSE [Dropped(k) EXCEPT !.job = Answer(d, op, chan[d], k.job.tries + 1)])
  BY <1>1 DEF JoinConflict, Doing
<1>5. /\ k.job \in Jobs /\ k.job.tries \in Nat /\ ~k.ready /\ k.status # "ready" /\ Flies(k)
      /\ k.check = NoCheck
  BY <1>2, <1>4, JobFields, ClientFields DEF Fits, Enters, Flies, Sends
<1>6. PICK e : e = [k EXCEPT !.mem = None, !.disk = None, !.known = FALSE]
  OBVIOUS
<1>7. e \in Clients /\ e = Dropped(k)
  BY <1>2, <1>6 DEF Clients, Dropped
<1>8. /\ e.mem = None /\ e.disk = None /\ e.known = FALSE /\ e.cursor = k.cursor
      /\ e.ready = k.ready /\ e.untrusted = k.untrusted /\ e.held = k.held
      /\ e.vetted = k.vetted /\ e.check = k.check /\ e.status = k.status
  BY <1>2, <1>6 DEF Clients
<1>9. CASE k.job.tries = MaxTries
  <2>1. PICK c : c = EndWith(e, "pending")
    OBVIOUS
  <2>2. /\ c \in Clients
        /\ c.mem = e.mem /\ c.disk = e.disk /\ c.known = e.known /\ c.cursor = e.cursor
        /\ c.ready = e.ready /\ c.untrusted = e.untrusted /\ c.held = e.held
        /\ c.vetted = e.vetted /\ c.status = "pending" /\ c.job = NoJob
        /\ c.check.step \in {"none", "due"}
    BY <2>1, <1>7, Ends
  <2>3. Turn(d, c)
    BY <2>1, <1>4, <1>7, <1>9
  <2>4. Fits(d, c)
    BY <2>2, <1>2, <1>8, IdleFits
  <2>5. Keeps(d, k, c) /\ SameVerdict(k, c)
    BY <2>2, <1>5, <1>8 DEF Keeps, SameVerdict, Claims, Flies, Sends, Serves, Enters, NoJob
  <2>. QED  BY <2>2, <2>3, <2>4, <2>5, <1>1, <1>3, Settles DEF Goes
<1>10. CASE k.job.tries # MaxTries
  <2>1. PICK j : j = Answer(d, op, chan[d], k.job.tries + 1)
    OBVIOUS
  <2>2. j = [op |-> op, step |-> "answer", info |-> InfoFor(d, chan[d]), tries |-> k.job.tries + 1]
    BY <2>1 DEF Answer
  <2>3. InfoFor(d, chan[d]) \in {info, None} /\ info \in States \cup {None}
    BY DEF InfoFor, Shape, ServerShape
  <2>4. j \in Jobs
    <3>1. PICK n \in Nat : n = k.job.tries + 1
      BY <1>5
    <3>2. PICK i \in States \cup {None} : i = InfoFor(d, chan[d])
      BY <2>3
    <3>. QED  BY <2>2, <3>1, <3>2, JobKinds
  <2>5. PICK c : c = [e EXCEPT !.job = j]
    OBVIOUS
  <2>6. c \in Clients /\ Turn(d, c)
    BY <2>1, <2>4, <2>5, <1>4, <1>7, <1>10 DEF Clients
  <2>7. /\ c.mem = None /\ c.disk = None /\ c.known = FALSE /\ c.cursor = k.cursor
        /\ c.ready = k.ready /\ c.untrusted = k.untrusted /\ c.held = k.held /\ c.job = j
        /\ c.vetted = k.vetted /\ c.status = k.status /\ c.check = k.check
    BY <2>5, <1>7, <1>8 DEF Clients
  <2>8. Fits(d, c)
    BY <2>2, <2>3, <2>7, <1>2, <1>5 DEF Fits, Sends, Enters, NoCheck
  <2>9. Keeps(d, k, c) /\ SameVerdict(k, c)
    BY <2>2, <2>7, <1>5 DEF Keeps, SameVerdict, Claims, Flies, Sends, Serves, Enters
  <2>. QED  BY <2>6, <2>8, <2>9, <1>1, <1>3, Settles DEF Goes
<1>. QED  BY <1>9, <1>10

(* The end of a posted join keeps the group. *)
LEMMA PostEnds ==
  ASSUME NEW d \in Account, NEW k \in Clients, Fits(d, k), Sends(k),
         NEW st \in {"ready", "pending"}, NEW c, c = EndWith(k, st)
  PROVE  c \in Clients /\ Fits(d, c)
<1>1. /\ c \in Clients
      /\ c.mem = k.mem /\ c.disk = k.disk /\ c.known = k.known /\ c.cursor = k.cursor
      /\ c.held = k.held /\ c.job = NoJob /\ c.check.step \in {"none", "due"}
  BY Ends
<1>2. c.disk \in {None, c.mem} /\ (c.known => c.mem # None)
  BY <1>1 DEF Fits
<1>. QED  BY <1>1, <1>2, IdleFits

LEMMA JoinRefusedShape ==
  ASSUME Shape, NEW d \in Account, JoinRefused(d)
  PROVE  Shape' /\ Goes(d)
<1>1. PICK k : k = client[d]
  OBVIOUS
<1>2. k \in Clients /\ Fits(d, k)
  BY <1>1 DEF Shape, Devices
<1>3. UNCHANGED <<serverVars, gone, swept, expelled, load>> /\ failed' \subseteq Account
      /\ d \in failed'
  BY DEF JoinRefused, Shape, ServerShape
<1>4. PICK c : c = EndWith(k, "pending")
  OBVIOUS
<1>5. Turn(d, c) /\ Sends(k) /\ Enters(k)
  BY <1>1, <1>4 DEF JoinRefused, Doing, Sends, Enters
<1>6. c \in Clients /\ Fits(d, c)
  BY <1>2, <1>4, <1>5, PostEnds
<1>7. c.vetted = k.vetted /\ c.untrusted = k.untrusted /\ c.check.step \in {"none", "due"}
      /\ c.job = NoJob
  BY <1>2, <1>4, Ends
<1>8. Keeps(d, k, c) /\ SameVerdict(k, c)
  BY <1>3, <1>5, <1>7 DEF Keeps, SameVerdict, Enters, NoJob
<1>. QED  BY <1>1, <1>3, <1>5, <1>6, <1>8, Settles DEF Goes

LEMMA CheckStartShape ==
  ASSUME Shape, NEW d \in Account, CheckStart(d)
  PROVE  Shape' /\ Alone(d) /\ Keeps(d, client[d], client'[d])
<1>1. PICK k : k = client[d]
  OBVIOUS
<1>2. k \in Clients /\ Fits(d, k)
  BY <1>1 DEF Shape, Devices
<1>3. UNCHANGED <<serverVars, gone, swept, expelled, load>> /\ failed' \subseteq Account
  BY DEF CheckStart, Shape, ServerShape
<1>4. PICK j : j = IF k.known THEN [step |-> "fetch", epoch |-> k.held] ELSE NoCheck
  OBVIOUS
<1>5. j \in Checks /\ (j.step = "fetch" => k.known) /\ ~Enters(k)
  BY <1>1, <1>2, <1>4, CheckKinds, ClientFields DEF Fits, CheckStart, NoCheck
<1>6. PICK c : c = [k EXCEPT !.check = j]
  OBVIOUS
<1>7. c \in Clients /\ Turn(d, c)
  BY <1>1, <1>2, <1>4, <1>5, <1>6 DEF Clients, CheckStart
<1>8. /\ c.mem = k.mem /\ c.disk = k.disk /\ c.known = k.known /\ c.cursor = k.cursor
      /\ c.ready = k.ready /\ c.held = k.held /\ c.job = k.job
      /\ c.status = k.status /\ c.check = j
  BY <1>2, <1>6 DEF Clients
<1>9. Fits(d, c)
  BY <1>2, <1>5, <1>8 DEF Fits, Sends, Enters
<1>10. Keeps(d, k, c)
  BY <1>8 DEF Keeps, Claims, Flies, Sends, Serves, Enters
<1>. QED  BY <1>1, <1>3, <1>7, <1>9, <1>10, Settles

LEMMA CheckReadShape ==
  ASSUME Shape, NEW d \in Account, CheckRead(d)
  PROVE  Shape' /\ Alone(d) /\ Keeps(d, client[d], client'[d])
<1>1. PICK k : k = client[d]
  OBVIOUS
<1>2. k \in Clients /\ Fits(d, k)
  BY <1>1 DEF Shape, Devices
<1>3. UNCHANGED <<serverVars, gone, swept, expelled, load>> /\ failed' \subseteq Account
  BY DEF CheckRead, Shape, ServerShape
<1>4. PICK j : j = IF d \notin member THEN NoCheck
                   ELSE [step |-> "judge", epoch |-> k.check.epoch, tree |-> k.mem.tree,
                         trusted |-> \A a \in k.mem.tree : HoldsCap(a, k.check.epoch)]
  OBVIOUS
<1>5. k.check.step = "fetch" /\ k.mem \in States /\ k.check.epoch \in Nat /\ ~Enters(k)
  BY <1>1, <1>2, ClientFields, CheckFields DEF Fits, CheckRead, NoCheck
<1>6. j \in Checks /\ j.step # "fetch"
  BY <1>4, <1>5, CheckKinds, StateFields
<1>7. PICK c : c = [k EXCEPT !.check = j]
  OBVIOUS
<1>8. c \in Clients /\ Turn(d, c)
  BY <1>1, <1>2, <1>4, <1>6, <1>7 DEF Clients, CheckRead
<1>9. /\ c.mem = k.mem /\ c.disk = k.disk /\ c.known = k.known /\ c.cursor = k.cursor
      /\ c.ready = k.ready /\ c.held = k.held /\ c.job = k.job
      /\ c.status = k.status /\ c.check = j
  BY <1>2, <1>7 DEF Clients
<1>10. Fits(d, c)
  BY <1>2, <1>5, <1>6, <1>9 DEF Fits, Sends, Enters
<1>11. Keeps(d, k, c)
  BY <1>9 DEF Keeps, Claims, Flies, Sends, Serves, Enters
<1>. QED  BY <1>1, <1>3, <1>8, <1>10, <1>11, Settles

LEMMA CheckJudgeShape ==
  ASSUME Shape, NEW d \in Account, CheckJudge(d)
  PROVE  /\ Shape' /\ Alone(d) /\ Keeps(d, client[d], client'[d])
         /\ LET k == client[d]
                c == client'[d]
            IN  /\ k.check.step = "judge" /\ c.check = NoCheck
                /\ c.vetted = [epoch |-> k.check.epoch, tree |-> k.check.tree]
                /\ c.untrusted = ~k.check.trusted
<1>1. PICK k : k = client[d]
  OBVIOUS
<1>2. k \in Clients /\ Fits(d, k)
  BY <1>1 DEF Shape, Devices
<1>3. UNCHANGED <<serverVars, gone, swept, expelled, load>> /\ failed' \subseteq Account
  BY DEF CheckJudge, Shape, ServerShape
<1>4. /\ k.check.step = "judge" /\ k.check.epoch \in Nat /\ k.check.tree \subseteq Account
      /\ k.check.trusted \in BOOLEAN /\ NoCheck \in Checks
  BY <1>1, <1>2, ClientFields, CheckFields, CheckKinds DEF CheckJudge
<1>5. PICK v : v = [epoch |-> k.check.epoch, tree |-> k.check.tree]
  OBVIOUS
<1>6. v \in [epoch : Nat, tree : SUBSET Account]
  BY <1>4, <1>5
<1>7. PICK e : e = [k EXCEPT !.check = NoCheck, !.vetted = v]
  OBVIOUS
<1>8. e \in Clients
  BY <1>2, <1>4, <1>6, <1>7 DEF Clients
<1>9. /\ e.mem = k.mem /\ e.disk = k.disk /\ e.known = k.known /\ e.cursor = k.cursor
      /\ e.ready = k.ready /\ e.held = k.held /\ e.job = k.job
      /\ e.status = k.status /\ e.check = NoCheck /\ e.untrusted = k.untrusted /\ e.vetted = v
  BY <1>2, <1>7 DEF Clients
<1>10. PICK c : c = IF k.check.trusted THEN Cleared(e)
                    ELSE [e EXCEPT !.untrusted = TRUE, !.status = "untrusted"]
  OBVIOUS
<1>11. Turn(d, c)
  BY <1>1, <1>5, <1>7, <1>10 DEF CheckJudge
<1>12. /\ c \in Clients
       /\ c.mem = e.mem /\ c.disk = e.disk /\ c.known = e.known /\ c.cursor = e.cursor
       /\ c.ready = e.ready /\ c.held = e.held /\ c.job = e.job /\ c.check = e.check
       /\ c.vetted = e.vetted /\ c.untrusted = ~k.check.trusted
       /\ c.status = "ready" => e.ready \/ e.status = "ready"
  <2>1. CASE k.check.trusted /\ e.untrusted
    <3>1. PICK st : st = IF e.ready THEN "ready" ELSE e.status
      OBVIOUS
    <3>2. c = [e EXCEPT !.untrusted = FALSE, !.status = st]
      BY <3>1, <2>1, <1>10 DEF Cleared
    <3>3. st \in {"idle", "joining", "ready", "locked", "pending", "untrusted"}
      BY <3>1, <1>8, ClientFields
    <3>. QED  BY <3>1, <3>2, <3>3, <2>1, <1>4, <1>8 DEF Clients
  <2>2. CASE k.check.trusted /\ ~e.untrusted
    <3>1. c = e
      BY <2>2, <1>10 DEF Cleared
    <3>. QED  BY <3>1, <2>2, <1>8, ClientFields
  <2>3. CASE ~k.check.trusted
    <3>1. c = [e EXCEPT !.untrusted = TRUE, !.status = "untrusted"]
      BY <2>3, <1>10
    <3>. QED  BY <3>1, <2>3, <1>4, <1>8 DEF Clients
  <2>. QED  BY <2>1, <2>2, <2>3
<1>13. c.check = NoCheck /\ c.check.step # "fetch" /\ c.vetted = v
  BY <1>9, <1>12, CheckKinds
<1>14. Fits(d, c)
  BY <1>2, <1>9, <1>12, <1>13 DEF Fits, Sends, Enters
<1>15. Keeps(d, k, c)
  BY <1>9, <1>12 DEF Keeps, Claims, Flies, Sends, Serves, Enters
<1>. QED  BY <1>1, <1>3, <1>4, <1>5, <1>11, <1>12, <1>13, <1>14, <1>15, Settles
LEMMA FetchKeyShape ==
  ASSUME Shape, NEW d \in Account, FetchKey(d)
  PROVE  Shape' /\ Goes(d)
<1>1. PICK k : k = client[d]
  OBVIOUS
<1>2. k \in Clients /\ Fits(d, k)
  BY <1>1 DEF Shape, Devices
<1>3. UNCHANGED <<serverVars, gone, swept, expelled, load>> /\ failed' \subseteq Account
  BY DEF FetchKey, Shape, ServerShape
<1>4. PICK c : c = [k EXCEPT !.held = epoch]
  OBVIOUS
<1>5. epoch \in Nat
  BY ChannelAssumption DEF Shape, ServerShape
<1>6. c \in Clients /\ Turn(d, c)
  BY <1>1, <1>2, <1>4, <1>5 DEF Clients, FetchKey
<1>7. /\ c.mem = k.mem /\ c.disk = k.disk /\ c.known = k.known /\ c.cursor = k.cursor
      /\ c.ready = k.ready /\ c.untrusted = k.untrusted /\ c.held = epoch /\ c.job = k.job
      /\ c.vetted = k.vetted /\ c.status = k.status /\ c.check = k.check
  BY <1>2, <1>4 DEF Clients
<1>8. Fits(d, c)
  BY <1>2, <1>5, <1>7 DEF Fits, Sends, Enters
<1>9. Keeps(d, k, c) /\ SameVerdict(k, c)
  BY <1>7 DEF Keeps, SameVerdict, Claims, Flies, Sends, Serves, Enters
<1>. QED  BY <1>1, <1>3, <1>6, <1>8, <1>9, Settles DEF Goes

LEMMA ReloadShape ==
  ASSUME Shape, NEW d \in Account, Reload(d)
  PROVE  Shape' /\ Goes(d)
<1>1. PICK k : k = client[d]
  OBVIOUS
<1>2. k \in Clients /\ Fits(d, k)
  BY <1>1 DEF Shape, Devices
<1>3. UNCHANGED <<serverVars, gone, swept, expelled, load>> /\ failed' \subseteq Account
  BY DEF Reload, Shape, ServerShape
<1>4. Sends(k) \/ k.job.op = "sweep" => d \in failed'
  BY <1>1, <1>2, ClientFields, JobFields DEF Reload, Posting, Doing, Sends, Fits
<1>5. PICK b \in BOOLEAN : b = (k.disk # None)
  OBVIOUS
<1>6. PICK st : st = IF b THEN "ready" ELSE "idle"
  OBVIOUS
<1>7. PICK c : c = [Fresh EXCEPT !.mem = k.disk, !.known = b, !.disk = k.disk,
                               !.cursor = k.cursor, !.ready = b, !.held = k.held,
                               !.status = st]
  OBVIOUS
<1>8. Turn(d, c)
  BY <1>1, <1>5, <1>6, <1>7 DEF Reload
<1>9. k.disk \in States \cup {None} /\ k.cursor \in Nat /\ k.held \in Nat
  BY <1>2, ClientFields
<1>10. c \in Clients
  BY <1>5, <1>6, <1>7, <1>9, FreshClient DEF Clients
<1>11. /\ c.mem = k.disk /\ c.disk = k.disk /\ c.known = b /\ c.cursor = k.cursor
       /\ c.ready = b /\ c.held = k.held /\ c.status = st
  BY <1>7, FreshClient DEF Clients
<1>12. c.job = NoJob /\ c.check = NoCheck /\ c.vetted = [epoch |-> 0, tree |-> {}]
  BY <1>7 DEF Fresh
<1>13. NoCheck.step = "none" /\ NoJob.op = "none"
  BY DEF NoCheck, NoJob
<1>14. Fits(d, c)
  BY <1>2, <1>5, <1>11, <1>12, <1>13, IdleFits
<1>15. Keeps(d, k, c) /\ SameVerdict(k, c)
  BY <1>2, <1>4, <1>5, <1>6, <1>11, <1>12, <1>13
  DEF Keeps, SameVerdict, Claims, Flies, Sends, Serves, Enters, Fits
<1>. QED  BY <1>1, <1>3, <1>8, <1>10, <1>14, <1>15, Settles DEF Goes

(* The sweeping device takes the leaf out of its own state, and holds the   *)
(* result, if it knows the leaf.                                             *)
LEMMA SweepBuildShape ==
  ASSUME Shape, SweepBuild
  PROVE  /\ Shape' /\ Alone(Owner) /\ SameVerdict(client[Owner], client'[Owner])
         /\ LET k == client[Owner]
                c == client'[Owner]
            IN  /\ k.job.op = "sweep" /\ k.job.step = "build" /\ k.mem # None
                /\ c.known = k.known /\ c.ready = k.ready /\ c.status = k.status
                /\ c.mem # None /\ ~Flies(c) /\ ~Flies(k)
                /\ \/ /\ c.mem = k.mem /\ c.disk = k.disk /\ c.job = NoJob
                      /\ unseen' = unseen \cup {k.job.who}
                   \/ /\ c.mem.line = Append(k.mem.line, Owner) /\ c.disk = c.mem
                      /\ c.job.op = "sweep" /\ c.job.step = "post" /\ c.job.who = k.job.who
                      /\ c.job.base = k.mem.line /\ unseen' = unseen
<1>. Owner \in Account
  BY ChannelAssumption
<1>1. PICK k : k = client[Owner]
  OBVIOUS
<1>2. k \in Clients /\ Fits(Owner, k)
  BY <1>1 DEF Shape, Devices
<1>3. UNCHANGED <<serverVars, gone, swept, expelled, load>> /\ failed' \subseteq Account
  BY DEF SweepBuild, Shape, ServerShape
<1>4. k.job.op = "sweep" /\ k.job.step = "build"
  BY <1>1 DEF SweepBuild, Doing
<1>5. PICK a : a = k.job.who
  OBVIOUS
<1>6. a \in Account /\ a \in swept /\ k.mem \in States /\ k.mem # None
  BY <1>2, <1>4, <1>5, ClientFields, JobFields DEF Fits
<1>7. ~Sends(k) /\ ~Enters(k)
  BY <1>4 DEF Sends, Enters
<1>8. CASE a \in k.mem.tree
  <2>1. PICK s : s = Evicted(Owner, k.mem, {a})
    OBVIOUS
  <2>2. {a} \in SUBSET Account
    BY <1>6
  <2>3. s \in States /\ s.line = Append(k.mem.line, Owner) /\ s # None
    BY <2>1, <2>2, <1>6, Extended, StateFields
  <2>4. PICK b : b = k.mem.line
    OBVIOUS
  <2>5. PICK j : j = [op |-> "sweep", step |-> "post", who |-> a, base |-> b]
    OBVIOUS
  <2>6. j \in Jobs
    BY <2>4, <2>5, <1>6, JobKinds, StateFields
  <2>7. PICK c : c = [k EXCEPT !.mem = s, !.disk = s, !.job = j]
    OBVIOUS
  <2>8. c \in Clients
    BY <2>3, <2>6, <2>7, <1>2 DEF Clients
  <2>9. Turn(Owner, c) /\ unseen' = unseen
    BY <2>1, <2>4, <2>5, <2>7, <1>1, <1>5, <1>8 DEF SweepBuild, Holding
  <2>10. /\ c.mem = s /\ c.disk = s /\ c.known = k.known /\ c.cursor = k.cursor
         /\ c.ready = k.ready /\ c.untrusted = k.untrusted /\ c.held = k.held /\ c.job = j
         /\ c.vetted = k.vetted /\ c.status = k.status /\ c.check = k.check
    BY <2>7, <1>2 DEF Clients
  <2>11. Fits(Owner, c)
    BY <2>3, <2>4, <2>5, <2>10, <1>2, <1>6 DEF Fits, Sends, Enters
  <2>12. SameVerdict(k, c) /\ ~Flies(c) /\ ~Flies(k)
    BY <2>5, <2>10, <1>4 DEF SameVerdict, Flies
  <2>. QED  BY <2>3, <2>4, <2>5, <2>8, <2>9, <2>10, <2>11, <2>12, <1>1, <1>3, <1>4, <1>5, <1>6,
               Settles
<1>9. CASE a \notin k.mem.tree
  <2>1. PICK c : c = [k EXCEPT !.job = NoJob]
    OBVIOUS
  <2>2. c \in Clients
    BY <2>1, <1>2, JobKinds DEF Clients
  <2>3. Turn(Owner, c) /\ unseen' = unseen \cup {a}
    BY <2>1, <1>1, <1>5, <1>9 DEF SweepBuild
  <2>4. /\ c.mem = k.mem /\ c.disk = k.disk /\ c.known = k.known /\ c.cursor = k.cursor
        /\ c.ready = k.ready /\ c.untrusted = k.untrusted /\ c.held = k.held /\ c.job = NoJob
        /\ c.vetted = k.vetted /\ c.status = k.status /\ c.check = k.check
    BY <2>1, <1>2 DEF Clients
  <2>5. Fits(Owner, c)
    <3>1. c.disk \in {None, c.mem} /\ (c.known => c.mem # None)
          /\ (c.check.step = "fetch" => c.known)
      BY <2>4, <1>2 DEF Fits
    <3>. QED  BY <3>1, <2>4, <1>2, IdleFits
  <2>6. SameVerdict(k, c) /\ ~Flies(c) /\ ~Flies(k)
    BY <2>4, <1>7 DEF SameVerdict, Flies, Sends, NoJob
  <2>. QED  BY <2>2, <2>3, <2>4, <2>5, <2>6, <1>1, <1>3, <1>4, <1>5, <1>6, Settles
<1>. QED  BY <1>8, <1>9
-----------------------------------------------------------------------------
(* Steps of the server *)

(* What a commit does. *)
Commits(d, base, adds, removes) ==
  /\ info # None /\ Len(log) = Len(base) /\ Len(log') = Len(log) + 1
  /\ \A i \in 1 .. Len(log) : log'[i] = log[i]
  /\ log'[Len(log) + 1].by = d
  /\ leaves' = (leaves \cup adds) \ removes
  /\ Active(d) /\ info' # None

LEMMA CommitShape ==
  ASSUME Shape, NEW d \in Account, client[d].mem \in States, NEW base \in Seq(Account),
         client[d].mem.line = Append(base, d),
         NEW adds \in SUBSET Account, NEW removes \in SUBSET Account,
         Commit(d, base, adds, removes), failed' \subseteq Account,
         UNCHANGED <<member, chan, epoch, pending, capped, gone, swept, expelled, load>>
  PROVE  ServerShape' /\ Grows /\ Commits(d, base, adds, removes)
<1>1. PICK row : row = [by |-> d, base |-> base, adds |-> adds, removes |-> removes,
                        to |-> leaves]
  OBVIOUS
<1>2. row \in Rows /\ row.by = d /\ row.base = base
  BY <1>1 DEF Rows, Shape, ServerShape
<1>3. log \in Seq(Rows) /\ log' = Append(log, row)
  BY <1>1 DEF Commit, Shape, ServerShape
<1>4. /\ log' \in Seq(Rows) /\ Len(log') = Len(log) + 1 /\ log'[Len(log) + 1] = row
      /\ \A i \in 1 .. Len(log) : log'[i] = log[i]
  BY <1>2, <1>3
<1>5. info # None /\ Len(base) = Len(info.line) /\ Len(info.line) = Len(log) /\ Active(d)
  BY DEF Commit, Accepts, AtEpoch, Shape, ServerShape
<1>6. leaves' = (leaves \cup adds) \ removes /\ leaves' \subseteq Account
  BY DEF Commit, LeavesAfter, Shape, ServerShape
<1>7. info' \in States /\ info' # None /\ Len(info'.line) = Len(log')
  <2>1. info' = client[d].mem
    BY DEF Commit
  <2>2. Len(Append(base, d)) = Len(base) + 1
    OBVIOUS
  <2>. QED  BY <2>1, <2>2, <1>4, <1>5, StateFields
<1>8. ASSUME NEW n \in 1 .. Len(log') PROVE Len(log'[n].base) = n - 1
  <2>1. CASE n \in 1 .. Len(log)
    <3>1. Len(log[n].base) = n - 1
      BY <2>1 DEF Shape, ServerShape
    <3>. QED  BY <3>1, <2>1, <1>4
  <2>2. CASE n = Len(log) + 1
    BY <2>2, <1>2, <1>3, <1>4, <1>5
  <2>. QED  BY <2>1, <2>2, <1>3, <1>4
<1>9. ServerShape'
  BY <1>4, <1>6, <1>7, <1>8 DEF Shape, ServerShape
<1>10. Grows
  BY <1>3, <1>4, <1>5, <1>7, ChannelAssumption DEF Grows, Shape, ServerShape
<1>. QED  BY <1>2, <1>4, <1>5, <1>6, <1>7, <1>9, <1>10 DEF Commits

(* The first publication. *)
Publishes == info' \in States /\ leaves' = {Owner} /\ leaves = {} /\ log' = log /\ log = << >>

LEMMA PublishServer ==
  ASSUME Shape, client[Owner].job.op = "found", Publishable, info' = client[Owner].mem,
         leaves' = {Owner}, failed' \subseteq Account,
         UNCHANGED <<member, chan, log, epoch, pending, capped, gone, swept, expelled, load>>
  PROVE  ServerShape' /\ Grows /\ Publishes
<1>1. Owner \in Account
  BY ChannelAssumption
<1>2. client[Owner].mem = [line |-> << >>, tree |-> {Owner}]
  BY <1>1 DEF Shape, Devices, Fits
<1>3. info' \in States /\ Len(info'.line) = 0 /\ info' # None
  <2>1. << >> \in Seq(Account) /\ {Owner} \in SUBSET Account /\ Len(<< >>) = 0
    BY <1>1
  <2>2. info' = [line |-> << >>, tree |-> {Owner}]
    BY <1>2
  <2>3. PICK s : s = [line |-> << >>, tree |-> {Owner}]
    OBVIOUS
  <2>4. s \in States /\ Len(s.line) = 0 /\ info' = s
    BY <2>1, <2>2, <2>3, StateFields
  <2>5. None \notin States
    BY StateFields
  <2>. QED  BY <2>4, <2>5
<1>4. log = << >> /\ leaves = {}
  BY DEF Publishable
<1>5. ServerShape'
  BY <1>1, <1>3, <1>4 DEF Shape, ServerShape
<1>6. Grows
  BY <1>3, <1>4, ChannelAssumption DEF Grows, Shape, ServerShape
<1>. QED  BY <1>3, <1>4, <1>5, <1>6 DEF Publishes

LEMMA PublishShape ==
  ASSUME Shape, Publish
  PROVE  /\ Shape' /\ Alone(Owner) /\ SameVerdict(client[Owner], client'[Owner]) /\ Publishes
         /\ LET k == client[Owner]
                c == client'[Owner]
            IN  /\ k.job.op = "found" /\ c.job = NoJob
                /\ c.ready /\ c.mem # None /\ c.disk = c.mem /\ c.mem.line = << >>
<1>. Owner \in Account
  BY ChannelAssumption
<1>1. PICK k : k = client[Owner]
  OBVIOUS
<1>2. k \in Clients /\ Fits(Owner, k)
  BY <1>1 DEF Shape, Devices
<1>3. k.job.op = "found" /\ k.job.step = "post"
  BY <1>1 DEF Publish, Doing
<1>4. ServerShape' /\ Grows /\ Publishes
  BY <1>1, <1>3, PublishServer DEF Publish, Shape, ServerShape
<1>5. Sends(k) /\ k.mem # None /\ k.disk = k.mem /\ k.mem.line = << >>
  BY <1>2, <1>3 DEF Sends, Fits
<1>6. PICK e : e = EndWith(k, "ready")
  OBVIOUS
<1>7. /\ e \in Clients
      /\ e.mem = k.mem /\ e.disk = k.disk /\ e.known = k.known /\ e.cursor = k.cursor
      /\ e.untrusted = k.untrusted /\ e.held = k.held /\ e.vetted = k.vetted
      /\ e.job = NoJob /\ e.check.step \in {"none", "due"}
  BY <1>2, <1>6, Ends
<1>8. PICK c : c = [e EXCEPT !.ready = TRUE]
  OBVIOUS
<1>9. /\ c \in Clients
      /\ c.mem = k.mem /\ c.disk = k.disk /\ c.known = k.known /\ c.cursor = k.cursor
      /\ c.untrusted = k.untrusted /\ c.held = k.held /\ c.vetted = k.vetted /\ c.ready
      /\ c.job = NoJob /\ c.check.step \in {"none", "due"}
  BY <1>7, <1>8 DEF Clients
<1>10. Turn(Owner, c)
  BY <1>1, <1>6, <1>8 DEF Publish
<1>11. Fits(Owner, c)
  <2>1. c.disk \in {None, c.mem} /\ (c.known => c.mem # None)
    BY <1>9, <1>5
  <2>. QED  BY <2>1, <1>2, <1>9, IdleFits
<1>12. Fits(Owner, c)'
  BY <1>4, <1>9, <1>11, StillFits DEF Shape
<1>13. Shape' /\ client'[Owner] = c /\ Alone(Owner)
  BY <1>4, <1>9, <1>10, <1>12, Moves DEF Alone
<1>14. SameVerdict(k, c)
  BY <1>9 DEF SameVerdict
<1>. QED  BY <1>1, <1>3, <1>4, <1>5, <1>9, <1>13, <1>14

LEMMA JoinAcceptedShape ==
  ASSUME Shape, NEW d \in Account, JoinAccepted(d)
  PROVE  /\ Shape' /\ Alone(d) /\ SameVerdict(client[d], client'[d])
         /\ Enters(client[d]) /\ client[d].job.step = "post" /\ client'[d].job = NoJob
         /\ \E base \in Seq(Account) : Commits(d, base, {d}, {})
<1>1. PICK k : k = client[d]
  OBVIOUS
<1>2. k \in Clients /\ Fits(d, k)
  BY <1>1 DEF Shape, Devices
<1>3. Enters(k) /\ k.job.step = "post" /\ Commit(d, k.job.base, {d}, {})
  BY <1>1 DEF JoinAccepted, Doing, Enters
<1>4. PICK base : base = k.job.base
  OBVIOUS
<1>5. /\ base \in Seq(Account) /\ k.mem \in States /\ k.mem.line = Append(base, d) /\ Sends(k)
      /\ k.disk = k.mem /\ k.mem # None
  BY <1>2, <1>3, <1>4, ClientFields, JobFields DEF Fits, Enters, Sends
<1>6. {d} \in SUBSET Account /\ {} \in SUBSET Account
  OBVIOUS
<1>7. failed' \subseteq Account
      /\ UNCHANGED <<member, chan, epoch, pending, capped, gone, swept, expelled, load>>
  BY DEF JoinAccepted, Shape, ServerShape
<1>8. ServerShape' /\ Grows /\ Commits(d, base, {d}, {})
  BY <1>1, <1>3, <1>4, <1>5, <1>6, <1>7, CommitShape
<1>9. PICK e : e = EndWith(k, "ready")
  OBVIOUS
<1>10. /\ e \in Clients
       /\ e.mem = k.mem /\ e.disk = k.disk /\ e.known = k.known /\ e.cursor = k.cursor
       /\ e.untrusted = k.untrusted /\ e.held = k.held /\ e.vetted = k.vetted
       /\ e.job = NoJob /\ e.check.step \in {"none", "due"}
  BY <1>2, <1>9, Ends
<1>11. PICK c : c = [e EXCEPT !.ready = TRUE]
  OBVIOUS
<1>12. /\ c \in Clients
       /\ c.mem = k.mem /\ c.disk = k.disk /\ c.known = k.known /\ c.cursor = k.cursor
       /\ c.untrusted = k.untrusted /\ c.held = k.held /\ c.vetted = k.vetted
       /\ c.job = NoJob /\ c.check.step \in {"none", "due"}
  BY <1>10, <1>11 DEF Clients
<1>13. Turn(d, c)
  BY <1>1, <1>9, <1>11 DEF JoinAccepted
<1>14. Fits(d, c)
  <2>1. c.disk \in {None, c.mem} /\ (c.known => c.mem # None)
    BY <1>5, <1>12
  <2>. QED  BY <2>1, <1>2, <1>12, IdleFits
<1>15. Fits(d, c)'
  BY <1>8, <1>12, <1>14, StillFits DEF Shape
<1>16. Shape' /\ client'[d] = c /\ Alone(d)
  BY <1>8, <1>12, <1>13, <1>15, Moves DEF Alone
<1>17. SameVerdict(k, c)
  BY <1>12 DEF SameVerdict
<1>. QED  BY <1>1, <1>3, <1>5, <1>8, <1>12, <1>16, <1>17

LEMMA SweepPostedShape ==
  ASSUME Shape, SweepPosted
  PROVE  /\ Shape' /\ Alone(Owner) /\ SameVerdict(client[Owner], client'[Owner])
         /\ LET k == client[Owner]
                c == client'[Owner]
            IN  /\ k.job.op = "sweep" /\ k.job.step = "post" /\ c.job = NoJob
                /\ c.mem = k.mem /\ c.disk = k.disk /\ c.ready = k.ready /\ k.mem # None
                /\ \/ Commits(Owner, k.job.base, {}, {k.job.who})
                   \/ ~AtEpoch(k.job.base) /\ UNCHANGED <<log, leaves, info>>
<1>. Owner \in Account
  BY ChannelAssumption
<1>1. PICK k : k = client[Owner]
  OBVIOUS
<1>2. k \in Clients /\ Fits(Owner, k)
  BY <1>1 DEF Shape, Devices
<1>3. k.job.op = "sweep" /\ k.job.step = "post"
  BY <1>1 DEF SweepPosted, Doing
<1>4. PICK base, a : base = k.job.base /\ a = k.job.who
  OBVIOUS
<1>5. /\ base \in Seq(Account) /\ k.mem \in States /\ k.mem.line = Append(base, Owner) /\ Sends(k)
      /\ k.disk = k.mem /\ k.mem # None /\ a \in Account
  BY <1>2, <1>3, <1>4, ClientFields, JobFields DEF Fits, Sends
<1>6. {} \in SUBSET Account /\ {a} \in SUBSET Account
  BY <1>5
<1>7. failed' \subseteq Account
      /\ UNCHANGED <<member, chan, epoch, pending, capped, gone, swept, expelled, load>>
  BY DEF SweepPosted, Shape, ServerShape
<1>8. /\ ServerShape' /\ Grows
      /\ Commits(Owner, base, {}, {a}) \/ (~AtEpoch(base) /\ UNCHANGED <<log, leaves, info>>)
  <2>1. CASE Commit(Owner, base, {}, {a})
    BY <2>1, <1>1, <1>4, <1>5, <1>6, <1>7, CommitShape
  <2>2. CASE ~AtEpoch(base) /\ UNCHANGED <<log, leaves, info>>
    BY <2>2, <1>7, Quiet DEF Shape
  <2>. QED  BY <2>1, <2>2, <1>1, <1>4 DEF SweepPosted
<1>9. PICK c : c = [k EXCEPT !.job = NoJob]
  OBVIOUS
<1>10. c \in Clients
  BY <1>2, <1>9, JobKinds DEF Clients
<1>11. /\ c.mem = k.mem /\ c.disk = k.disk /\ c.known = k.known /\ c.cursor = k.cursor
       /\ c.ready = k.ready /\ c.untrusted = k.untrusted /\ c.held = k.held /\ c.job = NoJob
       /\ c.vetted = k.vetted /\ c.check = k.check
  BY <1>2, <1>9 DEF Clients
<1>12. Turn(Owner, c)
  BY <1>1, <1>9 DEF SweepPosted
<1>13. Fits(Owner, c)
  <2>1. c.disk \in {None, c.mem} /\ (c.known => c.mem # None) /\ (c.check.step = "fetch" => c.known)
    BY <1>2, <1>5, <1>11 DEF Fits
  <2>. QED  BY <2>1, <1>2, <1>11, IdleFits
<1>14. Fits(Owner, c)'
  BY <1>8, <1>10, <1>13, StillFits DEF Shape
<1>15. Shape' /\ client'[Owner] = c /\ Alone(Owner)
  BY <1>8, <1>10, <1>12, <1>14, Moves DEF Alone
<1>16. SameVerdict(k, c)
  BY <1>11 DEF SameVerdict
<1>. QED  BY <1>1, <1>3, <1>4, <1>5, <1>8, <1>11, <1>15, <1>16
(* A failed request may have been carried out. *)
LEMMA FailShape ==
  ASSUME Shape, NEW d \in Account, Fail(d)
  PROVE  /\ Shape' /\ Alone(d) /\ SameVerdict(client[d], client'[d]) /\ d \in failed'
         /\ LET k == client[d]
            IN  \/ UNCHANGED <<log, leaves, info>>
                \/ k.job.op = "sweep" /\ Commits(d, k.job.base, {}, {k.job.who})
                \/ Enters(k) /\ Commits(d, k.job.base, {d}, {})
                \/ d = Owner /\ Publishes
<1>1. PICK k : k = client[d]
  OBVIOUS
<1>2. k \in Clients /\ Fits(d, k)
  BY <1>1 DEF Shape, Devices
<1>3. Sends(k) /\ k.mem \in States /\ k.disk = k.mem /\ k.mem # None /\ k.job \in Jobs
  BY <1>1, <1>2, ClientFields DEF Fail, Posting, Sends, Fits
<1>4. failed' \subseteq Account /\ d \in failed'
      /\ UNCHANGED <<member, chan, epoch, pending, capped, gone, swept, expelled, load>>
  BY DEF Fail, Shape, ServerShape
<1>5. /\ ServerShape' /\ Grows
      /\ \/ UNCHANGED <<log, leaves, info>>
         \/ k.job.op = "sweep" /\ Commits(d, k.job.base, {}, {k.job.who})
         \/ Enters(k) /\ Commits(d, k.job.base, {d}, {})
         \/ d = Owner /\ Publishes
  <2>1. CASE UNCHANGED <<log, leaves, info>>
    BY <2>1, <1>4, Quiet DEF Shape
  <2>2. CASE k.job.op = "sweep" /\ Commit(d, k.job.base, {}, {k.job.who})
    <3>1. PICK base, a : base = k.job.base /\ a = k.job.who
      OBVIOUS
    <3>2. base \in Seq(Account) /\ k.mem.line = Append(base, d) /\ a \in Account
      BY <3>1, <2>2, <1>2, <1>3, JobFields DEF Fits, Sends
    <3>3. {} \in SUBSET Account /\ {a} \in SUBSET Account
      BY <3>2
    <3>. QED  BY <3>1, <3>2, <3>3, <2>2, <1>1, <1>3, <1>4, CommitShape
  <2>3. CASE Enters(k) /\ Commit(d, k.job.base, {d}, {})
    <3>1. PICK base : base = k.job.base
      OBVIOUS
    <3>2. base \in Seq(Account) /\ k.mem.line = Append(base, d)
      BY <3>1, <2>3, <1>2, <1>3, JobFields DEF Fits, Sends, Enters
    <3>3. {} \in SUBSET Account /\ {d} \in SUBSET Account
      OBVIOUS
    <3>. QED  BY <3>1, <3>2, <3>3, <2>3, <1>1, <1>3, <1>4, CommitShape
  <2>4. CASE k.job.op = "found" /\ Publishable /\ info' = k.mem /\ leaves' = {d} /\ UNCHANGED log
    <3>1. d = Owner
      BY <2>4, <1>2 DEF Fits
    <3>. QED  BY <3>1, <2>4, <1>1, <1>4, PublishServer
  <2>. QED  BY <2>1, <2>2, <2>3, <2>4, <1>1 DEF Fail, Enters
<1>6. \E c \in Clients :
        /\ Turn(d, c)
        /\ c.mem = k.mem /\ c.disk = k.disk /\ c.known = k.known /\ c.cursor = k.cursor
        /\ c.held = k.held /\ c.job = NoJob /\ c.vetted = k.vetted /\ c.untrusted = k.untrusted
        /\ c.check.step \in {"none", "due"} \/ c.check = k.check
  <2>1. CASE k.job.op \in {"open", "join"}
    <3>1. PICK c : c = EndWith(k, "pending")
      OBVIOUS
    <3>2. Turn(d, c)
      BY <3>1, <2>1, <1>1 DEF Fail
    <3>. QED  BY <3>1, <3>2, <1>2, Ends
  <2>2. CASE k.job.op \notin {"open", "join"}
    <3>1. PICK c : c = [k EXCEPT !.job = NoJob]
      OBVIOUS
    <3>2. Turn(d, c)
      BY <3>1, <2>2, <1>1 DEF Fail
    <3>3. c \in Clients
      BY <3>1, <1>2, JobKinds DEF Clients
    <3>4. /\ c.mem = k.mem /\ c.disk = k.disk /\ c.known = k.known /\ c.cursor = k.cursor
          /\ c.held = k.held /\ c.job = NoJob /\ c.vetted = k.vetted /\ c.untrusted = k.untrusted
          /\ c.check = k.check
      BY <3>1, <1>2 DEF Clients
    <3>. QED  BY <3>2, <3>3, <3>4
  <2>. QED  BY <2>1, <2>2
<1>7. PICK c \in Clients :
        /\ Turn(d, c)
        /\ c.mem = k.mem /\ c.disk = k.disk /\ c.known = k.known /\ c.cursor = k.cursor
        /\ c.held = k.held /\ c.job = NoJob /\ c.vetted = k.vetted /\ c.untrusted = k.untrusted
        /\ c.check.step \in {"none", "due"} \/ c.check = k.check
  BY <1>6
<1>8. Fits(d, c)
  <2>1. c.disk \in {None, c.mem} /\ (c.known => c.mem # None) /\ (c.check.step = "fetch" => c.known)
    BY <1>2, <1>3, <1>7 DEF Fits
  <2>. QED  BY <2>1, <1>2, <1>7, IdleFits
<1>9. Fits(d, c)'
  BY <1>5, <1>7, <1>8, StillFits DEF Shape
<1>10. Shape' /\ client'[d] = c /\ Alone(d)
  BY <1>5, <1>7, <1>9, Moves DEF Alone
<1>11. SameVerdict(k, c)
  BY <1>7 DEF SameVerdict
<1>. QED  BY <1>1, <1>4, <1>5, <1>10, <1>11

LEMMA JoinShape ==
  ASSUME Shape, NEW d \in Account, Join(d)
  PROVE  Shape' /\ Goes(d)
<1>1. PICK k : k = client[d]
  OBVIOUS
<1>2. k \in Clients /\ Fits(d, k)
  BY <1>1 DEF Shape, Devices
<1>3. k.job = NoJob /\ k.check = NoCheck
  BY <1>1 DEF Join, Resting
<1>4. ServerShape'
  BY DEF Join, Shape, ServerShape
<1>5. Grows
  BY DEF Join, Grows, Shape, ServerShape
<1>6. PICK j : j = Answer(d, "join", "active", 1)
  OBVIOUS
<1>7. j = [op |-> "join", step |-> "answer", info |-> info, tries |-> 1]
  BY <1>6 DEF Answer, InfoFor
<1>8. j \in Jobs
  BY <1>7, JobKinds DEF Shape, ServerShape
<1>9. PICK c : c = [k EXCEPT !.job = j]
  OBVIOUS
<1>10. c \in Clients /\ Turn(d, c)
  BY <1>1, <1>2, <1>6, <1>8, <1>9 DEF Clients, Join
<1>11. /\ c.mem = k.mem /\ c.disk = k.disk /\ c.known = k.known /\ c.cursor = k.cursor
       /\ c.ready = k.ready /\ c.untrusted = k.untrusted /\ c.held = k.held /\ c.job = j
       /\ c.vetted = k.vetted /\ c.status = k.status /\ c.check = k.check
  BY <1>2, <1>9 DEF Clients
<1>12. Fits(d, c)
  BY <1>2, <1>3, <1>7, <1>11 DEF Fits, Sends, Enters
<1>13. Fits(d, c)'
  BY <1>4, <1>5, <1>10, <1>12, StillFits DEF Shape
<1>14. Shape' /\ client'[d] = c /\ Alone(d)
  BY <1>4, <1>5, <1>10, <1>13, Moves DEF Alone
<1>15. Keeps(d, k, c) /\ SameVerdict(k, c)
  BY <1>3, <1>7, <1>11 DEF Keeps, SameVerdict, Claims, Flies, Sends, Serves, Enters, NoJob
<1>. QED  BY <1>1, <1>14, <1>15 DEF Goes

LEMMA KickShape ==
  ASSUME Shape, NEW a \in Account, Kick(a)
  PROVE  Shape'
<1>1. ServerShape'
  BY DEF Kick, Shape, ServerShape
<1>2. Grows
  BY DEF Kick, Grows, Shape, ServerShape
<1>. QED  BY <1>1, <1>2, Stays DEF Kick

LEMMA LeaveShape ==
  ASSUME Shape, NEW a \in Account, Leave(a)
  PROVE  Shape'
<1>1. epoch + 1 \in Nat
  BY DEF Shape, ServerShape
<1>2. PICK e \in Nat : e = epoch + 1
  BY <1>1
<1>3. gone' \in [Account -> Nat]
  BY <1>2 DEF Leave, Shape, ServerShape
<1>4. ServerShape'
  BY <1>3 DEF Leave, Shape, ServerShape
<1>5. Grows
  BY DEF Leave, Grows, Shape, ServerShape
<1>. QED  BY <1>4, <1>5, Stays DEF Leave

LEMMA IssueCapsShape ==
  ASSUME Shape, IssueCaps
  PROVE  Shape'
<1>1. ServerShape'
  BY DEF IssueCaps, Shape, ServerShape
<1>2. Grows
  BY DEF IssueCaps, Grows, Shape, ServerShape
<1>. QED  BY <1>1, <1>2, Stays DEF IssueCaps

LEMMA RotateShape ==
  ASSUME Shape, Rotate
  PROVE  /\ Shape' /\ Alone(Owner) /\ Keeps(Owner, client[Owner], client'[Owner])
         /\ SameVerdict(client[Owner], client'[Owner])
<1>. Owner \in Account
  BY ChannelAssumption
<1>1. PICK k : k = client[Owner]
  OBVIOUS
<1>2. k \in Clients /\ Fits(Owner, k)
  BY <1>1 DEF Shape, Devices
<1>3. epoch \in Nat /\ epoch < MaxEpoch /\ MaxEpoch \in Nat
  BY ChannelAssumption DEF Rotate, Shape, ServerShape
<1>4. PICK e \in Nat : e = epoch + 1
  BY <1>3
<1>5. epoch' = e /\ e \in 0 .. MaxEpoch /\ epoch < e
  BY <1>3, <1>4 DEF Rotate
<1>6. ServerShape'
  BY <1>5 DEF Rotate, Shape, ServerShape
<1>7. Grows
  BY <1>3, <1>5 DEF Rotate, Grows, Shape, ServerShape
<1>8. PICK c : c = [k EXCEPT !.held = e]
  OBVIOUS
<1>9. c \in Clients /\ Turn(Owner, c)
  BY <1>1, <1>2, <1>4, <1>8 DEF Clients, Rotate
<1>10. /\ c.mem = k.mem /\ c.disk = k.disk /\ c.known = k.known /\ c.cursor = k.cursor
       /\ c.ready = k.ready /\ c.untrusted = k.untrusted /\ c.held = e /\ c.job = k.job
       /\ c.vetted = k.vetted /\ c.status = k.status /\ c.check = k.check
  BY <1>2, <1>8 DEF Clients
<1>11. Fits(Owner, k)'
  BY <1>2, <1>6, <1>7, StillFits DEF Shape
<1>12. Fits(Owner, c)'
  BY <1>5, <1>10, <1>11 DEF Fits, Sends, Enters
<1>13. Shape' /\ client'[Owner] = c /\ Alone(Owner)
  BY <1>6, <1>7, <1>9, <1>12, Moves DEF Alone
<1>14. Keeps(Owner, k, c) /\ SameVerdict(k, c)
  BY <1>10 DEF Keeps, SameVerdict, Claims, Flies, Sends, Serves, Enters
<1>. QED  BY <1>1, <1>13, <1>14

LEMMA SweepShape ==
  ASSUME Shape, NEW a \in Account, Sweep(a)
  PROVE  /\ Shape' /\ Alone(Owner) /\ SameVerdict(client[Owner], client'[Owner])
         /\ LET k == client[Owner]
                c == client'[Owner]
            IN  /\ k.job = NoJob /\ k.mem # None
                /\ c.job = [op |-> "sweep", step |-> "build", who |-> a]
                /\ c.known = k.known /\ c.ready = k.ready /\ c.status = k.status
                /\ c.mem = k.mem /\ c.disk = k.disk
<1>. Owner \in Account
  BY ChannelAssumption
<1>1. PICK k : k = client[Owner]
  OBVIOUS
<1>2. k \in Clients /\ Fits(Owner, k)
  BY <1>1 DEF Shape, Devices
<1>3. k.job = NoJob /\ k.mem # None
  BY <1>1 DEF Sweep, Resting
<1>4. ServerShape'
  BY DEF Sweep, Shape, ServerShape
<1>5. Grows
  BY DEF Sweep, Grows, Shape, ServerShape
<1>6. PICK j : j = [op |-> "sweep", step |-> "build", who |-> a]
  OBVIOUS
<1>7. PICK c : c = [k EXCEPT !.job = j]
  OBVIOUS
<1>8. c \in Clients /\ Turn(Owner, c)
  BY <1>1, <1>2, <1>6, <1>7, JobKinds DEF Clients, Sweep
<1>9. /\ c.mem = k.mem /\ c.disk = k.disk /\ c.known = k.known /\ c.cursor = k.cursor
      /\ c.ready = k.ready /\ c.untrusted = k.untrusted /\ c.held = k.held /\ c.job = j
      /\ c.vetted = k.vetted /\ c.status = k.status /\ c.check = k.check
  BY <1>2, <1>7 DEF Clients
<1>10. a \in swept'
  BY DEF Sweep
<1>11. Fits(Owner, k)'
  BY <1>2, <1>4, <1>5, StillFits DEF Shape
<1>12. Fits(Owner, c)'
  BY <1>3, <1>6, <1>9, <1>10, <1>11 DEF Fits, Sends, Enters
<1>13. Shape' /\ client'[Owner] = c /\ Alone(Owner)
  BY <1>4, <1>5, <1>8, <1>12, Moves DEF Alone
<1>14. SameVerdict(k, c)
  BY <1>9 DEF SameVerdict
<1>. QED  BY <1>1, <1>3, <1>6, <1>9, <1>13, <1>14
-----------------------------------------------------------------------------
(* The shape is an invariant *)

LEMMA InitShape == Init => Shape
<1>. SUFFICES ASSUME Init PROVE Shape
  OBVIOUS
<1>1. load \in Loads /\ load.joined \subseteq Account /\ load.capped \subseteq Account
      /\ (load.joined = {} \/ Owner \in load.joined) /\ Owner \in Account
  BY ChannelAssumption DEF Init
<1>2. PICK s : s = [line |-> << >>, tree |-> load.joined]
  OBVIOUS
<1>3. s \in States /\ s.line = << >> /\ None \notin States
  <2>1. << >> \in Seq(Account)
    OBVIOUS
  <2>2. load.joined \in SUBSET Account
    BY <1>1
  <2>. QED  BY <2>1, <2>2, <1>2, StateFields
<1>4. info \in States \cup {None} /\ (info # None => Len(info.line) = 0)
      /\ (info = None => leaves = {})
  <2>1. Len(<< >>) = 0
    OBVIOUS
  <2>. QED  BY <2>1, <1>2, <1>3 DEF Init
<1>5. log = << >> /\ log \in Seq(Rows) /\ Len(log) = 0
  BY DEF Init
<1>6. gone \in [Account -> Nat]
  <2>1. MaxEpoch + 2 \in Nat
    BY ChannelAssumption
  <2>. QED  BY <2>1 DEF Init
<1>7. ServerShape
  <2>1. epoch \in 0 .. MaxEpoch
    BY ChannelAssumption DEF Init
  <2>2. chan \in [Account -> {"none", "active", "removed"}] /\ chan[Owner] = "active"
    BY <1>1 DEF Init
  <2>3. \A n \in 1 .. Len(log) : Len(log[n].base) = n - 1
    BY <1>5
  <2>4. member \subseteq Account /\ leaves \subseteq Account /\ capped \subseteq Account
        /\ Owner \in member /\ pending \in BOOLEAN
    BY <1>1 DEF Init
  <2>5. swept = {} /\ expelled = {} /\ failed = {}
    BY DEF Init
  <2>6. info # None => Len(info.line) = Len(log)
    BY <1>4, <1>5
  <2>. QED  BY <2>1, <2>2, <2>3, <2>4, <2>5, <2>6, <1>1, <1>4, <1>5, <1>6 DEF ServerShape
<1>8. ASSUME NEW a \in Account PROVE client[a] \in Clients /\ Fits(a, client[a])
  <2>1. PICK c : c = client[a]
    OBVIOUS
  <2>2. CASE a \in load.joined
    <3>1. c = [Fresh EXCEPT !.mem = s, !.disk = s, !.known = TRUE, !.ready = TRUE, !.status = "ready"]
      BY <2>1, <2>2, <1>2 DEF Init, Entered
    <3>2. c \in Clients
      BY <3>1, <1>3, FreshClient DEF Clients
    <3>3. /\ c.mem = s /\ c.disk = s /\ c.cursor = 0 /\ c.held = 0 /\ c.job = NoJob
          /\ c.check = NoCheck
      BY <3>1 DEF Fresh
    <3>4. s # None /\ 0 <= Len(log) /\ 0 <= epoch
      BY <1>3, <1>5 DEF Init
    <3>. QED  BY <3>2, <3>3, <3>4, <2>1 DEF Fits, Sends, Enters, NoJob, NoCheck
  <2>3. CASE a \notin load.joined
    <3>1. c = Fresh /\ c \in Clients
      BY <2>1, <2>3, FreshClient DEF Init
    <3>2. /\ c.mem = None /\ c.disk = None /\ c.cursor = 0 /\ c.held = 0 /\ c.job = NoJob
          /\ c.check = NoCheck /\ c.known = FALSE
      BY <3>1 DEF Fresh
    <3>3. 0 <= Len(log) /\ 0 <= epoch
      BY <1>5 DEF Init
    <3>. QED  BY <3>1, <3>2, <3>3, <2>1 DEF Fits, Sends, Enters, NoJob, NoCheck
  <2>. QED  BY <2>2, <2>3
<1>9. Devices
  <2>1. client = [a \in Account |-> client[a]]
    BY DEF Init
  <2>. QED  BY <2>1, <1>8 DEF Devices
<1>. QED  BY <1>7, <1>9 DEF Shape

LEMMA StutterShape ==
  ASSUME Shape, UNCHANGED vars
  PROVE  Shape'
BY DEF Shape, ServerShape, Devices, Fits, Sends, Enters

LEMMA ShapeStep == Shape /\ [ChannelNext]_vars => Shape'
<1>. SUFFICES ASSUME Shape, [ChannelNext]_vars PROVE Shape'
  OBVIOUS
<1>1. CASE Manages
  BY <1>1, PublishShape, SweepBuildShape, SweepPostedShape DEF Manages
<1>2. CASE Bootstrap
  BY <1>2, BootstrapShape
<1>3. CASE Rotate
  BY <1>3, RotateShape
<1>4. CASE IssueCaps
  BY <1>4, IssueCapsShape
<1>5. ASSUME NEW d \in Account, Works(d) PROVE Shape'
  BY <1>5, ConsumeShape, JoinAcceptedShape, JoinConflictShape, JoinRefusedShape,
     CheckStartShape, CheckReadShape, CheckJudgeShape DEF Works
<1>6. ASSUME NEW d \in Account, Receive(d) \/ FetchKey(d) \/ Open(d) \/ Join(d) \/ Send(d)
      PROVE  Shape'
  BY <1>6, ReceiveShape, FetchKeyShape, OpenShape, JoinShape, SendShape
<1>7. ASSUME NEW d \in Account, Kick(d) \/ Sweep(d) \/ Leave(d) \/ Fail(d) \/ Reload(d)
      PROVE  Shape'
  BY <1>7, KickShape, SweepShape, LeaveShape, FailShape, ReloadShape
<1>8. CASE UNCHANGED vars
  BY <1>8, StutterShape
<1>. QED  BY <1>1, <1>2, <1>3, <1>4, <1>5, <1>6, <1>7, <1>8 DEF ChannelNext

-----------------------------------------------------------------------------
(* What shows ready has its leaf *)

Counted ==
  \A d \in Account \ (swept \cup failed) :
    Claims(client[d]) /\ ~Flies(client[d]) => d \in leaves

LEMMA CountedBy ==
  ASSUME Counted, NEW d, Alone(d), swept \subseteq swept', failed \subseteq failed',
         \A e \in leaves : e \in leaves' \cup swept',
         (Claims(client'[d]) /\ ~Flies(client'[d])) =>
           (Claims(client[d]) /\ ~Flies(client[d])) \/ d \in leaves' \cup swept' \cup failed'
  PROVE  Counted'
<1>1. ASSUME NEW e \in Account \ (swept' \cup failed'),
             Claims(client'[e]), ~Flies(client'[e])
      PROVE  e \in leaves'
  <2>1. CASE e = d
    BY <2>1, <1>1 DEF Counted
  <2>2. CASE e # d
    <3>1. client'[e] = client[e]
      BY <2>2 DEF Alone
    <3>. QED  BY <3>1, <1>1 DEF Counted
  <2>. QED  BY <2>1, <2>2
<1>. QED  BY <1>1 DEF Counted, Claims, Flies, Sends

LEMMA CountedQuiet ==
  ASSUME Counted, NEW d, Alone(d), swept \subseteq swept', failed \subseteq failed',
         leaves' = leaves, Keeps(d, client[d], client'[d])
  PROVE  Counted'
<1>1. (Claims(client'[d]) /\ ~Flies(client'[d])) =>
           (Claims(client[d]) /\ ~Flies(client[d])) \/ d \in leaves' \cup swept' \cup failed'
  BY DEF Keeps
<1>. QED  BY <1>1, CountedBy

(* A device that had its leaf, or whose leaf does not matter. *)
LEMMA CountedSame ==
  ASSUME Counted, NEW d, Alone(d), swept \subseteq swept', failed \subseteq failed',
         \A e \in leaves : e \in leaves' \cup swept',
         client[d].mem # None \/ d \in leaves' \cup failed', ~Flies(client[d]) \/ d \in leaves' \cup failed'
  PROVE  Counted'
<1>1. client[d].mem # None => Claims(client[d])
  BY DEF Claims
<1>. QED  BY <1>1, CountedBy

LEMMA CountedStep == Shape /\ Counted /\ [ChannelNext]_vars => Counted'
<1>. SUFFICES ASSUME Shape, Counted, [ChannelNext]_vars PROVE Counted'
  OBVIOUS
<1>. Owner \in Account
  BY ChannelAssumption
<1>1. CASE Publish
  <2>1. Alone(Owner) /\ leaves = {} /\ Owner \in leaves'
    BY <1>1, PublishShape DEF Publishes
  <2>. QED  BY <2>1, <1>1, CountedSame DEF Publish
<1>2. CASE SweepBuild
  <2>1. Alone(Owner) /\ client[Owner].mem # None /\ ~Flies(client[Owner])
    BY <1>2, SweepBuildShape
  <2>. QED  BY <2>1, <1>2, CountedSame DEF SweepBuild
<1>3. CASE SweepPosted
  <2>1. PICK a : a = client[Owner].job.who
    OBVIOUS
  <2>2. /\ Alone(Owner) /\ client[Owner].mem # None /\ client[Owner].job.op = "sweep"
        /\ leaves' = leaves \/ leaves' = (leaves \cup {}) \ {a}
    BY <2>1, <1>3, SweepPostedShape DEF Commits
  <2>3. a \in swept /\ swept' = swept
    BY <2>1, <2>2, <1>3 DEF SweepPosted, Shape, Devices, Fits
  <2>4. ~Flies(client[Owner]) /\ \A e \in leaves : e \in leaves' \cup swept'
    BY <2>2, <2>3 DEF Flies
  <2>. QED  BY <2>2, <2>3, <2>4, <1>3, CountedSame DEF SweepPosted
<1>4. CASE Bootstrap
  <2>1. Goes(Owner)
    BY <1>4, BootstrapShape
  <2>. QED  BY <2>1, <1>4, CountedQuiet DEF Bootstrap, Goes
<1>5. CASE Rotate
  <2>1. Alone(Owner) /\ Keeps(Owner, client[Owner], client'[Owner])
    BY <1>5, RotateShape
  <2>. QED  BY <2>1, <1>5, CountedQuiet DEF Rotate
<1>6. ASSUME NEW a, IssueCaps \/ Kick(a) \/ Leave(a) PROVE Counted'
  BY <1>6 DEF IssueCaps, Kick, Leave, Counted, Claims, Flies, Sends
<1>7. ASSUME NEW d \in Account, JoinAccepted(d) PROVE Counted'
  <2>1. Alone(d) /\ leaves' = (leaves \cup {d}) \ {}
    BY <1>7, JoinAcceptedShape DEF Commits
  <2>. QED  BY <2>1, <1>7, CountedSame DEF JoinAccepted
<1>8. ASSUME NEW d \in Account,
             CheckStart(d) \/ CheckRead(d) \/ CheckJudge(d)
      PROVE  Counted'
  <2>1. Alone(d) /\ Keeps(d, client[d], client'[d])
    BY <1>8, CheckStartShape, CheckReadShape, CheckJudgeShape
  <2>2. leaves' = leaves /\ swept' = swept /\ failed' = failed
    BY <1>8 DEF CheckStart, CheckRead, CheckJudge
  <2>. QED  BY <2>1, <2>2, CountedQuiet
<1>9. ASSUME NEW d \in Account,
             Consume(d) \/ JoinConflict(d) \/ JoinRefused(d) \/ FetchKey(d) \/ Open(d)
               \/ Join(d) \/ Send(d) \/ Reload(d)
      PROVE  Counted'
  <2>1. Goes(d)
    BY <1>9, ConsumeShape, JoinConflictShape, JoinRefusedShape, FetchKeyShape, OpenShape,
       JoinShape, SendShape, ReloadShape
  <2>2. leaves' = leaves /\ swept' = swept /\ failed \subseteq failed'
    BY <1>9 DEF Consume, JoinConflict, JoinRefused, FetchKey, Open, Join, Send, Reload
  <2>. QED  BY <2>1, <2>2, CountedQuiet DEF Goes
<1>10. ASSUME NEW d \in Account, Receive(d) PROVE Counted'
  <2>1. Alone(d) /\ client[d].mem # None /\ ~Flies(client[d])
    BY <1>10, ReceiveShape
  <2>. QED  BY <2>1, <1>10, CountedSame DEF Receive
<1>11. ASSUME NEW a \in Account, Sweep(a) PROVE Counted'
  <2>1. Alone(Owner) /\ client[Owner].mem # None /\ client[Owner].job = NoJob
    BY <1>11, SweepShape
  <2>2. ~Flies(client[Owner])
    BY <2>1 DEF Flies, Sends, NoJob
  <2>3. leaves' = leaves /\ swept \subseteq swept' /\ failed' = failed
    BY <1>11 DEF Sweep
  <2>. QED  BY <2>1, <2>2, <2>3, CountedSame
<1>12. ASSUME NEW d \in Account, Fail(d) PROVE Counted'
  <2>1. PICK a : a = client[d].job.who
    OBVIOUS
  <2>2. /\ Alone(d) /\ d \in failed'
        /\ \/ leaves' = leaves \/ leaves = {} \/ leaves' = (leaves \cup {d}) \ {}
           \/ client[d].job.op = "sweep" /\ leaves' = (leaves \cup {}) \ {a}
    BY <2>1, <1>12, FailShape DEF Commits, Publishes
  <2>3. client[d].job.op = "sweep" => a \in swept
    BY <2>1 DEF Shape, Devices, Fits
  <2>4. swept' = swept /\ failed \subseteq failed'
    BY <1>12 DEF Fail
  <2>5. \A e \in leaves : e \in leaves' \cup swept'
    BY <2>2, <2>3, <2>4
  <2>. QED  BY <2>2, <2>4, <2>5, CountedSame
<1>13. CASE UNCHANGED vars
  BY <1>13 DEF Counted, Claims, Flies, Sends
<1>. QED  BY <1>1, <1>2, <1>3, <1>4, <1>5, <1>6, <1>7, <1>8, <1>9, <1>10, <1>11, <1>12, <1>13
          DEF ChannelNext, Manages, Works

LEMMA InitCounted == Init => Counted
<1>. SUFFICES ASSUME Init, NEW d \in Account, d \notin load.joined PROVE ~Claims(client[d])
  BY DEF Init, Counted
<1>1. client[d] = Fresh
  BY DEF Init
<1>. QED  BY <1>1 DEF Claims, Fresh

LEMMA ReadyFollows == Shape /\ Counted => ReadyInvariant
<1>. SUFFICES ASSUME Shape, Counted PROVE ReadyInvariant
  OBVIOUS
<1>1. ASSUME NEW d \in Account
      PROVE  LET c == client[d]
             IN  /\ {c.mem, c.disk} \subseteq States \cup {None}
                 /\ c.cursor \in 0..Len(log) /\ c.held \in 0..epoch
                 /\ {c.known, c.ready, c.untrusted} \subseteq BOOLEAN
                 /\ c.status \in {"idle", "joining", "ready", "locked", "pending", "untrusted"}
  <2>1. PICK c : c = client[d]
    OBVIOUS
  <2>2. c \in Clients /\ Fits(d, c)
    BY <2>1 DEF Shape, Devices
  <2>3. c.cursor \in 0 .. Len(log) /\ c.held \in 0 .. epoch
    BY <2>2, ClientFields DEF Fits, Shape, ServerShape
  <2>. QED  BY <2>1, <2>2, <2>3, ClientFields
<1>2. ChannelTypeOK
  BY <1>1 DEF ChannelTypeOK, Shape, ServerShape
<1>3. ReadyIsLeaf
  <2>. SUFFICES ASSUME NEW d \in Account \ (swept \cup failed), client[d].status = "ready",
                       client[d].job = NoJob
                PROVE  d \in leaves
    BY DEF ReadyIsLeaf
  <2>1. Claims(client[d]) /\ ~Flies(client[d])
    BY DEF Claims, Flies, Sends, NoJob
  <2>. QED  BY <2>1 DEF Counted
<1>. QED  BY <1>2, <1>3 DEF ReadyInvariant

(* A device that shows a channel ready is one the server counts among its   *)
(* leaves, and takes messages from, whatever joins, kicks, openings and     *)
(* reloads there were; the rows and stores are well-formed.                  *)
THEOREM ReadyMeansCounted == ChannelSpec => []ReadyInvariant
<1>1. Init => Shape /\ Counted
  BY InitShape, InitCounted
<1>2. Shape /\ Counted /\ [ChannelNext]_vars => (Shape /\ Counted)'
  BY ShapeStep, CountedStep
<1>3. Shape /\ Counted => ReadyInvariant
  BY ReadyFollows
<1>. QED  BY <1>1, <1>2, <1>3, PTL DEF ChannelSpec
-----------------------------------------------------------------------------
(* Who has left is cut off *)

(* A capability found is of an epoch its account was a member in.           *)
Covers(e, tree) == \A x \in tree \ member : e < gone[x]

Cautious(c) ==
  /\ c.vetted.epoch <= epoch
  /\ c.check.step \in {"fetch", "judge"} => c.check.epoch <= epoch
  /\ (c.check.step = "judge" /\ c.check.trusted) => Covers(c.check.epoch, c.check.tree)
  /\ ~c.untrusted => Covers(c.vetted.epoch, c.vetted.tree)

Vetted ==
  /\ Covers(epoch, capped)
  /\ \A r \in reached : r.who \in Account \ member /\ r.epoch < gone[r.who]
  /\ \A d \in Account : Cautious(client[d])

(* Time and leavings take nothing back. *)
Later ==
  /\ member' \subseteq member /\ epoch <= epoch'
  /\ \A x \in Account : IF x \in member \ member' THEN gone'[x] > epoch ELSE gone'[x] = gone[x]

LEMMA StillCovers ==
  ASSUME Shape, Shape', Later, NEW e \in Nat, e <= epoch, NEW tree \in SUBSET Account,
         Covers(e, tree)
  PROVE  Covers(e, tree)'
<1>1. epoch \in Nat /\ gone' \in [Account -> Nat]
  BY DEF Shape, ServerShape
<1>2. ASSUME NEW x \in tree, x \notin member' PROVE e < gone'[x]
  <2>1. CASE x \in member
    BY <2>1, <1>1, <1>2 DEF Later
  <2>2. CASE x \notin member
    BY <2>2, <1>2 DEF Later, Covers
  <2>. QED  BY <2>1, <2>2
<1>. QED  BY <1>2 DEF Covers

LEMMA StillCautious ==
  ASSUME Shape, Shape', Later, NEW c \in Clients, Cautious(c)
  PROVE  Cautious(c)'
<1>1. epoch \in Nat /\ epoch' \in Nat /\ epoch <= epoch'
  BY DEF Shape, ServerShape, Later
<1>2. /\ c.vetted.epoch \in Nat /\ c.vetted.tree \in SUBSET Account /\ c.check \in Checks
  BY ClientFields
<1>3. c.vetted.epoch <= epoch' /\ (~c.untrusted => Covers(c.vetted.epoch, c.vetted.tree)')
  BY <1>1, <1>2, StillCovers DEF Cautious
<1>4. c.check.step \in {"fetch", "judge"} => c.check.epoch <= epoch'
  BY <1>1, <1>2, CheckFields DEF Cautious
<1>5. (c.check.step = "judge" /\ c.check.trusted) => Covers(c.check.epoch, c.check.tree)'
  BY <1>2, CheckFields, StillCovers DEF Cautious
<1>. QED  BY <1>3, <1>4, <1>5 DEF Cautious, Covers

(* A verdict that stands is as cautious as it was. *)
LEMMA SameCaution ==
  ASSUME Shape, NEW k \in Clients, Cautious(k), NEW c \in Clients, SameVerdict(k, c)
  PROVE  Cautious(c)
<1>1. c.vetted.epoch <= epoch /\ (~c.untrusted => Covers(c.vetted.epoch, c.vetted.tree))
  <2>1. CASE c.vetted = k.vetted /\ c.untrusted = k.untrusted
    BY <2>1 DEF Cautious
  <2>2. CASE c.vetted = [epoch |-> 0, tree |-> {}]
    BY <2>2 DEF Covers, Shape, ServerShape
  <2>. QED  BY <2>1, <2>2 DEF SameVerdict
<1>2. CASE c.check = k.check
  BY <1>1, <1>2 DEF Cautious
<1>3. CASE c.check.step \in {"none", "due"}
  BY <1>1, <1>3 DEF Cautious
<1>. QED  BY <1>2, <1>3 DEF SameVerdict

LEMMA EveryoneCautious ==
  ASSUME Shape, Shape', Vetted, Later, NEW d \in Account, Alone(d), Cautious(client'[d])
  PROVE  \A e \in Account : Cautious(client[e])'
<1>1. ASSUME NEW e \in Account PROVE Cautious(client[e])'
  <2>1. PICK c : c = client'[e]
    OBVIOUS
  <2>2. c \in Clients
    BY <2>1 DEF Shape, Devices
  <2>3. Cautious(c)
    BY <2>1 DEF Vetted, Alone
  <2>4. Cautious(c)'
    BY <2>2, <2>3, StillCautious
  <2>. QED  BY <2>1, <2>4 DEF Cautious, Covers
<1>. QED  BY <1>1

LEMMA VettedBy ==
  ASSUME Shape, Shape', Vetted, NEW d \in Account, Alone(d),
         SameVerdict(client[d], client'[d]), UNCHANGED <<member, gone, epoch, capped, reached>>
  PROVE  Vetted'
<1>1. Later
  BY DEF Later, Shape, ServerShape
<1>2. client[d] \in Clients /\ client'[d] \in Clients /\ Cautious(client[d])
  BY DEF Shape, Devices, Vetted
<1>3. Cautious(client'[d])
  <2>1. PICK k, c : k = client[d] /\ c = client'[d]
    OBVIOUS
  <2>. QED  BY <2>1, <1>2, SameCaution
<1>4. \A e \in Account : Cautious(client[e])'
  BY <1>1, <1>3, EveryoneCautious
<1>. QED  BY <1>4 DEF Vetted, Covers

LEMMA SendVetted ==
  ASSUME Shape, Shape', Vetted, NEW d \in Account, Send(d)
  PROVE  Vetted'
<1>1. Alone(d) /\ SameVerdict(client[d], client'[d])
  BY SendShape DEF Goes
<1>2. UNCHANGED <<member, gone, epoch, capped>>
  BY DEF Send
<1>3. Later
  BY <1>2 DEF Later, Shape, ServerShape
<1>4. PICK k : k = client[d]
  OBVIOUS
<1>5. k \in Clients /\ client'[d] \in Clients /\ Cautious(k)
  BY <1>4 DEF Shape, Devices, Vetted
<1>6. Cautious(client'[d])
  <2>1. PICK c : c = client'[d]
    OBVIOUS
  <2>. QED  BY <2>1, <1>1, <1>4, <1>5, SameCaution
<1>7. \A e \in Account : Cautious(client[e])'
  BY <1>1, <1>3, <1>6, EveryoneCautious
<1>8. Covers(k.vetted.epoch, k.vetted.tree) /\ k.vetted.tree \subseteq Account
  BY <1>4, <1>5, ClientFields DEF Send, Refuses, Cautious
<1>9. \A r \in reached' : r.who \in Account \ member /\ r.epoch < gone[r.who]
  <2>. SUFFICES ASSUME NEW r \in reached' PROVE r.who \in Account \ member /\ r.epoch < gone[r.who]
    OBVIOUS
  <2>1. CASE r \in reached
    BY <2>1 DEF Vetted
  <2>2. CASE r \notin reached
    <3>1. PICK x \in (k.mem.tree \cap k.vetted.tree) \ member :
            r = [who |-> x, epoch |-> k.vetted.epoch]
      BY <2>2, <1>4 DEF Send
    <3>. QED  BY <3>1, <1>8 DEF Covers
  <2>. QED  BY <2>1, <2>2
<1>. QED  BY <1>2, <1>7, <1>9 DEF Vetted, Covers

LEMMA CheckVetted ==
  ASSUME Shape, Shape', Vetted, NEW d \in Account, CheckStart(d) \/ CheckRead(d) \/ CheckJudge(d)
  PROVE  Vetted'
<1>1. Alone(d)
  BY CheckStartShape, CheckReadShape, CheckJudgeShape
<1>2. UNCHANGED <<member, gone, epoch, capped, reached>>
  BY DEF CheckStart, CheckRead, CheckJudge
<1>3. Later
  BY <1>2 DEF Later, Shape, ServerShape
<1>4. PICK k, c : k = client[d] /\ c = client'[d]
  OBVIOUS
<1>5. k \in Clients /\ c \in Clients /\ Cautious(k) /\ Fits(d, k) /\ client \in [Account -> Clients]
  BY <1>4 DEF Shape, Devices, Vetted
<1>6. Cautious(c)
  <2>1. CASE CheckStart(d)
    <3>1. PICK j : j = IF k.known THEN [step |-> "fetch", epoch |-> k.held] ELSE NoCheck
      OBVIOUS
    <3>2. c = [k EXCEPT !.check = j]
      BY <3>1, <2>1, <1>4, <1>5 DEF CheckStart, Turn
    <3>3. c.check = j /\ c.vetted = k.vetted /\ c.untrusted = k.untrusted
      BY <3>2, <1>5 DEF Clients
    <3>4. j.step # "judge" /\ (j.step = "fetch" => j.epoch <= epoch)
      BY <3>1, <1>5, CheckKinds DEF Fits
    <3>. QED  BY <3>3, <3>4, <1>5 DEF Cautious
  <2>2. CASE CheckRead(d)
    <3>1. PICK t : t = \A a \in k.mem.tree : HoldsCap(a, k.check.epoch)
      OBVIOUS
    <3>2. PICK j : j = IF d \notin member THEN NoCheck
                       ELSE [step |-> "judge", epoch |-> k.check.epoch, tree |-> k.mem.tree,
                             trusted |-> t]
      OBVIOUS
    <3>3. c = [k EXCEPT !.check = j]
      BY <3>1, <3>2, <2>2, <1>4, <1>5 DEF CheckRead, Turn
    <3>4. c.check = j /\ c.vetted = k.vetted /\ c.untrusted = k.untrusted
      BY <3>3, <1>5 DEF Clients
    <3>5. k.check.step = "fetch" /\ k.check.epoch <= epoch
      BY <2>2, <1>4, <1>5 DEF CheckRead, Cautious
    <3>6. (j.step = "judge" /\ j.trusted) => Covers(j.epoch, j.tree)
      <4>1. ASSUME t PROVE Covers(k.check.epoch, k.mem.tree)
        BY <4>1, <3>1 DEF HoldsCap, Covers, Vetted
      <4>. QED  BY <4>1, <3>2, CheckKinds
    <3>7. j.step \in {"fetch", "judge"} => j.epoch <= epoch
      BY <3>2, <3>5, CheckKinds
    <3>. QED  BY <3>4, <3>6, <3>7, <1>5 DEF Cautious
  <2>3. CASE CheckJudge(d)
    <3>1. /\ k.check.step = "judge" /\ c.check = NoCheck
          /\ c.vetted = [epoch |-> k.check.epoch, tree |-> k.check.tree]
          /\ c.untrusted = ~k.check.trusted
      BY <2>3, <1>4, CheckJudgeShape
    <3>2. c.vetted.epoch = k.check.epoch /\ c.vetted.tree = k.check.tree
      BY <3>1
    <3>3. c.check.step = "none"
      BY <3>1, CheckKinds
    <3>. QED  BY <3>1, <3>2, <3>3, <1>5 DEF Cautious
  <2>. QED  BY <2>1, <2>2, <2>3
<1>7. \A e \in Account : Cautious(client[e])'
  BY <1>1, <1>3, <1>4, <1>6, EveryoneCautious
<1>. QED  BY <1>2, <1>7 DEF Vetted, Covers

LEMMA ServerVetted ==
  ASSUME Shape, Shape', Vetted, Rotate \/ IssueCaps \/ \E a \in Account : Leave(a)
  PROVE  Vetted'
<1>. Owner \in Account /\ epoch \in Nat
  BY ChannelAssumption DEF Shape, ServerShape
<1>1. /\ Later /\ reached' = reached
      /\ capped' \subseteq capped \/ (capped' = capped \cup member /\ member' = member)
  <2>1. CASE Rotate
    BY <2>1 DEF Rotate, Later, Shape, ServerShape
  <2>2. CASE IssueCaps
    BY <2>2 DEF IssueCaps, Later, Shape, ServerShape
  <2>3. ASSUME NEW a \in Account, Leave(a)
        PROVE  Later /\ reached' = reached /\ capped' = capped
    <3>1. epoch + 1 \in Nat /\ epoch + 1 > epoch
      OBVIOUS
    <3>. QED  BY <3>1, <2>3 DEF Leave, Later, Shape, ServerShape
  <2>. QED  BY <2>1, <2>2, <2>3
<1>2. \A e \in Account : Cautious(client[e])'
  <2>1. CASE Rotate
    <3>1. Alone(Owner) /\ SameVerdict(client[Owner], client'[Owner])
      BY <2>1, RotateShape
    <3>2. PICK k, c : k = client[Owner] /\ c = client'[Owner]
      OBVIOUS
    <3>3. k \in Clients /\ c \in Clients /\ Cautious(k)
      BY <3>2 DEF Shape, Devices, Vetted
    <3>4. Cautious(c)
      BY <3>1, <3>2, <3>3, SameCaution
    <3>. QED  BY <3>1, <3>2, <3>4, <1>1, EveryoneCautious
  <2>2. CASE ~Rotate
    <3>1. client' = client
      BY <2>2 DEF IssueCaps, Leave
    <3>2. Alone(Owner) /\ Cautious(client'[Owner])
      BY <3>1 DEF Alone, Vetted
    <3>. QED  BY <3>2, <1>1, EveryoneCautious
  <2>. QED  BY <2>1, <2>2
<1>3. Covers(epoch, capped)'
  <2>1. CASE Rotate
    BY <2>1 DEF Rotate, Covers
  <2>2. CASE ~Rotate
    <3>1. epoch' = epoch /\ capped \subseteq Account /\ member \subseteq Account
      BY <2>2 DEF IssueCaps, Leave, Shape, ServerShape
    <3>2. Covers(epoch, capped \cup member)
      BY DEF Vetted, Covers
    <3>3. capped' \in SUBSET Account /\ Covers(epoch, capped')
      BY <3>1, <3>2, <1>1 DEF Covers
    <3>4. PICK e, t : e = epoch /\ t = capped'
      OBVIOUS
    <3>5. Covers(e, t)'
      BY <3>3, <3>4, <1>1, StillCovers
    <3>. QED  BY <3>1, <3>4, <3>5 DEF Covers
  <2>. QED  BY <2>1, <2>2
<1>4. \A r \in reached' : r.who \in Account \ member' /\ r.epoch < gone'[r.who]
  BY <1>1 DEF Vetted, Later, Shape, ServerShape
<1>. QED  BY <1>2, <1>3, <1>4 DEF Vetted

LEMMA VettedStep == Shape /\ Shape' /\ Vetted /\ [ChannelNext]_vars => Vetted'
<1>. SUFFICES ASSUME Shape, Shape', Vetted, [ChannelNext]_vars PROVE Vetted'
  OBVIOUS
<1>. Owner \in Account
  BY ChannelAssumption
<1>1. CASE Publish \/ SweepBuild \/ SweepPosted \/ Bootstrap
  <2>1. Alone(Owner) /\ SameVerdict(client[Owner], client'[Owner])
    BY <1>1, PublishShape, SweepBuildShape, SweepPostedShape, BootstrapShape DEF Goes
  <2>2. UNCHANGED <<member, gone, epoch, capped, reached>>
    BY <1>1 DEF Publish, SweepBuild, SweepPosted, Bootstrap
  <2>. QED  BY <2>1, <2>2, VettedBy
<1>2. ASSUME NEW d \in Account,
             Consume(d) \/ JoinConflict(d) \/ JoinRefused(d) \/ FetchKey(d) \/ Open(d)
               \/ Join(d) \/ Reload(d)
      PROVE  Vetted'
  <2>1. Goes(d)
    BY <1>2, ConsumeShape, JoinConflictShape, JoinRefusedShape, FetchKeyShape, OpenShape,
       JoinShape, ReloadShape
  <2>2. UNCHANGED <<member, gone, epoch, capped, reached>>
    BY <1>2 DEF Consume, JoinConflict, JoinRefused, FetchKey, Open, Join, Reload
  <2>. QED  BY <2>1, <2>2, VettedBy DEF Goes
<1>3. ASSUME NEW d \in Account, JoinAccepted(d) \/ Receive(d) \/ Fail(d) PROVE Vetted'
  <2>1. Alone(d) /\ SameVerdict(client[d], client'[d])
    BY <1>3, JoinAcceptedShape, ReceiveShape, FailShape
  <2>2. UNCHANGED <<member, gone, epoch, capped, reached>>
    BY <1>3 DEF JoinAccepted, Receive, Fail
  <2>. QED  BY <2>1, <2>2, VettedBy
<1>4. ASSUME NEW a \in Account, Sweep(a) PROVE Vetted'
  <2>1. Alone(Owner) /\ SameVerdict(client[Owner], client'[Owner])
    BY <1>4, SweepShape
  <2>2. UNCHANGED <<member, gone, epoch, capped, reached>>
    BY <1>4 DEF Sweep
  <2>. QED  BY <2>1, <2>2, VettedBy
<1>5. ASSUME (\E a \in Account : Kick(a)) \/ UNCHANGED vars PROVE Vetted'
  <2>1. UNCHANGED <<member, gone, epoch, capped, reached, client>>
    BY <1>5 DEF Kick
  <2>2. Alone(Owner) /\ SameVerdict(client[Owner], client'[Owner])
    BY <2>1 DEF Alone, SameVerdict
  <2>. QED  BY <2>1, <2>2, VettedBy
<1>. QED  BY <1>1, <1>2, <1>3, <1>4, <1>5, SendVetted, CheckVetted, ServerVetted
          DEF ChannelNext, Manages, Works
-----------------------------------------------------------------------------
(* Whom a roll-call removed stays out *)

(* The line a device had before the sweep it is posting.                    *)
LineOf(c) == IF c.job.op = "sweep" /\ c.job.step = "post" THEN c.job.base ELSE c.mem.line

(* A line that has left the log. *)
Strays(line) == \E i \in 1 .. Len(line) : i <= Len(log) /\ line[i] # log[i].by

(* The owner's device, no request of which has failed: it stays in the      *)
(* group, it holds all that it committed, and each account it was to evict  *)
(* is gone, or being evicted, or it never saw its leaf, or it was overtaken *)
(* and strays.                                                               *)
Stationed(c) ==
  /\ ~(Enters(c) /\ c.job.step = "post")
  /\ info # None =>
       /\ Serves(Owner, c)
       /\ Len(LineOf(c)) <= Len(log)
       /\ \A n \in 1 .. Len(log) : log[n].by = Owner => n <= Len(LineOf(c))
  /\ \A a \in expelled \cap leaves :
       (c.job.op = "sweep" /\ c.job.who = a) \/ a \in unseen \/ Strays(c.mem.line)

Expelled ==
  /\ \A a \in expelled : chan[a] # "active"
  /\ Owner \notin failed => Stationed(client[Owner])

LEMMA KeepsItself == ASSUME NEW d, NEW k PROVE Keeps(d, k, k)
BY DEF Keeps, Serves

(* A step that leaves the rows alone, and the device of the owner at work.  *)
LEMMA StationQuiet ==
  ASSUME Shape, Shape', NEW k, Stationed(k), NEW c, Keeps(Owner, k, c), Owner \notin failed',
         UNCHANGED <<log, leaves, info>>, expelled' \subseteq expelled, unseen \subseteq unseen'
  PROVE  Stationed(c)'
<1>1. ~(Enters(c) /\ c.job.step = "post")
  BY DEF Stationed, Keeps, Serves
<1>2. CASE info = None
  BY <1>1, <1>2 DEF Stationed, Shape, ServerShape, Enters
<1>3. CASE info # None
  <2>1. Serves(Owner, k)
    BY <1>3 DEF Stationed
  <2>2. /\ c.ready /\ c.mem = k.mem /\ c.disk = k.mem /\ c.mem # None
        /\ c.job = k.job \/ (c.job.op # "sweep" /\ k.job.op # "sweep")
    BY <2>1 DEF Keeps, Serves
  <2>3. LineOf(c) = LineOf(k)
    BY <2>2 DEF LineOf
  <2>4. Active(Owner)' /\ Owner \in leaves'
    BY <2>1 DEF Active, Serves, Shape, ServerShape
  <2>5. \A a \in expelled' \cap leaves' :
          (c.job.op = "sweep" /\ c.job.who = a) \/ a \in unseen' \/ Strays(c.mem.line)
    BY <2>2 DEF Stationed
  <2>. QED  BY <1>1, <1>3, <2>2, <2>3, <2>4, <2>5
            DEF Stationed, Serves, LineOf, Strays, Enters, Active
<1>. QED  BY <1>2, <1>3

(* What is not about roll-calls. *)
LEMMA ExpelledQuiet ==
  ASSUME Shape, Shape', Expelled, NEW d \in Account, Alone(d), Keeps(d, client[d], client'[d]),
         UNCHANGED <<chan, log, leaves, info, expelled>>, unseen \subseteq unseen',
         failed \subseteq failed'
  PROVE  Expelled'
<1>1. Keeps(Owner, client[Owner], client'[Owner])
  BY KeepsItself, ChannelAssumption DEF Alone
<1>2. ASSUME Owner \notin failed' PROVE Stationed(client[Owner])'
  <2>1. PICK k, c : k = client[Owner] /\ c = client'[Owner]
    OBVIOUS
  <2>2. Stationed(k)
    BY <2>1, <1>2 DEF Expelled
  <2>3. Stationed(c)'
    BY <2>1, <2>2, <1>1, <1>2, StationQuiet
  <2>. QED  BY <2>1, <2>3 DEF Stationed, Serves, LineOf, Strays, Enters, Active
<1>. QED  BY <1>2 DEF Expelled

LEMMA MembershipExpelled ==
  ASSUME Shape, Shape', Expelled, NEW d \in Account, Join(d) \/ Kick(d) \/ Leave(d)
  PROVE  Expelled'
<1>1. UNCHANGED <<log, leaves, info, unseen, failed>> /\ expelled' \subseteq expelled
  BY DEF Join, Kick, Leave
<1>2. \A a \in expelled' : chan'[a] # "active"
  BY DEF Join, Kick, Leave, Expelled, Shape, ServerShape
<1>3. Keeps(Owner, client[Owner], client'[Owner])
  <2>1. CASE Join(d)
    BY <2>1, JoinShape, KeepsItself, ChannelAssumption DEF Goes, Alone
  <2>2. CASE Kick(d) \/ Leave(d)
    BY <2>2, KeepsItself DEF Kick, Leave
  <2>. QED  BY <2>1, <2>2
<1>4. ASSUME Owner \notin failed' PROVE Stationed(client[Owner])'
  <2>1. PICK k, c : k = client[Owner] /\ c = client'[Owner]
    OBVIOUS
  <2>2. Stationed(k)
    BY <2>1, <1>1, <1>4 DEF Expelled
  <2>3. Stationed(c)'
    BY <2>1, <2>2, <1>1, <1>3, <1>4, StationQuiet
  <2>. QED  BY <2>1, <2>3 DEF Stationed, Serves, LineOf, Strays, Enters, Active
<1>. QED  BY <1>2, <1>4 DEF Expelled

(* A commit of another device. *)
LEMMA StationGrows ==
  ASSUME Shape, Shape', NEW c \in Clients, Stationed(c), NEW d \in Account, d # Owner,
         NEW base, Commits(d, base, {d}, {}), UNCHANGED <<member, chan, expelled, unseen>>,
         d \notin expelled
  PROVE  Stationed(c)'
<1>1. /\ info # None /\ info' # None /\ Len(log) \in Nat /\ Len(log') = Len(log) + 1
      /\ \A i \in 1 .. Len(log) : log'[i] = log[i]
      /\ log'[Len(log) + 1].by # Owner /\ leaves' = (leaves \cup {d}) \ {}
  BY DEF Commits, Shape, ServerShape
<1>2. Serves(Owner, c) /\ Len(LineOf(c)) <= Len(log)
      /\ \A n \in 1 .. Len(log) : log[n].by = Owner => n <= Len(LineOf(c))
  BY <1>1 DEF Stationed
<1>3. Serves(Owner, c)'
  BY <1>1, <1>2 DEF Serves, Active
<1>4. c.mem.line \in Seq(Account) /\ LineOf(c) \in Seq(Account)
  <2>1. c.mem \in States /\ c.job \in Jobs
    BY <1>2, ClientFields DEF Serves
  <2>. QED  BY <2>1, StateFields, JobFields DEF LineOf
<1>5. Len(LineOf(c)) <= Len(log')
  BY <1>1, <1>2, <1>4
<1>6. \A n \in 1 .. Len(log') : log'[n].by = Owner => n <= Len(LineOf(c))
  <2>. SUFFICES ASSUME NEW n \in 1 .. Len(log'), log'[n].by = Owner PROVE n <= Len(LineOf(c))
    OBVIOUS
  <2>1. n \in 1 .. Len(log)
    BY <1>1
  <2>. QED  BY <2>1, <1>1, <1>2
<1>7. Strays(c.mem.line) => Strays(c.mem.line)'
  BY <1>1, <1>4 DEF Strays
<1>8. \A a \in expelled' \cap leaves' :
        (c.job.op = "sweep" /\ c.job.who = a) \/ a \in unseen' \/ Strays(c.mem.line)'
  BY <1>1, <1>7 DEF Stationed
<1>. QED  BY <1>3, <1>5, <1>6, <1>8 DEF Stationed, LineOf, Strays, Enters

LEMMA JoinAcceptedExpelled ==
  ASSUME Shape, Shape', Expelled, NEW d \in Account, JoinAccepted(d)
  PROVE  Expelled'
<1>1. PICK base \in Seq(Account) : Commits(d, base, {d}, {})
  BY JoinAcceptedShape
<1>2. /\ Alone(d) /\ Enters(client[d]) /\ client[d].job.step = "post"
      /\ UNCHANGED <<member, chan, expelled, unseen, failed>>
  BY JoinAcceptedShape DEF JoinAccepted
<1>3. d \notin expelled
  BY <1>1 DEF Commits, Active, Expelled
<1>4. ASSUME Owner \notin failed' PROVE Stationed(client[Owner])'
  <2>1. Stationed(client[Owner]) /\ d # Owner /\ Owner \in Account
    BY <1>2, <1>4, ChannelAssumption DEF Expelled, Stationed
  <2>2. PICK c : c = client[Owner]
    OBVIOUS
  <2>3. c \in Clients /\ client'[Owner] = c
    BY <2>1, <2>2, <1>2 DEF Shape, Devices, Alone
  <2>4. Stationed(c)'
    BY <2>1, <2>2, <2>3, <1>1, <1>2, <1>3, StationGrows
  <2>. QED  BY <2>3, <2>4 DEF Stationed, Serves, LineOf, Strays, Enters, Active
<1>. QED  BY <1>2, <1>4 DEF Expelled

LEMMA FailExpelled ==
  ASSUME Shape, Shape', Expelled, NEW d \in Account, Fail(d)
  PROVE  Expelled'
<1>1. Alone(d) /\ d \in failed' /\ UNCHANGED <<member, chan, expelled, unseen>>
      /\ failed \subseteq failed'
  BY FailShape DEF Fail
<1>2. ASSUME Owner \notin failed' PROVE Stationed(client[Owner])'
  <2>1. PICK c : c = client[Owner]
    OBVIOUS
  <2>2. /\ Stationed(c) /\ d # Owner /\ Owner \in Account /\ c \in Clients /\ client'[Owner] = c
    BY <2>1, <1>1, <1>2, ChannelAssumption DEF Expelled, Alone, Shape, Devices
  <2>3. UNCHANGED <<log, leaves, info>> \/ \E base : Commits(d, base, {d}, {})
    <3>1. client[d].job.op # "sweep"
      BY <2>2 DEF Shape, Devices, Fits
    <3>. QED  BY <3>1, <2>2, FailShape
  <2>4. CASE UNCHANGED <<log, leaves, info>>
    <3>1. Stationed(c)'
      BY <2>2, <2>4, <1>1, <1>2, KeepsItself, StationQuiet
    <3>. QED  BY <3>1, <2>2 DEF Stationed, Serves, LineOf, Strays, Enters, Active
  <2>5. ASSUME NEW base, Commits(d, base, {d}, {}) PROVE Stationed(client[Owner])'
    <3>1. d \notin expelled
      BY <2>5 DEF Commits, Active, Expelled
    <3>2. Stationed(c)'
      BY <3>1, <2>2, <2>5, <1>1, StationGrows
    <3>. QED  BY <3>2, <2>2 DEF Stationed, Serves, LineOf, Strays, Enters, Active
  <2>. QED  BY <2>3, <2>4, <2>5
<1>. QED  BY <1>1, <1>2 DEF Expelled
LEMMA PublishExpelled ==
  ASSUME Shape, Shape', Expelled, Publish
  PROVE  Expelled'
<1>1. PICK c : c = client'[Owner]
  OBVIOUS
<1>2. /\ Publishes /\ c.job = NoJob /\ c.ready /\ c.mem # None /\ c.disk = c.mem
      /\ c.mem.line = << >>
  BY <1>1, PublishShape
<1>3. UNCHANGED <<member, chan, expelled, unseen, failed>>
  BY DEF Publish
<1>4. Owner \notin expelled /\ Owner \in member /\ chan[Owner] = "active"
  BY DEF Shape, ServerShape
<1>5. leaves' = {Owner} /\ Len(log') = 0 /\ Len(<< >>) = 0 /\ 1 .. 0 = {}
  BY <1>2 DEF Publishes
<1>6. LineOf(c) = << >> /\ ~Enters(c)
  BY <1>2 DEF LineOf, Enters, NoJob
<1>7. Stationed(client[Owner])'
  <2>1. Len(LineOf(c)) <= Len(log') /\ \A n \in 1 .. Len(log') : FALSE
    BY <1>5, <1>6
  <2>2. expelled' \cap leaves' = {}
    BY <1>3, <1>4, <1>5
  <2>3. Serves(Owner, c)'
    BY <1>2, <1>3, <1>4, <1>5 DEF Serves, Active
  <2>. QED  BY <2>1, <2>2, <2>3, <1>1, <1>6
            DEF Stationed, Serves, LineOf, Strays, Enters, Active
<1>. QED  BY <1>3, <1>7 DEF Expelled

LEMMA SweepExpelled ==
  ASSUME Shape, Shape', Expelled, NEW a \in Account, Sweep(a)
  PROVE  Expelled'
<1>1. PICK k, c : k = client[Owner] /\ c = client'[Owner]
  OBVIOUS
<1>2. /\ k.job = NoJob /\ c.job = [op |-> "sweep", step |-> "build", who |-> a]
      /\ c.ready = k.ready /\ c.mem = k.mem /\ c.disk = k.disk
  BY <1>1, SweepShape
<1>3. /\ UNCHANGED <<member, log, leaves, info, unseen, failed>>
      /\ chan' = [chan EXCEPT ![a] = "removed"] /\ a # Owner /\ expelled' = expelled \cup {a}
  BY DEF Sweep
<1>4. \A x \in expelled' : chan'[x] # "active"
  BY <1>3 DEF Expelled, Shape, ServerShape
<1>5. chan'[Owner] = chan[Owner]
  BY <1>3 DEF Shape, ServerShape
<1>6. LineOf(c) = LineOf(k) /\ ~Enters(c) /\ k.job.op # "sweep" /\ c.job.op = "sweep"
      /\ c.job.who = a
  BY <1>2 DEF LineOf, Enters, NoJob
<1>7. ASSUME Owner \notin failed' PROVE Stationed(client[Owner])'
  <2>1. Stationed(k)
    BY <1>1, <1>3, <1>7 DEF Expelled
  <2>2. Serves(Owner, k) => Serves(Owner, c)'
    BY <1>2, <1>3, <1>5 DEF Serves, Active
  <2>3. \A x \in expelled' \cap leaves' : x = a \/ x \in unseen' \/ Strays(c.mem.line)'
    BY <2>1, <1>2, <1>3, <1>6 DEF Stationed, Strays
  <2>. QED  BY <2>1, <2>2, <2>3, <1>1, <1>3, <1>6
            DEF Stationed, Serves, LineOf, Strays, Enters, Active
<1>. QED  BY <1>4, <1>7 DEF Expelled

(* A line that has strayed does so still when it grows. *)
LEMMA StraysStill ==
  ASSUME NEW line \in Seq(Account), NEW a, Strays(line)
  PROVE  Strays(Append(line, a))
<1>1. PICK i \in 1 .. Len(line) : i <= Len(log) /\ line[i] # log[i].by
  BY DEF Strays
<1>2. i \in 1 .. Len(Append(line, a)) /\ Append(line, a)[i] = line[i]
  OBVIOUS
<1>. QED  BY <1>1, <1>2 DEF Strays

LEMMA SweepBuildExpelled ==
  ASSUME Shape, Shape', Expelled, SweepBuild
  PROVE  Expelled'
<1>1. PICK k, c : k = client[Owner] /\ c = client'[Owner]
  OBVIOUS
<1>2. /\ k.job.op = "sweep" /\ k.job.step = "build" /\ k.mem # None /\ c.mem # None
      /\ c.ready = k.ready
      /\ \/ /\ c.mem = k.mem /\ c.disk = k.disk /\ c.job = NoJob
            /\ unseen' = unseen \cup {k.job.who}
         \/ /\ c.mem.line = Append(k.mem.line, Owner) /\ c.disk = c.mem
            /\ c.job.op = "sweep" /\ c.job.step = "post" /\ c.job.who = k.job.who
            /\ c.job.base = k.mem.line /\ unseen' = unseen
  BY <1>1, SweepBuildShape
<1>3. UNCHANGED <<member, chan, log, leaves, info, expelled, failed>>
  BY DEF SweepBuild
<1>4. k.mem.line \in Seq(Account)
  BY <1>1, <1>2, ChannelAssumption, ClientFields, StateFields DEF Shape, Devices
<1>5. LineOf(c) = LineOf(k) /\ ~Enters(c)
  BY <1>2 DEF LineOf, Enters, NoJob
<1>6. ASSUME Owner \notin failed' PROVE Stationed(client[Owner])'
  <2>1. Stationed(k)
    BY <1>1, <1>3, <1>6 DEF Expelled
  <2>2. Serves(Owner, k) => Serves(Owner, c)'
    BY <1>2, <1>3 DEF Serves, Active
  <2>3. Strays(k.mem.line) => Strays(c.mem.line)
    BY <1>2, <1>4, StraysStill
  <2>4. \A x \in expelled' \cap leaves' :
          (c.job.op = "sweep" /\ c.job.who = x) \/ x \in unseen' \/ Strays(c.mem.line)'
    BY <2>1, <2>3, <1>2, <1>3 DEF Stationed, Strays
  <2>. QED  BY <2>1, <2>2, <2>4, <1>1, <1>3, <1>5
            DEF Stationed, Serves, LineOf, Strays, Enters, Active
<1>. QED  BY <1>3, <1>6 DEF Expelled

LEMMA SweepPostedExpelled ==
  ASSUME Shape, Shape', Expelled, SweepPosted
  PROVE  Expelled'
<1>. Owner \in Account
  BY ChannelAssumption
<1>1. PICK k, c : k = client[Owner] /\ c = client'[Owner]
  OBVIOUS
<1>2. /\ k.job.op = "sweep" /\ k.job.step = "post" /\ c.job = NoJob
      /\ c.mem = k.mem /\ c.disk = k.disk /\ c.ready = k.ready /\ k.mem # None
      /\ \/ Commits(Owner, k.job.base, {}, {k.job.who})
         \/ ~AtEpoch(k.job.base) /\ UNCHANGED <<log, leaves, info>>
  BY <1>1, SweepPostedShape
<1>3. UNCHANGED <<member, chan, expelled, unseen, failed>>
  BY DEF SweepPosted
<1>4. k \in Clients /\ Fits(Owner, k)
  BY <1>1 DEF Shape, Devices
<1>5. PICK base : base = k.job.base
  OBVIOUS
<1>6. base \in Seq(Account) /\ k.mem.line = Append(base, Owner) /\ k.job.who # Owner
  BY <1>2, <1>4, <1>5, ClientFields, JobFields DEF Fits, Shape, ServerShape
<1>7. PICK line : line = k.mem.line
  OBVIOUS
<1>8. line \in Seq(Account) /\ Len(line) = Len(base) + 1 /\ line[Len(line)] = Owner
  BY <1>6, <1>7
<1>9. LineOf(k) = base /\ LineOf(c) = line /\ ~Enters(c)
  BY <1>2, <1>5, <1>7 DEF LineOf, Enters, NoJob
<1>10. ASSUME Owner \notin failed' PROVE Stationed(client[Owner])'
  <2>1. Stationed(k)
    BY <1>1, <1>3, <1>10 DEF Expelled
  <2>2. CASE Commits(Owner, base, {}, {k.job.who})
    <3>1. /\ info # None /\ Len(log) \in Nat /\ Len(base) = Len(log) /\ Len(log') = Len(log) + 1
          /\ \A i \in 1 .. Len(log) : log'[i] = log[i]
          /\ leaves' = (leaves \cup {}) \ {k.job.who} /\ info' # None
      BY <2>2 DEF Commits, Shape, ServerShape
    <3>2. Serves(Owner, k)
      BY <2>1, <3>1 DEF Stationed
    <3>3. Serves(Owner, c)'
      BY <3>1, <3>2, <1>2, <1>3, <1>6 DEF Serves, Active
    <3>4. Len(line) = Len(log') /\ \A n \in 1 .. Len(log') : n <= Len(line)
      BY <3>1, <1>8
    <3>5. Strays(line) => Strays(line)'
      BY <3>1, <1>8 DEF Strays
    <3>6. \A x \in expelled' \cap leaves' : x \in unseen' \/ Strays(line)'
      BY <2>1, <3>1, <3>5, <1>3, <1>7 DEF Stationed
    <3>. QED  BY <3>3, <3>4, <3>6, <1>1, <1>2, <1>7, <1>9
              DEF Stationed, Serves, LineOf, Strays, Enters, Active
  <2>3. CASE ~AtEpoch(base) /\ UNCHANGED <<log, leaves, info>>
    <3>1. CASE info = None
      BY <3>1, <2>3, <1>1, <1>9 DEF Stationed, Shape, ServerShape, Enters
    <3>2. CASE info # None
      <4>1. /\ Serves(Owner, k) /\ Len(base) <= Len(log) /\ Len(log) \in Nat
            /\ \A n \in 1 .. Len(log) : log[n].by = Owner => n <= Len(base)
        BY <3>2, <2>1, <1>9 DEF Stationed, Shape, ServerShape
      <4>2. Len(base) # Len(log)
        BY <3>2, <2>3 DEF AtEpoch, Shape, ServerShape
      <4>3. Len(line) \in 1 .. Len(log) /\ Len(line) > Len(base)
        BY <4>1, <4>2, <1>6, <1>8
      <4>4. log[Len(line)].by # Owner
        BY <4>1, <4>3, <1>6
      <4>5. Strays(line)'
        BY <4>3, <4>4, <2>3, <1>8 DEF Strays
      <4>6. \A n \in 1 .. Len(log') : log'[n].by = Owner => n <= Len(line)
        <5>. SUFFICES ASSUME NEW n \in 1 .. Len(log), log[n].by = Owner PROVE n <= Len(line)
          BY <2>3
        <5>1. n <= Len(base) /\ Len(base) \in Nat
          BY <4>1, <1>6
        <5>. QED  BY <5>1, <4>3
      <4>7. Serves(Owner, c)'
        BY <4>1, <2>3, <1>2, <1>3 DEF Serves, Active
      <4>. QED  BY <4>3, <4>5, <4>6, <4>7, <2>3, <1>1, <1>2, <1>7, <1>9
                DEF Stationed, Serves, LineOf, Strays, Enters, Active
    <3>. QED  BY <3>1, <3>2
  <2>. QED  BY <2>2, <2>3, <1>2, <1>5
<1>. QED  BY <1>3, <1>10 DEF Expelled

LEMMA ReceiveExpelled ==
  ASSUME Shape, Shape', Expelled, NEW d \in Account, Receive(d)
  PROVE  Expelled'
<1>. Owner \in Account
  BY ChannelAssumption
<1>1. UNCHANGED <<member, chan, log, leaves, info, expelled, unseen, failed>>
  BY DEF Receive
<1>2. ASSUME Owner \notin failed' PROVE Stationed(client[Owner])'
  <2>1. PICK k, c : k = client[Owner] /\ c = client'[Owner]
    OBVIOUS
  <2>2. Stationed(k) /\ k \in Clients
    BY <2>1, <1>1, <1>2 DEF Expelled, Shape, Devices
  <2>3. CASE Keeps(Owner, k, c)
    <3>1. Stationed(c)'
      BY <2>2, <2>3, <1>1, <1>2, StationQuiet
    <3>. QED  BY <3>1, <2>1 DEF Stationed, Serves, LineOf, Strays, Enters, Active
  <2>4. CASE ~Keeps(Owner, k, c)
    <3>1. d = Owner
      BY <2>1, <2>4, KeepsItself, ReceiveShape DEF Alone
    <3>2. /\ c.known = k.known /\ c.ready = k.ready /\ c.status = k.status
          /\ c.job = k.job /\ c.mem # None /\ k.mem # None /\ ~Flies(k) /\ ~Sends(k)
          /\ \/ c.mem = k.mem /\ c.disk = k.disk
             \/ /\ c.disk = c.mem /\ Len(k.mem.line) < Len(log)
                /\ c.mem.line = Append(k.mem.line, log[Len(k.mem.line) + 1].by)
      BY <3>1, <2>1, ReceiveShape
    <3>3. /\ c.disk = c.mem /\ Len(k.mem.line) < Len(log)
          /\ c.mem.line = Append(k.mem.line, log[Len(k.mem.line) + 1].by)
      BY <3>2, <2>4 DEF Keeps, Serves, Claims, Flies, Sends, Enters
    <3>4. k.mem.line \in Seq(Account)
      BY <3>2, <2>2, ClientFields, StateFields
    <3>5. LineOf(k) = k.mem.line /\ LineOf(c) = c.mem.line
      BY <3>2 DEF LineOf, Sends
    <3>6. Len(c.mem.line) = Len(k.mem.line) + 1 /\ Len(k.mem.line) \in Nat /\ Len(log) \in Nat
      BY <3>3, <3>4 DEF Shape, ServerShape
    <3>7. Strays(k.mem.line) => Strays(c.mem.line)
      BY <3>3, <3>4, StraysStill
    <3>8. info # None =>
            /\ Serves(Owner, c)
            /\ Len(LineOf(c)) <= Len(log)
            /\ \A n \in 1 .. Len(log) : log[n].by = Owner => n <= Len(LineOf(c))
      <4>1. ASSUME info # None PROVE Serves(Owner, c)
        BY <4>1, <3>2, <3>3, <2>2 DEF Stationed, Serves
      <4>2. ASSUME info # None, NEW n \in 1 .. Len(log), log[n].by = Owner
            PROVE  n <= Len(LineOf(c))
        <5>1. n <= Len(k.mem.line)
          BY <4>2, <3>5, <2>2 DEF Stationed
        <5>. QED  BY <5>1, <3>5, <3>6
      <4>. QED  BY <4>1, <4>2, <3>3, <3>5, <3>6
    <3>9. Stationed(c)
      BY <3>2, <3>7, <3>8, <2>2 DEF Stationed, Enters
    <3>10. Stationed(c)'
      BY <3>9, <1>1, <1>2, KeepsItself, StationQuiet
    <3>. QED  BY <3>10, <2>1 DEF Stationed, Serves, LineOf, Strays, Enters, Active
  <2>. QED  BY <2>3, <2>4
<1>. QED  BY <1>1, <1>2 DEF Expelled

LEMMA ExpelledStep == Shape /\ Shape' /\ Expelled /\ [ChannelNext]_vars => Expelled'
<1>. SUFFICES ASSUME Shape, Shape', Expelled, [ChannelNext]_vars PROVE Expelled'
  OBVIOUS
<1>. Owner \in Account
  BY ChannelAssumption
<1>1. CASE Bootstrap \/ Rotate
  <2>1. Alone(Owner) /\ Keeps(Owner, client[Owner], client'[Owner])
    BY <1>1, BootstrapShape, RotateShape DEF Goes
  <2>2. UNCHANGED <<chan, log, leaves, info, expelled, unseen, failed>>
    BY <1>1 DEF Bootstrap, Rotate
  <2>. QED  BY <2>1, <2>2, ExpelledQuiet
<1>2. ASSUME NEW d \in Account,
             Consume(d) \/ JoinConflict(d) \/ JoinRefused(d) \/ FetchKey(d) \/ Open(d)
               \/ Send(d) \/ Reload(d)
      PROVE  Expelled'
  <2>1. Goes(d)
    BY <1>2, ConsumeShape, JoinConflictShape, JoinRefusedShape, FetchKeyShape, OpenShape,
       SendShape, ReloadShape
  <2>2. UNCHANGED <<chan, log, leaves, info, expelled, unseen>> /\ failed \subseteq failed'
    BY <1>2 DEF Consume, JoinConflict, JoinRefused, FetchKey, Open, Send, Reload
  <2>. QED  BY <2>1, <2>2, ExpelledQuiet DEF Goes
<1>3. ASSUME NEW d \in Account, CheckStart(d) \/ CheckRead(d) \/ CheckJudge(d)
      PROVE  Expelled'
  <2>1. Alone(d) /\ Keeps(d, client[d], client'[d])
    BY <1>3, CheckStartShape, CheckReadShape, CheckJudgeShape
  <2>2. UNCHANGED <<chan, log, leaves, info, expelled, unseen, failed>>
    BY <1>3 DEF CheckStart, CheckRead, CheckJudge
  <2>. QED  BY <2>1, <2>2, ExpelledQuiet
<1>4. CASE IssueCaps \/ UNCHANGED vars
  <2>1. UNCHANGED <<chan, log, leaves, info, expelled, unseen, failed, client>>
    BY <1>4 DEF IssueCaps
  <2>2. Alone(Owner) /\ Keeps(Owner, client[Owner], client'[Owner])
    BY <2>1, KeepsItself DEF Alone
  <2>. QED  BY <2>1, <2>2, ExpelledQuiet
<1>. QED  BY <1>1, <1>2, <1>3, <1>4, PublishExpelled, SweepBuildExpelled, SweepPostedExpelled,
             MembershipExpelled, JoinAcceptedExpelled, FailExpelled, SweepExpelled, ReceiveExpelled
          DEF ChannelNext, Manages, Works

-----------------------------------------------------------------------------
LEMMA InitOut == Init => Vetted /\ Expelled
<1>. SUFFICES ASSUME Init PROVE Vetted /\ Expelled
  OBVIOUS
<1>. Owner \in Account /\ load.joined \subseteq Account /\ load.capped \subseteq Account
     /\ (load.joined = {} \/ Owner \in load.joined)
  BY ChannelAssumption DEF Init
<1>1. ASSUME NEW a \in Account
      PROVE  LET c == client[a]
             IN  /\ c.vetted = [epoch |-> 0, tree |-> {}] /\ c.check = NoCheck /\ c.job = NoJob
                 /\ c.mem # None => c.disk = c.mem /\ c.mem.line = << >> /\ c.ready
                 /\ a \in load.joined => c.mem # None
  <2>1. CASE a \in load.joined
    <3>1. client[a] = Entered(a)
      BY <2>1 DEF Init
    <3>2. PICK s : s = [line |-> << >>, tree |-> load.joined]
      OBVIOUS
    <3>3. s \in States /\ None \notin States /\ s.line = << >>
      <4>1. << >> \in Seq(Account) /\ load.joined \in SUBSET Account
        OBVIOUS
      <4>. QED  BY <4>1, <3>2, StateFields
    <3>. QED  BY <3>1, <3>2, <3>3, <2>1 DEF Entered, Fresh
  <2>2. CASE a \notin load.joined
    <3>1. client[a] = Fresh
      BY <2>2 DEF Init
    <3>. QED  BY <3>1, <2>2 DEF Fresh
  <2>. QED  BY <2>1, <2>2
<1>2. Vetted
  <2>1. NoCheck.step = "none"
    BY CheckKinds
  <2>2. \A d \in Account : Cautious(client[d])
    BY <1>1, <2>1 DEF Init, Cautious, Covers
  <2>. QED  BY <2>2 DEF Init, Vetted, Covers
<1>3. Stationed(client[Owner])
  <2>1. PICK c : c = client[Owner]
    OBVIOUS
  <2>2. /\ c.job = NoJob /\ (c.mem # None => c.disk = c.mem /\ c.mem.line = << >> /\ c.ready)
        /\ Owner \in load.joined => c.mem # None
    BY <2>1, <1>1
  <2>3. info # None => Owner \in load.joined /\ Owner \in leaves
    BY DEF Init
  <2>4. Active(Owner) /\ expelled = {} /\ Len(log) = 0 /\ Len(<< >>) = 0 /\ 1 .. 0 = {}
    BY DEF Init, Active
  <2>5. ~Enters(c) /\ LineOf(c) = c.mem.line
    BY <2>2 DEF Enters, LineOf, NoJob
  <2>6. info # None => Serves(Owner, c) /\ Len(LineOf(c)) = 0
    BY <2>2, <2>3, <2>4, <2>5 DEF Serves
  <2>. QED  BY <2>1, <2>4, <2>5, <2>6 DEF Stationed
<1>4. expelled = {}
  BY DEF Init
<1>. QED  BY <1>2, <1>3, <1>4 DEF Expelled

LEMMA OutFollows == Shape /\ Vetted /\ Expelled => EvictedStayOut
<1>. SUFFICES ASSUME Shape, Vetted, Expelled PROVE EvictedStayOut
  OBVIOUS
<1>1. ExMembersCutOff
  BY DEF Vetted, ExMembersCutOff
<1>2. ASSUME NEW a \in expelled \cap leaves
      PROVE  \/ client[Owner].job.op = "sweep" /\ client[Owner].job.who = a
             \/ a \in unseen
             \/ Forked(Owner)
             \/ Owner \in failed
  BY DEF Expelled, Stationed, Strays, Forked
<1>. QED  BY <1>1, <1>2 DEF EvictedStayOut, SweepEvicts

(* Whoever left the community gets no message from a device that has seen   *)
(* their leaf in a check of a later epoch, and whom a roll-call removed     *)
(* loses the leaf with the sweep, but for the cases SweepEvicts names.      *)
THEOREM WhoIsOutStaysOut == ChannelSpec => []EvictedStayOut
<1>1. Init => Shape /\ Vetted /\ Expelled
  BY InitShape, InitOut
<1>2. Shape /\ Vetted /\ Expelled /\ [ChannelNext]_vars => (Shape /\ Vetted /\ Expelled)'
  BY ShapeStep, VettedStep, ExpelledStep
<1>3. Shape /\ Vetted /\ Expelled => EvictedStayOut
  BY OutFollows
<1>. QED  BY <1>1, <1>2, <1>3, PTL DEF ChannelSpec
=============================================================================
