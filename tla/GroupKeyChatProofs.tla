------------------------- MODULE GroupKeyChatProofs -------------------------
(* Proofs about a group_key channel, for every finite set of devices, every  *)
(* bound and every load: no text is missed but for two causes.               *)
EXTENDS GroupKeyChatProps, FiniteSetTheorems, TLAPS

USE DEF server, wire, kept, client, vars

-----------------------------------------------------------------------------
(* Types *)

Kinds == {"text", "react", "unreact", "edit", "delete", "consume"}

Messages == [by : Device, epoch : Epochs, sn : Nat \ {0}, kind : Kinds, target : Seqs]

Pulls == {NoTask} \cup [step : {"ask", "read", "store"}, after : Nat, todo : SUBSET Nat]

Sends == {NoTask} \cup [step : {"post", "reply", "failed", "erase"}, msg : Messages]

Events == [type : {"nudge"}] \cup [type : {"removed"}, seq : Seqs]
            \cup [type : {"ack"}, slot : Nat, seq : Nat]

ServerShape ==
  /\ load \in Loads
  /\ log \in Seq(Messages)
  /\ inside \subseteq Device /\ attested \subseteq Device
  /\ keyEpoch \in Epochs

(* Keys are granted up to the current epoch, and held when granted. *)
KeyShape ==
  /\ grant \in [Device -> SUBSET (0 .. keyEpoch)]
  /\ held \in [Device -> SUBSET (0 .. keyEpoch)]
  /\ \A d \in Device : held[d] \subseteq grant[d]

StoreShape ==
  /\ cursor \in [Device -> 0 .. Len(log)]
  /\ seen \in [Device -> [Device -> Nat]] /\ sent \in [Device -> Nat]
  /\ shown \in [Device -> [Seqs -> Entry]] /\ stored \in [Device -> [Seqs -> Entry]]

(* A pull asks for what comes after the cursor, and what is left below the  *)
(* rows it goes through is behind the cursor or goes first.                 *)
PullFits(c, p) ==
  /\ p.step = "ask" => p.after <= c
  /\ p.step \in {"read", "store"} =>
       /\ p.todo # {} /\ p.todo \subseteq DOMAIN log
       /\ \A s \in p.todo, r \in DOMAIN log \ gone : r <= s => r <= c \/ r \in p.todo

PullShape ==
  /\ pull \in [Device -> [1 .. load.pulls -> Pulls]]
  /\ \A d \in Device, i \in 1 .. load.pulls : PullFits(cursor[d], pull[d][i])

(* An ack in a socket is of the row of a send that waits for it. *)
AckFits(rows, box, tasks, n) ==
  LET e == box[n]
  IN  e.type = "ack" =>
        /\ e.slot \in DOMAIN tasks /\ e.seq \in DOMAIN rows
        /\ tasks[e.slot].step = "reply" /\ tasks[e.slot].msg = rows[e.seq]
        /\ \A k \in DOMAIN box : box[k].type = "ack" /\ box[k].slot = e.slot => k = n

BoxFits(rows, box, tasks) == \A n \in DOMAIN box : AckFits(rows, box, tasks, n)

Own(d, tasks) == \A j \in DOMAIN tasks : tasks[j] # NoTask => tasks[j].msg.by = d

SendShape ==
  /\ send \in [Device -> [1 .. load.sends -> Sends]]
  /\ inbox \in [Device -> Seq(Events)]
  /\ \A d \in Device : Own(d, send[d]) /\ BoxFits(log, inbox[d], send[d])

(* Each row that is about to be posted has its place. *)
HasRoom == Len(log) + Posting <= load.logs

Shape == ServerShape /\ KeyShape /\ StoreShape /\ PullShape /\ SendShape /\ HasRoom

-----------------------------------------------------------------------------
(* No gaps *)

Calm == ~May("close") /\ ~May("meta")

(* A pull of the device is about to store the row. *)
Storing(tasks, s) ==
  \E i \in DOMAIN tasks : tasks[i].step = "store" /\ First(tasks[i].todo) = s

Explained(d, s) ==
  \/ \E t \in DOMAIN log : t > s /\ log[t].by = d
  \/ \E t \in DOMAIN log : t < s /\ log[t].by = log[s].by /\ log[t].sn >= log[s].sn

(* The device shows the row, or will never have its key, or the miss is     *)
(* explained.                                                                *)
Sure(d, s) ==
  \/ log[s].kind # "text" \/ Kept(shown[d][s])
  \/ log[s].epoch \notin held[d] /\ \E e \in held[d] : e > log[s].epoch
  \/ Explained(d, s)

(* A row behind the cursor is so, or is stored next. *)
Passed(d, s) == Sure(d, s) \/ Storing(pull[d], s)

(* A sender's number that was seen is that of a row of the sender, which is  *)
(* behind the cursor or being stored.                                        *)
Witnessed(d, x) ==
  seen[d][x] # 0 => \E t \in DOMAIN log :
    /\ log[t].by = x /\ log[t].sn = seen[d][x]
    /\ t <= cursor[d] \/ Storing(pull[d], t)

Gapless ==
  Calm => /\ attested = Device
          /\ \A d \in Device :
               /\ \A s \in (1 .. cursor[d]) \ gone : Passed(d, s)
               /\ \A x \in Device : Witnessed(d, x)

-----------------------------------------------------------------------------
(* Numbers *)

(* A set of numbers with a bound has a greatest.                              *)
LEMMA Greatest ==
  ASSUME NEW N \in Nat, NEW S \in SUBSET (0 .. N), S # {}
  PROVE  \E m \in S : \A n \in S : n <= m
<1> DEFINE R == StrictSubsetOrdering(0 .. N)
           Above(e) == {n \in 0 .. N : n > e}
           T == {Above(e) : e \in S}
<1>1. T \subseteq FiniteSubsetsOf(0 .. N) /\ T # {}
  <2>1. IsFiniteSet(0 .. N)
    BY FS_Interval
  <2>2. \A e \in S : Above(e) \subseteq 0 .. N /\ IsFiniteSet(Above(e))
    BY <2>1, FS_Subset
  <2>. QED  BY <2>2 DEF FiniteSubsetsOf
<1>2. PICK x \in T : \A y \in T : ~(<<y, x>> \in R)
  <2> HIDE DEF R, T
  <2>1. IsFiniteSet(0 .. N)
    BY FS_Interval
  <2>. QED  BY <1>1, <2>1, WFMin, FS_StrictSubsetOrderingWellFounded DEF R
<1>3. PICK m \in S : x = Above(m)
  OBVIOUS
<1>4. ASSUME NEW n \in S, ~(n <= m) PROVE FALSE
  <2>1. Above(n) \subseteq Above(m) /\ n \in Above(m) /\ n \notin Above(n)
    BY <1>4
  <2>2. Above(n) # Above(m) /\ Above(n) \in SUBSET (0 .. N) /\ Above(m) \in SUBSET (0 .. N)
    BY <2>1
  <2>3. ~(<<Above(n), Above(m)>> \in R)
    BY <1>2, <1>3
  <2> HIDE DEF Above
  <2>4. <<Above(n), Above(m)>> \in R
    BY <2>1, <2>2 DEF StrictSubsetOrdering
  <2>. QED  BY <2>3, <2>4
<1>. QED  BY <1>4

LEMMA NewestIs ==
  ASSUME NEW N \in Nat, NEW S \in SUBSET (0 .. N), S # {}
  PROVE  Newest(S) \in S /\ \A e \in S : e <= Newest(S)
<1>1. \E m \in S : \A n \in S : n <= m
  BY Greatest
<1>. QED  BY <1>1 DEF Newest

LEMMA FirstIs ==
  ASSUME NEW S \in SUBSET Nat, S # {}
  PROVE  First(S) \in S /\ \A e \in S : First(S) <= e
<1>1. PICK m \in S : TRUE
  OBVIOUS
<1> DEFINE T == {m - n : n \in {k \in S : k <= m}}
<1>2. m \in Nat /\ T \in SUBSET (0 .. m) /\ m - m \in T
  OBVIOUS
<1>3. PICK x \in T : \A y \in T : y <= x
  BY <1>2, Greatest
<1>4. PICK n \in {k \in S : k <= m} : x = m - n
  OBVIOUS
<1>5. ASSUME NEW e \in S PROVE n <= e
  <2>1. CASE e <= m
    <3>1. m - e <= m - n
      BY <1>3, <1>4, <2>1
    <3>. QED  BY <3>1, <1>2, <1>4
  <2>. QED  BY <2>1, <1>2, <1>4
<1>6. \E k \in S : \A e \in S : k <= e
  BY <1>4, <1>5
<1>. QED  BY <1>6 DEF First

-----------------------------------------------------------------------------
(* What the constants and the loads are *)

LEMMA Constants ==
  /\ Moderator \in Device /\ IsFiniteSet(Device) /\ MaxLog \in Nat /\ MaxEpoch \in Nat
  /\ 0 \in Epochs /\ Epochs \subseteq Nat /\ Seqs \subseteq Nat
BY ChatAssumption DEF ChatAssumption, Epochs, Seqs

LEMMA LoadIs ==
  ASSUME load \in Loads
  PROVE  /\ load.kinds \subseteq Kinds /\ load.logs \in 0 .. MaxLog
         /\ load.pulls \in Nat /\ load.sends \in Nat /\ load.logs \in Nat /\ load.logs <= MaxLog
BY ChatAssumption DEF ChatAssumption, Kinds

-----------------------------------------------------------------------------
(* Entries *)

LEMMA EntriesAre ==
  /\ NoEntry \in Entry /\ Display \in Entry /\ Kept(Display)
  /\ \A e \in Entry : Remove(e) \in Entry /\ (Kept(e) => Kept(Remove(e)))
  /\ \A e \in Entry : Opened(e) \in Entry /\ Kept(Opened(e))
  /\ \A e \in Entry, x \in Device, r \in BOOLEAN :
       React(e, x, r) \in Entry /\ (Kept(e) => Kept(React(e, x, r)))
  /\ \A e \in Entry : \A x, y : Edit(e, x, y) \in Entry /\ (Kept(e) => Kept(Edit(e, x, y)))
  /\ \A e \in Entry : \A x, y : Delete(e, x, y) \in Entry /\ (Kept(e) => Kept(Delete(e, x, y)))
  /\ \A e \in Entry : \A x, y, z : Consume(e, x, y, z) \in Entry /\ (Kept(e) => Kept(Consume(e, x, y, z)))
<1>1. NoEntry \in Entry
  BY DEF NoEntry, Entry
<1>2. /\ \A s \in {"shown", "deleted", "opened"} : [NoEntry EXCEPT !.state = s] \in Entry
      /\ \A s \in {"shown", "deleted", "opened"} : [NoEntry EXCEPT !.state = s].state = s
      /\ [NoEntry EXCEPT !.state = "deleted", !.byModerator = TRUE] \in Entry
      /\ [NoEntry EXCEPT !.state = "deleted", !.byModerator = TRUE].state = "deleted"
  <2>1. \A e \in Entry, s \in {"shown", "deleted", "opened"} :
           [e EXCEPT !.state = s] \in Entry /\ [e EXCEPT !.state = s].state = s
    BY DEF Entry
  <2>2. \A e \in Entry : /\ [e EXCEPT !.state = "deleted", !.byModerator = TRUE] \in Entry
                         /\ [e EXCEPT !.state = "deleted", !.byModerator = TRUE].state = "deleted"
    BY DEF Entry
  <2>. QED  BY <1>1, <2>1, <2>2
<1>3. \A e \in Entry : [e EXCEPT !.state = "edited"] \in Entry /\ Kept([e EXCEPT !.state = "edited"])
  BY DEF Entry, Kept
<1>4. \A e \in Entry, x \in Device :
        /\ [e EXCEPT !.reactions = @ \ {x}] \in Entry /\ [e EXCEPT !.reactions = @ \cup {x}] \in Entry
        /\ [e EXCEPT !.reactions = @ \ {x}].state = e.state
        /\ [e EXCEPT !.reactions = @ \cup {x}].state = e.state
  BY DEF Entry
<1>5. \A e \in Entry, x \in Device, r \in BOOLEAN :
        React(e, x, r) \in Entry /\ (Kept(e) => Kept(React(e, x, r)))
  BY <1>4 DEF React, Kept
<1>6. NoEntry \in Entry /\ Display \in Entry /\ Kept(Display)
  BY <1>1, <1>2 DEF Display, Kept
<1>7. \A e \in Entry : Opened(e) \in Entry /\ Kept(Opened(e))
  BY <1>2 DEF Opened, Kept
<1>8. \A e \in Entry : Remove(e) \in Entry /\ (Kept(e) => Kept(Remove(e)))
  BY <1>2 DEF Remove, Kept
<1>9. \A e \in Entry : \A x, y : Edit(e, x, y) \in Entry /\ (Kept(e) => Kept(Edit(e, x, y)))
  BY <1>3 DEF Edit
<1>10. \A e \in Entry : \A x, y : Delete(e, x, y) \in Entry /\ (Kept(e) => Kept(Delete(e, x, y)))
  BY <1>2 DEF Delete, Kept
<1>11. \A e \in Entry : \A x, y, z : Consume(e, x, y, z) \in Entry /\ (Kept(e) => Kept(Consume(e, x, y, z)))
  BY <1>7 DEF Consume
<1>. QED  BY <1>5, <1>6, <1>7, <1>8, <1>9, <1>10, <1>11

Lists == [Seqs -> Entry]

(* The new list keeps what the old one had. *)
Retains(list, new) == \A s \in Seqs : Kept(list[s]) => Kept(new[s])

LEMMA AppliedIs ==
  ASSUME NEW list \in Lists, NEW m \in Messages, m.kind # "text", NEW author, NEW me
  PROVE  Applied(list, m, author, me) \in Lists /\ Retains(list, Applied(list, m, author, me))
<1>1. /\ m.target \in Seqs /\ m.by \in Device
      /\ m.kind \in {"react", "unreact", "edit", "delete", "consume"}
  BY DEF Messages, Kinds
<1>2. \A e \in Entry : (Kept(list[m.target]) => Kept(e)) =>
        /\ [list EXCEPT ![m.target] = e] \in Lists
        /\ Retains(list, [list EXCEPT ![m.target] = e])
  BY <1>1 DEF Lists, Retains
<1>3. list[m.target] \in Entry
  BY <1>1 DEF Lists
<1>4. CASE m.kind = "react"
  <2>1. Applied(list, m, author, me) = [list EXCEPT ![m.target] = React(list[m.target], m.by, FALSE)]
    BY <1>4 DEF Applied
  <2>. QED  BY <2>1, <1>1, <1>2, <1>3, EntriesAre
<1>5. CASE m.kind = "unreact"
  <2>1. Applied(list, m, author, me) = [list EXCEPT ![m.target] = React(list[m.target], m.by, TRUE)]
    BY <1>5 DEF Applied
  <2>. QED  BY <2>1, <1>1, <1>2, <1>3, EntriesAre
<1>6. CASE m.kind = "edit"
  <2>1. Applied(list, m, author, me) = [list EXCEPT ![m.target] = Edit(list[m.target], author, m.by)]
    BY <1>6 DEF Applied
  <2>. QED  BY <2>1, <1>1, <1>2, <1>3, EntriesAre
<1>7. CASE m.kind = "delete"
  <2>1. Applied(list, m, author, me) = [list EXCEPT ![m.target] = Delete(list[m.target], author, m.by)]
    BY <1>7 DEF Applied
  <2>. QED  BY <2>1, <1>1, <1>2, <1>3, EntriesAre
<1>8. CASE m.kind = "consume"
  <2>1. Applied(list, m, author, me) = [list EXCEPT ![m.target] = Consume(list[m.target], author, m.by, me)]
    BY <1>8 DEF Applied
  <2>. QED  BY <2>1, <1>1, <1>2, <1>3, EntriesAre
<1>. QED  BY <1>1, <1>4, <1>5, <1>6, <1>7, <1>8

-----------------------------------------------------------------------------
(* The server: rows are only added, keys only advance *)

Extends ==
  /\ load' = load /\ DOMAIN log \subseteq DOMAIN log' /\ Len(log) <= Len(log')
  /\ \A s \in DOMAIN log : log'[s] = log[s]
  /\ gone \subseteq gone' /\ keyEpoch <= keyEpoch'

LEMMA RowsAre ==
  ASSUME ServerShape
  PROVE  /\ Len(log) \in Nat /\ DOMAIN log = 1 .. Len(log)
         /\ \A s \in DOMAIN log :
              /\ log[s] \in Messages /\ log[s].by \in Device /\ log[s].epoch \in Nat
              /\ log[s].sn \in Nat /\ log[s].sn # 0
  <1>1. \A s \in DOMAIN log : log[s] \in Messages
    BY DEF ServerShape
  <1>2. \A m \in Messages : m.by \in Device /\ m.epoch \in Nat /\ m.sn \in Nat /\ m.sn # 0
    BY Constants DEF Messages
  <1>. QED  BY <1>1, <1>2 DEF ServerShape

LEMMA PostExtends ==
  ASSUME ServerShape, SendShape, NEW d \in Device, NEW j \in DOMAIN send[d], Post(d, j)
  PROVE  ServerShape' /\ Extends
<1>0. Len(log) \in Nat /\ DOMAIN log = 1 .. Len(log) /\ log \in Seq(Messages) /\ keyEpoch \in Nat
  BY Constants DEF ServerShape
<1>. UNCHANGED <<load, gone, keyEpoch, inside, attested>>
  BY DEF Post
<1>1. CASE log' = log
  BY <1>0, <1>1 DEF ServerShape, Extends
<1>2. CASE log' # log
  <2>1. send[d][j].step = "post" /\ log' = Append(log, send[d][j].msg)
    BY <1>2 DEF Post
  <2>2. send[d][j] \in Sends
    BY DEF SendShape
  <2>3. send[d][j].msg \in Messages
    BY <2>1, <2>2 DEF Sends, NoTask
  <2>4. log' \in Seq(Messages) /\ Len(log') = Len(log) + 1 /\ DOMAIN log' = 1 .. (Len(log) + 1)
        /\ \A s \in 1 .. Len(log) : log'[s] = log[s]
    BY <1>0, <2>1, <2>3
  <2>. QED  BY <1>0, <2>4 DEF ServerShape, Extends
<1>. QED  BY <1>1, <1>2

LEMMA ServerStep ==
  ASSUME ServerShape, SendShape, [Next]_vars
  PROVE  ServerShape' /\ Extends
<1>0. Len(log) \in Nat /\ log \in Seq(Messages) /\ keyEpoch \in Nat
  BY Constants DEF ServerShape
<1>1. CASE UNCHANGED <<load, log, inside, attested, keyEpoch>> /\ gone \subseteq gone'
  BY <1>0, <1>1 DEF ServerShape, Extends
<1>2. ASSUME NEW d \in Device, Hears(d) PROVE ServerShape' /\ Extends
  BY <1>1, <1>2 DEF Hears, Nudged, Acked, HideRemoved
<1>3. ASSUME NEW d \in Device, CatchUp(d) \/ Subscribe(d) PROVE ServerShape' /\ Extends
  BY <1>1, <1>3 DEF CatchUp, Subscribe
<1>4. ASSUME NEW d \in Device, NEW i \in DOMAIN pull[d], PullServed(d, i) \/ Read(d, i) \/ Store(d, i)
      PROVE  ServerShape' /\ Extends
  BY <1>1, <1>4 DEF PullServed, Read, Store
<1>5. ASSUME NEW d \in Device, NEW j \in DOMAIN send[d], GiveUp(d, j) \/ Erase(d, j)
      PROVE  ServerShape' /\ Extends
  BY <1>1, <1>5 DEF GiveUp, Erase
<1>6. ASSUME NEW d \in Device, SendStart(d) \/ Connect(d) \/ Disconnect(d) \/ Close(d) \/ Grant(d)
      PROVE  ServerShape' /\ Extends
  BY <1>1, <1>6 DEF SendStart, Connect, Disconnect, Close, Grant
<1>7. ASSUME NEW d \in Device, Rotate(d) PROVE ServerShape' /\ Extends
  <2>1. keyEpoch' = keyEpoch + 1 /\ keyEpoch' \in Epochs
    BY <1>0, <1>7, Constants DEF Rotate, Epochs
  <2>2. UNCHANGED <<load, log, gone, inside, attested>>
    BY <1>7 DEF Rotate
  <2>. QED  BY <1>0, <2>1, <2>2 DEF ServerShape, Extends
<1>8. ASSUME NEW d \in Device, Kick(d) \/ Rejoin(d) PROVE ServerShape' /\ Extends
  BY <1>0, <1>8 DEF Kick, Rejoin, ServerShape, Extends
<1>9. ASSUME NEW s \in Seqs, RemoveMessage(s) PROVE ServerShape' /\ Extends
  BY <1>1, <1>9 DEF RemoveMessage
<1>10. CASE Attest
  BY <1>0, <1>10, Constants DEF Attest, ServerShape, Extends
<1>11. CASE UNCHANGED vars
  BY <1>1, <1>11
<1>. QED  BY <1>2, <1>3, <1>4, <1>5, <1>6, <1>7, <1>8, <1>9, <1>10, <1>11, PostExtends DEF Next, Works

-----------------------------------------------------------------------------
(* Keys *)

LEMMA FetchedIs ==
  ASSUME ServerShape, KeyShape, NEW d \in Device
  PROVE  /\ held[d] \subseteq Fetched(d) /\ Fetched(d) \subseteq held[d] \cup {keyEpoch}
         /\ Fetched(d) \in SUBSET (0 .. keyEpoch) /\ Fetched(d) \subseteq grant[d]
<1>1. keyEpoch \in Nat /\ held[d] \subseteq 0 .. keyEpoch /\ held[d] \subseteq grant[d]
  BY Constants DEF ServerShape, KeyShape
<1>. QED  BY <1>1 DEF Fetched

(* What a device comes to hold is granted, and as new as can be. *)
Learns ==
  \A d \in Device : held[d] \subseteq held'[d] /\ \A e \in held'[d] : e \in held[d] \/ e >= keyEpoch

LEMMA KeyStep ==
  ASSUME ServerShape, KeyShape, [Next]_vars
  PROVE  KeyShape' /\ Learns
<1>0. keyEpoch \in Nat /\ grant \in [Device -> SUBSET (0 .. keyEpoch)]
      /\ held \in [Device -> SUBSET (0 .. keyEpoch)] /\ \A d \in Device : held[d] \subseteq grant[d]
  BY Constants DEF ServerShape, KeyShape
<1>1. CASE UNCHANGED <<keyEpoch, grant, held>>
  BY <1>0, <1>1 DEF KeyShape, Learns
<1>2. CASE UNCHANGED <<keyEpoch, grant>> /\ \E d \in Device : held' = [held EXCEPT ![d] = Fetched(d)]
  <2>1. PICK d \in Device : held' = [held EXCEPT ![d] = Fetched(d)]
    BY <1>2
  <2>2. \A e \in Device : held'[e] = IF e = d THEN Fetched(d) ELSE held[e]
    BY <1>0, <2>1
  <2>3. held' \in [Device -> SUBSET (0 .. keyEpoch)]
    BY <1>0, <2>1, FetchedIs
  <2>4. \A e \in Device : held'[e] \subseteq grant[e]
    BY <1>0, <2>2, FetchedIs
  <2>5. Learns
    BY <1>0, <2>2, FetchedIs DEF Learns
  <2>. QED  BY <1>0, <1>2, <2>3, <2>4, <2>5 DEF KeyShape
<1>3. ASSUME NEW d \in Device, Hears(d) PROVE KeyShape' /\ Learns
  BY <1>1, <1>3 DEF Hears, Nudged, Acked, HideRemoved
<1>4. ASSUME NEW d \in Device, CatchUp(d) \/ Subscribe(d) PROVE KeyShape' /\ Learns
  BY <1>1, <1>4 DEF CatchUp, Subscribe
<1>5. ASSUME NEW d \in Device, NEW i \in DOMAIN pull[d], PullServed(d, i) \/ Store(d, i)
      PROVE  KeyShape' /\ Learns
  BY <1>1, <1>5 DEF PullServed, Store
<1>6. ASSUME NEW d \in Device, NEW i \in DOMAIN pull[d], Read(d, i) PROVE KeyShape' /\ Learns
  BY <1>1, <1>2, <1>6 DEF Read
<1>7. ASSUME NEW d \in Device, NEW j \in DOMAIN send[d], Post(d, j) \/ GiveUp(d, j) \/ Erase(d, j)
      PROVE  KeyShape' /\ Learns
  BY <1>1, <1>7 DEF Post, GiveUp, Erase
<1>8. ASSUME NEW d \in Device, SendStart(d) PROVE KeyShape' /\ Learns
  BY <1>2, <1>8 DEF SendStart
<1>9. ASSUME NEW d \in Device, Connect(d) \/ Disconnect(d) \/ Close(d) \/ Kick(d) \/ Rejoin(d)
      PROVE KeyShape' /\ Learns
  BY <1>1, <1>9 DEF Connect, Disconnect, Close, Kick, Rejoin
<1>10. ASSUME NEW d \in Device, Rotate(d) PROVE KeyShape' /\ Learns
  <2>0. PICK n \in Nat : n = keyEpoch + 1
    BY <1>0
  <2>1. n = keyEpoch + 1 /\ keyEpoch' = n /\ held' = [held EXCEPT ![d] = held[d] \cup {n}]
        /\ grant' = [grant EXCEPT ![d] = grant[d] \cup {n}]
    BY <2>0, <1>10 DEF Rotate
  <2>2. held' \in [Device -> SUBSET (0 .. n)] /\ grant' \in [Device -> SUBSET (0 .. n)]
    <3>1. \A x : x \in 0 .. keyEpoch => x \in 0 .. n
      BY <1>0, <2>1
    <3>2. held \in [Device -> SUBSET (0 .. n)] /\ grant \in [Device -> SUBSET (0 .. n)] /\ n \in 0 .. n
      BY <1>0, <3>1
    <3>. QED  BY <2>1, <3>2
  <2>3. \A e \in Device : held'[e] = (IF e = d THEN held[e] \cup {n} ELSE held[e])
                          /\ grant'[e] = (IF e = d THEN grant[e] \cup {n} ELSE grant[e])
    BY <1>0, <2>1
  <2>4. Learns
    BY <1>0, <2>1, <2>3 DEF Learns
  <2>. QED  BY <1>0, <2>1, <2>2, <2>3, <2>4 DEF KeyShape
<1>11. ASSUME NEW d \in Device, Grant(d) PROVE KeyShape' /\ Learns
  <2>1. grant' = [grant EXCEPT ![d] = @ \cup {keyEpoch}] /\ UNCHANGED <<held, keyEpoch>>
    BY <1>11 DEF Grant
  <2>. QED  BY <1>0, <2>1 DEF KeyShape, Learns
<1>12. ASSUME NEW s \in Seqs, RemoveMessage(s) PROVE KeyShape' /\ Learns
  BY <1>1, <1>12 DEF RemoveMessage
<1>13. CASE Attest \/ UNCHANGED vars
  BY <1>1, <1>13 DEF Attest
<1>. QED  BY <1>3, <1>4, <1>5, <1>6, <1>7, <1>8, <1>9, <1>10, <1>11, <1>12, <1>13 DEF Next, Works

-----------------------------------------------------------------------------
(* The places of the log *)

Waiting == {p \in Device \X (1 .. load.sends) : send[p[1]][p[2]].step = "post"}

LEMMA PostingIs ==
  ASSUME load \in Loads
  PROVE  Posting = Cardinality(Waiting) /\ IsFiniteSet(Waiting) /\ Posting \in Nat
<1>1. IsFiniteSet(1 .. load.sends) /\ IsFiniteSet(Device)
  BY LoadIs, Constants, FS_Interval
<1>2. IsFiniteSet(Device \X (1 .. load.sends))
  BY <1>1, FS_Product
<1>3. IsFiniteSet(Waiting)
  BY <1>2, FS_Subset DEF Waiting
<1>. QED  BY <1>3, FS_CardinalityType DEF Posting, Waiting

LEMMA RowsFit ==
  ASSUME ServerShape, HasRoom
  PROVE  /\ Len(log) \in Nat /\ Len(log) <= MaxLog /\ DOMAIN log = 1 .. Len(log)
         /\ DOMAIN log \subseteq Seqs /\ Seqs = 1 .. MaxLog
<1>1. load \in Loads
  BY DEF ServerShape
<1>2. load.logs \in Nat /\ load.logs <= MaxLog /\ Posting \in Nat /\ MaxLog \in Nat
  BY <1>1, LoadIs, PostingIs, Constants
<1>3. Len(log) \in Nat /\ DOMAIN log = 1 .. Len(log) /\ Len(log) <= MaxLog
  BY <1>2, RowsAre DEF HasRoom
<1>. QED  BY <1>2, <1>3 DEF Seqs

-----------------------------------------------------------------------------
(* What the clients keep *)

(* Cursors go forward, and no text that is shown is dropped. *)
Marks ==
  /\ \A d \in Device : cursor[d] <= cursor'[d]
  /\ ~May("close") => \A d \in Device : Retains(shown[d], shown'[d])

LEMMA StoresAre ==
  ASSUME StoreShape
  PROVE  /\ \A d \in Device : shown[d] \in Lists /\ stored[d] \in Lists
         /\ shown \in [Device -> Lists] /\ stored \in [Device -> Lists]
BY DEF StoreShape, Lists

LEMMA ShowIs ==
  ASSUME StoreShape, NEW d \in Device, NEW list \in Lists, Retains(shown[d], list), Show(d, list)
  PROVE  /\ shown' \in [Device -> Lists] /\ stored' \in [Device -> Lists]
         /\ \A e \in Device : Retains(shown[e], shown'[e])
<1>1. shown \in [Device -> Lists] /\ stored \in [Device -> Lists]
  BY StoresAre
<1>2. shown' = [shown EXCEPT ![d] = list]
  BY DEF Show
<1>3. PICK new : new = [s \in Seqs |-> IF list[s] # shown[d][s] THEN list[s] ELSE stored[d][s]]
  OBVIOUS
<1>4. stored' = [stored EXCEPT ![d] = new]
  BY <1>3 DEF Show
<1>5. new \in Lists
  BY <1>1, <1>3 DEF Lists
<1>6. \A e \in Device : Retains(shown[e], shown[e])
  BY DEF Retains
<1>7. \A e \in Device : shown'[e] = IF e = d THEN list ELSE shown[e]
  BY <1>1, <1>2
<1>. QED  BY <1>1, <1>2, <1>4, <1>5, <1>6, <1>7

LEMMA PutIs ==
  ASSUME StoreShape, NEW d \in Device, NEW s \in Seqs, Put(d, s)
  PROVE  /\ shown' \in [Device -> Lists] /\ stored' \in [Device -> Lists]
         /\ \A e \in Device : Retains(shown[e], shown'[e])
         /\ Kept(shown'[d][s])
<1>1. shown \in [Device -> Lists] /\ stored \in [Device -> Lists]
  BY StoresAre
<1>2. PICK e : e = IF Kept(shown[d][s]) THEN shown[d][s] ELSE Display
  OBVIOUS
<1>3. e \in Entry /\ Kept(e) /\ Display \in Entry
  BY <1>1, <1>2, EntriesAre DEF Lists
<1>4. shown' = [shown EXCEPT ![d][s] = e] /\ stored' = [stored EXCEPT ![d][s] = Display]
  BY <1>2 DEF Put
<1>5. shown' \in [Device -> Lists] /\ stored' \in [Device -> Lists]
  BY <1>1, <1>3, <1>4 DEF Lists
<1>6. \A x \in Device : shown'[x] = IF x = d THEN [shown[d] EXCEPT ![s] = e] ELSE shown[x]
  BY <1>1, <1>4
<1>7. Retains(shown[d], [shown[d] EXCEPT ![s] = e]) /\ Kept([shown[d] EXCEPT ![s] = e][s])
  BY <1>1, <1>3 DEF Retains, Lists
<1>8. \A x \in Device : Retains(shown[x], shown[x])
  BY DEF Retains
<1>. QED  BY <1>5, <1>6, <1>7, <1>8

LEMMA PastIs ==
  ASSUME StoreShape, Len(log) \in Nat, NEW d \in Device, NEW s \in 1 .. Len(log), cursor' = Past(d, s)
  PROVE  /\ cursor' \in [Device -> 0 .. Len(log)]
         /\ \A e \in Device : cursor[e] <= cursor'[e]
         /\ s <= cursor'[d] /\ (cursor'[d] = s \/ cursor'[d] = cursor[d])
         /\ \A e \in Device \ {d} : cursor'[e] = cursor[e]
<1>1. cursor \in [Device -> 0 .. Len(log)]
  BY DEF StoreShape
<1>2. PICK n : n = IF s > cursor[d] THEN s ELSE cursor[d]
  OBVIOUS
<1>3. cursor' = [cursor EXCEPT ![d] = n]
  BY <1>2 DEF Past
<1>4. n \in 0 .. Len(log) /\ cursor[d] <= n /\ s <= n
  BY <1>1, <1>2
<1>5. \A e \in Device : cursor'[e] = IF e = d THEN n ELSE cursor[e]
  BY <1>1, <1>3
<1>. QED  BY <1>1, <1>2, <1>3, <1>4, <1>5

(* The row a pull is at. *)
LEMMA PullAt ==
  ASSUME ServerShape, PullShape, NEW d \in Device, NEW i \in DOMAIN pull[d],
         pull[d][i].step \in {"read", "store"}
  PROVE  LET s == First(pull[d][i].todo)
         IN  /\ pull[d][i].todo \in SUBSET Nat /\ i \in 1 .. load.pulls
             /\ s \in pull[d][i].todo /\ s \in DOMAIN log /\ s \in Nat
             /\ \A e \in pull[d][i].todo : s <= e
             /\ pull[d][i] \in Pulls /\ pull[d][i] # NoTask
<1>1. i \in 1 .. load.pulls /\ pull[d][i] \in Pulls
  BY DEF PullShape
<1>2. pull[d][i] # NoTask /\ pull[d][i].todo \in SUBSET Nat
  BY <1>1 DEF Pulls, NoTask
<1>3. pull[d][i].todo # {} /\ pull[d][i].todo \subseteq DOMAIN log
  BY <1>1 DEF PullShape, PullFits
<1>. QED  BY <1>1, <1>2, <1>3, FirstIs

(* The send that an ack at the head of a socket is for. *)
LEMMA AckAt ==
  ASSUME ServerShape, SendShape, NEW d \in Device, inbox[d] # << >>, Head(inbox[d]).type = "ack"
  PROVE  LET j == Head(inbox[d]).slot
             s == Head(inbox[d]).seq
         IN  /\ j \in 1 .. load.sends /\ s \in DOMAIN log /\ send[d][j].step = "reply"
             /\ send[d][j].msg = log[s] /\ log[s].by = d /\ log[s] \in Messages
             /\ \A k \in DOMAIN inbox[d] : inbox[d][k].type = "ack" /\ inbox[d][k].slot = j => k = 1
<1>1. inbox[d] \in Seq(Events)
  BY DEF SendShape
<1>2. 1 \in DOMAIN inbox[d] /\ Head(inbox[d]) = inbox[d][1]
  BY <1>1
<1>3. AckFits(log, inbox[d], send[d], 1) /\ DOMAIN send[d] = 1 .. load.sends /\ Own(d, send[d])
  BY <1>2 DEF SendShape, BoxFits
<1>4. PICK j, s : j = inbox[d][1].slot /\ s = inbox[d][1].seq
  OBVIOUS
<1>5. /\ j \in 1 .. load.sends /\ s \in DOMAIN log /\ send[d][j].step = "reply" /\ send[d][j].msg = log[s]
      /\ \A k \in DOMAIN inbox[d] : inbox[d][k].type = "ack" /\ inbox[d][k].slot = j => k = 1
  BY <1>2, <1>3, <1>4 DEF AckFits
<1>6. send[d][j] # NoTask
  BY <1>5 DEF NoTask
<1>. QED  BY <1>2, <1>3, <1>4, <1>5, <1>6, RowsAre DEF Own

LEMMA Unmoved ==
  ASSUME StoreShape, Len(log) \in Nat, Len(log') \in Nat, Len(log) <= Len(log'), UNCHANGED <<cursor, seen, sent>>,
         shown' \in [Device -> Lists], stored' \in [Device -> Lists],
         ~May("close") => \A e \in Device : Retains(shown[e], shown'[e])
  PROVE  StoreShape' /\ Marks
<1>1. \A e \in Device : cursor[e] \in Nat /\ cursor[e] <= cursor'[e]
  BY DEF StoreShape
<1>2. cursor' \in [Device -> 0 .. Len(log')]
  BY DEF StoreShape
<1>. QED  BY <1>1, <1>2 DEF StoreShape, Marks, Lists

LEMMA Same ==
  ASSUME StoreShape, Len(log) \in Nat, Len(log') \in Nat, Len(log) <= Len(log'),
         UNCHANGED <<cursor, seen, sent, shown, stored>>
  PROVE  StoreShape' /\ Marks
<1>1. \A e \in Device : Retains(shown[e], shown'[e])
  BY DEF Retains
<1>2. shown' \in [Device -> Lists] /\ stored' \in [Device -> Lists]
  BY DEF StoreShape, Lists
<1>. QED  BY <1>1, <1>2, Unmoved

LEMMA ReadStores ==
  ASSUME Shape, NEW d \in Device, NEW i \in DOMAIN pull[d], Read(d, i)
  PROVE  StoreShape' /\ Marks
<1>1. ServerShape /\ StoreShape /\ PullShape /\ HasRoom
  BY DEF Shape
<1>2. PICK s : s = First(pull[d][i].todo)
  OBVIOUS
<1>3. pull[d][i].step = "read" /\ UNCHANGED <<log, sent, shown, stored>>
  BY DEF Read
<1>4. s \in 1 .. Len(log) /\ log[s] \in Messages /\ Len(log) \in Nat
  BY <1>1, <1>2, <1>3, PullAt, RowsAre
<1>5. cursor' = cursor \/ cursor' = Past(d, s)
  BY <1>2 DEF Read
<1>6. cursor' \in [Device -> 0 .. Len(log)] /\ \A e \in Device : cursor[e] <= cursor'[e]
  <2>1. CASE cursor' = cursor
    BY <1>1, <1>4, <2>1 DEF StoreShape
  <2>2. CASE cursor' = Past(d, s)
    BY <1>1, <1>4, <2>2, PastIs
  <2>. QED  BY <1>5, <2>1, <2>2
<1>7. seen' = seen \/ seen' = [seen EXCEPT ![d][log[s].by] = log[s].sn]
  BY <1>2 DEF Read
<1>8. log[s].by \in Device /\ log[s].sn \in Nat
  BY <1>1, <1>4, RowsAre
<1>9. seen' \in [Device -> [Device -> Nat]]
  <2>1. seen \in [Device -> [Device -> Nat]]
    BY <1>1 DEF StoreShape
  <2>2. PICK x \in Device, n \in Nat : x = log[s].by /\ n = log[s].sn
    BY <1>8
  <2>3. seen' = seen \/ seen' = [seen EXCEPT ![d][x] = n]
    BY <1>7, <2>2
  <2>. QED  BY <2>1, <2>3
<1>10. \A e \in Device : Retains(shown[e], shown'[e])
  BY <1>3 DEF Retains
<1>. QED  BY <1>1, <1>3, <1>6, <1>9, <1>10 DEF StoreShape, Marks

LEMMA StoreStores ==
  ASSUME Shape, NEW d \in Device, NEW i \in DOMAIN pull[d], Store(d, i)
  PROVE  /\ StoreShape' /\ Marks /\ First(pull[d][i].todo) <= cursor'[d]
         /\ cursor' = Past(d, First(pull[d][i].todo))
         /\ log[First(pull[d][i].todo)].kind = "text" => Kept(shown'[d][First(pull[d][i].todo)])
<1>1. ServerShape /\ StoreShape /\ PullShape /\ HasRoom
  BY DEF Shape
<1>2. PICK s : s = First(pull[d][i].todo)
  OBVIOUS
<1>3. pull[d][i].step = "store" /\ UNCHANGED <<log, seen, sent>> /\ cursor' = Past(d, s)
  BY <1>2 DEF Store
<1>4. s \in 1 .. Len(log) /\ s \in Seqs /\ log[s] \in Messages /\ Len(log) \in Nat
  BY <1>1, <1>2, <1>3, PullAt, RowsAre, RowsFit
<1>5. cursor' \in [Device -> 0 .. Len(log)] /\ (\A e \in Device : cursor[e] <= cursor'[e]) /\ s <= cursor'[d]
  BY <1>1, <1>3, <1>4, PastIs
<1>6. /\ shown' \in [Device -> Lists] /\ stored' \in [Device -> Lists]
      /\ \A e \in Device : Retains(shown[e], shown'[e])
      /\ log[s].kind = "text" => Kept(shown'[d][s])
  <2>1. CASE log[s].kind = "text"
    <3>1. Put(d, s)
      BY <1>2, <2>1 DEF Store
    <3>. QED  BY <1>1, <1>4, <3>1, PutIs
  <2>2. CASE log[s].kind # "text"
    <3>1. Show(d, View(d, log[s]))
      BY <1>2, <2>2 DEF Store
    <3>2. View(d, log[s]) \in Lists /\ Retains(shown[d], View(d, log[s]))
      BY <1>1, <1>4, <2>2, AppliedIs, StoresAre DEF View
    <3>. QED  BY <1>1, <2>2, <3>1, <3>2, ShowIs
  <2>. QED  BY <2>1, <2>2
<1>. QED  BY <1>1, <1>2, <1>3, <1>5, <1>6 DEF StoreShape, Marks, Lists

LEMMA AckStores ==
  ASSUME Shape, NEW d \in Device, Acked(d)
  PROVE  LET s == Head(inbox[d]).seq
         IN  /\ StoreShape' /\ Marks /\ cursor' = Past(d, s)
             /\ s \in DOMAIN log /\ log[s].by = d /\ (log[s].kind = "text" => Kept(shown'[d][s]))
             /\ seen' = [seen EXCEPT ![d][d] = log[s].sn]
<1>1. ServerShape /\ StoreShape /\ SendShape /\ HasRoom
  BY DEF Shape
<1>2. PICK s, j : s = Head(inbox[d]).seq /\ j = Head(inbox[d]).slot
  OBVIOUS
<1>3. s \in DOMAIN log /\ send[d][j].msg = log[s] /\ log[s].by = d /\ log[s] \in Messages
  BY <1>1, <1>2, AckAt DEF Acked
<1>4. s \in 1 .. Len(log) /\ s \in Seqs /\ Len(log) \in Nat /\ log[s].sn \in Nat
  BY <1>1, <1>3, RowsAre, RowsFit
<1>5. /\ UNCHANGED log /\ cursor' = Past(d, s) /\ sent' = [sent EXCEPT ![d] = log[s].sn]
      /\ seen' = [seen EXCEPT ![d][d] = log[s].sn]
      /\ IF log[s].kind = "text" THEN Put(d, s) ELSE Show(d, View(d, log[s]))
  BY <1>2, <1>3 DEF Acked, Counted
<1>6. cursor' \in [Device -> 0 .. Len(log)] /\ (\A e \in Device : cursor[e] <= cursor'[e])
  BY <1>1, <1>4, <1>5, PastIs
<1>7. sent' \in [Device -> Nat] /\ seen' \in [Device -> [Device -> Nat]]
  BY <1>1, <1>4, <1>5 DEF StoreShape
<1>8. /\ shown' \in [Device -> Lists] /\ stored' \in [Device -> Lists]
      /\ \A e \in Device : Retains(shown[e], shown'[e])
      /\ log[s].kind = "text" => Kept(shown'[d][s])
  <2>1. CASE log[s].kind = "text"
    BY <1>1, <1>4, <1>5, <2>1, PutIs
  <2>2. CASE log[s].kind # "text"
    <3>1. View(d, log[s]) \in Lists /\ Retains(shown[d], View(d, log[s]))
      BY <1>1, <1>3, <2>2, AppliedIs, StoresAre DEF View
    <3>. QED  BY <1>1, <1>5, <2>2, <3>1, ShowIs
  <2>. QED  BY <2>1, <2>2
<1>. QED  BY <1>2, <1>3, <1>5, <1>6, <1>7, <1>8 DEF StoreShape, Marks, Lists

LEMMA StoreStep ==
  ASSUME Shape, [Next]_vars
  PROVE  StoreShape' /\ Marks
<1>0. ServerShape /\ StoreShape /\ SendShape /\ HasRoom /\ ServerShape' /\ Extends
  BY ServerStep DEF Shape
<1>1. Len(log) \in Nat /\ Len(log') \in Nat /\ Len(log) <= Len(log')
  BY <1>0 DEF ServerShape, Extends
<1>2. shown \in [Device -> Lists] /\ stored \in [Device -> Lists]
  BY <1>0, StoresAre
<1>3. CASE UNCHANGED <<cursor, seen, sent, shown, stored>>
  BY <1>0, <1>1, <1>3, Same
<1>4. ASSUME NEW d \in Device, Nudged(d) \/ CatchUp(d) \/ Subscribe(d) PROVE StoreShape' /\ Marks
  BY <1>3, <1>4 DEF Nudged, CatchUp, Subscribe
<1>5. ASSUME NEW d \in Device, HideRemoved(d) PROVE StoreShape' /\ Marks
  <2>1. PICK s : s = Head(inbox[d]).seq
    OBVIOUS
  <2>2. Head(inbox[d]) \in Events /\ Head(inbox[d]).type = "removed"
    BY <1>0, <1>5 DEF HideRemoved, SendShape
  <2>3. s \in Seqs
    BY <2>1, <2>2 DEF Events
  <2>4. PICK list : list = [shown[d] EXCEPT ![s] = Remove(@)]
    OBVIOUS
  <2>5. Show(d, list) /\ UNCHANGED <<cursor, seen, sent>>
    BY <1>5, <2>1, <2>4 DEF HideRemoved
  <2>6. list \in Lists /\ Retains(shown[d], list)
    BY <1>2, <2>3, <2>4, EntriesAre DEF Lists, Retains
  <2>. QED  BY <1>0, <1>1, <2>5, <2>6, ShowIs, Unmoved
<1>6. ASSUME NEW d \in Device, NEW i \in DOMAIN pull[d], PullServed(d, i) PROVE StoreShape' /\ Marks
  BY <1>3, <1>6 DEF PullServed
<1>7. ASSUME NEW d \in Device, NEW j \in DOMAIN send[d], Post(d, j) \/ Erase(d, j) PROVE StoreShape' /\ Marks
  BY <1>3, <1>7 DEF Post, Erase
<1>8. ASSUME NEW d \in Device, NEW j \in DOMAIN send[d], GiveUp(d, j) PROVE StoreShape' /\ Marks
  <2>1. PICK m : m = send[d][j].msg
    OBVIOUS
  <2>2. /\ UNCHANGED <<cursor, seen, sent>> /\ send[d][j].step = "failed"
        /\ IF m.kind = "text" THEN UNCHANGED <<shown, stored>> ELSE Show(d, View(d, m))
    BY <1>8, <2>1 DEF GiveUp
  <2>3. send[d][j] \in Sends
    BY <1>0 DEF SendShape
  <2>4. m \in Messages
    BY <2>1, <2>2, <2>3 DEF Sends, NoTask
  <2>5. CASE m.kind = "text"
    BY <1>3, <2>2, <2>5
  <2>6. CASE m.kind # "text"
    <3>1. View(d, m) \in Lists /\ Retains(shown[d], View(d, m))
      BY <1>2, <2>4, <2>6, AppliedIs DEF View
    <3>. QED  BY <1>0, <1>1, <2>2, <2>6, <3>1, ShowIs, Unmoved
  <2>. QED  BY <2>5, <2>6
<1>9. ASSUME NEW d \in Device, SendStart(d) PROVE StoreShape' /\ Marks
  <2>1. UNCHANGED <<cursor, seen, sent>>
    BY <1>9 DEF SendStart
  <2>2. PICK t \in Seqs : \/ Show(d, [shown[d] EXCEPT ![t] = Opened(@)])
                          \/ UNCHANGED <<shown, stored>>
    BY <1>9 DEF SendStart
  <2>3. CASE UNCHANGED <<shown, stored>>
    BY <1>3, <2>1, <2>3
  <2>4. CASE Show(d, [shown[d] EXCEPT ![t] = Opened(@)])
    <3>1. PICK list : list = [shown[d] EXCEPT ![t] = Opened(shown[d][t])]
      OBVIOUS
    <3>2. list \in Lists /\ Retains(shown[d], list)
      BY <1>2, <2>2, <3>1, EntriesAre DEF Lists, Retains
    <3>. QED  BY <1>0, <1>1, <2>1, <2>4, <3>1, <3>2, ShowIs, Unmoved
  <2>. QED  BY <2>2, <2>3, <2>4
<1>10. ASSUME NEW d \in Device, Connect(d) \/ Disconnect(d) \/ Rotate(d) \/ Grant(d) \/ Kick(d) \/ Rejoin(d)
       PROVE  StoreShape' /\ Marks
  BY <1>3, <1>10 DEF Connect, Disconnect, Rotate, Grant, Kick, Rejoin
<1>11. ASSUME NEW d \in Device, Close(d) PROVE StoreShape' /\ Marks
  <2>1. May("close") /\ shown' = [shown EXCEPT ![d] = stored[d]] /\ UNCHANGED <<cursor, seen, sent, stored>>
    BY <1>11 DEF Close
  <2>. QED  BY <1>0, <1>1, <1>2, <2>1, Unmoved
<1>12. ASSUME NEW s \in Seqs, RemoveMessage(s) PROVE StoreShape' /\ Marks
  BY <1>3, <1>12 DEF RemoveMessage
<1>13. CASE Attest \/ UNCHANGED vars
  BY <1>3, <1>13 DEF Attest
<1>. QED  BY <1>4, <1>5, <1>6, <1>7, <1>8, <1>9, <1>10, <1>11, <1>12, <1>13,
             ReadStores, StoreStores, AckStores DEF Next, Works, Hears

-----------------------------------------------------------------------------
(* Pulls *)

LEMMA StillFits ==
  ASSUME ServerShape, ServerShape', Extends, NEW c \in Nat, NEW n \in Nat, c <= n, NEW p, PullFits(c, p),
         p.todo \subseteq Nat, p.step = "ask" => p.after \in Nat
  PROVE  PullFits(n, p)'
<1>1. /\ Len(log) \in Nat /\ Len(log') \in Nat /\ DOMAIN log = 1 .. Len(log) /\ DOMAIN log' = 1 .. Len(log')
      /\ Len(log) <= Len(log') /\ gone \subseteq gone'
  BY DEF ServerShape, Extends
<1>2. CASE p.step = "ask"
  BY <1>2 DEF PullFits
<1>3. CASE p.step \in {"read", "store"}
  <2>1. p.todo # {} /\ p.todo \subseteq DOMAIN log'
    BY <1>1, <1>3 DEF PullFits
  <2>2. ASSUME NEW s \in p.todo, NEW r \in DOMAIN log' \ gone', r <= s PROVE r <= n \/ r \in p.todo
    <3>1. s \in DOMAIN log
      BY <1>3 DEF PullFits
    <3>2. r \in DOMAIN log \ gone
      BY <1>1, <2>2, <3>1
    <3>3. r <= c \/ r \in p.todo
      BY <1>3, <2>2, <3>2 DEF PullFits
    <3>. QED  BY <1>1, <3>2, <3>3
  <2>. QED  BY <1>3, <2>1, <2>2 DEF PullFits
<1>4. CASE p.step \notin {"ask", "read", "store"}
  BY <1>4 DEF PullFits
<1>. QED  BY <1>2, <1>3, <1>4

LEMMA PullTasks ==
  /\ NoTask \in Pulls /\ NoTask.step = "none"
  /\ \A p \in Pulls : p # NoTask =>
       /\ p.todo \subseteq Nat /\ p.after \in Nat /\ p.step \in {"ask", "read", "store"}
       /\ \A t \in SUBSET Nat : [p EXCEPT !.step = "read", !.todo = t] \in Pulls
       /\ [p EXCEPT !.step = "store"] \in Pulls
<1>1. \A p \in [step : {"ask", "read", "store"}, after : Nat, todo : SUBSET Nat] :
        /\ p.todo \subseteq Nat /\ p.after \in Nat /\ p.step \in {"ask", "read", "store"}
        /\ \A t \in SUBSET Nat : [p EXCEPT !.step = "read", !.todo = t] \in Pulls
        /\ [p EXCEPT !.step = "store"] \in Pulls
  BY DEF Pulls
<1>2. \A p \in Pulls : p # NoTask => p \in [step : {"ask", "read", "store"}, after : Nat, todo : SUBSET Nat]
  BY DEF Pulls
<1>3. NoTask \in Pulls /\ NoTask.step = "none"
  BY DEF Pulls, NoTask
<1>. QED  BY <1>1, <1>2, <1>3

LEMMA NoSend == NoTask \in Sends /\ NoTask.step = "none"
BY DEF Sends, NoTask

LEMMA SendTasks ==
  \A p \in Sends : p # NoTask => p.msg \in Messages /\ p.step \in {"post", "reply", "failed", "erase"}
BY DEF Sends

(* A pull that goes on as it is. *)
LEMMA OldFits ==
  ASSUME Shape, ServerShape', Extends, StoreShape', Marks, NEW d \in Device, NEW i \in 1 .. load.pulls,
         NEW p, p = pull[d][i], NEW n, n = cursor'[d]
  PROVE  PullFits(n, p)'
<1>1. ServerShape /\ StoreShape /\ PullShape /\ load' = load
  BY DEF Shape, Extends
<1>2. PICK c \in Nat : c = cursor[d] /\ c <= n /\ n \in Nat
  BY <1>1 DEF StoreShape, Marks
<1>3. p \in Pulls /\ PullFits(c, p)
  BY <1>1, <1>2 DEF PullShape
<1>4. CASE p = NoTask
  BY <1>4, PullTasks DEF PullFits
<1>5. CASE p # NoTask
  <2>1. p.todo \subseteq Nat /\ p.after \in Nat
    BY <1>3, <1>5, PullTasks
  <2>. QED  BY <1>1, <1>2, <1>3, <2>1, StillFits
<1>. QED  BY <1>4, <1>5

LEMMA PullsStay ==
  ASSUME Shape, ServerShape', Extends, StoreShape', Marks, pull' = pull
  PROVE  PullShape'
<1>1. pull \in [Device -> [1 .. load.pulls -> Pulls]] /\ load' = load
  BY DEF Shape, PullShape, Extends
<1>2. ASSUME NEW d \in Device, NEW i \in 1 .. load.pulls PROVE PullFits(cursor[d], pull[d][i])'
  <2>1. PICK n, p : n = cursor'[d] /\ p = pull[d][i]
    OBVIOUS
  <2>2. PullFits(n, p)'
    BY <2>1, OldFits
  <2>. QED  BY <2>1, <2>2 DEF PullFits
<1>. QED  BY <1>1, <1>2 DEF PullShape

LEMMA PullMoves ==
  ASSUME Shape, ServerShape', Extends, StoreShape', Marks, NEW d \in Device, NEW i \in 1 .. load.pulls,
         NEW p \in Pulls, NEW n, n = cursor'[d], PullFits(n, p)', pull' = [pull EXCEPT ![d][i] = p]
  PROVE  PullShape'
<1>1. pull \in [Device -> [1 .. load.pulls -> Pulls]] /\ load' = load
  BY DEF Shape, PullShape, Extends
<1>2. pull' \in [Device -> [1 .. load.pulls -> Pulls]]
  BY <1>1
<1>3. ASSUME NEW e \in Device, NEW k \in 1 .. load.pulls PROVE PullFits(cursor[e], pull[e][k])'
  <2>1. PICK m, q : m = cursor'[e] /\ q = pull'[e][k]
    OBVIOUS
  <2>2. CASE e = d /\ k = i
    <3>1. m = n /\ q = p
      BY <1>1, <2>1, <2>2
    <3>. QED  BY <2>1, <3>1 DEF PullFits
  <2>3. CASE ~(e = d /\ k = i)
    <3>1. q = pull[e][k]
      BY <1>1, <2>1, <2>3
    <3>2. PullFits(m, q)'
      BY <2>1, <3>1, OldFits
    <3>. QED  BY <2>1, <3>2 DEF PullFits
  <2>. QED  BY <2>2, <2>3
<1>. QED  BY <1>1, <1>2, <1>3 DEF PullShape

(* A pull that is done with its row goes to the next. *)
LEMMA NextRow ==
  ASSUME Shape, ServerShape', Extends, StoreShape', Marks, NEW d \in Device, NEW i \in DOMAIN pull[d],
         pull[d][i].step \in {"read", "store"}, Next1(d, i), First(pull[d][i].todo) <= cursor'[d]
  PROVE  PullShape'
<1>1. ServerShape /\ StoreShape /\ PullShape /\ load' = load
  BY DEF Shape, Extends
<1>2. PICK q, s, rest : q = pull[d][i] /\ s = First(q.todo) /\ rest = q.todo \ {s}
  OBVIOUS
<1>3. /\ i \in 1 .. load.pulls /\ q \in Pulls /\ q # NoTask /\ q.todo \subseteq Nat
      /\ s \in q.todo /\ \A e \in q.todo : s <= e
  BY <1>1, <1>2, PullAt
<1>4. PICK p : p = IF rest = {} THEN NoTask ELSE [q EXCEPT !.step = "read", !.todo = rest]
  OBVIOUS
<1>5. pull' = [pull EXCEPT ![d][i] = p]
  BY <1>2, <1>4 DEF Next1
<1>6. p \in Pulls
  BY <1>3, <1>2, <1>4, PullTasks
<1>7. PICK n : n = cursor'[d] /\ n \in Nat
  BY DEF StoreShape, ServerShape
<1>8. PullFits(n, p)'
  <2>1. CASE rest = {}
    BY <1>4, <2>1, PullTasks DEF PullFits
  <2>2. CASE rest # {}
    <3>1. q.step \in {"read", "store"} /\ q \in [step : {"ask", "read", "store"}, after : Nat, todo : SUBSET Nat]
      BY <1>2, <1>3 DEF Pulls
    <3>2. p.step = "read" /\ p.todo = rest
      BY <1>4, <2>2, <3>1
    <3>3. PullFits(n, q)'
      BY <1>2, <1>3, <1>7, OldFits
    <3>4. q.todo \subseteq DOMAIN log' /\ \A t \in q.todo, r \in DOMAIN log' \ gone' : r <= t => r <= n \/ r \in q.todo
      BY <3>1, <3>3 DEF PullFits
    <3>5. s <= n
      BY <1>2, <1>7
    <3>6. \A t \in rest, r \in DOMAIN log' \ gone' : r <= t => r <= n \/ r \in rest
      BY <1>2, <3>4, <3>5
    <3>. QED  BY <1>2, <2>2, <3>2, <3>4, <3>6 DEF PullFits
  <2>. QED  BY <2>1, <2>2
<1>. QED  BY <1>3, <1>5, <1>6, <1>7, <1>8, PullMoves

LEMMA StartFits ==
  ASSUME Shape, ServerShape', Extends, StoreShape', Marks, NEW d \in Device, StartPull(d)
  PROVE  PullShape'
<1>1. ServerShape /\ StoreShape /\ PullShape
  BY DEF Shape
<1>2. PICK i \in DOMAIN pull[d] :
        pull' = [pull EXCEPT ![d][i] = [step |-> "ask", after |-> cursor[d], todo |-> {}]]
  BY DEF StartPull
<1>3. PICK p : p = [step |-> "ask", after |-> cursor[d], todo |-> {}]
  OBVIOUS
<1>4. cursor[d] \in Nat /\ i \in 1 .. load.pulls
  <2>1. cursor[d] \in 0 .. Len(log) /\ i \in 1 .. load.pulls
    BY <1>1 DEF StoreShape, PullShape
  <2>. QED  BY <2>1
<1>5. p \in Pulls /\ p.step = "ask" /\ p.after = cursor[d]
  BY <1>3, <1>4 DEF Pulls
<1>6. PICK n : n = cursor'[d]
  OBVIOUS
<1>7. PullFits(n, p)'
  BY <1>5, <1>6 DEF PullFits, Marks
<1>. QED  BY <1>2, <1>3, <1>4, <1>5, <1>6, <1>7, PullMoves

LEMMA ServedFits ==
  ASSUME Shape, ServerShape', Extends, StoreShape', Marks, NEW d \in Device, NEW i \in DOMAIN pull[d],
         PullServed(d, i)
  PROVE  PullShape'
<1>1. ServerShape /\ StoreShape /\ PullShape
  BY DEF Shape
<1>2. PICK q, rows : q = pull[d][i] /\ rows = {s \in DOMAIN log \ gone : s > q.after}
  OBVIOUS
<1>3. q.step = "ask" /\ UNCHANGED <<log, gone, cursor>>
  BY <1>2 DEF PullServed
<1>4. PICK p : p = IF d \in inside /\ rows # {} THEN [q EXCEPT !.step = "read", !.todo = rows] ELSE NoTask
  OBVIOUS
<1>5. pull' = [pull EXCEPT ![d][i] = p]
  BY <1>2, <1>4 DEF PullServed
<1>6. i \in 1 .. load.pulls /\ q \in Pulls /\ q # NoTask
  <2>1. i \in 1 .. load.pulls /\ q \in Pulls
    BY <1>1, <1>2 DEF PullShape
  <2>. QED  BY <1>3, <2>1, PullTasks
<1>7. Len(log) \in Nat /\ DOMAIN log = 1 .. Len(log) /\ rows \in SUBSET Nat
  BY <1>1, <1>2, RowsAre
<1>8. p \in Pulls
  BY <1>4, <1>6, <1>7, PullTasks
<1>9. PICK n : n = cursor'[d] /\ n = cursor[d] /\ n \in Nat /\ q.after <= n /\ q.after \in Nat
  <2>1. PullFits(cursor[d], pull[d][i])
    BY <1>1, <1>6 DEF PullShape
  <2>2. q.after \in Nat
    BY <1>6, PullTasks
  <2>. QED  BY <1>1, <1>2, <1>3, <2>1, <2>2 DEF PullFits, StoreShape
<1>10. PullFits(n, p)'
  <2>1. CASE p = NoTask
    BY <2>1, PullTasks DEF PullFits
  <2>2. CASE p # NoTask
    <3>1. q \in [step : {"ask", "read", "store"}, after : Nat, todo : SUBSET Nat]
      BY <1>6 DEF Pulls
    <3>2. p.step = "read" /\ p.todo = rows /\ rows # {}
      BY <1>4, <2>2, <3>1
    <3>3. rows \subseteq DOMAIN log /\ \A t \in rows, r \in DOMAIN log \ gone : r <= t => r <= n \/ r \in rows
      BY <1>2, <1>7, <1>9
    <3>. QED  BY <1>3, <3>2, <3>3 DEF PullFits
  <2>. QED  BY <2>1, <2>2
<1>. QED  BY <1>5, <1>6, <1>8, <1>9, <1>10, PullMoves

LEMMA ReadFits ==
  ASSUME Shape, ServerShape', Extends, StoreShape', Marks, NEW d \in Device, NEW i \in DOMAIN pull[d],
         Read(d, i)
  PROVE  PullShape'
<1>1. ServerShape /\ StoreShape /\ PullShape /\ pull[d][i].step = "read"
  BY DEF Shape, Read
<1>2. PICK q, s : q = pull[d][i] /\ s = First(q.todo)
  OBVIOUS
<1>3. /\ i \in 1 .. load.pulls /\ q \in Pulls /\ q # NoTask /\ s \in 1 .. Len(log) /\ Len(log) \in Nat
      /\ \A e \in q.todo : s <= e
  BY <1>1, <1>2, PullAt, RowsAre
<1>4. PICK n : n = cursor'[d]
  OBVIOUS
<1>5. \/ pull' = [pull EXCEPT ![d][i].step = "store"]
      \/ cursor' = Past(d, s) /\ Next1(d, i)
      \/ pull' = [pull EXCEPT ![d][i] = NoTask]
  BY <1>2 DEF Read
<1>6. CASE pull' = [pull EXCEPT ![d][i].step = "store"]
  <2>1. PICK p : p = [q EXCEPT !.step = "store"]
    OBVIOUS
  <2>2. pull' = [pull EXCEPT ![d][i] = p]
    BY <1>2, <1>6, <2>1
  <2>3. p \in Pulls
    BY <1>3, <2>1, PullTasks
  <2>4. q \in [step : {"ask", "read", "store"}, after : Nat, todo : SUBSET Nat]
    BY <1>3 DEF Pulls
  <2>5. p.step = "store" /\ p.todo = q.todo
    BY <2>1, <2>4
  <2>6. PullFits(n, q)'
    BY <1>2, <1>3, <1>4, OldFits
  <2>7. PullFits(n, p)'
    BY <1>1, <1>2, <2>5, <2>6 DEF PullFits
  <2>. QED  BY <1>3, <1>4, <2>2, <2>3, <2>7, PullMoves
<1>7. CASE cursor' = Past(d, s) /\ Next1(d, i)
  <2>1. s <= cursor'[d]
    BY <1>1, <1>3, <1>7, PastIs
  <2>. QED  BY <1>1, <1>2, <1>7, <2>1, NextRow
<1>8. CASE pull' = [pull EXCEPT ![d][i] = NoTask]
  <2>1. PullFits(n, NoTask)'
    BY PullTasks DEF PullFits
  <2>. QED  BY <1>3, <1>4, <1>8, <2>1, PullTasks, PullMoves
<1>. QED  BY <1>5, <1>6, <1>7, <1>8

LEMMA PullStep ==
  ASSUME Shape, [Next]_vars
  PROVE  PullShape'
<1>0. ServerShape' /\ Extends /\ StoreShape' /\ Marks
  BY ServerStep, StoreStep DEF Shape
<1>1. CASE pull' = pull
  BY <1>0, <1>1, PullsStay
<1>2. ASSUME NEW d \in Device, Nudged(d) \/ CatchUp(d) PROVE PullShape'
  BY <1>0, <1>2, StartFits DEF Nudged, CatchUp
<1>3. ASSUME NEW d \in Device, Acked(d) \/ HideRemoved(d) \/ Subscribe(d) PROVE PullShape'
  BY <1>1, <1>3 DEF Acked, HideRemoved, Subscribe
<1>4. ASSUME NEW d \in Device, NEW i \in DOMAIN pull[d], Store(d, i) PROVE PullShape'
  BY <1>0, <1>4, StoreStores, NextRow DEF Store
<1>5. ASSUME NEW d \in Device, NEW j \in DOMAIN send[d], Post(d, j) \/ Erase(d, j) \/ GiveUp(d, j)
      PROVE  PullShape'
  BY <1>1, <1>5 DEF Post, Erase, GiveUp
<1>6. ASSUME NEW d \in Device, SendStart(d) \/ Connect(d) \/ Disconnect(d) PROVE PullShape'
  BY <1>1, <1>6 DEF SendStart, Connect, Disconnect
<1>7. ASSUME NEW d \in Device, Rotate(d) \/ Grant(d) \/ Kick(d) \/ Rejoin(d) PROVE PullShape'
  BY <1>1, <1>7 DEF Rotate, Grant, Kick, Rejoin
<1>8. ASSUME NEW d \in Device, Close(d) PROVE PullShape'
  <2>1. pull' = [pull EXCEPT ![d] = [i \in DOMAIN @ |-> NoTask]] /\ cursor' = cursor
    BY <1>8 DEF Close
  <2>2. pull \in [Device -> [1 .. load.pulls -> Pulls]] /\ load' = load
    BY <1>0 DEF Shape, PullShape, Extends
  <2>3. pull' \in [Device -> [1 .. load.pulls -> Pulls]]
    BY <2>1, <2>2, PullTasks
  <2>4. ASSUME NEW e \in Device, NEW i \in 1 .. load.pulls PROVE PullFits(cursor[e], pull[e][i])'
    <3>1. PICK n, q : n = cursor'[e] /\ q = pull'[e][i]
      OBVIOUS
    <3>2. q = NoTask \/ q = pull[e][i]
      BY <2>1, <2>2, <3>1
    <3>3. PullFits(n, q)'
      <4>1. CASE q = NoTask
        BY <4>1, PullTasks DEF PullFits
      <4>2. CASE q = pull[e][i]
        BY <1>0, <3>1, <4>2, OldFits
      <4>. QED  BY <3>2, <4>1, <4>2
    <3>. QED  BY <3>1, <3>3 DEF PullFits
  <2>. QED  BY <2>2, <2>3, <2>4 DEF PullShape
<1>9. ASSUME NEW s \in Seqs, RemoveMessage(s) PROVE PullShape'
  BY <1>1, <1>9 DEF RemoveMessage
<1>10. CASE Attest \/ UNCHANGED vars
  BY <1>1, <1>10 DEF Attest
<1>. QED  BY <1>0, <1>2, <1>3, <1>4, <1>5, <1>6, <1>7, <1>8, <1>9, <1>10, ReadFits, ServedFits
          DEF Next, Works, Hears

-----------------------------------------------------------------------------
(* Sends, and the acks they wait for *)

LEMMA BoxTail ==
  ASSUME NEW rows, NEW box \in Seq(Events), box # << >>, NEW tasks, BoxFits(rows, box, tasks)
  PROVE  Tail(box) \in Seq(Events) /\ BoxFits(rows, Tail(box), tasks)
<1>1. /\ Tail(box) \in Seq(Events) /\ Len(box) \in Nat /\ DOMAIN box = 1 .. Len(box)
      /\ DOMAIN Tail(box) = 1 .. (Len(box) - 1)
      /\ \A n \in 1 .. (Len(box) - 1) : Tail(box)[n] = box[n + 1]
  OBVIOUS
<1>2. PICK rest : rest = Tail(box)
  OBVIOUS
<1>3. ASSUME NEW n \in DOMAIN rest PROVE AckFits(rows, rest, tasks, n)
  <2>1. n + 1 \in DOMAIN box /\ rest[n] = box[n + 1]
    BY <1>1, <1>2
  <2>2. AckFits(rows, box, tasks, n + 1)
    BY <2>1 DEF BoxFits
  <2>3. ASSUME NEW k \in DOMAIN rest, rest[k].type = "ack", rest[k].slot = rest[n].slot, rest[n].type = "ack"
        PROVE  k = n
    <3>1. k + 1 \in DOMAIN box /\ rest[k] = box[k + 1]
      BY <1>1, <1>2
    <3>2. k + 1 = n + 1
      BY <2>1, <2>2, <2>3, <3>1 DEF AckFits
    <3>. QED  BY <3>2, <1>1, <1>2
  <2>. QED  BY <2>1, <2>2, <2>3 DEF AckFits
<1>. QED  BY <1>1, <1>2, <1>3 DEF BoxFits

(* An event joins the queue; if it is an ack, nothing else is for its slot. *)
LEMMA BoxAppend ==
  ASSUME NEW rows, NEW box \in Seq(Events), NEW tasks, BoxFits(rows, box, tasks), NEW e \in Events,
         e.type = "ack" =>
           /\ e.slot \in DOMAIN tasks /\ e.seq \in DOMAIN rows
           /\ tasks[e.slot].step = "reply" /\ tasks[e.slot].msg = rows[e.seq]
           /\ \A k \in DOMAIN box : ~(box[k].type = "ack" /\ box[k].slot = e.slot)
  PROVE  Append(box, e) \in Seq(Events) /\ BoxFits(rows, Append(box, e), tasks)
<1>1. PICK new : new = Append(box, e)
  OBVIOUS
<1>2. /\ new \in Seq(Events) /\ Len(box) \in Nat /\ DOMAIN box = 1 .. Len(box)
      /\ DOMAIN new = 1 .. (Len(box) + 1) /\ new[Len(box) + 1] = e
      /\ \A n \in 1 .. Len(box) : new[n] = box[n]
  BY <1>1
<1>3. \A n \in DOMAIN new : n \in DOMAIN box \/ n = Len(box) + 1
  BY <1>2
<1>4. ASSUME NEW n \in DOMAIN new, new[n].type = "ack" PROVE AckFits(rows, new, tasks, n)
  <2>1. CASE n = Len(box) + 1
    <3>1. \A k \in DOMAIN new : new[k].type = "ack" /\ new[k].slot = new[n].slot => k = n
      BY <1>2, <1>3, <1>4, <2>1
    <3>. QED  BY <1>2, <1>4, <2>1, <3>1 DEF AckFits
  <2>2. CASE n \in DOMAIN box
    <3>1. AckFits(rows, box, tasks, n) /\ new[n] = box[n]
      BY <1>2, <2>2 DEF BoxFits
    <3>2. \A k \in DOMAIN box : new[k].type = "ack" /\ new[k].slot = new[n].slot => k = n
      BY <1>2, <1>4, <3>1 DEF AckFits
    <3>3. ~(new[Len(box) + 1].type = "ack" /\ new[Len(box) + 1].slot = new[n].slot)
      BY <1>2, <1>4, <2>2, <3>1
    <3>. QED  BY <1>3, <1>4, <3>1, <3>2, <3>3 DEF AckFits
  <2>. QED  BY <1>3, <2>1, <2>2
<1>5. ASSUME NEW n \in DOMAIN new, new[n].type # "ack" PROVE AckFits(rows, new, tasks, n)
  BY <1>5 DEF AckFits
<1>. QED  BY <1>1, <1>2, <1>4, <1>5 DEF BoxFits

(* What waits for an answer stays, and the rows stay. *)
LEMMA BoxStays ==
  ASSUME NEW rows, NEW more, DOMAIN rows \subseteq DOMAIN more, \A s \in DOMAIN rows : more[s] = rows[s],
         NEW box, NEW tasks, NEW new, BoxFits(rows, box, tasks), DOMAIN tasks \subseteq DOMAIN new,
         \A n \in DOMAIN box, j \in DOMAIN tasks :
           box[n].type = "ack" /\ box[n].slot = j => new[j] = tasks[j]
  PROVE  BoxFits(more, box, new)
<1>1. ASSUME NEW n \in DOMAIN box, box[n].type = "ack" PROVE AckFits(more, box, new, n)
  <2>1. AckFits(rows, box, tasks, n)
    BY DEF BoxFits
  <2>2. PICK j, s : j = box[n].slot /\ s = box[n].seq
    OBVIOUS
  <2>3. /\ j \in DOMAIN tasks /\ s \in DOMAIN rows /\ tasks[j].step = "reply" /\ tasks[j].msg = rows[s]
        /\ \A k \in DOMAIN box : box[k].type = "ack" /\ box[k].slot = j => k = n
    BY <1>1, <2>1, <2>2 DEF AckFits
  <2>4. new[j] = tasks[j] /\ more[s] = rows[s] /\ j \in DOMAIN new /\ s \in DOMAIN more
    BY <1>1, <2>2, <2>3
  <2>. QED  BY <1>1, <2>2, <2>3, <2>4 DEF AckFits
<1>2. ASSUME NEW n \in DOMAIN box, box[n].type # "ack" PROVE AckFits(more, box, new, n)
  BY <1>2 DEF AckFits
<1>. QED  BY <1>1, <1>2 DEF BoxFits

(* A slot that does not wait for an answer has no ack. *)
LEMMA NoAck ==
  ASSUME NEW rows, NEW box, NEW tasks, BoxFits(rows, box, tasks), NEW n \in DOMAIN box, box[n].type = "ack"
  PROVE  tasks[box[n].slot].step = "reply"
BY DEF BoxFits, AckFits

LEMMA EventsAre ==
  /\ [type |-> "nudge"] \in Events
  /\ \A s \in Seqs : [type |-> "removed", seq |-> s] \in Events
  /\ \A j \in Nat, s \in Nat : [type |-> "ack", slot |-> j, seq |-> s] \in Events
BY DEF Events

(* A task of a device goes on to a later step. *)
LEMMA TaskAt ==
  ASSUME SendShape, NEW d \in Device, NEW j \in 1 .. load.sends, send[d][j] # NoTask,
         NEW st \in {"reply", "failed", "erase"}, NEW t, t = [send[d][j] EXCEPT !.step = st]
  PROVE  t \in Sends /\ t # NoTask /\ t.step = st /\ t.msg = send[d][j].msg /\ t.msg.by = d
<1>1. send[d][j] \in Sends /\ send[d][j].msg.by = d
  <2>1. send[d] \in [1 .. load.sends -> Sends] /\ Own(d, send[d])
    BY DEF SendShape
  <2>. QED  BY <2>1 DEF Own
<1>2. PICK p : p = send[d][j]
  OBVIOUS
<1>3. p \in [step : {"post", "reply", "failed", "erase"}, msg : Messages]
  BY <1>1, <1>2 DEF Sends
<1>4. /\ t \in [step : {"post", "reply", "failed", "erase"}, msg : Messages]
      /\ t.step = st /\ t.msg = p.msg
  BY <1>2, <1>3
<1>5. t \in Sends /\ t # NoTask
  BY <1>4 DEF Sends, NoTask
<1>. QED  BY <1>1, <1>2, <1>4, <1>5

(* One task of a device changes that waits for no answer. *)
LEMMA TaskMoves ==
  ASSUME ServerShape, SendShape, ServerShape', Extends, NEW d \in Device, NEW j \in 1 .. load.sends,
         send[d][j].step # "reply", NEW t \in Sends, t # NoTask => t.msg.by = d,
         send' = [send EXCEPT ![d][j] = t]
  PROVE  /\ send' \in [Device -> [1 .. load.sends -> Sends]]
         /\ \A e \in Device : Own(e, send'[e]) /\ BoxFits(log', inbox[e], send'[e])
         /\ \A e \in Device, k \in 1 .. load.sends :
              send'[e][k] = IF e = d /\ k = j THEN t ELSE send[e][k]
<1>1. send \in [Device -> [1 .. load.sends -> Sends]]
  BY DEF SendShape
<1>2. /\ send' \in [Device -> [1 .. load.sends -> Sends]]
      /\ \A e \in Device, k \in 1 .. load.sends : send'[e][k] = IF e = d /\ k = j THEN t ELSE send[e][k]
  BY <1>1
<1>3. ASSUME NEW e \in Device PROVE Own(e, send'[e])
  <2>1. Own(e, send[e]) /\ DOMAIN send[e] = 1 .. load.sends /\ DOMAIN send'[e] = 1 .. load.sends
    BY <1>1, <1>2 DEF SendShape
  <2>. QED  BY <1>2, <2>1 DEF Own
<1>4. ASSUME NEW e \in Device PROVE BoxFits(log', inbox[e], send'[e])
  <2>1. /\ DOMAIN send[e] = 1 .. load.sends /\ DOMAIN send'[e] = 1 .. load.sends
        /\ BoxFits(log, inbox[e], send[e])
    BY <1>1, <1>2 DEF SendShape
  <2>2. ASSUME NEW n \in DOMAIN inbox[e], NEW k \in DOMAIN send[e],
               inbox[e][n].type = "ack", inbox[e][n].slot = k
        PROVE  send'[e][k] = send[e][k]
    <3>1. send[e][k].step = "reply"
      BY <2>1, <2>2, NoAck
    <3>. QED  BY <1>2, <2>1, <3>1
  <2>3. DOMAIN log \subseteq DOMAIN log' /\ \A s \in DOMAIN log : log'[s] = log[s]
    BY DEF Extends
  <2>4. \A n \in DOMAIN inbox[e], k \in DOMAIN send[e] :
          inbox[e][n].type = "ack" /\ inbox[e][n].slot = k => send'[e][k] = send[e][k]
    BY <2>2
  <2>. QED  BY <2>1, <2>3, <2>4, BoxStays
<1>. QED  BY <1>2, <1>3, <1>4

(* A step after which the tasks and the queues of every device fit. *)
LEMMA SendGoes ==
  ASSUME load' = load, send' \in [Device -> [1 .. load.sends -> Sends]], inbox' \in [Device -> Seq(Events)],
         \A e \in Device : Own(e, send'[e]) /\ BoxFits(log', inbox'[e], send'[e])
  PROVE  SendShape'
BY DEF SendShape

(* The queues of all devices after an event for some. *)
LEMMA RingIs ==
  ASSUME SendShape, NEW D, NEW e \in Events, e.type # "ack"
  PROVE  /\ Ring(D, e) \in [Device -> Seq(Events)]
         /\ \A x \in Device : Ring(D, e)[x] \in {inbox[x], Append(inbox[x], e)}
         /\ \A x \in Device : \A rows, tasks :
              BoxFits(rows, inbox[x], tasks) => BoxFits(rows, Ring(D, e)[x], tasks)
<1>1. \A x \in Device : inbox[x] \in Seq(Events) /\ Append(inbox[x], e) \in Seq(Events)
  BY DEF SendShape
<1>2. PICK r : r = Ring(D, e)
  OBVIOUS
<1>3. r \in [Device -> Seq(Events)] /\ \A x \in Device : r[x] \in {inbox[x], Append(inbox[x], e)}
  BY <1>1, <1>2 DEF Ring
<1>4. ASSUME NEW x \in Device, NEW rows, NEW tasks, BoxFits(rows, inbox[x], tasks)
      PROVE  BoxFits(rows, r[x], tasks)
  <2>1. BoxFits(rows, Append(inbox[x], e), tasks)
    BY <1>1, <1>4, BoxAppend
  <2>. QED  BY <1>3, <1>4, <2>1
<1>. QED  BY <1>2, <1>3, <1>4

LEMMA Rung ==
  ASSUME SendShape, load' = load, UNCHANGED <<log, send>>, NEW D, NEW e \in Events, e.type # "ack",
         inbox' = Ring(D, e)
  PROVE  SendShape'
BY RingIs, SendGoes DEF SendShape

LEMMA Taken ==
  ASSUME SendShape, load' = load, UNCHANGED <<log, send>>, NEW d \in Device, inbox[d] # << >>,
         inbox' = [inbox EXCEPT ![d] = Tail(@)]
  PROVE  SendShape'
<1>1. inbox \in [Device -> Seq(Events)] /\ \A e \in Device : BoxFits(log, inbox[e], send[e])
  BY DEF SendShape
<1>2. Tail(inbox[d]) \in Seq(Events) /\ BoxFits(log, Tail(inbox[d]), send[d])
  BY <1>1, BoxTail
<1>3. /\ inbox' \in [Device -> Seq(Events)]
      /\ \A e \in Device : inbox'[e] = IF e = d THEN Tail(inbox[d]) ELSE inbox[e]
  BY <1>1, <1>2
<1>. QED  BY <1>1, <1>2, <1>3, SendGoes DEF SendShape

LEMMA PostSends ==
  ASSUME ServerShape, SendShape, ServerShape', Extends, NEW d \in Device, NEW j \in DOMAIN send[d], Post(d, j)
  PROVE  SendShape'
<1>1. /\ send \in [Device -> [1 .. load.sends -> Sends]] /\ inbox \in [Device -> Seq(Events)]
      /\ j \in 1 .. load.sends /\ send[d][j].step = "post" /\ send[d][j] \in Sends
      /\ Own(d, send[d]) /\ BoxFits(log, inbox[d], send[d]) /\ load' = load
  BY DEF SendShape, Post, Extends
<1>2. send[d][j] # NoTask /\ send[d][j].msg \in Messages
  BY <1>1, NoSend, SendTasks
<1>3. CASE MayPost(d) /\ link[d] # "off"
  <2>1. PICK m, t, nudge, ack :
          /\ m = send[d][j].msg /\ t = [send[d][j] EXCEPT !.step = "reply"]
          /\ nudge = [type |-> "nudge"] /\ ack = [type |-> "ack", slot |-> j, seq |-> Len(log) + 1]
    OBVIOUS
  <2>2. PICK rung : rung = Ring({x \in Device : subscribed[x]}, nudge)
    OBVIOUS
  <2>3. /\ log' = Append(log, m) /\ send' = [send EXCEPT ![d][j] = t]
        /\ inbox' = [rung EXCEPT ![d] = Append(rung[d], ack)]
    BY <1>3, <2>1, <2>2 DEF Post
  <2>4. /\ t \in Sends /\ t # NoTask /\ t.step = "reply" /\ t.msg = m /\ m.by = d
    BY <1>1, <1>2, <2>1, TaskAt
  <2>5. /\ send' \in [Device -> [1 .. load.sends -> Sends]]
        /\ \A e \in Device : Own(e, send'[e]) /\ BoxFits(log', inbox[e], send'[e])
        /\ send'[d][j] = t /\ DOMAIN send'[d] = 1 .. load.sends
    BY <1>1, <2>3, <2>4, TaskMoves
  <2>6. /\ rung \in [Device -> Seq(Events)]
        /\ \A e \in Device : BoxFits(log', rung[e], send'[e])
        /\ rung[d] \in {inbox[d], Append(inbox[d], nudge)}
    BY <2>1, <2>2, <2>5, EventsAre, RingIs
  <2>7. Len(log) + 1 \in DOMAIN log' /\ log'[Len(log) + 1] = m /\ Len(log) + 1 \in Nat
    BY <1>2, <2>1, <2>3 DEF ServerShape
  <2>8. ack \in Events /\ ack.type = "ack" /\ ack.slot = j /\ ack.seq = Len(log) + 1
    BY <1>1, <2>1, <2>7, EventsAre
  <2>9. ASSUME NEW k \in DOMAIN rung[d], rung[d][k].type = "ack", rung[d][k].slot = j PROVE FALSE
    <3>1. k \in DOMAIN inbox[d] /\ rung[d][k] = inbox[d][k]
      <4>1. CASE rung[d] = inbox[d]
        BY <4>1
      <4>2. CASE rung[d] = Append(inbox[d], nudge)
        <5>1. inbox[d] \in Seq(Events) /\ nudge.type = "nudge"
          BY <1>1, <2>1
        <5>2. k \in 1 .. (Len(inbox[d]) + 1) /\ Append(inbox[d], nudge)[Len(inbox[d]) + 1] = nudge
          BY <4>2, <5>1
        <5>3. k # Len(inbox[d]) + 1
          BY <2>9, <4>2, <5>1, <5>2
        <5>. QED  BY <4>2, <5>1, <5>2, <5>3
      <4>. QED  BY <2>6, <4>1, <4>2
    <3>2. send[d][j].step = "reply"
      BY <1>1, <2>9, <3>1, NoAck
    <3>. QED  BY <1>1, <3>2
  <2>10. PICK box : box = Append(rung[d], ack)
    OBVIOUS
  <2>11. box \in Seq(Events) /\ BoxFits(log', box, send'[d])
    BY <2>4, <2>5, <2>6, <2>7, <2>8, <2>9, <2>10, BoxAppend, <1>1
  <2>12. inbox' \in [Device -> Seq(Events)] /\ \A e \in Device : inbox'[e] = IF e = d THEN box ELSE rung[e]
    BY <2>3, <2>6, <2>10, <2>11
  <2>. QED  BY <1>1, <2>5, <2>6, <2>11, <2>12, SendGoes
<1>4. CASE ~(MayPost(d) /\ link[d] # "off")
  <2>1. PICK t : t = [send[d][j] EXCEPT !.step = "failed"]
    OBVIOUS
  <2>2. send' = [send EXCEPT ![d][j] = t] /\ inbox' = inbox
    BY <1>4, <2>1 DEF Post
  <2>3. t \in Sends /\ t.msg.by = d
    BY <1>1, <1>2, <2>1, TaskAt
  <2>. QED  BY <1>1, <2>2, <2>3, TaskMoves, SendGoes
<1>. QED  BY <1>3, <1>4

(* What a send ends in. *)
LEMMA DoneIs ==
  ASSUME SendShape, NEW d \in Device, NEW j \in 1 .. load.sends, send[d][j] # NoTask, Done(d, j)
  PROVE  \E t \in Sends : /\ send' = [send EXCEPT ![d][j] = t] /\ (t # NoTask => t.msg.by = d)
                          /\ t.step \in {"none", "erase"}
<1>1. /\ send[d][j] \in Sends /\ Own(d, send[d]) /\ DOMAIN send[d] = 1 .. load.sends
      /\ send \in [Device -> [1 .. load.sends -> Sends]]
  BY DEF SendShape
<1>2. PICK t : t = IF send[d][j].msg.kind = "delete" THEN [send[d][j] EXCEPT !.step = "erase"] ELSE NoTask
  OBVIOUS
<1>3. send' = [send EXCEPT ![d][j] = t]
  BY <1>1, <1>2 DEF Done
<1>4. CASE t = NoTask
  BY <1>3, <1>4, NoSend
<1>5. CASE t = [send[d][j] EXCEPT !.step = "erase"]
  <2>1. t \in Sends /\ t.step = "erase" /\ t.msg.by = d
    BY <1>5, TaskAt
  <2>. QED  BY <1>3, <2>1
<1>. QED  BY <1>2, <1>4, <1>5

LEMMA AckSends ==
  ASSUME ServerShape, SendShape, Extends, NEW d \in Device, Acked(d)
  PROVE  SendShape'
<1>1. PICK j : j = Head(inbox[d]).slot
  OBVIOUS
<1>2. /\ inbox[d] # << >> /\ Head(inbox[d]).type = "ack" /\ inbox' = [inbox EXCEPT ![d] = Tail(@)]
      /\ Done(d, j) /\ UNCHANGED <<log, load>>
  BY <1>1 DEF Acked
<1>3. /\ j \in 1 .. load.sends /\ send[d][j].step = "reply"
      /\ \A k \in DOMAIN inbox[d] : inbox[d][k].type = "ack" /\ inbox[d][k].slot = j => k = 1
  BY <1>1, <1>2, AckAt
<1>4. PICK t \in Sends : send' = [send EXCEPT ![d][j] = t] /\ (t # NoTask => t.msg.by = d)
  BY <1>2, <1>3, DoneIs, NoSend
<1>5. /\ send \in [Device -> [1 .. load.sends -> Sends]] /\ inbox \in [Device -> Seq(Events)]
      /\ \A e \in Device : Own(e, send[e]) /\ BoxFits(log, inbox[e], send[e])
  BY DEF SendShape
<1>6. /\ send' \in [Device -> [1 .. load.sends -> Sends]]
      /\ \A e \in Device : send'[e] = IF e = d THEN [send[d] EXCEPT ![j] = t] ELSE send[e]
      /\ \A k \in 1 .. load.sends : send'[d][k] = IF k = j THEN t ELSE send[d][k]
  BY <1>3, <1>4, <1>5
<1>7. \A e \in Device : Own(e, send'[e])
  BY <1>4, <1>5, <1>6 DEF Own
<1>8. PICK rest : rest = Tail(inbox[d])
  OBVIOUS
<1>9. rest \in Seq(Events) /\ BoxFits(log, rest, send[d])
  BY <1>2, <1>5, <1>8, BoxTail
<1>10. ASSUME NEW n \in DOMAIN rest, rest[n].type = "ack" PROVE rest[n].slot # j
  <2>1. n \in Nat /\ n + 1 \in DOMAIN inbox[d] /\ rest[n] = inbox[d][n + 1] /\ n + 1 # 1
    BY <1>2, <1>5, <1>8
  <2>. QED  BY <1>3, <1>10, <2>1
<1>11. BoxFits(log, rest, send'[d])
  <2>1. DOMAIN send[d] = 1 .. load.sends /\ DOMAIN send'[d] = 1 .. load.sends
    BY <1>5, <1>6
  <2>2. \A n \in DOMAIN rest, k \in DOMAIN send[d] :
          rest[n].type = "ack" /\ rest[n].slot = k => send'[d][k] = send[d][k]
    BY <1>6, <1>10, <2>1
  <2>. QED  BY <1>9, <2>1, <2>2, BoxStays
<1>12. inbox' \in [Device -> Seq(Events)] /\ \A e \in Device : inbox'[e] = IF e = d THEN rest ELSE inbox[e]
  BY <1>2, <1>5, <1>8, <1>9
<1>13. \A e \in Device : BoxFits(log', inbox'[e], send'[e])
  BY <1>2, <1>5, <1>6, <1>11, <1>12
<1>. QED  BY <1>2, <1>6, <1>7, <1>12, <1>13, SendGoes

(* A client that goes offline, or is closed, waits for nothing. *)
LEMMA Cut ==
  ASSUME SendShape, load' = load, NEW d \in Device, NEW tasks \in [1 .. load.sends -> Sends], Own(d, tasks),
         send' = [send EXCEPT ![d] = tasks], inbox' = [inbox EXCEPT ![d] = << >>], log' = log
  PROVE  SendShape'
<1>1. /\ send \in [Device -> [1 .. load.sends -> Sends]] /\ inbox \in [Device -> Seq(Events)]
      /\ \A e \in Device : Own(e, send[e]) /\ BoxFits(log, inbox[e], send[e])
  BY DEF SendShape
<1>2. /\ send' \in [Device -> [1 .. load.sends -> Sends]] /\ inbox' \in [Device -> Seq(Events)]
      /\ \A e \in Device : send'[e] = IF e = d THEN tasks ELSE send[e]
      /\ \A e \in Device : inbox'[e] = IF e = d THEN << >> ELSE inbox[e]
  BY <1>1
<1>3. BoxFits(log, << >>, tasks)
  BY DEF BoxFits
<1>. QED  BY <1>1, <1>2, <1>3, SendGoes

LEMMA StartSends ==
  ASSUME ServerShape, KeyShape, StoreShape, SendShape, ServerShape', Extends, NEW d \in Device, SendStart(d)
  PROVE  /\ SendShape' /\ Len(log) + Posting < load.logs /\ UNCHANGED <<log, load, pull, gone, cursor, seen>>
         /\ \E j \in 1 .. load.sends : send[d][j] = NoTask /\
              \E t \in Sends : t # NoTask /\ send' = [send EXCEPT ![d][j] = t]
<1>1. PICK j \in DOMAIN send[d], k \in load.kinds, x \in Seqs :
        /\ send[d][j] = NoTask
        /\ send' = [send EXCEPT ![d][j] =
             [step |-> "post",
              msg |-> [by |-> d, epoch |-> Newest(Fetched(d)), sn |-> sent[d] + 1,
                       kind |-> k, target |-> x]]]
  BY DEF SendStart
<1>2. /\ Fetched(d) # {} /\ Len(log) + Posting < load.logs
      /\ UNCHANGED <<log, load, pull, gone, cursor, seen, inbox>>
  BY DEF SendStart
<1>3. Newest(Fetched(d)) \in Epochs
  <2>1. Fetched(d) \in SUBSET (0 .. keyEpoch) /\ keyEpoch \in 0 .. MaxEpoch /\ MaxEpoch \in Nat
    BY FetchedIs, Constants DEF ServerShape, Epochs
  <2>2. keyEpoch \in Nat
    BY <2>1
  <2>3. Newest(Fetched(d)) \in Fetched(d)
    BY <1>2, <2>1, <2>2, NewestIs
  <2>. QED  BY <2>1, <2>3 DEF Epochs
<1>4. PICK n \in Nat \ {0} : n = sent[d] + 1
  BY DEF StoreShape
<1>5. PICK e \in Epochs : e = Newest(Fetched(d))
  BY <1>3
<1>6. k \in Kinds /\ j \in 1 .. load.sends
  BY LoadIs DEF ServerShape, SendShape
<1>7. PICK m : m = [by |-> d, epoch |-> e, sn |-> n, kind |-> k, target |-> x]
  OBVIOUS
<1>. m \in Messages /\ m.by = d
  BY <1>6, <1>7 DEF Messages
<1>8. PICK t : t = [step |-> "post", msg |-> m]
  OBVIOUS
<1>9. t \in Sends /\ t # NoTask /\ t.msg.by = d
  BY <1>7, <1>8 DEF Sends, NoTask
<1>10. send' = [send EXCEPT ![d][j] = t]
  BY <1>1, <1>4, <1>5, <1>7, <1>8
<1>11. send[d][j].step # "reply"
  BY <1>1, NoSend
<1>12. SendShape'
  <2>1. /\ send' \in [Device -> [1 .. load.sends -> Sends]]
        /\ \A z \in Device : Own(z, send'[z]) /\ BoxFits(log', inbox[z], send'[z])
    BY <1>6, <1>9, <1>10, <1>11, TaskMoves
  <2>. QED  BY <1>2, <2>1, SendGoes DEF SendShape
<1>. QED  BY <1>1, <1>2, <1>6, <1>9, <1>10, <1>12

(* A task that ends, or goes on without an answer to wait for. *)
LEMMA EndSends ==
  ASSUME ServerShape, SendShape, ServerShape', Extends, NEW d \in Device, NEW j \in DOMAIN send[d],
         GiveUp(d, j) \/ Erase(d, j)
  PROVE  SendShape'
<1>1. j \in 1 .. load.sends /\ send[d][j].step \in {"failed", "erase"} /\ UNCHANGED <<inbox, load>>
  BY DEF GiveUp, Erase, SendShape
<1>2. send[d][j] # NoTask
  BY <1>1, NoSend
<1>3. PICK t \in Sends : send' = [send EXCEPT ![d][j] = t] /\ (t # NoTask => t.msg.by = d)
  <2>1. CASE GiveUp(d, j)
    BY <1>1, <1>2, <2>1, DoneIs DEF GiveUp
  <2>2. CASE Erase(d, j)
    BY <2>2, NoSend DEF Erase
  <2>. QED  BY <2>1, <2>2
<1>4. /\ send' \in [Device -> [1 .. load.sends -> Sends]]
      /\ \A z \in Device : Own(z, send'[z]) /\ BoxFits(log', inbox[z], send'[z])
  BY <1>1, <1>3, TaskMoves
<1>. QED  BY <1>1, <1>4, SendGoes DEF SendShape

LEMMA CutSends ==
  ASSUME SendShape, NEW d \in Device, Disconnect(d) \/ Close(d)
  PROVE  SendShape'
<1>1. /\ send \in [Device -> [1 .. load.sends -> Sends]] /\ Own(d, send[d])
      /\ inbox' = [inbox EXCEPT ![d] = << >>] /\ UNCHANGED <<log, load>>
  BY DEF SendShape, Disconnect, Close
<1>2. CASE Disconnect(d)
  <2>1. PICK tasks : tasks = [j \in DOMAIN send[d] |->
           IF send[d][j].step \in {"post", "reply"} THEN [send[d][j] EXCEPT !.step = "failed"] ELSE send[d][j]]
    OBVIOUS
  <2>2. send' = [send EXCEPT ![d] = tasks]
    BY <1>1, <1>2, <2>1 DEF Disconnect
  <2>3. ASSUME NEW j \in 1 .. load.sends
        PROVE  tasks[j] \in Sends /\ (tasks[j] # NoTask => tasks[j].msg.by = d)
    <3>1. CASE send[d][j].step \in {"post", "reply"}
      <4>1. tasks[j] = [send[d][j] EXCEPT !.step = "failed"] /\ send[d][j] # NoTask
        BY <1>1, <2>1, <3>1, NoSend
      <4>. QED  BY <4>1, TaskAt
    <3>2. CASE send[d][j].step \notin {"post", "reply"}
      BY <1>1, <2>1, <3>2 DEF Own
    <3>. QED  BY <3>1, <3>2
  <2>4. DOMAIN tasks = 1 .. load.sends /\ tasks \in [1 .. load.sends -> Sends]
    BY <1>1, <2>1, <2>3
  <2>5. Own(d, tasks)
    BY <2>3, <2>4 DEF Own
  <2>. QED  BY <1>1, <2>2, <2>4, <2>5, Cut
<1>3. CASE Close(d)
  <2>1. PICK tasks : tasks = [j \in DOMAIN send[d] |-> NoTask]
    OBVIOUS
  <2>2. send' = [send EXCEPT ![d] = tasks]
    BY <1>1, <1>3, <2>1 DEF Close
  <2>3. tasks \in [1 .. load.sends -> Sends] /\ Own(d, tasks)
    BY <1>1, <2>1, NoSend DEF Own
  <2>. QED  BY <1>1, <2>2, <2>3, Cut
<1>. QED  BY <1>2, <1>3

LEMMA SendStep ==
  ASSUME Shape, [Next]_vars
  PROVE  SendShape'
<1>0. ServerShape /\ KeyShape /\ StoreShape /\ SendShape /\ ServerShape' /\ Extends /\ load' = load
  BY ServerStep DEF Shape, Extends
<1>1. CASE UNCHANGED <<log, send, inbox>>
  BY <1>0, <1>1 DEF SendShape
<1>2. ASSUME NEW d \in Device, Nudged(d) \/ HideRemoved(d) PROVE SendShape'
  BY <1>0, <1>2, Taken DEF Nudged, HideRemoved
<1>3. ASSUME NEW d \in Device, CatchUp(d) \/ Subscribe(d) PROVE SendShape'
  BY <1>1, <1>3 DEF CatchUp, Subscribe
<1>4. ASSUME NEW d \in Device, NEW i \in DOMAIN pull[d], PullServed(d, i) \/ Read(d, i) \/ Store(d, i)
      PROVE  SendShape'
  BY <1>1, <1>4 DEF PullServed, Read, Store
<1>5. ASSUME NEW d \in Device, Connect(d) \/ Rotate(d) \/ Kick(d) \/ Rejoin(d) PROVE SendShape'
  BY <1>1, <1>5 DEF Connect, Rotate, Kick, Rejoin
<1>6. ASSUME NEW d \in Device, Grant(d) PROVE SendShape'
  <2>1. UNCHANGED <<log, send>> /\ (inbox' = inbox \/ inbox' = Ring({d}, [type |-> "nudge"]))
    BY <1>6 DEF Grant
  <2>2. [type |-> "nudge"] \in Events /\ [type |-> "nudge"].type # "ack"
    BY EventsAre
  <2>. QED  BY <1>0, <1>1, <2>1, <2>2, Rung
<1>7. ASSUME NEW s \in Seqs, RemoveMessage(s) PROVE SendShape'
  <2>1. UNCHANGED <<log, send>>
        /\ inbox' = Ring({d \in inside : link[d] # "off"}, [type |-> "removed", seq |-> s])
    BY <1>7 DEF RemoveMessage
  <2>2. [type |-> "removed", seq |-> s] \in Events /\ [type |-> "removed", seq |-> s].type # "ack"
    BY EventsAre
  <2>. QED  BY <1>0, <2>1, <2>2, Rung
<1>8. CASE Attest \/ UNCHANGED vars
  BY <1>1, <1>8 DEF Attest
<1>. QED  BY <1>0, <1>2, <1>3, <1>4, <1>5, <1>6, <1>7, <1>8, PostSends, AckSends, StartSends, EndSends, CutSends
          DEF Next, Works, Hears

-----------------------------------------------------------------------------
(* The bound of the log *)

LEMMA RoomStays ==
  ASSUME ServerShape, HasRoom, load' = load, log' = log, Waiting' \subseteq Waiting
  PROVE  HasRoom'
<1>1. Posting = Cardinality(Waiting) /\ IsFiniteSet(Waiting) /\ Posting \in Nat
  BY PostingIs DEF ServerShape
<1>2. Posting' = Cardinality(Waiting')
  BY DEF Posting, Waiting
<1>3. Cardinality(Waiting') \in Nat /\ Cardinality(Waiting') <= Cardinality(Waiting)
  BY <1>1, FS_Subset, FS_CardinalityType
<1>4. Len(log) \in Nat /\ load.logs \in Nat
  BY RowsAre, LoadIs DEF ServerShape
<1>. QED  BY <1>1, <1>2, <1>3, <1>4 DEF HasRoom

(* Who is about to post when one task has changed. *)
LEMMA WaitingIs ==
  ASSUME SendShape, load' = load, NEW d \in Device, NEW j \in 1 .. load.sends, NEW t,
         send' = [send EXCEPT ![d][j] = t]
  PROVE  /\ t.step # "post" => Waiting' = Waiting \ {<<d, j>>}
         /\ Waiting' \subseteq Waiting \cup {<<d, j>>}
         /\ send[d][j].step = "post" => <<d, j>> \in Waiting
<1>1. send \in [Device -> [1 .. load.sends -> Sends]]
  BY DEF SendShape
<1>2. \A e \in Device, k \in 1 .. load.sends : send'[e][k] = IF e = d /\ k = j THEN t ELSE send[e][k]
  BY <1>1
<1>3. Waiting' = {p \in Device \X (1 .. load.sends) : send'[p[1]][p[2]].step = "post"}
  BY DEF Waiting
<1>4. \A p \in Device \X (1 .. load.sends) :
        send'[p[1]][p[2]].step = "post" <=> IF p = <<d, j>> THEN t.step = "post" ELSE send[p[1]][p[2]].step = "post"
  BY <1>2
<1>. QED  BY <1>3, <1>4 DEF Waiting

LEMMA PostRoom ==
  ASSUME ServerShape, SendShape, HasRoom, load' = load, NEW d \in Device, NEW j \in DOMAIN send[d], Post(d, j)
  PROVE  HasRoom'
<1>1. j \in 1 .. load.sends /\ send[d][j].step = "post" /\ send[d][j] \in Sends
      /\ send[d] \in [1 .. load.sends -> Sends]
  BY DEF SendShape, Post
<1>2. send[d][j] # NoTask
  BY <1>1, NoSend
<1>3. PICK st \in {"reply", "failed"} : send' = [send EXCEPT ![d][j].step = st]
  BY DEF Post
<1>4. PICK t : t = [send[d][j] EXCEPT !.step = st]
  OBVIOUS
<1>5. send' = [send EXCEPT ![d][j] = t] /\ t.step # "post"
  <2>1. t.step = st
    BY <1>1, <1>2, <1>4, TaskAt
  <2>. QED  BY <1>3, <1>4, <2>1
<1>6. Waiting' = Waiting \ {<<d, j>>} /\ <<d, j>> \in Waiting
  BY <1>1, <1>5, WaitingIs
<1>7. Posting = Cardinality(Waiting) /\ IsFiniteSet(Waiting) /\ Posting \in Nat
  BY PostingIs DEF ServerShape
<1>8. Cardinality(Waiting') = Cardinality(Waiting) - 1
  BY <1>6, <1>7, FS_RemoveElement
<1>9. Posting' = Cardinality(Waiting')
  BY DEF Posting, Waiting
<1>10. Len(log') \in {Len(log), Len(log) + 1} /\ Len(log) \in Nat /\ load.logs \in Nat
  <2>1. log \in Seq(Messages) /\ load.logs \in Nat
    BY LoadIs DEF ServerShape
  <2>2. send[d][j].msg \in Messages
    BY <1>1, <1>2, SendTasks
  <2>3. log' = log \/ log' = Append(log, send[d][j].msg)
    BY DEF Post
  <2>. QED  BY <2>1, <2>2, <2>3
<1>. QED  BY <1>7, <1>8, <1>9, <1>10 DEF HasRoom

LEMMA StartRoom ==
  ASSUME Shape, ServerShape', Extends, NEW d \in Device, SendStart(d)
  PROVE  HasRoom'
<1>1. ServerShape /\ KeyShape /\ StoreShape /\ SendShape /\ load' = load
  BY DEF Shape, Extends
<1>2. Len(log) + Posting < load.logs /\ log' = log
  BY <1>1, StartSends
<1>3. PICK j \in 1 .. load.sends, t \in Sends : send' = [send EXCEPT ![d][j] = t]
  BY <1>1, StartSends
<1>4. Waiting' \subseteq Waiting \cup {<<d, j>>}
  BY <1>1, <1>3, WaitingIs
<1>5. Posting = Cardinality(Waiting) /\ IsFiniteSet(Waiting) /\ Posting \in Nat
  BY <1>1, PostingIs DEF ServerShape
<1>6. /\ IsFiniteSet(Waiting \cup {<<d, j>>})
      /\ Cardinality(Waiting \cup {<<d, j>>}) \in {Cardinality(Waiting), Cardinality(Waiting) + 1}
  BY <1>5, FS_AddElement
<1>7. Cardinality(Waiting') \in Nat /\ Cardinality(Waiting') <= Cardinality(Waiting) + 1
  <2>1. Cardinality(Waiting') <= Cardinality(Waiting \cup {<<d, j>>}) /\ IsFiniteSet(Waiting')
    BY <1>4, <1>6, FS_Subset
  <2>. QED  BY <1>5, <1>6, <2>1, FS_CardinalityType
<1>8. Posting' = Cardinality(Waiting')
  BY DEF Posting, Waiting
<1>9. Len(log) \in Nat /\ load.logs \in Nat
  BY <1>1, RowsAre, LoadIs DEF ServerShape
<1>. QED  BY <1>1, <1>2, <1>5, <1>7, <1>8, <1>9 DEF HasRoom

LEMMA RoomStep ==
  ASSUME Shape, [Next]_vars
  PROVE  HasRoom'
<1>0. ServerShape /\ SendShape /\ HasRoom /\ ServerShape' /\ Extends /\ load' = load
  BY ServerStep DEF Shape, Extends
<1>1. CASE UNCHANGED <<log, send>>
  BY <1>0, <1>1, RoomStays DEF Waiting
<1>2. ASSUME NEW d \in Device, Nudged(d) \/ HideRemoved(d) PROVE HasRoom'
  BY <1>1, <1>2 DEF Nudged, HideRemoved
<1>3. ASSUME NEW d \in Device, CatchUp(d) \/ Subscribe(d) PROVE HasRoom'
  BY <1>1, <1>3 DEF CatchUp, Subscribe
<1>4. ASSUME NEW d \in Device, NEW i \in DOMAIN pull[d], PullServed(d, i) \/ Read(d, i) \/ Store(d, i)
      PROVE  HasRoom'
  BY <1>1, <1>4 DEF PullServed, Read, Store
<1>5. ASSUME NEW d \in Device, Connect(d) \/ Rotate(d) \/ Grant(d) \/ Kick(d) \/ Rejoin(d) PROVE HasRoom'
  BY <1>1, <1>5 DEF Connect, Rotate, Grant, Kick, Rejoin
<1>6. ASSUME NEW s \in Seqs, RemoveMessage(s) PROVE HasRoom'
  BY <1>1, <1>6 DEF RemoveMessage
<1>7. CASE Attest \/ UNCHANGED vars
  BY <1>1, <1>7 DEF Attest
<1>8. ASSUME NEW d \in Device, Acked(d) PROVE HasRoom'
  <2>1. PICK j : j = Head(inbox[d]).slot
    OBVIOUS
  <2>2. log' = log /\ Done(d, j) /\ j \in 1 .. load.sends /\ send[d][j].step = "reply"
    BY <1>0, <1>8, <2>1, AckAt DEF Acked
  <2>3. PICK t \in Sends : send' = [send EXCEPT ![d][j] = t] /\ t.step \in {"none", "erase"}
    BY <1>0, <2>2, DoneIs, NoSend
  <2>4. Waiting' \subseteq Waiting
    BY <1>0, <2>2, <2>3, WaitingIs
  <2>. QED  BY <1>0, <2>2, <2>4, RoomStays
<1>9. ASSUME NEW d \in Device, NEW j \in DOMAIN send[d], GiveUp(d, j) \/ Erase(d, j) PROVE HasRoom'
  <2>1. log' = log /\ j \in 1 .. load.sends
    BY <1>0, <1>9 DEF GiveUp, Erase, SendShape
  <2>2. PICK t : send' = [send EXCEPT ![d][j] = t] /\ t.step \in {"none", "erase"}
    <3>1. CASE GiveUp(d, j)
      BY <1>0, <2>1, <3>1, DoneIs, NoSend DEF GiveUp
    <3>2. CASE Erase(d, j)
      BY <3>2, NoSend DEF Erase
    <3>. QED  BY <1>9, <3>1, <3>2
  <2>3. Waiting' \subseteq Waiting
    BY <1>0, <2>1, <2>2, WaitingIs
  <2>. QED  BY <1>0, <2>1, <2>3, RoomStays
<1>10. ASSUME NEW d \in Device, Disconnect(d) \/ Close(d) PROVE HasRoom'
  <2>1. log' = log /\ send \in [Device -> [1 .. load.sends -> Sends]]
    BY <1>0, <1>10 DEF Disconnect, Close, SendShape
  <2>2. PICK tasks : send' = [send EXCEPT ![d] = tasks] /\ \A j \in 1 .. load.sends : tasks[j].step # "post"
    <3>1. CASE Disconnect(d)
      <4>1. PICK tasks : tasks = [j \in DOMAIN send[d] |->
               IF send[d][j].step \in {"post", "reply"} THEN [send[d][j] EXCEPT !.step = "failed"] ELSE send[d][j]]
        OBVIOUS
      <4>2. send' = [send EXCEPT ![d] = tasks]
        BY <2>1, <3>1, <4>1 DEF Disconnect
      <4>3. ASSUME NEW j \in 1 .. load.sends, tasks[j].step = "post" PROVE FALSE
        <5>1. tasks[j] = [send[d][j] EXCEPT !.step = "failed"] /\ send[d][j] # NoTask
          BY <2>1, <4>1, <4>3, NoSend
        <5>. QED  BY <1>0, <4>3, <5>1, TaskAt
      <4>. QED  BY <4>2, <4>3
    <3>2. CASE Close(d)
      <4>1. PICK tasks : tasks = [j \in DOMAIN send[d] |-> NoTask]
        OBVIOUS
      <4>2. send' = [send EXCEPT ![d] = tasks]
        BY <2>1, <3>2, <4>1 DEF Close
      <4>3. \A j \in 1 .. load.sends : tasks[j].step # "post"
        BY <2>1, <4>1, NoSend
      <4>. QED  BY <4>2, <4>3
    <3>. QED  BY <1>10, <3>1, <3>2
  <2>3. \A e \in Device : send'[e] = IF e = d THEN tasks ELSE send[e]
    BY <2>1, <2>2
  <2>4. Waiting' = {p \in Device \X (1 .. load.sends) : send'[p[1]][p[2]].step = "post"}
    BY <1>0 DEF Waiting
  <2>5. Waiting' \subseteq Waiting
    BY <2>2, <2>3, <2>4 DEF Waiting
  <2>. QED  BY <1>0, <2>1, <2>5, RoomStays
<1>. QED  BY <1>0, <1>2, <1>3, <1>4, <1>5, <1>6, <1>7, <1>8, <1>9, <1>10, PostRoom, StartRoom
          DEF Next, Works, Hears, Shape

LEMMA ShapeStep == Shape /\ [Next]_vars => Shape'
BY ServerStep, KeyStep, StoreStep, PullStep, SendStep, RoomStep DEF Shape

LEMMA InitShape == Init => Shape
<1> SUFFICES ASSUME Init PROVE Shape
  OBVIOUS
<1>1. /\ load \in Loads /\ log = << >> /\ gone = {} /\ inside = Device /\ attested = Device /\ keyEpoch = 0
      /\ grant = [d \in Device |-> {0}] /\ held = [d \in Device |-> {0}]
      /\ inbox = [d \in Device |-> << >>] /\ cursor = [d \in Device |-> 0]
      /\ seen = [d \in Device |-> [x \in Device |-> 0]] /\ sent = [d \in Device |-> 0]
      /\ shown = [d \in Device |-> [s \in Seqs |-> NoEntry]] /\ stored = shown
      /\ pull = [d \in Device |-> [i \in 1 .. load.pulls |-> NoTask]]
      /\ send = [d \in Device |-> [j \in 1 .. load.sends |-> NoTask]]
  BY DEF Init
<1>2. ServerShape
  BY <1>1, Constants DEF ServerShape
<1>3. KeyShape
  BY <1>1 DEF KeyShape
<1>4. StoreShape
  BY <1>1, EntriesAre DEF StoreShape
<1>5. PullShape
  BY <1>1, PullTasks DEF PullShape, PullFits
<1>6. SendShape
  <2>1. send \in [Device -> [1 .. load.sends -> Sends]] /\ inbox \in [Device -> Seq(Events)]
    BY <1>1, NoSend
  <2>2. ASSUME NEW d \in Device PROVE Own(d, send[d]) /\ BoxFits(log, inbox[d], send[d])
    <3>1. inbox[d] = << >> /\ \A j \in DOMAIN send[d] : send[d][j] = NoTask
      BY <1>1
    <3>. QED  BY <3>1 DEF Own, BoxFits
  <2>. QED  BY <2>1, <2>2 DEF SendShape
<1>7. HasRoom
  <2>1. Waiting = {}
    BY <1>1, NoSend DEF Waiting
  <2>2. Posting = 0 /\ load.logs \in Nat
    BY <1>1, <2>1, PostingIs, FS_EmptySet, LoadIs
  <2>. QED  BY <1>1, <2>2 DEF HasRoom
<1>. QED  BY <1>2, <1>3, <1>4, <1>5, <1>6, <1>7 DEF Shape

-----------------------------------------------------------------------------
(* No gaps: what is behind the cursor *)

LEMMA ExplainedStays ==
  ASSUME ServerShape, Extends, NEW d, NEW s \in DOMAIN log, Explained(d, s)
  PROVE  Explained(d, s)'
<1>1. \A t \in DOMAIN log : t \in DOMAIN log' /\ log'[t] = log[t]
  BY DEF Extends
<1>. QED  BY <1>1 DEF Explained

LEMMA SureStays ==
  ASSUME Shape, [Next]_vars, ~May("close"), NEW d \in Device, NEW s \in DOMAIN log, Sure(d, s)
  PROVE  Sure(d, s)'
<1>1. Extends /\ Learns /\ Marks /\ ServerShape /\ KeyShape
  BY ServerStep, KeyStep, StoreStep DEF Shape
<1>2. log'[s] = log[s] /\ s \in Seqs /\ log[s].epoch \in Nat
  BY <1>1, RowsFit, RowsAre DEF Shape, Extends
<1>3. CASE log[s].kind # "text"
  BY <1>2, <1>3 DEF Sure
<1>4. CASE Kept(shown[d][s])
  BY <1>1, <1>2, <1>4 DEF Sure, Marks, Retains
<1>5. CASE log[s].epoch \notin held[d] /\ \E e \in held[d] : e > log[s].epoch
  <2>1. PICK n \in Nat : n = log[s].epoch
    BY <1>2
  <2>2. PICK e \in held[d] : e > n
    BY <1>5, <2>1
  <2>3. keyEpoch \in Nat /\ e \in Nat /\ e <= keyEpoch
    BY <1>1, Constants DEF ServerShape, KeyShape
  <2>4. e \in held'[d] /\ n \notin held'[d]
    BY <1>1, <1>5, <2>1, <2>2, <2>3 DEF Learns
  <2>. QED  BY <1>2, <2>1, <2>2, <2>4 DEF Sure
<1>6. CASE Explained(d, s)
  BY <1>1, <1>6, ExplainedStays DEF Sure
<1>. QED  BY <1>3, <1>4, <1>5, <1>6 DEF Sure

(* What is about to be stored waits for that. *)
LEMMA StoreWaits ==
  ASSUME Shape, [Next]_vars, ~May("close"), NEW d \in Device, NEW i \in 1 .. load.pulls,
         pull[d][i].step = "store"
  PROVE  pull'[d][i] = pull[d][i] \/ Store(d, i)
<1>1. pull \in [Device -> [1 .. load.pulls -> Pulls]]
  BY DEF Shape, PullShape
<1>2. CASE pull' = pull
  BY <1>2
<1>3. ASSUME NEW e \in Device, NEW k \in 1 .. load.pulls, pull[e][k].step # "store",
             \E p : pull' = [pull EXCEPT ![e][k] = p]
      PROVE  pull'[d][i] = pull[d][i]
  BY <1>1, <1>3
<1>4. ASSUME NEW e \in Device, Nudged(e) \/ CatchUp(e) PROVE pull'[d][i] = pull[d][i]
  <2>1. PICK k \in 1 .. load.pulls : pull[e][k] = NoTask /\ \E p : pull' = [pull EXCEPT ![e][k] = p]
    BY <1>1, <1>4 DEF Nudged, CatchUp, StartPull
  <2>. QED  BY <1>3, <2>1, PullTasks
<1>5. ASSUME NEW e \in Device, NEW k \in DOMAIN pull[e], PullServed(e, k) PROVE pull'[d][i] = pull[d][i]
  <2>1. k \in 1 .. load.pulls /\ pull[e][k].step = "ask"
    BY <1>1, <1>5 DEF PullServed
  <2>2. PICK p : pull' = [pull EXCEPT ![e][k] = p]
    BY <1>5 DEF PullServed
  <2>. QED  BY <1>3, <2>1, <2>2
<1>6. ASSUME NEW e \in Device, NEW k \in DOMAIN pull[e], Read(e, k) PROVE pull'[d][i] = pull[d][i]
  <2>1. k \in 1 .. load.pulls /\ pull[e][k].step = "read"
    BY <1>1, <1>6 DEF Read
  <2>2. PICK p : pull' = [pull EXCEPT ![e][k] = p]
    BY <1>6 DEF Read, Next1
  <2>. QED  BY <1>3, <2>1, <2>2
<1>7. ASSUME NEW e \in Device, NEW k \in DOMAIN pull[e], Store(e, k)
      PROVE  pull'[d][i] = pull[d][i] \/ Store(d, i)
  <2>1. k \in 1 .. load.pulls
    BY <1>1
  <2>2. PICK p : pull' = [pull EXCEPT ![e][k] = p]
    BY <1>7 DEF Store, Next1
  <2>3. CASE e = d /\ k = i
    BY <1>7, <2>3
  <2>4. CASE ~(e = d /\ k = i)
    BY <1>1, <2>1, <2>2, <2>4
  <2>. QED  BY <2>3, <2>4
<1>8. ASSUME NEW e \in Device, Acked(e) \/ HideRemoved(e) \/ Subscribe(e) PROVE pull'[d][i] = pull[d][i]
  BY <1>2, <1>8 DEF Acked, HideRemoved, Subscribe
<1>9. ASSUME NEW e \in Device, NEW j \in DOMAIN send[e], Post(e, j) \/ GiveUp(e, j) \/ Erase(e, j)
      PROVE  pull'[d][i] = pull[d][i]
  BY <1>2, <1>9 DEF Post, GiveUp, Erase
<1>10. ASSUME NEW e \in Device, SendStart(e) \/ Connect(e) \/ Disconnect(e) PROVE pull'[d][i] = pull[d][i]
  BY <1>2, <1>10 DEF SendStart, Connect, Disconnect
<1>11. ASSUME NEW e \in Device, Rotate(e) \/ Grant(e) \/ Kick(e) \/ Rejoin(e) PROVE pull'[d][i] = pull[d][i]
  BY <1>2, <1>11 DEF Rotate, Grant, Kick, Rejoin
<1>12. ASSUME NEW s \in Seqs, RemoveMessage(s) PROVE pull'[d][i] = pull[d][i]
  BY <1>2, <1>12 DEF RemoveMessage
<1>13. CASE Attest \/ UNCHANGED vars
  BY <1>2, <1>13 DEF Attest
<1>. QED  BY <1>4, <1>5, <1>6, <1>7, <1>8, <1>9, <1>10, <1>11, <1>12, <1>13 DEF Next, Works, Hears, Close

LEMMA StoringStays ==
  ASSUME Shape, [Next]_vars, ~May("close"), NEW d \in Device, NEW s, Storing(pull[d], s)
  PROVE  \/ Storing(pull'[d], s)
         \/ s <= cursor'[d] /\ (log[s].kind = "text" => Kept(shown'[d][s]))
<1>1. DOMAIN pull[d] = 1 .. load.pulls /\ DOMAIN pull'[d] = 1 .. load.pulls
  <2>1. pull \in [Device -> [1 .. load.pulls -> Pulls]] /\ load' = load
    BY ServerStep DEF Shape, PullShape, Extends
  <2>2. pull' \in [Device -> [1 .. load'.pulls -> Pulls]]
    BY PullStep DEF PullShape
  <2>. QED  BY <2>1, <2>2
<1>2. PICK i \in 1 .. load.pulls : pull[d][i].step = "store" /\ First(pull[d][i].todo) = s
  BY <1>1 DEF Storing
<1>3. CASE pull'[d][i] = pull[d][i]
  BY <1>1, <1>2, <1>3 DEF Storing
<1>4. CASE Store(d, i)
  BY <1>1, <1>2, <1>4, StoreStores
<1>. QED  BY <1>2, <1>3, <1>4, StoreWaits

(* Only the device's own reads, stores and acks move its cursor, or what it  *)
(* has seen.                                                                 *)
LEMMA WhoMarks ==
  ASSUME Shape, [Next]_vars, NEW d \in Device, cursor'[d] # cursor[d] \/ seen'[d] # seen[d]
  PROVE  Acked(d) \/ \E i \in DOMAIN pull[d] : Read(d, i) \/ Store(d, i)
<1>1. cursor \in [Device -> 0 .. Len(log)] /\ seen \in [Device -> [Device -> Nat]]
  BY DEF Shape, StoreShape
<1>2. ASSUME NEW e \in Device, e # d, cursor' = cursor \/ \E s : cursor' = Past(e, s),
             seen' = seen \/ \E x, n : seen' = [seen EXCEPT ![e][x] = n]
      PROVE  FALSE
  BY <1>1, <1>2 DEF Past
<1>3. CASE UNCHANGED <<cursor, seen>>
  BY <1>3
<1>4. ASSUME NEW e \in Device, Acked(e), e # d PROVE FALSE
  BY <1>2, <1>4 DEF Acked
<1>5. ASSUME NEW e \in Device, NEW i \in DOMAIN pull[e], Read(e, i), e # d PROVE FALSE
  <2>1. cursor' = cursor \/ \E s : cursor' = Past(e, s)
    BY <1>5 DEF Read
  <2>2. seen' = seen \/ \E x, n : seen' = [seen EXCEPT ![e][x] = n]
    BY <1>5 DEF Read
  <2>. QED  BY <1>2, <1>5, <2>1, <2>2
<1>6. ASSUME NEW e \in Device, NEW i \in DOMAIN pull[e], Store(e, i), e # d PROVE FALSE
  BY <1>2, <1>6 DEF Store
<1>7. ASSUME NEW e \in Device, Nudged(e) \/ HideRemoved(e) \/ CatchUp(e) \/ Subscribe(e) PROVE FALSE
  BY <1>3, <1>7 DEF Nudged, HideRemoved, CatchUp, Subscribe
<1>8. ASSUME NEW e \in Device, NEW i \in DOMAIN pull[e], PullServed(e, i) PROVE FALSE
  BY <1>3, <1>8 DEF PullServed
<1>9. ASSUME NEW e \in Device, NEW j \in DOMAIN send[e], Post(e, j) \/ GiveUp(e, j) \/ Erase(e, j)
      PROVE  FALSE
  BY <1>3, <1>9 DEF Post, GiveUp, Erase
<1>10. ASSUME NEW e \in Device, SendStart(e) \/ Connect(e) \/ Disconnect(e) \/ Close(e) PROVE FALSE
  BY <1>3, <1>10 DEF SendStart, Connect, Disconnect, Close
<1>11. ASSUME NEW e \in Device, Rotate(e) \/ Grant(e) \/ Kick(e) \/ Rejoin(e) PROVE FALSE
  BY <1>3, <1>11 DEF Rotate, Grant, Kick, Rejoin
<1>12. ASSUME NEW s \in Seqs, RemoveMessage(s) PROVE FALSE
  BY <1>3, <1>12 DEF RemoveMessage
<1>13. CASE Attest \/ UNCHANGED vars
  BY <1>3, <1>13 DEF Attest
<1>. QED  BY <1>4, <1>5, <1>6, <1>7, <1>8, <1>9, <1>10, <1>11, <1>12, <1>13 DEF Next, Works, Hears

(* A sender's number that is not above the one seen: the row is explained,   *)
(* or about to be stored by another pull.                                    *)
LEMMA Heard ==
  ASSUME Shape, NEW d \in Device, NEW s \in DOMAIN log \ gone, s > cursor[d],
         Witnessed(d, log[s].by), ~Unheard(d, log[s])
  PROVE  Explained(d, s) \/ Storing(pull[d], s)
<1>1. ServerShape /\ StoreShape /\ PullShape
  BY DEF Shape
<1>2. PICK x \in Device, n \in Nat \ {0} : x = log[s].by /\ n = log[s].sn
  BY <1>1, RowsAre
<1>3. seen[d][x] \in Nat /\ n <= seen[d][x]
  BY <1>1, <1>2 DEF StoreShape, Unheard
<1>4. PICK t \in DOMAIN log : /\ log[t].by = x /\ log[t].sn = seen[d][x]
                              /\ t <= cursor[d] \/ Storing(pull[d], t)
  BY <1>2, <1>3 DEF Witnessed
<1>5. t \in Nat /\ s \in Nat /\ cursor[d] \in Nat
  BY <1>1, RowsAre DEF StoreShape
<1>6. CASE t < s
  BY <1>2, <1>3, <1>4, <1>6 DEF Explained
<1>7. CASE t = s
  BY <1>4, <1>5, <1>7
<1>8. CASE t > s
  <2>1. PICK i \in DOMAIN pull[d] : pull[d][i].step = "store" /\ First(pull[d][i].todo) = t
    BY <1>4, <1>5, <1>8 DEF Storing
  <2>2. t \in pull[d][i].todo /\ i \in 1 .. load.pulls /\ \A e \in pull[d][i].todo : t <= e
    BY <1>1, <2>1, PullAt
  <2>3. PullFits(cursor[d], pull[d][i])
    BY <1>1, <2>2 DEF PullShape
  <2>4. s <= cursor[d] \/ s \in pull[d][i].todo
    BY <1>5, <1>8, <2>1, <2>2, <2>3 DEF PullFits
  <2>. QED  BY <1>5, <1>8, <2>2, <2>4
<1>. QED  BY <1>5, <1>6, <1>7, <1>8

(* The one row that a pull takes the cursor over. *)
LEMMA OneRow ==
  ASSUME Shape, NEW d \in Device, NEW i \in DOMAIN pull[d], pull[d][i].step \in {"read", "store"},
         cursor' = Past(d, First(pull[d][i].todo)),
         NEW s \in DOMAIN log \ gone, s > cursor[d], s <= cursor'[d]
  PROVE  s = First(pull[d][i].todo)
<1>1. ServerShape /\ StoreShape /\ PullShape
  BY DEF Shape
<1>2. PICK c, q : c = First(q.todo) /\ q = pull[d][i]
  OBVIOUS
<1>3. c \in q.todo /\ c \in 1 .. Len(log) /\ Len(log) \in Nat /\ i \in 1 .. load.pulls
      /\ \A e \in q.todo : c <= e
  BY <1>1, <1>2, PullAt, RowsAre
<1>4. cursor'[d] = c \/ cursor'[d] = cursor[d]
  BY <1>1, <1>2, <1>3, PastIs
<1>5. s \in Nat /\ cursor[d] \in Nat
  BY <1>1, RowsAre DEF StoreShape
<1>6. s <= c
  BY <1>3, <1>4, <1>5
<1>7. PullFits(cursor[d], q)
  BY <1>1, <1>2, <1>3 DEF PullShape
<1>8. s \in q.todo
  BY <1>2, <1>3, <1>5, <1>6, <1>7 DEF PullFits
<1>. QED  BY <1>2, <1>3, <1>5, <1>6, <1>8

LEMMA ReadPasses ==
  ASSUME Shape, Gapless, Calm, [Next]_vars, NEW d \in Device, NEW i \in DOMAIN pull[d], Read(d, i),
         NEW s \in DOMAIN log \ gone, s > cursor[d], s <= cursor'[d]
  PROVE  Passed(d, s)'
<1>1. ServerShape /\ KeyShape /\ StoreShape /\ KeyShape' /\ Learns /\ Extends
  BY ServerStep, KeyStep DEF Shape
<1>2. PICK c : c = First(pull[d][i].todo)
  OBVIOUS
<1>3. cursor[d] \in Nat /\ s \in Nat /\ cursor'[d] # cursor[d]
  BY <1>1, RowsAre DEF StoreShape
<1>4. pull[d][i].step = "read" /\ cursor' = Past(d, c)
  BY <1>2, <1>3 DEF Read
<1>5. c = s
  BY <1>2, <1>4, OneRow
<1>6. log' = log /\ log[s].by \in Device /\ log[s].epoch \in Nat
  BY <1>1, RowsAre DEF Read
<1>7. \/ log[s].epoch \in held'[d] /\ ~(Vouched(d, log[s].by) /\ Unheard(d, log[s]))
      \/ log[s].epoch \notin held'[d] /\ Hopeless(d, log[s].epoch)
  BY <1>2, <1>3, <1>5 DEF Read
<1>8. CASE log[s].epoch \notin held'[d] /\ Hopeless(d, log[s].epoch)
  <2>1. keyEpoch \in Nat /\ held[d] \in SUBSET (0 .. keyEpoch) /\ held[d] # {} /\ log[s].epoch < Newest(held[d])
    BY <1>1, <1>8, Constants DEF ServerShape, KeyShape, Hopeless
  <2>2. Newest(held[d]) \in held[d] /\ Newest(held[d]) \in Nat
    <3>1. Newest(held[d]) \in held[d]
      BY <2>1, NewestIs
    <3>. QED  BY <2>1, <3>1
  <2>3. Newest(held[d]) \in held'[d] /\ Newest(held[d]) > log[s].epoch
    BY <1>1, <1>6, <2>1, <2>2 DEF Learns
  <2>. QED  BY <1>6, <1>8, <2>3 DEF Passed, Sure
<1>9. CASE log[s].epoch \in held'[d] /\ ~(Vouched(d, log[s].by) /\ Unheard(d, log[s]))
  <2>1. ~Unheard(d, log[s]) /\ Witnessed(d, log[s].by)
    BY <1>6, <1>9 DEF Gapless, Vouched
  <2>2. Explained(d, s) \/ Storing(pull[d], s)
    BY <2>1, Heard
  <2>3. CASE Explained(d, s)
    BY <1>1, <2>3, ExplainedStays DEF Passed, Sure
  <2>4. CASE Storing(pull[d], s)
    <3>1. Storing(pull'[d], s) \/ (log[s].kind = "text" => Kept(shown'[d][s]))
      BY <2>4, StoringStays DEF Calm
    <3>. QED  BY <1>6, <3>1 DEF Passed, Sure
  <2>. QED  BY <2>2, <2>3, <2>4
<1>. QED  BY <1>7, <1>8, <1>9

LEMMA StorePasses ==
  ASSUME Shape, NEW d \in Device, NEW i \in DOMAIN pull[d], Store(d, i),
         NEW s \in DOMAIN log \ gone, s > cursor[d], s <= cursor'[d]
  PROVE  Passed(d, s)'
<1>1. PICK c : c = First(pull[d][i].todo)
  OBVIOUS
<1>2. pull[d][i].step = "store" /\ cursor' = Past(d, c) /\ log' = log
  BY <1>1 DEF Store
<1>3. c = s
  BY <1>1, <1>2, OneRow
<1>4. log[s].kind = "text" => Kept(shown'[d][s])
  BY <1>1, <1>3, StoreStores
<1>. QED  BY <1>2, <1>4 DEF Passed, Sure

LEMMA AckPasses ==
  ASSUME Shape, NEW d \in Device, Acked(d), NEW s \in DOMAIN log, s > cursor[d], s <= cursor'[d]
  PROVE  Passed(d, s)'
<1>1. ServerShape /\ StoreShape /\ log' = log
  BY DEF Shape, Acked
<1>2. PICK c : c = Head(inbox[d]).seq
  OBVIOUS
<1>3. cursor' = Past(d, c) /\ c \in DOMAIN log /\ log[c].by = d /\ (log[c].kind = "text" => Kept(shown'[d][c]))
  BY <1>2, AckStores
<1>4. c \in 1 .. Len(log) /\ Len(log) \in Nat /\ s \in Nat /\ cursor[d] \in Nat
  BY <1>1, <1>3, RowsAre DEF StoreShape
<1>5. cursor'[d] = c \/ cursor'[d] = cursor[d]
  BY <1>1, <1>3, <1>4, PastIs
<1>6. s <= c
  BY <1>4, <1>5
<1>7. CASE s = c
  BY <1>1, <1>3, <1>7 DEF Passed, Sure
<1>8. CASE s < c
  BY <1>1, <1>3, <1>8 DEF Passed, Sure, Explained
<1>. QED  BY <1>4, <1>6, <1>7, <1>8

LEMMA NewlySeen ==
  ASSUME Shape, NEW d \in Device, NEW x \in Device, seen'[d][x] # seen[d][x],
         Acked(d) \/ \E i \in DOMAIN pull[d] : Read(d, i)
  PROVE  Witnessed(d, x)'
<1>1. ServerShape /\ StoreShape /\ PullShape /\ seen \in [Device -> [Device -> Nat]]
  BY DEF Shape, StoreShape
<1>2. CASE Acked(d)
  <2>1. PICK c : c = Head(inbox[d]).seq
    OBVIOUS
  <2>2. /\ cursor' = Past(d, c) /\ c \in DOMAIN log /\ log[c].by = d /\ log' = log
        /\ seen' = [seen EXCEPT ![d][d] = log[c].sn]
    BY <1>2, <2>1, AckStores DEF Acked
  <2>3. x = d /\ seen'[d][x] = log[c].sn
    BY <1>1, <2>2
  <2>4. c <= cursor'[d]
    BY <1>1, <2>2, RowsAre, PastIs
  <2>. QED  BY <2>2, <2>3, <2>4 DEF Witnessed
<1>3. ASSUME NEW i \in DOMAIN pull[d], Read(d, i) PROVE Witnessed(d, x)'
  <2>1. PICK s, y : s = First(pull[d][i].todo) /\ y = log[s].by
    OBVIOUS
  <2>2. /\ seen' = [seen EXCEPT ![d][y] = log[s].sn] /\ log' = log
        /\ pull' = [pull EXCEPT ![d][i].step = "store"]
    BY <1>3, <2>1 DEF Read
  <2>3. /\ s \in DOMAIN log /\ i \in 1 .. load.pulls /\ pull[d][i] \in Pulls /\ pull[d][i] # NoTask
    BY <1>1, <1>3, <2>1, PullAt DEF Read
  <2>4. x = y /\ seen'[d][x] = log[s].sn
    BY <1>1, <2>1, <2>2, <2>3, RowsAre
  <2>5. PICK q, p : q = pull[d][i] /\ p = [q EXCEPT !.step = "store"]
    OBVIOUS
  <2>6. p.step = "store" /\ p.todo = q.todo
    <3>1. q \in [step : {"ask", "read", "store"}, after : Nat, todo : SUBSET Nat]
      BY <2>3, <2>5 DEF Pulls
    <3>. QED  BY <2>5, <3>1
  <2>7. pull'[d][i] = p /\ i \in DOMAIN pull'[d]
    <3>1. pull \in [Device -> [1 .. load.pulls -> Pulls]] /\ pull' = [pull EXCEPT ![d][i] = p]
      BY <1>1, <2>2, <2>5 DEF PullShape
    <3>. QED  BY <2>3, <3>1
  <2>8. Storing(pull'[d], s)
    BY <2>1, <2>5, <2>6, <2>7 DEF Storing
  <2>. QED  BY <2>1, <2>2, <2>3, <2>4, <2>8 DEF Witnessed
<1>. QED  BY <1>2, <1>3

LEMMA GapStep ==
  ASSUME Shape, Gapless, [Next]_vars
  PROVE  Gapless'
<1>0. /\ ServerShape /\ StoreShape /\ Extends /\ load' = load /\ Marks /\ StoreShape' /\ ServerShape'
  BY ServerStep, StoreStep DEF Shape, Extends
<1> SUFFICES ASSUME Calm PROVE Gapless'
  BY <1>0 DEF Gapless, Calm, May
<1>1. attested' = Device
  <2>1. attested = Device
    BY DEF Gapless
  <2>2. ASSUME NEW e \in Device, Hears(e) \/ CatchUp(e) \/ Subscribe(e) PROVE attested' = attested
    BY <2>2 DEF Hears, Nudged, Acked, HideRemoved, CatchUp, Subscribe
  <2>3. ASSUME NEW e \in Device, NEW i \in DOMAIN pull[e], PullServed(e, i) \/ Read(e, i) \/ Store(e, i)
        PROVE  attested' = attested
    BY <2>3 DEF PullServed, Read, Store
  <2>4. ASSUME NEW e \in Device, NEW j \in DOMAIN send[e], Post(e, j) \/ GiveUp(e, j) \/ Erase(e, j)
        PROVE  attested' = attested
    BY <2>4 DEF Post, GiveUp, Erase
  <2>5. ASSUME NEW e \in Device, SendStart(e) \/ Connect(e) \/ Disconnect(e) \/ Close(e)
        PROVE  attested' = attested
    BY <2>5 DEF SendStart, Connect, Disconnect, Close
  <2>6. ASSUME NEW e \in Device, Rotate(e) \/ Grant(e) \/ Kick(e) \/ Rejoin(e) PROVE attested' = attested
    BY <2>6 DEF Rotate, Grant, Kick, Rejoin
  <2>7. ASSUME NEW s \in Seqs, RemoveMessage(s) PROVE attested' = attested
    BY <2>7 DEF RemoveMessage
  <2>8. CASE UNCHANGED vars
    BY <2>1, <2>8
  <2>9. ~Attest
    BY DEF Attest, Calm
  <2>. QED  BY <2>1, <2>2, <2>3, <2>4, <2>5, <2>6, <2>7, <2>8, <2>9 DEF Next, Works
<1>2. ASSUME NEW d \in Device, NEW s \in (1 .. cursor'[d]) \ gone' PROVE Passed(d, s)'
  <2>1. /\ cursor[d] \in 0 .. Len(log) /\ cursor'[d] \in 0 .. Len(log') /\ s \in Nat /\ s \notin gone
        /\ DOMAIN log = 1 .. Len(log) /\ Len(log) \in Nat
    BY <1>0, RowsAre DEF StoreShape, Extends, ServerShape
  <2>2. CASE s <= cursor[d]
    <3>1. Passed(d, s) /\ s \in DOMAIN log
      BY <2>1, <2>2 DEF Gapless
    <3>2. CASE Sure(d, s)
      BY <3>1, <3>2, SureStays DEF Passed, Calm
    <3>3. CASE Storing(pull[d], s)
      <4>1. Storing(pull'[d], s) \/ (log[s].kind = "text" => Kept(shown'[d][s]))
        BY <3>3, StoringStays DEF Calm
      <4>2. log'[s] = log[s]
        BY <1>0, <3>1 DEF Extends
      <4>. QED  BY <4>1, <4>2 DEF Passed, Sure
    <3>. QED  BY <3>1, <3>2, <3>3 DEF Passed
  <2>3. CASE s > cursor[d]
    <3>1. cursor'[d] # cursor[d]
      BY <2>1, <2>3
    <3>2. Acked(d) \/ \E i \in DOMAIN pull[d] : Read(d, i) \/ Store(d, i)
      BY <3>1, WhoMarks
    <3>3. log' = log
      BY <3>2 DEF Acked, Read, Store
    <3>4. s \in DOMAIN log \ gone
      BY <2>1, <3>3
    <3>. QED  BY <2>3, <3>2, <3>4, ReadPasses, StorePasses, AckPasses
  <2>. QED  BY <2>1, <2>2, <2>3
<1>3. ASSUME NEW d \in Device, NEW x \in Device PROVE Witnessed(d, x)'
  <2>1. CASE seen'[d][x] = seen[d][x]
    <3>1. SUFFICES ASSUME seen'[d][x] # 0
                   PROVE  \E t \in DOMAIN log' : /\ log'[t].by = x /\ log'[t].sn = seen'[d][x]
                                                 /\ t <= cursor'[d] \/ Storing(pull'[d], t)
      BY DEF Witnessed
    <3>2. PICK t \in DOMAIN log : /\ log[t].by = x /\ log[t].sn = seen[d][x]
                                  /\ t <= cursor[d] \/ Storing(pull[d], t)
      BY <2>1, <3>1 DEF Gapless, Witnessed
    <3>3. t \in DOMAIN log' /\ log'[t] = log[t] /\ t \in Nat
      BY <1>0, <3>2, RowsAre DEF Extends
    <3>4. t <= cursor'[d] \/ Storing(pull'[d], t)
      <4>1. CASE Storing(pull[d], t)
        BY <4>1, StoringStays DEF Calm
      <4>2. CASE t <= cursor[d]
        BY <1>0, <3>3, <4>2 DEF Marks, StoreShape
      <4>. QED  BY <3>2, <4>1, <4>2
    <3>. QED  BY <2>1, <3>2, <3>3, <3>4
  <2>2. CASE seen'[d][x] # seen[d][x]
    <3>1. Acked(d) \/ \E i \in DOMAIN pull[d] : Read(d, i) \/ Store(d, i)
      BY <2>2, WhoMarks
    <3>2. ASSUME NEW i \in DOMAIN pull[d], Store(d, i) PROVE FALSE
      BY <2>2, <3>2 DEF Store
    <3>. QED  BY <2>2, <3>1, <3>2, NewlySeen
  <2>. QED  BY <2>1, <2>2
<1>. QED  BY <1>1, <1>2, <1>3 DEF Gapless

LEMMA InitGapless == Init => Gapless
<1> SUFFICES ASSUME Init PROVE Gapless
  OBVIOUS
<1>1. attested = Device /\ \A d \in Device : cursor[d] = 0 /\ \A x \in Device : seen[d][x] = 0
  BY DEF Init
<1>. QED  BY <1>1 DEF Gapless, Witnessed

LEMMA ShapeSuffices == Shape /\ Gapless => GapInvariant
<1> SUFFICES ASSUME Shape, Gapless PROVE GapInvariant
  OBVIOUS
<1>1. ServerShape /\ KeyShape /\ StoreShape /\ PullShape
  BY DEF Shape
<1>2. ChatTypeOK
  <2>1. Len(log) <= MaxLog /\ \A s \in DOMAIN log : log[s].by \in Device
    BY <1>1, RowsFit, RowsAre DEF Shape
  <2>2. \A s \in DOMAIN log : log[s].epoch \in Epochs
    <3>1. \A s \in DOMAIN log : log[s] \in Messages
      BY <1>1, RowsAre
    <3>2. \A m \in Messages : m.epoch \in Epochs
      BY DEF Messages
    <3>. QED  BY <3>1, <3>2
  <2>. QED  BY <1>1, <2>1, <2>2 DEF ChatTypeOK, KeyShape, StoreShape
<1>3. ASSUME Calm, NEW d \in Device, Quiet(d), NEW s \in Lost(d) PROVE Explained(d, s)
  <2>1. /\ s \in DOMAIN log \ gone /\ s <= cursor[d] /\ log[s].kind = "text" /\ log[s].epoch \in held[d]
        /\ ~Kept(shown[d][s])
    BY DEF Lost
  <2>2. s \in 1 .. cursor[d]
    BY <1>1, <2>1, RowsAre DEF StoreShape
  <2>3. Passed(d, s)
    BY <1>3, <2>1, <2>2 DEF Gapless
  <2>4. ~Storing(pull[d], s)
    BY <1>3, PullTasks DEF Quiet, Storing
  <2>. QED  BY <2>1, <2>3, <2>4 DEF Passed, Sure
<1>4. GapsExplained
  BY <1>3 DEF GapsExplained, Calm, Explained
<1>. QED  BY <1>2, <1>4 DEF GapInvariant

(* The stores of a group_key channel stay well-formed, and a text that the   *)
(* device has the key of is passed over for two causes only: an own message  *)
(* acked before older ones were pulled, or a number its sender used before   *)
(* (community-chat.ts pullMessages).  For every number of devices, of        *)
(* messages, of rotations, and for every load.                               *)
THEOREM NoUnexplainedGap == Spec => []GapInvariant
<1>1. Shape /\ Gapless /\ [Next]_vars => (Shape /\ Gapless)'
  BY ShapeStep, GapStep
<1>. QED  BY <1>1, InitShape, InitGapless, ShapeSuffices, PTL DEF Spec
=============================================================================
