-------------------------- MODULE EventFeed_proof --------------------------
(***************************************************************************)
(* Proofs about the way of an event to the dashboards, for any number of   *)
(* threads and panels, any lengths and any number of changes: type         *)
(* correctness, that an event by itself heals every panel, and how long    *)
(* a panel has every entry of the tail.                                    *)
(*                                                                         *)
(* Delivered follows an entry to a panel until the panel is full.  What a  *)
(* full panel loses depends on the order in which entries are sent and on  *)
(* how many are under way: Unique, Consecutive and Close, of the second    *)
(* half of this module, are about these numbers.                           *)
(***************************************************************************)
EXTENDS EventFeed, FiniteSetTheorems, SequenceTheorems, TLAPS

Thread == [pc : {"idle", "log", "snapshot", "ports"},
           entry : Entry \union {0}, row : Row]

Task == [msg : Payload, left : SUBSET Socket, dead : SUBSET Socket]

\* Variables have their types.  Every change makes a new row; a thread within
\* emit has an entry; an initial message is no longer than the tail.
Typed ==
    /\ row = 1 + changes /\ changes \in 0..MaxChanges /\ count \in 0..changes
    /\ buf \in Seq(Entry) /\ Len(buf) <= BufLen
    /\ at \in [Emitter -> Thread]
    /\ \A e \in Emitter : at[e].pc # "idle" => at[e].entry \in Entry
    /\ clients \subseteq Socket /\ open \subseteq Socket /\ wiped \subseteq Socket
    /\ ready \in Seq(Payload)
    /\ tasks \subseteq Task
    /\ endpoint \in [Socket -> {"none", "joined", "greeting", "receiving", "ended"}]
    /\ greeting \in [Socket -> View] /\ view \in [Socket -> View]
    /\ \A s \in Socket : Len(greeting[s].log) <= TailLen /\ Len(view[s].log) <= KeepLen
    /\ clean \in BOOLEAN

\* Who is there is a client; a broadcast gives up only who has gone for good
Reached ==
    /\ open \subseteq clients
    /\ \A s \in clients : endpoint[s] # "none"
    /\ \A t \in tasks : \A s \in t.left : endpoint[s] # "none"
    /\ \A t \in tasks : \A s \in t.dead : endpoint[s] # "none" /\ s \notin open

InGreeting(s, n) == \E i \in DOMAIN greeting[s].log : greeting[s].log[i] = n

Full(s) == Len(view[s].log) = KeepLen

\* A panel has, or will be sent, every entry of the tail, unless it is full.  One
\* that waits for its initial message will have it by that message or after it.
Delivered ==
    \A s \in open \ wiped : \A n \in Entry : InTail(n) =>
        /\ endpoint[s] = "receiving" => InLog(s, n) \/ OnItsWay(n, s) \/ Full(s)
        /\ endpoint[s] = "greeting"  => InGreeting(s, n) \/ OnItsWay(n, s)

\* A message with the ports is yet to be sent to socket s
PortsComing(s) ==
    \/ \E e \in Emitter : at[e].pc # "idle"
    \/ \E i \in DOMAIN ready : ready[i].type = "ports"
    \/ \E t \in tasks : t.msg.type = "ports" /\ s \in t.left

\* After a change with nothing else going on, whatever is under way has the
\* present row, and whoever does not show it will be sent it
Healed ==
    clean =>
        /\ \A e \in Emitter : at[e].pc = "ports" => at[e].row = row
        /\ \A i \in DOMAIN ready : ready[i].type = "ports" => ready[i].row = row
        /\ \A t \in tasks : t.msg.type = "ports" => t.msg.row = row
        /\ \A s \in open \ wiped :
              /\ endpoint[s] = "receiving" => view[s].row = row \/ PortsComing(s)
              /\ endpoint[s] = "greeting"  => greeting[s].row = row \/ PortsComing(s)

IInv == Typed /\ Reached /\ Delivered /\ Healed

-----------------------------------------------------------------------------
(* Sequences, messages, threads and tasks *)

LEMMA LastOfIs ==
    ASSUME NEW S, NEW s \in Seq(S), NEW n \in Nat
    PROVE  /\ LastOf(s, n) \in Seq(S)
           /\ Len(LastOf(s, n)) = IF Len(s) > n THEN n ELSE Len(s)
           /\ \A i \in 1..Len(LastOf(s, n)) :
                 LastOf(s, n)[i] = s[(Len(s) - Len(LastOf(s, n))) + i]
  <1>1. Len(s) \in Nat /\ \A i \in 1..Len(s) : s[i] \in S
    OBVIOUS
  <1>2. CASE Len(s) > n
    <2> DEFINE m == Len(s) - n + 1
               l == SubSeq(s, m, Len(s))
    <2>1. /\ m \in Int /\ Len(s) \in Int
          /\ \A i \in m..Len(s) : s[i] \in S
      BY <1>1, <1>2
    <2> HIDE DEF m
    <2>2. /\ l \in Seq(S) /\ Len(l) = (IF m <= Len(s) THEN Len(s) - m + 1 ELSE 0)
          /\ \A i \in 1..(Len(s) - m + 1) : l[i] = s[m + i - 1]
      BY <2>1, SubSeqProperties
    <2>3. LastOf(s, n) = l
      BY <1>2 DEF LastOf, m
    <2> HIDE DEF l
    <2>4. Len(l) = n
      BY <1>1, <1>2, <2>2 DEF m
    <2>5. ASSUME NEW i \in 1..Len(l)
          PROVE  l[i] = s[(Len(s) - Len(l)) + i]
      <3>1. i \in 1..(Len(s) - m + 1) /\ m + i - 1 = (Len(s) - Len(l)) + i
        BY <1>1, <2>4 DEF m
      <3> QED BY <2>2, <3>1
    <2> QED BY <1>2, <2>2, <2>3, <2>4, <2>5
  <1>3. CASE ~(Len(s) > n)
    <2>1. LastOf(s, n) = s
      BY <1>3 DEF LastOf
    <2> QED BY <1>1, <1>3, <2>1
  <1> QED BY <1>2, <1>3

\* One element more, and as many as fit
LEMMA LastOfAppend ==
    ASSUME NEW s \in Seq(Entry), NEW x \in Entry, NEW n \in Nat \ {0}, Len(s) <= n
    PROVE  /\ LastOf(Append(s, x), n) \in Seq(Entry) /\ Len(LastOf(Append(s, x), n)) <= n
           /\ \E i \in DOMAIN LastOf(Append(s, x), n) : LastOf(Append(s, x), n)[i] = x
           /\ Len(s) < n => LastOf(Append(s, x), n) = Append(s, x)
           /\ Len(s) = n => Len(LastOf(Append(s, x), n)) = n
  <1> DEFINE a == Append(s, x)
             l == LastOf(a, n)
  <1>1. a \in Seq(Entry) /\ Len(a) = Len(s) + 1 /\ a[Len(s) + 1] = x
    OBVIOUS
  <1>2. Len(s) < n => l = a
    BY <1>1 DEF LastOf
  <1> HIDE DEF a
  <1>3. /\ l \in Seq(Entry) /\ Len(l) = (IF Len(a) > n THEN n ELSE Len(a))
        /\ \A i \in 1..Len(l) : l[i] = a[(Len(a) - Len(l)) + i]
    BY <1>1, LastOfIs
  <1> HIDE DEF l
  <1>4. Len(l) \in DOMAIN l /\ l[Len(l)] = x
    <2>1. /\ Len(a) \in Nat /\ Len(l) \in 1..Len(a) /\ Len(l) \in 1..Len(l)
          /\ DOMAIN l = 1..Len(l)
      BY <1>1, <1>3
    <2>2. l[Len(l)] = a[(Len(a) - Len(l)) + Len(l)]
      BY <1>3, <2>1
    <2>3. (Len(a) - Len(l)) + Len(l) = Len(s) + 1
      BY <1>1, <2>1
    <2> QED BY <1>1, <2>1, <2>2, <2>3
  <1> QED BY <1>1, <1>2, <1>3, <1>4 DEF a, l

\* The tail of the log after an append: what was in it, and the new entry
LEMMA TailStep ==
    ASSUME buf \in Seq(Entry), NEW x \in Entry, buf' = LastOf(Append(buf, x), BufLen),
           NEW n, InTail(n)'
    PROVE  InTail(n) \/ n = x
  <1> DEFINE a == Append(buf, x)
             b == LastOf(a, BufLen)
             t == LastOf(b, TailLen)
             u == LastOf(buf, TailLen)
  <1>1. BufLen \in Nat \ {0} /\ TailLen \in Nat \ {0}
    BY LengthAssumption
  <1>2. /\ a \in Seq(Entry) /\ Len(a) = Len(buf) + 1
        /\ \A i \in 1..Len(buf) : a[i] = buf[i]
        /\ a[Len(buf) + 1] = x
    OBVIOUS
  <1> HIDE DEF a
  <1>3. /\ b \in Seq(Entry) /\ Len(b) = (IF Len(a) > BufLen THEN BufLen ELSE Len(a))
        /\ \A i \in 1..Len(b) : b[i] = a[(Len(a) - Len(b)) + i]
    BY <1>1, <1>2, LastOfIs
  <1>4. b = buf'
    BY DEF a
  <1> HIDE DEF b
  <1>5. /\ t \in Seq(Entry) /\ Len(t) = (IF Len(b) > TailLen THEN TailLen ELSE Len(b))
        /\ \A i \in 1..Len(t) : t[i] = b[(Len(b) - Len(t)) + i]
    BY <1>1, <1>3, LastOfIs
  <1>6. /\ u \in Seq(Entry) /\ Len(u) = (IF Len(buf) > TailLen THEN TailLen ELSE Len(buf))
        /\ \A i \in 1..Len(u) : u[i] = buf[(Len(buf) - Len(u)) + i]
    BY <1>1, LastOfIs
  <1>7. PICK i \in DOMAIN t : t[i] = n
    BY <1>4 DEF InTail
  <1> HIDE DEF t, u
  <1> DEFINE j == (Len(a) - Len(t)) + i
  <1>8. i \in 1..Len(t) /\ Len(t) \in Nat /\ Len(b) \in Nat /\ Len(a) \in Nat /\ Len(buf) \in Nat
    BY <1>2, <1>3, <1>5, <1>7
  <1>9. j \in 1..Len(a) /\ n = a[j]
    <2>1. (Len(b) - Len(t)) + i \in 1..Len(b)
      BY <1>5, <1>8
    <2>2. n = b[(Len(b) - Len(t)) + i]
      BY <1>5, <1>7, <1>8
    <2>3. n = a[(Len(a) - Len(b)) + ((Len(b) - Len(t)) + i)]
      BY <1>3, <2>1, <2>2
    <2>4. (Len(a) - Len(b)) + ((Len(b) - Len(t)) + i) = j
      BY <1>8
    <2>5. (Len(b) - Len(t)) + i \in Int /\ Len(b) <= Len(a)
      BY <1>1, <1>3, <1>8
    <2>6. (Len(a) - Len(b)) + ((Len(b) - Len(t)) + i) \in 1..Len(a)
      BY <1>8, <2>1, <2>5
    <2> QED BY <2>3, <2>4, <2>6
  <1>10. CASE j = Len(buf) + 1
    BY <1>2, <1>9, <1>10
  <1>11. CASE j # Len(buf) + 1
    <2> DEFINE k == j - (Len(buf) - Len(u))
    <2>1. j \in 1..Len(buf) /\ n = buf[j]
      BY <1>2, <1>8, <1>9, <1>11
    <2>2. k \in 1..Len(u)
      <3>1. /\ Len(u) \in Nat /\ TailLen \in Nat /\ BufLen \in Nat
            /\ Len(a) = Len(buf) + 1 /\ i \in 1..Len(t) /\ j \in 1..Len(buf)
            /\ k = ((Len(a) - Len(t)) + i) - (Len(buf) - Len(u))
        BY <1>1, <1>2, <1>6, <1>8, <2>1
      <3>2. Len(t) <= TailLen /\ Len(t) <= Len(a)
        BY <1>1, <1>3, <1>5, <1>8
      <3>3. Len(u) = IF Len(buf) > TailLen THEN TailLen ELSE Len(buf)
        BY <1>6
      <3>4. k >= 1
        BY <1>8, <2>1, <3>1, <3>2, <3>3
      <3>5. k <= Len(u)
        BY <1>8, <2>1, <3>1
      <3>6. k \in Int /\ Len(u) \in Int
        BY <1>8, <3>1
      <3> HIDE DEF k
      <3> QED BY <3>4, <3>5, <3>6
    <2>3. u[k] = n
      <3>1. (Len(buf) - Len(u)) + k = j
        BY <1>6, <1>8, <2>1
      <3> HIDE DEF k
      <3>2. u[k] = buf[(Len(buf) - Len(u)) + k]
        BY <1>6, <2>2
      <3> QED BY <2>1, <3>1, <3>2
    <2>4. k \in DOMAIN u
      BY <1>6, <2>2
    <2> QED BY <2>3, <2>4 DEF InTail, u
  <1> QED BY <1>10, <1>11

LEMMA Messages ==
    /\ \A n \in Entry : LogMsg(n) \in Payload /\ LogMsg(n).type = "log" /\ LogMsg(n).entry = n
    /\ \A n \in Entry, r \in Row :
          /\ PortsMsg(n, r) \in Payload /\ PortsMsg(n, r).type = "ports"
          /\ PortsMsg(n, r).row = r
    /\ \A m \in Payload :
          /\ m.type \in {"log", "ports"} /\ m.entry \in Entry
          /\ m.type = "log"   => m = LogMsg(m.entry)
          /\ m.type = "ports" => m.row \in Row
    /\ \A n : LogMsg(n).type = "log" /\ LogMsg(n).entry = n
  BY DEF LogMsg, PortsMsg, Payload

\* onmessage
LEMMA ShownIs ==
    ASSUME NEW v \in View, NEW m \in Payload, Len(v.log) <= KeepLen
    PROVE  LET w == Shown(v, m)
           IN  /\ w \in View /\ Len(w.log) <= KeepLen
               /\ m.type = "ports" => w.row = m.row /\ w.log = v.log
               /\ m.type = "log" =>
                     /\ w.row = v.row
                     /\ \E i \in DOMAIN w.log : w.log[i] = m.entry
                     /\ Len(v.log) < KeepLen => w.log = Append(v.log, m.entry)
                     /\ Len(v.log) = KeepLen => Len(w.log) = KeepLen
  <1> DEFINE w == Shown(v, m)
  <1>1. v.log \in Seq(Entry) /\ v.row \in Row
    BY DEF View
  <1>2. CASE m.type = "log"
    <2> DEFINE l == LastOf(Append(v.log, m.entry), KeepLen)
    <2>1. m.entry \in Entry
      BY Messages
    <2>2. /\ l \in Seq(Entry) /\ Len(l) <= KeepLen
          /\ \E i \in DOMAIN l : l[i] = m.entry
          /\ Len(v.log) < KeepLen => l = Append(v.log, m.entry)
          /\ Len(v.log) = KeepLen => Len(l) = KeepLen
      <3>1. KeepLen \in Nat \ {0}
        BY LengthAssumption
      <3> QED BY <1>1, <2>1, <3>1, LastOfAppend
    <2>3. w = [v EXCEPT !.log = l]
      BY <1>2 DEF Shown
    <2> HIDE DEF l
    <2>4. w \in View /\ w.log = l /\ w.row = v.row
      BY <2>2, <2>3 DEF View
    <2> QED BY <1>2, <2>2, <2>4
  <1>3. CASE m.type = "ports"
    <2>1. w = [v EXCEPT !.row = m.row] /\ m.row \in Row
      BY <1>3, Messages DEF Shown
    <2>2. w \in View /\ w.log = v.log /\ w.row = m.row
      BY <2>1 DEF View
    <2> QED BY <1>3, <2>2
  <1> QED BY <1>2, <1>3, Messages

LEMMA ThreadFields ==
    ASSUME NEW x \in Thread
    PROVE  /\ [x EXCEPT !.pc = "snapshot"] \in Thread
           /\ [x EXCEPT !.pc = "snapshot"].pc = "snapshot"
           /\ [x EXCEPT !.pc = "snapshot"].entry = x.entry
           /\ \A r \in Row : /\ [x EXCEPT !.pc = "ports", !.row = r] \in Thread
                           /\ [x EXCEPT !.pc = "ports", !.row = r].pc = "ports"
                           /\ [x EXCEPT !.pc = "ports", !.row = r].row = r
                           /\ [x EXCEPT !.pc = "ports", !.row = r].entry = x.entry
           /\ Idle \in Thread /\ Idle.pc = "idle"
  <1>1. /\ [x EXCEPT !.pc = "snapshot"] \in Thread
        /\ [x EXCEPT !.pc = "snapshot"].pc = "snapshot"
        /\ [x EXCEPT !.pc = "snapshot"].entry = x.entry
    BY DEF Thread
  <1>2. ASSUME NEW r \in Row
        PROVE  /\ [x EXCEPT !.pc = "ports", !.row = r] \in Thread
               /\ [x EXCEPT !.pc = "ports", !.row = r].pc = "ports"
               /\ [x EXCEPT !.pc = "ports", !.row = r].row = r
               /\ [x EXCEPT !.pc = "ports", !.row = r].entry = x.entry
    BY DEF Thread
  <1>3. Idle \in Thread /\ Idle.pc = "idle"
    BY LengthAssumption DEF Thread, Idle, Row, NoRow
  <1> QED BY <1>1, <1>2, <1>3

LEMMA Moved ==
    ASSUME Typed, NEW e \in Emitter, NEW x \in Thread, at' = [at EXCEPT ![e] = x],
           x.pc # "idle" => x.entry \in Entry
    PROVE  /\ at' \in [Emitter -> Thread] /\ at'[e] = x
           /\ \A f \in Emitter : f # e => at'[f] = at[f]
           /\ \A f \in Emitter : at'[f].pc # "idle" => at'[f].entry \in Entry
  BY DEF Typed

\* Handing over, and taking the first that was handed over
LEMMA Handed ==
    ASSUME ready \in Seq(Payload), NEW m \in Payload, ready' = Append(ready, m)
    PROVE  /\ ready' \in Seq(Payload)
           /\ \A i \in DOMAIN ready : i \in DOMAIN ready' /\ ready'[i] = ready[i]
           /\ Len(ready) + 1 \in DOMAIN ready' /\ ready'[Len(ready) + 1] = m
           /\ \A i \in DOMAIN ready' :
                 \/ i \in DOMAIN ready /\ ready'[i] = ready[i]
                 \/ i = Len(ready) + 1 /\ ready'[i] = m
  OBVIOUS

LEMMA Taken ==
    ASSUME ready \in Seq(Payload), ready # <<>>, ready' = Tail(ready)
    PROVE  /\ ready' \in Seq(Payload) /\ Head(ready) \in Payload
           /\ 1 \in DOMAIN ready /\ Head(ready) = ready[1]
           /\ \A i \in DOMAIN ready' : i + 1 \in DOMAIN ready /\ ready'[i] = ready[i + 1]
           /\ \A i \in DOMAIN ready : i = 1 \/ \E j \in DOMAIN ready' :
                                                  ready'[j] = ready[i] /\ i = j + 1
  <1>1. /\ ready' \in Seq(Payload) /\ Head(ready) \in Payload /\ Head(ready) = ready[1]
        /\ Len(ready) \in Nat \ {0} /\ Len(ready') = Len(ready) - 1
        /\ DOMAIN ready = 1..Len(ready) /\ DOMAIN ready' = 1..Len(ready')
        /\ \A i \in 1..(Len(ready) - 1) : ready'[i] = ready[i + 1]
    BY HeadTailProperties
  <1>2. ASSUME NEW i \in DOMAIN ready, i # 1
        PROVE  \E j \in DOMAIN ready' : ready'[j] = ready[i] /\ i = j + 1
    <2>1. i - 1 \in DOMAIN ready' /\ (i - 1) + 1 = i
      BY <1>1, <1>2
    <2>2. ready'[i - 1] = ready[i]
      BY <1>1, <1>2, <2>1
    <2> QED BY <2>1, <2>2
  <1> QED BY <1>1, <1>2

\* A broadcast with one client fewer to serve
Narrowed(u, t, s, dead) == u.msg = t.msg /\ u.left = t.left \ {s} /\ u.dead = dead

LEMMA Proceeded ==
    ASSUME Typed, NEW t \in tasks, NEW s \in t.left, NEW dead \in SUBSET Socket,
           Proceed(t, t.left \ {s}, dead)
    PROVE  /\ tasks' \subseteq Task /\ clients' \subseteq clients
           /\ \A u \in tasks' : u \in tasks \ {t} \/ Narrowed(u, t, s, dead)
           /\ \A u \in tasks : u # t => u \in tasks'
           /\ \A r \in t.left : r # s =>
                 \E u \in tasks' : u.msg = t.msg /\ r \in u.left
           /\ \A r \in clients : r \notin dead => r \in clients'
  <1> DEFINE left == t.left \ {s}
             x == [t EXCEPT !.left = left]
             w == [x EXCEPT !.dead = dead]
  <1>1. t \in Task
    BY DEF Typed
  <1>2. left \in SUBSET Socket
    BY <1>1 DEF Task
  <1>3. w = [t EXCEPT !.left = left, !.dead = dead]
    OBVIOUS
  <1> HIDE DEF left
  <1>4. x \in Task /\ x.msg = t.msg /\ x.left = left
    BY <1>1, <1>2 DEF Task
  <1> HIDE DEF x
  <1>5. w \in Task /\ w.msg = t.msg /\ w.left = left /\ w.dead = dead
    BY <1>4 DEF Task
  <1>6. /\ tasks' = (tasks \ {t}) \union (IF left = {} THEN {} ELSE {w})
        /\ clients' = IF left = {} THEN clients \ dead ELSE clients
    BY <1>3 DEF Proceed, left
  <1> HIDE DEF w
  <1>7. /\ tasks' \subseteq Task /\ clients' \subseteq clients
        /\ \A u \in tasks' : u \in tasks \ {t} \/ u = w
        /\ \A u \in tasks : u # t => u \in tasks'
        /\ \A r \in clients : r \notin dead => r \in clients'
    BY <1>5, <1>6 DEF Typed
  <1>8. ASSUME NEW r \in t.left, r # s
        PROVE  \E u \in tasks' : u.msg = t.msg /\ r \in u.left
    <2>1. r \in left
      BY <1>8 DEF left
    <2>2. w \in tasks'
      BY <1>6, <2>1
    <2> QED BY <1>5, <2>1, <2>2
  <1>9. Narrowed(w, t, s, dead)
    BY <1>5 DEF Narrowed, left
  <1> QED BY <1>7, <1>8, <1>9

\* ... and its message no longer on the way to that client
LEMMA ProceedWay ==
    ASSUME Typed, NEW t \in tasks, NEW s \in t.left, NEW dead \in SUBSET Socket,
           Proceed(t, t.left \ {s}, dead), UNCHANGED <<at, ready>>, NEW r
    PROVE  /\ \A n : OnItsWay(n, r) =>
                 OnItsWay(n, r)' \/ (r = s /\ t.msg = LogMsg(n))
           /\ PortsComing(r) =>
                 PortsComing(r)' \/ (r = s /\ t.msg.type = "ports")
  <1>1. /\ \A u \in tasks : u # t => u \in tasks'
        /\ \A q \in t.left : q # s => \E u \in tasks' : u.msg = t.msg /\ q \in u.left
    BY Proceeded
  <1>2. ASSUME NEW n, OnItsWay(n, r), ~(r = s /\ t.msg = LogMsg(n))
        PROVE  OnItsWay(n, r)'
    BY <1>1, <1>2 DEF OnItsWay
  <1>3. ASSUME PortsComing(r), ~(r = s /\ t.msg.type = "ports")
        PROVE  PortsComing(r)'
    BY <1>1, <1>3 DEF PortsComing
  <1> QED BY <1>2, <1>3

-----------------------------------------------------------------------------
(* Steps of the emitting threads *)

\* The entry joins the tail while its message is still in the thread's hands.  If
\* nothing else goes on, all that is under way from here is about this change.
LEMMA EmitIInv ==
    ASSUME IInv, NEW e \in Emitter, Emit(e)
    PROVE  IInv'
  <1> DEFINE n == count + 1
             x == [at[e] EXCEPT !.pc = "log", !.entry = n]
  <1>1. /\ at[e].pc = "idle" /\ changes < MaxChanges
        /\ changes' = changes + 1 /\ row' = row + 1 /\ count' = n
        /\ buf' = LastOf(Append(buf, n), BufLen) /\ at' = [at EXCEPT ![e] = x]
        /\ clean' = AtRest /\ ready' = ready
    BY DEF Emit
  <1>2. UNCHANGED loop
    BY DEF Emit
  <1>3. n \in Entry /\ n \in 0..changes' /\ changes' \in 0..MaxChanges /\ at[e] \in Thread
    BY <1>1, LengthAssumption DEF IInv, Typed, Entry
  <1> HIDE DEF n
  <1>4. x \in Thread /\ x.pc = "log" /\ x.entry = n
    BY <1>3 DEF Thread
  <1> HIDE DEF x
  <1>5. /\ at' \in [Emitter -> Thread] /\ at'[e] = x
        /\ \A f \in Emitter : f # e => at'[f] = at[f]
        /\ \A f \in Emitter : at'[f].pc # "idle" => at'[f].entry \in Entry
    BY <1>1, <1>3, <1>4, Moved DEF IInv
  <1>6. buf' \in Seq(Entry) /\ Len(buf') <= BufLen
    BY <1>1, <1>3, LengthAssumption, LastOfAppend DEF IInv, Typed
  <1>7. \A m : InTail(m)' => InTail(m) \/ m = n
    BY <1>1, <1>3, TailStep DEF IInv, Typed
  <1>8. Typed'
    BY <1>1, <1>2, <1>3, <1>5, <1>6 DEF IInv, Typed, loop, AtRest
  <1>9. Reached'
    BY <1>2 DEF IInv, Reached, loop
  <1>10. Delivered'
    <2>1. \A s, m : m = n => OnItsWay(m, s)'
      BY <1>4, <1>5 DEF OnItsWay
    <2>2. \A s, m : OnItsWay(m, s) => OnItsWay(m, s)'
      BY <1>1, <1>2, <1>5 DEF OnItsWay, loop
    <2>3. ASSUME NEW s \in open \ wiped, NEW m \in Entry, InTail(m)'
          PROVE  /\ endpoint[s] = "receiving" => InLog(s, m) \/ OnItsWay(m, s)' \/ Full(s)
                 /\ endpoint[s] = "greeting"  => InGreeting(s, m) \/ OnItsWay(m, s)'
      BY <1>7, <2>1, <2>2, <2>3 DEF IInv, Delivered
    <2> QED BY <1>2, <2>3 DEF Delivered, loop, InLog, InGreeting, Full
  <1>11. Healed'
    <2> SUFFICES ASSUME clean'
                 PROVE  Healed'
      BY DEF Healed
    <2>1. (\A f \in Emitter : at[f].pc = "idle") /\ ready = <<>> /\ tasks = {}
      BY <1>1 DEF AtRest
    <2>2. \A f \in Emitter : at'[f].pc # "ports"
      BY <1>4, <1>5, <2>1
    <2>3. DOMAIN ready' = {} /\ tasks' = {}
      BY <1>1, <1>2, <2>1 DEF loop
    <2>4. \A s : PortsComing(s)'
      BY <1>4, <1>5 DEF PortsComing
    <2> QED BY <2>2, <2>3, <2>4 DEF Healed
  <1> QED BY <1>8, <1>9, <1>10, <1>11 DEF IInv

LEMMA SilentChangeIInv ==
    ASSUME IInv, SilentChange
    PROVE  IInv'
  <1>1. /\ changes < MaxChanges /\ changes' = changes + 1 /\ row' = row + 1
        /\ clean' = FALSE /\ UNCHANGED <<buf, count, at, ready>>
    BY DEF SilentChange
  <1>2. UNCHANGED loop
    BY DEF SilentChange
  <1>3. Typed'
    <2>1. row' = 1 + changes' /\ changes' \in 0..MaxChanges /\ count' \in 0..changes'
      BY <1>1, LengthAssumption DEF IInv, Typed
    <2> QED BY <1>1, <1>2, <2>1 DEF IInv, Typed, loop
  <1>4. Reached'
    BY <1>2 DEF IInv, Reached, loop
  <1>5. Delivered'
    BY <1>1, <1>2 DEF IInv, Delivered, InTail, InLog, InGreeting, OnItsWay, Full, loop
  <1>6. Healed'
    BY <1>1 DEF Healed
  <1> QED BY <1>3, <1>4, <1>5, <1>6 DEF IInv

\* As long as somebody is there the message is handed over
LEMMA HandIs ==
    ASSUME IInv, NEW m \in Payload, Hand(m)
    PROVE  /\ ready' \in Seq(Payload)
           /\ \A i \in DOMAIN ready : i \in DOMAIN ready' /\ ready'[i] = ready[i]
           /\ open # {} => \E i \in DOMAIN ready' : ready'[i] = m
           /\ \A i \in DOMAIN ready' :
                 \/ i \in DOMAIN ready /\ ready'[i] = ready[i]
                 \/ i = Len(ready) + 1 /\ ready'[i] = m
  <1>1. ready \in Seq(Payload) /\ open \subseteq clients
    BY DEF IInv, Typed, Reached
  <1>2. CASE clients = {}
    BY <1>1, <1>2 DEF Hand
  <1>3. CASE clients # {}
    <2>1. ready' = Append(ready, m)
      BY <1>3 DEF Hand
    <2> QED BY <1>1, <2>1, Handed
  <1> QED BY <1>2, <1>3

LEMMA HandLogIInv ==
    ASSUME IInv, NEW e \in Emitter, HandLog(e)
    PROVE  IInv'
  <1> DEFINE x == [at[e] EXCEPT !.pc = "snapshot"]
             n == at[e].entry
  <1>1. /\ at[e].pc = "log" /\ Hand(LogMsg(n)) /\ at' = [at EXCEPT ![e] = x]
        /\ UNCHANGED <<row, changes, buf, count, clean>>
    BY DEF HandLog, IInv, Typed
  <1>2. UNCHANGED loop
    BY DEF HandLog
  <1>3. at[e] \in Thread /\ n \in Entry
    BY <1>1 DEF IInv, Typed
  <1>4. x \in Thread /\ x.pc = "snapshot" /\ x.entry = n
    BY <1>3, ThreadFields
  <1> HIDE DEF x
  <1>5. /\ at' \in [Emitter -> Thread] /\ at'[e] = x
        /\ \A f \in Emitter : f # e => at'[f] = at[f]
        /\ \A f \in Emitter : at'[f].pc # "idle" => at'[f].entry \in Entry
    BY <1>1, <1>3, <1>4, Moved DEF IInv
  <1>6. /\ ready' \in Seq(Payload)
        /\ \A i \in DOMAIN ready : i \in DOMAIN ready' /\ ready'[i] = ready[i]
        /\ open # {} => \E i \in DOMAIN ready' : ready'[i] = LogMsg(n)
        /\ \A i \in DOMAIN ready' :
              \/ i \in DOMAIN ready /\ ready'[i] = ready[i]
              \/ i = Len(ready) + 1 /\ ready'[i] = LogMsg(n)
    <2>1. LogMsg(n) \in Payload
      BY <1>3, Messages
    <2> QED BY <1>1, <2>1, HandIs
  <1>7. Typed'
    BY <1>1, <1>2, <1>5, <1>6 DEF IInv, Typed, loop
  <1>8. Reached'
    BY <1>2 DEF IInv, Reached, loop
  <1>9. Delivered'
    <2>1. ASSUME NEW s \in open \ wiped, NEW m, OnItsWay(m, s)
          PROVE  OnItsWay(m, s)'
      <3>1. CASE \E f \in Emitter : at[f].pc = "log" /\ at[f].entry = m
        BY <1>5, <1>6, <3>1 DEF OnItsWay
      <3>2. CASE \E i \in DOMAIN ready : ready[i] = LogMsg(m)
        BY <1>6, <3>2 DEF OnItsWay
      <3>3. CASE \E t \in tasks : t.msg = LogMsg(m) /\ s \in t.left
        BY <1>2, <3>3 DEF OnItsWay, loop
      <3> QED BY <2>1, <3>1, <3>2, <3>3 DEF OnItsWay
    <2>2. ASSUME NEW s \in open \ wiped, NEW m \in Entry, InTail(m)
          PROVE  /\ endpoint[s] = "receiving" => InLog(s, m) \/ OnItsWay(m, s)' \/ Full(s)
                 /\ endpoint[s] = "greeting"  => InGreeting(s, m) \/ OnItsWay(m, s)'
      BY <2>1, <2>2 DEF IInv, Delivered
    <2> QED BY <1>1, <1>2, <2>2 DEF Delivered, loop, InTail, InLog, InGreeting, Full
  <1>10. Healed'
    <2> SUFFICES ASSUME clean'
                 PROVE  Healed'
      BY DEF Healed
    <2>1. LogMsg(n).type = "log"
      BY Messages
    <2>2. \A s : PortsComing(s)'
      BY <1>4, <1>5 DEF PortsComing
    <2>3. \A f \in Emitter : at'[f].pc = "ports" => at'[f].row = row'
      BY <1>1, <1>4, <1>5 DEF IInv, Healed
    <2>4. \A i \in DOMAIN ready' : ready'[i].type = "ports" => ready'[i].row = row'
      BY <1>1, <1>6, <2>1 DEF IInv, Healed
    <2>5. \A t \in tasks' : t.msg.type = "ports" => t.msg.row = row'
      BY <1>1, <1>2 DEF IInv, Healed, loop
    <2> QED BY <2>2, <2>3, <2>4, <2>5 DEF Healed
  <1> QED BY <1>7, <1>8, <1>9, <1>10 DEF IInv

LEMMA SnapshotIInv ==
    ASSUME IInv, NEW e \in Emitter, Snapshot(e)
    PROVE  IInv'
  <1> DEFINE x == [at[e] EXCEPT !.pc = "ports", !.row = row]
  <1>1. /\ at[e].pc = "snapshot" /\ at' = [at EXCEPT ![e] = x]
        /\ UNCHANGED <<row, changes, buf, count, ready, clean>>
    BY DEF Snapshot
  <1>2. UNCHANGED loop
    BY DEF Snapshot
  <1>3. at[e] \in Thread /\ at[e].entry \in Entry /\ row \in Row
    BY <1>1, LengthAssumption DEF IInv, Typed, Row
  <1>4. x \in Thread /\ x.pc = "ports" /\ x.row = row /\ x.entry = at[e].entry
    BY <1>3, ThreadFields
  <1> HIDE DEF x
  <1>5. /\ at' \in [Emitter -> Thread] /\ at'[e] = x
        /\ \A f \in Emitter : f # e => at'[f] = at[f]
        /\ \A f \in Emitter : at'[f].pc # "idle" => at'[f].entry \in Entry
    BY <1>1, <1>3, <1>4, Moved DEF IInv
  <1>6. Typed'
    BY <1>1, <1>2, <1>5 DEF IInv, Typed, loop
  <1>7. Reached'
    BY <1>2 DEF IInv, Reached, loop
  <1>8. Delivered'
    <2>1. \A s, m : OnItsWay(m, s) => OnItsWay(m, s)'
      BY <1>1, <1>2, <1>5 DEF OnItsWay, loop
    <2> QED BY <1>1, <1>2, <2>1 DEF IInv, Delivered, loop, InTail, InLog, InGreeting, Full
  <1>9. Healed'
    <2>1. \A s : PortsComing(s)'
      BY <1>4, <1>5 DEF PortsComing
    <2>2. clean => \A f \in Emitter : at'[f].pc = "ports" => at'[f].row = row'
      BY <1>1, <1>4, <1>5 DEF IInv, Healed
    <2> QED BY <1>1, <1>2, <2>1, <2>2 DEF IInv, Healed, loop
  <1> QED BY <1>6, <1>7, <1>8, <1>9 DEF IInv

LEMMA HandPortsIInv ==
    ASSUME IInv, NEW e \in Emitter, HandPorts(e)
    PROVE  IInv'
  <1> DEFINE m == PortsMsg(at[e].entry, at[e].row)
  <1>1. /\ at[e].pc = "ports" /\ Hand(m) /\ at' = [at EXCEPT ![e] = Idle]
        /\ UNCHANGED <<row, changes, buf, count, clean>>
    BY DEF HandPorts
  <1>2. UNCHANGED loop
    BY DEF HandPorts
  <1>3. /\ at[e] \in Thread /\ at[e].entry \in Entry /\ at[e].row \in Row
        /\ Idle \in Thread /\ Idle.pc = "idle"
    BY <1>1, ThreadFields DEF IInv, Typed, Thread
  <1>4. m \in Payload /\ m.type = "ports" /\ m.row = at[e].row
    BY <1>3, Messages
  <1> HIDE DEF m
  <1>5. /\ at' \in [Emitter -> Thread] /\ at'[e] = Idle
        /\ \A f \in Emitter : f # e => at'[f] = at[f]
        /\ \A f \in Emitter : at'[f].pc # "idle" => at'[f].entry \in Entry
    BY <1>1, <1>3, Moved DEF IInv
  <1>6. /\ ready' \in Seq(Payload)
        /\ \A i \in DOMAIN ready : i \in DOMAIN ready' /\ ready'[i] = ready[i]
        /\ open # {} => \E i \in DOMAIN ready' : ready'[i] = m
        /\ \A i \in DOMAIN ready' :
              \/ i \in DOMAIN ready /\ ready'[i] = ready[i]
              \/ i = Len(ready) + 1 /\ ready'[i] = m
    BY <1>1, <1>4, HandIs
  <1>7. Typed'
    BY <1>1, <1>2, <1>5, <1>6 DEF IInv, Typed, loop
  <1>8. Reached'
    BY <1>2 DEF IInv, Reached, loop
  <1>9. Delivered'
    <2>1. \A s, k : OnItsWay(k, s) => OnItsWay(k, s)'
      BY <1>1, <1>2, <1>5, <1>6 DEF OnItsWay, loop
    <2> QED BY <1>1, <1>2, <2>1 DEF IInv, Delivered, loop, InTail, InLog, InGreeting, Full
  <1>10. Healed'
    <2> SUFFICES ASSUME clean'
                 PROVE  Healed'
      BY DEF Healed
    <2>1. \A s \in open : PortsComing(s)'
      BY <1>4, <1>6 DEF PortsComing
    <2>2. \A f \in Emitter : at'[f].pc = "ports" => at'[f].row = row'
      BY <1>1, <1>3, <1>5 DEF IInv, Healed
    <2>3. \A i \in DOMAIN ready' : ready'[i].type = "ports" => ready'[i].row = row'
      BY <1>1, <1>4, <1>6 DEF IInv, Healed
    <2>4. \A t \in tasks' : t.msg.type = "ports" => t.msg.row = row'
      BY <1>1, <1>2 DEF IInv, Healed, loop
    <2>5. open' = open
      BY <1>2 DEF loop
    <2> QED BY <2>1, <2>2, <2>3, <2>4, <2>5 DEF Healed
  <1> QED BY <1>7, <1>8, <1>9, <1>10 DEF IInv

-----------------------------------------------------------------------------
(* Steps of the event loop *)

\* A broadcast begins, for all that are clients now; whoever is there is one
LEMMA StartIInv ==
    ASSUME IInv, Start
    PROVE  IInv'
  <1> DEFINE h == Head(ready)
             t == [msg |-> h, left |-> clients, dead |-> {}]
  <1>1. /\ ready # <<>> /\ ready' = Tail(ready)
        /\ tasks' = IF clients = {} THEN tasks ELSE tasks \union {t}
        /\ UNCHANGED <<clients, endpoint, open, greeting, view, wiped, clean>>
    BY DEF Start
  <1>2. UNCHANGED thread
    BY DEF Start
  <1>3. /\ ready' \in Seq(Payload) /\ h \in Payload
        /\ 1 \in DOMAIN ready /\ h = ready[1]
        /\ \A i \in DOMAIN ready' : i + 1 \in DOMAIN ready /\ ready'[i] = ready[i + 1]
        /\ \A i \in DOMAIN ready : i = 1 \/ \E j \in DOMAIN ready' : ready'[j] = ready[i]
    BY <1>1, Taken DEF IInv, Typed
  <1> HIDE DEF h
  <1>4. t \in Task /\ t.msg = h /\ t.left = clients /\ t.dead = {}
    BY <1>3 DEF Task, IInv, Typed
  <1> HIDE DEF t
  <1>5. /\ tasks \subseteq tasks'
        /\ open # {} => t \in tasks'
        /\ \A u \in tasks' : u \in tasks \/ u = t
        /\ open \subseteq clients
    BY <1>1 DEF IInv, Reached
  <1>6. Typed'
    BY <1>1, <1>2, <1>3, <1>4, <1>5 DEF IInv, Typed, thread
  <1>7. Reached'
    BY <1>1, <1>4, <1>5 DEF IInv, Reached
  <1>8. Delivered'
    <2>1. ASSUME NEW s \in open, NEW n, OnItsWay(n, s)
          PROVE  OnItsWay(n, s)'
      <3>1. CASE \E f \in Emitter : at[f].pc = "log" /\ at[f].entry = n
        BY <1>2, <3>1 DEF OnItsWay, thread
      <3>2. CASE \E i \in DOMAIN ready : ready[i] = LogMsg(n)
        BY <1>3, <1>4, <1>5, <3>2 DEF OnItsWay
      <3>3. CASE \E u \in tasks : u.msg = LogMsg(n) /\ s \in u.left
        BY <1>5, <3>3 DEF OnItsWay
      <3> QED BY <2>1, <3>1, <3>2, <3>3 DEF OnItsWay
    <2> QED BY <1>1, <1>2, <2>1 DEF IInv, Delivered, thread, InTail, InLog, InGreeting, Full
  <1>9. Healed'
    <2> SUFFICES ASSUME clean'
                 PROVE  Healed'
      BY DEF Healed
    <2>1. ASSUME NEW s \in open, PortsComing(s)
          PROVE  PortsComing(s)'
      <3>1. CASE \E f \in Emitter : at[f].pc # "idle"
        BY <1>2, <3>1 DEF PortsComing, thread
      <3>2. CASE \E i \in DOMAIN ready : ready[i].type = "ports"
        BY <1>3, <1>4, <1>5, <3>2 DEF PortsComing
      <3>3. CASE \E u \in tasks : u.msg.type = "ports" /\ s \in u.left
        BY <1>5, <3>3 DEF PortsComing
      <3> QED BY <2>1, <3>1, <3>2, <3>3 DEF PortsComing
    <2>2. \A f \in Emitter : at'[f].pc = "ports" => at'[f].row = row'
      BY <1>1, <1>2 DEF IInv, Healed, thread
    <2>3. \A i \in DOMAIN ready' : ready'[i].type = "ports" => ready'[i].row = row'
      BY <1>1, <1>2, <1>3 DEF IInv, Healed, thread
    <2>4. \A u \in tasks' : u.msg.type = "ports" => u.msg.row = row'
      BY <1>1, <1>2, <1>3, <1>4, <1>5 DEF IInv, Healed, thread
    <2>5. row' = row
      BY <1>2 DEF thread
    <2>6. ASSUME NEW s \in open' \ wiped'
          PROVE  /\ endpoint'[s] = "receiving" => view'[s].row = row' \/ PortsComing(s)'
                 /\ endpoint'[s] = "greeting"  => greeting'[s].row = row' \/ PortsComing(s)'
      BY <1>1, <2>1, <2>5, <2>6 DEF IInv, Healed
    <2> QED BY <2>2, <2>3, <2>4, <2>6 DEF Healed
  <1> QED BY <1>6, <1>7, <1>8, <1>9 DEF IInv

\* A message reaches a panel
LEMMA ReachIInv ==
    ASSUME IInv, NEW t \in tasks, NEW s \in t.left, s \in open,
           view' = [view EXCEPT ![s] = Shown(@, t.msg)],
           wiped' = IF endpoint[s] = "greeting" THEN wiped \union {s} ELSE wiped,
           Proceed(t, t.left \ {s}, t.dead),
           UNCHANGED <<ready, endpoint, open, greeting, clean, thread>>
    PROVE  IInv'
  <1> DEFINE w == Shown(view[s], t.msg)
             m == t.msg
  <1>1. /\ t \in Task /\ m \in Payload /\ t.dead \in SUBSET Socket /\ s \in Socket
        /\ view[s] \in View /\ Len(view[s].log) <= KeepLen
    BY DEF IInv, Typed, Task
  <1>2. /\ w \in View /\ Len(w.log) <= KeepLen
        /\ m.type = "ports" => w.row = m.row /\ w.log = view[s].log
        /\ m.type = "log" =>
              /\ w.row = view[s].row
              /\ \E i \in DOMAIN w.log : w.log[i] = m.entry
              /\ Len(view[s].log) < KeepLen => w.log = Append(view[s].log, m.entry)
              /\ Len(view[s].log) = KeepLen => Len(w.log) = KeepLen
    BY <1>1, ShownIs
  <1>3. view' = [view EXCEPT ![s] = w]
    OBVIOUS
  <1> HIDE DEF w, m
  <1>4. /\ view' \in [Socket -> View] /\ view'[s] = w
        /\ \A r \in Socket : r # s => view'[r] = view[r]
        /\ \A r \in Socket : Len(view'[r].log) <= KeepLen
    BY <1>1, <1>2, <1>3 DEF IInv, Typed
  <1>5. /\ tasks' \subseteq Task /\ clients' \subseteq clients
        /\ \A u \in tasks' : u \in tasks \ {t} \/ Narrowed(u, t, s, t.dead)
        /\ \A r \in clients : r \notin t.dead => r \in clients'
    BY <1>1, Proceeded DEF IInv
  <1>6. /\ \A n, r : OnItsWay(n, r) => OnItsWay(n, r)' \/ (r = s /\ m = LogMsg(n))
        /\ \A r : PortsComing(r) => PortsComing(r)' \/ (r = s /\ m.type = "ports")
    BY <1>1, ProceedWay DEF IInv, thread, m
  <1>7. wiped \subseteq wiped' /\ wiped' \subseteq Socket
        /\ (endpoint[s] = "greeting" => s \in wiped')
    BY <1>1 DEF IInv, Typed
  <1>8. Typed'
    BY <1>4, <1>5, <1>7 DEF IInv, Typed, thread
  <1>9. Reached'
    BY <1>5 DEF IInv, Reached, Narrowed
  <1>10. Delivered'
    <2> SUFFICES ASSUME NEW r \in open \ wiped', NEW n \in Entry, InTail(n)
                 PROVE  /\ endpoint[r] = "receiving" =>
                              InLog(r, n)' \/ OnItsWay(n, r)' \/ Full(r)'
                        /\ endpoint[r] = "greeting"  => InGreeting(r, n) \/ OnItsWay(n, r)'
      BY DEF Delivered, thread, InTail, InGreeting
    <2>1. /\ endpoint[r] = "receiving" => InLog(r, n) \/ OnItsWay(n, r) \/ Full(r)
          /\ endpoint[r] = "greeting"  => InGreeting(r, n) \/ OnItsWay(n, r)
      BY <1>7 DEF IInv, Delivered
    <2>2. CASE r # s
      <3>1. view'[r] = view[r]
        BY <1>4, <2>2 DEF IInv, Typed
      <3> QED BY <1>6, <2>1, <2>2, <3>1 DEF InLog, Full
    <2>3. CASE r = s
      <3>1. endpoint[r] # "greeting"
        BY <1>7, <2>3
      <3>2. InLog(r, n) => InLog(r, n)' \/ Full(r)'
        <4>1. CASE m.type = "ports"
          BY <1>2, <1>4, <2>3, <4>1 DEF InLog
        <4>2. CASE m.type = "log" /\ Len(view[s].log) = KeepLen
          BY <1>2, <1>4, <2>3, <4>2 DEF Full
        <4>3. CASE m.type = "log" /\ Len(view[s].log) < KeepLen
          <5>1. /\ w.log = Append(view[s].log, m.entry) /\ view[s].log \in Seq(Entry)
                /\ m.entry \in Entry
            BY <1>1, <1>2, <4>3, Messages DEF View, m
          <5>2. \A i \in DOMAIN view[s].log : i \in DOMAIN w.log /\ w.log[i] = view[s].log[i]
            BY <5>1
          <5> QED BY <1>4, <2>3, <5>2 DEF InLog
        <4>4. Len(view[s].log) \in Nat /\ KeepLen \in Nat
          BY <1>1, LengthAssumption DEF View
        <4> QED BY <1>1, <4>1, <4>2, <4>3, <4>4, Messages DEF m
      <3>3. Full(r) => Full(r)'
        BY <1>1, <1>2, <1>4, <2>3, Messages DEF Full, m
      <3>4. m = LogMsg(n) => InLog(r, n)'
        <4>1. LogMsg(n).type = "log" /\ LogMsg(n).entry = n
          BY Messages
        <4> QED BY <1>2, <1>4, <2>3, <4>1 DEF InLog
      <3> QED BY <1>6, <2>1, <2>3, <3>1, <3>2, <3>3, <3>4
    <2> QED BY <2>2, <2>3
  <1>11. Healed'
    <2> SUFFICES ASSUME clean
                 PROVE  Healed'
      BY DEF Healed
    <2>1. \A u \in tasks : u.msg.type = "ports" => u.msg.row = row
      BY DEF IInv, Healed
    <2>2. \A u \in tasks' : u.msg.type = "ports" => u.msg.row = row
      BY <1>5, <2>1 DEF Narrowed
    <2>3. ASSUME NEW r \in open \ wiped'
          PROVE  /\ endpoint[r] = "receiving" => view'[r].row = row \/ PortsComing(r)'
                 /\ endpoint[r] = "greeting"  => greeting[r].row = row \/ PortsComing(r)'
      <3>1. /\ endpoint[r] = "receiving" => view[r].row = row \/ PortsComing(r)
            /\ endpoint[r] = "greeting"  => greeting[r].row = row \/ PortsComing(r)
        BY <1>7, <2>3 DEF IInv, Healed
      <3>2. CASE r # s
        <4>1. view'[r] = view[r]
          BY <1>4, <2>3, <3>2 DEF IInv, Typed
        <4> QED BY <1>6, <3>1, <3>2, <4>1
      <3>3. CASE r = s
        <4>1. endpoint[r] # "greeting"
          BY <1>7, <2>3, <3>3
        <4>2. m.type = "ports" => view'[r].row = row
          BY <1>2, <1>4, <2>1, <3>3 DEF m
        <4>3. m.type # "ports" => view'[r].row = view[r].row
          BY <1>1, <1>2, <1>4, <3>3, Messages DEF m
        <4> QED BY <1>6, <3>1, <3>3, <4>1, <4>2, <4>3
      <3> QED BY <3>2, <3>3
    <2>4. /\ \A f \in Emitter : at[f].pc = "ports" => at[f].row = row
          /\ \A i \in DOMAIN ready : ready[i].type = "ports" => ready[i].row = row
      BY DEF IInv, Healed
    <2> QED BY <2>2, <2>3, <2>4 DEF Healed, thread
  <1> QED BY <1>8, <1>9, <1>10, <1>11 DEF IInv

\* A message to a browser that has gone
LEMMA MissIInv ==
    ASSUME IInv, NEW t \in tasks, NEW s \in t.left, s \notin open,
           NEW dead \in {t.dead, t.dead \union {s}}, Proceed(t, t.left \ {s}, dead),
           UNCHANGED <<ready, endpoint, open, greeting, view, wiped, clean, thread>>
    PROVE  IInv'
  <1>1. t \in Task /\ dead \in SUBSET Socket /\ s \in Socket
    BY DEF IInv, Typed, Task
  <1>2. /\ tasks' \subseteq Task /\ clients' \subseteq clients
        /\ \A u \in tasks' : u \in tasks \ {t} \/ Narrowed(u, t, s, dead)
        /\ \A r \in clients : r \notin dead => r \in clients'
    BY <1>1, Proceeded DEF IInv
  <1>3. \A r \in open : /\ \A n : OnItsWay(n, r) => OnItsWay(n, r)'
                        /\ PortsComing(r) => PortsComing(r)'
    BY <1>1, ProceedWay DEF IInv, thread
  <1>4. Typed'
    BY <1>2 DEF IInv, Typed, thread
  <1>5. Reached'
    BY <1>2 DEF IInv, Reached, Narrowed
  <1>6. Delivered'
    BY <1>3 DEF IInv, Delivered, thread, InTail, InLog, InGreeting, Full
  <1>7. Healed'
    BY <1>2, <1>3 DEF IInv, Healed, thread, Narrowed
  <1> QED BY <1>4, <1>5, <1>6, <1>7 DEF IInv

LEMMA SendIInv ==
    ASSUME IInv, NEW t \in tasks, NEW s \in t.left, Send(t, s)
    PROVE  IInv'
  <1>1. UNCHANGED <<ready, endpoint, open, greeting, clean, thread>>
    BY DEF Send
  <1>2. CASE s \in open
    BY <1>1, <1>2, ReachIInv DEF Send
  <1>3. CASE s \notin open
    BY <1>1, <1>3, MissIInv DEF Send, Failed
  <1> QED BY <1>2, <1>3

-----------------------------------------------------------------------------
(* Steps of the endpoints and the browsers *)

LEMMA WayStays ==
    ASSUME UNCHANGED <<at, ready, tasks>>, NEW s
    PROVE  (\A n : OnItsWay(n, s) <=> OnItsWay(n, s)') /\ (PortsComing(s) <=> PortsComing(s)')
  BY DEF OnItsWay, PortsComing

\* Who joins becomes a client before anything is put together for it
LEMMA JoinIInv ==
    ASSUME IInv, NEW s \in Socket, Join(s)
    PROVE  IInv'
  <1>1. /\ endpoint[s] = "none" /\ open' = open \union {s} /\ clients' = clients \union {s}
        /\ endpoint' = [endpoint EXCEPT ![s] = "joined"]
        /\ UNCHANGED <<ready, tasks, greeting, view, wiped, clean>>
    BY DEF Join
  <1>2. UNCHANGED thread
    BY DEF Join
  <1>3. endpoint'[s] = "joined" /\ \A r \in Socket : r # s => endpoint'[r] = endpoint[r]
    BY <1>1 DEF IInv, Typed
  <1>4. Typed'
    BY <1>1, <1>2 DEF IInv, Typed, thread
  <1>5. Reached'
    <2>1. open' \subseteq clients' /\ \A r \in clients' : endpoint'[r] # "none"
      BY <1>1, <1>3 DEF IInv, Typed, Reached
    <2>2. \A t \in tasks : t.left \subseteq Socket /\ t.dead \subseteq Socket
      BY DEF IInv, Typed, Task
    <2>3. \A t \in tasks : \A r \in t.left : endpoint'[r] # "none"
      BY <1>3, <2>2 DEF IInv, Reached
    <2>4. \A t \in tasks : \A r \in t.dead : endpoint'[r] # "none" /\ r \notin open'
      BY <1>1, <1>3, <2>2 DEF IInv, Reached
    <2> QED BY <1>1, <2>1, <2>3, <2>4 DEF Reached
  <1>6. \A r \in open' \ wiped' : r = s \/ (r \in open \ wiped /\ endpoint'[r] = endpoint[r])
    BY <1>1, <1>3 DEF IInv, Typed
  <1>7. \A r : (\A n : OnItsWay(n, r) <=> OnItsWay(n, r)') /\ (PortsComing(r) <=> PortsComing(r)')
    BY <1>1, <1>2, WayStays DEF thread
  <1>8. Delivered'
    <2> SUFFICES ASSUME NEW r \in open' \ wiped', NEW n \in Entry, InTail(n)
                 PROVE  /\ endpoint'[r] = "receiving" =>
                              InLog(r, n) \/ OnItsWay(n, r) \/ Full(r)
                        /\ endpoint'[r] = "greeting"  => InGreeting(r, n) \/ OnItsWay(n, r)
      BY <1>1, <1>2, <1>7 DEF Delivered, thread, InTail, InLog, InGreeting, Full
    <2> QED BY <1>3, <1>6 DEF IInv, Delivered
  <1>9. Healed'
    BY <1>1, <1>2, <1>3, <1>6, <1>7 DEF IInv, Healed, thread
  <1> QED BY <1>4, <1>5, <1>8, <1>9 DEF IInv

\* Steps of one endpoint that is there already: only what it says of itself and
\* of its panel has to be shown
LEMMA EndpointIInv ==
    ASSUME IInv, NEW s \in Socket,
           NEW p \in {"joined", "greeting", "receiving", "ended"}, NEW g \in View, NEW v \in View,
           endpoint' = [endpoint EXCEPT ![s] = p],
           greeting' = [greeting EXCEPT ![s] = g], view' = [view EXCEPT ![s] = v],
           Len(g.log) <= TailLen, Len(v.log) <= KeepLen,
           open' \subseteq open, clients' \subseteq clients, open' \subseteq clients',
           wiped' \subseteq Socket, open' \ wiped' \subseteq open \ wiped,
           UNCHANGED <<ready, tasks, clean, thread>>,
           s \in open' \ wiped' => \A n \in Entry : InTail(n) =>
              /\ p = "receiving" => InLog(s, n)' \/ OnItsWay(n, s) \/ Full(s)'
              /\ p = "greeting"  => InGreeting(s, n)' \/ OnItsWay(n, s),
           s \in open' \ wiped' /\ clean =>
              /\ p = "receiving" => v.row = row \/ PortsComing(s)
              /\ p = "greeting"  => g.row = row \/ PortsComing(s)
    PROVE  IInv'
  <1>1. /\ endpoint' \in [Socket -> {"none", "joined", "greeting", "receiving", "ended"}]
        /\ greeting' \in [Socket -> View] /\ view' \in [Socket -> View]
        /\ endpoint'[s] = p /\ greeting'[s] = g /\ view'[s] = v
        /\ \A r \in Socket : r # s => /\ endpoint'[r] = endpoint[r] /\ view'[r] = view[r]
                                     /\ greeting'[r] = greeting[r]
    BY DEF IInv, Typed
  <1>2. Typed'
    <2>1. \A r \in Socket : Len(greeting'[r].log) <= TailLen /\ Len(view'[r].log) <= KeepLen
      BY <1>1 DEF IInv, Typed
    <2> QED BY <1>1, <2>1 DEF IInv, Typed, thread
  <1>3. Reached'
    <2>1. \A r \in Socket : endpoint[r] # "none" => endpoint'[r] # "none"
      BY <1>1
    <2>2. \A t \in tasks : t.left \subseteq Socket /\ t.dead \subseteq Socket
      BY DEF IInv, Typed, Task
    <2>3. \A r \in clients' : endpoint'[r] # "none"
      BY <2>1 DEF IInv, Typed, Reached
    <2>4. \A t \in tasks : \A r \in t.left : endpoint'[r] # "none"
      BY <2>1, <2>2 DEF IInv, Reached
    <2>5. \A t \in tasks : \A r \in t.dead : endpoint'[r] # "none" /\ r \notin open'
      BY <2>1, <2>2 DEF IInv, Reached
    <2> QED BY <2>3, <2>4, <2>5 DEF Reached
  <1>4. \A r : (\A n : OnItsWay(n, r) <=> OnItsWay(n, r)') /\ (PortsComing(r) <=> PortsComing(r)')
    BY WayStays DEF thread
  <1>5. Delivered'
    <2> SUFFICES ASSUME NEW r \in open' \ wiped', NEW n \in Entry, InTail(n)
                 PROVE  /\ endpoint'[r] = "receiving" =>
                              InLog(r, n)' \/ OnItsWay(n, r) \/ Full(r)'
                        /\ endpoint'[r] = "greeting"  => InGreeting(r, n)' \/ OnItsWay(n, r)
      BY <1>4 DEF Delivered, thread, InTail
    <2>1. CASE r = s
      BY <1>1, <2>1
    <2>2. CASE r # s
      <3>1. r \in Socket /\ r \in open \ wiped
        BY DEF IInv, Typed
      <3>2. /\ endpoint'[r] = endpoint[r] /\ view'[r] = view[r] /\ greeting'[r] = greeting[r]
        BY <1>1, <2>2, <3>1
      <3> QED BY <3>1, <3>2 DEF IInv, Delivered, InLog, InGreeting, Full
    <2> QED BY <2>1, <2>2
  <1>6. Healed'
    <2> SUFFICES ASSUME clean
                 PROVE  Healed'
      BY DEF Healed
    <2>1. ASSUME NEW r \in open' \ wiped'
          PROVE  /\ endpoint'[r] = "receiving" => view'[r].row = row \/ PortsComing(r)
                 /\ endpoint'[r] = "greeting"  => greeting'[r].row = row \/ PortsComing(r)
      <3>1. CASE r = s
        BY <1>1, <2>1, <3>1
      <3>2. CASE r # s
        <4>1. r \in Socket /\ r \in open \ wiped
          BY <2>1 DEF IInv, Typed
        <4>2. /\ endpoint'[r] = endpoint[r] /\ view'[r] = view[r] /\ greeting'[r] = greeting[r]
          BY <1>1, <3>2, <4>1
        <4> QED BY <4>1, <4>2 DEF IInv, Healed
      <3> QED BY <3>1, <3>2
    <2> QED BY <1>4, <2>1 DEF IInv, Healed, thread
  <1> QED BY <1>2, <1>3, <1>5, <1>6 DEF IInv

LEMMA Views ==
    /\ Blank \in View /\ Len(Blank.log) = 0
    /\ IInv => /\ [row |-> row, log |-> LastOf(buf, TailLen)] \in View
               /\ Len(LastOf(buf, TailLen)) <= TailLen
  <1>1. Blank \in View /\ Len(Blank.log) = 0
    BY LengthAssumption DEF Blank, View, Row, NoRow
  <1>2. ASSUME IInv
        PROVE  /\ [row |-> row, log |-> LastOf(buf, TailLen)] \in View
               /\ Len(LastOf(buf, TailLen)) <= TailLen
    <2>1. /\ LastOf(buf, TailLen) \in Seq(Entry)
          /\ Len(LastOf(buf, TailLen)) = IF Len(buf) > TailLen THEN TailLen ELSE Len(buf)
      BY <1>2, LengthAssumption, LastOfIs DEF IInv, Typed
    <2>2. row \in Row /\ TailLen \in Nat /\ Len(buf) \in Nat
      BY <1>2, LengthAssumption DEF IInv, Typed, Row
    <2> QED BY <2>1, <2>2 DEF View
  <1> QED BY <1>1, <1>2

\* The initial message has the whole tail and the present row
LEMMA PrepareIInv ==
    ASSUME IInv, NEW s \in Socket, Prepare(s)
    PROVE  IInv'
  <1> DEFINE g == [row |-> row, log |-> LastOf(buf, TailLen)]
  <1>1. /\ greeting' = [greeting EXCEPT ![s] = g]
        /\ endpoint' = [endpoint EXCEPT ![s] = "greeting"]
        /\ view' = [view EXCEPT ![s] = view[s]]
        /\ UNCHANGED <<clients, ready, tasks, open, wiped, clean, thread>>
    BY DEF Prepare, IInv, Typed
  <1>2. g \in View /\ Len(g.log) <= TailLen /\ g.row = row /\ g.log = LastOf(buf, TailLen)
    BY Views
  <1> HIDE DEF g
  <1>3. /\ view[s] \in View /\ Len(view[s].log) <= KeepLen /\ open \subseteq clients
        /\ wiped \subseteq Socket
    BY DEF IInv, Typed, Reached
  <1>4. greeting'[s] = g
    BY <1>1 DEF IInv, Typed
  <1>5. \A n : InTail(n) => InGreeting(s, n)'
    BY <1>2, <1>4 DEF InTail, InGreeting
  <1> QED BY <1>1, <1>2, <1>3, <1>5, EndpointIInv

\* The panel shows the initial message, unless something has overtaken it
LEMMA GreetIInv ==
    ASSUME IInv, NEW s \in Socket, Greet(s)
    PROVE  IInv'
  <1>1. /\ endpoint[s] = "greeting" /\ s \in open
        /\ view' = [view EXCEPT ![s] = greeting[s]]
        /\ greeting' = [greeting EXCEPT ![s] = Blank]
        /\ endpoint' = [endpoint EXCEPT ![s] = "receiving"]
        /\ UNCHANGED <<clients, ready, tasks, open, wiped, clean, thread>>
    BY DEF Greet
  <1>2. /\ greeting[s] \in View /\ Len(greeting[s].log) <= TailLen
        /\ Len(greeting[s].log) <= KeepLen /\ open \subseteq clients
        /\ wiped \subseteq Socket
    <2>1. greeting[s] \in View /\ Len(greeting[s].log) <= TailLen
      BY DEF IInv, Typed
    <2>2. Len(greeting[s].log) \in Nat /\ TailLen \in Nat /\ KeepLen \in Nat /\ TailLen <= KeepLen
      BY <2>1, LengthAssumption DEF View
    <2> QED BY <2>1, <2>2 DEF IInv, Typed, Reached
  <1>3. Blank \in View /\ Len(Blank.log) <= TailLen
    BY Views, LengthAssumption
  <1>4. view'[s] = greeting[s]
    BY <1>1 DEF IInv, Typed
  <1>5. ASSUME s \in open \ wiped, NEW n \in Entry, InTail(n)
        PROVE  InLog(s, n)' \/ OnItsWay(n, s)
    BY <1>1, <1>4, <1>5 DEF IInv, Delivered, InGreeting, InLog
  <1>6. ASSUME s \in open \ wiped, clean
        PROVE  greeting[s].row = row \/ PortsComing(s)
    BY <1>1, <1>6 DEF IInv, Healed
  <1> QED BY <1>1, <1>2, <1>3, <1>5, <1>6, EndpointIInv

LEMMA EndIInv ==
    ASSUME IInv, NEW s \in Socket, End(s)
    PROVE  IInv'
  <1>1. /\ s \notin open /\ clients' = clients \ {s}
        /\ greeting' = [greeting EXCEPT ![s] = Blank]
        /\ endpoint' = [endpoint EXCEPT ![s] = "ended"]
        /\ view' = [view EXCEPT ![s] = view[s]]
        /\ UNCHANGED <<ready, tasks, open, wiped, clean, thread>>
    BY DEF End, IInv, Typed
  <1>2. /\ view[s] \in View /\ Len(view[s].log) <= KeepLen /\ open \subseteq clients
        /\ wiped \subseteq Socket /\ Blank \in View /\ Len(Blank.log) <= TailLen
    BY Views, LengthAssumption DEF IInv, Typed, Reached
  <1> QED BY <1>1, <1>2, EndpointIInv

LEMMA DropIInv ==
    ASSUME IInv, NEW s \in Socket, Drop(s)
    PROVE  IInv'
  <1>1. /\ s \in open /\ open' = open \ {s} /\ wiped' = wiped \ {s}
        /\ view' = [view EXCEPT ![s] = Blank]
        /\ greeting' = [greeting EXCEPT ![s] = greeting[s]]
        /\ endpoint' = [endpoint EXCEPT ![s] = endpoint[s]]
        /\ UNCHANGED <<clients, ready, tasks, clean, thread>>
    BY DEF Drop, IInv, Typed
  <1>2. /\ greeting[s] \in View /\ Len(greeting[s].log) <= TailLen /\ open \subseteq clients
        /\ wiped \subseteq Socket /\ Blank \in View /\ Len(Blank.log) <= KeepLen
    BY Views, LengthAssumption DEF IInv, Typed, Reached
  <1>3. endpoint[s] \in {"joined", "greeting", "receiving", "ended"}
    BY <1>1 DEF IInv, Typed, Reached
  <1> QED BY <1>1, <1>2, <1>3, EndpointIInv

-----------------------------------------------------------------------------
(* The inductive invariant *)

LEMMA InitIInv == Init => IInv
  <1> SUFFICES ASSUME Init
               PROVE  IInv
    OBVIOUS
  <1>1. Idle \in Thread /\ Idle.pc = "idle"
    BY LengthAssumption DEF Thread, Idle, Row, NoRow
  <1>2. Blank \in View /\ Len(Blank.log) = 0
    BY Views
  <1>3. Typed
    BY <1>1, <1>2, LengthAssumption DEF Init, Typed
  <1>4. Reached /\ Delivered
    BY DEF Init, Reached, Delivered
  <1>5. Healed
    BY <1>1 DEF Init, Healed
  <1> QED BY <1>3, <1>4, <1>5 DEF IInv

LEMMA NextIInv == IInv /\ [Next]_vars => IInv'
  <1> SUFFICES ASSUME IInv, [Next]_vars
               PROVE  IInv'
    OBVIOUS
  <1>1. CASE UNCHANGED vars
    BY <1>1 DEF vars, IInv, Typed, Reached, Delivered, Healed, InTail, InLog, InGreeting,
                OnItsWay, Full, PortsComing
  <1>2. ASSUME NEW e \in Emitter, Emit(e) \/ Continue(e)
        PROVE  IInv'
    BY <1>2, EmitIInv, HandLogIInv, SnapshotIInv, HandPortsIInv DEF Continue
  <1>3. CASE SilentChange
    BY <1>3, SilentChangeIInv
  <1>4. CASE Start
    BY <1>4, StartIInv
  <1>5. CASE Broadcast
    BY <1>5, SendIInv DEF Broadcast
  <1>6. ASSUME NEW s \in Socket, Join(s) \/ Serve(s) \/ Drop(s)
        PROVE  IInv'
    BY <1>6, JoinIInv, PrepareIInv, GreetIInv, EndIInv, DropIInv DEF Serve
  <1> QED BY <1>1, <1>2, <1>3, <1>4, <1>5, <1>6 DEF Next

-----------------------------------------------------------------------------
(* Theorems *)

\* The inductive invariant holds: messages go to whoever is there, entries are
\* shown or on their way, and a change that comes alone reaches everybody
THEOREM Invariance == Spec => []IInv
  BY InitIInv, NextIInv, PTL DEF Spec

\* Log, coroutines, endpoints and panels keep their types and lengths
THEOREM TypeCorrect == Spec => []TypeOK
  <1>1. IInv => TypeOK
    <2> SUFFICES ASSUME IInv
                 PROVE  TypeOK
      OBVIOUS
    <2>1. row \in Row
      BY LengthAssumption DEF IInv, Typed, Row
    <2> QED BY <2>1 DEF IInv, Typed, Thread, Task, TypeOK
  <1> QED BY <1>1, Invariance, PTL

\* An event that is logged while nothing else goes on has, once all has been
\* sent, brought every panel up to the port
THEOREM OneEventHealsHolds == Spec => []OneEventHeals
  <1>1. IInv => OneEventHeals
    <2> SUFFICES ASSUME IInv, AtRest, clean, NEW s \in Socket \ wiped, Live(s)
                 PROVE  view[s].row = row
      BY DEF OneEventHeals
    <2>1. ~PortsComing(s)
      BY DEF AtRest, PortsComing
    <2> QED BY <2>1 DEF IInv, Healed, Live
  <1> QED BY <1>1, Invariance, PTL

-----------------------------------------------------------------------------
(* Counting what is under way to a panel *)

\* The log message of an entry is in one place at a time: in the hands of the
\* thread that logs it, waiting for the loop, or being broadcast
InHand ==
    /\ \A e, f \in Emitter :
          at[e].pc = "log" /\ at[f].pc = "log" /\ at[e].entry = at[f].entry => e = f
    /\ \A e \in Emitter : at[e].pc = "log" =>
          /\ at[e].entry \in 1..count
          /\ \A i \in DOMAIN ready : ready[i] # LogMsg(at[e].entry)
          /\ \A t \in tasks : t.msg # LogMsg(at[e].entry)

Waiting ==
    \A i \in DOMAIN ready : ready[i].type = "log" =>
        /\ ready[i].entry \in 1..count
        /\ \A j \in DOMAIN ready : ready[i] = ready[j] => i = j
        /\ \A t \in tasks : t.msg # ready[i]

Sending ==
    \A t \in tasks : t.msg.type = "log" =>
        /\ t.msg.entry \in 1..count
        /\ \A u \in tasks : t.msg = u.msg => t = u

Unique == InHand /\ Waiting /\ Sending

Pending(s) == {n \in 1..count : OnItsWay(n, s)}

LEMMA EmitUnique ==
    ASSUME IInv, Unique, NEW e \in Emitter, Emit(e)
    PROVE  Unique'
  <1> DEFINE n == count + 1
             x == [at[e] EXCEPT !.pc = "log", !.entry = n]
  <1>1. at[e].pc = "idle" /\ count' = n /\ at' = [at EXCEPT ![e] = x] /\ UNCHANGED <<ready, tasks>>
    BY DEF Emit, loop
  <1>2. n \in Nat /\ count \in Nat /\ n \notin 1..count /\ 1..count \subseteq 1..n /\ n \in 1..n
    BY DEF IInv, Typed
  <1> HIDE DEF n
  <1>3. x.pc = "log" /\ x.entry = n
    BY DEF IInv, Typed, Thread
  <1> HIDE DEF x
  <1>4. at'[e] = x /\ \A f \in Emitter : f # e => at'[f] = at[f]
    BY <1>1 DEF IInv, Typed
  <1>5. /\ \A i \in DOMAIN ready : ready[i].type = "log" => ready[i].entry \in 1..count
        /\ \A t \in tasks : t.msg.type = "log" => t.msg.entry \in 1..count
        /\ \A f \in Emitter : at[f].pc = "log" => at[f].entry \in 1..count
    BY DEF Unique, InHand, Waiting, Sending
  <1>6. LogMsg(n).type = "log" /\ LogMsg(n).entry = n
    BY Messages
  <1>7. /\ \A i \in DOMAIN ready : ready[i] # LogMsg(n)
        /\ \A t \in tasks : t.msg # LogMsg(n)
    BY <1>2, <1>5, <1>6
  <1>8. InHand'
    BY <1>1, <1>2, <1>3, <1>4, <1>5, <1>7 DEF Unique, InHand
  <1>9. Waiting' /\ Sending'
    BY <1>1, <1>2 DEF Unique, Waiting, Sending
  <1> QED BY <1>8, <1>9 DEF Unique

\* A thread that does not take up an entry, and may hand over ports
LEMMA ThreadUnique ==
    ASSUME IInv, Unique, NEW e \in Emitter, NEW x, x.pc # "log",
           at' = [at EXCEPT ![e] = x], UNCHANGED <<count, tasks>>,
           \A i \in DOMAIN ready' : \/ i \in DOMAIN ready /\ ready'[i] = ready[i]
                                    \/ ready'[i].type = "ports"
    PROVE  Unique'
  <1>1. at'[e] = x /\ \A f \in Emitter : f # e => at'[f] = at[f]
    BY DEF IInv, Typed
  <1>2. \A m : LogMsg(m).type = "log"
    BY Messages
  <1>3. InHand'
    BY <1>1, <1>2 DEF Unique, InHand
  <1>4. Waiting'
    BY DEF Unique, Waiting
  <1>5. Sending'
    BY DEF Unique, Sending
  <1> QED BY <1>3, <1>4, <1>5 DEF Unique

LEMMA HandLogUnique ==
    ASSUME IInv, Unique, NEW e \in Emitter, HandLog(e)
    PROVE  Unique'
  <1> DEFINE x == [at[e] EXCEPT !.pc = "snapshot"]
             m == LogMsg(at[e].entry)
  <1>1. /\ at[e].pc = "log" /\ Hand(m) /\ at' = [at EXCEPT ![e] = x]
        /\ UNCHANGED <<count, tasks>>
    BY DEF HandLog, IInv, Typed, loop
  <1>2. x.pc # "log"
    BY ThreadFields DEF IInv, Typed
  <1> HIDE DEF x
  <1>3. at'[e] = x /\ \A f \in Emitter : f # e => at'[f] = at[f]
    BY <1>1 DEF IInv, Typed
  <1>4. m \in Payload /\ m.type = "log" /\ m.entry = at[e].entry
    BY <1>1, Messages DEF IInv, Typed
  <1>5. /\ m.entry \in 1..count
        /\ \A i \in DOMAIN ready : ready[i] # m
        /\ \A t \in tasks : t.msg # m
    BY <1>1, <1>4 DEF Unique, InHand
  <1>6. \A f \in Emitter : f # e /\ at[f].pc = "log" => LogMsg(at[f].entry) # m
    <2>1. \A k : LogMsg(k).entry = k
      BY Messages
    <2> QED BY <1>1, <2>1 DEF Unique, InHand
  <1> HIDE DEF m
  <1>7. \A i \in DOMAIN ready' : \/ i \in DOMAIN ready /\ ready'[i] = ready[i]
                                 \/ i = Len(ready) + 1 /\ ready'[i] = m
    BY <1>1, <1>4, HandIs
  <1>8. InHand'
    BY <1>1, <1>2, <1>3, <1>6, <1>7 DEF Unique, InHand
  <1>9. Waiting'
    BY <1>1, <1>5, <1>7 DEF Unique, Waiting
  <1>10. Sending'
    BY <1>1 DEF Unique, Sending
  <1> QED BY <1>8, <1>9, <1>10 DEF Unique

LEMMA StartUnique ==
    ASSUME IInv, Unique, Start
    PROVE  Unique'
  <1> DEFINE t == [msg |-> Head(ready), left |-> clients, dead |-> {}]
  <1>1. ready # <<>> /\ ready' = Tail(ready) /\ UNCHANGED <<at, count>>
    BY DEF Start, thread
  <1>2. tasks' = IF clients = {} THEN tasks ELSE tasks \union {t}
    BY DEF Start
  <1>3. /\ 1 \in DOMAIN ready /\ Head(ready) = ready[1]
        /\ \A i \in DOMAIN ready' : i + 1 \in DOMAIN ready /\ ready'[i] = ready[i + 1]
        /\ \A i \in DOMAIN ready' : i \in Int /\ i + 1 # 1
    <2>1. ready' \in Seq(Payload)
      BY <1>1, Taken DEF IInv, Typed
    <2> QED BY <1>1, <2>1, Taken DEF IInv, Typed
  <1>4. t.msg = ready[1]
    BY <1>3
  <1> HIDE DEF t
  <1>5. \A u \in tasks' : u \in tasks \/ u = t
    BY <1>2
  <1>6. InHand'
    BY <1>1, <1>3, <1>4, <1>5 DEF Unique, InHand
  <1>7. Waiting'
    BY <1>1, <1>3, <1>4, <1>5 DEF Unique, Waiting
  <1>8. Sending'
    BY <1>1, <1>3, <1>4, <1>5 DEF Unique, Waiting, Sending
  <1> QED BY <1>6, <1>7, <1>8 DEF Unique

LEMMA ProceedUnique ==
    ASSUME IInv, Unique, NEW t \in tasks, NEW s \in t.left, NEW dead \in SUBSET Socket,
           Proceed(t, t.left \ {s}, dead), UNCHANGED <<at, count, ready>>
    PROVE  Unique'
  <1>1. /\ tasks' \subseteq Task
        /\ \A u \in tasks' : u \in tasks \ {t} \/ Narrowed(u, t, s, dead)
    BY Proceeded DEF IInv
  <1>2. \A u, w \in Task : Narrowed(u, t, s, dead) /\ Narrowed(w, t, s, dead) => u = w
    BY DEF Narrowed, Task
  <1>3. \A u : Narrowed(u, t, s, dead) => u.msg = t.msg
    BY DEF Narrowed
  <1>4. InHand' /\ Waiting'
    BY <1>1, <1>3 DEF Unique, InHand, Waiting
  <1>5. Sending'
    BY <1>1, <1>2, <1>3 DEF Unique, Sending
  <1> QED BY <1>4, <1>5 DEF Unique

LEMMA NextUnique == IInv /\ Unique /\ [Next]_vars => Unique'
  <1> SUFFICES ASSUME IInv, Unique, [Next]_vars
               PROVE  Unique'
    OBVIOUS
  <1>1. ASSUME UNCHANGED <<at, count, ready, tasks>>
        PROVE  Unique'
    BY <1>1 DEF Unique, InHand, Waiting, Sending
  <1>2. CASE UNCHANGED vars \/ SilentChange
    BY <1>1, <1>2 DEF vars, SilentChange, loop
  <1>3. ASSUME NEW e \in Emitter, Snapshot(e)
        PROVE  Unique'
    <2> DEFINE x == [at[e] EXCEPT !.pc = "ports", !.row = row]
    <2>1. at' = [at EXCEPT ![e] = x] /\ UNCHANGED <<count, tasks, ready>>
      BY <1>3 DEF Snapshot, loop
    <2>2. x.pc # "log"
      <3>1. row \in Row /\ at[e] \in Thread
        BY LengthAssumption DEF IInv, Typed, Row
      <3> QED BY <3>1, ThreadFields
    <2> HIDE DEF x
    <2> QED BY <2>1, <2>2, ThreadUnique
  <1>4. ASSUME NEW e \in Emitter, HandPorts(e)
        PROVE  Unique'
    <2> DEFINE m == PortsMsg(at[e].entry, at[e].row)
    <2>1. /\ at[e].pc = "ports" /\ at' = [at EXCEPT ![e] = Idle] /\ Hand(m)
          /\ UNCHANGED <<count, tasks>>
      BY <1>4 DEF HandPorts, loop
    <2>2. m \in Payload /\ m.type = "ports"
      BY <2>1, Messages DEF IInv, Typed, Thread
    <2> HIDE DEF m
    <2>3. \A i \in DOMAIN ready' : \/ i \in DOMAIN ready /\ ready'[i] = ready[i]
                                   \/ ready'[i].type = "ports"
      BY <2>1, <2>2, HandIs
    <2>4. Idle.pc # "log"
      BY DEF Idle
    <2> QED BY <2>1, <2>3, <2>4, ThreadUnique
  <1>5. ASSUME NEW t \in tasks, NEW s \in t.left, Send(t, s)
        PROVE  Unique'
    <2>1. UNCHANGED <<at, count, ready>>
      BY <1>5 DEF Send, thread
    <2>2. t.dead \in SUBSET Socket /\ t.dead \union {s} \in SUBSET Socket
      BY DEF IInv, Typed, Task
    <2>3. \/ Proceed(t, t.left \ {s}, t.dead)
          \/ Proceed(t, t.left \ {s}, t.dead \union {s})
      BY <1>5 DEF Send, Failed
    <2> QED BY <2>1, <2>2, <2>3, ProceedUnique
  <1>6. ASSUME NEW s \in Socket, Join(s) \/ Serve(s) \/ Drop(s)
        PROVE  Unique'
    BY <1>1, <1>6 DEF Join, Serve, Prepare, Greet, End, Drop, thread
  <1>7. CASE Start
    BY <1>7, StartUnique
  <1> QED BY <1>2, <1>3, <1>4, <1>5, <1>6, <1>7, EmitUnique, HandLogUnique
          DEF Next, Continue, Broadcast

\* One element more at most, and one less
LEMMA SubsetCount ==
    ASSUME NEW S, IsFiniteSet(S), NEW x, NEW T
    PROVE  /\ T \subseteq S =>
                 Cardinality(T) \in Nat /\ Cardinality(T) <= Cardinality(S)
           /\ T \subseteq S \union {x} =>
                 Cardinality(T) \in Nat /\ Cardinality(T) <= Cardinality(S) + 1
           /\ x \in S /\ T \subseteq S \ {x} =>
                 Cardinality(T) \in Nat /\ Cardinality(T) <= Cardinality(S) - 1
  <1>1. ASSUME NEW U, IsFiniteSet(U), T \subseteq U
        PROVE  Cardinality(T) \in Nat /\ Cardinality(T) <= Cardinality(U)
    <2>1. IsFiniteSet(T) /\ Cardinality(T) <= Cardinality(U)
      BY <1>1, FS_Subset
    <2> QED BY <2>1, FS_CardinalityType
  <1>2. Cardinality(S) \in Nat
    BY FS_CardinalityType
  <1>3. ASSUME T \subseteq S \union {x}
        PROVE  Cardinality(T) \in Nat /\ Cardinality(T) <= Cardinality(S) + 1
    <2>1. /\ IsFiniteSet(S \union {x})
          /\ Cardinality(S \union {x}) = IF x \in S THEN Cardinality(S) ELSE Cardinality(S) + 1
      BY FS_AddElement
    <2>2. Cardinality(T) \in Nat /\ Cardinality(T) <= Cardinality(S \union {x})
      BY <1>1, <1>3, <2>1
    <2> QED BY <1>2, <2>1, <2>2
  <1>4. ASSUME x \in S, T \subseteq S \ {x}
        PROVE  Cardinality(T) \in Nat /\ Cardinality(T) <= Cardinality(S) - 1
    <2>1. IsFiniteSet(S \ {x}) /\ Cardinality(S \ {x}) = Cardinality(S) - 1
      BY <1>4, FS_RemoveElement
    <2>2. Cardinality(T) \in Nat /\ Cardinality(T) <= Cardinality(S \ {x})
      BY <1>1, <1>4, <2>1
    <2> QED BY <2>1, <2>2
  <1> QED BY <1>1, <1>3, <1>4

LEMMA PendingFinite ==
    ASSUME Typed, NEW s
    PROVE  /\ IsFiniteSet(Pending(s)) /\ Cardinality(Pending(s)) \in Nat
           /\ Cardinality(Pending(s)) <= count
  <1>1. count \in Nat
    BY DEF Typed
  <1>2. IsFiniteSet(1..count) /\ Cardinality(1..count) = count
    BY <1>1, FS_Interval
  <1>3. Pending(s) \in SUBSET (1..count)
    BY DEF Pending
  <1> QED BY <1>2, <1>3, FS_Subset, FS_CardinalityType

-----------------------------------------------------------------------------
(* Positions: how far an entry is from being pushed out of a panel.  The    *)
(* lemmas about logs and numbers stand by themselves.                       *)

\* Entry n is in the log, and even with p more entries shown after it there is
\* room for those that come after the c-th, as long as n is in the tail
Kept(log, n, p, c) ==
    \E i \in DOMAIN log : /\ log[i] = n
                          /\ (Len(log) - i) + p <= (KeepLen - TailLen) + (c - n)

LEMMA KeptOn ==
    ASSUME NEW log \in Seq(Entry), NEW n \in Entry, NEW p \in Nat, NEW q \in Nat,
           NEW c \in Nat, NEW d \in Nat, Kept(log, n, p, c), q + c <= p + d
    PROVE  Kept(log, n, q, d)
  <1>1. PICK i \in DOMAIN log :
            log[i] = n /\ (Len(log) - i) + p <= (KeepLen - TailLen) + (c - n)
    BY DEF Kept
  <1>2. i \in Int /\ Len(log) \in Int /\ n \in Int /\ KeepLen \in Int /\ TailLen \in Int
    BY <1>1, LengthAssumption DEF Entry
  <1>3. (Len(log) - i) + q <= (KeepLen - TailLen) + (d - n)
    BY <1>1, <1>2
  <1> QED BY <1>1, <1>3 DEF Kept

\* The numbers run up to c
Runs(s, c) == \A i \in DOMAIN s : s[i] = (c - Len(s)) + i

LEMMA RunsLastOf ==
    ASSUME NEW s \in Seq(Entry), NEW c \in Nat, NEW k \in Nat, Runs(s, c)
    PROVE  Runs(LastOf(s, k), c)
  <1> DEFINE l == LastOf(s, k)
  <1>1. /\ l \in Seq(Entry) /\ Len(l) = IF Len(s) > k THEN k ELSE Len(s)
        /\ \A i \in 1..Len(l) : l[i] = s[(Len(s) - Len(l)) + i]
    BY LastOfIs
  <1> HIDE DEF l
  <1>2. Len(s) \in Nat /\ Len(l) \in Nat /\ Len(l) <= Len(s) /\ DOMAIN s = 1..Len(s)
        /\ DOMAIN l = 1..Len(l)
    BY <1>1
  <1>3. ASSUME NEW i \in DOMAIN l
        PROVE  l[i] = (c - Len(l)) + i
    <2> DEFINE j == (Len(s) - Len(l)) + i
    <2>1. i \in 1..Len(l) /\ j \in 1..Len(s)
      BY <1>2
    <2>2. l[i] = s[j]
      BY <1>1, <2>1
    <2>3. s[j] = (c - Len(s)) + j
      BY <1>2, <2>1 DEF Runs
    <2>4. (c - Len(s)) + j = (c - Len(l)) + i
      BY <1>2, <2>1
    <2> QED BY <2>2, <2>3, <2>4
  <1>4. Runs(l, c)
    BY <1>3 DEF Runs
  <1> QED BY <1>4 DEF l

LEMMA RunsAppend ==
    ASSUME NEW s \in Seq(Entry), NEW c \in Nat, Runs(s, c)
    PROVE  Runs(Append(s, c + 1), c + 1)
  <1> DEFINE a == Append(s, c + 1)
  <1>1. /\ Len(s) \in Nat /\ Len(a) = Len(s) + 1 /\ DOMAIN a = 1..(Len(s) + 1)
        /\ a[Len(s) + 1] = c + 1 /\ \A i \in 1..Len(s) : a[i] = s[i]
    BY DEF Entry
  <1> HIDE DEF a
  <1>2. ASSUME NEW i \in DOMAIN a
        PROVE  a[i] = ((c + 1) - Len(a)) + i
    <2>1. CASE i = Len(s) + 1
      BY <1>1, <2>1
    <2>2. CASE i # Len(s) + 1
      <3>1. i \in 1..Len(s) /\ i \in DOMAIN s
        BY <1>1, <2>2
      <3>2. a[i] = (c - Len(s)) + i
        BY <1>1, <3>1 DEF Runs
      <3> QED BY <1>1, <3>1, <3>2
    <2> QED BY <2>1, <2>2
  <1>3. Runs(a, c + 1)
    BY <1>2 DEF Runs
  <1> QED BY <1>3 DEF a

\* In an initial message, with no more under way than there is room for
LEMMA KeptInTail ==
    ASSUME NEW log \in Seq(Entry), NEW n \in Entry, NEW p \in Nat, NEW c \in Nat,
           Runs(log, c), \E i \in DOMAIN log : log[i] = n, p <= KeepLen - TailLen
    PROVE  Kept(log, n, p, c)
  <1>1. PICK i \in DOMAIN log : log[i] = n
    OBVIOUS
  <1>2. n = (c - Len(log)) + i
    BY <1>1 DEF Runs
  <1>3. i \in Int /\ Len(log) \in Int /\ n \in Int /\ KeepLen \in Int /\ TailLen \in Int
    BY <1>1, LengthAssumption DEF Entry
  <1>4. Len(log) - i = c - n /\ c - n \in Int
    BY <1>2, <1>3
  <1>5. (Len(log) - i) + p <= (KeepLen - TailLen) + (c - n)
    <2>1. (c - n) + p <= (KeepLen - TailLen) + (c - n)
      BY <1>3, <1>4
    <2> QED BY <1>4, <2>1
  <1> QED BY <1>1, <1>5 DEF Kept

\* The entry that is shown last
LEMMA KeptLast ==
    ASSUME NEW log \in Seq(Entry), Len(log) <= KeepLen, NEW n \in Entry,
           NEW p \in Nat, NEW c \in Nat, n <= c, p <= KeepLen - TailLen
    PROVE  Kept(LastOf(Append(log, n), KeepLen), n, p, c)
  <1> DEFINE a == Append(log, n)
             l == LastOf(a, KeepLen)
  <1>1. a \in Seq(Entry) /\ Len(a) = Len(log) + 1 /\ a[Len(log) + 1] = n
    OBVIOUS
  <1>2. KeepLen \in Nat \ {0} /\ TailLen \in Nat /\ Len(log) \in Nat /\ n \in Int
    BY LengthAssumption DEF Entry
  <1> HIDE DEF a
  <1>3. /\ l \in Seq(Entry) /\ Len(l) = (IF Len(a) > KeepLen THEN KeepLen ELSE Len(a))
        /\ \A i \in 1..Len(l) : l[i] = a[(Len(a) - Len(l)) + i]
    BY <1>1, <1>2, LastOfIs
  <1> HIDE DEF l
  <1>4. Len(l) \in 1..Len(l) /\ DOMAIN l = 1..Len(l) /\ (Len(a) - Len(l)) + Len(l) = Len(log) + 1
    BY <1>1, <1>2, <1>3
  <1>5. l[Len(l)] = n
    BY <1>1, <1>3, <1>4
  <1>6. (Len(l) - Len(l)) + p <= (KeepLen - TailLen) + (c - n)
    BY <1>2, <1>4
  <1>7. Kept(l, n, p, c)
    BY <1>4, <1>5, <1>6 DEF Kept
  <1> QED BY <1>7 DEF a, l

LEMMA Fewer ==
    ASSUME NEW x \in Int, NEW i \in Int, NEW p \in Int, NEW q \in Int, NEW room \in Int,
           (x - i) + p <= room, q + 1 <= p
    PROVE  ((x + 1) - i) + q <= room
  OBVIOUS

\* An entry of the tail when another is shown that was under way: a full panel
\* drops its oldest, and that is not this one
LEMMA KeptShown ==
    ASSUME NEW log \in Seq(Entry), Len(log) <= KeepLen, NEW m \in Entry, NEW n \in Entry,
           NEW p \in Nat, NEW q \in Nat, NEW c \in Nat, Kept(log, n, p, c),
           c - n < TailLen, q + 1 <= p
    PROVE  Kept(LastOf(Append(log, m), KeepLen), n, q, c)
  <1> DEFINE a == Append(log, m)
             l == LastOf(a, KeepLen)
  <1>1. PICK i \in DOMAIN log :
            log[i] = n /\ (Len(log) - i) + p <= (KeepLen - TailLen) + (c - n)
    BY DEF Kept
  <1>2. /\ a \in Seq(Entry) /\ Len(a) = Len(log) + 1 /\ i \in 1..Len(log)
        /\ \A k \in 1..Len(log) : a[k] = log[k]
    OBVIOUS
  <1>3. KeepLen \in Nat \ {0} /\ TailLen \in Nat /\ Len(log) \in Nat /\ n \in Int /\ i \in Int
    BY <1>2, LengthAssumption DEF Entry
  <1> HIDE DEF a
  <1>4. /\ l \in Seq(Entry) /\ Len(l) = (IF Len(a) > KeepLen THEN KeepLen ELSE Len(a))
        /\ \A k \in 1..Len(l) : l[k] = a[(Len(a) - Len(l)) + k]
    BY <1>2, <1>3, LastOfIs
  <1> HIDE DEF l
  <1> DEFINE j == i - (Len(a) - Len(l))
  <1>5. j \in Int /\ Len(l) \in Nat /\ DOMAIN l = 1..Len(l)
    <2>1. Len(l) \in Nat /\ DOMAIN l = 1..Len(l)
      BY <1>4
    <2>2. Len(a) \in Nat
      BY <1>2, <1>3
    <2> QED BY <1>3, <2>1, <2>2
  <1>6. j >= 1
    <2>1. CASE Len(log) < KeepLen
      <3>1. Len(l) = Len(a)
        BY <1>2, <1>3, <1>4, <2>1
      <3>2. i >= 1 /\ j = i - (Len(a) - Len(a)) /\ Len(a) \in Nat
        BY <1>2, <1>3, <3>1
      <3> HIDE DEF j
      <3> QED BY <1>3, <3>2
    <2>2. CASE Len(log) = KeepLen
      <3>1. Len(l) = KeepLen /\ j = i - 1
        BY <1>2, <1>3, <1>4, <2>2
      <3>2. (KeepLen - i) + p <= (KeepLen - TailLen) + (c - n)
        BY <1>1, <2>2
      <3> HIDE DEF j
      <3> QED BY <1>3, <3>1, <3>2
    <2> QED BY <1>3, <2>1, <2>2
  <1>7. j <= Len(l)
    BY <1>2, <1>3, <1>5
  <1>8. (Len(a) - Len(l)) + j = i
    BY <1>2, <1>3, <1>5
  <1>9. (Len(l) - j) + q <= (KeepLen - TailLen) + (c - n)
    <2> DEFINE room == (KeepLen - TailLen) + (c - n)
    <2>1. Len(l) - j = (Len(log) + 1) - i
      <3>1. (Len(a) - Len(l)) + j = i /\ Len(a) = Len(log) + 1
        BY <1>2, <1>8
      <3> HIDE DEF j
      <3> QED BY <1>3, <1>5, <3>1
    <2>2. (Len(log) - i) + p <= room /\ room \in Int
      BY <1>1, <1>3
    <2> HIDE DEF j, room
    <2>3. ((Len(log) + 1) - i) + q <= room
      BY <1>3, <2>2, Fewer
    <2> QED BY <2>1, <2>3 DEF room
  <1> HIDE DEF j
  <1>10. j \in 1..Len(l)
    BY <1>5, <1>6, <1>7
  <1>11. l[j] = n
    BY <1>1, <1>2, <1>4, <1>8, <1>10
  <1>12. Kept(l, n, q, c)
    BY <1>5, <1>9, <1>10, <1>11 DEF Kept
  <1> QED BY <1>12 DEF a, l

-----------------------------------------------------------------------------
(* Nothing is lost while no panel has more under way to it than there is    *)
(* room for beyond the tail                                                 *)

\* No more entries are under way to a panel than it keeps beyond the tail
Uncrowded == \A s \in Socket : Cardinality(Pending(s)) <= KeepLen - TailLen

\* The log has the latest entries, without a gap
Consecutive == Runs(buf, count)

Near(s, log, n) == Kept(log, n, Cardinality(Pending(s)), count)

\* An entry of the tail that is no longer on its way to a panel is shown by it,
\* or is in its initial message, and not so far back that what is under way
\* could push it out
Close ==
    \A s \in open \ wiped : \A n \in Entry : InTail(n) /\ ~OnItsWay(n, s) =>
        /\ endpoint[s] = "receiving" => Near(s, view[s].log, n)
        /\ endpoint[s] = "greeting"  => Near(s, greeting[s].log, n)

LEMMA NextConsecutive ==
    ASSUME IInv, Consecutive, [Next]_vars
    PROVE  Consecutive'
  <1>1. CASE UNCHANGED <<buf, count>>
    BY <1>1 DEF Consecutive, Runs
  <1>2. ASSUME NEW e \in Emitter, Emit(e)
        PROVE  Consecutive'
    <2> DEFINE a == Append(buf, count + 1)
    <2>1. count' = count + 1 /\ buf' = LastOf(a, BufLen)
      BY <1>2 DEF Emit
    <2>2. buf \in Seq(Entry) /\ count \in Nat /\ count + 1 \in Entry
      BY <1>2, LengthAssumption DEF IInv, Typed, Emit, Entry
    <2>3. a \in Seq(Entry) /\ Runs(a, count + 1)
      BY <2>2, RunsAppend DEF Consecutive
    <2> HIDE DEF a
    <2>4. Runs(LastOf(a, BufLen), count + 1)
      BY <2>2, <2>3, RunsLastOf, LengthAssumption
    <2>5. Runs(buf', count')
      BY <2>1, <2>4
    <2> QED BY <2>5 DEF Consecutive, Runs
  <1>3. UNCHANGED <<buf, count>> \/ \E e \in Emitter : Emit(e)
    BY DEF Next, vars, Continue, HandLog, Snapshot, HandPorts, SilentChange, Start,
           Broadcast, Send, Join, Serve, Prepare, Greet, End, Drop, thread
  <1> QED BY <1>1, <1>2, <1>3

\* The tail has the latest TailLen entries
LEMMA TailIs ==
    ASSUME IInv, Consecutive
    PROVE  /\ LastOf(buf, TailLen) \in Seq(Entry) /\ Runs(LastOf(buf, TailLen), count)
           /\ \A n \in Entry : InTail(n) => n <= count /\ count - n < TailLen
  <1> DEFINE l == LastOf(buf, TailLen)
  <1>1. /\ buf \in Seq(Entry) /\ Len(buf) \in Nat /\ count \in Nat /\ TailLen \in Nat
        /\ Runs(buf, count)
    BY LengthAssumption DEF IInv, Typed, Consecutive
  <1>2. l \in Seq(Entry) /\ Len(l) = IF Len(buf) > TailLen THEN TailLen ELSE Len(buf)
    BY <1>1, LastOfIs
  <1>3. Runs(l, count)
    BY <1>1, RunsLastOf
  <1>4. ASSUME NEW n \in Entry, InTail(n)
        PROVE  n <= count /\ count - n < TailLen
    <2>1. PICK i \in DOMAIN l : l[i] = n
      BY <1>4 DEF InTail
    <2> HIDE DEF l
    <2>2. n = (count - Len(l)) + i
      BY <1>3, <2>1 DEF Runs
    <2>3. i \in 1..Len(l) /\ Len(l) \in Nat /\ Len(l) <= TailLen
      BY <1>1, <1>2, <2>1
    <2> QED BY <1>1, <2>2, <2>3
  <1> QED BY <1>2, <1>3, <1>4

\* A step that shows nothing and only moves what is on its way to those there
LEMMA SteadyClose ==
    ASSUME IInv, Close,
           UNCHANGED <<count, buf, endpoint, open, greeting, view, wiped>>,
           \A s \in open : \A n : OnItsWay(n, s) <=> OnItsWay(n, s)'
    PROVE  Close'
  <1> SUFFICES ASSUME NEW s \in open \ wiped, NEW n \in Entry, InTail(n)', ~OnItsWay(n, s)'
               PROVE  /\ endpoint[s] = "receiving" => Near(s, view[s].log, n)'
                      /\ endpoint[s] = "greeting"  => Near(s, greeting[s].log, n)'
    BY DEF Close
  <1>1. InTail(n) /\ ~OnItsWay(n, s)
    BY DEF InTail
  <1>2. Pending(s)' = Pending(s)
    BY DEF Pending
  <1>3. \A log : Kept(log, n, Cardinality(Pending(s)'), count') <=>
                 Kept(log, n, Cardinality(Pending(s)), count)
    BY <1>2
  <1>4. /\ Near(s, view[s].log, n) => Near(s, view[s].log, n)'
        /\ Near(s, greeting[s].log, n) => Near(s, greeting[s].log, n)'
    BY <1>3 DEF Near, Kept
  <1> QED BY <1>1, <1>4 DEF Close

\* A thread hands over the message of its entry, or ports, or takes the row
LEMMA ThreadClose ==
    ASSUME IInv, Close, NEW e \in Emitter, HandLog(e) \/ Snapshot(e) \/ HandPorts(e)
    PROVE  Close'
  <1>1. UNCHANGED <<count, buf, tasks, endpoint, open, greeting, view, wiped>>
    BY DEF HandLog, Snapshot, HandPorts, loop
  <1>2. \A k : LogMsg(k).type = "log" /\ LogMsg(k).entry = k
    BY Messages
  <1>3. CASE HandLog(e)
    <2> DEFINE x == [at[e] EXCEPT !.pc = "snapshot"]
               k == at[e].entry
    <2>1. /\ at[e].pc = "log" /\ Hand(LogMsg(k)) /\ at' = [at EXCEPT ![e] = x]
      BY <1>3 DEF HandLog, IInv, Typed
    <2>2. x.pc = "snapshot" /\ LogMsg(k) \in Payload
      BY <2>1, ThreadFields, Messages DEF IInv, Typed
    <2> HIDE DEF x
    <2>3. at'[e] = x /\ \A f \in Emitter : f # e => at'[f] = at[f]
      BY <2>1 DEF IInv, Typed
    <2>4. /\ \A i \in DOMAIN ready : i \in DOMAIN ready' /\ ready'[i] = ready[i]
          /\ open # {} => \E i \in DOMAIN ready' : ready'[i] = LogMsg(k)
          /\ \A i \in DOMAIN ready' : \/ i \in DOMAIN ready /\ ready'[i] = ready[i]
                                      \/ ready'[i] = LogMsg(k)
      BY <2>1, <2>2, HandIs
    <2>5. ASSUME NEW s \in open, NEW n
          PROVE  OnItsWay(n, s) => OnItsWay(n, s)'
      BY <1>1, <2>3, <2>4 DEF OnItsWay
    <2>6. ASSUME NEW s \in open, NEW n
          PROVE  OnItsWay(n, s)' => OnItsWay(n, s)
      BY <1>1, <1>2, <2>1, <2>2, <2>3, <2>4 DEF OnItsWay
    <2> QED BY <1>1, <2>5, <2>6, SteadyClose
  <1>4. CASE Snapshot(e)
    <2> DEFINE x == [at[e] EXCEPT !.pc = "ports", !.row = row]
    <2>1. at[e].pc = "snapshot" /\ at' = [at EXCEPT ![e] = x] /\ ready' = ready
      BY <1>4 DEF Snapshot
    <2>2. x.pc = "ports"
      <3>1. row \in Row /\ at[e] \in Thread
        BY LengthAssumption DEF IInv, Typed, Row
      <3> QED BY <3>1, ThreadFields
    <2> HIDE DEF x
    <2>3. at'[e] = x /\ \A f \in Emitter : f # e => at'[f] = at[f]
      BY <2>1 DEF IInv, Typed
    <2>4. ASSUME NEW s \in open, NEW n
          PROVE  OnItsWay(n, s) <=> OnItsWay(n, s)'
      BY <1>1, <2>1, <2>2, <2>3 DEF OnItsWay
    <2> QED BY <1>1, <2>4, SteadyClose
  <1>5. CASE HandPorts(e)
    <2> DEFINE m == PortsMsg(at[e].entry, at[e].row)
    <2>1. at[e].pc = "ports" /\ Hand(m) /\ at' = [at EXCEPT ![e] = Idle]
      BY <1>5 DEF HandPorts
    <2>2. Idle.pc = "idle" /\ m \in Payload /\ m.type = "ports"
      BY <2>1, Messages DEF IInv, Typed, Thread, Idle
    <2> HIDE DEF m
    <2>3. at'[e] = Idle /\ \A f \in Emitter : f # e => at'[f] = at[f]
      BY <2>1 DEF IInv, Typed
    <2>4. /\ \A i \in DOMAIN ready : i \in DOMAIN ready' /\ ready'[i] = ready[i]
          /\ \A i \in DOMAIN ready' : \/ i \in DOMAIN ready /\ ready'[i] = ready[i]
                                      \/ ready'[i] = m
      BY <2>1, <2>2, HandIs
    <2>5. ASSUME NEW s \in open, NEW n
          PROVE  OnItsWay(n, s) => OnItsWay(n, s)'
      BY <1>1, <2>1, <2>3, <2>4 DEF OnItsWay
    <2>6. ASSUME NEW s \in open, NEW n
          PROVE  OnItsWay(n, s)' => OnItsWay(n, s)
      BY <1>1, <1>2, <2>2, <2>3, <2>4 DEF OnItsWay
    <2> QED BY <1>1, <2>5, <2>6, SteadyClose
  <1> QED BY <1>3, <1>4, <1>5

\* A broadcast begins
LEMMA StartClose ==
    ASSUME IInv, Close, Start
    PROVE  Close'
  <1> DEFINE t == [msg |-> Head(ready), left |-> clients, dead |-> {}]
  <1>1. /\ ready # <<>> /\ ready' = Tail(ready)
        /\ tasks' = IF clients = {} THEN tasks ELSE tasks \union {t}
        /\ UNCHANGED <<at, count, buf, endpoint, open, greeting, view, wiped>>
    BY DEF Start, thread
  <1>2. /\ 1 \in DOMAIN ready /\ Head(ready) = ready[1]
        /\ \A i \in DOMAIN ready' : i + 1 \in DOMAIN ready /\ ready'[i] = ready[i + 1]
        /\ \A i \in DOMAIN ready : i = 1 \/ \E j \in DOMAIN ready' : ready'[j] = ready[i]
    BY <1>1, Taken DEF IInv, Typed
  <1>3. t.msg = ready[1] /\ t.left = clients
    BY <1>2
  <1> HIDE DEF t
  <1>4. /\ tasks \subseteq tasks' /\ open \subseteq clients
        /\ open # {} => t \in tasks'
        /\ \A u \in tasks' : u \in tasks \/ u = t
    BY <1>1 DEF IInv, Reached
  <1>5. ASSUME NEW s \in open, NEW n
        PROVE  OnItsWay(n, s) => OnItsWay(n, s)'
    BY <1>1, <1>2, <1>3, <1>4 DEF OnItsWay
  <1>6. ASSUME NEW s \in open, NEW n
        PROVE  OnItsWay(n, s)' => OnItsWay(n, s)
    BY <1>1, <1>2, <1>3, <1>4 DEF OnItsWay
  <1> QED BY <1>1, <1>5, <1>6, SteadyClose

\* The new entry is on its way to everybody, and takes room for one
LEMMA EmitClose ==
    ASSUME IInv, Close, NEW e \in Emitter, Emit(e)
    PROVE  Close'
  <1> DEFINE k == count + 1
             x == [at[e] EXCEPT !.pc = "log", !.entry = k]
  <1>1. /\ at[e].pc = "idle" /\ count' = k /\ at' = [at EXCEPT ![e] = x]
        /\ buf' = LastOf(Append(buf, k), BufLen)
        /\ UNCHANGED <<ready, tasks, endpoint, open, greeting, view, wiped>>
    BY DEF Emit, loop
  <1>2. count \in Nat /\ k \in Entry /\ 1..k = 1..count \union {k} /\ buf \in Seq(Entry)
    BY LengthAssumption DEF Emit, IInv, Typed, Entry
  <1>3. x.pc = "log" /\ x.entry = k
    BY DEF IInv, Typed, Thread
  <1> HIDE DEF x
  <1>4. at'[e] = x /\ \A f \in Emitter : f # e => at'[f] = at[f]
    BY <1>1 DEF IInv, Typed
  <1>5. ASSUME NEW s, NEW n
        PROVE  OnItsWay(n, s)' <=> OnItsWay(n, s) \/ n = k
    BY <1>1, <1>3, <1>4 DEF OnItsWay
  <1> HIDE DEF k
  <1> SUFFICES ASSUME NEW s \in open \ wiped, NEW n \in Entry, InTail(n)', ~OnItsWay(n, s)'
               PROVE  /\ endpoint[s] = "receiving" => Near(s, view[s].log, n)'
                      /\ endpoint[s] = "greeting"  => Near(s, greeting[s].log, n)'
    BY <1>1 DEF Close
  <1>6. InTail(n) /\ ~OnItsWay(n, s)
    <2>1. InTail(n) \/ n = k
      BY <1>1, <1>2, TailStep
    <2> QED BY <1>5, <2>1
  <1> DEFINE p == Cardinality(Pending(s))
             q == Cardinality(Pending(s)')
  <1>7. p \in Nat /\ q \in Nat /\ q + count <= p + k
    <2>1. Pending(s)' \subseteq Pending(s) \union {k}
      BY <1>1, <1>2, <1>5 DEF Pending
    <2>2. IsFiniteSet(Pending(s)) /\ p \in Nat
      BY PendingFinite DEF IInv
    <2>3. q \in Nat /\ q <= p + 1
      BY <2>1, <2>2, SubsetCount
    <2> HIDE DEF p, q
    <2> QED BY <1>2, <2>2, <2>3 DEF k
  <1>8. /\ view[s].log \in Seq(Entry) /\ greeting[s].log \in Seq(Entry)
        /\ count \in Nat /\ k \in Nat
    BY <1>2 DEF IInv, Typed, View, Entry
  <1>9. \A log \in Seq(Entry) : Kept(log, n, p, count) => Kept(log, n, q, k)
    <2> HIDE DEF p, q
    <2> QED BY <1>7, <1>8, KeptOn
  <1>10. \A log \in Seq(Entry) : Near(s, log, n) => Kept(log, n, q, k)
    BY <1>9 DEF Near
  <1>11. /\ Kept(view[s].log, n, q, k) => Near(s, view[s].log, n)'
         /\ Kept(greeting[s].log, n, q, k) => Near(s, greeting[s].log, n)'
    BY <1>1 DEF Near, Kept
  <1> HIDE DEF p, q
  <1> QED BY <1>6, <1>8, <1>10, <1>11 DEF Close

\* A message to a browser that has gone
LEMMA MissClose ==
    ASSUME IInv, Close, NEW t \in tasks, NEW s \in t.left, Send(t, s), s \notin open
    PROVE  Close'
  <1>1. UNCHANGED <<at, ready, count, buf, endpoint, open, greeting, view, wiped>>
    BY DEF Send, thread
  <1>2. PICK dead \in SUBSET Socket : Proceed(t, t.left \ {s}, dead)
    BY DEF Send, Failed, IInv, Typed, Task
  <1>3. \A n : \A r \in open : OnItsWay(n, r) => OnItsWay(n, r)'
    BY <1>1, <1>2, ProceedWay DEF IInv
  <1>4. \A u \in tasks' : u \in tasks \ {t} \/ Narrowed(u, t, s, dead)
    BY <1>2, Proceeded DEF IInv
  <1>5. \A u \in tasks' : \E w \in tasks : w.msg = u.msg /\ u.left \subseteq w.left
    BY <1>4 DEF Narrowed
  <1>6. \A n : \A r \in open : OnItsWay(n, r)' => OnItsWay(n, r)
    BY <1>1, <1>5 DEF OnItsWay
  <1> QED BY <1>1, <1>3, <1>6, SteadyClose

\* The message of an entry that is sent is no longer on its way, which makes room
\* for what it may push out
LEMMA SentPending ==
    ASSUME IInv, Unique, NEW t \in tasks, NEW s \in t.left, s \in open, Send(t, s)
    PROVE  /\ \A r : Pending(r)' \subseteq Pending(r)
           /\ \A r, n : OnItsWay(n, r) =>
                 OnItsWay(n, r)' \/ (r = s /\ t.msg = LogMsg(n))
           /\ t.msg.type = "log" => /\ t.msg.entry \in Pending(s)
                                    /\ t.msg.entry \notin Pending(s)'
  <1>1. UNCHANGED <<at, count, ready>> /\ Proceed(t, t.left \ {s}, t.dead)
    BY DEF Send, thread
  <1>2. t \in Task /\ t.msg \in Payload /\ t.dead \in SUBSET Socket
    BY DEF IInv, Typed, Task
  <1>3. \A u \in tasks' : u \in tasks \ {t} \/ Narrowed(u, t, s, t.dead)
    BY <1>1, <1>2, Proceeded DEF IInv
  <1>4. \A u \in tasks' : \E w \in tasks : w.msg = u.msg /\ u.left \subseteq w.left
    BY <1>3 DEF Narrowed
  <1>5. \A r, n : OnItsWay(n, r)' => OnItsWay(n, r)
    BY <1>1, <1>4 DEF OnItsWay
  <1>6. \A r : Pending(r)' \subseteq Pending(r)
    BY <1>1, <1>5 DEF Pending
  <1>7. \A r, n : OnItsWay(n, r) => OnItsWay(n, r)' \/ (r = s /\ t.msg = LogMsg(n))
    BY <1>1, <1>2, ProceedWay DEF IInv
  <1>8. ASSUME t.msg.type = "log"
        PROVE  t.msg.entry \in Pending(s) /\ t.msg.entry \notin Pending(s)'
    <2> DEFINE n == t.msg.entry
    <2>1. t.msg = LogMsg(n) /\ n \in 1..count
      BY <1>2, <1>8, Messages DEF Unique, Sending
    <2>2. n \in Pending(s)
      BY <2>1 DEF Pending, OnItsWay
    <2>3. \A u \in tasks' : u.msg = LogMsg(n) => s \notin u.left
      <3>1. \A u \in tasks : u # t => u.msg # t.msg
        BY <1>8 DEF Unique, Sending
      <3> QED BY <1>3, <2>1, <3>1 DEF Narrowed
    <2>4. \A i \in DOMAIN ready : ready[i] # LogMsg(n)
      BY <1>8, <2>1 DEF Unique, Waiting
    <2>5. \A f \in Emitter : ~(at[f].pc = "log" /\ at[f].entry = n)
      BY <2>1 DEF Unique, InHand
    <2> HIDE DEF n
    <2>6. n \notin Pending(s)'
      BY <1>1, <2>3, <2>4, <2>5 DEF Pending, OnItsWay
    <2> QED BY <2>2, <2>6 DEF n
  <1> QED BY <1>6, <1>7, <1>8

\* A message reaches a panel
LEMMA ReachClose ==
    ASSUME IInv, Unique, Consecutive, Close, Uncrowded,
           NEW t \in tasks, NEW s \in t.left, s \in open, Send(t, s)
    PROVE  Close'
  <1> DEFINE m == t.msg
  <1>1. /\ UNCHANGED <<count, buf, endpoint, open, greeting>>
        /\ view' = [view EXCEPT ![s] = Shown(view[s], m)]
        /\ wiped' = IF endpoint[s] = "greeting" THEN wiped \union {s} ELSE wiped
    BY DEF Send, thread
  <1>2. /\ m \in Payload /\ s \in Socket
        /\ m.type = "log" => m.entry \in Entry
    BY Messages DEF IInv, Typed, Task
  <1>3. /\ \A r : Pending(r)' \subseteq Pending(r)
        /\ \A r, n : OnItsWay(n, r) => OnItsWay(n, r)' \/ (r = s /\ m = LogMsg(n))
        /\ m.type = "log" => m.entry \in Pending(s) /\ m.entry \notin Pending(s)'
    BY SentPending
  <1>4. view'[s] = Shown(view[s], m) /\ \A r \in Socket : r # s => view'[r] = view[r]
    BY <1>1, <1>2 DEF IInv, Typed
  <1>5. LogMsg(m.entry).type = "log" /\ \A n : LogMsg(n).type = "log" /\ LogMsg(n).entry = n
    BY Messages
  <1> HIDE DEF m
  <1> SUFFICES ASSUME NEW r \in open \ wiped', NEW n \in Entry, InTail(n)', ~OnItsWay(n, r)'
               PROVE  /\ endpoint[r] = "receiving" => Near(r, view[r].log, n)'
                      /\ endpoint[r] = "greeting"  => Near(r, greeting[r].log, n)'
    BY <1>1 DEF Close
  <1>6. r \in open \ wiped /\ InTail(n) /\ r \in Socket
    BY <1>1 DEF InTail, IInv, Typed
  <1> DEFINE p == Cardinality(Pending(r))
             q == Cardinality(Pending(r)')
  <1>7. IsFiniteSet(Pending(r)) /\ p \in Nat /\ p <= KeepLen - TailLen
    BY <1>6, PendingFinite DEF IInv, Uncrowded
  <1>8. q \in Nat /\ q <= p
    BY <1>3, <1>7, SubsetCount
  <1>9. /\ view[r].log \in Seq(Entry) /\ greeting[r].log \in Seq(Entry) /\ count \in Nat
        /\ Len(view[r].log) <= KeepLen /\ view[r] \in View
    BY <1>6 DEF IInv, Typed, View
  <1>10. n <= count /\ count - n < TailLen
    BY <1>6, TailIs
  <1>11. /\ \A log : Near(r, log, n) <=> Kept(log, n, p, count)
         /\ Near(r, view[r].log, n)' <=> Kept(view'[r].log, n, q, count)
         /\ Near(r, greeting[r].log, n)' <=> Kept(greeting[r].log, n, q, count)
    BY <1>1 DEF Near, Kept
  <1> HIDE DEF p, q
  <1>12. \A log \in Seq(Entry) : Kept(log, n, p, count) => Kept(log, n, q, count)
    BY <1>7, <1>8, <1>9, KeptOn
  <1>13. CASE r # s
    <2>1. ~OnItsWay(n, r) /\ view'[r] = view[r]
      BY <1>3, <1>4, <1>6, <1>13
    <2> QED BY <1>6, <1>9, <1>11, <1>12, <2>1 DEF Close
  <1>14. CASE r = s
    <2>1. endpoint[r] # "greeting"
      BY <1>1, <1>14
    <2>2. CASE m.type = "ports"
      <3>1. view'[r].log = view[r].log
        BY <1>2, <1>4, <1>9, <1>14, <2>2, ShownIs
      <3>2. ~OnItsWay(n, r)
        BY <1>3, <1>5, <2>2
      <3> QED BY <1>6, <1>9, <1>11, <1>12, <2>1, <3>1, <3>2 DEF Close
    <2>3. CASE m.type = "log"
      <3>1. view'[r].log = LastOf(Append(view[r].log, m.entry), KeepLen)
        <4> DEFINE l == LastOf(Append(view[r].log, m.entry), KeepLen)
        <4>1. view'[r] = [view[r] EXCEPT !.log = l]
          BY <1>4, <1>14, <2>3 DEF Shown
        <4> HIDE DEF l
        <4>2. view'[r].log = l
          BY <1>9, <4>1 DEF View
        <4> QED BY <4>2 DEF l
      <3>2. m.entry \in Entry
        BY <1>2, <2>3
      <3>3. CASE n = m.entry
        <4>1. q <= KeepLen - TailLen
          BY <1>7, <1>8, LengthAssumption
        <4>2. Kept(view'[r].log, n, q, count)
          BY <1>8, <1>9, <1>10, <3>1, <3>3, <4>1, KeptLast
        <4> QED BY <1>11, <2>1, <4>2
      <3>4. CASE n # m.entry
        <4>1. ~OnItsWay(n, r)
          BY <1>3, <1>5, <3>4
        <4>2. q + 1 <= p
          <5>1. m.entry \in Pending(r) /\ Pending(r)' \subseteq Pending(r) \ {m.entry}
            BY <1>3, <1>14, <2>3
          <5>2. q <= p - 1
            BY <1>7, <5>1, SubsetCount DEF p, q
          <5> QED BY <1>7, <1>8, <5>2
        <4>3. endpoint[r] = "receiving" => Kept(view[r].log, n, p, count)
          BY <1>6, <1>11, <4>1 DEF Close
        <4>4. Kept(view[r].log, n, p, count) => Kept(view'[r].log, n, q, count)
          BY <1>7, <1>8, <1>9, <1>10, <3>1, <3>2, <4>2, KeptShown
        <4> QED BY <1>11, <2>1, <4>3, <4>4
      <3> QED BY <3>3, <3>4
    <2> QED BY <1>2, <2>2, <2>3, Messages
  <1> QED BY <1>13, <1>14

\* An endpoint or a browser: an initial message has the tail as it is, a panel
\* stays, is emptied, or takes the initial message
LEMMA EndpointClose ==
    ASSUME IInv, Consecutive, Close, Uncrowded, NEW s \in Socket, Join(s) \/ Serve(s) \/ Drop(s)
    PROVE  Close'
  <1>1. UNCHANGED <<at, count, buf, ready, tasks>>
    BY DEF Join, Serve, Prepare, Greet, End, Drop, thread
  <1> SUFFICES ASSUME NEW r \in open' \ wiped', NEW n \in Entry, InTail(n)', ~OnItsWay(n, r)'
               PROVE  /\ endpoint'[r] = "receiving" => Near(r, view[r].log, n)'
                      /\ endpoint'[r] = "greeting"  => Near(r, greeting[r].log, n)'
    BY DEF Close
  <1>2. InTail(n) /\ ~OnItsWay(n, r) /\ Pending(r)' = Pending(r)
    BY <1>1, WayStays DEF InTail, Pending
  <1>3. r \in Socket
    BY DEF Join, Serve, Prepare, Greet, End, Drop, IInv, Typed
  <1>4. /\ Near(r, view[r].log, n)' <=> Near(r, view'[r].log, n)
        /\ Near(r, greeting[r].log, n)' <=> Near(r, greeting'[r].log, n)
    BY <1>1, <1>2 DEF Near, Kept
  <1>5. ASSUME endpoint'[r] = "receiving"
        PROVE  Near(r, view'[r].log, n)
    <2>1. /\ r \in open \ wiped
          /\ \/ endpoint[r] = "receiving" /\ view'[r] = view[r]
             \/ endpoint[r] = "greeting" /\ view'[r] = greeting[r]
      BY <1>3, <1>5 DEF Join, Serve, Prepare, Greet, End, Drop, IInv, Typed
    <2> QED BY <1>2, <2>1 DEF Close
  <1>6. ASSUME endpoint'[r] = "greeting"
        PROVE  Near(r, greeting'[r].log, n)
    <2>1. \/ r \in open \ wiped /\ endpoint[r] = "greeting" /\ greeting'[r] = greeting[r]
          \/ greeting'[r].log = LastOf(buf, TailLen)
      BY <1>3, <1>6 DEF Join, Serve, Prepare, Greet, End, Drop, IInv, Typed
    <2>2. CASE greeting'[r].log = LastOf(buf, TailLen)
      <3> DEFINE l == LastOf(buf, TailLen)
                 p == Cardinality(Pending(r))
      <3>1. l \in Seq(Entry) /\ Runs(l, count)
        BY TailIs
      <3>2. \E i \in DOMAIN l : l[i] = n
        BY <1>2 DEF InTail
      <3>3. p \in Nat /\ count \in Nat /\ p <= KeepLen - TailLen
        BY <1>3, PendingFinite DEF IInv, Typed, Uncrowded
      <3> HIDE DEF l, p
      <3>4. Kept(l, n, p, count)
        BY <3>1, <3>2, <3>3, KeptInTail
      <3> QED BY <2>2, <3>4 DEF Near, l, p
    <2> QED BY <1>2, <2>1, <2>2 DEF Close
  <1> QED BY <1>4, <1>5, <1>6

LEMMA NextClose ==
    ASSUME IInv, Unique, Consecutive, Close, Uncrowded, [Next]_vars
    PROVE  Close'
  <1>1. CASE UNCHANGED vars \/ SilentChange
    <2>1. UNCHANGED <<at, ready, tasks, count, buf, endpoint, open, greeting, view, wiped>>
      BY <1>1 DEF vars, SilentChange, loop
    <2> QED BY <2>1, WayStays, SteadyClose
  <1>2. ASSUME NEW e \in Emitter, Emit(e) \/ Continue(e)
        PROVE  Close'
    BY <1>2, EmitClose, ThreadClose DEF Continue
  <1>3. CASE Start
    BY <1>3, StartClose
  <1>4. ASSUME NEW t \in tasks, NEW s \in t.left, Send(t, s)
        PROVE  Close'
    BY <1>4, ReachClose, MissClose
  <1>5. ASSUME NEW s \in Socket, Join(s) \/ Serve(s) \/ Drop(s)
        PROVE  Close'
    BY <1>5, EndpointClose
  <1> QED BY <1>1, <1>2, <1>3, <1>4, <1>5 DEF Next, Broadcast

LEMMA InitClose == Init => Unique /\ Consecutive /\ Close
  BY DEF Init, Unique, InHand, Waiting, Sending, Idle, Consecutive, Runs, Close

LEMMA CloseNothingLost ==
    ASSUME Close
    PROVE  NothingLost
  BY DEF Close, Near, Kept, NothingLost, Live, InLog

\* As long as no panel has more entries under way to it than it keeps beyond the
\* tail (150 in the code), no entry falls between the initial message and the
\* broadcasts, however much is logged and whoever joins and leaves: an entry of
\* the tail that has been sent to a panel is not pushed out of it.
THEOREM NothingLostHolds == Spec /\ []Uncrowded => []NothingLost
  <1> DEFINE CInv == IInv /\ Unique /\ Consecutive /\ Close
  <1>1. Init => CInv
    BY InitIInv, InitClose
  <1>2. CInv /\ Uncrowded /\ [Next]_vars => CInv'
    BY NextIInv, NextUnique, NextConsecutive, NextClose
  <1>3. CInv => NothingLost
    BY CloseNothingLost
  <1> HIDE DEF CInv
  <1> QED BY <1>1, <1>2, <1>3, PTL DEF Spec

\* Less has been logged than a panel keeps beyond the tail
Early == TailLen + count <= KeepLen

LEMMA EarlyBefore ==
    ASSUME IInv, [Next]_vars, Early'
    PROVE  Early
  <1>1. count \in Int /\ TailLen \in Int /\ KeepLen \in Int
    BY LengthAssumption DEF IInv, Typed
  <1>2. count' = count \/ count' = count + 1
    BY DEF Next, vars, Emit, Continue, HandLog, Snapshot, HandPorts, SilentChange, Start,
           Broadcast, Send, Join, Serve, Prepare, Greet, End, Drop, thread
  <1>3. TailLen + count' <= KeepLen
    BY DEF Early
  <1>4. TailLen + count <= KeepLen
    BY <1>1, <1>2, <1>3
  <1> QED BY <1>4 DEF Early

\* No more can be under way than has been logged: however slow the sends, no entry
\* is lost before the room of the panels beyond the tail has been logged
THEOREM NothingLostEarly == Spec => [](Early => NothingLost)
  <1> DEFINE EInv == IInv /\ Unique /\ Consecutive /\ (Early => Close)
  <1>1. Init => EInv
    BY InitIInv, InitClose
  <1>2. ASSUME EInv, [Next]_vars
        PROVE  EInv'
    <2>1. IInv' /\ Unique' /\ Consecutive'
      BY <1>2, NextIInv, NextUnique, NextConsecutive
    <2>2. ASSUME Early'
          PROVE  Close'
      <3>1. count \in Nat /\ TailLen \in Nat /\ KeepLen \in Nat
        BY <1>2, LengthAssumption DEF IInv, Typed
      <3>2. Early
        BY <1>2, <2>2, EarlyBefore
      <3>3. Uncrowded
        <4> SUFFICES ASSUME NEW s \in Socket
                     PROVE  Cardinality(Pending(s)) <= KeepLen - TailLen
          BY DEF Uncrowded
        <4>1. Cardinality(Pending(s)) \in Nat /\ Cardinality(Pending(s)) <= count
          BY <1>2, PendingFinite DEF IInv
        <4> QED BY <3>1, <3>2, <4>1 DEF Early
      <3> QED BY <1>2, <3>2, <3>3, NextClose
    <2> QED BY <2>1, <2>2
  <1>3. EInv => (Early => NothingLost)
    BY CloseNothingLost
  <1>4. Spec => []EInv
    <2> HIDE DEF EInv
    <2> QED BY <1>1, <1>2, PTL DEF Spec
  <1> QED BY <1>3, <1>4, PTL

\* Whatever is under way, an entry of the tail is missed by a panel only if the
\* panel is full: what is lost was pushed out by entries that came late, and never
\* fell between the initial message and the broadcasts
OnlyPushedOut ==
    \A s \in Socket \ wiped : Live(s) =>
        \A n \in Entry : InTail(n) => InLog(s, n) \/ OnItsWay(n, s) \/ Full(s)

\* Only a panel that is full (onmessage keeps the last 200) misses an entry of the tail
THEOREM OnlyPushedOutHolds == Spec => []OnlyPushedOut
  <1>1. IInv => OnlyPushedOut
    BY DEF IInv, Delivered, OnlyPushedOut, Live
  <1> QED BY <1>1, Invariance, PTL
=============================================================================
