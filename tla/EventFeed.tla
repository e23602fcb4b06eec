----------------------------- MODULE EventFeed -----------------------------
(***************************************************************************)
(* The way of an event from the thread that logs it to the dashboards:     *)
(* EventLog.emit (logging_/event_log.py), _on_new_event, _broadcast and    *)
(* websocket_endpoint (instructor_api/app.py), and what a panel makes of   *)
(* the messages (useSwitchSocket.js, onmessage).                           *)
(*                                                                         *)
(* An emitter is any thread that changes a port and logs it: SSH session,  *)
(* NX-API, thread pool of the instructor API, fabric bus.  It hands two    *)
(* coroutines to the event loop, which runs them one after another up to   *)
(* their awaits.  One port is followed, and only which version of its row  *)
(* is shown; entries of the log are numbers in the order of their append.  *)
(***************************************************************************)
EXTENDS Integers, Sequences, FiniteSets

CONSTANTS
    Emitter,    \* threads that log
    Socket,     \* WebSocket connections, each used once
    BufLen,     \* entries the log keeps (1000)
    TailLen,    \* entries of the initial message (50)
    KeepLen,    \* entries a panel keeps (200)
    MaxChanges  \* bound: events and silent changes of the row

ASSUME LengthAssumption ==
    /\ {BufLen, TailLen, KeepLen} \subseteq Nat \ {0}
    /\ TailLen <= KeepLen
    /\ MaxChanges \in Nat

VARIABLES
    row,      \* version of the row that brief_row makes of the port
    changes,  \* events begun and silent changes so far
    buf,      \* EventLog._buf
    count,    \* entries appended so far
    at,       \* [Emitter -> [pc, entry, row]]: where a thread is in emit
    clients,  \* _ws_clients
    ready,    \* coroutines handed to the loop and not started, by payload
    tasks,    \* broadcasts that have started
    endpoint, \* [Socket -> phase of websocket_endpoint]
    open,     \* sockets whose browser is there
    greeting, \* [Socket -> View]: the initial message being put together
    view,     \* [Socket -> View]: what the panel shows
    wiped,    \* history: open sockets whose initial message was overtaken
    clean     \* history: the last change was logged with nothing else going on

vars == <<row, changes, buf, count, at, clients, ready, tasks, endpoint, open,
          greeting, view, wiped, clean>>
thread == <<row, changes, buf, count, at>>
loop   == <<clients, tasks, endpoint, open, greeting, view, wiped>>

LastOf(s, n) == IF Len(s) > n THEN SubSeq(s, Len(s) - n + 1, Len(s)) ELSE s

LogMsg(n)      == [type |-> "log", entry |-> n]
PortsMsg(n, r) == [type |-> "ports", entry |-> n, row |-> r]

NoRow == 0
Blank == [row |-> NoRow, log |-> <<>>]
Idle  == [pc |-> "idle", entry |-> 0, row |-> NoRow]

-----------------------------------------------------------------------------
(* The emitting threads                                                    *)

Init ==
    /\ row = 1 /\ changes = 0 /\ count = 0
    /\ buf = <<>> /\ ready = <<>>
    /\ at = [e \in Emitter |-> Idle]
    /\ clients = {} /\ tasks = {} /\ open = {} /\ wiped = {}
    /\ endpoint = [s \in Socket |-> "none"]
    /\ greeting = [s \in Socket |-> Blank]
    /\ view = [s \in Socket |-> Blank]
    /\ clean = TRUE

AtRest == (\A e \in Emitter : at[e].pc = "idle") /\ ready = <<>> /\ tasks = {}

\* _set writes the state and calls emit, which appends; what comes between is
\* seen by nobody but a panel that is joining.  An event that changes no row
\* counts as a new version of the same row.
Emit(e) ==
    /\ at[e].pc = "idle"
    /\ changes < MaxChanges
    /\ changes' = changes + 1
    /\ row' = row + 1
    /\ count' = count + 1
    /\ buf' = LastOf(Append(buf, count'), BufLen)
    /\ at' = [at EXCEPT ![e] = [@ EXCEPT !.pc = "log", !.entry = count']]
    /\ clean' = AtRest
    /\ UNCHANGED <<ready, loop>>

\* switchport mode, switchport speed, vsan, reload: the row changes, and no
\* entry is logged
SilentChange ==
    /\ changes < MaxChanges
    /\ changes' = changes + 1
    /\ row' = row + 1
    /\ clean' = FALSE
    /\ UNCHANGED <<buf, count, at, ready, loop>>

\* _broadcast_soon: nothing is handed over while nobody listens
Hand(payload) ==
    ready' = IF clients = {} THEN ready ELSE Append(ready, payload)

\* Wrong variant: only the entry is sent
HandLog_Alone(e) ==
    /\ at[e].pc = "log"
    /\ Hand(LogMsg(at[e].entry))
    /\ at' = [at EXCEPT ![e] = Idle]
    /\ UNCHANGED <<row, changes, buf, count, clean, loop>>

HandLog(e) ==
    /\ at[e].pc = "log"
    /\ Hand(LogMsg(at[e].entry))
    /\ at' = [at EXCEPT ![e].pc = "snapshot"]
    /\ UNCHANGED <<row, changes, buf, count, clean, loop>>

Snapshot(e) ==
    /\ at[e].pc = "snapshot"
    /\ at' = [at EXCEPT ![e] = [@ EXCEPT !.pc = "ports", !.row = row]]
    /\ UNCHANGED <<row, changes, buf, count, ready, clean, loop>>

HandPorts(e) ==
    /\ at[e].pc = "ports"
    /\ Hand(PortsMsg(at[e].entry, at[e].row))
    /\ at' = [at EXCEPT ![e] = Idle]
    /\ UNCHANGED <<row, changes, buf, count, clean, loop>>

Continue(e) == HandLog(e) \/ Snapshot(e) \/ HandPorts(e)

-----------------------------------------------------------------------------
(* The event loop.  Between the add and the first await of an endpoint the *)
(* loop runs nothing else; the emitting threads do go on.                  *)

LoopFree == \A s \in Socket : endpoint[s] # "joined"

\* list(_ws_clients) is taken when the coroutine starts
Start ==
    /\ LoopFree
    /\ ready # <<>>
    /\ tasks' = IF clients = {} THEN tasks
                ELSE tasks \union {[msg |-> Head(ready), left |-> clients, dead |-> {}]}
    /\ ready' = Tail(ready)
    /\ UNCHANGED <<clients, endpoint, open, greeting, view, wiped, clean, thread>>

\* Wrong variant: the panel keeps all entries
Shown_All(v, msg) ==
    IF msg.type = "log" THEN [v EXCEPT !.log = Append(@, msg.entry)]
    ELSE [v EXCEPT !.row = msg.row]

\* onmessage
Shown(v, msg) ==
    IF msg.type = "log"
    THEN [v EXCEPT !.log = LastOf(Append(@, msg.entry), KeepLen)]
    ELSE [v EXCEPT !.row = msg.row]

\* The broadcast t with one client fewer to serve; at the end it drops from
\* _ws_clients whoever could not be sent to
Proceed(t, left, dead) ==
    /\ tasks' = (tasks \ {t})
                 \union (IF left = {} THEN {} ELSE {[t EXCEPT !.left = left, !.dead = dead]})
    /\ clients' = IF left = {} THEN clients \ dead ELSE clients

\* Wrong variant: the exception ends the broadcast
Failed_Ends(t, s) == Proceed(t, {}, t.dead \union {s})

\* A send that raises is remembered, and the broadcast goes on
Failed(t, s) == Proceed(t, t.left \ {s}, t.dead \union {s})

\* One send_text of a broadcast.  A set has no order, and the library may
\* suspend any send for a while, so any client may be next.  To a browser that
\* has gone the send fails or is lost.
Send(t, s) ==
    /\ LoopFree
    /\ \/ /\ s \in open
          /\ view' = [view EXCEPT ![s] = Shown(@, t.msg)]
          /\ wiped' = IF endpoint[s] = "greeting" THEN wiped \union {s} ELSE wiped
          /\ Proceed(t, t.left \ {s}, t.dead)
       \/ /\ s \notin open
          /\ Proceed(t, t.left \ {s}, t.dead) \/ Failed(t, s)
          /\ UNCHANGED <<view, wiped>>
    /\ UNCHANGED <<ready, endpoint, open, greeting, clean, thread>>

Broadcast == \E t \in tasks : \E s \in t.left : Send(t, s)

\* A browser connects: accept, then _ws_clients.add
Join(s) ==
    /\ LoopFree
    /\ endpoint[s] = "none"
    /\ open' = open \union {s}
    /\ clients' = clients \union {s}
    /\ endpoint' = [endpoint EXCEPT ![s] = "joined"]
    /\ UNCHANGED <<ready, tasks, greeting, view, wiped, clean, thread>>

\* The ports and event_log.tail(50), read as one step as no property compares
\* the two; the send that follows may wait for the end of the handshake
Prepare(s) ==
    /\ endpoint[s] = "joined"
    /\ greeting' = [greeting EXCEPT ![s] = [row |-> row, log |-> LastOf(buf, TailLen)]]
    /\ endpoint' = [endpoint EXCEPT ![s] = "greeting"]
    /\ UNCHANGED <<clients, ready, tasks, open, view, wiped, clean, thread>>

\* The panel replaces all it shows by the initial message
Greet(s) ==
    /\ LoopFree
    /\ endpoint[s] = "greeting" /\ s \in open
    /\ view' = [view EXCEPT ![s] = greeting[s]]
    /\ greeting' = [greeting EXCEPT ![s] = Blank]
    /\ endpoint' = [endpoint EXCEPT ![s] = "receiving"]
    /\ UNCHANGED <<clients, ready, tasks, open, wiped, clean, thread>>

\* The send or receive_text raises, and the finally clause forgets the client
End(s) ==
    /\ LoopFree
    /\ endpoint[s] \in {"greeting", "receiving"} /\ s \notin open
    /\ clients' = clients \ {s}
    /\ endpoint' = [endpoint EXCEPT ![s] = "ended"]
    /\ greeting' = [greeting EXCEPT ![s] = Blank]
    /\ UNCHANGED <<ready, tasks, open, view, wiped, clean, thread>>

Serve(s) == Prepare(s) \/ Greet(s) \/ End(s)

\* The page is closed or the network fails; what it showed no longer matters
Drop(s) ==
    /\ s \in open
    /\ open' = open \ {s}
    /\ wiped' = wiped \ {s}
    /\ view' = [view EXCEPT ![s] = Blank]
    /\ UNCHANGED <<clients, ready, tasks, endpoint, greeting, clean, thread>>

Next ==
    \/ \E e \in Emitter : Emit(e) \/ Continue(e)
    \/ SilentChange
    \/ Start
    \/ Broadcast
    \/ \E s \in Socket : Join(s) \/ Serve(s) \/ Drop(s)

Spec == Init /\ [][Next]_vars

-----------------------------------------------------------------------------
(* Properties                                                              *)

Entry == 1..MaxChanges
Row   == 0..(1 + MaxChanges)
View  == [row : Row, log : Seq(Entry)]
Payload == [type : {"log"}, entry : Entry]
           \union [type : {"ports"}, entry : Entry, row : Row]

\* Every variable has its type; log and panels stay within their lengths
\* (deque(maxlen), slice(-199))
TypeOK ==
    /\ row \in Row /\ changes \in 0..MaxChanges /\ count \in 0..changes
    /\ buf \in Seq(Entry) /\ Len(buf) <= BufLen
    /\ at \in [Emitter -> [pc : {"idle", "log", "snapshot", "ports"},
                           entry : Entry \union {0}, row : Row]]
    /\ clients \subseteq Socket /\ open \subseteq Socket /\ wiped \subseteq Socket
    /\ ready \in Seq(Payload)
    /\ tasks \subseteq [msg : Payload, left : SUBSET Socket, dead : SUBSET Socket]
    /\ endpoint \in [Socket -> {"none", "joined", "greeting",
                                "receiving", "ended"}]
    /\ greeting \in [Socket -> View] /\ view \in [Socket -> View]
    /\ \A s \in Socket : Len(view[s].log) <= KeepLen
    /\ clean \in BOOLEAN

\* A panel that has had its initial message and can be reached
Live(s) == endpoint[s] = "receiving" /\ s \in open

InTail(n) == \E i \in DOMAIN LastOf(buf, TailLen) : LastOf(buf, TailLen)[i] = n
InLog(s, n) == \E i \in DOMAIN view[s].log : view[s].log[i] = n

\* Entry n is yet to be sent to socket s
OnItsWay(n, s) ==
    \/ \E e \in Emitter : at[e].pc = "log" /\ at[e].entry = n
    \/ \E i \in DOMAIN ready : ready[i] = LogMsg(n)
    \/ \E t \in tasks : t.msg = LogMsg(n) /\ s \in t.left

\* No entry falls between the initial message and the broadcasts, whenever
\* the client joins and whoever else drops: a panel has every recent entry or
\* will get it (websocket_endpoint adds the client before it takes the tail,
\* emit appends before it tells the subscribers).  Not for a panel whose
\* initial message, held up in the handshake, was overtaken by a broadcast
\* and then wiped it out.  Of a full panel it is not true in general: older
\* entries that are broadcast late push out a newer one, once more are under way
\* to the panel than it keeps beyond the tail.
NothingLost ==
    \A s \in Socket \ wiped : Live(s) =>
        \A n \in Entry : InTail(n) => InLog(s, n) \/ OnItsWay(n, s)

\* An event that is logged while nothing else goes on brings every panel up to
\* the port, also one that had missed silent changes or was shown an older
\* snapshot last (_on_new_event sends the ports with every entry)
OneEventHeals ==
    AtRest /\ clean => \A s \in Socket \ wiped : Live(s) => view[s].row = row

=============================================================================
