---------------------------- MODULE SwitchSocket ----------------------------
(***************************************************************************)
(* The hook of the dashboard that keeps a panel up to date                 *)
(* (useSwitchSocket.js): a WebSocket that is opened again when it closes,  *)
(* and polling after three failures in a row.  A panel is identified by    *)
(* its place in the list (App.jsx), so that removing a switch gives the    *)
(* panel another URL: the effect of the old URL is cancelled, and what it  *)
(* has under way still reports into the same panel.                        *)
(***************************************************************************)
EXTENDS Integers, FiniteSets

CONSTANTS
    Switch,      \* switches the panel is pointed at
    Upgrades,    \* those whose server can do WebSockets (uvicorn needs a library)
    MaxEffects,  \* bound: effects run, one per URL
    MaxDrops,    \* bound: connections lost in the network
    MaxOutages   \* bound: outages of switches

ASSUME UpgradesAssumption == Upgrades \subseteq Switch
ASSUME BoundAssumption ==
    MaxEffects \in Nat \ {0} /\ MaxDrops \in Nat /\ MaxOutages \in Nat

VARIABLES
    effect,   \* [1..n -> Effect]: the runs of the effect, the last one current
    panel,    \* what useState holds: connected, transport, and whose ports
    up,       \* the switches that run
    drops, outages,
    late      \* history: [1..n -> Nat], writes of ports by a cancelled effect

vars == <<effect, panel, up, drops, outages, late>>

Nobody == "nobody"

Effect == [url : Switch, cancelled : BOOLEAN, failures : 0..3,
           ws : {"none", "connecting", "open", "live", "closing"},
           timer : {"none", "retry", "poll"}, fetching : BOOLEAN]

Started(s) == [url |-> s, cancelled |-> FALSE, failures |-> 0,
               ws |-> "connecting", timer |-> "none", fetching |-> FALSE]

Current == effect[Cardinality(DOMAIN effect)]

-----------------------------------------------------------------------------
Init ==
    /\ \E s \in Switch : effect = [i \in {1} |-> Started(s)]
    /\ panel = [connected |-> FALSE, transport |-> "ws", shows |-> Nobody]
    /\ up \in SUBSET Switch
    /\ drops = 0 /\ outages = 0
    /\ late = [i \in {1} |-> 0]

Accepted(e) == e.url \in up \intersect Upgrades

\* onopen
Opens(i) ==
    /\ effect[i].ws = "connecting" /\ Accepted(effect[i])
    /\ effect' = [effect EXCEPT ![i] = [@ EXCEPT !.ws = "open", !.failures = 0]]
    /\ panel' = [panel EXCEPT !.connected = TRUE, !.transport = "ws"]
    /\ UNCHANGED <<up, drops, outages, late>>

\* onmessage; a socket that we are closing delivers nothing more
Receives(i, before) ==
    /\ effect[i].ws = before /\ effect[i].url \in up
    /\ effect' = [effect EXCEPT ![i].ws = "live"]
    /\ panel' = [panel EXCEPT !.shows = effect[i].url]
    /\ UNCHANGED <<up, drops, outages, late>>

\* The switch greets who connects; it sends the ports whenever it logs an event
Greeted(i)   == Receives(i, "open")
EventSeen(i) == Receives(i, "live")

\* Wrong variant: poll and retry
AfterClose_Both(e) ==
    [e EXCEPT !.failures = @ + 1, !.ws = "none",
              !.fetching = (e.failures >= 2),
              !.timer = IF e.cancelled THEN "none" ELSE "retry"]

\* Wrong variant: the third failure ends the effort
AfterClose_GivesUp(e) ==
    [e EXCEPT !.failures = @ + 1, !.ws = "none",
              !.timer = IF e.cancelled \/ e.failures >= 2 THEN "none" ELSE "retry"]

\* Poll after the third failure in a row, cancelled or not; before that try
\* again in a while
AfterClose(e) ==
    LET third == e.failures >= 2
    IN  [e EXCEPT !.failures = @ + 1, !.ws = "none", !.fetching = third,
                  !.timer = IF third \/ e.cancelled THEN "none" ELSE "retry"]

\* onclose: the socket could not be opened, was closed by us, or broke
Closes(i) ==
    /\ \/ effect[i].ws = "closing"
       \/ effect[i].ws = "connecting" /\ ~Accepted(effect[i])
       \/ effect[i].ws \in {"open", "live"} /\ effect[i].url \notin up
    /\ effect' = [effect EXCEPT ![i] = AfterClose(@)]
    /\ panel' = [panel EXCEPT !.connected = FALSE]
    /\ UNCHANGED <<up, drops, outages, late>>

Drops(i) ==
    /\ drops < MaxDrops
    /\ drops' = drops + 1
    /\ effect[i].ws \in {"connecting", "open", "live"}
    /\ effect' = [effect EXCEPT ![i] = AfterClose(@)]
    /\ panel' = [panel EXCEPT !.connected = FALSE]
    /\ UNCHANGED <<up, outages, late>>

\* connect, which does nothing once the effect is cancelled
Connect(e) == [e EXCEPT !.timer = "none", !.ws = IF e.cancelled THEN @ ELSE "connecting"]

\* The retry timer runs connect
Retry(i) ==
    /\ effect[i].timer = "retry"
    /\ effect' = [effect EXCEPT ![i] = Connect(@)]
    /\ UNCHANGED <<panel, up, drops, outages, late>>

\* Wrong variant: the timer is set whether cancelled or not
Polled_Forever(e) == [e EXCEPT !.fetching = FALSE, !.timer = "poll"]

\* The end of poll
Polled(e) ==
    [e EXCEPT !.fetching = FALSE, !.timer = IF e.cancelled THEN "none" ELSE "poll"]

PollSucceeds(i) ==
    /\ effect[i].fetching /\ effect[i].url \in up
    /\ effect' = [effect EXCEPT ![i] = Polled(@)]
    /\ panel' = [connected |-> TRUE, transport |-> "poll", shows |-> effect[i].url]
    /\ late' = IF effect[i].cancelled THEN [late EXCEPT ![i] = @ + 1] ELSE late
    /\ UNCHANGED <<up, drops, outages>>

PollFails(i) ==
    /\ effect[i].fetching /\ effect[i].url \notin up
    /\ effect' = [effect EXCEPT ![i] = Polled(@)]
    /\ panel' = [panel EXCEPT !.connected = FALSE]
    /\ UNCHANGED <<up, drops, outages, late>>

PollAgain(i) ==
    /\ effect[i].timer = "poll"
    /\ effect' = [effect EXCEPT ![i] = [@ EXCEPT !.timer = "none", !.fetching = TRUE]]
    /\ UNCHANGED <<panel, up, drops, outages, late>>

\* Wrong variant: the timers run on
Cancel_TimersRun(e) ==
    [e EXCEPT !.cancelled = TRUE,
              !.ws = IF e.ws = "none" THEN "none" ELSE "closing"]

\* The function the effect returns
Cancel(e) ==
    [e EXCEPT !.cancelled = TRUE, !.timer = "none",
              !.ws = IF e.ws = "none" THEN "none" ELSE "closing"]

\* The panel gets another URL; what it shows stays.  That the last panel goes
\* away, or that React runs the effect twice for a URL (StrictMode), is left out.
ChangeUrl ==
    LET n == Cardinality(DOMAIN effect)
    IN  /\ n < MaxEffects
        /\ \E s \in Switch \ {Current.url} :
              effect' = [i \in 1..(n + 1) |-> IF i <= n THEN Cancel(effect[i]) ELSE Started(s)]
        /\ late' = [i \in 1..(n + 1) |-> IF i <= n THEN late[i] ELSE 0]
        /\ UNCHANGED <<panel, up, drops, outages>>

SwitchStops ==
    /\ outages < MaxOutages
    /\ outages' = outages + 1
    /\ \E s \in up : up' = up \ {s}
    /\ UNCHANGED <<effect, panel, drops, late>>

SwitchStarts ==
    /\ \E s \in Switch \ up : up' = up \union {s}
    /\ UNCHANGED <<effect, panel, drops, outages, late>>

\* What the browser owes to effect i
Browser(i) ==
    \/ Opens(i) \/ Greeted(i) \/ Closes(i) \/ Retry(i)
    \/ PollSucceeds(i) \/ PollFails(i) \/ PollAgain(i)

Next ==
    \/ \E i \in DOMAIN effect : Browser(i) \/ EventSeen(i) \/ Drops(i)
    \/ ChangeUrl \/ SwitchStops \/ SwitchStarts

\* Timers fire, requests and handshakes end, and who connects is greeted.  No
\* switch need ever log an event.
Fairness == \A i \in 1..MaxEffects : WF_vars(i \in DOMAIN effect /\ Browser(i))

Spec == Init /\ [][Next]_vars /\ Fairness

-----------------------------------------------------------------------------
(* Properties                                                              *)

\* What an effect has under way
UnderWay(e) ==
    {x \in {"socket", "timer", "fetch"} :
        \/ x = "socket" /\ e.ws # "none"
        \/ x = "timer" /\ e.timer # "none"
        \/ x = "fetch" /\ e.fetching}

\* Every variable has its type (useSwitchSocket's state and locals)
TypeOK ==
    /\ \E n \in 1..MaxEffects : effect \in [1..n -> Effect]
    /\ DOMAIN late = DOMAIN effect
    /\ panel \in [connected : BOOLEAN, transport : {"ws", "poll"},
                  shows : Switch \union {Nobody}]
    /\ up \subseteq Switch
    /\ drops \in 0..MaxDrops /\ outages \in 0..MaxOutages

\* However sockets close, switches stop and URLs change, the panel never gives
\* its switch up and never pursues it twice: the current effect has exactly one
\* thing under way (onclose either polls or sets a timer, and poll sets one)
NeverGivesUp == Cardinality(UnderWay(Current)) = 1

\* An effect whose URL has gone writes into the panel once more at the most: a
\* fetch under way, or the one that a late third onclose starts
OneLateWrite == \A i \in DOMAIN late : late[i] <= 1

\* A switch that stays is watched sooner or later: for good by a socket, or by
\* polling again and again, whether or not its server can do WebSockets
Recovers ==
    \A s \in Switch :
        <>[](Current.url = s /\ s \in up) =>
            \/ <>[](Current.ws = "live")
            \/ []<>(panel = [connected |-> TRUE, transport |-> "poll", shows |-> s])

\* How far an effect is from its end: a close may start one fetch, a fetch nothing
Remaining(e) ==
    IF e.ws # "none" THEN 2 ELSE IF UnderWay(e) # {} THEN 1 ELSE 0

\* An effect whose URL has gone only winds down: whatever it still does brings it
\* nearer to its end, and no other URL, timer or connection revives it (the cleanup
\* clears the timers before it closes the socket, whose onclose sets none)
OldEffectsWindDown ==
    [][\A i \in DOMAIN effect : effect[i].cancelled =>
          \/ effect'[i] = effect[i]
          \/ effect'[i].cancelled /\ Remaining(effect'[i]) < Remaining(effect[i])]_vars

\* An effect whose URL has gone comes to an end (the cleanup clears the timers,
\* and poll sets none)
OldEffectsEnd ==
    \A i \in 1..MaxEffects :
        (i \in DOMAIN effect /\ effect[i].cancelled) ~>
            (i \in DOMAIN effect /\ UnderWay(effect[i]) = {})
=============================================================================
