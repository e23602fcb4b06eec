----------------------------- MODULE FabricBus -----------------------------
(***************************************************************************)
(* The fabric bus (fabric_bus/client.py, fabric_bus/server.py and          *)
(* connect_peers in main.py): two switches bring the two ends of one       *)
(* E-port link up over a TCP connection.                                   *)
(*                                                                         *)
(*   client                                      server                    *)
(*     dial until a connection is made  ------->  accept                   *)
(*     HELLO                            ------->  signal detected          *)
(*     agree on VSANs and domain        <-------  ELP(allowed VSANs)       *)
(*     DOMAIN_MERGE(terms)              ------->  elp_success(terms)       *)
(*     elp_success(terms)               <-------  DOMAIN_ACK (ignored)     *)
(*                                                                         *)
(* "client" is the switch whose PEER_LINKS names the other one.  It dials  *)
(* from a thread that stops at the first connection; each connection has a *)
(* receiving thread at either end.  A process may die and be started again *)
(* from its startup configuration: its connections break, and the other    *)
(* end notices at any later moment, before or after it has read what is    *)
(* still in its queue.  Meanwhile the operator configures either port and  *)
(* the instructor plugs, unplugs and flaps.                                *)
(*                                                                         *)
(* Atomicity: a step runs from one socket operation to the next and holds  *)
(* the whole of a state-machine call.  Steps of this module that join a    *)
(* local call with a send (ClientHello, ServerHello) commute with the      *)
(* operator steps that could fall in between, but for two that are left    *)
(* out: a mode set between the server's test of it and its signal, and a   *)
(* reload between the signal and the send.  The state of the port may then *)
(* be that of the other mode until elp_success, which ignores it.          *)
(* Threads inside one call are the subject of PortThreads.                 *)
(***************************************************************************)
EXTENDS Port, Sequences, FiniteSets

CONSTANTS
    Domain,       \* the domain ids DomainManager draws from (1..239)
    Boot,         \* for each side, the port configurations of its startup file
    MaxConn,      \* bound: TCP connections ever made
    MaxAttempts,  \* attempts of one dial thread (30 in the code)
    MaxOps,       \* bound: operator and instructor commands
    MaxCrashes    \* bound: processes killed

ASSUME DomainAssumption == Domain \subseteq Nat \ {NoDomain}
ASSUME BootAssumption   == Boot \in [{"client", "server"} -> SUBSET PortConfig]
ASSUME BoundAssumption  == MaxConn \in Nat /\ MaxAttempts \in Nat
                           /\ MaxOps \in Nat /\ MaxCrashes \in Nat

Side == {"client", "server"}
Conn == 1..MaxConn

\* What a DOMAIN_MERGE carries: the VSANs in common and the domain
Terms   == [vsans : SUBSET VSAN, domain : Domain \union {NoDomain}]
NoTerms == [vsans |-> {}, domain |-> NoDomain]

ToServer == [type : {"HELLO"}] \union [type : {"DOMAIN_MERGE"}, terms : Terms]
ToClient == [type : {"ELP"}, vsans : SUBSET VSAN]
            \union [type : {"LINK_DOWN", "DOMAIN_ACK"}]

Hello    == [type |-> "HELLO"]
Merge(t) == [type |-> "DOMAIN_MERGE", terms |-> t]
Elp(vs)  == [type |-> "ELP", vsans |-> vs]
LinkDown == [type |-> "LINK_DOWN"]
Ack      == [type |-> "DOMAIN_ACK"]

\* Life of a connection at either end
ClientPhase == {"none", "connected", "recv", "merging", "gone"}
ServerPhase == {"none", "accepted", "bound", "gone"}

VARIABLES
    port,      \* [Side -> FCPort]
    domainOf,  \* [Side -> Domain]: assign_domain(1), drawn once per process
    up,        \* [Side -> BOOLEAN]: the process runs
    dial,      \* attempts the dial thread has left; 0 once it has returned
    cl,        \* [Conn -> ClientPhase]
    sv,        \* [Conn -> ServerPhase]
    c2s,       \* [Conn -> Seq(ToServer)]: bytes on their way to the server
    s2c,       \* [Conn -> Seq(ToClient)]
    deal,      \* [Conn -> Terms]: what the client computed on a connection
    offered,   \* history: the VSAN lists the server has put into an ELP
    ops,       \* commands given so far
    crashes    \* processes killed so far

links == <<cl, sv, c2s, s2c>>
vars  == <<port, domainOf, up, dial, links, deal, offered, ops, crashes>>

Init ==
    /\ \E a \in Boot["client"], b \in Boot["server"] :
          port = [s \in Side |-> BootPort(IF s = "client" THEN a ELSE b)]
    /\ domainOf \in [Side -> Domain]
    /\ up \in [Side -> BOOLEAN]
    /\ dial = MaxAttempts
    /\ cl = [c \in Conn |-> "none"]
    /\ sv = [c \in Conn |-> "none"]
    /\ c2s = [c \in Conn |-> <<>>]
    /\ s2c = [c \in Conn |-> <<>>]
    /\ deal = [c \in Conn |-> NoTerms]
    /\ offered = {}
    /\ ops = 0
    /\ crashes = 0

-----------------------------------------------------------------------------
(* Sockets: what is sent to an end that has gone is lost; an end that goes *)
(* takes what it has not read with it.                                     *)

SetPort(s, p) == port' = [port EXCEPT ![s] = p]

ClientSends(c, msg) ==
    c2s' = [c2s EXCEPT ![c] = IF sv[c] = "gone" THEN @ ELSE Append(@, msg)]

ServerSends(c, msg) ==
    s2c' = [s2c EXCEPT ![c] = IF cl[c] = "gone" THEN @ ELSE Append(@, msg)]

ClientReads(c, type) ==
    /\ cl[c] = "recv"
    /\ s2c[c] # <<>>
    /\ Head(s2c[c]).type = type

ServerReads(c, phase, type) ==
    /\ sv[c] = phase
    /\ c2s[c] # <<>>
    /\ Head(c2s[c]).type = type

ClientCloses(c) ==
    /\ cl' = [cl EXCEPT ![c] = "gone"]
    /\ s2c' = [s2c EXCEPT ![c] = <<>>]

ServerCloses(c) ==
    /\ sv' = [sv EXCEPT ![c] = "gone"]
    /\ c2s' = [c2s EXCEPT ![c] = <<>>]

-----------------------------------------------------------------------------
(* The dial thread of the client: connect_peers and FabricBusClient.connect *)

\* Wrong variant: one attempt too many
Dialling_OneMore ==
    /\ up["client"]
    /\ dial >= 0
    /\ \A c \in Conn : cl[c] # "connected"

Dialling ==
    /\ up["client"]
    /\ dial > 0
    /\ \A c \in Conn : cl[c] # "connected"

\* The port is not an E-port yet: connect returns an error text
DialWrongMode ==
    /\ Dialling
    /\ port["client"].mode \notin EMode
    /\ dial' = dial - 1
    /\ UNCHANGED <<port, domainOf, up, links, deal, offered, ops, crashes>>

\* The peer's process does not run: ConnectionRefusedError
DialRefused ==
    /\ Dialling
    /\ port["client"].mode \in EMode
    /\ ~up["server"]
    /\ dial' = dial - 1
    /\ UNCHANGED <<port, domainOf, up, links, deal, offered, ops, crashes>>

Dial(c) ==
    /\ Dialling
    /\ port["client"].mode \in EMode
    /\ up["server"]
    /\ cl[c] = "none"
    /\ \A d \in Conn : d < c => cl[d] # "none"
    /\ dial' = dial - 1
    /\ cl' = [cl EXCEPT ![c] = "connected"]
    /\ sv' = [sv EXCEPT ![c] = "accepted"]
    /\ UNCHANGED <<port, domainOf, up, c2s, s2c, deal, offered, ops, crashes>>

\* Signal detected, HELLO sent, the receiving thread started; connect
\* returns None and the dial thread ends
ClientHello(c) ==
    /\ cl[c] = "connected"
    /\ SetPort("client", LinkSignalDetected(port["client"]))
    /\ ClientSends(c, Hello)
    /\ cl' = [cl EXCEPT ![c] = "recv"]
    /\ dial' = 0
    /\ UNCHANGED <<domainOf, up, sv, s2c, deal, offered, ops, crashes>>

\* sendall raises OSError: the dial thread tries again
HelloFails(c) ==
    /\ cl[c] = "connected"
    /\ sv[c] = "gone"
    /\ SetPort("client", LinkSignalDetected(port["client"]))
    /\ ClientCloses(c)
    /\ UNCHANGED <<domainOf, up, dial, sv, c2s, deal, offered, ops, crashes>>

-----------------------------------------------------------------------------
(* The receiving thread of the client: _recv_loop and _handle              *)

\* Wrong variant: the list of the peer instead of the intersection
ClientTerms_PeerList(offer) == [vsans |-> offer, domain |-> domainOf["client"]]

\* The terms: VSANs allowed here and advertised by the peer, own domain
ClientTerms(offer) ==
    [vsans  |-> port["client"].allowed \intersect offer,
     domain |-> domainOf["client"]]

\* Wrong variant: DOMAIN_MERGE is computed but not sent
ClientElp_NotSent(c) ==
    /\ ClientReads(c, "ELP")
    /\ deal' = [deal EXCEPT ![c] = ClientTerms(Head(s2c[c]).vsans)]
    /\ s2c' = [s2c EXCEPT ![c] = Tail(@)]
    /\ cl' = [cl EXCEPT ![c] = "merging"]
    /\ UNCHANGED <<port, domainOf, up, dial, sv, c2s, offered, ops, crashes>>

ClientElp(c) ==
    /\ ClientReads(c, "ELP")
    /\ LET t == ClientTerms(Head(s2c[c]).vsans)
       IN  /\ deal' = [deal EXCEPT ![c] = t]
           /\ ClientSends(c, Merge(t))
    /\ s2c' = [s2c EXCEPT ![c] = Tail(@)]
    /\ cl' = [cl EXCEPT ![c] = "merging"]
    /\ UNCHANGED <<port, domainOf, up, dial, sv, offered, ops, crashes>>

\* The DOMAIN_MERGE cannot be sent: the thread dies through its finally
ClientElpFails(c) ==
    /\ ClientReads(c, "ELP")
    /\ sv[c] = "gone"
    /\ SetPort("client", LinkLost(port["client"]))
    /\ ClientCloses(c)
    /\ UNCHANGED <<domainOf, up, dial, sv, c2s, deal, offered, ops, crashes>>

\* elp_success, with the terms that were sent but the mode and the allowed
\* list of now
ClientMerged(c) ==
    /\ cl[c] = "merging"
    /\ SetPort("client",
               ElpSuccess(port["client"], deal[c].domain, deal[c].vsans))
    /\ cl' = [cl EXCEPT ![c] = "recv"]
    /\ UNCHANGED <<domainOf, up, dial, sv, c2s, s2c, deal, offered, ops, crashes>>

\* _handle has no branch for DOMAIN_ACK
ClientIgnoresAck(c) ==
    /\ ClientReads(c, "DOMAIN_ACK")
    /\ s2c' = [s2c EXCEPT ![c] = Tail(@)]
    /\ UNCHANGED <<port, domainOf, up, dial, cl, sv, c2s, deal, offered, ops, crashes>>

\* The refusal of a port that is no E-port; the connection stays open
ClientLinkDown(c) ==
    /\ ClientReads(c, "LINK_DOWN")
    /\ SetPort("client", LinkLost(port["client"]))
    /\ s2c' = [s2c EXCEPT ![c] = Tail(@)]
    /\ UNCHANGED <<domainOf, up, dial, cl, sv, c2s, deal, offered, ops, crashes>>

ClientEof(c) ==
    /\ cl[c] = "recv"
    /\ sv[c] = "gone"
    /\ SetPort("client", LinkLost(port["client"]))
    /\ ClientCloses(c)
    /\ UNCHANGED <<domainOf, up, dial, sv, c2s, deal, offered, ops, crashes>>

-----------------------------------------------------------------------------
(* The thread of the server for one connection: _handle_conn and _process  *)

\* HELLO for an E-port: signal detected, ELP sent, connection bound to the
\* port (local_port_name)
ServerHello(c) ==
    /\ ServerReads(c, "accepted", "HELLO")
    /\ port["server"].mode \in EMode
    /\ SetPort("server", LinkSignalDetected(port["server"]))
    /\ ServerSends(c, Elp(port["server"].allowed))
    /\ offered' = offered \union {port["server"].allowed}
    /\ c2s' = [c2s EXCEPT ![c] = Tail(@)]
    /\ sv' = [sv EXCEPT ![c] = "bound"]
    /\ UNCHANGED <<domainOf, up, dial, cl, deal, ops, crashes>>

\* HELLO for any other port: LINK_DOWN, and the connection binds to nothing
ServerRejects(c) ==
    /\ ServerReads(c, "accepted", "HELLO")
    /\ port["server"].mode \notin EMode
    /\ ServerSends(c, LinkDown)
    /\ c2s' = [c2s EXCEPT ![c] = Tail(@)]
    /\ UNCHANGED <<port, domainOf, up, dial, cl, sv, deal, offered, ops, crashes>>

\* The answer to HELLO cannot be sent: the thread dies before _process
\* returns the port name, so the finally clause does not take the link down
ServerHelloFails(c) ==
    /\ ServerReads(c, "accepted", "HELLO")
    /\ cl[c] = "gone"
    /\ SetPort("server", IF port["server"].mode \in EMode
                         THEN LinkSignalDetected(port["server"])
                         ELSE port["server"])
    /\ ServerCloses(c)
    /\ UNCHANGED <<domainOf, up, dial, cl, s2c, deal, offered, ops, crashes>>

\* Wrong variant: the server compares with its own list once more
ServerMerge_OwnList(c) ==
    /\ ServerReads(c, "bound", "DOMAIN_MERGE")
    /\ LET t == Head(c2s[c]).terms
       IN  SetPort("server", ElpSuccess(port["server"], t.domain,
                                        t.vsans \intersect port["server"].allowed))
    /\ ServerSends(c, Ack)
    /\ c2s' = [c2s EXCEPT ![c] = Tail(@)]
    /\ UNCHANGED <<domainOf, up, dial, cl, sv, deal, offered, ops, crashes>>

\* If the acknowledgement cannot be sent the thread ends as in ServerEof
ServerMerge(c) ==
    /\ ServerReads(c, "bound", "DOMAIN_MERGE")
    /\ LET t == Head(c2s[c]).terms
       IN  SetPort("server", ElpSuccess(port["server"], t.domain, t.vsans))
    /\ ServerSends(c, Ack)
    /\ c2s' = [c2s EXCEPT ![c] = Tail(@)]
    /\ UNCHANGED <<domainOf, up, dial, cl, sv, deal, offered, ops, crashes>>

\* Wrong variant: the thread ends without link_lost
ServerEof_Silent(c) ==
    /\ cl[c] = "gone"
    /\ sv[c] \in {"accepted", "bound"}
    /\ ServerCloses(c)
    /\ UNCHANGED <<port, domainOf, up, dial, cl, s2c, deal, offered, ops, crashes>>

\* End of file or a reset: link_lost if the connection was bound to the port
ServerEof(c) ==
    /\ cl[c] = "gone"
    /\ sv[c] \in {"accepted", "bound"}
    /\ SetPort("server", IF sv[c] = "bound" THEN LinkLost(port["server"])
                                            ELSE port["server"])
    /\ ServerCloses(c)
    /\ UNCHANGED <<domainOf, up, dial, cl, s2c, deal, offered, ops, crashes>>

-----------------------------------------------------------------------------
(* Processes                                                               *)

Start(s) ==
    /\ ~up[s]
    /\ up' = [up EXCEPT ![s] = TRUE]
    /\ UNCHANGED <<port, domainOf, dial, links, deal, offered, ops, crashes>>

\* The process is killed and its sockets close.  port[s], domainOf[s] and
\* dial become at once what build_switch will set them to at the next Start.
Crash(s) ==
    /\ up[s]
    /\ crashes < MaxCrashes
    /\ crashes' = crashes + 1
    /\ up' = [up EXCEPT ![s] = FALSE]
    /\ \E cfg \in Boot[s] : SetPort(s, BootPort(cfg))
    /\ \E d \in Domain : domainOf' = [domainOf EXCEPT ![s] = d]
    /\ \/ /\ s = "client"
          /\ dial' = MaxAttempts
          /\ cl' = [c \in Conn |-> IF cl[c] = "none" THEN "none" ELSE "gone"]
          /\ s2c' = [c \in Conn |-> <<>>]
          /\ UNCHANGED <<sv, c2s>>
       \/ /\ s = "server"
          /\ sv' = [c \in Conn |-> IF sv[c] = "none" THEN "none" ELSE "gone"]
          /\ c2s' = [c \in Conn |-> <<>>]
          /\ UNCHANGED <<dial, cl, s2c>>
    /\ UNCHANGED <<deal, offered, ops>>

-----------------------------------------------------------------------------
(* The operator at the CLI of either switch, and the instructor            *)

Command(s, p) ==
    /\ up[s]
    /\ ops < MaxOps
    /\ ops' = ops + 1
    /\ SetPort(s, p)
    /\ UNCHANGED <<domainOf, up, dial, links, deal, offered, crashes>>

CmdNoShutdown(s) == Command(s, NoShutdown(port[s]))

CmdShutdown(s) == Command(s, AdminDown(port[s]))

CmdMode(s) == \E m \in {"auto", "F", "E", "TE"} : Command(s, SetMode(port[s], m))

CmdTrunkAllowed(s) ==
    \E vsans \in (SUBSET VSAN) \ {{}} : Command(s, SetTrunkAllowed(port[s], vsans))

CmdReload(s) == \E cfg \in Boot[s] : Command(s, Reload(port[s], cfg))

FaultUnplug(s) == Command(s, UnplugSfp(port[s]))

FaultInsert(s) == \E g \in Generation : Command(s, PlugSfp(port[s], g))

FaultFlap(s) == Command(s, LinkLost(port[s]))

Operator(s) ==
    \/ CmdNoShutdown(s) \/ CmdShutdown(s) \/ CmdMode(s) \/ CmdTrunkAllowed(s)
    \/ CmdReload(s)
    \/ FaultUnplug(s) \/ FaultInsert(s) \/ FaultFlap(s)

-----------------------------------------------------------------------------
DialThread ==
    \/ DialWrongMode \/ DialRefused
    \/ \E c \in Conn : Dial(c) \/ ClientHello(c) \/ HelloFails(c)

ClientThread(c) ==
    \/ ClientElp(c) \/ ClientElpFails(c) \/ ClientMerged(c)
    \/ ClientIgnoresAck(c) \/ ClientLinkDown(c) \/ ClientEof(c)

ServerThread(c) ==
    \/ ServerHello(c) \/ ServerRejects(c) \/ ServerHelloFails(c)
    \/ ServerMerge(c) \/ ServerEof(c)

Next ==
    \/ DialThread
    \/ \E c \in Conn : ClientThread(c) \/ ServerThread(c)
    \/ \E s \in Side : Start(s) \/ Crash(s) \/ Operator(s)

Spec == Init /\ [][Next]_vars

(***************************************************************************)
(* Every thread runs: the interpreter schedules all of them, and a socket  *)
(* that is readable or broken wakes its reader.  Nobody has to kill a      *)
(* process or to type a command; a process that is down is started again.  *)
(***************************************************************************)
Fairness ==
    /\ WF_vars(DialThread)
    /\ \A c \in Conn : WF_vars(ClientThread(c)) /\ WF_vars(ServerThread(c))
    /\ \A s \in Side : WF_vars(Start(s))

FairSpec == Spec /\ Fairness

-----------------------------------------------------------------------------
(* Properties                                                              *)

\* Every variable has its type (the classes' fields, the message schema of
\* fabric_bus/protocol.py)
TypeOK ==
    /\ port \in [Side -> FCPort]
    /\ domainOf \in [Side -> Domain]
    /\ up \in [Side -> BOOLEAN]
    /\ dial \in 0..MaxAttempts
    /\ cl \in [Conn -> ClientPhase]
    /\ sv \in [Conn -> ServerPhase]
    /\ c2s \in [Conn -> Seq(ToServer)]
    /\ s2c \in [Conn -> Seq(ToClient)]
    /\ deal \in [Conn -> Terms]
    /\ offered \subseteq SUBSET VSAN
    /\ ops \in 0..MaxOps
    /\ crashes \in 0..MaxCrashes

Trunking(s) == port[s].oper = "TRUNKING"

TermsOf(s) == [vsans |-> port[s].negotiated, domain |-> port[s].domain]

\* Nothing is under way: no message to the server, no client between its
\* DOMAIN_MERGE and its own elp_success, no dead connection that the server
\* has not noticed
Drained ==
    \A c \in Conn :
        /\ c2s[c] = <<>>
        /\ cl[c] # "merging"
        /\ sv[c] = "bound" => cl[c] = "recv"

\* When nothing is under way and both ends trunk, they trunk the same VSANs
\* and show the same domain, whatever was typed, unplugged or restarted on
\* the way (elp_success at both ends of one DOMAIN_MERGE)
Agreement ==
    (Drained /\ Trunking("client") /\ Trunking("server"))
        => TermsOf("client") = TermsOf("server")

\* A port that is up or trunking has a receiving thread of its own switch
\* that will run link_lost when the connection ends (the finally clauses of
\* _recv_loop and _handle_conn): no port is left up with nobody to take it
\* down
Watched ==
    /\ port["client"].oper \in Operational => \E c \in Conn : cl[c] = "recv"
    /\ port["server"].oper \in Operational => \E c \in Conn : sv[c] = "bound"

\* A stale end is noticed: again and again there is a moment when every port
\* that is up or trunking has a connection alive at both ends, so a switch
\* whose peer died does not show a working link for ever
HalfOpenHeals ==
    []<>(\A s \in Side :
            port[s].oper \in Operational
                => \E c \in Conn : cl[c] = "recv" /\ sv[c] = "bound")

\* What elp_success makes of the configuration the ends were started with
Settled ==
    LET common == port["client"].allowed \intersect port["server"].allowed
        Outcome(s) == IF port[s].mode = "E" THEN "UP"
                      ELSE IF common = {} THEN "ERR_DISABLED" ELSE "TRUNKING"
    IN  \A s \in Side :
            /\ port[s].oper = Outcome(s)
            /\ port[s].mode = "TE" => port[s].negotiated = common

\* As long as nobody interferes, a client that has an attempt left when both
\* processes run brings the link up at both ends: the handshake neither blocks
\* nor loses a message, in whatever order the processes started
Establishes ==
    [](crashes = 0 /\ ops = 0)
        => ((\A s \in Side : up[s]) /\ dial > 0 ~> Settled)

\* The handshake, its retries, crashes and commands implement TrunkAgreement
Abs == INSTANCE TrunkAgreement WITH
    allowed <- [s \in Side |-> port[s].allowed],
    struck  <- {deal[c] : c \in Conn} \ {NoTerms},
    terms   <- [s \in Side |-> IF Trunking(s) THEN TermsOf(s) ELSE NoTerms]

\* Ends trunk only on terms struck between the client and an offer of the
\* server (TrunkAgreement), whatever is lost, late or restarted
ImplementsTrunkAgreement == Abs!Spec
=============================================================================
