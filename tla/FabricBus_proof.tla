-------------------------- MODULE FabricBus_proof --------------------------
(***************************************************************************)
(* Proofs about the fabric bus for any VSANs, domains, startup files and   *)
(* bounds: type correctness, and that the ends agree (Agreement, Watched). *)
(*                                                                         *)
(* Agreement is not inductive: nothing in it keeps an old DOMAIN_MERGE     *)
(* from being read late, or a second connection of the client from being   *)
(* alive.  IInv adds                                                       *)
(*   OneLink     the client has at most one live connection, because the   *)
(*               dial thread ends with the first one;                      *)
(*   Stage       the few contents the two queues of a connection can have, *)
(*               so that the client strikes terms once per connection and  *)
(*               the DOMAIN_MERGE in the queue carries those terms;        *)
(*   ClientTie, ServerTie                                                  *)
(*               an operational end owes its state to a connection that is *)
(*               alive at that end, and a trunking end shows its terms.    *)
(***************************************************************************)
EXTENDS FabricBus, Port_proof

Live(c) == cl[c] \in {"connected", "recv", "merging"}

OneLink ==
    /\ \A c, d \in Conn : Live(c) /\ Live(d) => c = d
    /\ \A c \in Conn : cl[c] \in {"recv", "merging"} => dial = 0

Struck(c) == deal[c].domain # NoDomain

EmptyQueues(c) == c2s[c] = <<>> /\ s2c[c] = <<>>

Stage(c) ==
    /\ c2s[c] \in {<<>>, <<Hello>>, <<Merge(deal[c])>>}
    /\ s2c[c] \in {<<>>, <<LinkDown>>, <<Ack>>}
                  \union {<<Elp(vs)>> : vs \in SUBSET VSAN}
    /\ cl[c] = "none" <=> sv[c] = "none"
    /\ cl[c] \in {"none", "connected"} => EmptyQueues(c) /\ ~Struck(c)
    /\ cl[c] = "connected" => sv[c] \in {"accepted", "gone"}
    /\ cl[c] = "merging" => Struck(c)
    /\ sv[c] \in {"none", "accepted"} => ~Struck(c)
    /\ c2s[c] = <<Hello>> =>
          sv[c] = "accepted" /\ cl[c] \in {"recv", "gone"} /\ s2c[c] = <<>>
    /\ c2s[c] = <<Merge(deal[c])>> => Struck(c) /\ s2c[c] = <<>>
    /\ s2c[c] # <<>> /\ Head(s2c[c]).type = "ELP" =>
          /\ cl[c] = "recv" /\ sv[c] \in {"bound", "gone"}
          /\ ~Struck(c) /\ c2s[c] = <<>>

\* The state of end s is due to connection c
Owes(s, c) == Struck(c) /\ (Trunking(s) => deal[c] = TermsOf(s))

ClientTie ==
    port["client"].oper \in Operational
        => \E c \in Conn : cl[c] = "recv" /\ Owes("client", c)

ServerTie ==
    port["server"].oper \in Operational
        => \E c \in Conn : sv[c] = "bound" /\ Owes("server", c)

IInv ==
    /\ TypeOK
    /\ OneLink
    /\ \A c \in Conn : Stage(c)
    /\ ClientTie
    /\ ServerTie

-----------------------------------------------------------------------------
(* Messages and commands *)

\* The parts of terms are what elp_success takes
LEMMA TermsType ==
    ASSUME NEW t \in Terms
    PROVE  t.vsans \in SUBSET VSAN /\ t.domain \in Nat
  <1>1. t.vsans \in SUBSET VSAN /\ t.domain \in Domain \union {NoDomain}
    BY DEF Terms
  <1>2. Domain \union {NoDomain} \subseteq Nat
    BY DomainAssumption DEF NoDomain
  <1> QED BY <1>1, <1>2

\* The five messages, and what the two that carry data carry
LEMMA MessageTypes ==
    /\ Hello \in ToServer /\ Hello.type = "HELLO"
    /\ \A t \in Terms : Merge(t) \in ToServer /\ Merge(t).type = "DOMAIN_MERGE"
                        /\ Merge(t).terms = t
    /\ \A vs \in SUBSET VSAN : Elp(vs) \in ToClient /\ Elp(vs).type = "ELP"
                              /\ Elp(vs).vsans = vs
    /\ LinkDown \in ToClient /\ LinkDown.type = "LINK_DOWN"
    /\ Ack \in ToClient /\ Ack.type = "DOMAIN_ACK"
    /\ \A m \in ToServer : m.type = "DOMAIN_MERGE" => m.terms \in Terms
    /\ \A m \in ToClient : m.type = "ELP" => m.vsans \in SUBSET VSAN
  BY DEF Hello, Merge, Elp, LinkDown, Ack, ToServer, ToClient

\* A command gives the port of a running switch one of the commanded values
LEMMA OperatorStep ==
    ASSUME TypeOK, NEW s \in Side, Operator(s)
    PROVE  \E q \in Commanded(port[s]) : Command(s, q)
  <1>1. CASE CmdReload(s)
    <2>1. PICK cfg \in Boot[s] : Command(s, Reload(port[s], cfg))
      BY <1>1 DEF CmdReload
    <2>2. cfg \in PortConfig
      BY BootAssumption DEF Side
    <2> QED BY <2>1, <2>2 DEF Commanded
  <1>2. CASE ~CmdReload(s)
    BY <1>2 DEF Operator, CmdNoShutdown, CmdShutdown, CmdMode, CmdTrunkAllowed,
                FaultUnplug, FaultInsert, FaultFlap, Commanded
  <1> QED BY <1>1, <1>2

\* Sending and receiving keep the queues queues of messages
LEMMA QueueTypes ==
    ASSUME TypeOK, NEW c \in Conn
    PROVE  /\ \A m \in ToServer : ClientSends(c, m) => c2s' \in [Conn -> Seq(ToServer)]
           /\ \A m \in ToClient : ServerSends(c, m) => s2c' \in [Conn -> Seq(ToClient)]
           /\ c2s[c] # <<>> => /\ Head(c2s[c]) \in ToServer
                              /\ [c2s EXCEPT ![c] = Tail(@)] \in [Conn -> Seq(ToServer)]
           /\ s2c[c] # <<>> => /\ Head(s2c[c]) \in ToClient
                              /\ [s2c EXCEPT ![c] = Tail(@)] \in [Conn -> Seq(ToClient)]
           /\ [c2s EXCEPT ![c] = <<>>] \in [Conn -> Seq(ToServer)]
           /\ [s2c EXCEPT ![c] = <<>>] \in [Conn -> Seq(ToClient)]
  <1>0. c2s \in [Conn -> Seq(ToServer)] /\ s2c \in [Conn -> Seq(ToClient)]
    BY DEF TypeOK
  <1>1. c2s[c] \in Seq(ToServer) /\ s2c[c] \in Seq(ToClient)
    BY <1>0
  <1>2. ASSUME NEW m \in ToServer, ClientSends(c, m)
        PROVE  c2s' \in [Conn -> Seq(ToServer)]
    BY <1>0, <1>1, <1>2 DEF ClientSends
  <1>3. ASSUME NEW m \in ToClient, ServerSends(c, m)
        PROVE  s2c' \in [Conn -> Seq(ToClient)]
    BY <1>0, <1>1, <1>3 DEF ServerSends
  <1>4. ASSUME c2s[c] # <<>>
        PROVE  Head(c2s[c]) \in ToServer /\ Tail(c2s[c]) \in Seq(ToServer)
    BY <1>1, <1>4
  <1>5. ASSUME s2c[c] # <<>>
        PROVE  Head(s2c[c]) \in ToClient /\ Tail(s2c[c]) \in Seq(ToClient)
    BY <1>1, <1>5
  <1>6. <<>> \in Seq(ToServer) /\ <<>> \in Seq(ToClient)
    OBVIOUS
  <1> QED BY <1>0, <1>2, <1>3, <1>4, <1>5, <1>6

-----------------------------------------------------------------------------
(* Type correctness *)

LEMMA InitTypeOK == Init => TypeOK
  <1> SUFFICES ASSUME Init PROVE TypeOK
    OBVIOUS
  <1>1. port \in [Side -> FCPort]
    <2>1. PICK a \in Boot["client"], b \in Boot["server"] :
             port = [s \in Side |-> BootPort(IF s = "client" THEN a ELSE b)]
      BY DEF Init
    <2>2. BootPort(a) \in FCPort /\ BootPort(b) \in FCPort
      BY <2>1, BootAssumption, BootPortType
    <2> QED BY <2>1, <2>2
  <1> QED BY <1>1, BoundAssumption DEF Init, TypeOK, ClientPhase, ServerPhase, Terms, NoTerms

LEMMA NextTypeOK ==
    ASSUME TypeOK, [Next]_vars
    PROVE  TypeOK'
  <1> USE DEF TypeOK, SetPort
  <1>a. "client" \in Side /\ "server" \in Side /\ \A s \in Side : port[s] \in FCPort
    BY DEF Side
  <1>b. \A c \in Conn : deal[c].domain \in Nat /\ deal[c].vsans \in SUBSET VSAN
    <2>1. deal \in [Conn -> Terms]
      OBVIOUS
    <2> QED BY <2>1, TermsType
  <1>c. ASSUME dial > 0 PROVE dial - 1 \in 0..MaxAttempts
    BY <1>c, BoundAssumption
  <1>1. CASE DialWrongMode \/ DialRefused
    BY <1>1, <1>c DEF DialWrongMode, DialRefused, Dialling, links
  <1>2. ASSUME NEW c \in Conn, Dial(c) PROVE TypeOK'
    BY <1>2, <1>c DEF Dial, Dialling, ClientPhase, ServerPhase
  <1>3. ASSUME NEW c \in Conn, ClientHello(c) PROVE TypeOK'
    <2>1. LinkSignalDetected(port["client"]) \in FCPort
      BY <1>a, SignalType
    <2>2. c2s' \in [Conn -> Seq(ToServer)]
      BY <1>3, QueueTypes, MessageTypes DEF ClientHello
    <2>3. dial' \in 0..MaxAttempts
      BY <1>3, BoundAssumption DEF ClientHello
    <2> QED BY <1>3, <2>1, <2>2, <2>3 DEF ClientHello, ClientPhase
  <1>4. ASSUME NEW c \in Conn, HelloFails(c) PROVE TypeOK'
    <2>1. LinkSignalDetected(port["client"]) \in FCPort
      BY <1>a, SignalType
    <2> QED BY <1>4, <2>1, QueueTypes DEF HelloFails, ClientCloses, ClientPhase
  <1>5. ASSUME NEW c \in Conn, ClientElp(c) PROVE TypeOK'
    <2> DEFINE t == ClientTerms(Head(s2c[c]).vsans)
    <2>1. t \in Terms
      BY <1>5, <1>a, QueueTypes, MessageTypes
         DEF ClientElp, ClientReads, ClientTerms, Terms, FCPort
    <2>2. c2s' \in [Conn -> Seq(ToServer)] /\ s2c' \in [Conn -> Seq(ToClient)]
      BY <1>5, <2>1, QueueTypes, MessageTypes DEF ClientElp, ClientReads
    <2> QED BY <1>5, <2>1, <2>2 DEF ClientElp, ClientPhase
  <1>6. ASSUME NEW c \in Conn, ClientElpFails(c) \/ ClientEof(c) PROVE TypeOK'
    <2>1. LinkLost(port["client"]) \in FCPort
      BY <1>a, LostType
    <2>2. port' = [port EXCEPT !["client"] = LinkLost(port["client"])] /\ ClientCloses(c)
      BY <1>6 DEF ClientElpFails, ClientEof
    <2> QED BY <1>6, <2>1, <2>2, QueueTypes DEF ClientElpFails, ClientEof, ClientCloses, ClientPhase
  <1>7. ASSUME NEW c \in Conn, ClientMerged(c) PROVE TypeOK'
    <2>1. ElpSuccess(port["client"], deal[c].domain, deal[c].vsans) \in FCPort
      BY <1>a, <1>b, ElpSuccessType
    <2> QED BY <1>7, <2>1 DEF ClientMerged, ClientPhase
  <1>8. ASSUME NEW c \in Conn, ClientIgnoresAck(c) PROVE TypeOK'
    BY <1>8, QueueTypes DEF ClientIgnoresAck, ClientReads
  <1>9. ASSUME NEW c \in Conn, ClientLinkDown(c) PROVE TypeOK'
    <2>1. LinkLost(port["client"]) \in FCPort
      BY <1>a, LostType
    <2> QED BY <1>9, <2>1, QueueTypes DEF ClientLinkDown, ClientReads
  <1>10. ASSUME NEW c \in Conn, ServerHello(c) PROVE TypeOK'
    <2>1. port["server"].allowed \in SUBSET VSAN
      BY <1>a DEF FCPort
    <2>2. LinkSignalDetected(port["server"]) \in FCPort
      BY <1>a, SignalType
    <2>3. c2s' \in [Conn -> Seq(ToServer)] /\ s2c' \in [Conn -> Seq(ToClient)]
      BY <1>10, <2>1, QueueTypes, MessageTypes DEF ServerHello, ServerReads
    <2> QED BY <1>10, <2>1, <2>2, <2>3 DEF ServerHello, ServerPhase
  <1>11. ASSUME NEW c \in Conn, ServerRejects(c) PROVE TypeOK'
    <2>1. c2s' \in [Conn -> Seq(ToServer)] /\ s2c' \in [Conn -> Seq(ToClient)]
      BY <1>11, QueueTypes, MessageTypes DEF ServerRejects, ServerReads
    <2> QED BY <1>11, <2>1 DEF ServerRejects
  <1>12. ASSUME NEW c \in Conn, ServerHelloFails(c) PROVE TypeOK'
    <2>1. LinkSignalDetected(port["server"]) \in FCPort
      BY <1>a, SignalType
    <2> QED BY <1>12, <1>a, <2>1, QueueTypes DEF ServerHelloFails, ServerCloses, ServerPhase
  <1>13. ASSUME NEW c \in Conn, ServerMerge(c) PROVE TypeOK'
    <2> DEFINE t == Head(c2s[c]).terms
    <2>1. t \in Terms
      BY <1>13, QueueTypes, MessageTypes DEF ServerMerge, ServerReads
    <2>2. ElpSuccess(port["server"], t.domain, t.vsans) \in FCPort
      <3>1. t.domain \in Nat /\ t.vsans \in SUBSET VSAN
        BY <2>1, TermsType
      <3> QED BY <1>a, <3>1, ElpSuccessType
    <2>3. c2s' \in [Conn -> Seq(ToServer)] /\ s2c' \in [Conn -> Seq(ToClient)]
      BY <1>13, QueueTypes, MessageTypes DEF ServerMerge, ServerReads
    <2> QED BY <1>13, <2>2, <2>3 DEF ServerMerge
  <1>14. ASSUME NEW c \in Conn, ServerEof(c) PROVE TypeOK'
    <2>1. LinkLost(port["server"]) \in FCPort
      BY <1>a, LostType
    <2> QED BY <1>14, <1>a, <2>1, QueueTypes DEF ServerEof, ServerCloses, ServerPhase
  <1>15. ASSUME NEW s \in Side, Start(s) PROVE TypeOK'
    BY <1>15 DEF Start, links
  <1>16. ASSUME NEW s \in Side, Crash(s) PROVE TypeOK'
    <2>1. port' \in [Side -> FCPort]
      BY <1>16, BootAssumption, BootPortType DEF Crash
    <2>2. domainOf' \in [Side -> Domain] /\ crashes' \in 0..MaxCrashes
      BY <1>16, BoundAssumption DEF Crash
    <2>3. dial' \in 0..MaxAttempts
      BY <1>16, BoundAssumption DEF Crash
    <2>4. cl' \in [Conn -> ClientPhase] /\ sv' \in [Conn -> ServerPhase]
      BY <1>16 DEF Crash, ClientPhase, ServerPhase
    <2>5. c2s' \in [Conn -> Seq(ToServer)] /\ s2c' \in [Conn -> Seq(ToClient)]
      <3>1. [c \in Conn |-> <<>>] \in [Conn -> Seq(ToServer)]
            /\ [c \in Conn |-> <<>>] \in [Conn -> Seq(ToClient)]
        OBVIOUS
      <3>2. \/ c2s' = c2s /\ s2c' = [c \in Conn |-> <<>>]
            \/ s2c' = s2c /\ c2s' = [c \in Conn |-> <<>>]
        BY <1>16 DEF Crash
      <3> QED BY <3>1, <3>2
    <2> QED BY <1>16, <2>1, <2>2, <2>3, <2>4, <2>5 DEF Crash
  <1>17. ASSUME NEW s \in Side, Operator(s) PROVE TypeOK'
    <2>1. PICK q \in Commanded(port[s]) : Command(s, q)
      BY <1>17, OperatorStep
    <2>2. q \in FCPort
      BY <1>a, <2>1, CommandType
    <2>3. ops' \in 0..MaxOps
      BY <2>1, BoundAssumption DEF Command
    <2> QED BY <2>1, <2>2, <2>3 DEF Command, links
  <1>18. CASE UNCHANGED vars
    BY <1>18 DEF vars, links
  <1> QED BY <1>1, <1>2, <1>3, <1>4, <1>5, <1>6, <1>7, <1>8, <1>9, <1>10, <1>11,
             <1>12, <1>13, <1>14, <1>15, <1>16, <1>17, <1>18
          DEF Next, DialThread, ClientThread, ServerThread

\* Every variable keeps its type in every run of the fabric bus
THEOREM TypeCorrect == Spec => []TypeOK
  BY InitTypeOK, NextTypeOK, PTL DEF Spec

-----------------------------------------------------------------------------
(* The stages of a connection *)

\* The five messages are told apart by their type, alone in a queue or not
LEMMA Singletons ==
    /\ \A m : /\ <<m>> # <<>> /\ Head(<<m>>) = m
            /\ Tail(<<m>>) = <<>> /\ Append(<<>>, m) = <<m>>
    /\ \A m, n : <<m>> = <<n>> => m = n
  OBVIOUS

\* A stage looks at one connection only
LEMMA StageFrame ==
    ASSUME NEW d \in Conn, Stage(d), cl'[d] = cl[d], sv'[d] = sv[d],
           c2s'[d] = c2s[d], s2c'[d] = s2c[d], deal'[d] = deal[d]
    PROVE  Stage(d)'
  BY DEF Stage, Struck, EmptyQueues

\* Each step takes a connection from stage to stage
LEMMA NextStage ==
    ASSUME TypeOK, \A c \in Conn : Stage(c), [Next]_vars, NEW d \in Conn
    PROVE  Stage(d)'
  <1>t. /\ cl \in [Conn -> ClientPhase] /\ sv \in [Conn -> ServerPhase]
        /\ DOMAIN c2s = Conn /\ DOMAIN s2c = Conn /\ deal \in [Conn -> Terms]
        /\ c2s \in [Conn -> Seq(ToServer)] /\ s2c \in [Conn -> Seq(ToClient)]
    BY DEF TypeOK
  <1>s. Stage(d)
    OBVIOUS
  <1>1. ASSUME UNCHANGED <<links, deal>> PROVE Stage(d)'
    BY <1>1, <1>s, StageFrame DEF links
  <1>2. ASSUME NEW c \in Conn, Dial(c) PROVE Stage(d)'
    <2>1. CASE c = d
      BY <1>2, <1>s, <1>t, <2>1 DEF Dial, Stage, EmptyQueues, Struck
    <2>2. CASE c # d
      BY <1>2, <1>s, <1>t, <2>2, StageFrame DEF Dial
    <2> QED BY <2>1, <2>2
  <1>3. ASSUME NEW c \in Conn, ClientHello(c) PROVE Stage(d)'
    <2>1. CASE c = d
      <3>1. /\ cl'[d] = "recv" /\ sv'[d] = sv[d] /\ s2c'[d] = s2c[d] /\ deal'[d] = deal[d]
            /\ c2s'[d] = IF sv[d] = "gone" THEN c2s[d] ELSE Append(c2s[d], Hello)
        BY <1>3, <1>t, <2>1 DEF ClientHello, ClientSends
      <3>2. /\ c2s[d] = <<>> /\ s2c[d] = <<>> /\ ~Struck(d) /\ sv[d] \in {"accepted", "gone"}
        BY <1>3, <1>s, <2>1 DEF ClientHello, Stage, EmptyQueues
      <3>3. c2s'[d] = IF sv[d] = "gone" THEN <<>> ELSE <<Hello>>
        BY <3>1, <3>2, Singletons
      <3> QED BY <3>1, <3>2, <3>3, Singletons, MessageTypes, <1>t DEF Stage, EmptyQueues, Struck
    <2>2. CASE c # d
      BY <1>3, <1>s, <1>t, <2>2, StageFrame DEF ClientHello, ClientSends
    <2> QED BY <2>1, <2>2
  <1>4. ASSUME NEW c \in Conn, ClientElp(c) PROVE Stage(d)'
    <2>1. CASE c = d
      <3> DEFINE t == ClientTerms(Head(s2c[d]).vsans)
      <3>1. /\ cl'[d] = "merging" /\ sv'[d] = sv[d] /\ s2c'[d] = Tail(s2c[d])
            /\ deal'[d] = t
            /\ c2s'[d] = IF sv[d] = "gone" THEN c2s[d] ELSE Append(c2s[d], Merge(t))
        BY <1>4, <1>t, <2>1 DEF ClientElp, ClientSends
      <3>2. /\ c2s[d] = <<>> /\ s2c[d] # <<>> /\ sv[d] \in {"bound", "gone"}
        BY <1>4, <1>s, <2>1 DEF ClientElp, ClientReads, Stage
      <3>3. Tail(s2c[d]) = <<>>
        BY <1>s, <3>2, Singletons DEF Stage
      <3>4. t.domain # NoDomain
        BY DomainAssumption DEF ClientTerms, TypeOK, Side
      <3>5. t \in Terms
        BY <1>4, <2>1, QueueTypes, MessageTypes
           DEF ClientElp, ClientReads, ClientTerms, Terms, TypeOK, Side, FCPort
      <3> HIDE DEF t
      <3>6. Struck(d)' /\ s2c'[d] = <<>>
        BY <3>1, <3>3, <3>4 DEF Struck
      <3>7. /\ c2s'[d] \in {<<>>, <<Merge(deal'[d])>>} /\ c2s'[d] # <<Hello>>
        BY <3>1, <3>2, <3>5, Singletons, MessageTypes
      <3> QED BY <1>s, <3>1, <3>2, <3>6, <3>7 DEF Stage, EmptyQueues
    <2>2. CASE c # d
      BY <1>4, <1>s, <1>t, <2>2, StageFrame DEF ClientElp, ClientSends
    <2> QED BY <2>1, <2>2
  <1>5. ASSUME NEW c \in Conn, ClientMerged(c) PROVE Stage(d)'
    <2>1. CASE c = d
      BY <1>5, <1>s, <1>t, <2>1 DEF ClientMerged, Stage, EmptyQueues, Struck
    <2>2. CASE c # d
      BY <1>5, <1>s, <1>t, <2>2, StageFrame DEF ClientMerged
    <2> QED BY <2>1, <2>2
  <1>6. ASSUME NEW c \in Conn, ClientIgnoresAck(c) \/ ClientLinkDown(c) PROVE Stage(d)'
    <2>1. CASE c = d
      <3>1. /\ cl'[d] = cl[d] /\ sv'[d] = sv[d] /\ deal'[d] = deal[d]
            /\ c2s'[d] = c2s[d] /\ s2c'[d] = Tail(s2c[d]) /\ s2c[d] # <<>>
        BY <1>6, <1>t, <2>1 DEF ClientIgnoresAck, ClientLinkDown, ClientReads
      <3>2. s2c'[d] = <<>>
        <4>1. \E m : s2c[d] = <<m>>
          BY <1>s, <3>1 DEF Stage
        <4> QED BY <3>1, <4>1, Singletons
      <3> QED BY <1>s, <3>1, <3>2 DEF Stage, EmptyQueues, Struck
    <2>2. CASE c # d
      BY <1>6, <1>s, <1>t, <2>2, StageFrame DEF ClientIgnoresAck, ClientLinkDown
    <2> QED BY <2>1, <2>2
  <1>7. ASSUME NEW c \in Conn, HelloFails(c) \/ ClientElpFails(c) \/ ClientEof(c)
        PROVE  Stage(d)'
    <2>0. ClientCloses(c) /\ sv[c] = "gone" /\ UNCHANGED <<sv, c2s, deal>>
      BY <1>7 DEF HelloFails, ClientElpFails, ClientEof
    <2>1. CASE c = d
      BY <1>s, <1>t, <2>0, <2>1 DEF ClientCloses, Stage, EmptyQueues, Struck
    <2>2. CASE c # d
      BY <1>s, <1>t, <2>0, <2>2, StageFrame DEF ClientCloses
    <2> QED BY <2>1, <2>2
  <1>8. ASSUME NEW c \in Conn, ServerHello(c) \/ ServerRejects(c) PROVE Stage(d)'
    <2>1. CASE c = d
      <3> DEFINE answer == IF ServerHello(d) THEN Elp(port["server"].allowed) ELSE LinkDown
      <3>1. c2s[d] = <<Hello>> /\ sv[d] = "accepted"
        BY <1>8, <1>s, <2>1, Singletons, MessageTypes
           DEF ServerHello, ServerRejects, ServerReads, Stage
      <3>2. s2c[d] = <<>> /\ cl[d] \in {"recv", "gone"} /\ ~Struck(d)
        BY <1>s, <3>1 DEF Stage
      <3>3. /\ cl'[d] = cl[d] /\ deal'[d] = deal[d] /\ c2s'[d] = <<>>
            /\ sv'[d] = IF ServerHello(d) THEN "bound" ELSE "accepted"
            /\ s2c'[d] = IF cl[d] = "gone" THEN <<>> ELSE <<answer>>
        <4>1. CASE ServerHello(d)
          BY <4>1, <1>t, <3>1, <3>2, Singletons DEF ServerHello, ServerSends
        <4>2. CASE ~ServerHello(d)
          BY <4>2, <1>8, <2>1, <1>t, <3>1, <3>2, Singletons DEF ServerRejects, ServerSends
        <4> QED BY <4>1, <4>2
      <3>4. port["server"].allowed \in SUBSET VSAN
        BY DEF TypeOK, Side, FCPort
      <3>5. CASE ServerHello(d)
        BY <3>2, <3>3, <3>4, <3>5, Singletons, MessageTypes DEF Stage, EmptyQueues, Struck
      <3>6. CASE ~ServerHello(d)
        BY <3>2, <3>3, <3>6, Singletons, MessageTypes DEF Stage, EmptyQueues, Struck
      <3> QED BY <3>5, <3>6
    <2>2. CASE c # d
      BY <1>8, <1>s, <1>t, <2>2, StageFrame DEF ServerHello, ServerRejects, ServerSends
    <2> QED BY <2>1, <2>2
  <1>9. ASSUME NEW c \in Conn, ServerMerge(c) PROVE Stage(d)'
    <2>1. CASE c = d
      <3>1. c2s[d] = <<Merge(deal[d])>> /\ sv[d] = "bound"
        BY <1>9, <1>s, <2>1, Singletons, MessageTypes DEF ServerMerge, ServerReads, Stage
      <3>2. Struck(d) /\ s2c[d] = <<>>
        BY <1>s, <3>1 DEF Stage
      <3>3. /\ cl'[d] = cl[d] /\ deal'[d] = deal[d] /\ sv'[d] = "bound"
            /\ c2s'[d] = <<>> /\ s2c'[d] = IF cl[d] = "gone" THEN <<>> ELSE <<Ack>>
        BY <1>9, <2>1, <1>t, <3>1, <3>2, Singletons DEF ServerMerge, ServerSends
      <3>4. cl[d] \notin {"none", "connected"}
        BY <1>s, <3>2 DEF Stage
      <3> QED BY <3>1, <3>2, <3>3, <3>4, Singletons, MessageTypes DEF Stage, EmptyQueues, Struck
    <2>2. CASE c # d
      BY <1>9, <1>s, <1>t, <2>2, StageFrame DEF ServerMerge, ServerSends
    <2> QED BY <2>1, <2>2
  <1>10. ASSUME NEW c \in Conn, ServerHelloFails(c) \/ ServerEof(c) PROVE Stage(d)'
    <2>0. ServerCloses(c) /\ cl[c] = "gone" /\ UNCHANGED <<cl, s2c, deal>>
      BY <1>10 DEF ServerHelloFails, ServerEof
    <2>1. CASE c = d
      BY <1>s, <1>t, <2>0, <2>1 DEF ServerCloses, Stage, EmptyQueues, Struck
    <2>2. CASE c # d
      BY <1>s, <1>t, <2>0, <2>2, StageFrame DEF ServerCloses
    <2> QED BY <2>1, <2>2
  <1>11. ASSUME NEW s \in Side, Crash(s) PROVE Stage(d)'
    <2>1. CASE s = "client"
      BY <1>11, <1>s, <1>t, <2>1 DEF Crash, Stage, EmptyQueues, Struck
    <2>2. CASE s = "server"
      <3>1. /\ cl'[d] = cl[d] /\ s2c'[d] = s2c[d] /\ deal'[d] = deal[d] /\ c2s'[d] = <<>>
            /\ sv'[d] = IF sv[d] = "none" THEN "none" ELSE "gone"
        BY <1>11, <1>t, <2>2 DEF Crash
      <3>2. c2s'[d] # <<Hello>> /\ c2s'[d] # <<Merge(deal'[d])>>
        BY <3>1, Singletons
      <3> QED BY <1>s, <3>1, <3>2 DEF Stage, EmptyQueues, Struck
    <2> QED BY <2>1, <2>2 DEF Side
  <1>12. ASSUME NEW s \in Side, Operator(s) PROVE UNCHANGED <<links, deal>>
    BY <1>12, OperatorStep DEF Command, links
  <1>13. CASE DialWrongMode \/ DialRefused \/ (\E s \in Side : Start(s)) \/ UNCHANGED vars
    BY <1>13, <1>1 DEF DialWrongMode, DialRefused, Start, vars
  <1> QED BY <1>1, <1>2, <1>3, <1>4, <1>5, <1>6, <1>7, <1>8, <1>9, <1>10, <1>11,
             <1>12, <1>13
          DEF Next, DialThread, ClientThread, ServerThread

-----------------------------------------------------------------------------
(* One live connection of the client *)

LEMMA NextOneLink ==
    ASSUME TypeOK, OneLink, [Next]_vars
    PROVE  OneLink'
  <1>t. cl \in [Conn -> ClientPhase]
    BY DEF TypeOK
  <1>1. ASSUME UNCHANGED cl, dial' \in {dial, dial - 1}, dial' # dial => dial > 0
        PROVE  OneLink'
    BY <1>1 DEF OneLink, Live
  <1>2. ASSUME NEW c \in Conn, Dial(c) PROVE OneLink'
    <2>1. \A d \in Conn : ~Live(d)
      BY <1>2 DEF Dial, Dialling, OneLink, Live
    <2>2. \A d \in Conn : cl'[d] = IF d = c THEN "connected" ELSE cl[d]
      BY <1>2, <1>t DEF Dial
    <2> QED BY <2>1, <2>2 DEF OneLink, Live
  <1>3. ASSUME NEW c \in Conn, ClientHello(c) \/ ClientElp(c) \/ ClientMerged(c)
        PROVE  OneLink'
    <2>1. Live(c) /\ dial' = 0
      BY <1>3 DEF ClientHello, ClientElp, ClientReads, ClientMerged, Live, OneLink
    <2>2. \A d \in Conn : d # c => cl'[d] = cl[d]
      BY <1>3, <1>t DEF ClientHello, ClientElp, ClientMerged
    <2>3. \A d \in Conn : d # c => ~Live(d)
      BY <2>1 DEF OneLink
    <2> QED BY <2>1, <2>2, <2>3 DEF OneLink, Live
  <1>4. ASSUME NEW c \in Conn, HelloFails(c) \/ ClientElpFails(c) \/ ClientEof(c)
        PROVE  OneLink'
    BY <1>4, <1>t DEF HelloFails, ClientElpFails, ClientEof, ClientCloses, OneLink, Live
  <1>5. ASSUME NEW c \in Conn, ClientIgnoresAck(c) \/ ClientLinkDown(c) \/ ServerThread(c)
        PROVE  OneLink'
    BY <1>1, <1>5 DEF ClientIgnoresAck, ClientLinkDown, ServerThread, ServerHello,
       ServerRejects, ServerHelloFails, ServerMerge, ServerEof
  <1>6. ASSUME NEW s \in Side, Crash(s) PROVE OneLink'
    <2>1. CASE s = "client"
      <3>1. \A d \in Conn : ~Live(d)'
        BY <1>6, <2>1 DEF Crash, Live
      <3> QED BY <3>1 DEF OneLink, Live
    <2>2. CASE s = "server"
      BY <1>6, <1>1, <2>2 DEF Crash
    <2> QED BY <2>1, <2>2 DEF Side
  <1>7. ASSUME NEW s \in Side, Start(s) \/ Operator(s) PROVE OneLink'
    BY <1>1, <1>7, OperatorStep DEF Start, Command, links
  <1>8. CASE DialWrongMode \/ DialRefused \/ UNCHANGED vars
    BY <1>1, <1>8 DEF DialWrongMode, DialRefused, Dialling, vars, links
  <1> QED BY <1>2, <1>3, <1>4, <1>5, <1>6, <1>7, <1>8 DEF Next, DialThread, ClientThread

-----------------------------------------------------------------------------
(* Operational ports and their connections *)

\* A port that keeps its trunk results still owes them to a connection
LEMMA OwesFrame ==
    ASSUME NEW s \in Side, NEW c \in Conn, Owes(s, c), deal'[c] = deal[c],
           Keeps(port[s], port'[s]), port'[s].oper \in Operational
    PROVE  Owes(s, c)' /\ port[s].oper \in Operational
  BY DEF Owes, Struck, Trunking, TermsOf, Keeps

\* The part of ClientTie that a connection has to provide
ClientHolds(c) == cl[c] = "recv" /\ Owes("client", c)

LEMMA NextClientTie ==
    ASSUME TypeOK, OneLink, \A c \in Conn : Stage(c), ClientTie, [Next]_vars
    PROVE  ClientTie'
  <1>t. /\ cl \in [Conn -> ClientPhase] /\ deal \in [Conn -> Terms]
        /\ port \in [Side -> FCPort] /\ "client" \in Side /\ "server" \in Side
    BY DEF TypeOK, Side
  <1>p. port["client"] \in FCPort
    BY <1>t
  <1> SUFFICES ASSUME port'["client"].oper \in Operational
               PROVE  \E c \in Conn : ClientHolds(c)'
    BY DEF ClientTie, ClientHolds
  <1>0. port["client"].oper \in Operational => \E c \in Conn : ClientHolds(c)
    BY DEF ClientTie, ClientHolds
  <1>1. ASSUME Keeps(port["client"], port'["client"]),
               \A c \in Conn : ClientHolds(c) => cl'[c] = cl[c] /\ deal'[c] = deal[c]
        PROVE  \E c \in Conn : ClientHolds(c)'
    <2>1. port["client"].oper \in Operational
      BY <1>1 DEF Keeps
    <2>2. PICK c \in Conn : ClientHolds(c)
      BY <1>0, <2>1
    <2>3. Owes("client", c)' /\ cl'[c] = "recv"
      BY <1>1, <1>t, <2>2, OwesFrame DEF ClientHolds
    <2> QED BY <2>3 DEF ClientHolds
  <1>2. ASSUME port'["client"] = port["client"], UNCHANGED <<cl, deal>>
        PROVE  \E c \in Conn : ClientHolds(c)'
    BY <1>1, <1>2 DEF Keeps
  <1>3. ASSUME NEW c \in Conn, Dial(c) PROVE \E d \in Conn : ClientHolds(d)'
    BY <1>1, <1>3, <1>t DEF Dial, Keeps, ClientHolds
  <1>4. ASSUME NEW c \in Conn, ClientHello(c) \/ HelloFails(c) PROVE FALSE
    <2>1. cl[c] = "connected" /\ port'["client"] = LinkSignalDetected(port["client"])
      BY <1>4, <1>t DEF ClientHello, HelloFails, SetPort
    <2>2. port["client"].oper \in Operational
      BY <1>p, <2>1, SignalType DEF Keeps
    <2>3. PICK d \in Conn : ClientHolds(d)
      BY <1>0, <2>2
    <2> QED BY <2>1, <2>3 DEF ClientHolds, OneLink, Live
  <1>5. ASSUME NEW c \in Conn, ClientElp(c) PROVE FALSE
    <2>1. cl[c] = "recv" /\ ~Struck(c) /\ port' = port
      BY <1>5 DEF ClientElp, ClientReads, Stage
    <2>2. PICK d \in Conn : ClientHolds(d)
      BY <1>0, <2>1
    <2> QED BY <2>1, <2>2 DEF ClientHolds, OneLink, Live, Owes
  <1>6. ASSUME NEW c \in Conn, ClientElpFails(c) \/ ClientLinkDown(c) \/ ClientEof(c)
        PROVE  FALSE
    <2>1. port'["client"] = LinkLost(port["client"])
      BY <1>6, <1>t DEF ClientElpFails, ClientLinkDown, ClientEof, SetPort
    <2> QED BY <1>p, <2>1, LostType, States
  <1>7. ASSUME NEW c \in Conn, ClientMerged(c) PROVE \E d \in Conn : ClientHolds(d)'
    <2>1. /\ cl'[c] = "recv" /\ deal' = deal
          /\ port'["client"] = ElpSuccess(port["client"], deal[c].domain, deal[c].vsans)
      BY <1>7, <1>t DEF ClientMerged, SetPort
    <2>2. Struck(c)
      BY <1>7 DEF ClientMerged, Stage
    <2>3. Trunking("client")' => TermsOf("client")' = deal[c]
      <3>1. deal[c] \in Terms
        BY <1>t
      <3>2. port'["client"].oper = "TRUNKING" =>
              port'["client"].negotiated = deal[c].vsans /\ port'["client"].domain = deal[c].domain
        BY <1>p, <2>1, <3>1, TermsType, ElpSuccessType
      <3> QED BY <3>1, <3>2 DEF Trunking, TermsOf, Terms
    <2> QED BY <2>1, <2>2, <2>3 DEF ClientHolds, Owes, Struck
  <1>8. ASSUME NEW c \in Conn, ClientIgnoresAck(c) \/ ServerThread(c)
        PROVE  \E d \in Conn : ClientHolds(d)'
    BY <1>2, <1>8, <1>t DEF ClientIgnoresAck, ServerThread, ServerHello, ServerRejects,
       ServerHelloFails, ServerMerge, ServerEof, SetPort
  <1>9. ASSUME NEW s \in Side, Crash(s) PROVE \E d \in Conn : ClientHolds(d)'
    <2>1. CASE s = "client"
      <3>1. PICK cfg \in Boot["client"] : port'["client"] = BootPort(cfg)
        BY <1>9, <1>t, <2>1 DEF Crash, SetPort
      <3> QED BY <3>1, BootAssumption, BootPortType, States
    <2>2. CASE s = "server"
      BY <1>2, <1>9, <1>t, <2>2 DEF Crash, SetPort
    <2> QED BY <2>1, <2>2 DEF Side
  <1>10. ASSUME NEW s \in Side, Operator(s) PROVE \E d \in Conn : ClientHolds(d)'
    <2>1. PICK q \in Commanded(port[s]) : Command(s, q)
      BY <1>10, OperatorStep
    <2>2. Keeps(port["client"], port'["client"])
      <3>1. Keeps(port[s], q)
        BY <1>t, CommandType
      <3> QED BY <1>t, <2>1, <3>1 DEF Command, SetPort, Keeps
    <2> QED BY <1>1, <2>1, <2>2 DEF Command, links
  <1>11. CASE DialWrongMode \/ DialRefused \/ (\E s \in Side : Start(s)) \/ UNCHANGED vars
    BY <1>2, <1>11 DEF DialWrongMode, DialRefused, Start, vars, links
  <1> QED BY <1>3, <1>4, <1>5, <1>6, <1>7, <1>8, <1>9, <1>10, <1>11
          DEF Next, DialThread, ClientThread

\* The part of ServerTie that a connection has to provide
ServerHolds(c) == sv[c] = "bound" /\ Owes("server", c)

LEMMA NextServerTie ==
    ASSUME TypeOK, \A c \in Conn : Stage(c), ServerTie, [Next]_vars
    PROVE  ServerTie'
  <1>t. /\ sv \in [Conn -> ServerPhase] /\ deal \in [Conn -> Terms]
        /\ port \in [Side -> FCPort] /\ "client" \in Side /\ "server" \in Side
    BY DEF TypeOK, Side
  <1>p. port["server"] \in FCPort
    BY <1>t
  <1> SUFFICES ASSUME port'["server"].oper \in Operational
               PROVE  \E c \in Conn : ServerHolds(c)'
    BY DEF ServerTie, ServerHolds
  <1>0. port["server"].oper \in Operational => \E c \in Conn : ServerHolds(c)
    BY DEF ServerTie, ServerHolds
  <1>1. ASSUME Keeps(port["server"], port'["server"]),
               \A c \in Conn : ServerHolds(c) => sv'[c] = sv[c] /\ deal'[c] = deal[c]
        PROVE  \E c \in Conn : ServerHolds(c)'
    <2>1. port["server"].oper \in Operational
      BY <1>1 DEF Keeps
    <2>2. PICK c \in Conn : ServerHolds(c)
      BY <1>0, <2>1
    <2>3. Owes("server", c)' /\ sv'[c] = "bound"
      BY <1>1, <1>t, <2>2, OwesFrame DEF ServerHolds
    <2> QED BY <2>3 DEF ServerHolds
  <1>2. ASSUME port'["server"] = port["server"], UNCHANGED <<sv, deal>>
        PROVE  \E c \in Conn : ServerHolds(c)'
    BY <1>1, <1>2 DEF Keeps
  <1>3. ASSUME NEW c \in Conn, Dial(c) PROVE \E d \in Conn : ServerHolds(d)'
    <2>1. sv[c] = "none"
      BY <1>3 DEF Dial, Stage
    <2> QED BY <1>1, <1>3, <1>t, <2>1 DEF Dial, Keeps, ServerHolds
  <1>4. ASSUME NEW c \in Conn, ClientElp(c) PROVE \E d \in Conn : ServerHolds(d)'
    <2>1. ~Struck(c)
      BY <1>4 DEF ClientElp, ClientReads, Stage
    <2>2. \A d \in Conn : ServerHolds(d) => d # c
      BY <2>1 DEF ServerHolds, Owes
    <2> QED BY <1>1, <1>4, <1>t, <2>2 DEF ClientElp, Keeps
  <1>5. ASSUME NEW c \in Conn,
               \/ ClientHello(c) \/ HelloFails(c) \/ ClientElpFails(c) \/ ClientMerged(c)
               \/ ClientIgnoresAck(c) \/ ClientLinkDown(c) \/ ClientEof(c)
        PROVE  \E d \in Conn : ServerHolds(d)'
    BY <1>2, <1>5, <1>t DEF ClientHello, HelloFails, ClientElpFails, ClientMerged,
       ClientIgnoresAck, ClientLinkDown, ClientEof, SetPort
  <1>6. ASSUME NEW c \in Conn, ServerHello(c) PROVE \E d \in Conn : ServerHolds(d)'
    <2>1. Keeps(port["server"], port'["server"])
      BY <1>6, <1>t, <1>p, SignalType DEF ServerHello, SetPort
    <2>2. \A d \in Conn : ServerHolds(d) => d # c
      BY <1>6 DEF ServerHello, ServerReads, ServerHolds
    <2> QED BY <1>1, <1>6, <1>t, <2>1, <2>2 DEF ServerHello
  <1>7. ASSUME NEW c \in Conn, ServerRejects(c) PROVE \E d \in Conn : ServerHolds(d)'
    BY <1>2, <1>7 DEF ServerRejects
  <1>8. ASSUME NEW c \in Conn, ServerHelloFails(c) PROVE \E d \in Conn : ServerHolds(d)'
    <2>1. Keeps(port["server"], port'["server"])
      <3>1. \/ port'["server"] = LinkSignalDetected(port["server"])
            \/ port'["server"] = port["server"]
        BY <1>8, <1>t DEF ServerHelloFails, SetPort
      <3> QED BY <1>p, <3>1, SignalType DEF Keeps
    <2>2. \A d \in Conn : ServerHolds(d) => d # c
      BY <1>8 DEF ServerHelloFails, ServerReads, ServerHolds
    <2> QED BY <1>1, <1>8, <1>t, <2>1, <2>2 DEF ServerHelloFails, ServerCloses
  <1>9. ASSUME NEW c \in Conn, ServerMerge(c) PROVE \E d \in Conn : ServerHolds(d)'
    <2>1. sv[c] = "bound" /\ c2s[c] = <<Merge(deal[c])>> /\ Struck(c)
      BY <1>9, Singletons, MessageTypes DEF ServerMerge, ServerReads, Stage
    <2>2. deal[c] \in Terms
      BY <1>t
    <2>3. Head(c2s[c]).terms = deal[c]
      BY <2>1, <2>2, Singletons, MessageTypes
    <2>4. /\ sv' = sv /\ deal' = deal
          /\ port'["server"] = ElpSuccess(port["server"], deal[c].domain, deal[c].vsans)
      BY <1>9, <1>t, <2>3 DEF ServerMerge, SetPort
    <2>5. Trunking("server")' => TermsOf("server")' = deal[c]
      <3>1. port'["server"].oper = "TRUNKING" =>
              port'["server"].negotiated = deal[c].vsans /\ port'["server"].domain = deal[c].domain
        BY <1>p, <2>2, <2>4, TermsType, ElpSuccessType
      <3> QED BY <2>2, <3>1 DEF Trunking, TermsOf, Terms
    <2> QED BY <2>1, <2>4, <2>5 DEF ServerHolds, Owes, Struck
  <1>10. ASSUME NEW c \in Conn, ServerEof(c) PROVE \E d \in Conn : ServerHolds(d)'
    <2>1. CASE sv[c] = "bound"
      <3>1. port'["server"] = LinkLost(port["server"])
        BY <1>10, <1>t, <2>1 DEF ServerEof, SetPort
      <3> QED BY <1>p, <3>1, LostType, States
    <2>2. CASE sv[c] # "bound"
      <3>1. port'["server"] = port["server"]
        BY <1>10, <1>t, <2>2 DEF ServerEof, SetPort
      <3> QED BY <1>1, <1>10, <1>t, <2>2, <3>1 DEF ServerEof, ServerCloses, ServerHolds, Keeps
    <2> QED BY <2>1, <2>2
  <1>11. ASSUME NEW s \in Side, Crash(s) PROVE \E d \in Conn : ServerHolds(d)'
    <2>1. CASE s = "server"
      <3>1. PICK cfg \in Boot["server"] : port'["server"] = BootPort(cfg)
        BY <1>11, <1>t, <2>1 DEF Crash, SetPort
      <3> QED BY <3>1, BootAssumption, BootPortType, States
    <2>2. CASE s = "client"
      BY <1>2, <1>11, <1>t, <2>2 DEF Crash, SetPort
    <2> QED BY <2>1, <2>2 DEF Side
  <1>12. ASSUME NEW s \in Side, Operator(s) PROVE \E d \in Conn : ServerHolds(d)'
    <2>1. PICK q \in Commanded(port[s]) : Command(s, q)
      BY <1>12, OperatorStep
    <2>2. Keeps(port["server"], port'["server"])
      <3>1. Keeps(port[s], q)
        BY <1>t, CommandType
      <3> QED BY <1>t, <2>1, <3>1 DEF Command, SetPort, Keeps
    <2> QED BY <1>1, <2>1, <2>2 DEF Command, links
  <1>13. CASE DialWrongMode \/ DialRefused \/ (\E s \in Side : Start(s)) \/ UNCHANGED vars
    BY <1>2, <1>13 DEF DialWrongMode, DialRefused, Start, vars, links
  <1> QED BY <1>3, <1>4, <1>5, <1>6, <1>7, <1>8, <1>9, <1>10, <1>11, <1>12, <1>13
          DEF Next, DialThread, ClientThread, ServerThread

-----------------------------------------------------------------------------
(* The inductive invariant, and what follows from it *)

LEMMA InitIInv == Init => IInv
  <1> SUFFICES ASSUME Init PROVE IInv
    OBVIOUS
  <1>1. TypeOK
    BY InitTypeOK
  <1>2. OneLink
    BY DEF Init, OneLink, Live
  <1>3. \A c \in Conn : Stage(c)
    BY DEF Init, Stage, EmptyQueues, Struck, NoTerms
  <1>4. \A s \in Side : port[s].oper = "OFFLINE"
    <2>1. PICK a \in Boot["client"], b \in Boot["server"] :
             port = [s \in Side |-> BootPort(IF s = "client" THEN a ELSE b)]
      BY DEF Init
    <2> QED BY <2>1, BootAssumption, BootPortType
  <1>5. ClientTie /\ ServerTie
    BY <1>4, States DEF ClientTie, ServerTie, Side
  <1> QED BY <1>1, <1>2, <1>3, <1>5 DEF IInv

LEMMA NextIInv == IInv /\ [Next]_vars => IInv'
  BY NextTypeOK, NextOneLink, NextStage, NextClientTie, NextServerTie DEF IInv

\* The strengthening holds in every run
THEOREM Invariance == Spec => []IInv
  BY InitIInv, NextIInv, PTL DEF Spec

\* Two ends that trunk owe their state to one connection: the client has
\* only one, and without messages under way the server's is no other
LEMMA IInvAgreement == IInv => Agreement
  <1> SUFFICES ASSUME IInv, Drained, Trunking("client"), Trunking("server")
               PROVE  TermsOf("client") = TermsOf("server")
    BY DEF Agreement
  <1>1. port["client"].oper \in Operational /\ port["server"].oper \in Operational
    BY DEF Trunking, Operational
  <1>2. PICK c \in Conn : cl[c] = "recv" /\ Owes("client", c)
    BY <1>1 DEF IInv, ClientTie
  <1>3. PICK d \in Conn : sv[d] = "bound" /\ Owes("server", d)
    BY <1>1 DEF IInv, ServerTie
  <1>4. cl[d] = "recv"
    BY <1>3 DEF Drained
  <1>5. c = d
    BY <1>2, <1>4 DEF IInv, OneLink, Live
  <1> QED BY <1>2, <1>3, <1>5 DEF Owes

\* When nothing is under way the two ends of a trunk agree, for any VSANs,
\* startup files, and any number of connections, attempts and restarts
THEOREM AgreementHolds == Spec => []Agreement
  BY Invariance, IInvAgreement, PTL

LEMMA IInvWatched == IInv => Watched
  BY DEF IInv, ClientTie, ServerTie, Watched

\* No operational port is without a thread that will take it down
THEOREM WatchedHolds == Spec => []Watched
  BY Invariance, IInvWatched, PTL
=============================================================================
