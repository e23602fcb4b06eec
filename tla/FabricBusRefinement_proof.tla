---------------------- MODULE FabricBusRefinement_proof ----------------------
(***************************************************************************)
(* The fabric bus implements TrunkAgreement, for any VSANs, domains,       *)
(* startup files and bounds.                                               *)
(*                                                                         *)
(* Every step of FabricBus is a step of TrunkAgreement or leaves its       *)
(* variables alone.  What the steps that strike and adopt terms need from  *)
(* the state is IInv of FabricBus_proof (a DOMAIN_MERGE in the queue       *)
(* carries what the client struck on that connection, and it strikes once  *)
(* for each) and Source: an ELP in a queue carries a list the server has   *)
(* advertised, and before it is answered nothing is struck.                *)
(***************************************************************************)
EXTENDS FabricBus_proof

\* Where the contents of a connection come from
Source(c) ==
    /\ s2c[c] # <<>> /\ Head(s2c[c]).type = "ELP" => Head(s2c[c]).vsans \in offered
    /\ Struck(c) \/ deal[c] = NoTerms

\* The variables of TrunkAgreement as functions of the state of FabricBus
AllowedBar == [s \in Side |-> port[s].allowed]
StruckBar  == {deal[c] : c \in Conn} \ {NoTerms}
TermsBar   == [s \in Side |-> IF Trunking(s) THEN TermsOf(s) ELSE NoTerms]

-----------------------------------------------------------------------------
(* Offers and deals *)

\* What a step puts into the queue to the client: nothing, a message without
\* data, or the list the server advertises in that step
LEMMA NextToClient ==
    ASSUME IInv, [Next]_vars, NEW d \in Conn
    PROVE  \/ s2c'[d] \in {s2c[d], <<>>, <<LinkDown>>, <<Ack>>}
           \/ \E vs \in SUBSET VSAN : vs \in offered' /\ s2c'[d] = <<Elp(vs)>>
  <1>t. /\ s2c \in [Conn -> Seq(ToClient)] /\ "server" \in Side
        /\ port \in [Side -> FCPort]
    BY DEF IInv, TypeOK, Side
  <1>s. Stage(d)
    BY DEF IInv
  <1>1. ASSUME NEW c \in Conn, \/ ClientElp(c) \/ ClientIgnoresAck(c) \/ ClientLinkDown(c)
        PROVE  s2c'[d] \in {s2c[d], <<>>}
    <2>1. s2c'[d] = IF c = d THEN Tail(s2c[d]) ELSE s2c[d]
      BY <1>1, <1>t DEF ClientElp, ClientIgnoresAck, ClientLinkDown
    <2>2. s2c[c] # <<>>
      BY <1>1 DEF ClientElp, ClientIgnoresAck, ClientLinkDown, ClientReads
    <2>3. s2c[d] # <<>> => Tail(s2c[d]) = <<>>
      BY <1>s, Singletons DEF Stage
    <2> QED BY <2>1, <2>2, <2>3
  <1>2. ASSUME NEW c \in Conn, HelloFails(c) \/ ClientElpFails(c) \/ ClientEof(c)
        PROVE  s2c'[d] \in {s2c[d], <<>>}
    BY <1>2, <1>t DEF HelloFails, ClientElpFails, ClientEof, ClientCloses
  <1>3. ASSUME NEW c \in Conn, NEW m, ServerSends(c, m), s2c[c] = <<>>
        PROVE  s2c'[d] \in {s2c[d], <<>>, <<m>>}
    BY <1>3, <1>t, Singletons DEF ServerSends
  <1>4. ASSUME NEW c \in Conn, ServerHello(c) \/ ServerRejects(c) \/ ServerMerge(c)
        PROVE  s2c[c] = <<>>
    BY <1>4, Singletons, MessageTypes
       DEF IInv, Stage, ServerHello, ServerRejects, ServerMerge, ServerReads
  <1>5. ASSUME NEW c \in Conn, ServerHello(c)
        PROVE  \/ s2c'[d] \in {s2c[d], <<>>}
               \/ \E vs \in SUBSET VSAN : vs \in offered' /\ s2c'[d] = <<Elp(vs)>>
    <2>1. port["server"].allowed \in SUBSET VSAN /\ port["server"].allowed \in offered'
      BY <1>5, <1>t DEF ServerHello, FCPort
    <2>2. s2c'[d] \in {s2c[d], <<>>, <<Elp(port["server"].allowed)>>}
      BY <1>3, <1>4, <1>5 DEF ServerHello
    <2> QED BY <2>1, <2>2
  <1>6. ASSUME NEW c \in Conn, ServerRejects(c)
        PROVE  s2c'[d] \in {s2c[d], <<>>, <<LinkDown>>}
    BY <1>3, <1>4, <1>6 DEF ServerRejects
  <1>7. ASSUME NEW c \in Conn, ServerMerge(c)
        PROVE  s2c'[d] \in {s2c[d], <<>>, <<Ack>>}
    BY <1>3, <1>4, <1>7 DEF ServerMerge
  <1>8. ASSUME NEW s \in Side, Crash(s) PROVE s2c'[d] \in {s2c[d], <<>>}
    BY <1>8 DEF Crash
  <1>9. ASSUME NEW s \in Side, Operator(s) PROVE s2c' = s2c
    BY <1>9, OperatorStep DEF IInv, Command, links
  <1>10. ASSUME NEW c \in Conn, \/ Dial(c) \/ ClientHello(c) \/ ClientMerged(c)
                                \/ ServerHelloFails(c) \/ ServerEof(c)
         PROVE  s2c' = s2c
    BY <1>10 DEF Dial, ClientHello, ClientMerged, ServerHelloFails, ServerEof
  <1>11. CASE DialWrongMode \/ DialRefused \/ (\E s \in Side : Start(s)) \/ UNCHANGED vars
    BY <1>11 DEF DialWrongMode, DialRefused, Start, vars, links
  <1> QED BY <1>1, <1>2, <1>5, <1>6, <1>7, <1>8, <1>9, <1>10, <1>11
          DEF Next, DialThread, ClientThread, ServerThread

\* Offers are never withdrawn, and only the client's answer to an ELP makes a
\* deal, on its own connection
LEMMA NextDeal ==
    ASSUME IInv, [Next]_vars
    PROVE  /\ offered \subseteq offered'
           /\ \/ deal' = deal
              \/ \E c \in Conn : ClientElp(c)
  <1>1. ASSUME NEW s \in Side, Operator(s) PROVE UNCHANGED <<offered, deal>>
    BY <1>1, OperatorStep DEF IInv, Command
  <1>2. ASSUME NEW c \in Conn, ~ClientElp(c), ClientThread(c) \/ ServerThread(c)
        PROVE  offered \subseteq offered' /\ deal' = deal
    BY <1>2 DEF ClientThread, ServerThread, ClientElpFails, ClientMerged, ClientIgnoresAck,
                ClientLinkDown, ClientEof, ServerHello, ServerRejects, ServerHelloFails,
                ServerMerge, ServerEof
  <1>3. ASSUME NEW c \in Conn, ClientElp(c) PROVE offered \subseteq offered'
    BY <1>3 DEF ClientElp
  <1>4. ASSUME DialThread PROVE UNCHANGED <<offered, deal>>
    BY <1>4 DEF DialThread, DialWrongMode, DialRefused, Dial, ClientHello, HelloFails
  <1>5. ASSUME NEW s \in Side, Start(s) \/ Crash(s) PROVE UNCHANGED <<offered, deal>>
    BY <1>5 DEF Start, Crash
  <1>6. CASE UNCHANGED vars
    BY <1>6 DEF vars
  <1> QED BY <1>1, <1>2, <1>3, <1>4, <1>5, <1>6 DEF Next

\* The client answers an offer with the VSANs allowed at both ends, for the
\* first time on that connection
LEMMA ElpStrikes ==
    ASSUME IInv, \A e \in Conn : Source(e), NEW c \in Conn, ClientElp(c)
    PROVE  \E vs \in offered :
              /\ deal' = [deal EXCEPT ![c] = ClientTerms(vs)]
              /\ ClientTerms(vs) # NoTerms /\ deal[c] = NoTerms
              /\ Struck(c)'
  <1> DEFINE vs == Head(s2c[c]).vsans
  <1>1. s2c[c] # <<>> /\ Head(s2c[c]).type = "ELP" /\ cl[c] = "recv"
        /\ deal' = [deal EXCEPT ![c] = ClientTerms(vs)]
    BY DEF ClientElp, ClientReads
  <1>2. vs \in offered
    BY <1>1 DEF Source
  <1>3. ~Struck(c)
    BY <1>1 DEF IInv, Stage
  <1>4. ClientTerms(vs).domain # NoDomain
    BY DomainAssumption DEF ClientTerms, IInv, TypeOK, Side
  <1>5. deal \in [Conn -> Terms]
    BY DEF IInv, TypeOK
  <1> HIDE DEF vs
  <1>6. ClientTerms(vs) # NoTerms
    BY <1>4 DEF NoTerms
  <1> QED BY <1>1, <1>2, <1>3, <1>4, <1>5, <1>6 DEF Source, Struck

LEMMA NextSource ==
    ASSUME IInv, \A c \in Conn : Source(c), [Next]_vars, NEW d \in Conn
    PROVE  Source(d)'
  <1>1. s2c'[d] # <<>> /\ Head(s2c'[d]).type = "ELP" => Head(s2c'[d]).vsans \in offered'
    <2>1. CASE s2c'[d] = s2c[d]
      BY <2>1, NextDeal DEF Source
    <2>2. CASE s2c'[d] \in {<<>>, <<LinkDown>>, <<Ack>>}
      BY <2>2, Singletons, MessageTypes
    <2>3. CASE \E vs \in SUBSET VSAN : vs \in offered' /\ s2c'[d] = <<Elp(vs)>>
      BY <2>3, Singletons, MessageTypes
    <2> QED BY <2>1, <2>2, <2>3, NextToClient
  <1>2. (Struck(d) \/ deal[d] = NoTerms)'
    <2>1. CASE deal' = deal
      BY <2>1 DEF Source, Struck
    <2>2. ASSUME NEW c \in Conn, ClientElp(c) PROVE (Struck(d) \/ deal[d] = NoTerms)'
      <3>1. Struck(c)' /\ \A e \in Conn : e # c => deal'[e] = deal[e]
        <4>1. deal \in [Conn -> Terms]
          BY DEF IInv, TypeOK
        <4> QED BY <2>2, <4>1, ElpStrikes
      <3> QED BY <3>1 DEF Source, Struck
    <2> QED BY <2>1, <2>2, NextDeal
  <1> QED BY <1>1, <1>2 DEF Source

\* The invariant of the refinement
RInv == IInv /\ \A c \in Conn : Source(c)

LEMMA InitRInv == Init => RInv
  BY InitIInv DEF Init, RInv, Source

LEMMA NextRInv == RInv /\ [Next]_vars => RInv'
  BY NextIInv, NextSource DEF RInv

-----------------------------------------------------------------------------
(* Steps of the port of one end *)

\* A step of FabricBus that gives end s the port q and leaves the domains,
\* the offers and the deals alone
PortStep(s, q) == SetPort(s, q) /\ UNCHANGED <<domainOf, offered, deal>>

AbsStep == [Abs!Next]_(Abs!vars)

\* What TrunkAgreement sees of the change of one port
LEMMA BarStep ==
    ASSUME port \in [Side -> FCPort], NEW s \in Side, NEW q, SetPort(s, q)
    PROVE  /\ AllowedBar' = [AllowedBar EXCEPT ![s] = q.allowed]
           /\ TermsBar' = [TermsBar EXCEPT ![s] =
                IF q.oper = "TRUNKING"
                THEN [vsans |-> q.negotiated, domain |-> q.domain]
                ELSE NoTerms]
  <1>1. \A r \in Side : port'[r] = IF r = s THEN q ELSE port[r]
    BY DEF SetPort
  <1> QED BY <1>1 DEF AllowedBar, TermsBar, Trunking, TermsOf

\* An end whose trunk results a call keeps goes on trunking or lets go
LEMMA LetsGo ==
    ASSUME port \in [Side -> FCPort], NEW s \in Side, NEW q, SetPort(s, q),
           q.allowed = port[s].allowed,
           Keeps(port[s], q) \/ q.oper # "TRUNKING"
    PROVE  /\ AllowedBar' = AllowedBar
           /\ TermsBar' \in {TermsBar, [TermsBar EXCEPT ![s] = NoTerms]}
  <1> DEFINE t == IF q.oper = "TRUNKING"
                  THEN [vsans |-> q.negotiated, domain |-> q.domain]
                  ELSE NoTerms
  <1>0. /\ AllowedBar' = [AllowedBar EXCEPT ![s] = q.allowed]
        /\ TermsBar' = [TermsBar EXCEPT ![s] = t]
    BY BarStep
  <1>1. AllowedBar' = AllowedBar
    BY <1>0 DEF AllowedBar
  <1>2. CASE q.oper # "TRUNKING"
    <2>1. t = NoTerms
      BY <1>2
    <2> HIDE DEF t
    <2> QED BY <1>0, <1>1, <2>1
  <1>3. CASE q.oper = "TRUNKING"
    <2>1. /\ Trunking(s) /\ q.negotiated = port[s].negotiated
          /\ q.domain = port[s].domain
      BY <1>3 DEF Keeps, Operational, Trunking
    <2>2. TermsBar' = [TermsBar EXCEPT ![s] = TermsOf(s)]
      <3>1. t = TermsOf(s)
        BY <1>3, <2>1 DEF TermsOf
      <3> HIDE DEF t
      <3> QED BY <1>0, <3>1
    <2> QED BY <1>1, <2>1, <2>2 DEF TermsBar
  <1> QED BY <1>1, <1>2, <1>3

LEMMA ReleaseStep ==
    ASSUME port \in [Side -> FCPort], NEW s \in Side, NEW q, PortStep(s, q),
           q.allowed = port[s].allowed,
           Keeps(port[s], q) \/ q.oper # "TRUNKING"
    PROVE  AbsStep
  <1>1. UNCHANGED <<AllowedBar, domainOf, offered, StruckBar>>
    BY LetsGo DEF PortStep, StruckBar
  <1>2. TermsBar' \in {TermsBar, [TermsBar EXCEPT ![s] = NoTerms]}
    BY LetsGo DEF PortStep
  <1>3. Abs!Release(s) \/ UNCHANGED Abs!vars
    BY <1>1, <1>2 DEF Abs!Release, Abs!vars, AllowedBar, StruckBar, TermsBar
  <1> QED BY <1>3 DEF AbsStep, Abs!Next

\* elp_success on terms that were struck: the end adopts them or lets go
LEMMA AdoptStep ==
    ASSUME port \in [Side -> FCPort], deal \in [Conn -> Terms], NEW s \in Side,
           NEW c \in Conn, Struck(c),
           PortStep(s, ElpSuccess(port[s], deal[c].domain, deal[c].vsans))
    PROVE  AbsStep
  <1> DEFINE t == deal[c]
             q == ElpSuccess(port[s], t.domain, t.vsans)
  <1>1. /\ port[s] \in FCPort /\ t \in Terms
        /\ t.vsans \in SUBSET VSAN /\ t.domain \in Nat
    BY TermsType
  <1>2. q.allowed = port[s].allowed
    BY <1>1, AllowedKept, States
  <1>3. CASE q.oper # "TRUNKING"
    BY <1>2, <1>3, ReleaseStep
  <1>4. CASE q.oper = "TRUNKING"
    <2>1. t.vsans # {} /\ q.negotiated = t.vsans /\ q.domain = t.domain
      BY <1>1, <1>4, ElpSuccessType, TrunksOnSome
    <2>2. t = [vsans |-> t.vsans, domain |-> t.domain]
      BY <1>1 DEF Terms
    <2>3. t \in StruckBar
      BY DEF StruckBar, Struck, NoTerms
    <2> HIDE DEF q
    <2>4. TermsBar' = [TermsBar EXCEPT ![s] = t]
      BY <1>4, <2>1, <2>2, BarStep DEF PortStep, q
    <2>5. UNCHANGED <<AllowedBar, domainOf, offered, StruckBar>>
      <3>1. SetPort(s, q) /\ UNCHANGED <<domainOf, offered, deal>>
        BY DEF PortStep, q
      <3>2. AllowedBar' = [AllowedBar EXCEPT ![s] = port[s].allowed]
        BY <1>2, <3>1, BarStep
      <3>3. [AllowedBar EXCEPT ![s] = port[s].allowed] = AllowedBar
        BY DEF AllowedBar
      <3>4. StruckBar' = StruckBar
        BY <3>1 DEF StruckBar
      <3> QED BY <3>1, <3>2, <3>3, <3>4
    <2> HIDE DEF t
    <2>6. Abs!Adopt(s)
      BY <2>1, <2>3, <2>4, <2>5 DEF Abs!Adopt, AllowedBar, StruckBar, TermsBar
    <2> QED BY <2>6 DEF AbsStep, Abs!Next
  <1> QED BY <1>3, <1>4

-----------------------------------------------------------------------------
(* The refinement, action by action *)

LEMMA InitAbs == Init => Abs!Init
  <1> SUFFICES ASSUME Init PROVE Abs!Init
    OBVIOUS
  <1>1. port \in [Side -> FCPort]
    BY InitTypeOK DEF TypeOK
  <1>2. \A s \in Side : ~Trunking(s)
    <2>1. PICK a \in Boot["client"], b \in Boot["server"] :
             port = [s \in Side |-> BootPort(IF s = "client" THEN a ELSE b)]
      BY DEF Init
    <2> QED BY <2>1, BootAssumption, BootPortType DEF Trunking
  <1>3. \A s \in Side : port[s].allowed \in SUBSET VSAN
    BY <1>1 DEF FCPort
  <1>4. {deal[c] : c \in Conn} \ {NoTerms} = {}
    BY DEF Init
  <1> QED BY <1>2, <1>3, <1>4 DEF Init, Abs!Init

LEMMA ClientElpStrikes ==
    ASSUME RInv, NEW c \in Conn, ClientElp(c)
    PROVE  AbsStep
  <1>1. PICK vs \in offered :
           /\ deal' = [deal EXCEPT ![c] = ClientTerms(vs)]
           /\ ClientTerms(vs) # NoTerms /\ deal[c] = NoTerms
    BY ElpStrikes DEF RInv
  <1>2. deal \in [Conn -> Terms]
    BY DEF RInv, IInv, TypeOK
  <1>3. \A d \in Conn : deal'[d] = IF d = c THEN ClientTerms(vs) ELSE deal[d]
    BY <1>1, <1>2
  <1>4. StruckBar' = StruckBar \union {ClientTerms(vs)}
    BY <1>1, <1>3 DEF StruckBar
  <1>5. UNCHANGED <<port, domainOf, offered>>
    BY DEF ClientElp
  <1>6. UNCHANGED <<AllowedBar, TermsBar>>
    BY <1>5 DEF AllowedBar, TermsBar, Trunking, TermsOf
  <1>7. ClientTerms(vs) = [vsans  |-> AllowedBar["client"] \intersect vs,
                           domain |-> domainOf["client"]]
    BY DEF ClientTerms, AllowedBar, Side
  <1>8. Abs!Strike
    BY <1>4, <1>5, <1>6, <1>7 DEF Abs!Strike, AllowedBar, StruckBar, TermsBar
  <1> QED BY <1>8 DEF AbsStep, Abs!Next

LEMMA ServerHelloOffers ==
    ASSUME RInv, NEW c \in Conn, ServerHello(c)
    PROVE  AbsStep
  <1>1. port \in [Side -> FCPort] /\ "server" \in Side
    BY DEF RInv, IInv, TypeOK, Side
  <1> DEFINE q == LinkSignalDetected(port["server"])
  <1>2. SetPort("server", q) /\ UNCHANGED <<domainOf, deal>>
        /\ offered' = offered \union {port["server"].allowed}
    BY DEF ServerHello
  <1>3. q.allowed = port["server"].allowed /\ Keeps(port["server"], q)
    BY <1>1, AllowedKept, SignalType, States
  <1> HIDE DEF q
  <1>4. /\ AllowedBar' = AllowedBar /\ StruckBar' = StruckBar
        /\ TermsBar' \in {TermsBar, [TermsBar EXCEPT !["server"] = NoTerms]}
    BY <1>1, <1>2, <1>3, LetsGo DEF StruckBar
  <1>5. offered' = offered \union {AllowedBar["server"]}
    BY <1>1, <1>2 DEF AllowedBar
  <1>6. Abs!Offer
    BY <1>2, <1>4, <1>5 DEF Abs!Offer, AllowedBar, StruckBar, TermsBar
  <1> QED BY <1>6 DEF AbsStep, Abs!Next

LEMMA CrashResets ==
    ASSUME RInv, NEW s \in Side, Crash(s)
    PROVE  AbsStep
  <1>1. port \in [Side -> FCPort]
    BY DEF RInv, IInv, TypeOK
  <1>2. PICK cfg \in Boot[s] : SetPort(s, BootPort(cfg))
    BY DEF Crash
  <1>3. /\ BootPort(cfg).oper = "OFFLINE" /\ BootPort(cfg).allowed \in SUBSET VSAN
    <2>1. cfg \in PortConfig
      BY BootAssumption DEF Side
    <2> QED BY <2>1, BootPortType DEF FCPort
  <1>4. PICK d \in Domain : domainOf' = [domainOf EXCEPT ![s] = d]
    BY DEF Crash
  <1>5. /\ AllowedBar' = [AllowedBar EXCEPT ![s] = BootPort(cfg).allowed]
        /\ TermsBar' = [TermsBar EXCEPT ![s] = NoTerms]
    BY <1>1, <1>2, <1>3, BarStep
  <1>6. UNCHANGED <<offered, StruckBar>>
    BY DEF Crash, StruckBar
  <1>7. Abs!Reset(s)
    BY <1>3, <1>4, <1>5, <1>6 DEF Abs!Reset, AllowedBar, StruckBar, TermsBar
  <1> QED BY <1>7 DEF AbsStep, Abs!Next

LEMMA CommandConfigures ==
    ASSUME RInv, NEW s \in Side, Operator(s)
    PROVE  AbsStep
  <1>1. port \in [Side -> FCPort] /\ port[s] \in FCPort
    BY DEF RInv, IInv, TypeOK
  <1>2. PICK q \in Commanded(port[s]) : Command(s, q)
    BY OperatorStep DEF RInv, IInv
  <1>3. q \in FCPort /\ Keeps(port[s], q)
    BY <1>1, CommandType
  <1>4. PortStep(s, q)
    BY <1>2 DEF Command, PortStep
  <1>5. CASE q.allowed = port[s].allowed
    BY <1>1, <1>3, <1>4, <1>5, ReleaseStep
  <1>6. CASE /\ q.oper = port[s].oper /\ q.negotiated = port[s].negotiated
             /\ q.domain = port[s].domain
    <2>1. AllowedBar' = [AllowedBar EXCEPT ![s] = q.allowed] /\ q.allowed \in SUBSET VSAN
      BY <1>1, <1>3, <1>4, BarStep DEF PortStep, FCPort
    <2>2. TermsBar' = TermsBar
      <3>1. TermsBar' = [TermsBar EXCEPT ![s] = IF Trunking(s) THEN TermsOf(s) ELSE NoTerms]
        BY <1>1, <1>4, <1>6, BarStep DEF PortStep, Trunking, TermsOf
      <3> QED BY <3>1 DEF TermsBar
    <2>3. UNCHANGED <<domainOf, offered, StruckBar>>
      BY <1>4 DEF PortStep, StruckBar
    <2>4. Abs!Configure(s)
      BY <2>1, <2>2, <2>3 DEF Abs!Configure, AllowedBar, StruckBar, TermsBar
    <2> QED BY <2>4 DEF AbsStep, Abs!Next
  <1> QED BY <1>1, <1>2, <1>5, <1>6, CommandAllowed

LEMMA NextAbs ==
    ASSUME RInv, [Next]_vars
    PROVE  AbsStep
  <1>t. /\ port \in [Side -> FCPort] /\ deal \in [Conn -> Terms]
        /\ "client" \in Side /\ "server" \in Side
        /\ port["client"] \in FCPort /\ port["server"] \in FCPort
    BY DEF RInv, IInv, TypeOK, Side
  <1>1. ASSUME UNCHANGED <<port, domainOf, offered, deal>> PROVE AbsStep
    <2>1. UNCHANGED Abs!vars
      BY <1>1 DEF Abs!vars, Trunking, TermsOf
    <2> QED BY <2>1 DEF AbsStep
  <1>2. ASSUME NEW s \in Side, PortStep(s, LinkSignalDetected(port[s])) PROVE AbsStep
    BY <1>2, <1>t, ReleaseStep, AllowedKept, SignalType, States
  <1>3. ASSUME NEW s \in Side, PortStep(s, LinkLost(port[s])) PROVE AbsStep
    <2>1. LinkLost(port[s]).oper # "TRUNKING"
      BY <1>t, LostType
    <2> QED BY <1>3, <1>t, <2>1, ReleaseStep, AllowedKept, States
  <1>4. ASSUME NEW s \in Side, PortStep(s, port[s]) PROVE AbsStep
    BY <1>1, <1>4, <1>t DEF PortStep, SetPort
  <1>5. ASSUME NEW c \in Conn, ClientHello(c) \/ HelloFails(c) PROVE AbsStep
    BY <1>2, <1>5, <1>t DEF ClientHello, HelloFails, PortStep
  <1>6. ASSUME NEW c \in Conn, ClientElpFails(c) \/ ClientLinkDown(c) \/ ClientEof(c)
        PROVE  AbsStep
    BY <1>3, <1>6, <1>t DEF ClientElpFails, ClientLinkDown, ClientEof, PortStep
  <1>7. ASSUME NEW c \in Conn, ClientMerged(c) PROVE AbsStep
    <2>1. Struck(c)
      BY <1>7 DEF ClientMerged, RInv, IInv, Stage
    <2> QED BY <1>7, <1>t, <2>1, AdoptStep DEF ClientMerged, PortStep
  <1>8. ASSUME NEW c \in Conn, ServerMerge(c) PROVE AbsStep
    <2>1. c2s[c] = <<Merge(deal[c])>> /\ Struck(c)
      BY <1>8, Singletons, MessageTypes DEF ServerMerge, ServerReads, RInv, IInv, Stage
    <2>2. Head(c2s[c]).terms = deal[c]
      BY <1>t, <2>1, Singletons, MessageTypes
    <2> QED BY <1>8, <1>t, <2>1, <2>2, AdoptStep DEF ServerMerge, PortStep
  <1>9. ASSUME NEW c \in Conn, ServerHelloFails(c) \/ ServerEof(c) PROVE AbsStep
    <2>1. \/ PortStep("server", LinkSignalDetected(port["server"]))
          \/ PortStep("server", LinkLost(port["server"]))
          \/ PortStep("server", port["server"])
      BY <1>9 DEF ServerHelloFails, ServerEof, PortStep
    <2> QED BY <1>2, <1>3, <1>4, <1>t, <2>1
  <1>10. ASSUME NEW c \in Conn, Dial(c) \/ ClientIgnoresAck(c) \/ ServerRejects(c)
         PROVE  AbsStep
    BY <1>1, <1>10 DEF Dial, ClientIgnoresAck, ServerRejects
  <1>11. CASE DialWrongMode \/ DialRefused \/ (\E s \in Side : Start(s)) \/ UNCHANGED vars
    BY <1>1, <1>11 DEF DialWrongMode, DialRefused, Start, vars
  <1> QED BY <1>5, <1>6, <1>7, <1>8, <1>9, <1>10, <1>11, ClientElpStrikes,
             ServerHelloOffers, CrashResets, CommandConfigures
          DEF Next, DialThread, ClientThread, ServerThread

\* Whatever is lost, late or restarted, in a fabric bus of any size: terms
\* are struck between the client and an offer of the server, the ends trunk
\* on such terms only, and they change them by adopting others or letting go
THEOREM Refinement == Spec => ImplementsTrunkAgreement
  <1>1. RInv /\ [Next]_vars => [Abs!Next]_(Abs!vars)
    BY NextAbs DEF AbsStep
  <1> QED BY <1>1, InitAbs, InitRInv, NextRInv, PTL DEF Spec, ImplementsTrunkAgreement, Abs!Spec
==============================================================================
