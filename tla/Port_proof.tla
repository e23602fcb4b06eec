----------------------------- MODULE Port_proof -----------------------------
(***************************************************************************)
(* Lemmas about the functions of module Port, for any VSANs and any        *)
(* transceiver generations: what each call of the state machine makes of a *)
(* port, and which parts of the port it leaves alone.  The proofs about    *)
(* the components that call them (FabricBus, PortThreads, SharedCli) cite  *)
(* them by name.                                                           *)
(***************************************************************************)
EXTENDS Port, TLAPS

\* A port that comes out of a step operational was so before, on the same
\* trunk results
Keeps(p, q) ==
    \/ q.oper \notin Operational
    \/ q.oper = p.oper /\ q.negotiated = p.negotiated /\ q.domain = p.domain

\* Names of states, and which of them are operational
LEMMA States ==
    /\ {"OFFLINE", "LINK_DOWN", "ERR_DISABLED", "UP", "TRUNKING"} \subseteq PortState
    /\ "OFFLINE" \notin Operational /\ "LINK_DOWN" \notin Operational
  BY DEF PortState, Operational

\* Booting gives a port that is not operational (BootPort)
LEMMA BootPortType ==
    ASSUME NEW cfg \in PortConfig
    PROVE  BootPort(cfg) \in FCPort /\ BootPort(cfg).oper = "OFFLINE"
  <1>1. [v \in {} |-> "up"] \in TrunkStatus
    <2>1. [v \in {} |-> "up"] \in [{} -> {"up", "isolated"}]
      OBVIOUS
    <2>2. {} \in SUBSET VSAN
      OBVIOUS
    <2> QED BY <2>1, <2>2 DEF TrunkStatus
  <1> QED BY <1>1 DEF BootPort, PortConfig, FCPort, PortState, AutoSpeed,
                     NoSpeed, NoDomain, NoSfp

\* link_signal_detected never makes a port operational
LEMMA SignalType ==
    ASSUME NEW p \in FCPort
    PROVE  LinkSignalDetected(p) \in FCPort /\ Keeps(p, LinkSignalDetected(p))
  <1>1. SignalTarget(p.mode) \in PortState \ Operational
    BY DEF FCPort, SignalTarget, PortState, Operational, EMode, Mode
  <1> QED BY <1>1 DEF LinkSignalDetected, SetOper, FCPort, Keeps

\* _set, and negotiated_speed = None
LEMMA SetOperType ==
    ASSUME NEW p \in FCPort, NEW s \in PortState
    PROVE  /\ SetOper(p, s) \in FCPort /\ SetOper(p, s).oper = s
           /\ SetOper(p, s).negotiated = p.negotiated
           /\ SetOper(p, s).domain = p.domain
  BY DEF SetOper, FCPort

LEMMA DropSpeedType ==
    ASSUME NEW p \in FCPort
    PROVE  DropSpeed(p) \in FCPort
  BY DEF DropSpeed, FCPort, NoSpeed

\* link_lost leaves the port in LINK_DOWN
LEMMA LostType ==
    ASSUME NEW p \in FCPort
    PROVE  LinkLost(p) \in FCPort /\ LinkLost(p).oper = "LINK_DOWN"
  BY States, SetOperType, DropSpeedType DEF LinkLost

\* elp_success: a port that trunks shows the terms it was given
LEMMA ElpSuccessType ==
    ASSUME NEW p \in FCPort, NEW dom \in Nat, NEW common \in SUBSET VSAN
    PROVE  LET q == ElpSuccess(p, dom, common)
           IN  /\ q \in FCPort
               /\ q.oper = "TRUNKING" => q.negotiated = common /\ q.domain = dom
  <1> DEFINE st == [v \in p.allowed |-> IF v \in common THEN "up" ELSE "isolated"]
             q0 == [p EXCEPT !.domain = dom]
             q1 == [q0 EXCEPT !.negotiated = common]
             q2 == [q1 EXCEPT !.status = st]
             q3 == [q2 EXCEPT !.isolated = (common = {})]
  <1>1. st \in TrunkStatus
    <2>1. st \in [p.allowed -> {"up", "isolated"}]
      OBVIOUS
    <2>2. p.allowed \in SUBSET VSAN
      BY DEF FCPort
    <2> QED BY <2>1, <2>2 DEF TrunkStatus
  <1>2. q0 \in FCPort /\ q0.allowed = p.allowed
    BY DEF FCPort
  <1>3. TrunkResult(q0, common) = q3
    BY <1>2 DEF TrunkResult
  <1> HIDE DEF st
  <1>4. q1 \in FCPort /\ q1.negotiated = common /\ q1.domain = dom
    BY DEF FCPort
  <1>5. q2 \in FCPort /\ q2.negotiated = common /\ q2.domain = dom
    <2> HIDE DEF q1
    <2> QED BY <1>1, <1>4 DEF FCPort
  <1>6. q3 \in FCPort /\ q3.negotiated = common /\ q3.domain = dom
    <2> HIDE DEF q2
    <2> QED BY <1>5 DEF FCPort
  <1> DEFINE st1 == IF common = {} THEN "ERR_DISABLED" ELSE "TRUNKING"
  <1>7. ElpSuccess(p, dom, common) = IF p.mode = "TE" THEN SetOper(q3, st1) ELSE SetOper(q0, "UP")
    BY <1>3 DEF ElpSuccess
  <1> HIDE DEF q0, q3
  <1>8. st1 \in PortState /\ "UP" \in PortState /\ "UP" # "TRUNKING"
    BY States
  <1> HIDE DEF st1
  <1>9. /\ SetOper(q3, st1) \in FCPort
        /\ SetOper(q3, st1).negotiated = common /\ SetOper(q3, st1).domain = dom
    BY <1>6, <1>8, SetOperType
  <1>10. SetOper(q0, "UP") \in FCPort /\ SetOper(q0, "UP").oper # "TRUNKING"
    BY <1>2, <1>8, SetOperType
  <1> QED BY <1>7, <1>9, <1>10

\* What the operator and the instructor can do to a port
Commanded(p) ==
    {NoShutdown(p), AdminDown(p), UnplugSfp(p), LinkLost(p)}
    \union {SetMode(p, m) : m \in {"auto", "F", "E", "TE"}}
    \union {SetTrunkAllowed(p, vsans) : vsans \in SUBSET VSAN}
    \union {PlugSfp(p, g) : g \in Generation}
    \union {Reload(p, cfg) : cfg \in PortConfig}

\* No command makes a port operational or changes what it trunks
LEMMA CommandType ==
    ASSUME NEW p \in FCPort, NEW q \in Commanded(p)
    PROVE  q \in FCPort /\ Keeps(p, q)
  <1>1. ASSUME q = NoShutdown(p) PROVE q \in FCPort /\ Keeps(p, q)
    <2>1. AdminUp(p) \in FCPort /\ AdminUp(p).oper \notin Operational
      <3>1. [p EXCEPT !.admin = "up"] \in FCPort
        BY DEF FCPort
      <3> QED BY <3>1, States, SetOperType DEF AdminUp
    <2>2. LinkSignalDetected(AdminUp(p)) \in FCPort
          /\ Keeps(AdminUp(p), LinkSignalDetected(AdminUp(p)))
      BY <2>1, SignalType
    <2> QED BY <1>1, <2>1, <2>2 DEF NoShutdown, Keeps
  <1>2. ASSUME q = AdminDown(p) PROVE q \in FCPort /\ Keeps(p, q)
    <2>1. [p EXCEPT !.admin = "down"] \in FCPort
      BY DEF FCPort
    <2>2. DropSpeed([p EXCEPT !.admin = "down"]) \in FCPort
      BY <2>1, DropSpeedType
    <2> QED BY <1>2, <2>2, States, SetOperType DEF AdminDown, Keeps
  <1>3. ASSUME q = UnplugSfp(p) PROVE q \in FCPort /\ Keeps(p, q)
    <2>1. [p EXCEPT !.sfp = NoSfp] \in FCPort
      BY DEF FCPort
    <2>2. RemoveSfp(p) \in FCPort
      BY <2>1, DropSpeedType DEF RemoveSfp
    <2> QED BY <1>3, <2>2, LostType DEF UnplugSfp, Keeps, Operational
  <1>4. ASSUME q = LinkLost(p) PROVE q \in FCPort /\ Keeps(p, q)
    BY <1>4, LostType DEF Keeps, Operational
  <1>5. ASSUME NEW m \in {"auto", "F", "E", "TE"}, q = SetMode(p, m)
        PROVE  q \in FCPort /\ Keeps(p, q)
    BY <1>5 DEF SetMode, Upper, FCPort, Mode, Keeps
  <1>6. ASSUME NEW vsans \in SUBSET VSAN, q = SetTrunkAllowed(p, vsans)
        PROVE  q \in FCPort /\ Keeps(p, q)
    BY <1>6 DEF SetTrunkAllowed, FCPort, Keeps
  <1>7. ASSUME NEW g \in Generation, q = PlugSfp(p, g)
        PROVE  q \in FCPort /\ Keeps(p, q)
    <2>1. InsertSfp(p, g) \in FCPort /\ Keeps(p, InsertSfp(p, g))
      BY DEF InsertSfp, FCPort, Keeps
    <2>2. LinkSignalDetected(InsertSfp(p, g)) \in FCPort
          /\ Keeps(InsertSfp(p, g), LinkSignalDetected(InsertSfp(p, g)))
      BY <2>1, SignalType
    <2>3. Keeps(p, LinkSignalDetected(InsertSfp(p, g)))
      BY <2>1, <2>2 DEF Keeps
    <2> QED BY <1>7, <2>1, <2>2, <2>3 DEF PlugSfp
  <1>8. ASSUME NEW cfg \in PortConfig, q = Reload(p, cfg)
        PROVE  q \in FCPort /\ Keeps(p, q)
    <2> DEFINE r == [p EXCEPT !.admin = cfg.admin, !.mode = cfg.mode,
                              !.speedConfig = AutoSpeed, !.allowed = cfg.allowed]
    <2> DEFINE r1 == [p EXCEPT !.admin = cfg.admin]
               r2 == [r1 EXCEPT !.mode = cfg.mode]
               r3 == [r2 EXCEPT !.speedConfig = AutoSpeed]
               r4 == [r3 EXCEPT !.allowed = cfg.allowed]
    <2>1. r \in FCPort /\ Keeps(p, r)
      <3>1. /\ cfg.admin \in {"up", "down"} /\ cfg.mode \in Mode
            /\ cfg.allowed \in SUBSET VSAN /\ AutoSpeed \in Int
        BY DEF PortConfig, AutoSpeed
      <3>2. r1 \in FCPort /\ Keeps(p, r1)
        BY <3>1 DEF FCPort, Keeps
      <3>3. r2 \in FCPort /\ Keeps(r1, r2)
        <4> HIDE DEF r1
        <4> QED BY <3>1, <3>2 DEF FCPort, Keeps
      <3>4. r3 \in FCPort /\ Keeps(r2, r3)
        <4> HIDE DEF r2, AutoSpeed
        <4> QED BY <3>1, <3>3 DEF FCPort, Keeps
      <3>5. r4 \in FCPort /\ Keeps(r3, r4)
        <4> HIDE DEF r3
        <4> QED BY <3>1, <3>4 DEF FCPort, Keeps
      <3>6. r = r4
        OBVIOUS
      <3>7. Keeps(p, r4)
        <4> HIDE DEF r1, r2, r3, r4
        <4> QED BY <3>2, <3>3, <3>4, <3>5 DEF Keeps
      <3> HIDE DEF r, r4
      <3> QED BY <3>5, <3>6, <3>7
    <2>2. ASSUME cfg.sfp # NoSfp
          PROVE  InsertSfp(r, cfg.sfp) \in FCPort /\ Keeps(p, InsertSfp(r, cfg.sfp))
      <3>1. cfg.sfp \in Generation
        BY <2>2 DEF PortConfig
      <3> HIDE DEF r
      <3> QED BY <3>1, <2>1 DEF InsertSfp, FCPort, Keeps
    <2> QED BY <1>8, <2>1, <2>2 DEF Reload
  <1> QED BY <1>1, <1>2, <1>3, <1>4, <1>5, <1>6, <1>7, <1>8 DEF Commanded

\* The trunk allowed list is configuration: no call of the state machine
\* touches it
LEMMA AllowedKept ==
    ASSUME NEW p \in FCPort, NEW dom \in Nat, NEW common \in SUBSET VSAN,
           NEW s \in PortState
    PROVE  /\ SetOper(p, s).allowed = p.allowed
           /\ LinkSignalDetected(p).allowed = p.allowed
           /\ LinkLost(p).allowed = p.allowed
           /\ ElpSuccess(p, dom, common).allowed = p.allowed
  <1>1. \A r \in PortState : SetOper(p, r).allowed = p.allowed
    BY DEF SetOper, FCPort
  <1>2. LinkSignalDetected(p).allowed = p.allowed
    BY DEF LinkSignalDetected, SetOper, FCPort
  <1>3. LinkLost(p).allowed = p.allowed
    BY DEF LinkLost, DropSpeed, SetOper, FCPort
  <1>4. ElpSuccess(p, dom, common).allowed = p.allowed
    BY DEF ElpSuccess, TrunkResult, SetOper, FCPort
  <1> QED BY <1>1, <1>2, <1>3, <1>4

\* A port that is taken to TRUNKING by elp_success trunks on some VSAN
LEMMA TrunksOnSome ==
    ASSUME NEW p \in FCPort, NEW dom \in Nat, NEW common \in SUBSET VSAN,
           ElpSuccess(p, dom, common).oper = "TRUNKING"
    PROVE  common # {}
  BY DEF ElpSuccess, TrunkResult, SetOper, FCPort

\* A command that changes the trunk allowed list (configuration) leaves the
\* state and the trunk results alone
LEMMA CommandAllowed ==
    ASSUME NEW p \in FCPort, NEW q \in Commanded(p)
    PROVE  \/ q.allowed = p.allowed
           \/ q.oper = p.oper /\ q.negotiated = p.negotiated /\ q.domain = p.domain
  <1>1. ASSUME q = NoShutdown(p) PROVE q.allowed = p.allowed
    BY <1>1 DEF NoShutdown, AdminUp, LinkSignalDetected, SetOper, FCPort
  <1>2. ASSUME q = AdminDown(p) PROVE q.allowed = p.allowed
    BY <1>2 DEF AdminDown, DropSpeed, SetOper, FCPort
  <1>3. ASSUME q = UnplugSfp(p) \/ q = LinkLost(p) PROVE q.allowed = p.allowed
    BY <1>3 DEF UnplugSfp, LinkLost, RemoveSfp, DropSpeed, SetOper, FCPort
  <1>4. ASSUME NEW m \in {"auto", "F", "E", "TE"}, q = SetMode(p, m)
        PROVE  q.allowed = p.allowed
    BY <1>4 DEF SetMode, FCPort
  <1>5. ASSUME NEW g \in Generation, q = PlugSfp(p, g) PROVE q.allowed = p.allowed
    BY <1>5 DEF PlugSfp, InsertSfp, LinkSignalDetected, SetOper, FCPort
  <1>6. ASSUME NEW vsans \in SUBSET VSAN, q = SetTrunkAllowed(p, vsans)
        PROVE  q.oper = p.oper /\ q.negotiated = p.negotiated /\ q.domain = p.domain
    BY <1>6 DEF SetTrunkAllowed, FCPort
  <1>7. ASSUME NEW cfg \in PortConfig, q = Reload(p, cfg)
        PROVE  q.oper = p.oper /\ q.negotiated = p.negotiated /\ q.domain = p.domain
    BY <1>7 DEF Reload, InsertSfp, FCPort
  <1> QED BY <1>1, <1>2, <1>3, <1>4, <1>5, <1>6, <1>7 DEF Commanded
=============================================================================
