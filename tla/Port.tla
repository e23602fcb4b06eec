-------------------------------- MODULE Port --------------------------------
(***************************************************************************)
(* One Fibre Channel port: the FCPort dataclass (hardware/port.py) and the *)
(* PortStateMachine that drives it (hardware/port_state_machine.py), as    *)
(* functions from a port record to a port record.  The modules that add    *)
(* threads, sessions and connections (FabricBus, PortThreads, ...) apply   *)
(* these functions; where a thread may be preempted inside a call, the     *)
(* pieces of the call are named operators of their own.                    *)
(*                                                                         *)
(* Left out because nothing in the simulator ever sets them: peer_wwn and  *)
(* the UP reached through flogi_received (no caller), ERR_DISABLED through *)
(* error_disable (no caller).  Left out as bookkeeping: frame and failure  *)
(* counters, optical readings, log texts.                                  *)
(***************************************************************************)
EXTENDS Integers

CONSTANTS
    VSAN,        \* the VSAN numbers in use
    Generation   \* transceiver generations that can be plugged in: 4, 8, 16 ...

ASSUME GenerationAssumption == Generation \subseteq Nat \ {0}

\* None of the dataclass, for the three integer fields
NoSfp    == 0
NoSpeed  == 0
NoDomain == 0

\* The speed "auto", which is not a number of Gb/s
AutoSpeed == -1

PortState == {"OFFLINE", "LINK_DOWN", "INITIALIZING", "FLOGI_PENDING",
              "ELP_NEGOTIATE", "DOMAIN_MERGE", "UP", "TRUNKING", "ERR_DISABLED"}

\* States in which the port claims to carry traffic
Operational == {"UP", "TRUNKING"}

\* "auto" is the default; "AUTO" is what the CLI stores for it
Mode     == {"auto", "AUTO", "F", "E", "TE"}
EMode    == {"E", "TE"}

\* vsan_trunk_status, a dict keyed by the locally allowed VSANs
TrunkStatus == UNION {[S -> {"up", "isolated"}] : S \in SUBSET VSAN}

FCPort == [admin       : {"up", "down"},
           oper        : PortState,
           mode        : Mode,
           sfp         : Generation \union {NoSfp},
           speedConfig : Int,
           speed       : Int,
           allowed     : SUBSET VSAN,
           negotiated  : SUBSET VSAN,
           status      : TrunkStatus,
           isolated    : BOOLEAN,
           domain      : Nat]

\* What load_dict restores of a port from the startup configuration
PortConfig == [admin : {"up", "down"}, mode : Mode, allowed : SUBSET VSAN,
               sfp : Generation \union {NoSfp}]

\* A port object as Chassis.__post_init__ creates it, then load_dict:
\* oper_state, speeds, trunk results and the domain keep their defaults.
BootPort(cfg) ==
    [admin |-> cfg.admin, oper |-> "OFFLINE", mode |-> cfg.mode,
     sfp |-> cfg.sfp, speedConfig |-> AutoSpeed, speed |-> NoSpeed,
     allowed |-> cfg.allowed, negotiated |-> {},
     status |-> [v \in {} |-> "up"], isolated |-> FALSE, domain |-> NoDomain]

(***************************************************************************)
(* The transceiver and the speed                                           *)
(***************************************************************************)

\* A generation g negotiates a quarter, half or the whole of g Gb/s
Supported(g) == {g \div 4, g \div 2, g, AutoSpeed}

\* insert_sfp leaves the speeds alone, also over a transceiver in the slot
InsertSfp(p, g) == [p EXCEPT !.sfp = g]

\* negotiated_speed = None
DropSpeed(p) == [p EXCEPT !.speed = NoSpeed]

RemoveSfp(p) == DropSpeed([p EXCEPT !.sfp = NoSfp])

\* The assignments of set_speed, for the profile of generation g
AssignSpeed(p, s, g) ==
    IF s \in Supported(g)
    THEN [p EXCEPT !.speedConfig = s, !.speed = IF s = AutoSpeed THEN g ELSE s]
    ELSE p

SetSpeed(p, s) == IF p.sfp # NoSfp THEN AssignSpeed(p, s, p.sfp) ELSE p

(***************************************************************************)
(* The state machine                                                       *)
(***************************************************************************)
SetOper(p, s) == [p EXCEPT !.oper = s]

AdminUp(p) ==
    SetOper([p EXCEPT !.admin = "up"],
            IF p.sfp = NoSfp THEN "OFFLINE" ELSE "LINK_DOWN")

AdminDown(p) == SetOper(DropSpeed([p EXCEPT !.admin = "down"]), "OFFLINE")

\* The guard of link_signal_detected
SignalAccepted(p) == p.admin = "up" /\ p.sfp # NoSfp

\* Where the port goes after INITIALIZING: nowhere for a mode that is
\* neither of the spellings the code compares with
SignalTarget(mode) ==
    CASE mode \in {"F", "auto"} -> "FLOGI_PENDING"
      [] mode \in EMode         -> "ELP_NEGOTIATE"
      [] OTHER                  -> "INITIALIZING"

LinkSignalDetected(p) ==
    IF SignalAccepted(p) THEN SetOper(p, SignalTarget(p.mode)) ELSE p

\* The per-VSAN trunk state and the reason written by elp_success in mode TE
TrunkResult(p, common) ==
    [p EXCEPT !.negotiated = common,
              !.status = [v \in p.allowed |->
                             IF v \in common THEN "up" ELSE "isolated"],
              !.isolated = (common = {})]

\* No look at the administrative state, the transceiver or the state the
\* port is in.  A port that is not in mode TE keeps its old trunk results.
ElpSuccess(p, dom, common) ==
    LET q == [p EXCEPT !.domain = dom]
    IN  IF p.mode = "TE"
        THEN SetOper(TrunkResult(q, common),
                     IF common = {} THEN "ERR_DISABLED" ELSE "TRUNKING")
        ELSE SetOper(q, "UP")

LinkLost(p) == SetOper(DropSpeed(p), "LINK_DOWN")

(***************************************************************************)
(* The commands that work on a port: "no shutdown", "switchport mode",     *)
(* "reload", and the fault injector                                        *)
(***************************************************************************)
NoShutdown(p) ==
    IF p.sfp # NoSfp THEN LinkSignalDetected(AdminUp(p)) ELSE AdminUp(p)

\* str.upper(): the only spelling it changes is "auto"
Upper(m) == IF m = "auto" THEN "AUTO" ELSE m

SetMode(p, m) == [p EXCEPT !.mode = Upper(m)]

SetTrunkAllowed(p, vsans) == [p EXCEPT !.allowed = vsans]

UnplugSfp(p) == LinkLost(RemoveSfp(p))

\* load_dict on a running port, from a file with the speed "auto": the state
\* machine is not told, and a transceiver is put in but never taken out
Reload(p, cfg) ==
    LET q == [p EXCEPT !.admin = cfg.admin, !.mode = cfg.mode,
                       !.speedConfig = AutoSpeed, !.allowed = cfg.allowed]
    IN  IF cfg.sfp = NoSfp THEN q ELSE InsertSfp(q, cfg.sfp)

PlugSfp(p, g) ==
    LET q == InsertSfp(p, g)
    IN  IF p.admin = "up" THEN LinkSignalDetected(q) ELSE q
=============================================================================
