---------------------------- MODULE PortThreads ----------------------------
(***************************************************************************)
(* One port worked on by several threads at once.  No lock protects a port *)
(* in the simulator: an SSH session runs Dispatcher._config_if_mode, the   *)
(* instructor API runs FaultInjector calls in a thread pool, and the       *)
(* fabric bus runs link_signal_detected, elp_success and link_lost in the  *)
(* threads of its connections.                                             *)
(*                                                                         *)
(* CPython switches threads only at calls and at the ends of loop rounds,  *)
(* and every state change of PortStateMachine goes through a call of _set, *)
(* which also emits to the log.  So a call of the state machine is a list  *)
(* of steps, cut where the code enters _set or another method or a loop; a *)
(* step reads and writes the port atomically, and may put further steps in *)
(* front of what is left.                                                  *)
(***************************************************************************)
EXTENDS PortCalls, Sequences, FiniteSets

CONSTANTS
    Cli,         \* threads that run dispatcher commands
    Instructor,  \* threads that run fault injector calls
    Bus,         \* threads of fabric bus connections
    MaxCalls     \* bound: calls begun

ASSUME BootAssumption  == Boot \subseteq PortConfig
ASSUME BoundAssumption == MaxCalls \in Nat /\ Domain \subseteq Nat

Thread == Cli \union Instructor \union Bus

VARIABLES
    port,    \* FCPort
    todo,    \* [Thread -> Seq(step)]: what is left of the thread's call
    calls    \* calls begun so far

vars == <<port, todo, calls>>

-----------------------------------------------------------------------------
(* Steps.  A step without an argument carries its name only.               *)

Step(name)       == [op |-> name]
WithArg(name, x) == [op |-> name, arg |-> x]
Set(state)       == WithArg("set", state)      \* _set(state, ...)

\* What a step does to the port p
Effect(p, step) ==
    CASE step.op = "set"        -> SetOper(p, step.arg)
      [] step.op = "adminUp"    -> [p EXCEPT !.admin = "up"]
      [] step.op = "adminDown"  -> DropSpeed([p EXCEPT !.admin = "down"])
      [] step.op = "dropSpeed"  -> DropSpeed(p)
      [] step.op = "insert"     -> InsertSfp(p, step.arg)
      [] step.op = "remove"     -> RemoveSfp(p)
      [] step.op = "domain"     ->
            IF p.mode = "TE"
            THEN [p EXCEPT !.domain = step.arg.domain, !.negotiated = step.arg.vsans]
            ELSE [p EXCEPT !.domain = step.arg.domain]
      [] step.op = "trunk"      ->
            [p EXCEPT !.status = [v \in step.arg.allowed |->
                                     IF v \in step.arg.vsans THEN "up" ELSE "isolated"],
                      !.isolated = (step.arg.vsans = {})]
      [] step.op = "mode"       -> SetMode(p, step.arg)
      [] step.op = "allowed"    -> SetTrunkAllowed(p, step.arg)
      [] step.op = "assignSpeed" -> AssignSpeed(p, step.arg.speed, step.arg.sfp)
      [] step.op = "load"       ->
            [f \in DOMAIN p |-> IF f \in DOMAIN step.arg THEN step.arg[f] ELSE p[f]]
      [] OTHER                  -> p

\* Wrong variant: the state is announced before the trunk results are written
AfterMerge_StateFirst(p, common) ==
    IF p.mode # "TE" THEN <<Set("UP")>>
    ELSE <<Set(IF common = {} THEN "ERR_DISABLED" ELSE "TRUNKING"),
           WithArg("trunk", [vsans |-> common, allowed |-> p.allowed])>>

\* Wrong variant: nothing in common is not handled
AfterMerge_OnlyCommon(p, common) ==
    IF p.mode # "TE" THEN <<Set("UP")>>
    ELSE <<WithArg("trunk", [vsans |-> common, allowed |-> p.allowed])>>
         \o (IF common = {} THEN <<>> ELSE <<Set("TRUNKING")>>)

\* elp_success after the domain is written, with the mode and the allowed
\* list it reads at that point
AfterMerge(p, common) ==
    IF p.mode # "TE" THEN <<Set("UP")>>
    ELSE <<WithArg("trunk", [vsans |-> common, allowed |-> p.allowed]),
           Set(IF common = {} THEN "ERR_DISABLED" ELSE "TRUNKING")>>

\* The steps a step finds it has to do next, given the port p it looks at
Unfold(p, step) ==
    CASE step.op = "adminUp" ->
            <<Set(IF p.sfp = NoSfp THEN "OFFLINE" ELSE "LINK_DOWN")>>
      [] step.op = "signal" ->
            IF SignalAccepted(p) THEN <<Set("INITIALIZING"), Step("route")>> ELSE <<>>
      [] step.op = "route" ->
            IF SignalTarget(p.mode) = "INITIALIZING" THEN <<>>
            ELSE <<Set(SignalTarget(p.mode))>>
      [] step.op = "signalIfSfp" -> IF p.sfp # NoSfp THEN <<Step("signal")>> ELSE <<>>
      [] step.op = "signalIfUp"  -> IF p.admin = "up" THEN <<Step("signal")>> ELSE <<>>
      [] step.op = "speed" ->
            IF p.sfp = NoSfp THEN <<>>
            ELSE <<WithArg("assignSpeed", [speed |-> step.arg, sfp |-> p.sfp])>>
      [] step.op = "domain" -> AfterMerge(p, step.arg.vsans)
      [] OTHER -> <<>>

\* Wrong variant: a state that PortState does not have
LinkLostSteps_NoSuchState == <<Step("dropSpeed"), Set("DOWN")>>

\* Wrong variant: the state machine does not hear of the removal
UnplugSteps_Unheard == <<Step("remove")>>

\* The calls, as the steps they begin with
SignalSteps      == <<Step("signal")>>
LinkLostSteps    == <<Step("dropSpeed"), Set("LINK_DOWN")>>
ShutdownSteps    == <<Step("adminDown"), Set("OFFLINE")>>
NoShutdownSteps  == <<Step("adminUp"), Step("signalIfSfp")>>
UnplugSteps      == <<Step("remove")>> \o LinkLostSteps
InsertSteps(g)   == <<WithArg("insert", g), Step("signalIfUp")>>
ElpSteps(dom, vs) == <<Set("DOMAIN_MERGE"), WithArg("domain", [domain |-> dom, vsans |-> vs])>>

\* The assignments of load_dict, one call of get each
ReloadSteps(cfg) ==
    <<WithArg("load", [admin |-> cfg.admin]), WithArg("load", [mode |-> cfg.mode]),
      WithArg("load", [speedConfig |-> AutoSpeed]),
      WithArg("load", [allowed |-> cfg.allowed])>>
    \o (IF cfg.sfp = NoSfp THEN <<>> ELSE <<WithArg("insert", cfg.sfp)>>)

-----------------------------------------------------------------------------
Init ==
    /\ \E cfg \in Boot : port = BootPort(cfg)
    /\ todo = [t \in Thread |-> <<>>]
    /\ calls = 0

Begin(t, steps) ==
    /\ todo[t] = <<>>
    /\ calls < MaxCalls
    /\ calls' = calls + 1
    /\ todo' = [todo EXCEPT ![t] = steps]
    /\ UNCHANGED port

\* Commands of _config_if_mode that touch the state machine or the fields
\* it reads, and "reload"
CliCall(t) ==
    \/ Begin(t, ShutdownSteps)
    \/ Begin(t, NoShutdownSteps)
    \/ \E m \in {"auto", "F", "E", "TE"} : Begin(t, <<WithArg("mode", m)>>)
    \/ \E vs \in (SUBSET VSAN) \ {{}} : Begin(t, <<WithArg("allowed", vs)>>)
    \/ \E g \in Generation : \E s \in Supported(g) : Begin(t, <<WithArg("speed", s)>>)
    \/ \E cfg \in Boot : Begin(t, ReloadSteps(cfg))

InstructorCall(t) ==
    \/ Begin(t, UnplugSteps)
    \/ \E g \in Generation : Begin(t, InsertSteps(g))
    \/ Begin(t, LinkLostSteps)

BusCall(t) ==
    \/ port.mode \in EMode /\ Begin(t, SignalSteps)
    \/ \E dom \in Domain, vs \in SUBSET VSAN : Begin(t, ElpSteps(dom, vs))
    \/ Begin(t, LinkLostSteps)

Continue(t) ==
    /\ todo[t] # <<>>
    /\ port' = Effect(port, Head(todo[t]))
    /\ todo' = [todo EXCEPT ![t] = Unfold(port, Head(@)) \o Tail(@)]
    /\ UNCHANGED calls

Next ==
    \/ \E t \in Cli : CliCall(t)
    \/ \E t \in Instructor : InstructorCall(t)
    \/ \E t \in Bus : BusCall(t)
    \/ \E t \in Thread : Continue(t)

Spec == Init /\ [][Next]_vars

-----------------------------------------------------------------------------
(* Properties                                                              *)

StepType ==
    [op : {"adminUp", "adminDown", "dropSpeed", "remove", "signal", "route",
           "signalIfSfp", "signalIfUp"}]
    \union [op : {"set"}, arg : PortState]
    \union [op : {"mode"}, arg : Mode]
    \union [op : {"allowed"}, arg : SUBSET VSAN]
    \union [op : {"insert"}, arg : Generation]
    \union [op : {"speed"}, arg : Int]
    \union [op : {"assignSpeed"}, arg : [speed : Int, sfp : Generation]]
    \union [op : {"domain"}, arg : [domain : Domain, vsans : SUBSET VSAN]]
    \union [op : {"load"}, arg : [admin : {"up", "down"}] \union [mode : Mode]
                \union [speedConfig : Int] \union [allowed : SUBSET VSAN]]
    \union [op : {"trunk"}, arg : [vsans : SUBSET VSAN, allowed : SUBSET VSAN]]

\* Every variable has its type (the fields of FCPort, the calls of
\* PortStateMachine and FCPort)
TypeOK ==
    /\ port \in FCPort
    /\ todo \in [Thread -> Seq(StepType)]
    /\ calls \in 0..MaxCalls

AtRest == \A t \in Thread : todo[t] = <<>>

\* While the port trunks, the three trunk results of elp_success belong
\* together, whatever other threads do to the port in the middle of it (for
\* one bus thread at a time)
TrunkResultsMatch ==
    /\ port.oper = "TRUNKING" =>
          /\ port.negotiated # {} /\ ~port.isolated
          /\ \A v \in DOMAIN port.status :
                port.status[v] = "up" <=> v \in port.negotiated
    /\ port.oper = "ERR_DISABLED" => port.isolated /\ port.negotiated = {}

\* However calls overlap, the port does not come to rest in the middle of a
\* domain merge
MergeEnds == AtRest => port.oper # "DOMAIN_MERGE"

\* A call by itself: the port it has come to and the steps that are left.  The
\* longest call, "no shutdown", has seven steps.
Call(p, steps) == [port |-> p, left |-> steps]

Onward(c) ==
    IF c.left = <<>> THEN c
    ELSE Call(Effect(c.port, Head(c.left)), Unfold(c.port, Head(c.left)) \o Tail(c.left))

TwiceOnward(c) == Onward(Onward(c))
Finish(c)      == TwiceOnward(TwiceOnward(TwiceOnward(TwiceOnward(c))))

\* Whatever state other threads have left the port in, the steps of a call, run
\* without interruption, come to an end and add up to the operator of Port that
\* FabricBus uses for the call (port_state_machine.py, fault_injector.py,
\* _config_if_mode)
CallsAddUp ==
    [][\A t \in Thread : todo[t] = <<>> /\ todo'[t] # <<>> =>
          LET end == Finish(Call(port, todo'[t]))
          IN  /\ end.left = <<>>
              /\ \/ t \in Cli /\ end.port \in Configured(port)
                 \/ t \in Instructor /\ end.port \in Faulted(port)
                 \/ t \in Bus /\ end.port \in Signalled(port)]_vars
=============================================================================
