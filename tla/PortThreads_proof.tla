-------------------------- MODULE PortThreads_proof --------------------------
(***************************************************************************)
(* Proofs about the threads at one port, for any VSANs, transceivers,      *)
(* startup files, and any number of threads of each kind: type             *)
(* correctness; that no overlap of calls leaves the port in DOMAIN_MERGE;  *)
(* that the trunk results of a trunking port belong together, as long as   *)
(* no two bus threads record some at a time; and that the steps of a call  *)
(* by itself add up to the single step FabricBus takes for it.             *)
(*                                                                         *)
(* None of the first three is inductive: they say nothing of the steps     *)
(* left.  Shape says what these can be: steps that neither touch trunk     *)
(* results nor enter a state elp_success enters (Plain), or, for a bus     *)
(* thread, the rest of one elp_success.  Pending says that a port in       *)
(* DOMAIN_MERGE has a thread in the rest of an elp_success, and Written    *)
(* what the rest of an elp_success finds already written.  The last needs  *)
(* no invariant: each kind of call is run to its end, step by step, from   *)
(* any state of the port.                                                  *)
(***************************************************************************)
EXTENDS PortThreads, Port_proof, SequenceTheorems

\* States that only elp_success enters, UP aside
MergeStates == {"DOMAIN_MERGE", "TRUNKING", "ERR_DISABLED"}

PlainStep ==
    [op : {"adminUp", "adminDown", "dropSpeed", "remove", "signal", "route",
           "signalIfSfp", "signalIfUp"}]
    \union [op : {"set"}, arg : PortState \ MergeStates]
    \union [op : {"mode"}, arg : Mode]
    \union [op : {"allowed"}, arg : SUBSET VSAN]
    \union [op : {"insert"}, arg : Generation]
    \union [op : {"speed"}, arg : Int]
    \union [op : {"assignSpeed"}, arg : [speed : Int, sfp : Generation]]
    \union [op : {"load"}, arg : [admin : {"up", "down"}] \union [mode : Mode]
                \union [speedConfig : Int] \union [allowed : SUBSET VSAN]]

Plain == Seq(PlainStep)

MergeArg == [domain : Domain, vsans : SUBSET VSAN]
TrunkArg == [vsans : SUBSET VSAN, allowed : SUBSET VSAN]

\* The state elp_success leaves a port of mode TE in
Outcome(common) == IF common = {} THEN "ERR_DISABLED" ELSE "TRUNKING"

\* The rest of an elp_success: from its beginning; from the domain on; from
\* the trunk results on; from the last _set on
MergeLeft(x) == <<Set("DOMAIN_MERGE"), WithArg("domain", x)>>
DomainLeft(x) == <<WithArg("domain", x)>>
TrunkLeft(x) == <<WithArg("trunk", x), Set(Outcome(x.vsans))>>
StateLeft(vs) == <<Set(Outcome(vs))>>

\* The same, in the mode E: no trunk results
UpLeft == <<Set("UP")>>

Merging(t) ==
    \/ \E x \in MergeArg : todo[t] = DomainLeft(x)
    \/ \E x \in TrunkArg : todo[t] = TrunkLeft(x)
    \/ \E vs \in SUBSET VSAN : todo[t] = StateLeft(vs)
    \/ todo[t] = UpLeft

Shape(t) ==
    \/ todo[t] \in Plain
    \/ t \in Bus /\ (Merging(t) \/ \E x \in MergeArg : todo[t] = MergeLeft(x))

Pending == port.oper = "DOMAIN_MERGE" => \E t \in Thread : Merging(t)

\* Every thread has a list of steps
Assigned == todo = [t \in Thread |-> todo[t]]

IInv ==
    /\ port \in FCPort
    /\ calls \in 0..MaxCalls
    /\ Assigned
    /\ \A t \in Thread : Shape(t)
    /\ Pending

\* The three trunk results say that vs is what the ends have in common
Shows(vs) ==
    /\ port.negotiated = vs
    /\ port.isolated = (vs = {})
    /\ \A v \in DOMAIN port.status : port.status[v] = "up" <=> v \in vs

Quiet == port.oper \notin {"TRUNKING", "ERR_DISABLED"}

Written(t) ==
    /\ \A x \in MergeArg : todo[t] = DomainLeft(x) => Quiet
    /\ \A x \in TrunkArg : todo[t] = TrunkLeft(x) => Quiet /\ port.negotiated = x.vsans
    /\ \A vs \in SUBSET VSAN : todo[t] = StateLeft(vs) =>
          Quiet /\ \E ws \in SUBSET VSAN : Outcome(ws) = Outcome(vs) /\ Shows(ws)

\* Not two elp_success calls that record trunk results at a time
Recording(t) ==
    \/ \E x \in MergeArg : todo[t] = DomainLeft(x)
    \/ \E x \in TrunkArg : todo[t] = TrunkLeft(x)
    \/ \E vs \in SUBSET VSAN : todo[t] = StateLeft(vs)

Apart == \A a, b \in Bus : Recording(a) /\ Recording(b) => a = b

OneBus == \A a, b \in Bus : a = b

\* What holds as long as they keep apart
WInv == IInv /\ TrunkResultsMatch /\ \A t \in Bus : Written(t)

-----------------------------------------------------------------------------
(* Steps *)

\* Lists of one and two steps
LEMMA Lists ==
    /\ \A a : /\ <<a>> # <<>> /\ Head(<<a>>) = a /\ Tail(<<a>>) = <<>>
              /\ <<a>> \o <<>> = <<a>> /\ <<>> \o <<a>> = <<a>>
    /\ \A a, b : /\ <<a, b>> # <<>> /\ Head(<<a, b>>) = a /\ Tail(<<a, b>>) = <<b>>
                 /\ <<a, b>> \o <<>> = <<a, b>>
    /\ \A a, b : <<a>> = <<b>> => a = b
  OBVIOUS

\* load_dict writes one field at a time
LEMMA LoadType ==
    ASSUME NEW p \in FCPort,
           NEW arg \in [admin : {"up", "down"}] \union [mode : Mode]
                       \union [speedConfig : Int] \union [allowed : SUBSET VSAN]
    PROVE  LET q == [f \in DOMAIN p |-> IF f \in DOMAIN arg THEN arg[f] ELSE p[f]]
           IN  /\ q \in FCPort
               /\ q.oper = p.oper /\ q.negotiated = p.negotiated
               /\ q.status = p.status /\ q.isolated = p.isolated
  <1> DEFINE q == [f \in DOMAIN p |-> IF f \in DOMAIN arg THEN arg[f] ELSE p[f]]
  <1>1. CASE arg \in [admin : {"up", "down"}]
    <2>1. q = [p EXCEPT !.admin = arg.admin]
      BY <1>1 DEF FCPort
    <2> QED BY <1>1, <2>1 DEF FCPort
  <1>2. CASE arg \in [mode : Mode]
    <2>1. q = [p EXCEPT !.mode = arg.mode]
      BY <1>2 DEF FCPort
    <2> QED BY <1>2, <2>1 DEF FCPort
  <1>3. CASE arg \in [speedConfig : Int]
    <2>1. q = [p EXCEPT !.speedConfig = arg.speedConfig]
      BY <1>3 DEF FCPort
    <2> QED BY <1>3, <2>1 DEF FCPort
  <1>4. CASE arg \in [allowed : SUBSET VSAN]
    <2>1. q = [p EXCEPT !.allowed = arg.allowed]
      BY <1>4 DEF FCPort
    <2> QED BY <1>4, <2>1 DEF FCPort
  <1> QED BY <1>1, <1>2, <1>3, <1>4

\* The trunk results of two ports are the same
SameResults(p, q) ==
    q.negotiated = p.negotiated /\ q.status = p.status /\ q.isolated = p.isolated

\* A plain step enters no state of elp_success and leaves its results alone
LEMMA EffectPlain ==
    ASSUME NEW p \in FCPort, NEW step \in PlainStep
    PROVE  LET q == Effect(p, step)
           IN  /\ q \in FCPort /\ SameResults(p, q)
               /\ q.oper = p.oper \/ q.oper \notin MergeStates
  <1> DEFINE Fine(q) == /\ q \in FCPort /\ SameResults(p, q)
                        /\ q.oper = p.oper \/ q.oper \notin MergeStates
  <1> SUFFICES Fine(Effect(p, step))
    OBVIOUS
  <1>1. CASE step \in [op : {"adminUp", "adminDown", "dropSpeed", "remove", "signal",
                             "route", "signalIfSfp", "signalIfUp"}]
    <2>0. \A r \in FCPort : /\ DropSpeed(r) \in FCPort /\ SameResults(r, DropSpeed(r))
                            /\ DropSpeed(r).oper = r.oper
      BY DEF DropSpeed, NoSpeed, FCPort, SameResults
    <2>1. CASE step.op = "adminUp"
      BY <1>1, <2>1 DEF Effect, FCPort, SameResults
    <2>2. CASE step.op = "adminDown"
      <3> DEFINE r == [p EXCEPT !.admin = "down"]
      <3>1. r \in FCPort /\ SameResults(p, r) /\ r.oper = p.oper
        BY DEF FCPort, SameResults
      <3>2. Effect(p, step) = DropSpeed(r)
        BY <2>2 DEF Effect
      <3> HIDE DEF r
      <3> QED BY <2>0, <3>1, <3>2 DEF SameResults
    <2>3. CASE step.op = "dropSpeed"
      BY <1>1, <2>3 DEF Effect, DropSpeed, NoSpeed, FCPort, SameResults
    <2>4. CASE step.op = "remove"
      <3> DEFINE r == [p EXCEPT !.sfp = NoSfp]
      <3>1. r \in FCPort /\ SameResults(p, r) /\ r.oper = p.oper
        BY DEF FCPort, SameResults
      <3>2. Effect(p, step) = DropSpeed(r)
        BY <2>4 DEF Effect, RemoveSfp
      <3> HIDE DEF r
      <3> QED BY <2>0, <3>1, <3>2 DEF SameResults
    <2>5. CASE step.op \in {"signal", "route", "signalIfSfp", "signalIfUp"}
      <3>1. Effect(p, step) = p
        BY <2>5 DEF Effect
      <3> QED BY <3>1 DEF SameResults
    <2> QED BY <1>1, <2>1, <2>2, <2>3, <2>4, <2>5
  <1>2. CASE step \in [op : {"set"}, arg : PortState \ MergeStates]
    BY <1>2 DEF Effect, SetOper, FCPort, SameResults
  <1>3. CASE step \in [op : {"mode"}, arg : Mode]
    BY <1>3 DEF Effect, SetMode, Upper, Mode, FCPort, SameResults
  <1>4. CASE step \in [op : {"allowed"}, arg : SUBSET VSAN]
    BY <1>4 DEF Effect, SetTrunkAllowed, FCPort, SameResults
  <1>5. CASE step \in [op : {"insert"}, arg : Generation]
    BY <1>5 DEF Effect, InsertSfp, FCPort, SameResults
  <1>6. CASE step \in [op : {"speed"}, arg : Int]
    <2>1. Effect(p, step) = p
      BY <1>6 DEF Effect
    <2> QED BY <2>1 DEF SameResults
  <1>7. CASE step \in [op : {"assignSpeed"}, arg : [speed : Int, sfp : Generation]]
    <2>1. step.arg.speed \in Int /\ step.arg.sfp \in Int
      <3>1. step.arg \in [speed : Int, sfp : Generation]
        BY <1>7
      <3>2. \A a \in [speed : Int, sfp : Generation] : a.speed \in Int /\ a.sfp \in Generation
        OBVIOUS
      <3>3. Generation \subseteq Int
        BY GenerationAssumption
      <3> QED BY <3>1, <3>2, <3>3
    <2>2. Effect(p, step) = AssignSpeed(p, step.arg.speed, step.arg.sfp)
      BY <1>7 DEF Effect
    <2>3. ASSUME NEW s \in Int, NEW g \in Int PROVE Fine(AssignSpeed(p, s, g))
      <3> DEFINE v == IF s = AutoSpeed THEN g ELSE s
                 q1 == [p EXCEPT !.speedConfig = s]
      <3>1. v \in Int
        OBVIOUS
      <3> HIDE DEF v
      <3>2. Fine(q1)
        BY DEF FCPort, SameResults
      <3>3. Fine([q1 EXCEPT !.speed = v])
        <4> HIDE DEF q1
        <4>1. q1 \in FCPort
          BY <3>2
        <4>2. LET q2 == [q1 EXCEPT !.speed = v]
              IN  q2 \in FCPort /\ SameResults(q1, q2) /\ q2.oper = q1.oper
          BY <3>1, <4>1 DEF FCPort, SameResults
        <4> QED BY <3>2, <4>2 DEF SameResults
      <3>4. [p EXCEPT !.speedConfig = s, !.speed = v] = [q1 EXCEPT !.speed = v]
        OBVIOUS
      <3>5. Fine(p)
        BY DEF SameResults
      <3> HIDE DEF Fine, q1
      <3> QED BY <3>3, <3>4, <3>5 DEF AssignSpeed, v
    <2> HIDE DEF Fine
    <2> QED BY <2>1, <2>2, <2>3
  <1>8. CASE step \in [op : {"load"}, arg : [admin : {"up", "down"}] \union [mode : Mode]
                       \union [speedConfig : Int] \union [allowed : SUBSET VSAN]]
    <2>1. Effect(p, step) =
            [f \in DOMAIN p |-> IF f \in DOMAIN step.arg THEN step.arg[f] ELSE p[f]]
      BY <1>8 DEF Effect
    <2> QED BY <1>8, <2>1, LoadType DEF SameResults
  <1> HIDE DEF Fine
  <1> QED BY <1>1, <1>2, <1>3, <1>4, <1>5, <1>6, <1>7, <1>8 DEF PlainStep

\* What a plain step finds it has to do next is plain
LEMMA UnfoldPlain ==
    ASSUME NEW p \in FCPort, NEW step \in PlainStep
    PROVE  Unfold(p, step) \in Plain
  <1>0. /\ <<>> \in Plain
        /\ \A s \in PlainStep : <<s>> \in Plain
        /\ \A s, r \in PlainStep : <<s, r>> \in Plain
    BY DEF Plain
  <1>1. \A st \in PortState \ MergeStates : Set(st) \in PlainStep
    BY DEF PlainStep, Set, WithArg
  <1>2. {"OFFLINE", "LINK_DOWN", "INITIALIZING", "FLOGI_PENDING", "ELP_NEGOTIATE"}
           \subseteq PortState \ MergeStates
    BY DEF PortState, MergeStates
  <1>3. Step("signal") \in PlainStep /\ Step("route") \in PlainStep
    BY DEF PlainStep, Step
  <1>4. SignalTarget(p.mode) \in {"INITIALIZING", "FLOGI_PENDING", "ELP_NEGOTIATE"}
    BY DEF SignalTarget
  <1>5. step.op # "domain"
    BY DEF PlainStep
  <1>6. CASE step.op = "speed" /\ p.sfp # NoSfp
    <2>1. step.arg \in Int /\ p.sfp \in Generation
      BY <1>6 DEF PlainStep, FCPort
    <2>2. WithArg("assignSpeed", [speed |-> step.arg, sfp |-> p.sfp]) \in PlainStep
      BY <2>1 DEF PlainStep, WithArg
    <2> QED BY <1>0, <1>6, <2>2 DEF Unfold
  <1>7. CASE step.op = "adminUp"
    BY <1>0, <1>1, <1>2, <1>7 DEF Unfold
  <1>8. CASE step.op = "signal"
    BY <1>0, <1>1, <1>2, <1>3, <1>8 DEF Unfold
  <1>9. CASE step.op = "route"
    BY <1>0, <1>1, <1>2, <1>4, <1>9 DEF Unfold
  <1>10. CASE step.op \in {"signalIfSfp", "signalIfUp"} \/ (step.op = "speed" /\ p.sfp = NoSfp)
    BY <1>0, <1>3, <1>10 DEF Unfold
  <1>11. CASE step.op \notin {"adminUp", "signal", "route", "signalIfSfp", "signalIfUp",
                              "speed", "domain"}
    BY <1>0, <1>11 DEF Unfold
  <1> QED BY <1>5, <1>6, <1>7, <1>8, <1>9, <1>10, <1>11

-----------------------------------------------------------------------------
(* Calls *)

\* The first steps of every call: plain, or those of elp_success
LEMMA CallPlain ==
    /\ SignalSteps \in Plain /\ LinkLostSteps \in Plain /\ ShutdownSteps \in Plain
    /\ NoShutdownSteps \in Plain /\ UnplugSteps \in Plain
    /\ \A g \in Generation : InsertSteps(g) \in Plain
    /\ \A cfg \in Boot : ReloadSteps(cfg) \in Plain
    /\ \A m \in {"auto", "F", "E", "TE"} : <<WithArg("mode", m)>> \in Plain
    /\ \A vs \in SUBSET VSAN : <<WithArg("allowed", vs)>> \in Plain
    /\ \A g \in Generation : \A s \in Supported(g) : <<WithArg("speed", s)>> \in Plain
  <1>0. /\ \A a \in PlainStep : <<a>> \in Plain
        /\ \A a, b \in PlainStep : <<a, b>> \in Plain
        /\ <<>> \in Plain
    BY DEF Plain
  <1>1. \A n \in {"adminUp", "adminDown", "dropSpeed", "remove", "signal", "route",
                  "signalIfSfp", "signalIfUp"} : Step(n) \in PlainStep
    BY DEF Step, PlainStep
  <1>2. Set("LINK_DOWN") \in PlainStep /\ Set("OFFLINE") \in PlainStep
    BY DEF Set, WithArg, PlainStep, PortState, MergeStates
  <1>3. \A g \in Generation : WithArg("insert", g) \in PlainStep
    BY DEF WithArg, PlainStep
  <1>4. \A m \in Mode : WithArg("mode", m) \in PlainStep
    BY DEF WithArg, PlainStep
  <1>5. \A vs \in SUBSET VSAN : WithArg("allowed", vs) \in PlainStep
    BY DEF WithArg, PlainStep
  <1>6. \A s \in Int : WithArg("speed", s) \in PlainStep
    BY DEF WithArg, PlainStep
  <1>7. SignalSteps \in Plain /\ LinkLostSteps \in Plain /\ ShutdownSteps \in Plain
        /\ NoShutdownSteps \in Plain
    BY <1>0, <1>1, <1>2 DEF SignalSteps, LinkLostSteps, ShutdownSteps, NoShutdownSteps
  <1>8. UnplugSteps \in Plain
    <2>1. <<Step("remove")>> \in Seq(PlainStep) /\ LinkLostSteps \in Seq(PlainStep)
      BY <1>0, <1>1, <1>7 DEF Plain
    <2> QED BY <2>1, ConcatProperties DEF UnplugSteps, Plain
  <1>9. \A g \in Generation : InsertSteps(g) \in Plain
    BY <1>0, <1>1, <1>3 DEF InsertSteps
  <1>10. ASSUME NEW cfg \in Boot PROVE ReloadSteps(cfg) \in Plain
    <2>1. /\ cfg.admin \in {"up", "down"} /\ cfg.mode \in Mode
          /\ cfg.allowed \in SUBSET VSAN /\ cfg.sfp \in Generation \union {NoSfp}
      BY BootAssumption DEF PortConfig
    <2> DEFINE a == WithArg("load", [admin |-> cfg.admin])
               b == WithArg("load", [mode |-> cfg.mode])
               c == WithArg("load", [speedConfig |-> AutoSpeed])
               d == WithArg("load", [allowed |-> cfg.allowed])
               e == IF cfg.sfp = NoSfp THEN <<>> ELSE <<WithArg("insert", cfg.sfp)>>
    <2>2. a \in PlainStep
      BY <2>1 DEF WithArg, PlainStep
    <2>3. b \in PlainStep
      BY <2>1 DEF WithArg, PlainStep
    <2>4. c \in PlainStep
      BY DEF WithArg, PlainStep, AutoSpeed
    <2>5. d \in PlainStep
      BY <2>1 DEF WithArg, PlainStep
    <2>6. e \in Seq(PlainStep)
      BY <1>0, <1>3, <2>1 DEF Plain
    <2>7. ReloadSteps(cfg) = <<a, b, c, d>> \o e
      BY DEF ReloadSteps
    <2> HIDE DEF a, b, c, d, e
    <2>8. <<a, b, c, d>> \in Seq(PlainStep)
      BY <2>2, <2>3, <2>4, <2>5
    <2> QED BY <2>6, <2>7, <2>8, ConcatProperties DEF Plain
  <1>11. \A m \in {"auto", "F", "E", "TE"} : <<WithArg("mode", m)>> \in Plain
    BY <1>0, <1>4 DEF Mode
  <1>12. \A g \in Generation : \A s \in Supported(g) : s \in Int
    BY GenerationAssumption DEF Supported, AutoSpeed
  <1>13. \A g \in Generation : \A s \in Supported(g) : <<WithArg("speed", s)>> \in Plain
    BY <1>0, <1>6, <1>12
  <1> QED BY <1>0, <1>5, <1>7, <1>8, <1>9, <1>10, <1>11, <1>13

\* A call begins in a thread that has nothing left to do
LEMMA CallStep ==
    ASSUME NEW t \in Thread,
           \/ t \in Cli /\ CliCall(t)
           \/ t \in Instructor /\ InstructorCall(t)
           \/ t \in Bus /\ BusCall(t)
    PROVE  \E steps : /\ Begin(t, steps)
                      /\ \/ steps \in Plain
                         \/ t \in Bus /\ \E x \in MergeArg : steps = MergeLeft(x)
  <1>1. CASE CliCall(t)
    BY <1>1, CallPlain DEF CliCall
  <1>2. CASE InstructorCall(t)
    BY <1>2, CallPlain DEF InstructorCall
  <1>3. CASE t \in Bus /\ BusCall(t)
    <2>1. ASSUME NEW dom \in Domain, NEW vs \in SUBSET VSAN, Begin(t, ElpSteps(dom, vs))
          PROVE  \E x \in MergeArg : Begin(t, MergeLeft(x))
      <3>1. [domain |-> dom, vsans |-> vs] \in MergeArg
        BY DEF MergeArg
      <3>2. ElpSteps(dom, vs) = MergeLeft([domain |-> dom, vsans |-> vs])
        BY DEF ElpSteps, MergeLeft
      <3> QED BY <2>1, <3>1, <3>2
    <2> QED BY <1>3, <2>1, CallPlain DEF BusCall
  <1> QED BY <1>1, <1>2, <1>3

-----------------------------------------------------------------------------
(* Continuing a call *)

\* What the heads of the lists in the rest of an elp_success do
LEMMA MergeEffects ==
    ASSUME NEW p \in FCPort
    PROVE  /\ \A st \in PortState :
                 /\ Effect(p, Set(st)) = SetOper(p, st) /\ Unfold(p, Set(st)) = <<>>
           /\ \A x \in MergeArg :
                 LET q == Effect(p, WithArg("domain", x))
                 IN  /\ q \in FCPort /\ q.oper = p.oper
                     /\ p.mode = "TE" => q.negotiated = x.vsans
                     /\ Unfold(p, WithArg("domain", x)) =
                          IF p.mode = "TE"
                          THEN TrunkLeft([vsans |-> x.vsans, allowed |-> p.allowed])
                          ELSE UpLeft
           /\ \A x \in TrunkArg :
                 LET q == Effect(p, WithArg("trunk", x))
                 IN  /\ q \in FCPort /\ q.oper = p.oper /\ q.negotiated = p.negotiated
                     /\ q.isolated = (x.vsans = {})
                     /\ \A v \in DOMAIN q.status : q.status[v] = "up" <=> v \in x.vsans
                     /\ Unfold(p, WithArg("trunk", x)) = <<>>
  <1>1. ASSUME NEW st \in PortState
        PROVE  Effect(p, Set(st)) = SetOper(p, st) /\ Unfold(p, Set(st)) = <<>>
    BY DEF Effect, Unfold, Set, WithArg
  <1>2. ASSUME NEW x \in MergeArg
        PROVE  LET q == Effect(p, WithArg("domain", x))
               IN  /\ q \in FCPort /\ q.oper = p.oper
                   /\ p.mode = "TE" => q.negotiated = x.vsans
    <2>1. Effect(p, WithArg("domain", x)) =
            IF p.mode = "TE"
            THEN [p EXCEPT !.domain = x.domain, !.negotiated = x.vsans]
            ELSE [p EXCEPT !.domain = x.domain]
      BY DEF Effect, WithArg
    <2>2. x.domain \in Nat /\ x.vsans \in SUBSET VSAN
      BY BoundAssumption DEF MergeArg
    <2> DEFINE q == [p EXCEPT !.domain = x.domain]
    <2>3. q \in FCPort /\ q.oper = p.oper
      BY <2>2 DEF FCPort
    <2>4. [p EXCEPT !.domain = x.domain, !.negotiated = x.vsans]
             = [q EXCEPT !.negotiated = x.vsans]
      OBVIOUS
    <2> HIDE DEF q
    <2>5. LET r == [q EXCEPT !.negotiated = x.vsans]
          IN  r \in FCPort /\ r.oper = q.oper /\ r.negotiated = x.vsans
      BY <2>2, <2>3 DEF FCPort
    <2>6. CASE p.mode = "TE"
      BY <2>1, <2>3, <2>4, <2>5, <2>6
    <2>7. CASE p.mode # "TE"
      BY <2>1, <2>3, <2>7 DEF q
    <2> QED BY <2>6, <2>7
  <1>3. ASSUME NEW x \in MergeArg
        PROVE  Unfold(p, WithArg("domain", x)) =
                 IF p.mode = "TE"
                 THEN TrunkLeft([vsans |-> x.vsans, allowed |-> p.allowed])
                 ELSE UpLeft
    <2>1. Unfold(p, WithArg("domain", x)) = AfterMerge(p, x.vsans)
      BY DEF Unfold, WithArg
    <2> QED BY <2>1 DEF AfterMerge, TrunkLeft, UpLeft, Outcome
  <1>4. ASSUME NEW x \in TrunkArg
        PROVE  LET q == Effect(p, WithArg("trunk", x))
               IN  /\ q \in FCPort /\ q.oper = p.oper /\ q.negotiated = p.negotiated
                   /\ q.isolated = (x.vsans = {})
                   /\ \A v \in DOMAIN q.status : q.status[v] = "up" <=> v \in x.vsans
                   /\ Unfold(p, WithArg("trunk", x)) = <<>>
    <2> DEFINE st == [v \in x.allowed |-> IF v \in x.vsans THEN "up" ELSE "isolated"]
               q1 == [p EXCEPT !.status = st]
    <2>1. Effect(p, WithArg("trunk", x)) =
            [p EXCEPT !.status = st, !.isolated = (x.vsans = {})]
      BY DEF Effect, WithArg
    <2>2. st \in TrunkStatus /\ \A v \in DOMAIN st : st[v] = "up" <=> v \in x.vsans
      <3>1. st \in [x.allowed -> {"up", "isolated"}]
        OBVIOUS
      <3>2. x.allowed \in SUBSET VSAN
        BY DEF TrunkArg
      <3> QED BY <3>1, <3>2 DEF TrunkStatus
    <2> DEFINE q2 == [q1 EXCEPT !.isolated = (x.vsans = {})]
    <2>3. Effect(p, WithArg("trunk", x)) = q2
      BY <2>1
    <2> HIDE DEF st
    <2>4. q1 \in FCPort /\ q1.oper = p.oper /\ q1.negotiated = p.negotiated /\ q1.status = st
      BY <2>2 DEF FCPort
    <2> HIDE DEF q1
    <2>5. /\ q2 \in FCPort /\ q2.oper = q1.oper /\ q2.negotiated = q1.negotiated
          /\ q2.status = q1.status /\ q2.isolated = (x.vsans = {})
      BY <2>4 DEF FCPort
    <2>6. Unfold(p, WithArg("trunk", x)) = <<>>
      BY DEF Unfold, WithArg
    <2> HIDE DEF q2
    <2> QED BY <2>1, <2>2, <2>3, <2>4, <2>5, <2>6
  <1> QED BY <1>1, <1>2, <1>3, <1>4

\* The lists are told apart by their heads
LEMMA Heads ==
    /\ \A steps \in Plain : steps # <<>> => Head(steps) \in PlainStep
    /\ \A step \in PlainStep : /\ step.op \notin {"domain", "trunk"}
                               /\ step.op = "set" => step.arg \notin MergeStates
    /\ \A x : /\ MergeLeft(x) # <<>> /\ Head(MergeLeft(x)) = Set("DOMAIN_MERGE")
              /\ DomainLeft(x) # <<>> /\ Head(DomainLeft(x)) = WithArg("domain", x)
              /\ TrunkLeft(x) # <<>> /\ Head(TrunkLeft(x)) = WithArg("trunk", x)
    /\ \A vs : StateLeft(vs) # <<>> /\ Head(StateLeft(vs)) = Set(Outcome(vs))
    /\ UpLeft # <<>> /\ Head(UpLeft) = Set("UP") /\ UpLeft \in Plain /\ <<>> \in Plain
    /\ \A st : Set(st).op = "set" /\ Set(st).arg = st
    /\ \A name, x : WithArg(name, x).op = name /\ WithArg(name, x).arg = x
    /\ \A vs : Outcome(vs) \in {"TRUNKING", "ERR_DISABLED"}
    /\ {"TRUNKING", "ERR_DISABLED", "DOMAIN_MERGE", "UP"} \subseteq PortState
  <1>1. \A steps \in Plain : steps # <<>> => Head(steps) \in PlainStep
    BY DEF Plain
  <1>2. \A step \in PlainStep : /\ step.op \notin {"domain", "trunk"}
                                /\ step.op = "set" => step.arg \notin MergeStates
    BY DEF PlainStep
  <1>3. Set("UP") \in PlainStep
    BY DEF Set, WithArg, PlainStep, PortState, MergeStates
  <1>4. UpLeft \in Plain /\ <<>> \in Plain
    BY <1>3 DEF UpLeft, Plain
  <1>5. \A vs : Outcome(vs) \in {"TRUNKING", "ERR_DISABLED"}
    BY DEF Outcome
  <1>6. {"TRUNKING", "ERR_DISABLED", "DOMAIN_MERGE", "UP"} \subseteq PortState
    BY DEF PortState
  <1>7. \A name, x : WithArg(name, x).op = name /\ WithArg(name, x).arg = x
    BY DEF WithArg
  <1>8. \A st : Set(st).op = "set" /\ Set(st).arg = st
    BY DEF Set, WithArg
  <1> QED BY <1>1, <1>2, <1>4, <1>5, <1>6, <1>7, <1>8, Lists
          DEF MergeLeft, DomainLeft, TrunkLeft, StateLeft, UpLeft

\* A step of a thread, by what it has left
PlainOn(t) ==
    /\ todo'[t] \in Plain /\ port' \in FCPort /\ SameResults(port, port')
    /\ port'.oper = port.oper \/ port'.oper \notin MergeStates
    /\ todo[t] \in Plain \ {UpLeft} \/ (todo[t] = UpLeft /\ port'.oper = "UP")

MergeOn(t, x) ==
    /\ todo[t] = MergeLeft(x) /\ todo'[t] = DomainLeft(x)
    /\ port' = SetOper(port, "DOMAIN_MERGE")

DomainOn(t, x) ==
    /\ todo[t] = DomainLeft(x) /\ port' \in FCPort /\ port'.oper = port.oper
    /\ \/ todo'[t] = UpLeft
       \/ \E y \in TrunkArg : todo'[t] = TrunkLeft(y) /\ port'.negotiated = y.vsans

TrunkOn(t, x) ==
    /\ todo[t] = TrunkLeft(x) /\ todo'[t] = StateLeft(x.vsans)
    /\ port' \in FCPort /\ port'.oper = port.oper /\ port'.negotiated = port.negotiated
    /\ port'.isolated = (x.vsans = {})
    /\ \A v \in DOMAIN port'.status : port'.status[v] = "up" <=> v \in x.vsans

StateOn(t, vs) ==
    todo[t] = StateLeft(vs) /\ todo'[t] = <<>> /\ port' = SetOper(port, Outcome(vs))

LEMMA ContinueStep ==
    ASSUME IInv, NEW t \in Thread, Continue(t)
    PROVE  /\ \A u \in Thread : u # t => todo'[u] = todo[u]
           /\ Assigned' /\ calls' = calls
           /\ \/ PlainOn(t)
              \/ t \in Bus /\ \/ \E x \in MergeArg : MergeOn(t, x) \/ DomainOn(t, x)
                              \/ \E x \in TrunkArg : TrunkOn(t, x)
                              \/ \E vs \in SUBSET VSAN : StateOn(t, vs)
  <1>1. /\ todo[t] # <<>> /\ port' = Effect(port, Head(todo[t])) /\ calls' = calls
        /\ todo'[t] = Unfold(port, Head(todo[t])) \o Tail(todo[t])
        /\ \A u \in Thread : u # t => todo'[u] = todo[u]
        /\ Assigned'
    BY DEF Continue, IInv, Assigned
  <1>p. port \in FCPort
    BY DEF IInv
  <1>2. CASE todo[t] \in Plain
    <2>1. Head(todo[t]) \in PlainStep
      BY <1>1, <1>2, Heads
    <2>2. Tail(todo[t]) \in Seq(PlainStep)
      BY <1>1, <1>2 DEF Plain
    <2>3. Unfold(port, Head(todo[t])) \in Seq(PlainStep)
      BY <1>p, <2>1, UnfoldPlain DEF Plain
    <2>4. todo'[t] \in Plain
      BY <1>1, <2>2, <2>3, ConcatProperties DEF Plain
    <2>5. /\ port' \in FCPort /\ SameResults(port, port')
          /\ port'.oper = port.oper \/ port'.oper \notin MergeStates
      BY <1>1, <1>p, <2>1, EffectPlain
    <2>6. ASSUME todo[t] = UpLeft PROVE port'.oper = "UP"
      <3>1. port' = SetOper(port, "UP")
        BY <1>1, <1>p, <2>6, Heads, MergeEffects
      <3> QED BY <1>p, <3>1, Heads, SetOperType
    <2> QED BY <1>1, <1>2, <2>4, <2>5, <2>6 DEF PlainOn
  <1>3. ASSUME NEW x \in MergeArg, t \in Bus, todo[t] = MergeLeft(x) PROVE MergeOn(t, x)
    <2>1. Tail(todo[t]) = DomainLeft(x)
      BY <1>3, Lists DEF MergeLeft, DomainLeft
    <2>2. Unfold(port, Head(todo[t])) = <<>> /\ port' = SetOper(port, "DOMAIN_MERGE")
      BY <1>1, <1>3, <1>p, Heads, MergeEffects
    <2>3. todo'[t] = DomainLeft(x)
      BY <1>1, <2>1, <2>2, Lists DEF DomainLeft
    <2> QED BY <1>3, <2>2, <2>3 DEF MergeOn
  <1>4. ASSUME NEW x \in MergeArg, t \in Bus, todo[t] = DomainLeft(x) PROVE DomainOn(t, x)
    <2> DEFINE y == [vsans |-> x.vsans, allowed |-> port.allowed]
    <2>1. Tail(todo[t]) = <<>> /\ Head(todo[t]) = WithArg("domain", x)
      BY <1>4, Lists DEF DomainLeft
    <2>2. /\ port' \in FCPort /\ port'.oper = port.oper
          /\ port.mode = "TE" => port'.negotiated = x.vsans
          /\ Unfold(port, WithArg("domain", x)) =
                IF port.mode = "TE" THEN TrunkLeft(y) ELSE UpLeft
      BY <1>1, <1>p, <2>1, MergeEffects
    <2>3. y \in TrunkArg /\ y.vsans = x.vsans
      BY <1>p DEF TrunkArg, MergeArg, FCPort
    <2> HIDE DEF y
    <2>4. TrunkLeft(y) \o <<>> = TrunkLeft(y) /\ UpLeft \o <<>> = UpLeft
      BY Lists DEF TrunkLeft, UpLeft
    <2>5. todo'[t] = IF port.mode = "TE" THEN TrunkLeft(y) ELSE UpLeft
      BY <1>1, <2>1, <2>2, <2>4
    <2> QED BY <1>4, <2>2, <2>3, <2>5 DEF DomainOn
  <1>5. ASSUME NEW x \in TrunkArg, t \in Bus, todo[t] = TrunkLeft(x) PROVE TrunkOn(t, x)
    <2>1. Tail(todo[t]) = StateLeft(x.vsans) /\ Head(todo[t]) = WithArg("trunk", x)
      BY <1>5, Lists DEF TrunkLeft, StateLeft
    <2>2. /\ Unfold(port, WithArg("trunk", x)) = <<>>
          /\ port' \in FCPort /\ port'.oper = port.oper
          /\ port'.negotiated = port.negotiated
          /\ port'.isolated = (x.vsans = {})
          /\ \A v \in DOMAIN port'.status : port'.status[v] = "up" <=> v \in x.vsans
      BY <1>1, <1>p, <2>1, MergeEffects
    <2>3. <<>> \o StateLeft(x.vsans) = StateLeft(x.vsans)
      BY Lists DEF StateLeft
    <2>4. todo'[t] = StateLeft(x.vsans)
      BY <1>1, <2>1, <2>2, <2>3
    <2> QED BY <1>5, <2>2, <2>4 DEF TrunkOn
  <1>6. ASSUME NEW vs \in SUBSET VSAN, t \in Bus, todo[t] = StateLeft(vs) PROVE StateOn(t, vs)
    <2>1. Tail(todo[t]) = <<>> /\ Head(todo[t]) = Set(Outcome(vs)) /\ Outcome(vs) \in PortState
      BY <1>6, Lists, Heads DEF StateLeft
    <2>2. Unfold(port, Head(todo[t])) = <<>> /\ port' = SetOper(port, Outcome(vs))
      BY <1>1, <1>p, <2>1, MergeEffects
    <2>3. todo'[t] = <<>>
      BY <1>1, <2>1, <2>2
    <2> QED BY <1>6, <2>2, <2>3 DEF StateOn
  <1>7. todo[t] = UpLeft => todo[t] \in Plain
    BY Heads
  <1> QED BY <1>1, <1>2, <1>3, <1>4, <1>5, <1>6, <1>7 DEF IInv, Shape, Merging

-----------------------------------------------------------------------------
(* Type correctness, and the end of a merge *)

LEMMA InitIInv == Init => IInv
  <1> SUFFICES ASSUME Init PROVE IInv
    OBVIOUS
  <1>1. port \in FCPort /\ port.oper = "OFFLINE"
    BY BootAssumption, BootPortType DEF Init
  <1>2. calls \in 0..MaxCalls /\ Assigned
    BY BoundAssumption DEF Init, Assigned
  <1>3. \A t \in Thread : Shape(t)
    BY Heads DEF Init, Shape
  <1> QED BY <1>1, <1>2, <1>3 DEF IInv, Pending

\* A thread that begins a call
LEMMA BeginStep ==
    ASSUME IInv, [Next]_vars, ~\E t \in Thread : Continue(t), ~UNCHANGED vars
    PROVE  \E t \in Thread :
              /\ todo[t] = <<>> /\ port' = port
              /\ \A u \in Thread : u # t => todo'[u] = todo[u]
              /\ Assigned' /\ calls' \in 0..MaxCalls
              /\ \/ todo'[t] \in Plain
                 \/ t \in Bus /\ \E x \in MergeArg : todo'[t] = MergeLeft(x)
  <1>1. PICK t \in Thread : \/ t \in Cli /\ CliCall(t)
                            \/ t \in Instructor /\ InstructorCall(t)
                            \/ t \in Bus /\ BusCall(t)
    BY DEF Next, Thread
  <1>2. PICK steps : /\ Begin(t, steps)
                     /\ \/ steps \in Plain
                        \/ t \in Bus /\ \E x \in MergeArg : steps = MergeLeft(x)
    BY <1>1, CallStep
  <1>3. calls' \in 0..MaxCalls
    BY <1>2, BoundAssumption DEF Begin, IInv
  <1>4. /\ todo[t] = <<>> /\ port' = port /\ todo'[t] = steps
        /\ \A u \in Thread : u # t => todo'[u] = todo[u]
        /\ Assigned'
    BY <1>2 DEF Begin, IInv, Assigned
  <1> QED BY <1>2, <1>3, <1>4

LEMMA MergingFrame ==
    ASSUME NEW u \in Thread, todo'[u] = todo[u]
    PROVE  /\ Merging(u)' <=> Merging(u)
           /\ Shape(u)' <=> Shape(u)
  BY DEF Merging, Shape

LEMMA NextIInv == IInv /\ [Next]_vars => IInv'
  <1> SUFFICES ASSUME IInv, [Next]_vars PROVE IInv'
    OBVIOUS
  <1>1. ASSUME NEW t \in Thread, Continue(t) PROVE IInv'
    <2>0. /\ \A u \in Thread : u # t => todo'[u] = todo[u]
          /\ Assigned' /\ calls' = calls
      BY <1>1, ContinueStep
    <2>1. ASSUME port' \in FCPort, Shape(t)',
                 \/ Merging(t)'
                 \/ port'.oper # "DOMAIN_MERGE"
                 \/ port'.oper = port.oper /\ ~Merging(t)
          PROVE  IInv'
      <3>1. \A u \in Thread : Shape(u)'
        BY <2>0, <2>1, MergingFrame DEF IInv
      <3>2. Pending'
        <4>1. CASE port'.oper = port.oper /\ port'.oper = "DOMAIN_MERGE" /\ ~Merging(t)
          <5>1. PICK u \in Thread : Merging(u)
            BY <4>1 DEF IInv, Pending
          <5> QED BY <2>0, <4>1, <5>1, MergingFrame DEF Pending
        <4> QED BY <2>1, <4>1 DEF Pending
      <3> QED BY <2>0, <2>1, <3>1, <3>2 DEF IInv
    <2>p. port \in FCPort
      BY DEF IInv
    <2>2. CASE PlainOn(t)
      <3>1. Merging(t) => todo[t] = UpLeft
        BY <2>2, Heads DEF PlainOn, Merging, MergeStates
      <3>2. port' \in FCPort /\ Shape(t)'
        BY <2>2 DEF PlainOn, Shape
      <3> QED BY <2>1, <2>2, <3>1, <3>2 DEF PlainOn, MergeStates
    <2>3. ASSUME NEW x \in MergeArg, t \in Bus, MergeOn(t, x) PROVE IInv'
      <3>1. Merging(t)'
        BY <2>3 DEF MergeOn, Merging
      <3>2. port' \in FCPort
        BY <2>3, <2>p, Heads, SetOperType DEF MergeOn
      <3> QED BY <2>1, <2>3, <3>1, <3>2 DEF Shape
    <2>4. ASSUME NEW x \in MergeArg, t \in Bus, DomainOn(t, x) PROVE IInv'
      <3>1. Merging(t)'
        BY <2>4 DEF DomainOn, Merging
      <3> QED BY <2>1, <2>4, <3>1 DEF Shape, DomainOn
    <2>5. ASSUME NEW x \in TrunkArg, t \in Bus, TrunkOn(t, x) PROVE IInv'
      <3>1. Merging(t)'
        BY <2>5 DEF TrunkOn, Merging, TrunkArg
      <3> QED BY <2>1, <2>5, <3>1 DEF Shape, TrunkOn
    <2>6. ASSUME NEW vs \in SUBSET VSAN, t \in Bus, StateOn(t, vs) PROVE IInv'
      <3>1. port' \in FCPort /\ port'.oper = Outcome(vs)
        <4>1. Outcome(vs) \in PortState
          BY Heads
        <4>2. port' = SetOper(port, Outcome(vs))
          BY <2>6 DEF StateOn
        <4> QED BY <2>p, <4>1, <4>2, SetOperType
      <3>2. Shape(t)'
        BY <2>6, Heads DEF StateOn, Shape
      <3> QED BY <2>1, <3>1, <3>2, Heads
    <2> QED BY <1>1, <2>2, <2>3, <2>4, <2>5, <2>6, ContinueStep
  <1>2. CASE UNCHANGED vars
    BY <1>2 DEF vars, IInv, Shape, Merging, Pending, Assigned
  <1>3. CASE (~\E t \in Thread : Continue(t)) /\ ~UNCHANGED vars
    <2>1. PICK t \in Thread :
             /\ todo[t] = <<>> /\ port' = port
             /\ \A u \in Thread : u # t => todo'[u] = todo[u]
             /\ Assigned' /\ calls' \in 0..MaxCalls
             /\ \/ todo'[t] \in Plain
                \/ t \in Bus /\ \E x \in MergeArg : todo'[t] = MergeLeft(x)
      BY <1>3, BeginStep
    <2>2. \A u \in Thread : Shape(u)'
      BY <2>1, MergingFrame DEF IInv, Shape
    <2>3. ~Merging(t)
      BY <2>1, Heads DEF Merging
    <2>4. Pending'
      BY <2>1, <2>3, MergingFrame DEF IInv, Pending
    <2> QED BY <2>1, <2>2, <2>4 DEF IInv
  <1> QED BY <1>1, <1>2, <1>3

\* What a thread has left, in every run
THEOREM Invariance == Spec => []IInv
  BY InitIInv, NextIInv, PTL DEF Spec

LEMMA IInvTypeOK == IInv => TypeOK
  <1> SUFFICES ASSUME IInv PROVE TypeOK
    OBVIOUS
  <1>1. PlainStep \subseteq StepType
    BY DEF PlainStep, StepType
  <1>2. Plain \subseteq Seq(StepType)
    BY <1>1 DEF Plain
  <1>3. \A x \in MergeArg : WithArg("domain", x) \in StepType
    BY DEF MergeArg, WithArg, StepType
  <1>4. \A x \in TrunkArg : WithArg("trunk", x) \in StepType
    BY DEF TrunkArg, WithArg, StepType
  <1>5. \A st \in PortState : Set(st) \in StepType
    BY DEF Set, WithArg, StepType
  <1>6. \A a, b \in StepType : <<a>> \in Seq(StepType) /\ <<a, b>> \in Seq(StepType)
    OBVIOUS
  <1>7. ASSUME NEW t \in Thread PROVE todo[t] \in Seq(StepType)
    <2>1. CASE todo[t] \in Plain
      BY <1>2, <2>1
    <2>2. ASSUME NEW x \in MergeArg, todo[t] \in {MergeLeft(x), DomainLeft(x)}
          PROVE  todo[t] \in Seq(StepType)
      <3>1. WithArg("domain", x) \in StepType /\ Set("DOMAIN_MERGE") \in StepType
        BY <1>3, <1>5, Heads
      <3> QED BY <1>6, <2>2, <3>1 DEF MergeLeft, DomainLeft
    <2>3. ASSUME NEW x \in TrunkArg, todo[t] = TrunkLeft(x) PROVE todo[t] \in Seq(StepType)
      <3>1. Outcome(x.vsans) \in PortState
        BY Heads
      <3> QED BY <1>4, <1>5, <1>6, <2>3, <3>1 DEF TrunkLeft
    <2>4. ASSUME NEW vs \in SUBSET VSAN, todo[t] = StateLeft(vs) PROVE todo[t] \in Seq(StepType)
      <3>1. Outcome(vs) \in PortState
        BY Heads
      <3> QED BY <1>5, <1>6, <2>4, <3>1 DEF StateLeft
    <2>5. UpLeft \in Seq(StepType)
      BY <1>2, Heads
    <2>6. Shape(t)
      BY DEF IInv
    <2> QED BY <2>1, <2>2, <2>3, <2>4, <2>5, <2>6 DEF Shape, Merging
  <1>8. \A t \in Thread : todo[t] \in Seq(StepType)
    BY <1>7
  <1> QED BY <1>8 DEF IInv, TypeOK, Assigned

\* Every variable keeps its type, whatever calls overlap
THEOREM TypeCorrect == Spec => []TypeOK
  BY Invariance, IInvTypeOK, PTL

LEMMA IInvMergeEnds == IInv => MergeEnds
  <1> SUFFICES ASSUME IInv, AtRest PROVE port.oper # "DOMAIN_MERGE"
    BY DEF MergeEnds
  <1>1. \A t \in Thread : ~Merging(t)
    BY Heads DEF AtRest, Merging
  <1> QED BY <1>1 DEF IInv, Pending

\* However many threads overlap, a port at rest is not in a domain merge
THEOREM MergeEndsHolds == Spec => []MergeEnds
  BY Invariance, IInvMergeEnds, PTL

-----------------------------------------------------------------------------
(* Trunk results, as long as no two threads record some at a time *)

\* A step that leaves the results alone and enters no state of elp_success
LEMMA ResultsFrame ==
    ASSUME TrunkResultsMatch, SameResults(port, port'),
           port'.oper = port.oper \/ port'.oper \notin MergeStates
    PROVE  TrunkResultsMatch'
  BY DEF TrunkResultsMatch, SameResults, MergeStates

LEMMA WrittenFrame ==
    ASSUME NEW b \in Bus, Written(b), todo'[b] = todo[b], SameResults(port, port'),
           port'.oper = port.oper \/ port'.oper \notin MergeStates
    PROVE  Written(b)'
  BY DEF Written, Quiet, Shows, SameResults, MergeStates

\* Nothing is written for a thread that records nothing
LEMMA IdleWritten ==
    ASSUME NEW b \in Bus, ~Recording(b), todo'[b] = todo[b]
    PROVE  Written(b)'
  BY DEF Recording, Written

\* Nothing is written for a thread whose list is plain
LEMMA PlainWritten ==
    ASSUME NEW b \in Bus, todo[b] \in Plain
    PROVE  Written(b)
  BY Heads DEF Written, MergeStates

LEMMA InitWInv == Init => WInv
  <1> SUFFICES ASSUME Init PROVE WInv
    OBVIOUS
  <1>1. port.oper = "OFFLINE"
    BY BootAssumption, BootPortType DEF Init
  <1>2. \A b \in Bus : todo[b] \in Plain
    BY Heads DEF Init, Thread
  <1> QED BY <1>1, <1>2, InitIInv, PlainWritten DEF WInv, TrunkResultsMatch

\* _set changes the state only
LEMMA SetOperResults ==
    ASSUME NEW p \in FCPort, NEW st \in PortState
    PROVE  SameResults(p, SetOper(p, st)) /\ SetOper(p, st).oper = st
  BY DEF SetOper, FCPort, SameResults

\* The rest of an elp_success is of one kind, with one argument
LEMMA LeftUnique ==
    /\ \A x, y : TrunkLeft(x) = TrunkLeft(y) => x = y
    /\ \A x, y : DomainLeft(x) # TrunkLeft(y) /\ DomainLeft(x) # StateLeft(y)
                 /\ TrunkLeft(x) # StateLeft(y)
    /\ \A x, y : /\ MergeLeft(x) # DomainLeft(y) /\ MergeLeft(x) # TrunkLeft(y)
                 /\ MergeLeft(x) # StateLeft(y)
    /\ \A x, y : StateLeft(x) = StateLeft(y) => Outcome(x) = Outcome(y)
  <1>1. \A x, y : TrunkLeft(x) = TrunkLeft(y) => x = y
    <2> TAKE x, y
    <2> HAVE TrunkLeft(x) = TrunkLeft(y)
    <2>1. WithArg("trunk", x) = WithArg("trunk", y)
      BY Heads
    <2> QED BY <2>1, Heads
  <1>2. \A x, y : /\ WithArg("domain", x) # WithArg("trunk", y)
                  /\ WithArg("domain", x) # Set(y) /\ WithArg("trunk", x) # Set(y)
    <2> TAKE x, y
    <2>1. /\ WithArg("domain", x).op = "domain" /\ WithArg("trunk", y).op = "trunk"
          /\ WithArg("trunk", x).op = "trunk" /\ Set(y).op = "set"
      BY Heads
    <2> QED BY <2>1
  <1>3. \A x : Set(Outcome(x)) # Set("DOMAIN_MERGE")
    <2> TAKE x
    <2>1. Set(Outcome(x)).arg # Set("DOMAIN_MERGE").arg
      BY Heads
    <2> QED BY <2>1
  <1>4. \A x, y : Set(Outcome(x)) = Set(Outcome(y)) => Outcome(x) = Outcome(y)
    <2> TAKE x, y
    <2>1. Set(Outcome(x)).arg = Outcome(x) /\ Set(Outcome(y)).arg = Outcome(y)
      BY Heads
    <2> QED BY <2>1
  <1>5. \A x, y : StateLeft(x) = StateLeft(y) => Set(Outcome(x)) = Set(Outcome(y))
    BY Heads
  <1>6. \A x, y : /\ MergeLeft(x) # DomainLeft(y) /\ MergeLeft(x) # TrunkLeft(y)
                  /\ MergeLeft(x) # StateLeft(y)
    BY <1>2, <1>3, Heads
  <1>7. \A x, y : DomainLeft(x) # TrunkLeft(y) /\ DomainLeft(x) # StateLeft(y)
                  /\ TrunkLeft(x) # StateLeft(y)
    BY <1>2, Heads
  <1> QED BY <1>1, <1>4, <1>5, <1>6, <1>7

LEMMA NextWInv ==
    ASSUME Apart, WInv, [Next]_vars
    PROVE  WInv'
  <1>0. IInv' /\ IInv /\ TrunkResultsMatch /\ port \in FCPort
    BY NextIInv DEF WInv, IInv
  <1> SUFFICES TrunkResultsMatch' /\ \A b \in Bus : Written(b)'
    BY <1>0 DEF WInv
  <1>1. ASSUME NEW t \in Thread, Continue(t)
        PROVE  TrunkResultsMatch' /\ \A b \in Bus : Written(b)'
    <2>0. \A u \in Thread : u # t => todo'[u] = todo[u]
      BY <1>0, <1>1, ContinueStep
    <2>1. CASE PlainOn(t)
      <3>1. TrunkResultsMatch'
        BY <1>0, <2>1, ResultsFrame DEF PlainOn
      <3>2. ASSUME NEW b \in Bus PROVE Written(b)'
        <4>1. CASE b = t
          BY <2>1, <4>1, Heads DEF PlainOn, Written, MergeStates
        <4>2. CASE b # t
          BY <2>0, <2>1, <4>2, WrittenFrame DEF PlainOn, WInv, Thread
        <4> QED BY <4>1, <4>2
      <3> QED BY <3>1, <3>2
    <2>b. t \in Bus => Written(t)
      BY DEF WInv
    <2>o. ASSUME Recording(t), t \in Bus, NEW b \in Bus, b # t PROVE Written(b)'
      BY <2>0, <2>o, IdleWritten DEF Apart, Thread
    <2>2. ASSUME NEW x \in MergeArg, t \in Bus, MergeOn(t, x)
          PROVE  TrunkResultsMatch' /\ \A b \in Bus : Written(b)'
      <3>1. port'.oper = "DOMAIN_MERGE" /\ SameResults(port, port')
        BY <1>0, <2>2, Heads, SetOperResults DEF MergeOn
      <3>2. TrunkResultsMatch' /\ Written(t)'
        BY <2>2, <3>1, LeftUnique DEF MergeOn, TrunkResultsMatch, Written, Quiet
      <3>3. ASSUME NEW b \in Bus, b # t PROVE Written(b)'
        <4>1. Written(b) /\ todo'[b] = todo[b]
          BY <2>0, <3>3 DEF WInv, Thread
        <4> QED BY <3>1, <4>1 DEF Written, Quiet, Shows, SameResults
      <3> QED BY <3>2, <3>3
    <2>3. ASSUME NEW x \in MergeArg, t \in Bus, DomainOn(t, x)
          PROVE  TrunkResultsMatch' /\ Written(t)'
      <3>1. Quiet'
        BY <2>b, <2>3 DEF DomainOn, Written, Quiet
      <3>2. TrunkResultsMatch'
        BY <3>1 DEF TrunkResultsMatch, Quiet
      <3>3. CASE todo'[t] = UpLeft
        <4>1. \A y : UpLeft # DomainLeft(y) /\ UpLeft # TrunkLeft(y) /\ UpLeft # StateLeft(y)
          BY Heads DEF MergeStates
        <4> QED BY <3>2, <3>3, <4>1 DEF Written
      <3>4. ASSUME NEW y \in TrunkArg, todo'[t] = TrunkLeft(y), port'.negotiated = y.vsans
            PROVE  Written(t)'
        BY <3>1, <3>4, LeftUnique DEF Written
      <3> QED BY <2>3, <3>2, <3>3, <3>4 DEF DomainOn
    <2>4. ASSUME NEW x \in TrunkArg, t \in Bus, TrunkOn(t, x)
          PROVE  TrunkResultsMatch' /\ Written(t)'
      <3>1. Quiet' /\ port'.negotiated = x.vsans /\ x.vsans \in SUBSET VSAN
        BY <2>b, <2>4 DEF TrunkOn, Written, Quiet, TrunkArg
      <3>2. TrunkResultsMatch'
        BY <3>1 DEF TrunkResultsMatch, Quiet
      <3>3. Shows(x.vsans)'
        BY <2>4, <3>1 DEF TrunkOn, Shows
      <3> QED BY <2>4, <3>1, <3>2, <3>3, LeftUnique DEF TrunkOn, Written
    <2>5. ASSUME NEW vs \in SUBSET VSAN, t \in Bus, StateOn(t, vs)
          PROVE  TrunkResultsMatch' /\ Written(t)'
      <3>1. PICK ws \in SUBSET VSAN : Outcome(ws) = Outcome(vs) /\ Shows(ws)
        BY <2>b, <2>5 DEF StateOn, Written
      <3>2. port'.oper = Outcome(ws) /\ SameResults(port, port')
        BY <1>0, <2>5, <3>1, Heads, SetOperResults DEF StateOn
      <3>3. TrunkResultsMatch'
        BY <3>1, <3>2 DEF TrunkResultsMatch, SameResults, Shows, Outcome
      <3>4. Written(t)'
        BY <2>5, Heads DEF StateOn, Written
      <3> QED BY <3>3, <3>4
    <2>6. (\E x \in MergeArg : DomainOn(t, x)) \/ (\E x \in TrunkArg : TrunkOn(t, x))
             \/ (\E vs \in SUBSET VSAN : StateOn(t, vs)) => Recording(t)
      BY DEF DomainOn, TrunkOn, StateOn, Recording
    <2>7. ASSUME t \in Bus, Recording(t), TrunkResultsMatch', Written(t)'
          PROVE  TrunkResultsMatch' /\ \A b \in Bus : Written(b)'
      BY <2>7, <2>o
    <2> QED BY <1>0, <1>1, <2>1, <2>2, <2>3, <2>4, <2>5, <2>6, <2>7, ContinueStep
  <1>2. CASE UNCHANGED vars
    <2>1. SameResults(port, port') /\ port'.oper = port.oper /\ todo' = todo
      BY <1>2 DEF vars, SameResults
    <2> QED BY <1>0, <2>1, ResultsFrame, WrittenFrame DEF WInv
  <1>3. CASE (~\E t \in Thread : Continue(t)) /\ ~UNCHANGED vars
    <2>1. PICK t \in Thread :
             /\ todo[t] = <<>> /\ port' = port
             /\ \A u \in Thread : u # t => todo'[u] = todo[u]
             /\ \/ todo'[t] \in Plain
                \/ t \in Bus /\ \E x \in MergeArg : todo'[t] = MergeLeft(x)
      BY <1>0, <1>3, BeginStep
    <2>2. SameResults(port, port') /\ port'.oper = port.oper
      BY <2>1 DEF SameResults
    <2>3. TrunkResultsMatch'
      BY <1>0, <2>2, ResultsFrame
    <2>4. ASSUME NEW b \in Bus PROVE Written(b)'
      <3>1. CASE b # t
        BY <2>1, <2>2, <3>1, WrittenFrame DEF WInv, Thread
      <3>2. CASE b = t /\ todo'[t] \in Plain
        BY <3>2, Heads DEF Written, MergeStates
      <3>3. ASSUME NEW x \in MergeArg, b = t, todo'[t] = MergeLeft(x) PROVE Written(b)'
        BY <3>3, LeftUnique DEF Written
      <3> QED BY <2>1, <3>1, <3>2, <3>3
    <2> QED BY <2>3, <2>4
  <1> QED BY <1>1, <1>2, <1>3

\* A trunking port shows trunk results that belong together, whatever the CLI,
\* the instructor and other bus threads do in between, as long as no two bus
\* threads are in the recording part of elp_success at a time
THEOREM TrunkResultsApart == Spec /\ []Apart => []TrunkResultsMatch
  <1>1. WInv /\ Apart /\ [Next]_vars => WInv'
    BY NextWInv
  <1>2. WInv => TrunkResultsMatch
    BY DEF WInv
  <1> QED BY <1>1, <1>2, InitWInv, PTL DEF Spec

\* Nothing of an earlier mixture shows, or is about to
Unmixed == Quiet /\ \A t \in Bus : ~Recording(t)

\* What two connections have mixed up does not last longer than the state it was
\* shown with: once the port has left that state (the link is lost, the port is
\* shut down) and nobody records results, the next elp_success starts afresh
\* (link_lost clears no trunk result, elp_success overwrites all of them)
THEOREM TrunkResultsMend ==
    Spec => [](Unmixed /\ []Apart => []TrunkResultsMatch)
  <1>1. WInv /\ Apart /\ [Next]_vars => WInv'
    BY NextWInv
  <1>2. WInv => TrunkResultsMatch
    BY DEF WInv
  <1>3. IInv /\ Unmixed => WInv
    BY DEF WInv, Unmixed, Quiet, TrunkResultsMatch, Recording, Written
  <1> QED BY <1>1, <1>2, <1>3, Invariance, PTL DEF Spec

\* So it does with at most one bus thread, without any condition
THEOREM TrunkResultsHold ==
    ASSUME OneBus
    PROVE  Spec => []TrunkResultsMatch
  <1>1. WInv /\ [Next]_vars => WInv'
    BY NextWInv DEF OneBus, Apart
  <1>2. WInv => TrunkResultsMatch
    BY DEF WInv
  <1> QED BY <1>1, <1>2, InitWInv, PTL DEF Spec

-----------------------------------------------------------------------------
(* A call by itself *)

\* Lists of up to five steps, by a name each: what matters here is only what is
\* left after the first
L1(a)             == <<a>>
L2(a, b)          == <<a, b>>
L3(a, b, c)       == <<a, b, c>>
L4(a, b, c, d)    == <<a, b, c, d>>
L5(a, b, c, d, e) == <<a, b, c, d, e>>

\* Two lists put together
LEMMA Joined ==
    ASSUME NEW a, NEW b, NEW c
    PROVE  <<a>> \o <<b>> = <<a, b>> /\ <<a>> \o <<b, c>> = <<a, b, c>>
  <1> DEFINE S == {a, b, c}
             p == <<a>> \o <<b>>
             q == <<a>> \o <<b, c>>
  <1>1. /\ <<a>> \in Seq(S) /\ Len(<<a>>) = 1 /\ <<b>> \in Seq(S) /\ Len(<<b>>) = 1
        /\ <<b, c>> \in Seq(S) /\ Len(<<b, c>>) = 2
        /\ <<a, b>> \in Seq(S) /\ Len(<<a, b>>) = 2
        /\ <<a, b, c>> \in Seq(S) /\ Len(<<a, b, c>>) = 3
    OBVIOUS
  <1>2. /\ p \in Seq(S) /\ Len(p) = 2 /\ p[1] = a /\ p[2] = b
        /\ q \in Seq(S) /\ Len(q) = 3 /\ q[1] = a /\ q[2] = b /\ q[3] = c
    BY <1>1, ConcatProperties
  <1> HIDE DEF p, q, S
  <1>3. \A i \in 1..2 : p[i] = <<a, b>>[i]
    BY <1>2
  <1>4. \A i \in 1..3 : q[i] = <<a, b, c>>[i]
    BY <1>2
  <1>5. p = <<a, b>>
    <2> DEFINE r == <<a, b>>
    <2>1. r \in Seq(S) /\ Len(r) = 2 /\ \A i \in 1..2 : p[i] = r[i]
      BY <1>1, <1>3
    <2> HIDE DEF r
    <2>2. p = r
      BY <1>2, <2>1, SeqEqual
    <2> QED BY <2>2 DEF r
  <1>6. q = <<a, b, c>>
    <2> DEFINE r == <<a, b, c>>
    <2>1. r \in Seq(S) /\ Len(r) = 3 /\ \A i \in 1..3 : q[i] = r[i]
      BY <1>1, <1>4
    <2> HIDE DEF r
    <2>2. q = r
      BY <1>2, <2>1, SeqEqual
    <2> QED BY <2>2 DEF r
  <1> QED BY <1>5, <1>6 DEF p, q

\* One step of a call that has these steps left
Rest(p, steps) == Unfold(p, Head(steps)) \o Tail(steps)

LEMMA OnwardIs ==
    ASSUME NEW p, NEW a, NEW steps, NEW left,
           steps # <<>>, Head(steps) = a, Rest(p, steps) = left
    PROVE  Onward(Call(p, steps)) = Call(Effect(p, a), left)
  BY DEF Onward, Call, Rest

\* ... that finds nothing more to do
LEMMA OnwardFlat ==
    ASSUME NEW p, NEW a, Unfold(p, a) = <<>>
    PROVE  /\ Onward(Call(p, L1(a))) = Call(Effect(p, a), <<>>)
           /\ \A b : Onward(Call(p, L2(a, b))) = Call(Effect(p, a), L1(b))
           /\ \A b, c : Onward(Call(p, L3(a, b, c))) = Call(Effect(p, a), L2(b, c))
           /\ \A b, c, d : Onward(Call(p, L4(a, b, c, d))) = Call(Effect(p, a), L3(b, c, d))
           /\ \A b, c, d, e : Onward(Call(p, L5(a, b, c, d, e)))
                                 = Call(Effect(p, a), L4(b, c, d, e))
  <1>1. Onward(Call(p, L1(a))) = Call(Effect(p, a), <<>>)
    <2>1. L1(a) # <<>> /\ Head(L1(a)) = a /\ Rest(p, L1(a)) = <<>>
      BY DEF L1, Rest
    <2> QED BY <2>1, OnwardIs
  <1>2. ASSUME NEW b
        PROVE  Onward(Call(p, L2(a, b))) = Call(Effect(p, a), L1(b))
    <2>1. L2(a, b) # <<>> /\ Head(L2(a, b)) = a /\ Rest(p, L2(a, b)) = L1(b)
      BY DEF L1, L2, Rest
    <2> QED BY <2>1, OnwardIs
  <1>3. ASSUME NEW b, NEW c
        PROVE  Onward(Call(p, L3(a, b, c))) = Call(Effect(p, a), L2(b, c))
    <2>1. /\ L3(a, b, c) # <<>> /\ Head(L3(a, b, c)) = a
          /\ Rest(p, L3(a, b, c)) = L2(b, c)
      BY DEF L2, L3, Rest
    <2> QED BY <2>1, OnwardIs
  <1>4. ASSUME NEW b, NEW c, NEW d
        PROVE  Onward(Call(p, L4(a, b, c, d))) = Call(Effect(p, a), L3(b, c, d))
    <2>1. /\ L4(a, b, c, d) # <<>> /\ Head(L4(a, b, c, d)) = a
          /\ Rest(p, L4(a, b, c, d)) = L3(b, c, d)
      BY DEF L3, L4, Rest
    <2> QED BY <2>1, OnwardIs
  <1>5. ASSUME NEW b, NEW c, NEW d, NEW e
        PROVE  Onward(Call(p, L5(a, b, c, d, e))) = Call(Effect(p, a), L4(b, c, d, e))
    <2>1. /\ L5(a, b, c, d, e) # <<>> /\ Head(L5(a, b, c, d, e)) = a
          /\ Rest(p, L5(a, b, c, d, e)) = L4(b, c, d, e)
      BY DEF L4, L5, Rest
    <2> QED BY <2>1, OnwardIs
  <1> QED BY <1>1, <1>2, <1>3, <1>4, <1>5

\* ... that finds more to do, and the end of a call
LEMMA OnwardMore ==
    ASSUME NEW p, NEW a
    PROVE  /\ Onward(Call(p, <<>>)) = Call(p, <<>>)
           /\ \A u : Unfold(p, a) = L1(u) =>
                 /\ Onward(Call(p, L1(a))) = Call(Effect(p, a), L1(u))
                 /\ \A b : Onward(Call(p, L2(a, b))) = Call(Effect(p, a), L2(u, b))
           /\ \A u, v : Unfold(p, a) = L2(u, v) =>
                 Onward(Call(p, L1(a))) = Call(Effect(p, a), L2(u, v))
  <1>1. Onward(Call(p, <<>>)) = Call(p, <<>>)
    BY DEF Onward, Call
  <1>2. ASSUME NEW u, Unfold(p, a) = L1(u)
        PROVE  Onward(Call(p, L1(a))) = Call(Effect(p, a), L1(u))
    <2>1. L1(a) # <<>> /\ Head(L1(a)) = a /\ Rest(p, L1(a)) = L1(u)
      BY <1>2 DEF L1, Rest
    <2> QED BY <2>1, OnwardIs
  <1>3. ASSUME NEW u, Unfold(p, a) = L1(u), NEW b
        PROVE  Onward(Call(p, L2(a, b))) = Call(Effect(p, a), L2(u, b))
    <2>1. L2(a, b) # <<>> /\ Head(L2(a, b)) = a /\ Tail(L2(a, b)) = <<b>>
      BY DEF L2
    <2>2. Rest(p, L2(a, b)) = L2(u, b)
      BY Zenon, <1>3, <2>1, Joined DEF L1, L2, Rest
    <2> QED BY <2>1, <2>2, OnwardIs
  <1>4. ASSUME NEW u, NEW v, Unfold(p, a) = L2(u, v)
        PROVE  Onward(Call(p, L1(a))) = Call(Effect(p, a), L2(u, v))
    <2>1. L1(a) # <<>> /\ Head(L1(a)) = a /\ Rest(p, L1(a)) = L2(u, v)
      BY <1>4 DEF L1, L2, Rest
    <2> QED BY <2>1, OnwardIs
  <1> QED BY <1>1, <1>2, <1>3, <1>4

\* What each step does, and what it finds it has to do next
LEMMA SetIs ==
    ASSUME NEW p, NEW st
    PROVE  Effect(p, Set(st)) = SetOper(p, st) /\ Unfold(p, Set(st)) = <<>>
  BY DEF Effect, Unfold, Set, WithArg

LEMMA AdminStepIs ==
    ASSUME NEW p
    PROVE  /\ Effect(p, Step("adminUp")) = [p EXCEPT !.admin = "up"]
           /\ Unfold(p, Step("adminUp")) =
                 L1(Set(IF p.sfp = NoSfp THEN "OFFLINE" ELSE "LINK_DOWN"))
           /\ Effect(p, Step("adminDown")) = DropSpeed([p EXCEPT !.admin = "down"])
           /\ Unfold(p, Step("adminDown")) = <<>>
  BY DEF Effect, Unfold, Step, L1

LEMMA DropStepIs ==
    ASSUME NEW p
    PROVE  /\ Effect(p, Step("dropSpeed")) = DropSpeed(p) /\ Unfold(p, Step("dropSpeed")) = <<>>
           /\ Effect(p, Step("remove")) = RemoveSfp(p) /\ Unfold(p, Step("remove")) = <<>>
  BY DEF Effect, Unfold, Step

LEMMA SignalStepIs ==
    ASSUME NEW p
    PROVE  /\ Effect(p, Step("signal")) = p /\ Effect(p, Step("route")) = p
           /\ SignalAccepted(p) =>
                 Unfold(p, Step("signal")) = L2(Set("INITIALIZING"), Step("route"))
           /\ ~SignalAccepted(p) => Unfold(p, Step("signal")) = <<>>
           /\ SignalTarget(p.mode) = "INITIALIZING" => Unfold(p, Step("route")) = <<>>
           /\ SignalTarget(p.mode) # "INITIALIZING" =>
                 Unfold(p, Step("route")) = L1(Set(SignalTarget(p.mode)))
  BY DEF Effect, Unfold, Step, L1, L2

LEMMA SignalIfStepIs ==
    ASSUME NEW p
    PROVE  /\ Effect(p, Step("signalIfSfp")) = p /\ Effect(p, Step("signalIfUp")) = p
           /\ p.sfp # NoSfp => Unfold(p, Step("signalIfSfp")) = L1(Step("signal"))
           /\ p.sfp = NoSfp => Unfold(p, Step("signalIfSfp")) = <<>>
           /\ p.admin = "up" => Unfold(p, Step("signalIfUp")) = L1(Step("signal"))
           /\ p.admin # "up" => Unfold(p, Step("signalIfUp")) = <<>>
  BY DEF Effect, Unfold, Step, L1

LEMMA FieldStepIs ==
    ASSUME NEW p, NEW x
    PROVE  /\ Effect(p, WithArg("mode", x)) = SetMode(p, x)
           /\ Effect(p, WithArg("allowed", x)) = SetTrunkAllowed(p, x)
           /\ Effect(p, WithArg("insert", x)) = InsertSfp(p, x)
           /\ \A n \in {"mode", "allowed", "insert", "load", "trunk"} :
                 Unfold(p, WithArg(n, x)) = <<>>
  <1>1. /\ Effect(p, WithArg("mode", x)) = SetMode(p, x)
        /\ Effect(p, WithArg("allowed", x)) = SetTrunkAllowed(p, x)
        /\ Effect(p, WithArg("insert", x)) = InsertSfp(p, x)
    BY DEF Effect, WithArg
  <1>2. \A n \in {"mode", "allowed", "insert", "load", "trunk"} :
           Unfold(p, WithArg(n, x)) = <<>>
    BY DEF Unfold, WithArg
  <1> QED BY <1>1, <1>2

SpeedArg(p, x) == WithArg("assignSpeed", [speed |-> x, sfp |-> p.sfp])

LEMMA SpeedStepIs ==
    ASSUME NEW p, NEW x
    PROVE  /\ Effect(p, WithArg("speed", x)) = p
           /\ p.sfp = NoSfp => Unfold(p, WithArg("speed", x)) = <<>>
           /\ p.sfp # NoSfp => Unfold(p, WithArg("speed", x)) = L1(SpeedArg(p, x))
           /\ Effect(p, SpeedArg(p, x)) = AssignSpeed(p, x, p.sfp)
           /\ Unfold(p, SpeedArg(p, x)) = <<>>
  BY DEF Effect, Unfold, WithArg, SpeedArg, L1

\* Fields that steps of the bring-up leave alone
LEMMA BringUpFields ==
    ASSUME NEW p \in FCPort, NEW st \in PortState
    PROVE  /\ SetOper(p, st) \in FCPort
           /\ SetOper(p, st).sfp = p.sfp /\ SetOper(p, st).mode = p.mode
           /\ SetOper(p, st).admin = p.admin
           /\ \A s : SetOper(SetOper(p, st), s) = SetOper(p, s)
           /\ LET q == [p EXCEPT !.admin = "up"]
              IN  q \in FCPort /\ q.sfp = p.sfp /\ q.admin = "up"
           /\ \A g \in Generation :
                 InsertSfp(p, g) \in FCPort /\ InsertSfp(p, g).admin = p.admin
  BY DEF SetOper, InsertSfp, FCPort

\* link_signal_detected runs to its end
LEMMA SignalEnds ==
    ASSUME NEW p \in FCPort
    PROVE  TwiceOnward(TwiceOnward(Call(p, SignalSteps))) = Call(LinkSignalDetected(p), <<>>)
  <1>1. CASE ~SignalAccepted(p)
    <2>1. Onward(Call(p, L1(Step("signal")))) = Call(p, <<>>)
      BY <1>1, OnwardFlat, OnwardMore, SignalStepIs
    <2>2. Onward(Call(p, <<>>)) = Call(p, <<>>)
      BY OnwardFlat, OnwardMore
    <2> QED BY <1>1, <2>1, <2>2 DEF TwiceOnward, SignalSteps, L1, LinkSignalDetected
  <1>2. CASE SignalAccepted(p)
    <2> DEFINE q == SetOper(p, "INITIALIZING")
    <2>1. "INITIALIZING" \in PortState
      BY DEF PortState
    <2>2. q.mode = p.mode /\ \A s : SetOper(q, s) = SetOper(p, s)
      BY <2>1, BringUpFields
    <2>3. Onward(Call(p, L1(Step("signal")))) = Call(p, L2(Set("INITIALIZING"), Step("route")))
      BY <1>2, OnwardFlat, OnwardMore, SignalStepIs
    <2>4. Onward(Call(p, L2(Set("INITIALIZING"), Step("route")))) = Call(q, L1(Step("route")))
      BY OnwardFlat, OnwardMore, SetIs
    <2> HIDE DEF q
    <2>5. LinkSignalDetected(p) = SetOper(q, SignalTarget(p.mode))
      BY <1>2, <2>2 DEF LinkSignalDetected
    <2>6. CASE SignalTarget(p.mode) = "INITIALIZING"
      <3>1. Onward(Call(q, L1(Step("route")))) = Call(q, <<>>)
        BY <2>2, <2>6, OnwardFlat, OnwardMore, SignalStepIs
      <3>2. Onward(Call(q, <<>>)) = Call(q, <<>>)
        BY OnwardFlat, OnwardMore
      <3>3. LinkSignalDetected(p) = q
        BY <2>2, <2>5, <2>6 DEF q
      <3> QED BY <2>3, <2>4, <3>1, <3>2, <3>3 DEF TwiceOnward, SignalSteps, L1
    <2>7. CASE SignalTarget(p.mode) # "INITIALIZING"
      <3>1. Onward(Call(q, L1(Step("route")))) = Call(q, L1(Set(SignalTarget(p.mode))))
        BY <2>2, <2>7, OnwardFlat, OnwardMore, SignalStepIs
      <3>2. Onward(Call(q, L1(Set(SignalTarget(p.mode)))))
               = Call(SetOper(q, SignalTarget(p.mode)), <<>>)
        BY OnwardFlat, OnwardMore, SetIs
      <3> QED BY <2>3, <2>4, <2>5, <3>1, <3>2 DEF TwiceOnward, SignalSteps, L1
    <2> QED BY <2>6, <2>7
  <1> QED BY <1>1, <1>2

\* "no shutdown", "shutdown" and the commands of one step
LEMMA AdminEnds ==
    ASSUME NEW p \in FCPort
    PROVE  /\ Finish(Call(p, ShutdownSteps)) = Call(AdminDown(p), <<>>)
           /\ Finish(Call(p, NoShutdownSteps)) = Call(NoShutdown(p), <<>>)
  <1>1. Finish(Call(p, ShutdownSteps)) = Call(AdminDown(p), <<>>)
    <2> DEFINE q == DropSpeed([p EXCEPT !.admin = "down"])
    <2>0. Effect(p, Step("adminDown")) = q /\ Unfold(p, Step("adminDown")) = <<>>
      BY AdminStepIs
    <2>2. Onward(Call(q, L1(Set("OFFLINE")))) = Call(SetOper(q, "OFFLINE"), <<>>)
      BY OnwardFlat, OnwardMore, SetIs
    <2>3. AdminDown(p) = SetOper(q, "OFFLINE")
      BY DEF AdminDown
    <2> HIDE DEF q
    <2>1. Onward(Call(p, L2(Step("adminDown"), Set("OFFLINE")))) = Call(q, L1(Set("OFFLINE")))
      BY <2>0, OnwardFlat, OnwardMore
    <2>4. Onward(Call(AdminDown(p), <<>>)) = Call(AdminDown(p), <<>>)
      BY OnwardFlat, OnwardMore
    <2> QED BY <2>1, <2>2, <2>3, <2>4 DEF ShutdownSteps, L2, Finish, TwiceOnward
  <1>2. Finish(Call(p, NoShutdownSteps)) = Call(NoShutdown(p), <<>>)
    <2> DEFINE x == IF p.sfp = NoSfp THEN "OFFLINE" ELSE "LINK_DOWN"
               q == [p EXCEPT !.admin = "up"]
               r == AdminUp(p)
    <2>1. x \in PortState /\ q \in FCPort /\ q.sfp = p.sfp
      BY BringUpFields DEF PortState
    <2>2. r = SetOper(q, x)
      BY DEF AdminUp
    <2>3. Unfold(p, Step("adminUp")) = L1(Set(x)) /\ Effect(p, Step("adminUp")) = q
      BY AdminStepIs
    <2> HIDE DEF x, q
    <2>4. r \in FCPort /\ r.sfp = p.sfp
      <3>1. SetOper(q, x) \in FCPort /\ SetOper(q, x).sfp = q.sfp
        BY Zenon, <2>1, BringUpFields
      <3> QED BY Zenon, <2>1, <2>2, <3>1
    <2>5. Onward(Call(p, L2(Step("adminUp"), Step("signalIfSfp"))))
             = Call(q, L2(Set(x), Step("signalIfSfp")))
      BY <2>3, OnwardFlat, OnwardMore
    <2>6. Onward(Call(q, L2(Set(x), Step("signalIfSfp")))) = Call(r, L1(Step("signalIfSfp")))
      BY <2>2, OnwardFlat, OnwardMore, SetIs
    <2> HIDE DEF r
    <2>7. /\ p.sfp # NoSfp => Onward(Call(r, L1(Step("signalIfSfp")))) = Call(r, SignalSteps)
          /\ p.sfp = NoSfp => Onward(Call(r, L1(Step("signalIfSfp")))) = Call(r, <<>>)
      <3>1. SignalSteps = L1(Step("signal"))
        BY DEF SignalSteps, L1
      <3> QED BY <2>4, <3>1, OnwardFlat, OnwardMore, SignalIfStepIs
    <2>8. CASE p.sfp # NoSfp
      <3>1. Onward(Onward(Onward(Onward(Call(r, SignalSteps))))) = Call(LinkSignalDetected(r), <<>>)
        BY <2>4, SignalEnds DEF TwiceOnward
      <3>2. NoShutdown(p) = LinkSignalDetected(r)
        BY <2>8 DEF NoShutdown, r
      <3>3. Onward(Call(NoShutdown(p), <<>>)) = Call(NoShutdown(p), <<>>)
        BY OnwardFlat, OnwardMore
      <3> QED BY <2>5, <2>6, <2>7, <2>8, <3>1, <3>2, <3>3 DEF NoShutdownSteps, L2, Finish, TwiceOnward
    <2>9. CASE p.sfp = NoSfp
      <3>1. NoShutdown(p) = r
        BY <2>9 DEF NoShutdown, r
      <3>2. Onward(Call(r, <<>>)) = Call(r, <<>>)
        BY OnwardFlat, OnwardMore
      <3> QED BY <2>5, <2>6, <2>7, <2>9, <3>1, <3>2 DEF NoShutdownSteps, L2, Finish, TwiceOnward
    <2> QED BY <2>8, <2>9
  <1> QED BY <1>1, <1>2

\* The calls of the fault injector, and those of a bus thread but elp_success
LEMMA FaultEnds ==
    ASSUME NEW p \in FCPort
    PROVE  /\ Finish(Call(p, SignalSteps)) = Call(LinkSignalDetected(p), <<>>)
           /\ Finish(Call(p, LinkLostSteps)) = Call(LinkLost(p), <<>>)
           /\ Finish(Call(p, UnplugSteps)) = Call(UnplugSfp(p), <<>>)
           /\ \A g \in Generation : Finish(Call(p, InsertSteps(g))) = Call(PlugSfp(p, g), <<>>)
  <1>0. \A q : Onward(Call(q, <<>>)) = Call(q, <<>>)
    BY OnwardFlat, OnwardMore
  <1>1. Finish(Call(p, SignalSteps)) = Call(LinkSignalDetected(p), <<>>)
    BY <1>0, SignalEnds DEF Finish, TwiceOnward
  <1>2. ASSUME NEW q
        PROVE  Onward(Onward(Call(q, LinkLostSteps))) = Call(LinkLost(q), <<>>)
    <2> DEFINE r == DropSpeed(q)
    <2>1. Onward(Call(q, L2(Step("dropSpeed"), Set("LINK_DOWN")))) = Call(r, L1(Set("LINK_DOWN")))
      BY OnwardFlat, OnwardMore, DropStepIs
    <2>2. LinkLost(q) = SetOper(r, "LINK_DOWN")
      BY DEF LinkLost
    <2> HIDE DEF r
    <2>3. Onward(Call(r, L1(Set("LINK_DOWN")))) = Call(SetOper(r, "LINK_DOWN"), <<>>)
      BY OnwardFlat, OnwardMore, SetIs
    <2> QED BY <2>1, <2>2, <2>3 DEF LinkLostSteps, L2
  <1>3. Finish(Call(p, LinkLostSteps)) = Call(LinkLost(p), <<>>)
    BY <1>0, <1>2 DEF Finish, TwiceOnward
  <1>4. Finish(Call(p, UnplugSteps)) = Call(UnplugSfp(p), <<>>)
    <2> DEFINE r == RemoveSfp(p)
    <2>1. UnplugSteps = L3(Step("remove"), Step("dropSpeed"), Set("LINK_DOWN"))
      BY Zenon, Joined DEF UnplugSteps, LinkLostSteps, L3
    <2>2. Onward(Call(p, UnplugSteps)) = Call(r, LinkLostSteps)
      BY <2>1, OnwardFlat, OnwardMore, DropStepIs DEF LinkLostSteps, L2
    <2>3. UnplugSfp(p) = LinkLost(r)
      BY DEF UnplugSfp
    <2> HIDE DEF r
    <2> QED BY <1>0, <1>2, <2>2, <2>3 DEF Finish, TwiceOnward
  <1>5. ASSUME NEW g \in Generation
        PROVE  Finish(Call(p, InsertSteps(g))) = Call(PlugSfp(p, g), <<>>)
    <2> DEFINE q == InsertSfp(p, g)
    <2>1. q \in FCPort /\ q.admin = p.admin
      <3>1. "UP" \in PortState
        BY DEF PortState
      <3> QED BY <3>1, BringUpFields
    <2>2. PlugSfp(p, g) = IF p.admin = "up" THEN LinkSignalDetected(q) ELSE q
      BY DEF PlugSfp
    <2>3. Onward(Call(p, L2(WithArg("insert", g), Step("signalIfUp"))))
             = Call(q, L1(Step("signalIfUp")))
      BY OnwardFlat, OnwardMore, FieldStepIs
    <2> HIDE DEF q
    <2>4. /\ p.admin = "up" => Onward(Call(q, L1(Step("signalIfUp")))) = Call(q, SignalSteps)
          /\ p.admin # "up" => Onward(Call(q, L1(Step("signalIfUp")))) = Call(q, <<>>)
      <3>1. SignalSteps = L1(Step("signal"))
        BY DEF SignalSteps, L1
      <3> QED BY <2>1, <3>1, OnwardFlat, OnwardMore, SignalIfStepIs
    <2>5. Onward(Onward(Onward(Onward(Call(q, SignalSteps))))) = Call(LinkSignalDetected(q), <<>>)
      BY <2>1, SignalEnds DEF TwiceOnward
    <2>6. CASE p.admin = "up"
      BY <1>0, <2>2, <2>3, <2>4, <2>5, <2>6 DEF InsertSteps, L2, Finish, TwiceOnward
    <2>7. CASE p.admin # "up"
      BY <1>0, <2>2, <2>3, <2>4, <2>7 DEF InsertSteps, L2, Finish, TwiceOnward
    <2> QED BY <2>6, <2>7
  <1> QED BY <1>1, <1>3, <1>4, <1>5

\* The commands that set one field, and the speed
LEMMA FieldEnds ==
    ASSUME NEW p \in FCPort, NEW x
    PROVE  /\ Finish(Call(p, <<WithArg("mode", x)>>)) = Call(SetMode(p, x), <<>>)
           /\ Finish(Call(p, <<WithArg("allowed", x)>>)) = Call(SetTrunkAllowed(p, x), <<>>)
           /\ Finish(Call(p, <<WithArg("speed", x)>>)) = Call(SetSpeed(p, x), <<>>)
  <1>0. \A q : Onward(Call(q, <<>>)) = Call(q, <<>>)
    BY OnwardMore
  <1>1. /\ Onward(Call(p, L1(WithArg("mode", x)))) = Call(SetMode(p, x), <<>>)
        /\ Onward(Call(p, L1(WithArg("allowed", x)))) = Call(SetTrunkAllowed(p, x), <<>>)
    BY OnwardFlat, FieldStepIs
  <1>2. CASE p.sfp = NoSfp
    <2>1. Onward(Call(p, L1(WithArg("speed", x)))) = Call(p, <<>>)
      BY <1>2, OnwardFlat, SpeedStepIs
    <2>2. SetSpeed(p, x) = p
      BY <1>2 DEF SetSpeed
    <2> QED BY <1>0, <1>1, <2>1, <2>2 DEF Finish, TwiceOnward, L1
  <1>3. CASE p.sfp # NoSfp
    <2>1. Onward(Call(p, L1(WithArg("speed", x)))) = Call(p, L1(SpeedArg(p, x)))
      BY <1>3, OnwardMore, SpeedStepIs
    <2>2. Onward(Call(p, L1(SpeedArg(p, x)))) = Call(AssignSpeed(p, x, p.sfp), <<>>)
      BY OnwardFlat, SpeedStepIs
    <2>3. SetSpeed(p, x) = AssignSpeed(p, x, p.sfp)
      BY <1>3 DEF SetSpeed
    <2> QED BY <1>0, <1>1, <2>1, <2>2, <2>3 DEF Finish, TwiceOnward, L1
  <1> QED BY <1>2, <1>3

\* load_dict, one field after another
LEMMA LoadIs ==
    ASSUME NEW p \in FCPort, NEW x
    PROVE  /\ Effect(p, WithArg("load", [admin |-> x])) = [p EXCEPT !.admin = x]
           /\ Effect(p, WithArg("load", [mode |-> x])) = [p EXCEPT !.mode = x]
           /\ Effect(p, WithArg("load", [speedConfig |-> x])) = [p EXCEPT !.speedConfig = x]
           /\ Effect(p, WithArg("load", [allowed |-> x])) = [p EXCEPT !.allowed = x]
  <1>1. \A a : Effect(p, WithArg("load", a)) =
                  [f \in DOMAIN p |-> IF f \in DOMAIN a THEN a[f] ELSE p[f]]
    BY DEF Effect, WithArg
  <1>2. [f \in DOMAIN p |-> IF f \in DOMAIN [admin |-> x] THEN [admin |-> x][f] ELSE p[f]]
           = [p EXCEPT !.admin = x]
    BY DEF FCPort
  <1>3. [f \in DOMAIN p |-> IF f \in DOMAIN [mode |-> x] THEN [mode |-> x][f] ELSE p[f]]
           = [p EXCEPT !.mode = x]
    BY DEF FCPort
  <1>4. [f \in DOMAIN p |-> IF f \in DOMAIN [speedConfig |-> x] THEN [speedConfig |-> x][f]
                            ELSE p[f]]
           = [p EXCEPT !.speedConfig = x]
    BY DEF FCPort
  <1>5. [f \in DOMAIN p |-> IF f \in DOMAIN [allowed |-> x] THEN [allowed |-> x][f] ELSE p[f]]
           = [p EXCEPT !.allowed = x]
    BY DEF FCPort
  <1> QED BY Zenon, <1>1, <1>2, <1>3, <1>4, <1>5

LEMMA JoinedFive ==
    ASSUME NEW a, NEW b, NEW c, NEW d, NEW e
    PROVE  <<a, b, c, d>> \o <<e>> = <<a, b, c, d, e>>
  <1> DEFINE S == {a, b, c, d, e}
             q == <<a, b, c, d>> \o <<e>>
             r == <<a, b, c, d, e>>
  <1>1. /\ <<a, b, c, d>> \in Seq(S) /\ Len(<<a, b, c, d>>) = 4
        /\ <<e>> \in Seq(S) /\ Len(<<e>>) = 1
        /\ r \in Seq(S) /\ Len(r) = 5
    OBVIOUS
  <1>2. /\ q \in Seq(S) /\ Len(q) = 5 /\ q[1] = a /\ q[2] = b /\ q[3] = c /\ q[4] = d
        /\ q[5] = e
    BY <1>1, ConcatProperties
  <1> HIDE DEF q, S
  <1>3. \A i \in 1..5 : q[i] = r[i]
    BY <1>2
  <1> HIDE DEF r
  <1>4. q = r
    BY <1>1, <1>2, <1>3, SeqEqual
  <1> QED BY <1>4 DEF q, r

LEMMA ReloadEnds ==
    ASSUME NEW p \in FCPort, NEW cfg \in Boot
    PROVE  Finish(Call(p, ReloadSteps(cfg))) = Call(Reload(p, cfg), <<>>)
  <1> DEFINE a == WithArg("load", [admin |-> cfg.admin])
             b == WithArg("load", [mode |-> cfg.mode])
             c == WithArg("load", [speedConfig |-> AutoSpeed])
             d == WithArg("load", [allowed |-> cfg.allowed])
             e == WithArg("insert", cfg.sfp)
             p1 == [p EXCEPT !.admin = cfg.admin]
             p2 == [p1 EXCEPT !.mode = cfg.mode]
             p3 == [p2 EXCEPT !.speedConfig = AutoSpeed]
             p4 == [p3 EXCEPT !.allowed = cfg.allowed]
  <1>1. /\ cfg.admin \in {"up", "down"} /\ cfg.mode \in Mode /\ AutoSpeed \in Int
        /\ cfg.allowed \in SUBSET VSAN
    BY BootAssumption DEF PortConfig, AutoSpeed
  <1>2. ReloadSteps(cfg) = IF cfg.sfp = NoSfp THEN L4(a, b, c, d) ELSE L5(a, b, c, d, e)
    <2>1. ReloadSteps(cfg) = <<a, b, c, d>> \o (IF cfg.sfp = NoSfp THEN <<>> ELSE <<e>>)
      BY DEF ReloadSteps
    <2> HIDE DEF a, b, c, d, e
    <2>2. <<a, b, c, d>> \o <<>> = <<a, b, c, d>>
      OBVIOUS
    <2> QED BY Zenon, <2>1, <2>2, JoinedFive DEF L4, L5
  <1>3. Reload(p, cfg) = IF cfg.sfp = NoSfp THEN p4 ELSE InsertSfp(p4, cfg.sfp)
    BY DEF Reload
  <1>4. Effect(p, a) = p1 /\ p1 \in FCPort
    <2>1. p1 \in FCPort
      BY <1>1 DEF FCPort
    <2> QED BY Zenon, <2>1, LoadIs
  <1>5. Effect(p1, b) = p2 /\ p2 \in FCPort
    <2> HIDE DEF p1
    <2>1. p2 \in FCPort
      BY <1>1, <1>4 DEF FCPort
    <2> QED BY Zenon, <1>4, <2>1, LoadIs
  <1>6. Effect(p2, c) = p3 /\ p3 \in FCPort
    <2> HIDE DEF p2
    <2>1. p3 \in FCPort
      BY <1>1, <1>5 DEF FCPort
    <2> QED BY Zenon, <1>5, <2>1, LoadIs
  <1>7. Effect(p3, d) = p4
    <2> HIDE DEF p3
    <2> QED BY Zenon, <1>6, LoadIs
  <1>8. Effect(p4, e) = InsertSfp(p4, cfg.sfp)
    BY Zenon, FieldStepIs
  <1>9. \A q : /\ Unfold(q, a) = <<>> /\ Unfold(q, b) = <<>> /\ Unfold(q, c) = <<>>
               /\ Unfold(q, d) = <<>> /\ Unfold(q, e) = <<>>
    BY FieldStepIs
  <1>10. \A q : Onward(Call(q, <<>>)) = Call(q, <<>>)
    BY OnwardMore
  <1> HIDE DEF a, b, c, d, e, p1, p2, p3, p4
  <1>11. CASE cfg.sfp = NoSfp
    <2>1. /\ Onward(Call(p, L4(a, b, c, d))) = Call(p1, L3(b, c, d))
          /\ Onward(Call(p1, L3(b, c, d))) = Call(p2, L2(c, d))
          /\ Onward(Call(p2, L2(c, d))) = Call(p3, L1(d))
          /\ Onward(Call(p3, L1(d))) = Call(p4, <<>>)
      BY <1>4, <1>5, <1>6, <1>7, <1>9, OnwardFlat
    <2> QED BY <1>2, <1>3, <1>10, <1>11, <2>1 DEF Finish, TwiceOnward
  <1>12. CASE cfg.sfp # NoSfp
    <2>1. /\ Onward(Call(p, L5(a, b, c, d, e))) = Call(p1, L4(b, c, d, e))
          /\ Onward(Call(p1, L4(b, c, d, e))) = Call(p2, L3(c, d, e))
          /\ Onward(Call(p2, L3(c, d, e))) = Call(p3, L2(d, e))
          /\ Onward(Call(p3, L2(d, e))) = Call(p4, L1(e))
          /\ Onward(Call(p4, L1(e))) = Call(InsertSfp(p4, cfg.sfp), <<>>)
      BY <1>4, <1>5, <1>6, <1>7, <1>8, <1>9, OnwardFlat
    <2> QED BY <1>2, <1>3, <1>10, <1>12, <2>1 DEF Finish, TwiceOnward
  <1> QED BY <1>11, <1>12

\* _set and an assignment to another field, in either order
LEMMA SetOperCommutes ==
    ASSUME NEW p \in FCPort, NEW st \in PortState
    PROVE  /\ \A d \in Nat : [SetOper(p, st) EXCEPT !.domain = d]
                                = SetOper([p EXCEPT !.domain = d], st)
           /\ \A vs \in SUBSET VSAN : [SetOper(p, st) EXCEPT !.negotiated = vs]
                                         = SetOper([p EXCEPT !.negotiated = vs], st)
           /\ \A m \in TrunkStatus : [SetOper(p, st) EXCEPT !.status = m]
                                        = SetOper([p EXCEPT !.status = m], st)
           /\ \A i \in BOOLEAN : [SetOper(p, st) EXCEPT !.isolated = i]
                                    = SetOper([p EXCEPT !.isolated = i], st)
           /\ \A s : SetOper(SetOper(p, st), s) = SetOper(p, s)
  <1>1. \A d \in Nat : [SetOper(p, st) EXCEPT !.domain = d]
                          = SetOper([p EXCEPT !.domain = d], st)
    BY DEF SetOper, FCPort
  <1>2. \A vs \in SUBSET VSAN : [SetOper(p, st) EXCEPT !.negotiated = vs]
                                   = SetOper([p EXCEPT !.negotiated = vs], st)
    BY DEF SetOper, FCPort
  <1>3. \A m \in TrunkStatus : [SetOper(p, st) EXCEPT !.status = m]
                                  = SetOper([p EXCEPT !.status = m], st)
    BY DEF SetOper, FCPort
  <1>4. \A i \in BOOLEAN : [SetOper(p, st) EXCEPT !.isolated = i]
                              = SetOper([p EXCEPT !.isolated = i], st)
    BY DEF SetOper, FCPort
  <1>5. \A s : SetOper(SetOper(p, st), s) = SetOper(p, s)
    BY DEF SetOper, FCPort
  <1> QED BY <1>1, <1>2, <1>3, <1>4, <1>5

\* elp_success
LEMMA ElpEnds ==
    ASSUME NEW p \in FCPort, NEW dom \in Domain, NEW vs \in SUBSET VSAN
    PROVE  Finish(Call(p, ElpSteps(dom, vs))) = Call(ElpSuccess(p, dom, vs), <<>>)
  <1> DEFINE x == [domain |-> dom, vsans |-> vs]
             st == [v \in p.allowed |-> IF v \in vs THEN "up" ELSE "isolated"]
             y == [vsans |-> vs, allowed |-> p.allowed]
             m == "DOMAIN_MERGE"
             o == Outcome(vs)
             d1 == [p EXCEPT !.domain = dom]
             d2 == [d1 EXCEPT !.negotiated = vs]
             d3 == [d2 EXCEPT !.status = st]
             d4 == [d3 EXCEPT !.isolated = (vs = {})]
  <1>1. /\ x \in MergeArg /\ x.vsans = vs /\ x.domain = dom /\ dom \in Nat
        /\ m \in PortState /\ o \in PortState
    BY BoundAssumption, Heads DEF MergeArg
  <1>2. st \in TrunkStatus
    <2>1. st \in [p.allowed -> {"up", "isolated"}] /\ p.allowed \in SUBSET VSAN
      BY DEF FCPort
    <2> QED BY <2>1 DEF TrunkStatus
  <1>3. d1 \in FCPort /\ d1.mode = p.mode /\ d1.allowed = p.allowed
    BY <1>1 DEF FCPort
  <1>4. d2 \in FCPort
    <2> HIDE DEF d1
    <2> QED BY <1>3 DEF FCPort
  <1>5. d3 \in FCPort
    <2> HIDE DEF d2, st
    <2> QED BY <1>2, <1>4 DEF FCPort
  <1>6. d4 \in FCPort
    <2> HIDE DEF d3
    <2> QED BY <1>5 DEF FCPort
  <1>7. ElpSuccess(p, dom, vs) = IF p.mode = "TE" THEN SetOper(d4, o) ELSE SetOper(d1, "UP")
    <2>1. TrunkResult(d1, vs) = d4
      <3> HIDE DEF d1
      <3> QED BY <1>3 DEF TrunkResult
    <2>2. d1.mode = p.mode
      BY <1>3
    <2> QED BY <2>1, <2>2 DEF ElpSuccess, Outcome
  <1>8. ElpSteps(dom, vs) = L2(Set(m), WithArg("domain", x))
    BY DEF ElpSteps, L2
  <1>9. \A q : Onward(Call(q, <<>>)) = Call(q, <<>>)
    BY OnwardMore
  <1> DEFINE p1 == SetOper(p, m)
  <1>10. Onward(Call(p, L2(Set(m), WithArg("domain", x)))) = Call(p1, L1(WithArg("domain", x)))
    <2> HIDE DEF x, m
    <2> QED BY SetIs, OnwardFlat
  <1>11. p1 \in FCPort /\ p1.mode = p.mode /\ p1.allowed = p.allowed
    <2> HIDE DEF m
    <2> QED BY <1>1 DEF SetOper, FCPort
  <1>12. [p1 EXCEPT !.domain = dom] = SetOper(d1, m)
    <2> HIDE DEF m
    <2> QED BY <1>1, SetOperCommutes
  <1>13. CASE p.mode = "TE"
    <2>1. Unfold(p1, WithArg("domain", x)) = L2(WithArg("trunk", y), Set(o))
      <3>1. Unfold(p1, WithArg("domain", x)) = AfterMerge(p1, vs)
        BY DEF Unfold, WithArg
      <3> HIDE DEF p1
      <3> QED BY <1>11, <1>13, <3>1 DEF AfterMerge, Outcome, L2
    <2>2. Effect(p1, WithArg("domain", x)) = SetOper(d2, m)
      <3>1. Effect(p1, WithArg("domain", x)) = [p1 EXCEPT !.domain = dom, !.negotiated = vs]
        <4> HIDE DEF p1
        <4> QED BY <1>11, <1>13 DEF Effect, WithArg
      <3>2. [p1 EXCEPT !.domain = dom, !.negotiated = vs]
               = [[p1 EXCEPT !.domain = dom] EXCEPT !.negotiated = vs]
        OBVIOUS
      <3>3. [SetOper(d1, m) EXCEPT !.negotiated = vs] = SetOper(d2, m)
        <4> HIDE DEF d1, m
        <4> QED BY <1>1, <1>3, SetOperCommutes
      <3> QED BY Zenon, <1>12, <3>1, <3>2, <3>3
    <2> DEFINE p2 == SetOper(d2, m)
               p3 == SetOper(d4, m)
    <2>3. Effect(p2, WithArg("trunk", y)) = p3 /\ Unfold(p2, WithArg("trunk", y)) = <<>>
      <3>1. Effect(p2, WithArg("trunk", y)) = [p2 EXCEPT !.status = st, !.isolated = (vs = {})]
        <4> HIDE DEF p2
        <4> QED BY DEF Effect, WithArg
      <3>2. [p2 EXCEPT !.status = st, !.isolated = (vs = {})]
               = [[p2 EXCEPT !.status = st] EXCEPT !.isolated = (vs = {})]
        OBVIOUS
      <3>3. [SetOper(d2, m) EXCEPT !.status = st] = SetOper(d3, m)
        <4> HIDE DEF d2, st, m
        <4> QED BY <1>1, <1>2, <1>4, SetOperCommutes
      <3>4. [SetOper(d3, m) EXCEPT !.isolated = (vs = {})] = p3
        <4> HIDE DEF d3, m
        <4> QED BY <1>1, <1>5, SetOperCommutes
      <3>5. Unfold(p2, WithArg("trunk", y)) = <<>>
        BY Zenon, FieldStepIs
      <3> QED BY Zenon, <3>1, <3>2, <3>3, <3>4, <3>5
    <2>4. SetOper(p3, o) = SetOper(d4, o)
      <3> HIDE DEF d4, m, o
      <3> QED BY <1>1, <1>6, SetOperCommutes
    <2> HIDE DEF p1, p2, p3, d1, d2, d4, x, y, m, o
    <2>5. /\ Onward(Call(p1, L1(WithArg("domain", x)))) = Call(p2, L2(WithArg("trunk", y), Set(o)))
          /\ Onward(Call(p2, L2(WithArg("trunk", y), Set(o)))) = Call(p3, L1(Set(o)))
          /\ Onward(Call(p3, L1(Set(o)))) = Call(SetOper(d4, o), <<>>)
      <3>1. Effect(p1, WithArg("domain", x)) = p2
        BY <2>2 DEF p2
      <3> QED BY <2>1, <2>3, <2>4, <3>1, SetIs, OnwardFlat, OnwardMore
    <2> QED BY <1>7, <1>8, <1>9, <1>10, <1>13, <2>5 DEF Finish, TwiceOnward
  <1>14. CASE p.mode # "TE"
    <2> DEFINE p2 == SetOper(d1, m)
    <2>1. Unfold(p1, WithArg("domain", x)) = L1(Set("UP"))
      <3>1. Unfold(p1, WithArg("domain", x)) = AfterMerge(p1, vs)
        BY DEF Unfold, WithArg
      <3> HIDE DEF p1
      <3> QED BY <1>11, <1>14, <3>1 DEF AfterMerge, L1
    <2>2. Effect(p1, WithArg("domain", x)) = p2
      <3>1. Effect(p1, WithArg("domain", x)) = [p1 EXCEPT !.domain = dom]
        <4> HIDE DEF p1
        <4> QED BY <1>11, <1>14 DEF Effect, WithArg
      <3> QED BY Zenon, <1>12, <3>1
    <2>3. SetOper(p2, "UP") = SetOper(d1, "UP")
      <3> HIDE DEF d1, m
      <3> QED BY <1>1, <1>3, SetOperCommutes
    <2> HIDE DEF p1, p2, d1, x, m
    <2>4. /\ Onward(Call(p1, L1(WithArg("domain", x)))) = Call(p2, L1(Set("UP")))
          /\ Onward(Call(p2, L1(Set("UP")))) = Call(SetOper(d1, "UP"), <<>>)
      BY <2>1, <2>2, <2>3, SetIs, OnwardFlat, OnwardMore
    <2> QED BY <1>7, <1>8, <1>9, <1>10, <1>14, <2>4 DEF Finish, TwiceOnward
  <1> QED BY <1>13, <1>14


Comes(t, q) == \E steps : Begin(t, steps) /\ Finish(Call(port, steps)) = Call(q, <<>>)

LEMMA CallEnds ==
    ASSUME port \in FCPort, NEW t
    PROVE  /\ CliCall(t) => \E q \in Configured(port) : Comes(t, q)
           /\ InstructorCall(t) => \E q \in Faulted(port) : Comes(t, q)
           /\ BusCall(t) => \E q \in Signalled(port) : Comes(t, q)
  <1>1. ASSUME CliCall(t)
        PROVE  \E q \in Configured(port) : Comes(t, q)
    <2>1. CASE Begin(t, ShutdownSteps)
      <3>1. Comes(t, AdminDown(port))
        BY <2>1, AdminEnds DEF Comes
      <3> QED BY <3>1 DEF Configured
    <2>2. CASE Begin(t, NoShutdownSteps)
      <3>1. Comes(t, NoShutdown(port))
        BY <2>2, AdminEnds DEF Comes
      <3> QED BY <3>1 DEF Configured
    <2>3. ASSUME NEW m \in {"auto", "F", "E", "TE"}, Begin(t, <<WithArg("mode", m)>>)
          PROVE  \E q \in Configured(port) : Comes(t, q)
      <3>1. Comes(t, SetMode(port, m))
        BY Zenon, <2>3, FieldEnds DEF Comes
      <3> QED BY <2>3, <3>1 DEF Configured
    <2>4. ASSUME NEW vs \in (SUBSET VSAN) \ {{}}, Begin(t, <<WithArg("allowed", vs)>>)
          PROVE  \E q \in Configured(port) : Comes(t, q)
      <3>1. Comes(t, SetTrunkAllowed(port, vs))
        BY Zenon, <2>4, FieldEnds DEF Comes
      <3> QED BY <2>4, <3>1 DEF Configured
    <2>5. ASSUME NEW g \in Generation, NEW s \in Supported(g), Begin(t, <<WithArg("speed", s)>>)
          PROVE  \E q \in Configured(port) : Comes(t, q)
      <3>1. Comes(t, SetSpeed(port, s))
        BY Zenon, <2>5, FieldEnds DEF Comes
      <3>2. s \in UNION {Supported(h) : h \in Generation}
        OBVIOUS
      <3> QED BY <3>1, <3>2 DEF Configured
    <2>6. ASSUME NEW cfg \in Boot, Begin(t, ReloadSteps(cfg))
          PROVE  \E q \in Configured(port) : Comes(t, q)
      <3>1. Comes(t, Reload(port, cfg))
        BY Zenon, <2>6, ReloadEnds DEF Comes
      <3> QED BY <2>6, <3>1 DEF Configured
    <2> QED BY <1>1, <2>1, <2>2, <2>3, <2>4, <2>5, <2>6 DEF CliCall
  <1>2. ASSUME InstructorCall(t)
        PROVE  \E q \in Faulted(port) : Comes(t, q)
    <2>1. CASE Begin(t, UnplugSteps)
      <3>1. Comes(t, UnplugSfp(port))
        BY <2>1, FaultEnds DEF Comes
      <3> QED BY <3>1 DEF Faulted
    <2>2. CASE Begin(t, LinkLostSteps)
      <3>1. Comes(t, LinkLost(port))
        BY <2>2, FaultEnds DEF Comes
      <3> QED BY <3>1 DEF Faulted
    <2>3. ASSUME NEW g \in Generation, Begin(t, InsertSteps(g))
          PROVE  \E q \in Faulted(port) : Comes(t, q)
      <3>1. Comes(t, PlugSfp(port, g))
        BY <2>3, FaultEnds DEF Comes
      <3> QED BY <2>3, <3>1 DEF Faulted
    <2> QED BY <1>2, <2>1, <2>2, <2>3 DEF InstructorCall
  <1>3. ASSUME BusCall(t)
        PROVE  \E q \in Signalled(port) : Comes(t, q)
    <2>1. CASE Begin(t, SignalSteps)
      <3>1. Comes(t, LinkSignalDetected(port))
        BY <2>1, FaultEnds DEF Comes
      <3> QED BY <3>1 DEF Signalled
    <2>2. CASE Begin(t, LinkLostSteps)
      <3>1. Comes(t, LinkLost(port))
        BY <2>2, FaultEnds DEF Comes
      <3> QED BY <3>1 DEF Signalled
    <2>3. ASSUME NEW dom \in Domain, NEW vs \in SUBSET VSAN, Begin(t, ElpSteps(dom, vs))
          PROVE  \E q \in Signalled(port) : Comes(t, q)
      <3>1. Comes(t, ElpSuccess(port, dom, vs))
        BY <2>3, ElpEnds DEF Comes
      <3> QED BY <2>3, <3>1 DEF Signalled
    <2> QED BY <1>3, <2>1, <2>2, <2>3 DEF BusCall
  <1> QED BY <1>1, <1>2, <1>3

LEMMA CallIsWhole ==
    ASSUME NEW c, NEW q, c = Call(q, <<>>)
    PROVE  c.left = <<>> /\ c.port = q
  BY DEF Call

\* Whatever the others have made of the port, a call that runs without
\* interruption ends within eight steps and does what FabricBus takes it to do
THEOREM CallsAddUpHolds == Spec => CallsAddUp
  <1> DEFINE AddsUp(t) ==
                LET end == Finish(Call(port, todo'[t]))
                IN  /\ end.left = <<>>
                    /\ \/ t \in Cli /\ end.port \in Configured(port)
                       \/ t \in Instructor /\ end.port \in Faulted(port)
                       \/ t \in Bus /\ end.port \in Signalled(port)
             Begun == \A t \in Thread : todo[t] = <<>> /\ todo'[t] # <<>> => AddsUp(t)
  <1>1. IInv /\ [Next]_vars => [Begun]_vars
    <2> SUFFICES ASSUME IInv, Next, NEW t \in Thread, todo[t] = <<>>, todo'[t] # <<>>
                 PROVE  AddsUp(t)
      BY Zenon
    <2>1. port \in FCPort /\ Assigned
      BY DEF IInv
    <2>2. \A steps : \A u \in Thread : u # t => ~Begin(u, steps)
      BY <2>1 DEF Begin, Assigned
    <2>3. \A u \in Thread : ~Continue(u)
      <3> SUFFICES ASSUME NEW u \in Thread, Continue(u) PROVE FALSE
        OBVIOUS
      <3>1. u # t
        BY DEF Continue
      <3> QED BY <2>1, <3>1, ContinueStep
    <2>4. \A q : \A u \in Thread : Comes(u, q) => u = t
      BY <2>2 DEF Comes
    <2>5. \/ t \in Cli /\ \E q \in Configured(port) : Comes(t, q)
          \/ t \in Instructor /\ \E q \in Faulted(port) : Comes(t, q)
          \/ t \in Bus /\ \E q \in Signalled(port) : Comes(t, q)
      <3>1. PICK u \in Thread : \/ u \in Cli /\ CliCall(u)
                                \/ u \in Instructor /\ InstructorCall(u)
                                \/ u \in Bus /\ BusCall(u)
        BY <2>3 DEF Next, Thread
      <3>2. \/ u \in Cli /\ \E q \in Configured(port) : Comes(u, q)
            \/ u \in Instructor /\ \E q \in Faulted(port) : Comes(u, q)
            \/ u \in Bus /\ \E q \in Signalled(port) : Comes(u, q)
        BY <2>1, <3>1, CallEnds
      <3>3. u = t
        BY <2>4, <3>2
      <3> QED BY <3>2, <3>3
    <2>6. ASSUME NEW q, Comes(t, q)
          PROVE  Finish(Call(port, todo'[t])).left = <<>> /\ Finish(Call(port, todo'[t])).port = q
      <3>1. PICK steps : Begin(t, steps) /\ Finish(Call(port, steps)) = Call(q, <<>>)
        BY <2>6 DEF Comes
      <3>2. todo'[t] = steps
        BY <2>1, <3>1 DEF Begin, Assigned
      <3>3. Finish(Call(port, todo'[t])) = Call(q, <<>>)
        BY <3>1, <3>2
      <3> QED BY <3>3, CallIsWhole
    <2> QED BY <2>5, <2>6
  <1> QED BY <1>1, Invariance, PTL DEF Spec, CallsAddUp
==============================================================================
