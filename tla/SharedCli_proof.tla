-------------------------- MODULE SharedCli_proof --------------------------
(***************************************************************************)
(* Proofs about the shared command line, for any ports, VSANs, zones,      *)
(* scripts and clients: every invariant the runs check.                    *)
(*                                                                         *)
(* The properties say what holds between lines.  IInv adds what holds      *)
(* within one: a handler that works on the zone of the context was chosen  *)
(* when there was one, and a zone, once named, is never un-named (Named);  *)
(* a session that names a zone while no other does, finds its names in the *)
(* context when it has created the zone (Naming); a port whose VSAN does   *)
(* not list it yet is in the hands of a session that will see to it        *)
(* (Listing), and so a VSAN that one session alone creates lists nothing   *)
(* that its store could throw away (Sole).                                 *)
(***************************************************************************)
EXTENDS SharedCli, TLAPS

\* What a handler of mode m needs of the context
Names(m) ==
    /\ m = "config-zone"    => ctx.vsan # None /\ ctx.zone # None
    /\ m = "config-zoneset" => ctx.vsan # None /\ ctx.zoneset # None

Named ==
    /\ Names(ctx.mode)
    /\ \A c \in Client : at[c].pc = "handle" => Names(at[c].mode)
    /\ \A c \in Client : at[c].pc = "create" =>
          /\ at[c].cmd.op \in {"zone", "zoneset"}
          /\ at[c].cmd.op = "zone"    => Names("config-zone")
          /\ at[c].cmd.op = "zoneset" => Names("config-zoneset")

\* A session that names a zone while no other does
Naming ==
    ~crossed => \A c \in Client : at[c].pc = "create" =>
        /\ \A d \in Client \ {c} : at[d].pc # "create"
        /\ ctx.vsan = at[c].cmd.vsan
        /\ at[c].cmd.op = "zone"    => ctx.zone = at[c].cmd.zone
        /\ at[c].cmd.op = "zoneset" => ctx.zoneset = at[c].cmd.zoneset

\* The VSAN of a port lists it, or "vsan N" is half done
Listing ==
    \A p \in Port : vsanOf[p] \notin {1} \union contested =>
        \/ vsanOf[p] \in vsans /\ <<vsanOf[p], p>> \in listed
        \/ \E c \in Client : /\ at[c].pc \in {"assign", "store"}
                             /\ at[c].port = p /\ at[c].vsan = vsanOf[p]

\* A VSAN that is not contested and about to be stored does not exist, and one
\* session is about to store it
Sole ==
    \A c \in Client : at[c].pc = "store" /\ at[c].vsan \notin contested =>
        /\ at[c].vsan \notin vsans
        /\ \A d \in Client \ {c} : ~(at[d].pc = "store" /\ at[d].vsan = at[c].vsan)

\* What the databases hold
Databases == Listing /\ Sole /\ ActiveExists

FabricType ==
    /\ vsans \subseteq Vsan
    /\ listed \subseteq Vsan \X Port
    /\ vsanOf \in [Port -> Vsan]
    /\ zones \subseteq Vsan \X Zone
    /\ members \subseteq Vsan \X Zone \X (Pwwn \union Zone)
    /\ zonesets \subseteq Vsan \X Zoneset
    /\ included \subseteq Vsan \X Zoneset \X (Zone \union {"pwwn"})
    /\ active \subseteq Vsan \X Zoneset
    /\ contested \subseteq Vsan

LineType ==
    /\ ctx \in CLIContext
    /\ at \in [Client -> Place]
    /\ todo \in [Client -> Seq(Command)]
    /\ crossed \in BOOLEAN
    /\ requests \in 0..MaxRequests

IInv == FabricType /\ LineType /\ InterfaceKnown /\ Named /\ Naming /\ ZoneKnown /\ Databases

-----------------------------------------------------------------------------
(* Commands, places and contexts *)

LEMMA CommandKinds ==
    ASSUME NEW cmd \in Command
    PROVE  /\ cmd.op = "interface" => cmd.port \in Port
           /\ cmd.op = "vsan"      => cmd.vsan \in Vsan
           /\ cmd.op = "zone"      => cmd.vsan \in Vsan /\ cmd.zone \in Zone
           /\ cmd.op = "zoneset"   => cmd.vsan \in Vsan /\ cmd.zoneset \in Zoneset
           /\ cmd.op = "activate"  => cmd.vsan \in Vsan /\ cmd.zoneset \in Zoneset
           /\ cmd.op = "member"    => cmd.member \in Pwwn \union Zone
  BY DEF Command, Plain

LEMMA PlaceKinds ==
    ASSUME NEW x \in Place
    PROVE  /\ x.pc \in {"idle", "handle", "create", "assign", "store"}
           /\ x.pc = "idle" <=> x = Idle
           /\ x.pc \in {"handle", "create"} =>
                 /\ x \in [pc : {"handle", "create"}, mode : CliMode, cmd : Command]
                 /\ x.mode \in CliMode /\ x.cmd \in Command
           /\ x.pc = "assign" => x.port \in Port /\ x.vsan \in Vsan
           /\ x.pc = "store"  => x.port \in Port \union {None} /\ x.vsan \in Vsan
  BY DEF Place, Idle

LEMMA PlacesMade ==
    /\ Idle \in Place /\ Idle.pc = "idle"
    /\ \A m \in CliMode, cmd \in Command :
          [pc |-> "handle", mode |-> m, cmd |-> cmd] \in Place
    /\ \A p \in Port, v \in Vsan : [pc |-> "assign", port |-> p, vsan |-> v] \in Place
    /\ \A p \in Port \union {None}, v \in Vsan :
          [pc |-> "store", port |-> p, vsan |-> v] \in Place
    /\ \A x \in Place : x.pc = "handle" =>
          LET y == [x EXCEPT !.pc = "create"]
          IN  y \in Place /\ y.pc = "create" /\ y.cmd = x.cmd
  BY DEF Place, Idle

LEMMA Table ==
    ASSUME NEW t \in Transition
    PROVE  \/ t[1] = "exec" /\ t[2] = "configure" /\ t[3] = "config"
           \/ t[1] = "config" /\ t[2] = "interface" /\ t[3] = "config-if"
           \/ t[1] = "config" /\ t[2] = "vsan database" /\ t[3] = "config-vsan-db"
           \/ t[1] = "config" /\ t[2] = "zone" /\ t[3] = "config-zone"
           \/ t[1] = "config" /\ t[2] = "zoneset" /\ t[3] = "config-zoneset"
           \/ t[1] = "config" /\ t[2] = "end" /\ t[3] = "exec"
           \/ t[1] = "config" /\ t[2] = "exit" /\ t[3] = "exec"
           \/ t[1] = "config-if" /\ t[2] = "exit" /\ t[3] = "config"
           \/ t[1] = "config-vsan-db" /\ t[2] = "exit" /\ t[3] = "config"
           \/ t[1] = "config-zone" /\ t[2] = "exit" /\ t[3] = "config"
           \/ t[1] = "config-zoneset" /\ t[2] = "exit" /\ t[3] = "config"
  <1>1. \/ t = <<"exec", "configure", "config">>
        \/ t = <<"config", "interface", "config-if">>
        \/ t = <<"config", "vsan database", "config-vsan-db">>
        \/ t = <<"config", "zone", "config-zone">>
        \/ t = <<"config", "zoneset", "config-zoneset">>
        \/ t = <<"config", "end", "exec">>
        \/ t = <<"config", "exit", "exec">>
        \/ t = <<"config-if", "exit", "config">>
        \/ t = <<"config-vsan-db", "exit", "config">>
        \/ t = <<"config-zone", "exit", "config">>
        \/ t = <<"config-zoneset", "exit", "config">>
    BY Zenon DEF Transition, ExecTransition, ConfigTransition, ExitTransition
  <1>2. \A a, b, c : t = <<a, b, c>> => t[1] = a /\ t[2] = b /\ t[3] = c
    OBVIOUS
  <1> QED BY <1>1, <1>2, Zenon

\* Where a transition leads
LEMMA Targets ==
    \A t \in Transition : \A current : Target(t[1], t[2], current) = t[3]
  <1> SUFFICES ASSUME NEW t \in Transition, NEW current
               PROVE  Target(t[1], t[2], current) = t[3]
    OBVIOUS
  <1>1. <<t[1], t[2]>> \in Moves
    BY DEF Moves
  <1>2. \A u \in Transition : u[1] = t[1] /\ u[2] = t[2] => u[3] = t[3]
    BY Table
  <1>3. (CHOOSE u \in Transition : u[1] = t[1] /\ u[2] = t[2])[3] = t[3]
    BY <1>2
  <1> QED BY <1>1, <1>3 DEF Target

LEMMA MovesAre ==
    ASSUME NEW m, NEW op, <<m, op>> \in Moves
    PROVE  \E t \in Transition : m = t[1] /\ op = t[2]
  BY DEF Moves

LEMMA ContextFields ==
    ASSUME NEW x \in CLIContext
    PROVE  /\ \A m \in CliMode :
                 LET y == [x EXCEPT !.mode = m]
                 IN  /\ y \in CLIContext /\ y.mode = m /\ y.interface = x.interface
                     /\ y.vsan = x.vsan /\ y.zone = x.zone /\ y.zoneset = x.zoneset
           /\ \A p \in Port \union {None} :
                 LET y == [x EXCEPT !.interface = p]
                 IN  /\ y \in CLIContext /\ y.mode = x.mode /\ y.interface = p
                     /\ y.vsan = x.vsan /\ y.zone = x.zone /\ y.zoneset = x.zoneset
           /\ \A v \in Vsan :
                 LET y == [x EXCEPT !.vsan = v]
                 IN  /\ y \in CLIContext /\ y.mode = x.mode /\ y.interface = x.interface
                     /\ y.vsan = v /\ y.zone = x.zone /\ y.zoneset = x.zoneset
           /\ \A z \in Zone :
                 LET y == [x EXCEPT !.zone = z]
                 IN  /\ y \in CLIContext /\ y.mode = x.mode /\ y.interface = x.interface
                     /\ y.vsan = x.vsan /\ y.zone = z /\ y.zoneset = x.zoneset
           /\ \A s \in Zoneset :
                 LET y == [x EXCEPT !.zoneset = s]
                 IN  /\ y \in CLIContext /\ y.mode = x.mode /\ y.interface = x.interface
                     /\ y.vsan = x.vsan /\ y.zone = x.zone /\ y.zoneset = s
  BY DEF CLIContext

\* "zone name" and "zoneset name" in the context
LEMMA ZoneSelected ==
    ASSUME NEW x \in CLIContext, NEW cmd \in Command, cmd.op \in {"zone", "zoneset"}
    PROVE  LET y == Select("config", cmd, x)
           IN  /\ y \in CLIContext /\ y.mode = x.mode /\ y.interface = x.interface
               /\ y.vsan # None /\ y.vsan = cmd.vsan
               /\ cmd.op = "zone"    => /\ y.zone # None /\ y.zone = cmd.zone
                                        /\ y.zoneset = x.zoneset
               /\ cmd.op = "zoneset" => /\ y.zoneset # None /\ y.zoneset = cmd.zoneset
                                        /\ y.zone = x.zone
  <1> DEFINE y == Select("config", cmd, x)
  <1>1. CASE cmd.op = "zone"
    <2> DEFINE z == [x EXCEPT !.zone = cmd.zone]
    <2>1. cmd.vsan \in Vsan /\ cmd.zone \in Zone /\ cmd.vsan # None /\ cmd.zone # None
      BY <1>1, CommandKinds, NoneAssumption
    <2>2. y = [z EXCEPT !.vsan = cmd.vsan]
      BY <1>1 DEF Select
    <2>3. /\ z \in CLIContext /\ z.mode = x.mode /\ z.interface = x.interface
          /\ z.zone = cmd.zone /\ z.zoneset = x.zoneset
      BY <2>1, ContextFields
    <2> HIDE DEF z, y
    <2>4. /\ y \in CLIContext /\ y.mode = z.mode /\ y.interface = z.interface
          /\ y.vsan = cmd.vsan /\ y.zone = z.zone /\ y.zoneset = z.zoneset
      BY <2>1, <2>2, <2>3, ContextFields
    <2>5. /\ y \in CLIContext /\ y.mode = x.mode /\ y.interface = x.interface
          /\ y.vsan # None /\ y.vsan = cmd.vsan
          /\ y.zone # None /\ y.zone = cmd.zone /\ y.zoneset = x.zoneset
      BY <2>1, <2>3, <2>4
    <2> QED BY <1>1, <2>5 DEF y
  <1>2. CASE cmd.op = "zoneset"
    <2> DEFINE z == [x EXCEPT !.zoneset = cmd.zoneset]
    <2>1. /\ cmd.vsan \in Vsan /\ cmd.zoneset \in Zoneset
          /\ cmd.vsan # None /\ cmd.zoneset # None
      BY <1>2, CommandKinds, NoneAssumption
    <2>2. y = [z EXCEPT !.vsan = cmd.vsan]
      BY <1>2 DEF Select
    <2>3. /\ z \in CLIContext /\ z.mode = x.mode /\ z.interface = x.interface
          /\ z.zone = x.zone /\ z.zoneset = cmd.zoneset
      BY <2>1, ContextFields
    <2> HIDE DEF z, y
    <2>4. /\ y \in CLIContext /\ y.mode = z.mode /\ y.interface = z.interface
          /\ y.vsan = cmd.vsan /\ y.zone = z.zone /\ y.zoneset = z.zoneset
      BY <2>1, <2>2, <2>3, ContextFields
    <2>5. /\ y \in CLIContext /\ y.mode = x.mode /\ y.interface = x.interface
          /\ y.vsan # None /\ y.vsan = cmd.vsan
          /\ y.zoneset # None /\ y.zoneset = cmd.zoneset /\ y.zone = x.zone
      BY <2>1, <2>3, <2>4
    <2> QED BY <1>2, <2>5 DEF y
  <1> QED BY <1>1, <1>2

\* Every other command selects an interface, forgets it, or neither
LEMMA InterfaceSelected ==
    ASSUME NEW x \in CLIContext, NEW m, NEW cmd \in Command,
           ~(m = "config" /\ cmd.op \in {"zone", "zoneset"})
    PROVE  LET y == Select(m, cmd, x)
           IN  /\ y \in CLIContext /\ y.mode = x.mode
               /\ y.vsan = x.vsan /\ y.zone = x.zone /\ y.zoneset = x.zoneset
               /\ m = "config" /\ cmd.op = "interface" => y.interface # None
               /\ <<m, cmd.op>> \notin Moves => y = x
  <1> DEFINE y == Select(m, cmd, x)
  <1>1. /\ <<"config", "interface">> \in Moves /\ <<"config-if", "exit">> \in Moves
    <2>1. /\ <<"config", "interface", "config-if">> \in Transition
          /\ <<"config-if", "exit", "config">> \in Transition
      BY DEF Transition, ConfigTransition, ExitTransition
    <2>2. \A a, b, d : <<a, b, d>> \in Transition => <<a, b>> \in Moves
      BY DEF Moves
    <2> QED BY <2>1, <2>2
  <1>2. CASE m = "config" /\ cmd.op = "interface"
    <2>1. cmd.port \in Port /\ cmd.port # None
      BY <1>2, CommandKinds, NoneAssumption
    <2>2. y = [x EXCEPT !.interface = cmd.port]
      BY <1>2 DEF Select
    <2>3. <<m, cmd.op>> \in Moves
      BY <1>1, <1>2
    <2> HIDE DEF y
    <2>4. /\ y \in CLIContext /\ y.mode = x.mode /\ y.interface = cmd.port
          /\ y.vsan = x.vsan /\ y.zone = x.zone /\ y.zoneset = x.zoneset
      BY <2>1, <2>2, ContextFields
    <2> QED BY <2>1, <2>3, <2>4 DEF y
  <1>3. CASE m = "config-if" /\ cmd.op = "exit"
    <2>1. y = [x EXCEPT !.interface = None]
      BY <1>3 DEF Select
    <2>2. <<m, cmd.op>> \in Moves
      BY <1>1, <1>3
    <2> HIDE DEF y
    <2>3. /\ y \in CLIContext /\ y.mode = x.mode
          /\ y.vsan = x.vsan /\ y.zone = x.zone /\ y.zoneset = x.zoneset
      BY <2>1, ContextFields
    <2> QED BY <1>3, <2>2, <2>3 DEF y
  <1>4. CASE ~(m = "config" /\ cmd.op = "interface") /\ ~(m = "config-if" /\ cmd.op = "exit")
    <2>1. y = x
      BY <1>4 DEF Select
    <2> QED BY <1>4, <2>1
  <1> QED BY <1>2, <1>3, <1>4

\* What Navigate makes of a context
LEMMA Navigated ==
    ASSUME NEW x \in CLIContext, NEW m, NEW cmd \in Command,
           <<m, cmd.op>> \in Moves, cmd.op \notin {"zone", "zoneset"}
    PROVE  LET y == Move(m, cmd, x)
           IN  /\ y \in CLIContext
               /\ y.mode \in {"exec", "config", "config-if", "config-vsan-db"}
               /\ y.mode = "config-if" => y.interface # None
               /\ y.vsan = x.vsan /\ y.zone = x.zone /\ y.zoneset = x.zoneset
  <1> DEFINE s == Select(m, cmd, x)
             y == Move(m, cmd, x)
  <1>1. PICK t \in Transition : m = t[1] /\ cmd.op = t[2]
    BY MovesAre
  <1>2. y = [s EXCEPT !.mode = t[3]]
    BY <1>1, Targets DEF Move
  <1>3. /\ t[3] \in {"exec", "config", "config-if", "config-vsan-db"} /\ t[3] \in CliMode
        /\ t[3] = "config-if" => m = "config" /\ cmd.op = "interface"
    BY <1>1, Table DEF CliMode
  <1>4. /\ s \in CLIContext /\ s.vsan = x.vsan /\ s.zone = x.zone /\ s.zoneset = x.zoneset
        /\ m = "config" /\ cmd.op = "interface" => s.interface # None
    BY InterfaceSelected
  <1> HIDE DEF s, y
  <1>5. /\ y \in CLIContext /\ y.mode = t[3] /\ y.interface = s.interface
        /\ y.vsan = s.vsan /\ y.zone = s.zone /\ y.zoneset = s.zoneset
    BY <1>2, <1>3, <1>4, ContextFields
  <1> QED BY <1>3, <1>4, <1>5 DEF y

-----------------------------------------------------------------------------
(* What a step of client c leaves to the others *)

\* Zones and interfaces of a context are never un-named
LEMMA NamedKept ==
    ASSUME Named, NEW c \in Client,
           ctx.vsan # None => ctx'.vsan # None,
           ctx.zone # None => ctx'.zone # None,
           ctx.zoneset # None => ctx'.zoneset # None,
           Names(ctx.mode)',
           \A d \in Client : d # c => at'[d] = at[d],
           at'[c].pc # "handle",
           at'[c].pc = "create" =>
              /\ at'[c].cmd.op \in {"zone", "zoneset"}
              /\ at'[c].cmd.op = "zone"    => Names("config-zone")'
              /\ at'[c].cmd.op = "zoneset" => Names("config-zoneset")'
    PROVE  Named'
  BY DEF Named, Names

\* Steps other than those of naming
LEMMA NamingKept ==
    ASSUME Naming, ZoneKnown, NEW c \in Client,
           at[c].pc # "create", at'[c].pc # "create",
           \A d \in Client : d # c => at'[d] = at[d],
           ctx'.vsan = ctx.vsan, ctx'.zone = ctx.zone, ctx'.zoneset = ctx.zoneset,
           ctx'.mode \in {"config-zone", "config-zoneset"} => ctx'.mode = ctx.mode,
           zones \subseteq zones', zonesets \subseteq zonesets', crossed' = crossed
    PROVE  Naming' /\ ZoneKnown'
  <1>1. \A d \in Client : at'[d].pc = "create" => d # c /\ at'[d] = at[d]
    OBVIOUS
  <1>2. Naming'
    BY <1>1 DEF Naming
  <1>3. (\A d \in Client : at'[d].pc # "create") => \A d \in Client : at[d].pc # "create"
    OBVIOUS
  <1>4. ZoneKnown'
    BY <1>3 DEF ZoneKnown
  <1> QED BY <1>2, <1>4

\* Steps other than those of "vsan N"
LEMMA DatabasesKept ==
    ASSUME Listing, Sole, NEW c \in Client,
           at[c].pc \notin {"assign", "store"}, at'[c].pc # "store",
           \A d \in Client : d # c => at'[d] = at[d],
           UNCHANGED <<vsans, listed, vsanOf, contested>>,
           ActiveExists'
    PROVE  Databases'
  <1>1. Listing'
    BY DEF Listing
  <1>2. Sole'
    BY DEF Sole
  <1> QED BY <1>1, <1>2 DEF Databases

\* Places after a step
LEMMA Moved ==
    ASSUME LineType, NEW c \in Client, NEW x \in Place, at' = [at EXCEPT ![c] = x]
    PROVE  /\ at' \in [Client -> Place] /\ at'[c] = x
           /\ \A d \in Client : d # c => at'[d] = at[d]
  BY DEF LineType

-----------------------------------------------------------------------------
(* Lines that begin, and lines that leave the context alone *)

LEMMA BeginIInv ==
    ASSUME IInv, NEW c \in Client, NEW lines \in Seq(Command), Begin(c, lines)
    PROVE  IInv'
  <1>1. /\ requests < MaxRequests /\ requests' = requests + 1
        /\ todo' = [todo EXCEPT ![c] = lines]
        /\ UNCHANGED <<ctx, at, fabric, history>>
    BY DEF Begin
  <1>2. FabricType' /\ Databases'
    BY <1>1 DEF IInv, fabric, zoning, history, FabricType, Databases, Listing, Sole,
                ActiveExists
  <1>3. LineType'
    BY <1>1, BoundAssumption DEF IInv, LineType, history
  <1>4. InterfaceKnown' /\ Named'
    BY <1>1 DEF IInv, InterfaceKnown, Named, Names
  <1>5. Naming' /\ ZoneKnown'
    BY <1>1 DEF IInv, Naming, ZoneKnown, fabric, zoning, history
  <1> QED BY <1>2, <1>3, <1>4, <1>5 DEF IInv

LEMMA ConfigPortType ==
    ASSUME NEW p \in Port, NEW v \in Vsan, NEW lines \in ConfigPort(p, v)
    PROVE  lines \in Seq(Command)
  <1> DEFINE first == <<[op |-> "configure"], [op |-> "interface", port |-> p]>>
             last == <<[op |-> "exit"], [op |-> "exit"]>>
             one == <<[op |-> "set"]>>
             three == <<[op |-> "set"], [op |-> "vsan", vsan |-> v], [op |-> "set"]>>
  <1>1. /\ [op |-> "configure"] \in Command /\ [op |-> "set"] \in Command
        /\ [op |-> "exit"] \in Command
        /\ [op |-> "interface", port |-> p] \in Command
        /\ [op |-> "vsan", vsan |-> v] \in Command
    BY DEF Command, Plain
  <1>2. /\ first \in Seq(Command) /\ last \in Seq(Command)
        /\ one \in Seq(Command) /\ three \in Seq(Command)
    BY <1>1
  <1>3. lines = first \o one \o last \/ lines = first \o three \o last
    BY DEF ConfigPort
  <1>4. \A a, b \in Seq(Command) : a \o b \in Seq(Command)
    OBVIOUS
  <1> HIDE DEF first, last, one, three
  <1>5. first \o one \in Seq(Command) /\ first \o three \in Seq(Command)
    BY <1>2, <1>4
  <1> QED BY <1>2, <1>3, <1>4, <1>5

LEMMA RequestIInv ==
    ASSUME IInv, NEW c \in Client,
           StudentTypes(c) \/ AutomationPosts(c) \/ InstructorPosts(c)
    PROVE  IInv'
  <1>1. CASE StudentTypes(c)
    <2>1. PICK cmd \in Command : Begin(c, <<cmd>>)
      BY <1>1 DEF StudentTypes
    <2>2. <<cmd>> \in Seq(Command)
      OBVIOUS
    <2> QED BY <2>1, <2>2, BeginIInv
  <1>2. CASE AutomationPosts(c)
    BY <1>2, ScriptAssumption, BeginIInv DEF AutomationPosts
  <1>3. CASE InstructorPosts(c)
    BY <1>3, ConfigPortType, BeginIInv DEF InstructorPosts
  <1> QED BY <1>1, <1>2, <1>3

\* The handler is chosen by the mode found, hence fits the context now
LEMMA DispatchIInv ==
    ASSUME IInv, NEW c \in Client, Dispatch(c)
    PROVE  IInv'
  <1> DEFINE x == [pc |-> "handle", mode |-> ctx.mode, cmd |-> Head(todo[c])]
  <1>1. /\ todo[c] # <<>> /\ at[c].pc = "idle"
        /\ at' = [at EXCEPT ![c] = x]
        /\ todo' = [todo EXCEPT ![c] = Tail(@)]
        /\ UNCHANGED <<ctx, fabric, history, requests>>
    BY DEF Dispatch, Idle
  <1>2. /\ Head(todo[c]) \in Command /\ Tail(todo[c]) \in Seq(Command)
        /\ ctx.mode \in CliMode
    BY <1>1 DEF IInv, LineType, CLIContext
  <1>3. x \in Place /\ x.pc = "handle" /\ x.mode = ctx.mode
    BY <1>2, PlacesMade
  <1> HIDE DEF x
  <1>4. /\ at' \in [Client -> Place] /\ at'[c] = x
        /\ \A d \in Client : d # c => at'[d] = at[d]
    BY <1>1, <1>3, Moved DEF IInv
  <1>5. FabricType' /\ ActiveExists'
    BY <1>1 DEF IInv, fabric, zoning, history, FabricType, Databases, ActiveExists
  <1>6. Databases'
    BY <1>1, <1>3, <1>4, <1>5, DatabasesKept DEF IInv, Databases, fabric, history
  <1>7. LineType'
    BY <1>1, <1>2, <1>4 DEF IInv, LineType, history
  <1>8. InterfaceKnown' /\ Named'
    BY <1>1, <1>3, <1>4 DEF IInv, InterfaceKnown, Named, Names
  <1>9. Naming' /\ ZoneKnown'
    BY <1>1, <1>3, <1>4, NamingKept DEF IInv, fabric, zoning, history
  <1> QED BY <1>5, <1>6, <1>7, <1>8, <1>9 DEF IInv

\* A line ends that does not concern the context
LEMMA Ends ==
    ASSUME IInv, NEW c \in Client, at[c].pc \in {"handle", "assign", "store"},
           Returns(c), UNCHANGED <<ctx, todo, crossed, requests>>,
           zones \subseteq zones', zonesets \subseteq zonesets',
           FabricType', Databases'
    PROVE  IInv'
  <1>1. /\ at' \in [Client -> Place] /\ at'[c] = Idle /\ at'[c].pc = "idle"
        /\ \A d \in Client : d # c => at'[d] = at[d]
    BY PlacesMade, Moved DEF IInv, Returns
  <1>2. LineType'
    BY <1>1 DEF IInv, LineType
  <1>3. InterfaceKnown' /\ Named'
    BY <1>1 DEF IInv, InterfaceKnown, Named, Names
  <1>4. Naming' /\ ZoneKnown'
    BY <1>1, NamingKept DEF IInv
  <1> QED BY <1>2, <1>3, <1>4 DEF IInv

\* ... nor the VSAN database
LEMMA EndsOutside ==
    ASSUME IInv, NEW c \in Client, at[c].pc = "handle",
           Returns(c), UNCHANGED <<ctx, todo, vsans, listed, vsanOf, history, requests>>,
           zones \subseteq zones', zonesets \subseteq zonesets',
           FabricType', ActiveExists'
    PROVE  IInv'
  <1>1. /\ at'[c].pc = "idle" /\ \A d \in Client : d # c => at'[d] = at[d]
    BY PlacesMade, Moved DEF IInv, Returns
  <1>2. UNCHANGED <<contested, crossed>>
    BY DEF history
  <1>3. Databases'
    BY <1>1, <1>2, DatabasesKept DEF IInv, Databases
  <1> QED BY <1>2, <1>3, Ends

-----------------------------------------------------------------------------
(* Handlers *)

\* What a handler finds
LEMMA Found ==
    ASSUME IInv, NEW c \in Client, at[c].pc = "handle"
    PROVE  /\ at[c].mode \in CliMode /\ at[c].cmd \in Command /\ at[c] \in Place
           /\ ctx \in CLIContext
           /\ Names(at[c].mode)
  BY PlaceKinds DEF IInv, LineType, Named

LEMMA NavigateIInv ==
    ASSUME IInv, NEW c \in Client, Navigate(c)
    PROVE  IInv'
  <1> DEFINE cmd == at[c].cmd
             m == at[c].mode
  <1>1. /\ at[c].pc = "handle" /\ <<m, cmd.op>> \in Moves
        /\ cmd.op \notin {"zone", "zoneset"}
        /\ ctx' = Move(m, cmd, ctx)
        /\ at' = [at EXCEPT ![c] = Idle]
        /\ UNCHANGED <<todo, fabric, history, requests>>
    BY DEF Navigate, Returns
  <1>2. cmd \in Command /\ ctx \in CLIContext
    BY <1>1, Found
  <1>3. /\ ctx' \in CLIContext
        /\ ctx'.mode \in {"exec", "config", "config-if", "config-vsan-db"}
        /\ ctx'.mode = "config-if" => ctx'.interface # None
        /\ ctx'.vsan = ctx.vsan /\ ctx'.zone = ctx.zone /\ ctx'.zoneset = ctx.zoneset
    BY <1>1, <1>2, Navigated
  <1>4. /\ at' \in [Client -> Place] /\ at'[c] = Idle /\ at'[c].pc = "idle"
        /\ \A d \in Client : d # c => at'[d] = at[d]
    BY <1>1, PlacesMade, Moved DEF IInv
  <1>5. FabricType' /\ ActiveExists'
    BY <1>1 DEF IInv, fabric, zoning, history, FabricType, Databases, ActiveExists
  <1>6. Databases'
    BY <1>1, <1>4, <1>5, DatabasesKept DEF IInv, Databases, fabric, history
  <1>7. LineType'
    BY <1>1, <1>3, <1>4 DEF IInv, LineType, history
  <1>8. InterfaceKnown'
    BY <1>3 DEF InterfaceKnown
  <1>9. Named'
    <2>1. Names(ctx.mode)'
      BY <1>3 DEF Names
    <2> QED BY <1>3, <1>4, <2>1, NamedKept DEF IInv
  <1>10. Naming' /\ ZoneKnown'
    BY <1>1, <1>3, <1>4, NamingKept DEF IInv, fabric, zoning, history
  <1> QED BY <1>5, <1>6, <1>7, <1>8, <1>9, <1>10 DEF IInv

\* Error texts, shows, and commands about the port alone
LEMMA RejectIInv ==
    ASSUME IInv, NEW c \in Client, Reject(c) \/ Show(c) \/ SetInterface(c)
    PROVE  IInv'
  <1>1. /\ at[c].pc = "handle" /\ Returns(c)
        /\ UNCHANGED <<ctx, todo, fabric, history, requests>>
    BY DEF Reject, Show, SetInterface, Handling
  <1>2. FabricType' /\ ActiveExists'
    BY <1>1 DEF IInv, fabric, zoning, history, FabricType, Databases, ActiveExists
  <1> QED BY <1>1, <1>2, EndsOutside DEF fabric, zoning

\* The first step of "vsan N": the session keeps the port in hand
LEMMA SetVsanIInv ==
    ASSUME IInv, NEW c \in Client, SetVsan(c)
    PROVE  IInv'
  <1> DEFINE p == ctx.interface
             v == at[c].cmd.vsan
             x == [pc |-> "assign", port |-> p, vsan |-> v]
  <1>1. /\ at[c].pc = "handle" /\ at[c].cmd.op = "vsan" /\ p # None
        /\ vsanOf' = [vsanOf EXCEPT ![p] = v]
        /\ at' = [at EXCEPT ![c] = x]
        /\ UNCHANGED <<ctx, todo, vsans, listed, zoning, history, requests>>
    BY DEF SetVsan, Handling
  <1>2. p \in Port /\ v \in Vsan
    BY <1>1, Found, CommandKinds DEF CLIContext
  <1>3. x \in Place /\ x.pc = "assign" /\ x.port = p /\ x.vsan = v
    BY <1>2, PlacesMade
  <1> HIDE DEF x, p, v
  <1>4. /\ at' \in [Client -> Place] /\ at'[c] = x
        /\ \A d \in Client : d # c => at'[d] = at[d]
    BY <1>1, <1>3, Moved DEF IInv
  <1>5. FabricType' /\ ActiveExists'
    BY <1>1, <1>2 DEF IInv, FabricType, Databases, ActiveExists, zoning, history
  <1>6. Listing'
    <2> SUFFICES ASSUME NEW q \in Port, vsanOf'[q] \notin {1} \union contested'
                 PROVE  \/ vsanOf'[q] \in vsans' /\ <<vsanOf'[q], q>> \in listed'
                        \/ \E d \in Client : /\ at'[d].pc \in {"assign", "store"}
                                            /\ at'[d].port = q
                                            /\ at'[d].vsan = vsanOf'[q]
      BY DEF Listing
    <2>1. CASE q = p
      <3>1. vsanOf'[q] = v
        BY <1>1, <1>2, <2>1 DEF IInv, FabricType
      <3> QED BY <1>3, <1>4, <2>1, <3>1
    <2>2. CASE q # p
      <3>1. vsanOf'[q] = vsanOf[q]
        BY <1>1, <2>2 DEF IInv, FabricType
      <3>2. at[c].pc \notin {"assign", "store"}
        BY <1>1
      <3> QED BY <1>1, <1>4, <3>1, <3>2 DEF IInv, Databases, Listing, history
    <2> QED BY <2>1, <2>2
  <1>7. Sole'
    BY <1>1, <1>3, <1>4 DEF IInv, Databases, Sole, history
  <1>8. LineType'
    BY <1>1, <1>4 DEF IInv, LineType, history
  <1>9. InterfaceKnown' /\ Named'
    BY <1>1, <1>3, <1>4 DEF IInv, InterfaceKnown, Named, Names
  <1>10. Naming' /\ ZoneKnown'
    BY <1>1, <1>3, <1>4, NamingKept DEF IInv, zoning, history
  <1> QED BY <1>5, <1>6, <1>7, <1>8, <1>9, <1>10 DEF IInv, Databases

\* A session that finds no VSAN and sets out to make one keeps the port in hand,
\* if it had one.  If it is not the first, the VSAN is contested from now on.
LEMMA ConstructIInv ==
    ASSUME IInv, NEW c \in Client, NEW v \in Vsan, NEW p \in Port \union {None},
           Construct(c, v, p),
           \/ at[c].pc = "handle"
           \/ at[c].pc = "assign" /\ at[c].port = p /\ at[c].vsan = v,
           UNCHANGED <<ctx, todo, vsans, vsanOf, zoning, crossed, requests>>
    PROVE  IInv'
  <1> DEFINE x == [pc |-> "store", port |-> p, vsan |-> v]
  <1>1. /\ v \notin vsans /\ listed' = listed
        /\ at' = [at EXCEPT ![c] = x]
        /\ contested \subseteq contested' /\ contested' \subseteq contested \union {v}
    BY DEF Construct
  <1>2. (\E d \in Client : at[d].pc = "store" /\ at[d].vsan = v) => v \in contested'
    BY DEF Construct
  <1>3. x \in Place /\ x.pc = "store" /\ x.port = p /\ x.vsan = v
    BY PlacesMade
  <1> HIDE DEF x
  <1>4. /\ at' \in [Client -> Place] /\ at'[c] = x
        /\ \A d \in Client : d # c => at'[d] = at[d]
    BY <1>1, <1>3, Moved DEF IInv
  <1>5. FabricType' /\ ActiveExists'
    BY <1>1 DEF IInv, FabricType, Databases, ActiveExists, zoning
  <1>6. Listing'
    <2> SUFFICES ASSUME NEW q \in Port, vsanOf[q] \notin {1} \union contested
                 PROVE  \/ vsanOf[q] \in vsans /\ <<vsanOf[q], q>> \in listed
                        \/ \E d \in Client : /\ at'[d].pc \in {"assign", "store"}
                                            /\ at'[d].port = q
                                            /\ at'[d].vsan = vsanOf[q]
      BY <1>1 DEF Listing
    <2>1. CASE vsanOf[q] \in vsans /\ <<vsanOf[q], q>> \in listed
      BY <2>1
    <2>2. ASSUME NEW d \in Client, at[d].pc \in {"assign", "store"},
                 at[d].port = q, at[d].vsan = vsanOf[q]
          PROVE  \E e \in Client : /\ at'[e].pc \in {"assign", "store"}
                                   /\ at'[e].port = q /\ at'[e].vsan = vsanOf[q]
      BY <1>3, <1>4, <2>2
    <2> QED BY <2>1, <2>2 DEF IInv, Databases, Listing
  <1>7. Sole'
    <2> SUFFICES ASSUME NEW d \in Client, at'[d].pc = "store", at'[d].vsan \notin contested'
                 PROVE  /\ at'[d].vsan \notin vsans
                        /\ \A e \in Client \ {d} :
                              ~(at'[e].pc = "store" /\ at'[e].vsan = at'[d].vsan)
      BY DEF Sole
    <2>1. CASE d = c
      BY <1>1, <1>2, <1>3, <1>4, <2>1
    <2>2. CASE d # c
      <3>1. at'[d] = at[d] /\ at[d].vsan \notin contested /\ at[d].vsan # v
        BY <1>1, <1>2, <1>4, <2>2
      <3>2. /\ at[d].vsan \notin vsans
            /\ \A e \in Client \ {d} : ~(at[e].pc = "store" /\ at[e].vsan = at[d].vsan)
        BY <3>1 DEF IInv, Databases, Sole
      <3> QED BY <1>3, <1>4, <3>1, <3>2
    <2> QED BY <2>1, <2>2
  <1>8. LineType'
    BY <1>4 DEF IInv, LineType
  <1>9. InterfaceKnown' /\ Named'
    BY <1>3, <1>4 DEF IInv, InterfaceKnown, Named, Names
  <1>10. Naming' /\ ZoneKnown'
    BY <1>3, <1>4, NamingKept DEF IInv, zoning
  <1> QED BY <1>5, <1>6, <1>7, <1>8, <1>9, <1>10 DEF IInv, Databases

\* The second step of "vsan N"
LEMMA AssignInterfaceIInv ==
    ASSUME IInv, NEW c \in Client, AssignInterface(c)
    PROVE  IInv'
  <1> DEFINE p == at[c].port
             v == at[c].vsan
  <1>1. /\ at[c].pc = "assign"
        /\ UNCHANGED <<ctx, todo, vsans, vsanOf, zoning, crossed, requests>>
        /\ \/ Construct(c, v, p)
           \/ /\ v \in vsans /\ listed' = listed \union {<<v, p>>}
              /\ Returns(c) /\ contested' = contested
    BY DEF AssignInterface
  <1>2. p \in Port /\ v \in Vsan
    BY <1>1, PlaceKinds DEF IInv, LineType
  <1>3. CASE Construct(c, v, p)
    BY <1>1, <1>2, <1>3, ConstructIInv
  <1>4. CASE /\ v \in vsans /\ listed' = listed \union {<<v, p>>}
             /\ Returns(c) /\ contested' = contested
    <2>1. /\ at'[c].pc = "idle" /\ \A d \in Client : d # c => at'[d] = at[d]
      BY <1>4, PlacesMade, Moved DEF IInv, Returns
    <2>2. FabricType' /\ ActiveExists'
      BY <1>1, <1>2, <1>4 DEF IInv, FabricType, Databases, ActiveExists, zoning
    <2>3. Listing'
      BY <1>1, <1>4, <2>1 DEF IInv, Databases, Listing
    <2>4. Sole'
      BY <1>1, <1>4, <2>1 DEF IInv, Databases, Sole
    <2> QED BY <1>1, <1>4, <2>2, <2>3, <2>4, Ends DEF Databases, zoning
  <1> QED BY <1>1, <1>3, <1>4

LEMMA CreateVsanIInv ==
    ASSUME IInv, NEW c \in Client, CreateVsan(c)
    PROVE  IInv'
  <1>1. /\ at[c].pc = "handle" /\ at[c].cmd.op = "vsan"
        /\ UNCHANGED <<ctx, todo, vsans, vsanOf, zoning, crossed, requests>>
        /\ \/ Construct(c, at[c].cmd.vsan, None)
           \/ Returns(c) /\ UNCHANGED <<listed, contested>>
    BY DEF CreateVsan, Handling
  <1>2. at[c].cmd.vsan \in Vsan
    BY <1>1, Found, CommandKinds
  <1>3. CASE Construct(c, at[c].cmd.vsan, None)
    BY <1>1, <1>2, <1>3, ConstructIInv
  <1>4. CASE Returns(c) /\ UNCHANGED <<listed, contested>>
    <2>1. FabricType' /\ ActiveExists'
      BY <1>1, <1>4 DEF IInv, FabricType, Databases, ActiveExists, zoning
    <2> QED BY <1>1, <1>4, <2>1, EndsOutside DEF zoning, history
  <1> QED BY <1>1, <1>3, <1>4

\* The last step: if the VSAN is not contested there was none, and none of its
\* ports were listed that the store could lose
LEMMA StoreVsanIInv ==
    ASSUME IInv, NEW c \in Client, StoreVsan(c)
    PROVE  IInv'
  <1> DEFINE p == at[c].port
             v == at[c].vsan
  <1>1. /\ at[c].pc = "store" /\ Returns(c)
        /\ vsans' = vsans \union {v}
        /\ listed' = {x \in listed : x[1] # v} \union {<<v, q>> : q \in {p} \ {None}}
        /\ UNCHANGED <<ctx, todo, vsanOf, zoning, history, requests>>
    BY DEF StoreVsan
  <1>2. p \in Port \union {None} /\ v \in Vsan
    BY <1>1, PlaceKinds DEF IInv, LineType
  <1>3. UNCHANGED <<contested, crossed>>
    BY <1>1 DEF history
  <1>4. /\ at'[c].pc = "idle" /\ \A d \in Client : d # c => at'[d] = at[d]
    BY <1>1, PlacesMade, Moved DEF IInv, Returns
  <1>5. FabricType' /\ ActiveExists'
    BY <1>1, <1>2, <1>3 DEF IInv, FabricType, Databases, ActiveExists, zoning
  <1>6. v \notin contested =>
           /\ v \notin vsans
           /\ \A d \in Client \ {c} : ~(at[d].pc = "store" /\ at[d].vsan = v)
    BY <1>1 DEF IInv, Databases, Sole
  <1>7. Listing'
    <2> SUFFICES ASSUME NEW q \in Port, vsanOf[q] \notin {1} \union contested
                 PROVE  \/ vsanOf[q] \in vsans' /\ <<vsanOf[q], q>> \in listed'
                        \/ \E d \in Client : /\ at'[d].pc \in {"assign", "store"}
                                            /\ at'[d].port = q
                                            /\ at'[d].vsan = vsanOf[q]
      BY <1>1, <1>3 DEF Listing
    <2>1. CASE vsanOf[q] \in vsans /\ <<vsanOf[q], q>> \in listed
      <3>1. vsanOf[q] # v
        BY <1>6, <2>1
      <3> QED BY <1>1, <2>1, <3>1
    <2>2. ASSUME NEW d \in Client, at[d].pc \in {"assign", "store"},
                 at[d].port = q, at[d].vsan = vsanOf[q]
          PROVE  \/ vsanOf[q] \in vsans' /\ <<vsanOf[q], q>> \in listed'
                 \/ \E e \in Client : /\ at'[e].pc \in {"assign", "store"}
                                      /\ at'[e].port = q /\ at'[e].vsan = vsanOf[q]
      <3>1. CASE d = c
        <4>1. q = p /\ vsanOf[q] = v /\ p # None
          BY <2>2, <3>1, NoneAssumption
        <4> QED BY <1>1, <4>1
      <3>2. CASE d # c
        BY <1>4, <2>2, <3>2
      <3> QED BY <3>1, <3>2
    <2> QED BY <2>1, <2>2 DEF IInv, Databases, Listing
  <1>8. Sole'
    <2> SUFFICES ASSUME NEW d \in Client, at'[d].pc = "store", at'[d].vsan \notin contested
                 PROVE  /\ at'[d].vsan \notin vsans'
                        /\ \A e \in Client \ {d} :
                              ~(at'[e].pc = "store" /\ at'[e].vsan = at'[d].vsan)
      BY <1>3 DEF Sole
    <2>1. d # c /\ at'[d] = at[d]
      BY <1>4
    <2>2. /\ at[d].vsan \notin vsans
          /\ \A e \in Client \ {d} : ~(at[e].pc = "store" /\ at[e].vsan = at[d].vsan)
      BY <2>1 DEF IInv, Databases, Sole
    <2>3. at[d].vsan # v
      BY <1>1, <2>1, <2>2
    <2> QED BY <1>1, <1>4, <2>1, <2>2, <2>3
  <1> QED BY <1>1, <1>3, <1>5, <1>7, <1>8, Ends DEF Databases, zoning

\* "zone name" and "zoneset name": from here to the end of the line the context
\* names what the mode to come is about
LEMMA NameZoneIInv ==
    ASSUME IInv, NEW c \in Client, NameZone(c)
    PROVE  IInv'
  <1> DEFINE cmd == at[c].cmd
             x == [at[c] EXCEPT !.pc = "create"]
  <1>1. /\ at[c].pc = "handle"
        /\ cmd.op \in {"zone", "zoneset"}
        /\ ctx' = Select("config", cmd, ctx)
        /\ crossed' = \E d \in Client : at[d].pc = "create"
        /\ UNCHANGED <<todo, fabric, contested, requests>>
    BY DEF NameZone
  <1>2. cmd \in Command /\ ctx \in CLIContext /\ at[c] \in Place
    BY <1>1, Found
  <1>3. /\ ctx' \in CLIContext /\ ctx'.mode = ctx.mode /\ ctx'.interface = ctx.interface
        /\ ctx'.vsan # None /\ ctx'.vsan = cmd.vsan
        /\ cmd.op = "zone"    => /\ ctx'.zone # None /\ ctx'.zone = cmd.zone
                                 /\ ctx'.zoneset = ctx.zoneset
        /\ cmd.op = "zoneset" => /\ ctx'.zoneset # None /\ ctx'.zoneset = cmd.zoneset
                                 /\ ctx'.zone = ctx.zone
    BY <1>1, <1>2, ZoneSelected
  <1>4. x \in Place /\ x.pc = "create" /\ x.cmd = cmd
    BY <1>1, <1>2, PlacesMade
  <1>5. at' = [at EXCEPT ![c] = x]
    BY <1>2 DEF NameZone, IInv, LineType
  <1> HIDE DEF x
  <1>6. /\ at' \in [Client -> Place] /\ at'[c] = x
        /\ \A d \in Client : d # c => at'[d] = at[d]
    BY <1>4, <1>5, Moved DEF IInv
  <1> HIDE DEF cmd
  <1>7. FabricType' /\ ActiveExists'
    BY <1>1 DEF IInv, fabric, zoning, FabricType, Databases, ActiveExists
  <1>8. Databases'
    BY <1>1, <1>4, <1>6, <1>7, DatabasesKept DEF IInv, Databases, fabric
  <1>9. LineType'
    BY <1>1, <1>3, <1>6 DEF IInv, LineType
  <1>10. InterfaceKnown'
    BY <1>3 DEF IInv, InterfaceKnown
  <1>11. Named'
    <2>1. Names(ctx.mode)'
      BY <1>1, <1>3 DEF IInv, Named, Names
    <2>2. /\ at'[c].cmd.op = "zone"    => Names("config-zone")'
          /\ at'[c].cmd.op = "zoneset" => Names("config-zoneset")'
      BY <1>3, <1>4, <1>6 DEF Names
    <2>3. /\ ctx.zone # None => ctx'.zone # None
          /\ ctx.zoneset # None => ctx'.zoneset # None
      BY <1>1, <1>3
    <2> QED BY <1>1, <1>3, <1>4, <1>6, <2>1, <2>2, <2>3, NamedKept DEF IInv
  <1>12. Naming'
    <2>1. ~crossed' => \A d \in Client : d # c => at'[d].pc # "create"
      BY <1>1, <1>6
    <2> QED BY <1>3, <1>4, <1>6, <2>1 DEF Naming
  <1>13. ZoneKnown'
    BY <1>4, <1>6 DEF ZoneKnown
  <1> QED BY <1>7, <1>8, <1>9, <1>10, <1>11, <1>12, <1>13 DEF IInv

\* ... which is entered now
LEMMA CreateZoneIInv ==
    ASSUME IInv, NEW c \in Client, CreateZone(c)
    PROVE  IInv'
  <1> DEFINE cmd == at[c].cmd
             m == Target("config", cmd.op, ctx.mode)
  <1>1. /\ at[c].pc = "create" /\ ctx' = [ctx EXCEPT !.mode = m]
        /\ zones' = (IF cmd.op = "zone" THEN zones \union {<<cmd.vsan, cmd.zone>>} ELSE zones)
        /\ zonesets' = (IF cmd.op = "zoneset"
                        THEN zonesets \union {<<cmd.vsan, cmd.zoneset>>} ELSE zonesets)
        /\ at' = [at EXCEPT ![c] = Idle]
        /\ UNCHANGED <<todo, vsans, listed, vsanOf, members, included, active, requests>>
    BY DEF CreateZone, Returns
  <1>2. UNCHANGED <<contested, crossed>>
    BY DEF CreateZone, history
  <1>3. at[c] \in Place /\ ctx \in CLIContext
    BY DEF IInv, LineType
  <1>4. /\ cmd \in Command
        /\ cmd.op \in {"zone", "zoneset"}
        /\ cmd.op = "zone"    => Names("config-zone")
        /\ cmd.op = "zoneset" => Names("config-zoneset")
    BY <1>1, <1>3, PlaceKinds DEF IInv, Named
  <1>5. /\ cmd.op = "zone"    => m = "config-zone"
        /\ cmd.op = "zoneset" => m = "config-zoneset"
    <2>1. /\ <<"config", "zone", "config-zone">> \in Transition
          /\ <<"config", "zoneset", "config-zoneset">> \in Transition
      BY DEF Transition, ConfigTransition
    <2> QED BY <2>1, Targets
  <1>6. /\ at' \in [Client -> Place] /\ at'[c] = Idle /\ at'[c].pc = "idle"
        /\ \A d \in Client : d # c => at'[d] = at[d]
    BY <1>1, PlacesMade, Moved DEF IInv
  <1>7. m \in CliMode
    BY <1>4, <1>5 DEF CliMode
  <1> HIDE DEF m
  <1>8. /\ ctx' \in CLIContext /\ ctx'.mode = m /\ ctx'.interface = ctx.interface
        /\ ctx'.vsan = ctx.vsan /\ ctx'.zone = ctx.zone /\ ctx'.zoneset = ctx.zoneset
    BY <1>1, <1>3, <1>7, ContextFields
  <1>9. /\ cmd.op = "zone"    => cmd.vsan \in Vsan /\ cmd.zone \in Zone
        /\ cmd.op = "zoneset" => cmd.vsan \in Vsan /\ cmd.zoneset \in Zoneset
    BY <1>4, CommandKinds
  <1>10. Naming'
    BY <1>2, <1>6, <1>8 DEF IInv, Naming
  <1>11. ZoneKnown'
    <2>1. ~crossed => /\ ctx.vsan = cmd.vsan
                      /\ cmd.op = "zone"    => ctx.zone = cmd.zone
                      /\ cmd.op = "zoneset" => ctx.zoneset = cmd.zoneset
      BY <1>1 DEF IInv, Naming
    <2> HIDE DEF cmd
    <2> QED BY <1>1, <1>2, <1>4, <1>5, <1>8, <2>1 DEF ZoneKnown
  <1> HIDE DEF cmd
  <1>12. FabricType' /\ ActiveExists'
    BY <1>1, <1>2, <1>9 DEF IInv, FabricType, Databases, ActiveExists
  <1>13. Databases'
    BY <1>1, <1>2, <1>6, <1>12, DatabasesKept DEF IInv, Databases
  <1>14. LineType'
    BY <1>1, <1>2, <1>6, <1>8 DEF IInv, LineType
  <1>15. InterfaceKnown'
    BY <1>4, <1>5, <1>8 DEF InterfaceKnown
  <1>16. Named'
    <2>1. Names(ctx.mode)'
      BY <1>4, <1>5, <1>8 DEF Names
    <2> QED BY <1>6, <1>8, <2>1, NamedKept DEF IInv
  <1> QED BY <1>10, <1>11, <1>12, <1>13, <1>14, <1>15, <1>16 DEF IInv

\* At most one zoneset of a VSAN is active, as the old one goes when the new
\* one comes
LEMMA ActivateIInv ==
    ASSUME IInv, NEW c \in Client, Activate(c)
    PROVE  IInv'
  <1> DEFINE v == at[c].cmd.vsan
             s == at[c].cmd.zoneset
  <1>1. /\ at[c].pc = "handle" /\ Returns(c)
        /\ \/ active' = active
           \/ /\ <<v, s>> \in zonesets
              /\ active' = {a \in active : a[1] # v} \union {<<v, s>>}
        /\ UNCHANGED <<ctx, todo, vsans, listed, vsanOf, zones, members, zonesets,
                       included, history, requests>>
    BY DEF Activate, Handling
  <1> HIDE DEF v, s
  <1>2. active' \subseteq zonesets /\ \A a, b \in active' : a[1] = b[1] => a = b
    BY <1>1 DEF IInv, Databases, ActiveExists
  <1>3. FabricType' /\ ActiveExists'
    BY <1>1, <1>2 DEF IInv, FabricType, Databases, ActiveExists, history
  <1> QED BY <1>1, <1>3, EndsOutside

\* "member": the zone or zoneset of the context is created if it has to be
LEMMA AddMemberIInv ==
    ASSUME IInv, NEW c \in Client, AddMember(c)
    PROVE  IInv'
  <1> DEFINE w == at[c].cmd.member
  <1>1. /\ at[c].pc = "handle" /\ at[c].mode = "config-zone" /\ at[c].cmd.op = "member"
        /\ Returns(c)
        /\ zones' = zones \union {<<ctx.vsan, ctx.zone>>}
        /\ members' = members \union {<<ctx.vsan, ctx.zone, w>>}
        /\ UNCHANGED <<ctx, todo, vsans, listed, vsanOf, zonesets, included, active,
                       history, requests>>
    BY DEF AddMember, Handling
  <1>2. ctx.vsan \in Vsan /\ ctx.zone \in Zone
    BY <1>1, Found DEF CLIContext, Names
  <1>3. w \in Pwwn \union Zone
    BY <1>1, Found, CommandKinds
  <1> HIDE DEF w
  <1>4. FabricType' /\ ActiveExists'
    BY <1>1, <1>2, <1>3 DEF IInv, FabricType, Databases, ActiveExists, history
  <1> QED BY <1>1, <1>4, EndsOutside

LEMMA AddZoneIInv ==
    ASSUME IInv, NEW c \in Client, AddZone(c)
    PROVE  IInv'
  <1>1. /\ at[c].pc = "handle" /\ at[c].mode = "config-zoneset"
        /\ Returns(c)
        /\ zonesets' = zonesets \union {<<ctx.vsan, ctx.zoneset>>}
        /\ UNCHANGED <<ctx, todo, vsans, listed, vsanOf, zones, members, active,
                       history, requests>>
    BY DEF AddZone, Handling
  <1>2. PICK w \in Zone \union {"pwwn"} :
            included' = included \union {<<ctx.vsan, ctx.zoneset, w>>}
    BY DEF AddZone
  <1>3. ctx.vsan \in Vsan /\ ctx.zoneset \in Zoneset
    BY <1>1, Found DEF CLIContext, Names
  <1>4. FabricType' /\ ActiveExists'
    BY <1>1, <1>2, <1>3 DEF IInv, FabricType, Databases, ActiveExists, history
  <1> QED BY <1>1, <1>4, EndsOutside

-----------------------------------------------------------------------------
(* The inductive invariant *)

LEMMA InitIInv == Init => IInv
  <1> SUFFICES ASSUME Init
               PROVE  IInv
    OBVIOUS
  <1>1. Fresh \in CLIContext /\ Fresh.mode = "exec"
    BY DEF Fresh, CLIContext, CliMode
  <1>2. Idle \in Place /\ Idle.pc = "idle"
    BY PlacesMade
  <1>3. FabricType
    BY VsanAssumption DEF Init, FabricType
  <1>4. LineType
    <2>1. crossed \in BOOLEAN
      BY Zenon DEF Init
    <2>2. requests \in 0..MaxRequests
      BY BoundAssumption DEF Init
    <2>3. todo \in [Client -> Seq(Command)] /\ at \in [Client -> Place] /\ ctx \in CLIContext
      BY <1>1, <1>2 DEF Init
    <2> QED BY <2>1, <2>2, <2>3 DEF LineType
  <1>5. InterfaceKnown /\ Named
    BY <1>1, <1>2 DEF Init, InterfaceKnown, Named, Names
  <1>6. Naming /\ ZoneKnown
    BY <1>1, <1>2 DEF Init, Naming, ZoneKnown
  <1>7. Databases
    BY <1>2 DEF Init, Databases, Listing, Sole, ActiveExists
  <1> QED BY <1>3, <1>4, <1>5, <1>6, <1>7 DEF IInv

LEMMA NextIInv == IInv /\ [Next]_vars => IInv'
  <1> SUFFICES ASSUME IInv, [Next]_vars
               PROVE  IInv'
    OBVIOUS
  <1>1. CASE UNCHANGED vars
    BY <1>1 DEF vars, fabric, zoning, history, IInv, FabricType, LineType,
                InterfaceKnown, Named, Names, Naming, ZoneKnown, Databases, Listing, Sole,
                ActiveExists
  <1>2. ASSUME NEW c \in Client,
               \/ StudentTypes(c) \/ AutomationPosts(c) \/ InstructorPosts(c)
               \/ Dispatch(c) \/ Handle(c)
        PROVE  IInv'
    <2>1. CASE StudentTypes(c) \/ AutomationPosts(c) \/ InstructorPosts(c)
      BY <2>1, RequestIInv
    <2>2. CASE Dispatch(c)
      BY <2>2, DispatchIInv
    <2>3. CASE Handle(c)
      BY <2>3, NavigateIInv, RejectIInv, SetVsanIInv,
         AssignInterfaceIInv, CreateVsanIInv, StoreVsanIInv, NameZoneIInv,
         CreateZoneIInv, ActivateIInv, AddMemberIInv, AddZoneIInv DEF Handle
    <2> QED BY <1>2, <2>1, <2>2, <2>3
  <1> QED BY <1>1, <1>2 DEF Next

-----------------------------------------------------------------------------
(* Theorems *)

\* The inductive invariant holds: handlers find the zone they work on, names in
\* the context are those of the session that sets the mode, ports are listed or
\* in hand
THEOREM Invariance == Spec => []IInv
  BY InitIInv, NextIInv, PTL DEF Spec

\* The context, the two databases and the sessions keep their types: no handler
\* ever works on a zone or interface that is None
THEOREM TypeCorrect == Spec => []TypeOK
  <1>1. IInv => TypeOK
    BY DEF IInv, FabricType, LineType, TypeOK
  <1> QED BY <1>1, Invariance, PTL

\* Whoever finds the switch in interface mode finds an interface to configure,
\* whatever handlers of other sessions are under way
THEOREM InterfaceKnownHolds == Spec => []InterfaceKnown
  <1>1. IInv => InterfaceKnown
    BY DEF IInv
  <1> QED BY <1>1, Invariance, PTL

\* In zone or zoneset mode, with no session between naming and creating, the
\* zone or zoneset of the context exists in the VSAN of the context, unless
\* sessions overlapped there
THEOREM ZoneKnownHolds == Spec => []ZoneKnown
  <1>1. IInv => ZoneKnown
    BY DEF IInv
  <1> QED BY <1>1, Invariance, PTL

\* With no "vsan N" half done for it, the VSAN of a port that was put into one
\* exists and lists it, however many sessions put it where, unless two of them
\* created the VSAN at the same time
THEOREM VsanListsPortHolds == Spec => []VsanListsPort
  <1>1. IInv => VsanListsPort
    BY DEF IInv, Databases, Listing, VsanListsPort
  <1> QED BY <1>1, Invariance, PTL

\* A VSAN has at most one active zoneset, and one that exists
THEOREM ActiveExistsHolds == Spec => []ActiveExists
  <1>1. IInv => ActiveExists
    BY DEF IInv, Databases
  <1> QED BY <1>1, Invariance, PTL
=============================================================================
