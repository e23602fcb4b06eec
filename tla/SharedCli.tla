----------------------------- MODULE SharedCli -----------------------------
(***************************************************************************)
(* The command line of a switch (cli/dispatcher.py, cli/modes.py) and what *)
(* its configuration commands write: the VSAN database and the zoning      *)
(* engine (fabric/vsan.py, fabric/zoning.py).                              *)
(*                                                                         *)
(* A switch has one Dispatcher with one CLIContext.  Three kinds of        *)
(* clients execute lines on it, each in a thread of its own:               *)
(*   students     type lines over SSH, one after the other;                *)
(*   automation   posts several lines in one NX-API request, which the     *)
(*                event loop executes back to back;                        *)
(*   instructors  POST /config/port, which _run_config_lines turns into    *)
(*                "configure terminal", "interface", ..., "exit", "exit".  *)
(*                                                                         *)
(* execute chooses the handler by the mode it finds; another thread may    *)
(* run before the handler looks at the context, and again where a handler  *)
(* or the VSAN database calls a function.  What has no call in between is  *)
(* one step: VSANDatabase.create tests, constructs the VSAN and stores it, *)
(* so its test is one step and the store, with the append that follows,    *)
(* another; ZoningEngine uses setdefault, which looks and stores at once.  *)
(*                                                                         *)
(* Lines are commands with their arguments; that abbreviations and words   *)
(* resolve to them is left out, and so are show texts, "hostname", and     *)
(* names of interfaces that do not exist, which change nothing.            *)
(* "copy", "write erase" and "reload" are the subject of StartupConfig.    *)
(***************************************************************************)
EXTENDS Naturals, Sequences, FiniteSets

CONSTANTS
    Port, Vsan, Zone, Zoneset, Pwwn,
    None,          \* a context field that is not set
    Student, Automation, Instructor,
    Script,        \* requests the automation posts: sequences of commands
    MaxRequests    \* bound: lines typed and requests posted

ASSUME NoneAssumption  == None \notin Port \union Vsan \union Zone \union Zoneset
ASSUME VsanAssumption  == Vsan \subseteq Nat /\ 1 \in Vsan
ASSUME BoundAssumption == MaxRequests \in Nat

Client == Student \union Automation \union Instructor

Plain == {"configure", "exit", "end", "show", "vsan database", "set"}

\* "set" stands for the commands of config-if that change the port itself:
\* shutdown, no shutdown, switchport speed, mode and trunk allowed vsan
Command ==
    [op : Plain]
    \union [op : {"interface"}, port : Port]
    \union [op : {"vsan"}, vsan : Vsan]
    \union [op : {"zone"}, vsan : Vsan, zone : Zone]
    \union [op : {"zoneset"}, vsan : Vsan, zoneset : Zoneset]
    \union [op : {"activate"}, vsan : Vsan, zoneset : Zoneset, form : {"name", "vsan"}]
    \union [op : {"member"}, member : Pwwn \union Zone]

ASSUME ScriptAssumption == Script \subseteq Seq(Command)

CliMode == {"exec", "config", "config-if", "config-vsan-db", "config-zone",
            "config-zoneset"}

CLIContext == [mode : CliMode, interface : Port \union {None},
               vsan : Vsan \union {None}, zone : Zone \union {None},
               zoneset : Zoneset \union {None}]

Fresh == [mode |-> "exec", interface |-> None, vsan |-> None, zone |-> None,
          zoneset |-> None]

\* The lines of a config_port request: some of the optional fields are given
ConfigPort(p, v) ==
    LET Around(lines) == <<[op |-> "configure"], [op |-> "interface", port |-> p]>>
                         \o lines \o <<[op |-> "exit"], [op |-> "exit"]>>
    IN  {Around(<<[op |-> "set"]>>),
         Around(<<[op |-> "set"], [op |-> "vsan", vsan |-> v], [op |-> "set"]>>)}

VARIABLES
    ctx,       \* CLIContext: the one of the Dispatcher
    at,        \* [Client -> where in execute its thread is]
    todo,      \* [Client -> Seq(Command)]: lines left of the request
    vsans,     \* VSANs that exist
    listed,    \* {<<v, p>>}: VSAN v lists interface p
    vsanOf,    \* [Port -> Vsan]: the vsan field of the port
    zones,     \* {<<v, z>>}
    members,   \* {<<v, z, m>>}: m is a member of zone z of VSAN v
    zonesets,  \* {<<v, s>>}
    included,  \* {<<v, s, z>>}: zone z is in zoneset s of VSAN v
    active,    \* {<<v, s>>}: the active zoneset of VSAN v
    contested, \* history: VSANs that two sessions have created at the same time
    crossed,   \* history: has the context been named by two sessions at the same time?
    requests   \* requests begun

zoning  == <<zones, members, zonesets, included, active>>
fabric  == <<vsans, listed, vsanOf, zoning>>
history == <<contested, crossed>>
vars    == <<ctx, at, todo, fabric, history, requests>>

Idle == [pc |-> "idle"]

Init ==
    /\ ctx = Fresh
    /\ at = [c \in Client |-> Idle]
    /\ todo = [c \in Client |-> <<>>]
    /\ vsans = {1}
    /\ vsanOf = [p \in Port |-> 1]
    /\ listed = {} /\ zones = {} /\ members = {}
    /\ zonesets = {} /\ included = {} /\ active = {}
    /\ contested = {}
    /\ crossed = FALSE
    /\ requests = 0

-----------------------------------------------------------------------------
(* The context                                                             *)

\* Handlers of mode t[1] that take the command t[2] to mode t[3].  There is
\* no "end" below config, and "configure" is a command of exec mode only.
ExecTransition == {<<"exec", "configure", "config">>}

ConfigTransition ==
    {<<"config", "interface",     "config-if">>,
     <<"config", "vsan database", "config-vsan-db">>,
     <<"config", "zone",          "config-zone">>,
     <<"config", "zoneset",       "config-zoneset">>,
     <<"config", "end",           "exec">>,
     <<"config", "exit",          "exec">>}

ExitTransition ==
    {<<"config-if",      "exit", "config">>,
     <<"config-vsan-db", "exit", "config">>,
     <<"config-zone",    "exit", "config">>,
     <<"config-zoneset", "exit", "config">>}

Transition == ExecTransition \union ConfigTransition \union ExitTransition

Moves == {<<t[1], t[2]>> : t \in Transition}

\* Commands of each mode that keep the mode
Works == {<<"exec", "show">>, <<"config", "activate">>, <<"config-if", "set">>,
          <<"config-if", "vsan">>, <<"config-vsan-db", "vsan">>,
          <<"config-zone", "member">>, <<"config-zoneset", "member">>}

\* Wrong variant: a mode that execute does not know
Target_Misspelt(m, op, current) ==
    IF op = "vsan database" THEN "config-vsan-database"
    ELSE IF <<m, op>> \in Moves
         THEN (CHOOSE t \in Transition : t[1] = m /\ t[2] = op)[3]
         ELSE current

\* The mode after the handler of mode m, in a context in mode current
Target(m, op, current) ==
    IF <<m, op>> \in Moves
    THEN (CHOOSE t \in Transition : t[1] = m /\ t[2] = op)[3]
    ELSE current

\* What the handler of mode m makes of the rest of the context
Select(m, cmd, x) ==
    CASE m = "config" /\ cmd.op = "interface" -> [x EXCEPT !.interface = cmd.port]
      [] m = "config" /\ cmd.op = "zone" ->
            [x EXCEPT !.zone = cmd.zone, !.vsan = cmd.vsan]
      [] m = "config" /\ cmd.op = "zoneset" ->
            [x EXCEPT !.zoneset = cmd.zoneset, !.vsan = cmd.vsan]
      [] m = "config-if" /\ cmd.op = "exit" -> [x EXCEPT !.interface = None]
      [] OTHER -> x

Move(m, cmd, x) ==
    [Select(m, cmd, x) EXCEPT !.mode = Target(m, cmd.op, x.mode)]

-----------------------------------------------------------------------------
(* Requests and lines                                                      *)

Begin(c, lines) ==
    /\ at[c] = Idle /\ todo[c] = <<>>
    /\ requests < MaxRequests
    /\ requests' = requests + 1
    /\ todo' = [todo EXCEPT ![c] = lines]
    /\ UNCHANGED <<ctx, at, fabric, history>>

StudentTypes(c) == c \in Student /\ \E cmd \in Command : Begin(c, <<cmd>>)

AutomationPosts(c) == c \in Automation /\ \E lines \in Script : Begin(c, lines)

InstructorPosts(c) ==
    c \in Instructor
    /\ \E p \in Port, v \in Vsan : \E lines \in ConfigPort(p, v) : Begin(c, lines)

\* execute: the mode found here chooses the handler
Dispatch(c) ==
    /\ at[c] = Idle /\ todo[c] # <<>>
    /\ at' = [at EXCEPT ![c] = [pc |-> "handle", mode |-> ctx.mode, cmd |-> Head(todo[c])]]
    /\ todo' = [todo EXCEPT ![c] = Tail(@)]
    /\ UNCHANGED <<ctx, fabric, history, requests>>

Returns(c) == at' = [at EXCEPT ![c] = Idle]

Handling(c, m, op) ==
    at[c].pc = "handle" /\ at[c].mode = m /\ at[c].cmd.op = op

\* Another session has left the interface mode since the line was dispatched
InterfaceLost(c) == at[c].mode = "config-if" /\ ctx.interface = None

\* Wrong variant: the interface is dropped first, the mode left later
Navigate_TwoSteps(c) ==
    /\ at[c].pc = "handle"
    /\ <<at[c].mode, at[c].cmd.op>> \in Moves
    /\ at[c].cmd.op \notin {"zone", "zoneset"}
    /\ ~InterfaceLost(c)
    /\ IF at[c].mode = "config-if"
       THEN /\ ctx' = Select(at[c].mode, at[c].cmd, ctx)
            /\ at' = [at EXCEPT ![c].pc = "create"]
       ELSE /\ ctx' = Move(at[c].mode, at[c].cmd, ctx)
            /\ Returns(c)
    /\ UNCHANGED <<todo, fabric, history, requests>>

\* The commands that change nothing but the context
Navigate(c) ==
    /\ at[c].pc = "handle"
    /\ <<at[c].mode, at[c].cmd.op>> \in Moves
    /\ at[c].cmd.op \notin {"zone", "zoneset"}
    /\ ~InterfaceLost(c)
    /\ ctx' = Move(at[c].mode, at[c].cmd, ctx)
    /\ Returns(c)
    /\ UNCHANGED <<todo, fabric, history, requests>>

\* Commands the mode does not have, and an interface mode without interface:
\* an error text
Reject(c) ==
    /\ at[c].pc = "handle"
    /\ InterfaceLost(c) \/ <<at[c].mode, at[c].cmd.op>> \notin Moves \union Works
    /\ Returns(c)
    /\ UNCHANGED <<ctx, todo, fabric, history, requests>>

Show(c) ==
    /\ Handling(c, "exec", "show")
    /\ Returns(c)
    /\ UNCHANGED <<ctx, todo, fabric, history, requests>>

\* A command that changes the port of the context in a way PortThreads models
SetInterface(c) ==
    /\ Handling(c, "config-if", "set") /\ ctx.interface # None
    /\ Returns(c)
    /\ UNCHANGED <<ctx, todo, fabric, history, requests>>

\* "vsan" in config-if, up to the call of assign_interface ...
SetVsan(c) ==
    /\ Handling(c, "config-if", "vsan") /\ ctx.interface # None
    /\ vsanOf' = [vsanOf EXCEPT ![ctx.interface] = at[c].cmd.vsan]
    /\ at' = [at EXCEPT ![c] = [pc |-> "assign", port |-> ctx.interface,
                                vsan |-> at[c].cmd.vsan]]
    /\ UNCHANGED <<ctx, todo, vsans, listed, zoning, history, requests>>

\* create finds no VSAN v, and calls VSAN(...) to make one for port p, or for
\* no port
Construct(c, v, p) ==
    /\ v \notin vsans
    /\ at' = [at EXCEPT ![c] = [pc |-> "store", port |-> p, vsan |-> v]]
    /\ contested' = contested \union
                    {u \in {v} : \E d \in Client : at[d].pc = "store" /\ at[d].vsan = u}
    /\ UNCHANGED listed

\* Wrong variant: only a VSAN that had to be created lists the interface
AssignInterface_OnlyNew(c) ==
    /\ at[c].pc = "assign"
    /\ \/ Construct(c, at[c].vsan, at[c].port)
       \/ /\ at[c].vsan \in vsans
          /\ Returns(c)
          /\ UNCHANGED <<listed, contested>>
    /\ UNCHANGED <<ctx, todo, vsans, vsanOf, zoning, crossed, requests>>

\* ... which lists the interface in the VSAN, unless it has to create it
AssignInterface(c) ==
    /\ at[c].pc = "assign"
    /\ \/ Construct(c, at[c].vsan, at[c].port)
       \/ /\ at[c].vsan \in vsans
          /\ listed' = listed \union {<<at[c].vsan, at[c].port>>}
          /\ Returns(c)
          /\ UNCHANGED contested
    /\ UNCHANGED <<ctx, todo, vsans, vsanOf, zoning, crossed, requests>>

\* "vsan" in config-vsan-db
CreateVsan(c) ==
    /\ Handling(c, "config-vsan-db", "vsan")
    /\ \/ Construct(c, at[c].cmd.vsan, None)
       \/ /\ at[c].cmd.vsan \in vsans
          /\ Returns(c)
          /\ UNCHANGED <<listed, contested>>
    /\ UNCHANGED <<ctx, todo, vsans, vsanOf, zoning, crossed, requests>>

\* The new VSAN is stored, whatever is there by now, and lists nothing but the
\* port it was made for
StoreVsan(c) ==
    /\ at[c].pc = "store"
    /\ vsans' = vsans \union {at[c].vsan}
    /\ listed' = {x \in listed : x[1] # at[c].vsan}
                 \union {<<at[c].vsan, p>> : p \in {at[c].port} \ {None}}
    /\ Returns(c)
    /\ UNCHANGED <<ctx, todo, vsanOf, zoning, history, requests>>

\* Wrong variant: the zone is named, but its VSAN is not
NameZone_KeepsVsan(c) ==
    /\ at[c].pc = "handle" /\ at[c].mode = "config"
    /\ at[c].cmd.op \in {"zone", "zoneset"}
    /\ ctx' = [Select("config", at[c].cmd, ctx) EXCEPT !.vsan = ctx.vsan]
    /\ at' = [at EXCEPT ![c].pc = "create"]
    /\ crossed' = \E d \in Client : at[d].pc = "create"
    /\ UNCHANGED <<todo, fabric, contested, requests>>

\* "zone name" and "zoneset name": the context is written first ...
NameZone(c) ==
    /\ at[c].pc = "handle" /\ at[c].mode = "config"
    /\ at[c].cmd.op \in {"zone", "zoneset"}
    /\ ctx' = Select("config", at[c].cmd, ctx)
    /\ at' = [at EXCEPT ![c].pc = "create"]
    /\ crossed' = \E d \in Client : at[d].pc = "create"
    /\ UNCHANGED <<todo, fabric, contested, requests>>

\* ... then the zone is created if it has to, and the mode entered
CreateZone(c) ==
    /\ at[c].pc = "create"
    /\ LET cmd == at[c].cmd
       IN  /\ zones' = IF cmd.op = "zone"
                       THEN zones \union {<<cmd.vsan, cmd.zone>>} ELSE zones
           /\ zonesets' = IF cmd.op = "zoneset"
                          THEN zonesets \union {<<cmd.vsan, cmd.zoneset>>} ELSE zonesets
           /\ ctx' = [ctx EXCEPT !.mode = Target("config", cmd.op, @)]
    /\ Returns(c)
    /\ UNCHANGED <<todo, vsans, listed, vsanOf, members, included, active, history,
                   requests>>

\* Wrong variant: activates without looking for the zoneset
Activate_Unchecked(c) ==
    /\ Handling(c, "config", "activate")
    /\ LET v == at[c].cmd.vsan  s == at[c].cmd.zoneset
       IN  active' = {a \in active : a[1] # v} \union {<<v, s>>}
    /\ Returns(c)
    /\ UNCHANGED <<ctx, todo, vsans, listed, vsanOf, zones, members, zonesets,
                   included, history, requests>>

\* The name is the fourth word: of "zoneset activate name S vsan V" that is S,
\* of "zoneset activate vsan V S" the VSAN number, which names no zoneset
Activate(c) ==
    /\ Handling(c, "config", "activate")
    /\ LET v == at[c].cmd.vsan  s == at[c].cmd.zoneset
       IN  active' = IF at[c].cmd.form = "name" /\ <<v, s>> \in zonesets
                     THEN {a \in active : a[1] # v} \union {<<v, s>>}
                     ELSE active
    /\ Returns(c)
    /\ UNCHANGED <<ctx, todo, vsans, listed, vsanOf, zones, members, zonesets,
                   included, history, requests>>

\* add_member and add_zone_to_zoneset create what the context names.  The
\* first takes the last word, the second the word after "member".
AddMember(c) ==
    /\ Handling(c, "config-zone", "member")
    /\ zones' = zones \union {<<ctx.vsan, ctx.zone>>}
    /\ members' = members \union {<<ctx.vsan, ctx.zone, at[c].cmd.member>>}
    /\ Returns(c)
    /\ UNCHANGED <<ctx, todo, vsans, listed, vsanOf, zonesets, included, active,
                   history, requests>>

AddZone(c) ==
    /\ Handling(c, "config-zoneset", "member")
    /\ zonesets' = zonesets \union {<<ctx.vsan, ctx.zoneset>>}
    /\ LET word == IF at[c].cmd.member \in Zone THEN at[c].cmd.member ELSE "pwwn"
       IN  included' = included \union {<<ctx.vsan, ctx.zoneset, word>>}
    /\ Returns(c)
    /\ UNCHANGED <<ctx, todo, vsans, listed, vsanOf, zones, members, active,
                   history, requests>>

Handle(c) ==
    \/ Navigate(c) \/ Reject(c) \/ Show(c)
    \/ SetInterface(c)
    \/ SetVsan(c) \/ AssignInterface(c) \/ CreateVsan(c) \/ StoreVsan(c)
    \/ NameZone(c) \/ CreateZone(c) \/ Activate(c) \/ AddMember(c) \/ AddZone(c)

Next ==
    \E c \in Client :
        \/ StudentTypes(c) \/ AutomationPosts(c) \/ InstructorPosts(c)
        \/ Dispatch(c) \/ Handle(c)

Spec == Init /\ [][Next]_vars

-----------------------------------------------------------------------------
(* Properties                                                              *)

\* Where a thread can be in execute
Place == {Idle}
         \union [pc : {"handle", "create"}, mode : CliMode, cmd : Command]
         \union [pc : {"assign"}, port : Port, vsan : Vsan]
         \union [pc : {"store"}, port : Port \union {None}, vsan : Vsan]

\* Every variable has its type (CLIContext, VSANDatabase, ZoningEngine)
TypeOK ==
    /\ ctx \in CLIContext
    /\ at \in [Client -> Place]
    /\ todo \in [Client -> Seq(Command)]
    /\ vsans \subseteq Vsan
    /\ listed \subseteq Vsan \X Port
    /\ vsanOf \in [Port -> Vsan]
    /\ zones \subseteq Vsan \X Zone
    /\ members \subseteq Vsan \X Zone \X (Pwwn \union Zone)
    /\ zonesets \subseteq Vsan \X Zoneset
    /\ included \subseteq Vsan \X Zoneset \X (Zone \union {"pwwn"})
    /\ active \subseteq Vsan \X Zoneset
    /\ contested \subseteq Vsan
    /\ crossed \in BOOLEAN
    /\ requests \in 0..MaxRequests

\* Whoever finds the switch in interface mode finds an interface to configure,
\* whatever handlers of other sessions are under way: the two fields are
\* written together (dispatcher.py:111-112 and 182-183)
InterfaceKnown == ctx.mode = "config-if" => ctx.interface # None

\* Whoever finds the switch in zone or zoneset mode while no session is
\* between naming a zone and creating it, finds the zone or zoneset that the
\* context names in the VSAN that it names, although these are three writes, two
\* of them before the call and one after it (dispatcher.py:121-134).  The
\* exception are sessions that overlap there: the later mode may then meet the
\* other session's VSAN.
ZoneKnown ==
    (~crossed /\ \A c \in Client : at[c].pc # "create") =>
        /\ ctx.mode = "config-zone"    => <<ctx.vsan, ctx.zone>> \in zones
        /\ ctx.mode = "config-zoneset" => <<ctx.vsan, ctx.zoneset>> \in zonesets

\* Once no thread is at work on "vsan N" for it, a port that was put into a VSAN
\* is listed by that VSAN, also if sessions put the same port into two VSANs or
\* a session creates the VSAN meanwhile (dispatcher.py:174-175).  The exception
\* is a VSAN that two sessions found missing at the same time: the second VSAN
\* stored replaces the first with its list (vsan.py:20-21).
VsanListsPort ==
    \A p \in Port :
        /\ vsanOf[p] \notin {1} \union contested
        /\ ~\E c \in Client : at[c].pc \in {"assign", "store"} /\ at[c].port = p
        => vsanOf[p] \in vsans /\ <<vsanOf[p], p>> \in listed

\* A VSAN has at most one active zoneset, and one that exists: "show zoneset
\* active" finds what it looks up (zoning.py:45-62)
ActiveExists ==
    /\ active \subseteq zonesets
    /\ \A a, b \in active : a[1] = b[1] => a = b
=============================================================================
