--------------------------- MODULE StartupConfig ---------------------------
(***************************************************************************)
(* The running and the startup configuration of a switch: to_dict and      *)
(* load_dict (config/running_config.py), the JSON file on disk             *)
(* (config/config_store.py), and the commands "copy running-config         *)
(* startup-config", "write erase" and "reload" (cli/dispatcher.py).        *)
(*                                                                         *)
(* Sessions run in threads of their own.  A save collects the VSANs, then  *)
(* the ports, makes a text of both, opens the file, which empties it, and  *)
(* writes the text.                                                        *)
(* Other sessions run in between, and the process may be killed.  The file *)
(* is a name for a text and a length: a shorter text written over a longer *)
(* one leaves the end of the longer one behind it, and the whole is not    *)
(* JSON any more.                                                          *)
(*                                                                         *)
(* Left out: host name, management address, speed, mode and allowed VSANs  *)
(* of a port, which are saved and loaded as the administrative state is.   *)
(* Zoning is neither saved nor loaded.                                     *)
(***************************************************************************)
EXTENDS Integers, FiniteSets

CONSTANTS
    Session,      \* threads that execute commands
    Port, Vsan,
    MaxOps,       \* bound: commands and instructor calls
    MaxSaves,     \* bound: saves begun
    MaxCrashes    \* bound: kills

ASSUME VsanAssumption  == Vsan \subseteq Nat /\ 1 \in Vsan
ASSUME FiniteAssumption == IsFiniteSet(Vsan) /\ IsFiniteSet(Port)
ASSUME BoundAssumption == MaxOps \in Nat /\ MaxSaves \in Nat /\ MaxCrashes \in Nat

\* What the file says of a port, and of the switch
PortEntry == [admin : {"up", "down"}, vsan : Vsan, sfp : BOOLEAN]
Text == [vsans : SUBSET Vsan, listed : SUBSET (Vsan \X Port),
         ports : [Port -> PortEntry]]

\* Longer texts: an entry of a VSAN takes some hundred characters, an interface
\* in it ten, "down" two more than "up", "16G_SW" four more than null
Length(t) == 100 * Cardinality(t.vsans) + 10 * Cardinality(t.listed)
             + 2 * Cardinality({p \in Port : t.ports[p].admin = "down"})
             + 4 * Cardinality({p \in Port : t.ports[p].sfp})
             + 1

Factory == [vsans |-> {1}, listed |-> {},
            ports |-> [p \in Port |-> [admin |-> "down", vsan |-> 1, sfp |-> FALSE]]]

Nothing == [vsans |-> {}, listed |-> {}, ports |-> Factory.ports]

VARIABLES
    running,   \* Text: RunningConfig, what to_dict says of it
    alive,     \* BOOLEAN: the process runs
    file,      \* [exists, length, text]: what is at the path
    saving,    \* [Session -> how far the session is with a save]
    overlap,   \* history: two saves have been under way at a time
    promised,  \* history: what the last undisturbed save has acknowledged
    booted,    \* history: what the process started from, till it is changed
    ops, saves, crashes

vars == <<running, alive, file, saving, overlap, promised, booted, ops, saves, crashes>>

Idle    == [pc |-> "idle"]
Absent  == [exists |-> FALSE, length |-> 0, text |-> Nothing]
Unknown == [known |-> FALSE, text |-> Nothing]

Init ==
    /\ running = Factory
    /\ alive = TRUE
    /\ file = Absent
    /\ saving = [s \in Session |-> Idle]
    /\ overlap = FALSE
    /\ promised = Unknown
    /\ booted = Unknown
    /\ ops = 0 /\ saves = 0 /\ crashes = 0

OthersIdle(s) == \A r \in Session \ {s} : saving[r] = Idle

\* The file parses
Complete == file.exists /\ file.length = Length(file.text)

\* Wrong variant: the VSAN of a port is not restored
LoadDict_NoVsan(r, t) ==
    [r EXCEPT !.vsans = @ \union t.vsans,
              !.ports = [p \in Port |->
                  [t.ports[p] EXCEPT !.vsan = r.ports[p].vsan,
                                     !.sfp = @ \/ r.ports[p].sfp]]]

\* Wrong variant: numbers the VSANs of the text from one above
LoadDict_Shifted(r, t) ==
    [r EXCEPT !.vsans = @ \union {v + 1 : v \in t.vsans},
              !.ports = [p \in Port |-> [t.ports[p] EXCEPT !.sfp = @ \/ r.ports[p].sfp]]]

\* load_dict adds the VSANs of the text without their interfaces, and sets the
\* ports; a port without transceiver in the text keeps the one it has
LoadDict(r, t) ==
    [r EXCEPT !.vsans = @ \union t.vsans,
              !.ports = [p \in Port |-> [t.ports[p] EXCEPT !.sfp = @ \/ r.ports[p].sfp]]]

-----------------------------------------------------------------------------
(* Changes of the running configuration                                    *)

Change(r) ==
    /\ alive /\ ops < MaxOps
    /\ ops' = ops + 1
    /\ running' = r
    /\ booted' = Unknown
    /\ UNCHANGED <<alive, file, saving, overlap, promised, saves, crashes>>

\* "vsan N" of an interface: creates the VSAN, lists the interface
AssignVsan == \E p \in Port, v \in Vsan :
    Change([running EXCEPT !.vsans = @ \union {v}, !.listed = @ \union {<<v, p>>},
                           !.ports[p].vsan = v])

SetAdmin == \E p \in Port, a \in {"up", "down"} :
    Change([running EXCEPT !.ports[p].admin = a])

SetSfp == \E p \in Port, in \in BOOLEAN : Change([running EXCEPT !.ports[p].sfp = in])

-----------------------------------------------------------------------------
(* copy running-config startup-config                                      *)

Step(s, to) == saving' = [saving EXCEPT ![s] = to]

CollectVsans(s) ==
    /\ alive /\ saving[s] = Idle /\ saves < MaxSaves
    /\ saves' = saves + 1
    /\ Step(s, [pc |-> "ports", vsans |-> running.vsans])
    /\ overlap' = (overlap \/ ~OthersIdle(s))
    /\ promised' = Unknown
    /\ UNCHANGED <<running, alive, file, booted, ops, crashes>>

CollectPorts(s) ==
    /\ alive /\ saving[s].pc = "ports"
    /\ Step(s, [pc |-> "dump", vsans |-> saving[s].vsans, ports |-> running.ports])
    /\ UNCHANGED <<running, alive, file, overlap, promised, booted, ops, saves, crashes>>

\* json.dumps: of the VSANs collected, show has handed out the interface lists
\* themselves, which say what they say now
Dump(s) ==
    /\ alive /\ saving[s].pc = "dump"
    /\ Step(s, [pc |-> "open",
                text |-> [vsans |-> saving[s].vsans, ports |-> saving[s].ports,
                          listed |-> {x \in running.listed : x[1] \in saving[s].vsans}]])
    /\ UNCHANGED <<running, alive, file, overlap, promised, booted, ops, saves, crashes>>

\* write_text opens the path for writing ...
Open(s) ==
    /\ alive /\ saving[s].pc = "open"
    /\ file' = [Absent EXCEPT !.exists = TRUE]
    /\ Step(s, [saving[s] EXCEPT !.pc = "write"])
    /\ UNCHANGED <<running, alive, overlap, promised, booted, ops, saves, crashes>>

\* ... and writes from the beginning; a file erased meanwhile takes the text
\* to nowhere.  "Copy complete."
Write(s) ==
    /\ alive /\ saving[s].pc \in {"write", "lost"}
    /\ LET t == saving[s].text
       IN  /\ file' = IF saving[s].pc = "lost" THEN file
                      ELSE [exists |-> TRUE, text |-> t,
                            length |-> IF file.length > Length(t) THEN file.length
                                                                  ELSE Length(t)]
           /\ promised' = IF saving[s].pc = "write" /\ ~overlap
                          THEN [known |-> TRUE, text |-> t]
                          ELSE Unknown
    /\ overlap' = (overlap /\ ~OthersIdle(s))
    /\ Step(s, Idle)
    /\ UNCHANGED <<running, alive, booted, ops, saves, crashes>>

-----------------------------------------------------------------------------
(* write erase, reload, and the life of the process                        *)

Erase ==
    /\ alive /\ file.exists
    /\ file' = Absent
    /\ saving' = [s \in Session |-> IF saving[s].pc = "write"
                                   THEN [saving[s] EXCEPT !.pc = "lost"] ELSE saving[s]]
    /\ promised' = Unknown
    /\ UNCHANGED <<running, alive, overlap, booted, ops, saves, crashes>>

\* A file that does not parse makes an error text; a missing one an empty
\* configuration, which leaves VSANs and ports alone.  That load_dict goes through
\* VSANs and ports one by one is left out: the file is read before, and booted is
\* forgotten from here on.
Reload ==
    /\ alive /\ Complete
    /\ running' = LoadDict(running, file.text)
    /\ booted' = Unknown
    /\ UNCHANGED <<alive, file, saving, overlap, promised, ops, saves, crashes>>

\* Wrong variant: a switch that starts writes the factory settings first
Boot_Initialises ==
    /\ ~alive
    /\ file.exists => Complete
    /\ alive' = TRUE
    /\ running' = Factory
    /\ file' = [exists |-> TRUE, length |-> Length(Factory),
                text |-> [vsans |-> {1}, listed |-> {}, ports |-> Factory.ports]]
    /\ booted' = Unknown
    /\ UNCHANGED <<saving, overlap, promised, ops, saves, crashes>>

\* build_switch; a file that does not parse ends the process at once
Boot ==
    /\ ~alive
    /\ file.exists => Complete
    /\ alive' = TRUE
    /\ running' = IF file.exists THEN LoadDict(Factory, file.text) ELSE Factory
    /\ booted' = IF file.exists
                 THEN [known |-> TRUE, text |-> file.text] ELSE Unknown
    /\ UNCHANGED <<file, saving, overlap, promised, ops, saves, crashes>>

Crash ==
    /\ alive /\ crashes < MaxCrashes
    /\ crashes' = crashes + 1
    /\ alive' = FALSE
    /\ saving' = [s \in Session |-> Idle]
    /\ overlap' = FALSE
    /\ booted' = Unknown
    /\ UNCHANGED <<running, file, promised, ops, saves>>

Next ==
    \/ AssignVsan \/ SetAdmin \/ SetSfp
    \/ \E s \in Session : 
        CollectVsans(s) \/ CollectPorts(s) \/ Dump(s) \/ Open(s) \/ Write(s)
    \/ Erase \/ Reload \/ Boot \/ Crash

Spec == Init /\ [][Next]_vars

-----------------------------------------------------------------------------
(* Properties                                                              *)

\* Every variable has its type (to_dict, ConfigStore)
TypeOK ==
    /\ running \in Text
    /\ alive \in BOOLEAN
    /\ file \in [exists : BOOLEAN, length : Nat, text : Text]
    /\ saving \in [Session ->
          {Idle}
          \union [pc : {"ports"}, vsans : SUBSET Vsan]
          \union [pc : {"dump"}, vsans : SUBSET Vsan, ports : [Port -> PortEntry]]
          \union [pc : {"open", "write", "lost"}, text : Text]]
    /\ overlap \in BOOLEAN
    /\ promised \in [known : BOOLEAN, text : Text]
    /\ booted \in [known : BOOLEAN, text : Text]
    /\ ops \in 0..MaxOps /\ saves \in 0..MaxSaves /\ crashes \in 0..MaxCrashes

\* What a save that no other save overlapped has acknowledged is in the file,
\* whole, until the next save or "write erase": changes, reloads, kills and
\* restarts do not touch it (config_store.py:11-13, dispatcher.py:59-61)
SavedStays == promised.known => Complete /\ file.text = promised.text

\* A switch that starts from a file has the ports and the VSANs the file says,
\* until somebody changes them (running_config.py:46-62)
SettingsSurvive ==
    (alive /\ booted.known) =>
        running.ports = booted.text.ports /\ running.vsans = booted.text.vsans
=============================================================================
