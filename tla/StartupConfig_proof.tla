------------------------- MODULE StartupConfig_proof -------------------------
(***************************************************************************)
(* Proofs about the running and the startup configuration, for any finite  *)
(* sets of VSANs and ports, any number of sessions and any bounds: type    *)
(* correctness, and that what an undisturbed save has acknowledged stays   *)
(* in the file (SavedStays) and comes back at the next start               *)
(* (SettingsSurvive).                                                      *)
(*                                                                         *)
(* SavedStays says nothing of the sessions that are about to empty the     *)
(* file.  Alone, Kept and Emptied add that a save that is not overlapped   *)
(* is the only one under way, that none is under way while a promise is    *)
(* known, and that the only writer finds the file as empty as its own Open *)
(* has left it.  SettingsSurvive needs HasDefault: VSAN 1 is in every text *)
(* there is, because the switch that starts has it anyway.                 *)
(***************************************************************************)
EXTENDS StartupConfig, FiniteSetTheorems, TLAPS

Busy(s) == saving[s] # Idle

\* Without an overlap there is one save at most
Alone == ~overlap => \A r, s \in Session : Busy(r) /\ Busy(s) => r = s

\* A known promise is in the file, whole, and nobody is saving
Kept ==
    promised.known =>
        /\ Complete /\ file.text = promised.text
        /\ \A s \in Session : ~Busy(s)

\* Without an overlap the file is as empty as Open has left it
Emptied ==
    ~overlap => \A s \in Session :
                    saving[s].pc = "write" => file.exists /\ file.length = 0

\* VSAN 1 is in the running configuration, in what is collected and in the file
HasDefault ==
    /\ 1 \in running.vsans
    /\ \A s \in Session :
          /\ saving[s].pc \in {"ports", "dump"} => 1 \in saving[s].vsans
          /\ saving[s].pc \in {"open", "write", "lost"} => 1 \in saving[s].text.vsans
    /\ file.length # 0 => 1 \in file.text.vsans

IInv == TypeOK /\ Alone /\ Kept /\ Emptied /\ HasDefault /\ SettingsSurvive

-----------------------------------------------------------------------------
(* Texts *)

\* A text is not empty
LEMMA LengthType ==
    ASSUME NEW t \in Text
    PROVE  Length(t) \in Nat /\ Length(t) > 0
  <1>1. \A S : S \subseteq Vsan \/ S \subseteq Port => Cardinality(S) \in Nat
    BY FiniteAssumption, FS_Subset, FS_CardinalityType
  <1>2. \A S : S \subseteq Vsan \X Port => Cardinality(S) \in Nat
    BY FiniteAssumption, FS_Subset, FS_CardinalityType, FS_Product
  <1>3. t.vsans \subseteq Vsan /\ t.listed \subseteq Vsan \X Port
    BY DEF Text
  <1>4. /\ Cardinality(t.vsans) \in Nat /\ Cardinality(t.listed) \in Nat
        /\ Cardinality({p \in Port : t.ports[p].admin = "down"}) \in Nat
        /\ Cardinality({p \in Port : t.ports[p].sfp}) \in Nat
    BY <1>1, <1>2, <1>3
  <1> QED BY <1>4 DEF Length

LEMMA FactoryType == Factory \in Text /\ Nothing \in Text /\ 1 \in Factory.vsans
  <1>1. [admin |-> "down", vsan |-> 1, sfp |-> FALSE] \in PortEntry
    BY VsanAssumption DEF PortEntry
  <1> QED BY <1>1, VsanAssumption DEF Factory, Nothing, Text

\* load_dict takes the ports of the text and adds its VSANs
LEMMA LoadDictType ==
    ASSUME NEW r \in Text, NEW t \in Text
    PROVE  /\ LoadDict(r, t) \in Text
           /\ LoadDict(r, t).vsans = r.vsans \union t.vsans
           /\ LoadDict(r, t).ports =
                [p \in Port |-> [t.ports[p] EXCEPT !.sfp = @ \/ r.ports[p].sfp]]
  <1> DEFINE ports == [p \in Port |-> [t.ports[p] EXCEPT !.sfp = @ \/ r.ports[p].sfp]]
             r1 == [r EXCEPT !.vsans = @ \union t.vsans]
  <1>1. ports \in [Port -> PortEntry]
    <2>1. \A e, f \in PortEntry : [e EXCEPT !.sfp = @ \/ f.sfp] \in PortEntry
      BY DEF PortEntry
    <2>2. \A p \in Port : t.ports[p] \in PortEntry /\ r.ports[p] \in PortEntry
      BY DEF Text
    <2> QED BY <2>1, <2>2
  <1>2. LoadDict(r, t) = [r1 EXCEPT !.ports = ports]
    BY DEF LoadDict
  <1> HIDE DEF ports
  <1>3. r1 \in Text /\ r1.vsans = r.vsans \union t.vsans
    BY DEF Text
  <1> HIDE DEF r1
  <1>4. [r1 EXCEPT !.ports = ports] \in Text /\ [r1 EXCEPT !.ports = ports].vsans = r1.vsans
        /\ [r1 EXCEPT !.ports = ports].ports = ports
    BY <1>1, <1>3 DEF Text
  <1> QED BY <1>2, <1>3, <1>4 DEF ports

\* A switch that starts has what the text says, no more: the factory ports
\* have no transceiver, and VSAN 1 is in every text
LEMMA BootLoads ==
    ASSUME NEW t \in Text, 1 \in t.vsans
    PROVE  LoadDict(Factory, t).vsans = t.vsans /\ LoadDict(Factory, t).ports = t.ports
  <1>1. Factory.vsans = {1} /\ \A p \in Port : Factory.ports[p].sfp = FALSE
    BY DEF Factory
  <1>0. /\ LoadDict(Factory, t).vsans = Factory.vsans \union t.vsans
        /\ LoadDict(Factory, t).ports =
             [p \in Port |-> [t.ports[p] EXCEPT !.sfp = @ \/ Factory.ports[p].sfp]]
    <2>1. Factory \in Text
      BY FactoryType
    <2> QED BY <2>1, LoadDictType
  <1>2. LoadDict(Factory, t).vsans = t.vsans
    BY <1>0, <1>1
  <1>3. \A p \in Port : [t.ports[p] EXCEPT !.sfp = @ \/ Factory.ports[p].sfp] = t.ports[p]
    <2>1. \A p \in Port : t.ports[p] \in PortEntry
      BY DEF Text
    <2> QED BY <1>1, <2>1 DEF PortEntry
  <1>4. t.ports = [p \in Port |-> t.ports[p]]
    BY DEF Text
  <1> QED BY <1>0, <1>2, <1>3, <1>4

\* The commands keep the running configuration a configuration, and its VSANs
LEMMA ChangeType ==
    ASSUME running \in Text, AssignVsan \/ SetAdmin \/ SetSfp
    PROVE  running' \in Text /\ running.vsans \subseteq running'.vsans
  <1>0. \A p \in Port : running.ports[p] \in PortEntry
    BY DEF Text
  <1>1. ASSUME NEW ports \in [Port -> PortEntry], NEW r \in Text
        PROVE  LET q == [r EXCEPT !.ports = ports]
               IN  q \in Text /\ q.vsans = r.vsans
    BY DEF Text
  <1>2. ASSUME NEW p \in Port, NEW v \in Vsan,
               running' = [running EXCEPT !.vsans = @ \union {v}, !.listed = @ \union {<<v, p>>},
                                          !.ports[p].vsan = v]
        PROVE  running' \in Text /\ running.vsans \subseteq running'.vsans
    <2> DEFINE r1 == [running EXCEPT !.vsans = @ \union {v}]
               r2 == [r1 EXCEPT !.listed = @ \union {<<v, p>>}]
               ports == [running.ports EXCEPT ![p] = [@ EXCEPT !.vsan = v]]
    <2>1. r1 \in Text /\ running.vsans \subseteq r1.vsans
      BY DEF Text
    <2>2. r2 \in Text /\ r2.vsans = r1.vsans
      <3>1. <<v, p>> \in Vsan \X Port
        OBVIOUS
      <3> HIDE DEF r1
      <3> QED BY <2>1, <3>1 DEF Text
    <2>3. ports \in [Port -> PortEntry]
      <3>1. [running.ports[p] EXCEPT !.vsan = v] \in PortEntry
        BY <1>0 DEF PortEntry
      <3> QED BY <1>0, <3>1 DEF Text
    <2>4. running' = [r2 EXCEPT !.ports = ports]
      BY <1>2 DEF Text
    <2> HIDE DEF r1, r2, ports
    <2> QED BY <1>1, <2>1, <2>2, <2>3, <2>4
  <1>3. ASSUME NEW p \in Port, NEW a \in {"up", "down"},
               running' = [running EXCEPT !.ports[p].admin = a]
        PROVE  running' \in Text /\ running.vsans \subseteq running'.vsans
    <2> DEFINE ports == [running.ports EXCEPT ![p] = [@ EXCEPT !.admin = a]]
    <2>1. [running.ports[p] EXCEPT !.admin = a] \in PortEntry
      BY <1>0 DEF PortEntry
    <2>2. ports \in [Port -> PortEntry]
      BY <1>0, <2>1 DEF Text
    <2>3. running' = [running EXCEPT !.ports = ports]
      BY <1>3
    <2> HIDE DEF ports
    <2> QED BY <1>1, <2>2, <2>3
  <1>4. ASSUME NEW p \in Port, NEW in \in BOOLEAN,
               running' = [running EXCEPT !.ports[p].sfp = in]
        PROVE  running' \in Text /\ running.vsans \subseteq running'.vsans
    <2> DEFINE ports == [running.ports EXCEPT ![p] = [@ EXCEPT !.sfp = in]]
    <2>1. [running.ports[p] EXCEPT !.sfp = in] \in PortEntry
      BY <1>0 DEF PortEntry
    <2>2. ports \in [Port -> PortEntry]
      BY <1>0, <2>1 DEF Text
    <2>3. running' = [running EXCEPT !.ports = ports]
      BY <1>4
    <2> HIDE DEF ports
    <2> QED BY <1>1, <2>2, <2>3
  <1> QED BY <1>2, <1>3, <1>4 DEF AssignVsan, SetAdmin, SetSfp, Change

-----------------------------------------------------------------------------
(* Sessions that save *)

SavingState ==
    {Idle}
    \union [pc : {"ports"}, vsans : SUBSET Vsan]
    \union [pc : {"dump"}, vsans : SUBSET Vsan, ports : [Port -> PortEntry]]
    \union [pc : {"open", "write", "lost"}, text : Text]

FileState == [exists : BOOLEAN, length : Nat, text : Text]

Promise == [known : BOOLEAN, text : Text]

\* What a session holds at each point of a save
LEMMA SavingFacts ==
    ASSUME NEW x \in SavingState
    PROVE  /\ x.pc = "idle" <=> x = Idle
           /\ x.pc \in {"idle", "ports", "dump", "open", "write", "lost"}
           /\ x.pc \in {"ports", "dump"} => x.vsans \subseteq Vsan
           /\ x.pc = "dump" => x.ports \in [Port -> PortEntry]
           /\ x.pc \in {"open", "write", "lost"} =>
                /\ x.text \in Text
                /\ \A pc \in {"write", "lost"} :
                      /\ [x EXCEPT !.pc = pc] \in SavingState
                      /\ [x EXCEPT !.pc = pc].text = x.text
                      /\ [x EXCEPT !.pc = pc].pc = pc
  BY DEF SavingState, Idle

LEMMA Types ==
    TypeOK <=> /\ running \in Text /\ alive \in BOOLEAN /\ file \in FileState
               /\ saving \in [Session -> SavingState] /\ overlap \in BOOLEAN
               /\ promised \in Promise /\ booted \in Promise
               /\ ops \in 0..MaxOps /\ saves \in 0..MaxSaves /\ crashes \in 0..MaxCrashes
  BY DEF TypeOK, FileState, SavingState, Promise

\* The values the actions write
LEMMA Written ==
    /\ Idle \in SavingState /\ Absent \in FileState /\ Unknown \in Promise
    /\ Absent.exists = FALSE /\ Absent.length = 0 /\ Unknown.known = FALSE
    /\ LET f == [Absent EXCEPT !.exists = TRUE]
       IN  f \in FileState /\ f.exists = TRUE /\ f.length = 0
    /\ \A t \in Text : [known |-> TRUE, text |-> t] \in Promise
    /\ Idle.pc = "idle"
  BY FactoryType DEF Idle, SavingState, Absent, FileState, Unknown, Promise

LEMMA InitIInv == Init => IInv
  <1> SUFFICES ASSUME Init PROVE IInv
    OBVIOUS
  <1>1. TypeOK
    <2>1. saving \in [Session -> SavingState]
      BY Written DEF Init
    <2>2. ops \in 0..MaxOps /\ saves \in 0..MaxSaves /\ crashes \in 0..MaxCrashes
      BY BoundAssumption DEF Init
    <2>3. running \in Text /\ file \in FileState /\ promised \in Promise /\ booted \in Promise
      BY FactoryType, Written DEF Init
    <2>4. alive \in BOOLEAN /\ overlap \in BOOLEAN
      BY DEF Init
    <2> QED BY <2>1, <2>2, <2>3, <2>4, Types
  <1>2. \A s \in Session : ~Busy(s) /\ saving[s].pc = "idle"
    BY Written DEF Init, Busy
  <1> QED BY <1>1, <1>2, FactoryType, Written
          DEF Init, IInv, Alone, Kept, Emptied, HasDefault, SettingsSurvive

\* A session takes one step of a save
LEMMA StepOf ==
    ASSUME saving \in [Session -> SavingState], NEW s \in Session,
           NEW to \in SavingState, Step(s, to)
    PROVE  /\ saving' \in [Session -> SavingState]
           /\ \A r \in Session : saving'[r] = IF r = s THEN to ELSE saving[r]
  BY DEF Step

\* What each step of a save leaves with its session
LEMMA SaveSteps ==
    ASSUME TypeOK, NEW s \in Session
    PROVE  /\ CollectVsans(s) =>
                LET to == [pc |-> "ports", vsans |-> running.vsans]
                IN  to \in SavingState /\ Step(s, to)
           /\ CollectPorts(s) =>
                LET to == [pc |-> "dump", vsans |-> saving[s].vsans, ports |-> running.ports]
                IN  to \in SavingState /\ Step(s, to)
           /\ Dump(s) =>
                \E t \in Text : /\ t.vsans = saving[s].vsans
                                /\ Step(s, [pc |-> "open", text |-> t])
                                /\ [pc |-> "open", text |-> t] \in SavingState
           /\ Open(s) =>
                \E to \in SavingState :
                    to.pc = "write" /\ to.text = saving[s].text /\ Step(s, to)
  <1>1. running \in Text /\ saving[s] \in SavingState
    BY Types
  <1>2. ASSUME Dump(s)
        PROVE  \E t \in Text : /\ t.vsans = saving[s].vsans
                               /\ Step(s, [pc |-> "open", text |-> t])
                               /\ [pc |-> "open", text |-> t] \in SavingState
    <2> DEFINE listed == {x \in running.listed : x[1] \in saving[s].vsans}
               t == [vsans |-> saving[s].vsans, ports |-> saving[s].ports,
                     listed |-> listed]
    <2>1. saving[s].vsans \subseteq Vsan /\ saving[s].ports \in [Port -> PortEntry]
      BY <1>1, <1>2, SavingFacts DEF Dump
    <2>2. listed \subseteq Vsan \X Port
      BY <1>1 DEF Text
    <2>3. Step(s, [pc |-> "open", text |-> t])
      BY <1>2 DEF Dump
    <2> HIDE DEF listed
    <2>4. t \in Text /\ t.vsans = saving[s].vsans
      BY <2>1, <2>2 DEF Text
    <2> HIDE DEF t
    <2>5. [pc |-> "open", text |-> t] \in SavingState
      BY <2>4 DEF SavingState
    <2> QED BY <2>3, <2>4, <2>5
  <1>3. CollectVsans(s) =>
          LET to == [pc |-> "ports", vsans |-> running.vsans]
          IN  to \in SavingState /\ Step(s, to)
    BY <1>1 DEF CollectVsans, SavingState, Text
  <1>4. CollectPorts(s) =>
          LET to == [pc |-> "dump", vsans |-> saving[s].vsans, ports |-> running.ports]
          IN  to \in SavingState /\ Step(s, to)
    <2> SUFFICES ASSUME CollectPorts(s)
                 PROVE  LET to == [pc |-> "dump", vsans |-> saving[s].vsans,
                                   ports |-> running.ports]
                        IN  to \in SavingState /\ Step(s, to)
      OBVIOUS
    <2>1. saving[s].vsans \subseteq Vsan
      BY <1>1, SavingFacts DEF CollectPorts
    <2>2. running.ports \in [Port -> PortEntry]
      BY <1>1 DEF Text
    <2> QED BY <2>1, <2>2 DEF CollectPorts, SavingState
  <1>5. Open(s) => \E to \in SavingState :
                      to.pc = "write" /\ to.text = saving[s].text /\ Step(s, to)
    BY <1>1, SavingFacts DEF Open
  <1> QED BY <1>2, <1>3, <1>4, <1>5

\* The end of a save
LEMMA WriteStep ==
    ASSUME TypeOK, NEW s \in Session, Write(s)
    PROVE  LET t == saving[s].text
           IN  /\ t \in Text /\ Busy(s) /\ Step(s, Idle)
               /\ saving[s].pc = "lost" => file' = file
               /\ saving[s].pc = "write" =>
                     /\ file' \in FileState
                     /\ file'.exists = TRUE /\ file'.text = t
                     /\ file'.length = IF file.length > Length(t) THEN file.length
                                                                  ELSE Length(t)
  <1>1. saving[s] \in SavingState /\ file \in FileState
    BY Types
  <1>2. saving[s].pc \in {"write", "lost"} /\ saving[s].text \in Text
    BY <1>1, SavingFacts DEF Write
  <1>3. Length(saving[s].text) \in Nat /\ file.length \in Nat
    BY <1>1, <1>2, LengthType DEF FileState
  <1> QED BY <1>1, <1>2, <1>3, Written DEF Write, Busy, FileState

\* "write erase" takes the file away from a save that is writing
LEMMA EraseStep ==
    ASSUME TypeOK, Erase
    PROVE  /\ saving' \in [Session -> SavingState]
           /\ \A s \in Session :
                 /\ Busy(s)' <=> Busy(s)
                 /\ saving'[s].pc # "write"
                 /\ saving'[s].pc \in {"ports", "dump"} => saving'[s] = saving[s]
                 /\ saving'[s].pc \in {"open", "lost"} =>
                       /\ saving[s].pc \in {"open", "write", "lost"}
                       /\ saving'[s].text = saving[s].text
  <1>1. \A s \in Session : saving[s] \in SavingState
    BY Types
  <1>2. \A s \in Session : saving'[s] = IF saving[s].pc = "write"
                                       THEN [saving[s] EXCEPT !.pc = "lost"] ELSE saving[s]
    BY DEF Erase
  <1>3. ASSUME NEW s \in Session PROVE saving'[s] \in SavingState
    <2>1. CASE saving[s].pc = "write"
      <3>1. [saving[s] EXCEPT !.pc = "lost"] \in SavingState
        BY <1>1, <2>1, SavingFacts
      <3> QED BY <1>2, <2>1, <3>1
    <2>2. CASE saving[s].pc # "write"
      BY <1>1, <1>2, <2>2
    <2> QED BY <2>1, <2>2
  <1>4. saving' \in [Session -> SavingState]
    BY <1>3 DEF Erase
  <1>5. ASSUME NEW s \in Session
        PROVE  /\ Busy(s)' <=> Busy(s)
               /\ saving'[s].pc # "write"
               /\ saving'[s].pc \in {"ports", "dump"} => saving'[s] = saving[s]
               /\ saving'[s].pc \in {"open", "lost"} =>
                     /\ saving[s].pc \in {"open", "write", "lost"}
                     /\ saving'[s].text = saving[s].text
    <2>1. saving[s] \in SavingState /\ saving'[s] \in SavingState
      BY <1>1, <1>3
    <2>2. CASE saving[s].pc = "write"
      <3>0. saving'[s] = [saving[s] EXCEPT !.pc = "lost"]
        BY <1>2, <2>2
      <3>1. saving'[s].pc = "lost" /\ saving'[s].text = saving[s].text
        BY <2>1, <2>2, <3>0, SavingFacts
      <3> QED BY <2>1, <2>2, <3>1, SavingFacts DEF Busy
    <2>3. CASE saving[s].pc # "write"
      <3>1. saving'[s] = saving[s]
        BY <1>2, <2>3
      <3> QED BY <2>3, <3>1 DEF Busy
    <2> QED BY <2>2, <2>3
  <1> QED BY <1>4, <1>5

-----------------------------------------------------------------------------
(* The parts of the invariant, step by step *)

LEMMA NextTypeOK ==
    ASSUME TypeOK, [Next]_vars
    PROVE  TypeOK'
  <1>t. /\ running \in Text /\ alive \in BOOLEAN /\ file \in FileState
        /\ saving \in [Session -> SavingState] /\ overlap \in BOOLEAN
        /\ promised \in Promise /\ booted \in Promise
        /\ ops \in 0..MaxOps /\ saves \in 0..MaxSaves /\ crashes \in 0..MaxCrashes
    BY Types
  <1> SUFFICES /\ running' \in Text /\ alive' \in BOOLEAN /\ file' \in FileState
               /\ saving' \in [Session -> SavingState] /\ overlap' \in BOOLEAN
               /\ promised' \in Promise /\ booted' \in Promise
               /\ ops' \in 0..MaxOps /\ saves' \in 0..MaxSaves /\ crashes' \in 0..MaxCrashes
    BY DEF TypeOK, FileState, SavingState, Promise
  <1>1. CASE AssignVsan \/ SetAdmin \/ SetSfp
    <2>1. running' \in Text
      BY <1>1, <1>t, ChangeType
    <2>2. booted' \in Promise /\ ops' \in 0..MaxOps
      <3>1. booted' = Unknown /\ ops' = ops + 1 /\ ops < MaxOps
        BY <1>1 DEF AssignVsan, SetAdmin, SetSfp, Change
      <3> QED BY <1>t, <3>1, Written, BoundAssumption
    <2> QED BY <1>1, <1>t, <2>1, <2>2 DEF AssignVsan, SetAdmin, SetSfp, Change
  <1>2. ASSUME NEW s \in Session, CollectVsans(s) \/ CollectPorts(s) \/ Dump(s) \/ Open(s)
        PROVE  saving' \in [Session -> SavingState]
    BY <1>2, <1>t, SaveSteps, StepOf
  <1>3. ASSUME NEW s \in Session, CollectVsans(s) PROVE saves' \in 0..MaxSaves
    BY <1>3, <1>t, BoundAssumption DEF CollectVsans
  <1>4. ASSUME NEW s \in Session, Write(s)
        PROVE  /\ file' \in FileState /\ promised' \in Promise
               /\ saving' \in [Session -> SavingState]
    <2>1. saving[s].pc \in {"write", "lost"}
      BY <1>4 DEF Write
    <2>2. file' \in FileState /\ saving[s].text \in Text
      BY <1>4, <1>t, <2>1, WriteStep
    <2>3. promised' \in Promise
      BY <1>4, <2>2, Written DEF Write
    <2>4. saving' \in [Session -> SavingState]
      BY <1>4, <1>t, Written, WriteStep, StepOf
    <2> QED BY <2>2, <2>3, <2>4
  <1>5. CASE Erase
    BY <1>5, <1>t, EraseStep, Written DEF Erase
  <1>6. CASE Reload
    <2>1. running' \in Text
      BY <1>6, <1>t, LoadDictType DEF Reload, FileState
    <2> QED BY <1>6, <1>t, <2>1, Written DEF Reload
  <1>7. CASE Boot
    <2>1. running' \in Text /\ booted' \in Promise
      BY <1>7, <1>t, LoadDictType, FactoryType, Written DEF Boot, FileState
    <2> QED BY <1>7, <1>t, <2>1 DEF Boot
  <1>8. CASE Crash
    <2>1. saving' \in [Session -> SavingState] /\ crashes' \in 0..MaxCrashes
      BY <1>8, <1>t, Written, BoundAssumption DEF Crash
    <2> QED BY <1>8, <1>t, <2>1, Written DEF Crash
  <1>9. CASE UNCHANGED vars
    BY <1>9, <1>t DEF vars
  <1> QED BY <1>1, <1>t, <1>2, <1>3, <1>4, <1>5, <1>6, <1>7, <1>8, <1>9, Written
          DEF Next, CollectVsans, CollectPorts, Dump, Open, Write

LEMMA NextAlone ==
    ASSUME TypeOK, Alone, [Next]_vars
    PROVE  Alone'
  <1>t. saving \in [Session -> SavingState]
    BY Types
  <1>1. ASSUME UNCHANGED <<saving, overlap>> PROVE Alone'
    BY <1>1 DEF Alone, Busy
  <1>2. ASSUME NEW s \in Session, CollectVsans(s) PROVE Alone'
    <2>1. \A r \in Session : r # s => saving'[r] = saving[r]
      <3>1. \E to \in SavingState : Step(s, to)
        BY <1>2, SaveSteps
      <3> QED BY <1>t, <3>1, StepOf
    <2>2. ~overlap' => \A r \in Session : r # s => ~Busy(r)
      BY <1>2 DEF CollectVsans, OthersIdle, Busy
    <2> QED BY <2>1, <2>2 DEF Alone, Busy
  <1>3. ASSUME NEW s \in Session, CollectPorts(s) \/ Dump(s) \/ Open(s) PROVE Alone'
    <2>1. \A r \in Session : r # s => saving'[r] = saving[r]
      <3>1. \E to \in SavingState : Step(s, to)
        BY <1>3, SaveSteps
      <3> QED BY <1>t, <3>1, StepOf
    <2>2. Busy(s) /\ overlap' = overlap
      BY <1>3, <1>t, Written DEF CollectPorts, Dump, Open, Busy
    <2> QED BY <2>1, <2>2 DEF Alone, Busy
  <1>4. ASSUME NEW s \in Session, Write(s) PROVE Alone'
    <2>1. \A r \in Session : saving'[r] = IF r = s THEN Idle ELSE saving[r]
      BY <1>4, <1>t, Written, WriteStep, StepOf
    <2>2. overlap' = (overlap /\ ~OthersIdle(s)) /\ Busy(s)
      BY <1>4, WriteStep DEF Write
    <2> QED BY <2>1, <2>2 DEF Alone, Busy, OthersIdle
  <1>5. CASE Erase
    BY <1>5, EraseStep DEF Erase, Alone
  <1>6. CASE Crash
    BY <1>6 DEF Crash, Alone, Busy
  <1>7. CASE AssignVsan \/ SetAdmin \/ SetSfp \/ Reload \/ Boot \/ UNCHANGED vars
    BY <1>1, <1>7 DEF AssignVsan, SetAdmin, SetSfp, Change, Reload, Boot, vars
  <1> QED BY <1>2, <1>3, <1>4, <1>5, <1>6, <1>7 DEF Next

LEMMA NextKept ==
    ASSUME TypeOK, Alone, Kept, Emptied, [Next]_vars
    PROVE  Kept'
  <1>t. saving \in [Session -> SavingState]
    BY Types
  <1>1. ASSUME UNCHANGED <<saving, file, promised>> PROVE Kept'
    BY <1>1 DEF Kept, Busy, Complete
  <1>2. ASSUME promised' = Unknown PROVE Kept'
    BY <1>2, Written DEF Kept
  <1>3. ASSUME NEW s \in Session, CollectPorts(s) \/ Dump(s) \/ Open(s) PROVE Kept'
    <2>1. Busy(s) /\ promised' = promised
      BY <1>3, Written DEF CollectPorts, Dump, Open, Busy
    <2> QED BY <2>1 DEF Kept
  <1>4. ASSUME NEW s \in Session, Write(s) PROVE Kept'
    <2>1. CASE saving[s].pc = "write" /\ ~overlap
      <3> DEFINE t == saving[s].text
      <3>1. t \in Text /\ file.length = 0
        BY <1>4, <2>1, WriteStep DEF Emptied
      <3>2. file'.exists = TRUE /\ file'.text = t /\ file'.length = Length(t)
        <4>1. /\ file'.exists = TRUE /\ file'.text = t
              /\ file'.length = IF file.length > Length(t) THEN file.length ELSE Length(t)
          BY <1>4, <2>1, WriteStep
        <4>2. Length(t) \in Nat
          BY <3>1, LengthType
        <4> HIDE DEF t
        <4> QED BY <3>1, <4>1, <4>2
      <3>3. promised' = [known |-> TRUE, text |-> t]
        BY <1>4, <2>1 DEF Write
      <3>4. \A r \in Session : saving'[r] = IF r = s THEN Idle ELSE saving[r]
        BY <1>4, <1>t, Written, WriteStep, StepOf
      <3>5. \A r \in Session : ~Busy(r)'
        BY <1>4, <2>1, <3>4, WriteStep DEF Alone, Busy
      <3> HIDE DEF t
      <3> QED BY <3>2, <3>3, <3>5 DEF Kept, Complete
    <2>2. CASE ~(saving[s].pc = "write" /\ ~overlap)
      BY <1>2, <1>4, <2>2 DEF Write
    <2> QED BY <2>1, <2>2
  <1>5. CASE Crash
    BY <1>5 DEF Crash, Kept, Busy, Complete
  <1>6. CASE Erase \/ \E s \in Session : CollectVsans(s)
    BY <1>2, <1>6 DEF Erase, CollectVsans
  <1>7. CASE AssignVsan \/ SetAdmin \/ SetSfp \/ Reload \/ Boot \/ UNCHANGED vars
    BY <1>1, <1>7 DEF AssignVsan, SetAdmin, SetSfp, Change, Reload, Boot, vars
  <1> QED BY <1>3, <1>4, <1>5, <1>6, <1>7 DEF Next

LEMMA NextEmptied ==
    ASSUME TypeOK, Alone, Emptied, [Next]_vars
    PROVE  Emptied'
  <1>t. saving \in [Session -> SavingState]
    BY Types
  <1>1. ASSUME UNCHANGED <<saving, file, overlap>> PROVE Emptied'
    BY <1>1 DEF Emptied
  <1>2. ASSUME NEW s \in Session, CollectVsans(s) \/ CollectPorts(s) \/ Dump(s)
        PROVE  Emptied'
    <2>1. PICK to \in SavingState : Step(s, to) /\ to.pc # "write"
      BY <1>2, SaveSteps
    <2>2. \A r \in Session : saving'[r] = IF r = s THEN to ELSE saving[r]
      BY <1>t, <2>1, StepOf
    <2>3. file' = file /\ (~overlap' => ~overlap)
      <3>1. CASE CollectVsans(s)
        BY <3>1 DEF CollectVsans
      <3>2. CASE CollectPorts(s) \/ Dump(s)
        BY <3>2 DEF CollectPorts, Dump
      <3> QED BY <1>2, <3>1, <3>2
    <2> QED BY <2>1, <2>2, <2>3 DEF Emptied
  <1>3. ASSUME NEW s \in Session, Open(s) PROVE Emptied'
    <2>1. file'.exists = TRUE /\ file'.length = 0
      BY <1>3, Written DEF Open
    <2> QED BY <2>1 DEF Emptied
  <1>4. ASSUME NEW s \in Session, Write(s) PROVE Emptied'
    <2>1. \A r \in Session : saving'[r] = IF r = s THEN Idle ELSE saving[r]
      BY <1>4, <1>t, Written, WriteStep, StepOf
    <2>2. ~overlap' => \A r \in Session : r # s => ~Busy(r)
      BY <1>4, WriteStep DEF Write, Alone, OthersIdle, Busy
    <2> QED BY <2>1, <2>2, Written DEF Emptied, Busy
  <1>5. CASE Erase
    BY <1>5, EraseStep DEF Emptied
  <1>6. CASE Crash
    BY <1>6, Written DEF Crash, Emptied
  <1>7. CASE AssignVsan \/ SetAdmin \/ SetSfp \/ Reload \/ Boot \/ UNCHANGED vars
    BY <1>1, <1>7 DEF AssignVsan, SetAdmin, SetSfp, Change, Reload, Boot, vars
  <1> QED BY <1>2, <1>3, <1>4, <1>5, <1>6, <1>7 DEF Next

\* What HasDefault says of one session
Defaults(x) ==
    /\ x.pc \in {"ports", "dump"} => 1 \in x.vsans
    /\ x.pc \in {"open", "write", "lost"} => 1 \in x.text.vsans

LEMMA NextHasDefault ==
    ASSUME TypeOK, HasDefault, [Next]_vars
    PROVE  HasDefault'
  <1>t. saving \in [Session -> SavingState] /\ running \in Text /\ file \in FileState
    BY Types
  <1>d. /\ 1 \in running.vsans /\ \A s \in Session : Defaults(saving[s])
        /\ file.length # 0 => 1 \in file.text.vsans
    BY DEF HasDefault, Defaults
  <1> SUFFICES /\ 1 \in running'.vsans /\ \A s \in Session : Defaults(saving'[s])
               /\ file'.length # 0 => 1 \in file'.text.vsans
    BY DEF HasDefault, Defaults
  <1>1. ASSUME NEW s \in Session, NEW to \in SavingState, Step(s, to), Defaults(to)
        PROVE  \A r \in Session : Defaults(saving'[r])
    BY <1>1, <1>t, <1>d, StepOf
  <1>2. CASE AssignVsan \/ SetAdmin \/ SetSfp
    <2>1. 1 \in running'.vsans
      BY <1>2, <1>t, <1>d, ChangeType
    <2> QED BY <1>2, <1>d, <2>1 DEF AssignVsan, SetAdmin, SetSfp, Change
  <1>3. ASSUME NEW s \in Session, CollectVsans(s)
        PROVE  \A r \in Session : Defaults(saving'[r])
    <2> DEFINE to == [pc |-> "ports", vsans |-> running.vsans]
    <2>1. to \in SavingState /\ Step(s, to)
      BY <1>3, SaveSteps
    <2>2. Defaults(to)
      BY <1>d DEF Defaults
    <2> QED BY <1>1, <2>1, <2>2
  <1>4. ASSUME NEW s \in Session, CollectPorts(s)
        PROVE  \A r \in Session : Defaults(saving'[r])
    <2> DEFINE to == [pc |-> "dump", vsans |-> saving[s].vsans, ports |-> running.ports]
    <2>1. to \in SavingState /\ Step(s, to)
      BY <1>4, SaveSteps
    <2>2. Defaults(to)
      BY <1>4, <1>d DEF CollectPorts, Defaults
    <2> QED BY <1>1, <2>1, <2>2
  <1>4d. ASSUME NEW s \in Session, Dump(s)
        PROVE  \A r \in Session : Defaults(saving'[r])
    <2>1. PICK t \in Text : /\ t.vsans = saving[s].vsans
                            /\ Step(s, [pc |-> "open", text |-> t])
                            /\ [pc |-> "open", text |-> t] \in SavingState
      BY <1>4d, SaveSteps
    <2>2. 1 \in t.vsans
      BY <1>4d, <1>d, <2>1 DEF Dump, Defaults
    <2>3. Defaults([pc |-> "open", text |-> t])
      BY <2>2 DEF Defaults
    <2> QED BY <1>1, <2>1, <2>3
  <1>5. ASSUME NEW s \in Session, Open(s)
        PROVE  /\ \A r \in Session : Defaults(saving'[r])
               /\ file'.length = 0
    <2>1. PICK to \in SavingState :
             to.pc = "write" /\ to.text = saving[s].text /\ Step(s, to)
      BY <1>5, SaveSteps
    <2>2. Defaults(to)
      BY <1>5, <1>d, <2>1 DEF Open, Defaults
    <2>3. file'.length = 0
      BY <1>5, Written DEF Open
    <2> QED BY <1>1, <2>1, <2>2, <2>3
  <1>6. ASSUME NEW s \in Session, Write(s)
        PROVE  /\ \A r \in Session : Defaults(saving'[r])
               /\ file'.length # 0 => 1 \in file'.text.vsans
    <2>1. Defaults(Idle)
      BY Written DEF Defaults
    <2>2. \A r \in Session : Defaults(saving'[r])
      BY <1>1, <1>6, <2>1, Written, WriteStep
    <2>3. CASE saving[s].pc = "lost"
      BY <1>6, <1>d, <2>2, <2>3, WriteStep
    <2>4. CASE saving[s].pc = "write"
      <3>1. file'.text = saving[s].text
        BY <1>6, <2>4, WriteStep
      <3> QED BY <1>d, <2>2, <2>4, <3>1 DEF Defaults
    <2> QED BY <1>6, <2>3, <2>4 DEF Write
  <1>7. CASE Erase
    <2>1. file'.length = 0 /\ running' = running
      BY <1>7, Written DEF Erase
    <2>2. ASSUME NEW s \in Session PROVE Defaults(saving'[s])
      BY <1>7, <1>d, EraseStep DEF Defaults
    <2> QED BY <1>d, <2>1, <2>2
  <1>8. CASE Reload \/ Boot
    <2>1. 1 \in running'.vsans
      <3>1. file.text \in Text
        BY <1>t DEF FileState
      <3>2. \/ running' = LoadDict(running, file.text)
            \/ running' = LoadDict(Factory, file.text)
            \/ running' = Factory
        BY <1>8 DEF Reload, Boot
      <3>3. \A r \in Text : 1 \in r.vsans => 1 \in LoadDict(r, file.text).vsans
        <4> TAKE r \in Text
        <4>1. LoadDict(r, file.text).vsans = r.vsans \union file.text.vsans
          BY <3>1, LoadDictType
        <4> QED BY <4>1
      <3> QED BY <1>t, <1>d, <3>2, <3>3, FactoryType
    <2> QED BY <1>8, <1>d, <2>1 DEF Reload, Boot
  <1>9. CASE Crash
    <2>1. \A s \in Session : saving'[s] = Idle
      BY <1>9 DEF Crash
    <2> QED BY <1>9, <1>d, <2>1, Written DEF Crash, Defaults
  <1>10. CASE UNCHANGED vars
    BY <1>10, <1>d DEF vars
  <1> QED BY <1>d, <1>2, <1>3, <1>4, <1>5, <1>6, <1>7, <1>8, <1>9, <1>10, <1>4d
          DEF Next, CollectVsans, CollectPorts, Dump, Open, Write

LEMMA NextSettings ==
    ASSUME TypeOK, HasDefault, SettingsSurvive, [Next]_vars
    PROVE  SettingsSurvive'
  <1>1. ASSUME UNCHANGED <<running, alive, booted>> PROVE SettingsSurvive'
    BY <1>1 DEF SettingsSurvive
  <1>2. ASSUME booted' = Unknown PROVE SettingsSurvive'
    BY <1>2, Written DEF SettingsSurvive
  <1>3. CASE Boot
    <2>1. CASE ~file.exists
      BY <1>2, <1>3, <2>1 DEF Boot
    <2>2. CASE file.exists
      <3>1. file \in FileState
        BY Types
      <3>2. file.text \in Text /\ file.length = Length(file.text)
        BY <1>3, <2>2, <3>1 DEF Boot, Complete, FileState
      <3>3. file.length # 0
        BY <3>2, LengthType
      <3>4. 1 \in file.text.vsans
        BY <3>3 DEF HasDefault
      <3>5. running' = LoadDict(Factory, file.text)
            /\ booted' = [known |-> TRUE, text |-> file.text]
        BY <1>3, <2>2 DEF Boot
      <3> QED BY <3>2, <3>4, <3>5, BootLoads DEF SettingsSurvive
    <2> QED BY <2>1, <2>2
  <1>4. CASE AssignVsan \/ SetAdmin \/ SetSfp \/ Reload \/ Crash
    BY <1>2, <1>4 DEF AssignVsan, SetAdmin, SetSfp, Change, Reload, Crash
  <1>5. CASE Erase \/ UNCHANGED vars
             \/ \E s \in Session : 
                  CollectVsans(s) \/ CollectPorts(s) \/ Dump(s) \/ Open(s) \/ Write(s)
    BY <1>1, <1>5 DEF Erase, vars, CollectVsans, CollectPorts, Dump, Open, Write
  <1> QED BY <1>3, <1>4, <1>5 DEF Next

-----------------------------------------------------------------------------
(* The theorems *)

LEMMA NextIInv == IInv /\ [Next]_vars => IInv'
  BY NextTypeOK, NextAlone, NextKept, NextEmptied, NextHasDefault, NextSettings DEF IInv

\* Saves, changes and restarts keep the strengthening
THEOREM Invariance == Spec => []IInv
  BY InitIInv, NextIInv, PTL DEF Spec

\* Every variable keeps its type
THEOREM TypeCorrect == Spec => []TypeOK
  <1>1. IInv => TypeOK
    BY DEF IInv
  <1> QED BY <1>1, Invariance, PTL

\* However many sessions save, what an undisturbed save has acknowledged is in
\* the file, whole, until the next save or "write erase"
THEOREM SavedStaysHolds == Spec => []SavedStays
  <1>1. IInv => SavedStays
    BY DEF IInv, Kept, SavedStays
  <1> QED BY <1>1, Invariance, PTL

\* A switch that starts from a file has the ports and the VSANs it says
THEOREM SettingsSurviveHolds == Spec => []SettingsSurvive
  <1>1. IInv => SettingsSurvive
    BY DEF IInv
  <1> QED BY <1>1, Invariance, PTL
==============================================================================
