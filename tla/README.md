# A verification of mds-simulator

mds-simulator plays a Cisco MDS Fibre Channel switch for training: a student
types NX-OS commands over SSH, scripts post them to an NX-API, an instructor
injects faults over REST, and two simulator processes join their ports over a
TCP "fabric bus". This directory holds TLA+ models of its parts, the TLC runs
that check them on small instances, and TLAPS proofs, for all values of the
parameters, of nearly every safety property those runs check. Paths below are relative to `mds_sim/`.

## 1. The system

### Components, their state and their operations

| Component | Code | State | Operations |
|---|---|---|---|
| Port | `hardware/port.py`, `sfp_profiles.py` | administrative and operational state, mode, transceiver, speeds, allowed and negotiated VSANs, per-VSAN trunk status, domain | `insert_sfp`, `remove_sfp`, `set_speed` |
| Port state machine | `hardware/port_state_machine.py` | (the port's) | `admin_up`, `admin_down`, `link_signal_detected`, `elp_success`, `link_lost`; `flogi_received` and `error_disable` have no caller |
| Fault injector | `hardware/fault_injector.py` | none | `unplug_sfp`, `insert_sfp`, `flap_link`, and counters and flags |
| Fabric bus client | `fabric_bus/client.py`, `main.connect_peers` | socket, attempts left of the dial thread | dial, HELLO, ELP received, DOMAIN_MERGE sent, end of connection |
| Fabric bus server | `fabric_bus/server.py` | per connection: the port it is bound to | HELLO received, ELP sent, DOMAIN_MERGE received, end of connection |
| Dispatcher | `cli/dispatcher.py`, `cli/modes.py` | one `CLIContext`: mode, current interface, VSAN, zone, zoneset | `execute` and one handler per mode |
| VSAN database, zoning | `fabric/vsan.py`, `fabric/zoning.py` | VSANs and their interfaces; zones, zonesets, active zoneset per VSAN | create, assign, add, activate |
| Configuration | `config/running_config.py`, `config/config_store.py` | the startup file | `to_dict`, `load_dict`, save, load, erase |
| SSH server, NX-API, instructor API | `cli/ssh_server.py`, `nxapi/app.py`, `instructor_api/app.py` | sessions; WebSocket clients | one line; several commands; `config_port`, faults, event broadcast |
| Command tree | `cli/command_tree.py` | a constant tree per mode | `resolve_tokens` (abbreviations), `get_word_help`, `complete` |
| Event log | `logging_/event_log.py` | ring of 1000 entries, one subscriber | emit, tail |
| Dashboard | `instructor_dashboard/src/useSwitchSocket.js`, `App.jsx` | per panel: what it shows, socket, timers, failures in a row | open, message, close, retry, poll, another URL |

### How they interact, and what is hard

Everything in one process shares one object graph and **no lock**. A port is
written by SSH threads (dispatcher), by the instructor API's thread pool (fault
injector, `config_port`) and by every fabric bus thread. The dispatcher's single
context is shared by all sessions. `main.py` starts the SSH server, the
instructor API, one thread per dialled link, one thread accepting links and one
per connection. So the hard behaviours are:

* **Messages and restarts.** Five messages bring a link up. The peer may be
  killed or commanded at each point, and the threads of a dead connection end
  later than the threads of the next one start.
* **Preemption.** A state-machine call is several writes with log calls in
  between; a dispatcher handler is chosen by the mode found first and looks at
  the rest of the context later; `vsan N` writes two places.
* **Crashes.** The startup file is emptied before it is written, and a switch
  that finds a file that does not parse does not start.
* **Retries.** Thirty dial attempts, and none after the first connection. The
  dashboard opens its socket again, and polls after three failures in a row;
  what an abandoned socket or request has under way still reports.
* **Threads into a loop.** Any thread may log an event; what it tells the
  dashboards is put together in that thread and sent later by the event loop,
  which serves clients that come and go in between.
* **Tables written twice.** The command trees and the handlers describe the same
  commands word by word, and a line is read in one mode and run in another if a
  session changes the shared mode in between.

What makes each component correct: the two ends of a trunk agree and no end
stays up with nobody watching (fabric bus); the results a port shows belong to
the state it shows (port); the context never names nothing, and databases refer
only to what exists (CLI); what was acknowledged as saved is there after a
restart (configuration); a panel misses no entry and is put right by the next
event (event feed), and never gives its switch up (dashboard); a line means what
its words say, in full, abbreviated or completed (command tree, SSH server).

`PROJECT.json` lists the hazards one by one with their lines.

## 2. Modules

| Module | What it is |
|---|---|
| `Port` | one port as a record, and every call on it as a function from record to record; shared by the modules below |
| `FabricBus` | two switches, one link: dial thread, receiving threads at both ends, operator, instructor, kill and start |
| `TrunkAgreement` | what the fabric bus promises, without messages: terms are struck from an offer, ends adopt struck terms or let go |
| `FabricBusClaims` | sentences of README and labs about a link that the code does not keep |
| `PortThreads` | one port, several threads, preempted between the steps of a call |
| `PortCalls` | the same calls as single steps, which is what `FabricBus` assumes |
| `EventFeed` | emitting threads, the event loop with its broadcasts and WebSocket endpoints, what panels show |
| `SwitchSocket` | the dashboard's hook: sockets, timers, polls, another URL |
| `CommandTree` | the trees, expansion, completion, and which branch of a handler a line reaches (operators only) |
| `Terminal` | a session typing, completing and entering lines while others move the mode |
| `SharedCli` | sessions of three kinds on one dispatcher; VSAN database and zoning |
| `StartupConfig` | running configuration, save, load, erase, reload, kills |
| `Port_proof` | lemmas about the calls on one port, for the two modules that use `Port` |
| `FabricBus_proof`, `FabricBusRefinement_proof` | proofs about `FabricBus`, and that it implements `TrunkAgreement` |
| `PortThreads_proof`, `SharedCli_proof`, `StartupConfig_proof`, `EventFeed_proof`, `SwitchSocket_proof` | proofs about the module each is named for |
| `MCFabricBus`, `MCPortThreads`, `MCSharedCli`, `MCStartupConfig`, `MCEventFeed`, `MCSwitchSocket`, `MCTerminal` | instances for TLC: startup files, scripts, sample words, symmetry, a refuted sentence |

### Correspondence to the code

`Port.FCPort` has the fields of the dataclass that some behaviour depends on.
`None` is 0 for transceiver, speed and domain, speeds are in Gb/s. The call
`elp_success` keeps what it does not do: it looks neither at `admin_state` nor at
the transceiver, and outside mode TE it leaves old trunk results. `SetMode`
stores upper case, which turns `auto` into a word the state machine does not
know.

`FabricBus` steps from one socket operation to the next. `ClientElp` is
`_handle` up to `sendall`, `ClientMerged` the `elp_success` after it, so the
server may act on DOMAIN_MERGE in between. A queue per direction is the byte
stream; a message to an end that has gone is lost, an end that goes loses what
it has not read. `sendall` to a dead peer may raise: `ClientElpFails`,
`ServerHelloFails` and `HelloFails` follow the exception to the `finally` clause
(in the server, before the port name has been returned, so nothing is taken
down). `Crash` puts port, domain and dial thread at once into the state the next
start will build. `deal` and `offered` record what was agreed and advertised.

`PortThreads` keeps for every thread the steps left of its call. Steps are cut
where CPython may switch threads in practice: at the calls of `_set` (which
emits to the log), of other methods and at loops. What a step finds decides
which steps follow (`Unfold`), with the values it read kept in its argument.
`Reload` (in `Port`, `FabricBus.CmdReload`) and `ReloadSteps` are what `reload`
does to a live port: `load_dict` assigns configuration fields one by one and
tells the state machine nothing.

`SharedCli` splits `execute` into the choice of the handler (`Dispatch`) and the
handler, and splits handlers at the calls into the databases (`SetVsan` /
`AssignInterface`, `NameZone` / `CreateZone`). `VSANDatabase.create` tests, calls
`VSAN(...)` and then stores: `Construct` is the test and the call, `StoreVsan` the
store, which replaces what another session has stored meanwhile, and the append
after it. `ZoningEngine` creates with `setdefault`, which looks and stores at
once. A line is a command with its arguments. `contested` records the VSANs that
two sessions were creating at the same time, `crossed` that two sessions were
between naming a zone or zoneset and creating it.

`StartupConfig` splits a save into collecting VSANs, collecting ports, making the
text (`Dump`; until then the interface lists are those of the running
configuration itself), opening (which empties the file) and writing. The file is a text and a length; a shorter
text written over a longer one leaves a tail, and the file parses only if the
length is that of the text. `overlap`, `promised` and `booted` are history.

`EventFeed` follows one port, of whose row only the version matters, and entries
that are numbers. `Emit` is a state change with `EventLog.emit` up to the append;
`HandLog`, `Snapshot` and `HandPorts` are `_on_new_event` in the same thread, with
other threads and the loop in between. `SilentChange` is a command that changes
the row and logs nothing. In the loop, `Start` begins a handed-over `_broadcast`
(it copies the set of clients), `Send` is one `send_text`, `Proceed` removes the
clients that failed at the end. `Join`, `Prepare`, `Greet` and `End` are
`websocket_endpoint`, cut at its awaits; emitting threads also run between the
`add` and the reading of ports and log, the loop does not (`LoopFree`). `wiped`
and `clean` are history.

`SwitchSocket` keeps one record for each run of the React effect, that is, for
each URL the panel has had: its socket, its timer, its failures, whether it is
cancelled. All of them write into the one `panel`. `Cancel` is the function the
effect returns; the `onclose` it provokes comes later (`Closes`). A switch whose
server cannot do WebSockets (`uvicorn` without its library, as
`requirements.txt` installs it) refuses every socket and answers polls:
`Upgrades` says which do.

`CommandTree` has a path for each leaf of a tree; a node is the path to it.
`Resolution` folds `resolve_tokens` over the words, `Walked` folds `_walk`. The
`Branch` operators are the tests of the handlers in their order, with the words
alone: the exceptions of a missing word (`t[1]`) or of `int()` are the branch
"error". `Terminal` reads the shared mode where the code does: for Tab, for
`exit`, for the expansion (`Enter`) and for the handler (`Execute`). Words are
typed whole and shortened by Backspace, so that every part of every line is
reached.

## 3. Runs

TLC finishes every passing run with all states explored. Bounds are in the
`.cfg` files.

| Run | Checks | Instance | Why it is enough |
|---|---|---|---|
| `bus_safety` | `TypeOK`, `Agreement`, `Watched`, `ImplementsTrunkAgreement` | 2 VSANs, 2 domains, 2 connections, 2 kills, 2 commands; 1.2 million states | two connections are needed for an old and a new one at a time, and there are never three at a client that is killed twice and used twice; every property is also proved for all bounds |
| `bus_live` | `Establishes`, `HalfOpenHeals` | startup lists equal, overlapping, disjoint, and a server in mode E; 2 kills, 1 command | all outcomes of `elp_success` occur |
| `port_threads` | `TypeOK`, `TrunkResultsMatch`, `MergeEnds`, `CallsAddUp` | CLI, instructor and bus thread, two transceiver generations, prepared and new ports, 4 calls; 1.5 million states | every pair of calls overlaps, after one that prepares the port, before one more |
| `cli_sessions` | `TypeOK`, `InterfaceKnown`, `ZoneKnown`, `VsanListsPort`, `ActiveExists` | two clients, one in all three roles, 4 requests of up to 7 lines; 0.8 million states | the shortest way into each mode and back, and a second session in each gap of the first; without its exception each of `ZoneKnown` and `VsanListsPort` fails, so that both races occur |
| `config_saves` | `TypeOK`, `SavedStays`, `SettingsSurvive` | two sessions (symmetric), 3 changes, 3 saves, 2 kills | two saves overlap while a third one is the undisturbed one |
| `feed_events` | `TypeOK`, `NothingLost`, `OneEventHeals` | two threads, two panels (both symmetric), a log of 2, a tail of 2, panels of 3 entries, 2 changes; 0.8 million states | two broadcasts of two messages each overlap a panel that joins and one that drops; the second change heals what the first left behind |
| `panel_switches` | `TypeOK`, `NeverGivesUp`, `OneLateWrite`, `OldEffectsWindDown`, `Recovers`, `OldEffectsEnd` | one switch with WebSockets and one without, 3 URLs, one lost connection, one outage | three failures occur at the switch without WebSockets and at a stopped one; two cancelled effects may be under way beside the current one |
| `tree_words` | `TypeOK`, `CompleteLinesUnderstood`, `AbbreviationsMean`, `CrossedLinesStoreTheSame`, `TabKeepsMeaning` | all trees, all lines in which each word is a keyword, a sample value or the beginning of one; other sessions move the mode at any time, as often as they like; 3.6 million states | the trees are the code's, complete, and nothing but the values is bounded |

Four runs refute a sentence of the documentation; the counterexample is the way
there (`findings` in `PROJECT.json` quotes the sentences).

| Run | What happens |
|---|---|
| `bus_claim_merge` | a HELLO that comes before the server's port is in mode TE is refused, and never repeated: configuring both ends as in the README does not merge them |
| `bus_claim_client_restart` | after a restart of the client the server's old thread takes the new link down, and nothing brings it up |
| `port_claim_unplug` | a transceiver pulled during `no shutdown` leaves the port in FLOGI_PENDING (lab 2 expects OFFLINE or LINK_DOWN) |
| `cli_claim_activate` | `zoneset activate vsan 10 PROD_ZONESET` (lab 1) looks for a zoneset called "10" |

The properties in words:

* `Agreement`: with no message under way, two trunking ends carry the same VSANs
  and show the same domain.
* `Watched`: an operational port has a receiving thread of its own switch that
  will run `link_lost` when the connection ends.
* `ImplementsTrunkAgreement`: ends trunk only on terms that the client struck
  from a list the server advertised. Mapping: the allowed lists are the ports',
  the terms struck are those recorded in `deal`, an end's terms are its
  negotiated VSANs and domain while it trunks.
* `TrunkResultsMatch`: state, negotiated VSANs, per-VSAN status and isolation
  flag belong together whenever the port trunks. It is checked for one bus thread
  per port: two connections bound to one port at a time may mix their results if
  both are in the recording part of `elp_success` at once. The theorem is about
  any number of bus threads that are not.
* `InterfaceKnown`, `ZoneKnown`: whoever finds the shared context in interface,
  zone or zoneset mode finds an interface, or a zone or zoneset that exists in the
  VSAN of the context. The second holds between lines that name one; two sessions
  that name at the same time may leave the mode of one with the VSAN of the
  other, and what they do next creates a zone nobody named.
* `VsanListsPort`: the VSAN of a port exists and lists it, once no session is at
  work on it, but for VSANs that two sessions were creating at once: of those the
  one stored last replaces the other, with the ports it lists.
* `CallsAddUp`: whatever state others have left the port in, the steps of a call
  begun there, run without interruption, come to an end, and end where
  `Configured`, `Faulted` or `Signalled` of `PortCalls` says. It ties
  `PortThreads` to the single steps of `FabricBus`. `Finish` takes eight steps,
  as no call has more than seven.
* `NothingLost`: a panel that has had its initial message has every entry of the
  log's tail, or the entry is on its way to it. Excepted is a panel whose initial
  message a broadcast has overtaken (`wiped`): it does lose that entry. A full
  panel may lose an entry too (section 5); the run is too small for that, and the
  theorem says as long as what is under way it cannot happen.
* `OneEventHeals`: once everything has been sent, an event that was logged while
  nothing else went on has left every panel with the port's present row, whatever
  the panel had missed before. Without that condition the row may be an older
  one, as the snapshot is taken in the emitting thread.
* `NeverGivesUp`: the current effect has exactly one of socket, timer and request
  under way. `OneLateWrite`: a cancelled effect writes ports into the panel once
  more at most. `OldEffectsWindDown`: each of its steps brings it nearer to its end,
  and nothing revives it. `OldEffectsEnd`: it comes to its end. `Recovers`: if URL and switch
  stay, the panel ends up on a live socket, or polls successfully for ever.
* `CompleteLinesUnderstood`: a line that spells a path of the tree to a leaf, in
  whatever abbreviations, reaches a branch, and the branch finds its values where
  the tree has its placeholders. The exceptions are named in `Unhandled` and
  `ValuesTaken`; one is `cli_claim_activate`.
* `AbbreviationsMean`: the greedy expansion finds the only reading of the words in
  the tree, or one that differs from the others by a word typed in full or by a
  value. `TabKeepsMeaning`: a completion never changes what the line would do.
* `CrossedLinesStoreTheSame`: words expanded in one mode and run in another store
  what the same words, entered in that other mode, store. The exception is one
  word of each of eight branches (`LooseWord`), which another tree expands
  differently; all eight are needed. `member p` of zone mode stores "pwwn" as a
  zone of a zoneset, `zone name Z v 10` from a mode without zones makes Z in
  VSAN 1, `vsan 10 n A` loses the name.
* `SavedStays`: an acknowledged save is whole on disk until the next save or
  erase, unless another save overlapped it.

Deadlock is not checked (`CHECK_DEADLOCK FALSE`): with all bounded commands
given and all queues empty, an idle switch stops.

**Fairness** (`FabricBus.Fairness`): weak fairness of the dial thread, of each
receiving thread, and of the start of a process that is down. The interpreter
schedules every thread, and a socket that is readable or broken wakes its
reader. Nothing is assumed of the operator, the instructor or kills.
`SwitchSocket.Fairness`: weak fairness of the browser for each effect: timers
fire, requests and handshakes end with an answer or an error, and the switch
greets whom it accepts. Nothing is assumed of events: a quiet switch may stay
quiet, and then the initial message is all a panel gets. The other modules are
checked for safety only; `EventFeed` has no fairness, as its liveness (a quiet
system brings panels up to date) is the safety property `OneEventHeals` and the
end of finitely many broadcasts.

**Bounds.** `MaxConn`, `MaxOps`, `MaxCrashes`, `MaxCalls`, `MaxRequests`,
`MaxSaves`, `MaxChanges`, `MaxEffects`, `MaxDrops` and `MaxOutages` cap unbounded behaviour in the guards. `MaxAttempts` is the loop
bound of the code (30), `BufLen`, `TailLen` and `KeepLen` its lengths (1000, 50,
200), made small so that they are reached; the safety runs use 2, which only shortens the wait. The
refuted sentences about links use 30.

## 4. Proofs

`Port_proof` has lemmas only, and `FabricBusRefinement_proof` builds on the invariant
of `FabricBus_proof`. Each of the others proves, for all values of the constants,
that its `IInv` is an inductive invariant (`Invariance`), and from it:

| Module | Theorems |
|---|---|
| `FabricBus_proof` | `TypeCorrect`, `AgreementHolds`, `WatchedHolds` |
| `FabricBusRefinement_proof` | `Refinement`: `Spec => ImplementsTrunkAgreement` |
| `PortThreads_proof` | `TypeCorrect`, `MergeEndsHolds`, `CallsAddUpHolds`; `TrunkResultsApart`, under `[]Apart`; `TrunkResultsMend`, under `[]Apart` from any `Unmixed` state on; `TrunkResultsHold`, for one bus thread |
| `SharedCli_proof` | `TypeCorrect`, `InterfaceKnownHolds`, `ZoneKnownHolds`, `VsanListsPortHolds`, `ActiveExistsHolds` |
| `StartupConfig_proof` | `TypeCorrect`, `SavedStaysHolds`, `SettingsSurviveHolds` |
| `EventFeed_proof` | `TypeCorrect`, `OneEventHealsHolds`, `OnlyPushedOutHolds`; `NothingLostHolds`, under `[]Uncrowded`; `NothingLostEarly`, until `KeepLen - TailLen` entries are logged |
| `SwitchSocket_proof` | `TypeCorrect`, `NeverGivesUpHolds`, `OneLateWriteHolds`, `OldEffectsWindDownHolds` |

`TypeCorrect` is `Spec => []TypeOK`, and `XHolds` is `Spec => []X` (`Spec => X` for
the action properties `CallsAddUp` and `OldEffectsWindDown`) unless the table says
more. The assumptions are those of the modules: VSAN numbers and generations
are what they are, `NoDomain` is no domain, startup files hold port
configurations, bounds are natural numbers; a switch has finitely many VSANs and
ports, as the length of a text is counted (`StartupConfig.FiniteAssumption`); the
initial message has no more entries than a panel keeps, 50 and 200 in the code
(`EventFeed.LengthAssumption`). TLC finds no state
of the runs that breaks an `IInv`.

**FabricBus.** `Agreement` is not inductive: nothing in it says that an old
DOMAIN_MERGE is not read late, or that the client has no second connection. `IInv`
adds

* `OneLink`: the client has at most one live connection and, once it receives,
  no attempt left. It holds because the dial thread ends with the first
  connection; the server may have several connections bound to one port.
* `Stage`: the few contents the queues of a connection can have at each phase,
  hence terms are struck once per connection and a DOMAIN_MERGE under way carries
  exactly them;
* `ClientTie`, `ServerTie`: an operational end owes its state to a connection
  alive at that end, on which terms were struck; a trunking end shows them.

With nothing under way the connection of `ServerTie` is one the client is
receiving on, by `OneLink` it is the one of `ClientTie`, and both ends show its
terms. Each conjunct has one lemma with one step per action.

**The refinement.** Initial states map to initial states, and each action is a
step of `TrunkAgreement` or leaves its variables alone. Striking terms needs one
fact `IInv` does not have, `Source`: an ELP at the head of a queue carries a list
the server has advertised, and nothing is struck on a connection before the
client has answered it. Then `ClientElp` is `Strike`, a DOMAIN_MERGE that is
applied makes the server adopt exactly what `deal` records, and a crash, a lost
link, a command or a fault changes no end's terms other than to none.

**PortThreads.** The properties say nothing of the steps that threads have left.
`Shape` does: a list of steps that neither write trunk results nor enter a state
of `elp_success`, or, for a bus thread, one of the four rests of one
`elp_success`. `Pending`: a port in DOMAIN_MERGE has a thread in such a rest, so
a port at rest is not in it, for any number of threads. `Written` says what each
rest finds written already. It is inductive as long as no other thread writes
results in between, so `TrunkResultsApart` has the hypothesis `[]Apart`: at no
time are two bus threads between the `_set` of DOMAIN_MERGE and the last `_set` of
an `elp_success` in mode TE. Their other calls, and the CLI's and the instructor's, may
overlap as they like. Without the hypothesis the results may mix: TLC then finds
an ERR_DISABLED port with a negotiated VSAN after two calls.
`TrunkResultsMend` says that a mixture does not last: from any state on in which the
port neither trunks nor is isolated and nobody records results, whatever has been
mixed before, the results match as long as recordings keep apart. It needs
`IInv` only, as `elp_success` overwrites all results. `TrunkResultsHold` says that
one bus thread needs no hypothesis.

`CallsAddUp` needs no invariant but the type of the port. A call is a short list
of steps whose course depends on a few tests, so the proof runs it: `OnwardFlat`
and `OnwardMore` say what one step leaves of a list, there is a lemma for what
each kind of step does, and one for where each kind of call comes to its end
(`SignalEnds`, `AdminEnds`, `FaultEnds`, `FieldEnds`, `ReloadEnds`, `ElpEnds`),
by cases of what the steps find. `elp_success` sets DOMAIN_MERGE first and its
outcome last, where the single step sets the state once (`SetOperCommutes`).

**SharedCli.** Properties are about the state between lines, `IInv` about the state
within one. `Named`: a handler that works on a zone was chosen when there was
one, and no step takes the name away. `Naming`: as long as no two sessions have
crossed, a session between naming and creating is the only one there, and the
context is what it has named. `Listing`: a port whose VSAN does not list it is in
the hands of a session about to, or its VSAN is contested. `Sole`: of a VSAN that
is not contested there is one creator at most, and while there is one the VSAN
does not exist, so that its store replaces nothing.

**StartupConfig.** `Alone`: if no save overlapped another there is one at most, so
what is in the file once it is acknowledged (`Kept`) has no writer; `Emptied`: the
file between opening and writing is as empty as the only writer left it, so that
no tail of an older text remains. `HasDefault`: VSAN 1 is in every text, because
a switch that starts has it whether the file says so or not.

**EventFeed.** `Reached`: whoever is there is a client, and a broadcast drops only
who has gone. `Delivered`: each entry of the tail is shown by a panel or on its
way to it, or the panel is full; a panel that waits for its initial message will
have the entry by that message or after it. `Healed`: after a change with
nothing else going on, whatever carries ports carries the present row.

`Delivered` alone proves `OnlyPushedOut`: only a full panel misses an entry. That a
full panel misses nothing either takes counting. `Unique`: the message of an entry
is in one place at a time, so that the entries on their way to a panel can be
counted (`Pending`). `Consecutive`: the log has the latest entries without a gap.
`Close`: an entry n of the tail that is no longer on its way to a panel is in it,
and what is shown after it and what is still under way come to no more than
`KeepLen - TailLen` and the entries logged since n. A send moves one entry from
what is under way to what is shown, a new entry adds one on each side, and while n
is in the tail fewer than `TailLen` have been logged since, so that n is not
pushed out. When n itself arrives nothing is shown after it, and in the initial
message only the entries logged since: what is under way must then fit, and that
is where `Uncrowded` comes in: never are more entries on their way to a panel than
it keeps beyond the tail, 150 in the code. The bound is exact: with one more under way, TLC finds a lost entry in an
instance with a tail of 2 and panels of 3. `NothingLostEarly` replaces the
hypothesis by a state predicate: until more than 150 entries have been logged, no
more than 150 can be under way. `NothingLost` without either is false (section 5).

**SwitchSocket.** `Healthy` looks at one effect: never two of socket, timer and
request, one at least unless it is cancelled, no timer if it is, no third failure
while a socket may still close. `Spent`: a late write was the last thing an
effect did. `OldEffectsWindDown` follows from `Healthy` step by step: a cancelled
effect has no timer and its socket is closing, so that its close may start a
fetch and its fetch nothing (`Remaining` goes from 2 over 1 to 0). What
`OldEffectsEnd` says beyond that is that these steps are taken, which is fairness.

Only model-checked:

* `Establishes`, `HalfOpenHeals`, `Recovers`, `OldEffectsEnd`: liveness under fairness is
  out of the prover's reach;
* the properties of `Terminal`, its types included: they are about what folds over the
  concrete trees and over the letters of words compute. The prover has no
  induction over data, and no theory of the letters of a string.

## 5. Not modelled, and why

* Texts of `show`, the serializer, log wording, prompt and line editing: wording.
* SSH transport and authentication, HTTP, JSON: libraries.
* `EPortLink`, the FLOGI database, `flogi_received`, `error_disable`,
  `connect_link`, `VSANDatabase.delete`, `elect_principal`, and the branches of
  the fabric bus for messages no peer sends (ELP to a server, DOMAIN_MERGE to a
  client, VSAN_SYNC): nothing in the simulator reaches them.
* Environment sensors and frame counters: set and shown, never read.
* What `ip address` and `hostname` store: there is no interface `mgmt0` to be in,
  and names are texts. That their lines reach a branch, or none, is in
  `CommandTree`.
* Help texts of `?`, the redrawing of a line, `shlex` quoting: layout. A line with
  quotes is expanded like any other.
* Dashboard: forms, tables and POSTs. An entry of a panel's log is a number.
* The event loop before it is known (`_loop is None`): `set_context` runs before
  any client can connect.
* More than one link per switch: links share nothing but the domain of VSAN 1.
* In `FabricBus`: a mode set between the server's test of it and its signal, and a
  reload between a signal and the send after it.
* In `StartupConfig`: `reload` is one step, and so is the change by one command;
  `load_dict` goes through VSANs and ports one by one. The file has been read by
  then, and the properties say nothing of a switch that is reloading.
* In `SharedCli`: `reload`, which creates VSANs and writes `vsan` of the ports, and
  may so leave a port whose VSAN does not list it, and `interface` with a name
  that does not exist, which changes nothing.
* In `Terminal`: the look at the mode that `exit` calls for (`cli/ssh_server.py:86`) and
  the one for the expansion (`cli/dispatcher.py:32`) are one step.
* In `SwitchSocket`: the removal of the last panel, and the second run of an effect
  for the same URL that React's StrictMode makes.

Seen while modelling, without a run of their own: a late DOMAIN_MERGE brings a
port up that was shut down or unplugged meanwhile (`ElpSuccess`); `switchport
mode auto` leaves a port in INITIALIZING (`SetMode`, `SignalTarget`); the client
shows its own domain for its peer's (`ClientTerms`); a new transceiver inherits
the speed of the old one (`InsertSfp`); a VSAN keeps listing an interface that
moved (`AssignInterface`), and one that is created twice at a time loses those
listed by then, and one of the two names (`StoreVsan`); two sessions that name zones
at the same time leave zone mode with a VSAN neither meant (`NameZone`); `reload` only adds VSANs and does not restore their
interfaces (`LoadDict`); two saves at a time may leave a file that does not parse
(`Write`), and so does a kill during a save, after which the switch does not
start; `shutdown` tells the peer nothing (`CmdShutdown`); aligning the VSAN lists
of a trunk (lab 3, "Fix") changes nothing, as lists are compared once per
connection (`ServerMerge`, `ElpSuccess`).

Of the dashboard: a broadcast that overtakes the initial message is wiped out by
it (`Greet`); two broadcasts of a socket may overtake each other, and an older
entry sent late pushes a newer one out of a panel that has its 200 already
(`Shown`), which no later message repairs; of two threads that log, the older snapshot may be sent last
(`HandPorts`); a panel with a live socket may show the ports of the switch it was
pointed at before, put there by a late poll (`PollSucceeds`), until the next
message, or say "disconnected", put there by a late `onclose` (`Closes`), until the
next `onopen` or successful poll, which a socket that lives on never has;
after three failures it polls for as long as it has that URL and opens no socket
again (`AfterClose`). The dashboard's README promises "Live WebSocket updates
from each switch".

Of the command line: `show startup-config`, `ip address` and an abbreviated
`exit` in exec mode are offered by help and completion, and refused
(`Unhandled`); `exit` in full closes the session only if the shared mode is exec
(`Close`); `sh` is `show` or `shutdown` by the mode the session finds; completion
offers nothing after an abbreviated keyword that is followed by another
(`Walked`).


## 6. Plan

Done: `Port`, `FabricBus` with `TrunkAgreement` and its proof, `PortThreads` with
`PortCalls`, `SharedCli`, `StartupConfig`, `EventFeed`, `SwitchSocket`,
`CommandTree` with `Terminal`, and the proofs of section 4. Every safety property
of the runs is proved but those of `Terminal`. What could be added:

1. `EventFeed`: of a panel that is crowded, which entries it loses.
2. `Terminal`: a second session with a line of its own under way, in place of one
   that only moves the mode.
