# EthernetSwitch in TLA+

EthernetSwitch is an ASP.NET Core 3.1 program that turns a Linux machine into a
layer-2 switch one manages from web pages. It keeps almost no state of its own: VLANs
are Linux bridges, private-VLAN types are ebtables rules, and the program changes them
by running shell commands, one after the other, from whatever thread a request or a
captured frame happens to arrive on. Nothing is locked, a failed command may leave the
rest undone, and the kernel's state outlives the process. Two background services poll
state that the pages write, and what is not in the kernel is in one small database whose
rows are read by one statement and written back whole by a later one. That is what these
modules model.

Paths below are under `src/`; `EthernetServices.cs`, `GVRPHostedService.cs`,
`FrameReader.cs`, `TrapReceiverHostedService.cs` are in
`src/EthernetSwitch.Infrastructure/`, the controllers in `src/EthernetSwitch/Controllers/`.

## Inventory

| Component | State | Operations | Hard about it | Correct when |
|---|---|---|---|---|
| Private-VLAN rules (`EthernetServices.SetEthernetInterfaceType`) | the FORWARD chain of ebtables, shared by all ports | set a type (Off, Isolated, Promiscuous), read it back with grep | up to three commands per port, each failure swallowed; overlapping requests; crash half-way; ports come and go; order of the rules decides | grants precede blocks; a settled port owns exactly its rules; frames pass as the types say |
| VLAN bridges (`Clear`, `Apply`, `SetBridgeAddress`, `RemoveVlan`, `ApplyGVRP`) | bridges, members, sub-interfaces, addresses, in the kernel | edit a port, set a VLAN's address, leave and join by GVRP | commands chosen from what earlier ones printed, stale by the time they are used; check-then-delete of empty bridges; failures caught alone, together or not at all; crashes | an update gives the row it promises and touches no other port; bridges serve; addresses sit on bridges |
| GVRP supervisor and capture tasks (`GVRPHostedService`, `FrameReader.StartCapturing`) | an unprotected dictionary of wishes, flags, one shared token, tasks, shared capture devices | edit, walk, start, cancel all and restart, read, close | dictionary written while enumerated; one token for all; a dying task closes the device of its successor; exceptions nobody hears of | one listener per port, none unknown, wishes are heeded |
| GVRP frame analysis (`FrameReader.AnalyseFrame`) | none; a snapshot of the ports | parse attributes, add VLANs, remove VLANs | the snapshot is old when used; one attribute ends the parse; the port set depends on what earlier frames left | frames change the VLANs of GVRP ports and nothing else |
| Ethernet pages (`EthernetController`) | none; what a rendered page lists | edit a port, set a VLAN's address | the wish is written before the form is refused; an exception ends an edit between two calls; the page is old when posted | a port is what its last edit and the frames since made of it; wish and kernel agree |
| Trap receiver (`TrapReceiverHostedService`, `TrapUsersRepository`) | the table of trap users, the list served, the engine and its ports | poll, rebuild the engine, add and remove users | users change during the poll; ports taken; exceptions end the service or the process; restarts | serves the table, without missing a change |
| Trap message store | one table | add, list, clear | - | - |
| SNMP agent configuration (`SNMPServices.Handle`) | `/etc/snmp/snmpd.conf`, snmpd, the settings row | set up, add a user | agent stopped when a command fails or handlers overlap; settings read long before they are written back; the file is complete only after the start | the agent runs again, with the users and the text it was given; page and file agree |
| SNMP client | none | walk, get, set | - | - |
| Accounts (`UserService`, `UserController`) | the table of users | log in, register, confirm, remove, change password | seeding by test-and-insert; whole rows written back; removal of all rows next to other requests | one administrator; no change is undone by another |
| Settings (`SettingsRepository`, `SettingsController`) | one row | read, write whole row | lost update against the agent's page; registration acts on flags read earlier | the row holds what each page was last told |
| Background task queue | queue and semaphore | enqueue, dequeue | nothing enqueues | - |
| LLDP, privacy providers, database context, views, deployment | none of interest | reading, formatting, wiring | - | - |

How they meet: `EthernetController.Edit` writes the GVRP wish, then runs the state,
Clear and Apply commands, then the type rules, on one web thread. Capture tasks run
`AnalyseFrame`, which runs the same kind of bridge commands from their own threads. The
three parts share the ports but not the kernel objects (chain, bridges, dictionary),
which is why each has a module with its commands, and `PortPages` composes them at the
level of calls. Accounts, settings and the agent's page meet in the database, and are
composed in `Administration`. The pages and the trap receiver meet in a table.

## Modules

| Module | What it is |
|---|---|
| `PrivateVlan` | abstract: modes of ports and which frames pass |
| `ForwardRules` | the ebtables commands of a type request; implements `PrivateVlan` |
| `ForwardRulesProofs` | TLAPS proofs about `ForwardRules`, and that it implements `PrivateVlan` |
| `VlanTable` | abstract: a row of VLANs for each port, changed by updates of that port only |
| `VlanBridges` | the ip and brctl commands of the VLAN handlers; implements `VlanTable` |
| `VlanBridgesProofs` | TLAPS proofs about `VlanBridges`: types and what serves a bridge, handlers overlapping or not |
| `VlanRowsProofs` | TLAPS proofs that `VlanBridges` implements `VlanTable`, and where addresses sit, handlers overlapping or not |
| `PortPages` | the Ethernet pages and GVRP batches over wish, state, VLANs, type and address of a port, call by call |
| `PortPagesProofs` | TLAPS proofs about `PortPages` |
| `GvrpSupervisor` | the GVRP service, its capture tasks and the edits that race with it |
| `GvrpSupervisorProofs` | TLAPS proofs about `GvrpSupervisor` |
| `TrapReceiver` | the trap receiver's poll against the table of trap users |
| `TrapReceiverProofs` | TLAPS proofs about `TrapReceiver` |
| `SettingsTable` | the settings row and what a request to the database is |
| `Accounts` | the table of users and the seven pages that work on it; extends `SettingsTable` |
| `AgentSetup` | the two handlers that reconfigure snmpd; extends `SettingsTable` |
| `Administration` | `Accounts` and `AgentSetup` over one database, in a process that may die |
| `AdministrationProofs` | TLAPS proofs about `Administration`: types, the agent's state, its users and its file, the settings row, the table of users |
| `SequenceFacts` | lemmas about sequences, proved, that several proof modules cite |
| `MC*` | instances for TLC: ports, threads, calls, forms, symmetry |

`PROJECT.json` maps each definition to its lines. Definitions whose name ends in
`_Something` and whose comment says *Mutant* are plausible bugs, used only to see that a
property would notice them.

### ForwardRules

`chain` is the FORWARD chain as a sequence of rules; `req` the requests in flight, each
at one of its three commands for one port (`ClearDrop`, `ClearAccept`, then `Block` or
`Grant`). One command is one step, because ebtables changes the chain at once; anything
else may happen between two. `Reject` is a command that fails though it had something to
do, which the catch ignores. `Crash` kills all requests and keeps the chain. `Replug`
changes the ports the kernel lists; a request enumerates those present when it starts.
`applied`, `covers` and `disturbed` are history: the type last applied by a request that
ran without an overlapping one for the same port, the ports it saw, and the ports that
ever had an overlap or a lost command. `Alike` holds the name clashes that grep runs
into. `PrivateVlan` is implemented with `passes` computed from the chain, first match
first.

### VlanBridges

A handler is a list of commands still to run (`job[t].todo`); a command that only reads
(`clear`, `look`, `tidy`, the probes of Apply) replaces itself by what the code does
with the answer it got. So the code's decisions, and the time that passes between an
answer and its use, are both there, and the next-state relation has one action for each kind of
command. `Impossible` says when a command fails; who catches that is part of the
command: nobody (the request ends where it stands), a try of its own, or the try that
`RemoveVlanFromInterface` wraps around three commands. `goal`, `settled` and `dirty`
are history: the row an update promised, the ports whose last update ran alone to its
end, the VLANs a handler left half done.

Nothing in the program keeps handlers apart. `Enter` notes, when a handler begins, which
others work on one of its ports or VLANs (`Touches`): all of them go on, share from then
on what they work on (`uses`), and none can promise a row any more (`sound` becomes
empty, and a port that two of them update gets the goal `Anything`). What stands is what
the *others* may expect: a port whose last update ran alone to its end (`settled`) keeps
its row through any number of such handlers until it is updated itself. With
`Overlap = FALSE` a run has handlers share no port and no VLAN, which lets it be larger;
`MayStart` is only about the runs, the theorems hold of either value.

`VlanTable` is implemented with the row of a settled port and `Changing` for any other;
its `Clashes` is a second update of a port that another one works on.

Not kept: STP, the up state of sub-interfaces, clashes of port names under grep (no
name contains another), ports pulled out. `AnalyseFrame` takes its snapshot in one step
and its frames as the VLANs they add and remove; where these come from, and pages that
are old when they are posted, is in `PortPages`.

### PortPages

A call of `EthernetServices` is one step, a handler a list of calls (`job[t].todo`), so
that what lies *between* the calls is the subject: `Edit` writes `wish`, the GVRP
dictionary, before it looks at the form (`Refuse` is its early return); an exception
ends it after any call (`Fail`); `EditBridge` is entered when its page is rendered and
its address is set when the form is posted; `AnalyseFrame` decides on a snapshot and
makes its calls later. `Attributes`, `Said`, `Adds`, `Removes` are the parser as pure
functions of a batch of frames: an event 0 (LeaveAll) ends a frame, JoinIn adds,
LeaveEmpty removes, joins win and come first. History: `due[n]` is what port `n` was
told to be (its last edit, then every batch since, by handlers that ran to their ends
and never shared it; otherwise `Anything`), `forgotten` the ports whose wish is not the
one of their last edit, `missed` those in a VLAN when its address was set from a page
that did not list them. The effect of a call is what `VlanBridges` and `ForwardRules`
find their commands to have when nothing interferes; failures half-way through a call
are there, not here (`due` is `Anything` then).

### SettingsTable, Accounts, AgentSetup, Administration

A request is a record: its handler, its next statement, the posted form, what it has
read (`kept`). Every query, every `SaveChanges` and every command is one step, and
other requests run in between. SQLite's asynchronous calls run synchronously, so the
handlers nobody awaits (`UserController.cs:118`, `:146`, `:156`) run to their ends
within their request; what is lost is their exceptions. `Update` marks all columns:
`SaveConfig`, `SavePassword` and `SaveConfirmed` write back whole what was read, with
their own fields changed, and a save whose row is gone fails as a whole (`Replace`).
`SaveFlags` marks the columns of `Settings`, not those of the owned `SNMPConfiguration`,
so it writes the flags alone. Every request but the agent's constructs `UserService`, hence `Probe` and
`Seed` before each handler. Any request may arrive at any time: a cookie outlives the row it
was given for.

`AgentSetup` has the file as a head (the 4096 bytes the stream's buffer passes on) and a
tail (what is written when the stream is disposed of), the agent as its state, the text
it has read and the users it knows, and `pending`, the users `net-snmp-config` left for
the next start. `systemctl start` leaves an agent that runs alone, and the agent reads
its files some time after (`Boot`).

History: `asked` and `owed` are what the pages and rows were last told to hold; `clash`
collects what two requests ever worked on at once, one of them to change it (the names
of users, `"users"` for the table as a whole, `"settings"`, `"agent"`). The properties
speak of what never clashed, so they say that requests *one after the other* are safe
whatever else runs, fails or dies; overlapping ones are not, and
*What does not hold* says how. `Calm` also leaves out failures and crashes.

### GvrpSupervisor

`ports` is the dictionary the web requests write, `active` the service's own flags;
`pc`, `at`, `outer`, `inner` are where `BackgroundProcessing` is in its two nested
loops. `stale` says which enumerations were invalidated by a write: in .NET Core 3.1
every write of a dictionary, even of the value that was there, does that, and the next
`MoveNext` throws (`Die`). A capture task is queued, tests its token, reads, collects a
batch and closes; `opened` is the device, shared by all tasks of a port. `TurnOff`
cancels the one token of all; `Restart` starts those that should go on, with the old
tasks still dying. `Slots` bounds how many tasks exist at once.

### TrapReceiver

One action for each stretch of `BackgroundProcessing` between two reads or writes of
something shared: compare keys, load the table, build the registry, stop the engine,
start the new one. `Row.flaw` is what the receiver may choke on although the page
accepts it: an engine id that is no hexadecimal string (the constructor of the provider throws, with the old
engine still running) or a number that is no port (throws when the new engine is given its bindings). `taken`
are ports other programs hold. In the first pass, which the host runs inside
`StartAsync` before the web server starts, an exception ends the process; later it ends
the service. The store of received messages is left out.

## Runs

| Run | Instance | Shows |
|---|---|---|
| `rules_histories` | 2 ports, 4 requests (2 at once), 1 failing command, 1 hot-plugged port, crashes | `TypeOK`, `AcceptsFirst`, `RulesMatchType` |
| `rules_three` | 3 ports, 3 requests (2 at once), 1 hot-plugged port, crashes | `ReportedType`, `ImplementsPrivateVlan` |
| `rules_overlap` | 2 ports, 3 requests | violates `TypeIsReadBack` |
| `vlan_serial` | 2 ports, 2 VLANs, 2 threads with 8 calls, no overlap on a port or VLAN, 1 crash | `TypeOK`, `BridgesServe`, `AddressOnBridgeOnly`, `UpdatesSucceed`, `ImplementsVlanTable` |
| `vlan_overlap` | 2 threads, 2 ports, 1 VLAN, handlers share it | violates `NoUpdateLost` |
| `gvrp_walks` | 2 ports, 3 tasks, all captures may fail | `TypeOK`, `SoleListener`, `LiveIsFlagged`, `WalkSettles` |
| `gvrp_fair` | 2 ports, 2 tasks, fairness | `OffIsHeeded`, `OnIsHeeded` |
| `gvrp_dead` | the same | violates `GvrpRuns` |
| `traps_table` | 3 users over 2 ports, fairness | `TypeOK`, `ServesActive`, `NoChangeMissed`, `TableIsFollowed` |
| `admin` | 3 requests (2 at once) to 8 pages, 2 settings, 2 configurations, 1 failure, 1 crash | `TypeOK`, `SettingsKept`, `SoleAdmin`, `AccountsKept`, `RegistrationFollows`, `AgentComesBack`, `UsersAreServed`, `PageShowsFile` |
| `agent` | 2 requests, no accounts' forms | violates `AgentHasConfig` |
| `edit` | 4 handlers (2 at once), 2 ports, 2 VLANs, 5 forms, 3 batches, 1 failure or crash | `TypeOK`, `PortsAsAsked`, `GvrpIsWished`, `PrivateHasOneVlan`, `NoAddressBehindBridge` |

Bounds. Rules are about pairs, so two ports show every conflict of an owner with
another's rules and three show that a third pair is left alone; four requests are two
that overlap or die, one after them and one more. Two VLANs allow moving from one to
the other and a bridge that another port still uses. One crash is enough for any half-done handler to be
followed by any call; the calls are all kinds of edits, addresses and frames that meet
in `v1`, and two threads have one handler's commands fall between another's. Handlers
that meet on a port or in a VLAN run in `vlan_overlap`; what holds of them is proved (below).
Three capture tasks on two ports hold a dying and a fresh task of one port at
once and a task of the other. `Slots` also limits the fair run: where no slot is free
`Spawn` waits, until the old tasks, which are fair, have ended. Three users allow one to
be removed and another added between two polls, next to a third. In `admin` a third
request finds what two overlapping ones left, and an overlap is between two; the
database starts empty or with an administrator and one registration in any role, so
three requests suffice to have a stale save behind a confirmation or a removal
(`MaxRequests`, `MaxFailures`, `MaxCrashes`). In `edit` four handlers are an edit, a
page, what happens in between and what follows (`MaxHandlers`, `MaxFaults`); its forms
and batches are one of each kind that meets another: private types with one and two
VLANs, GVRP on and off, a join, a join and leave of one VLAN, a leave behind a LeaveAll.

Requests are interchangeable in the rules runs and in `admin`, threads in `edit`, and so
are ports and slots in `gvrp_walks` (SYMMETRY); the fair runs use no symmetry. Deadlock
checking is off where a behaviour ends because its bound is used up: `rules_overlap` (no
port to replug), `admin`, `agent` and `edit` (no request left to start).

Fairness. `GvrpSupervisor!FairSpec` has weak fairness of the service (a timer and
continuations on the thread pool: it is delayed, never refused) and of each capture task
(device reads time out after a second, so the loop always goes round). Nothing is
assumed of edits, crashes or failures. `TrapReceiver!FairSpec` has weak fairness of the
service, on the same ground. The handlers of web requests carry no fairness in
any module; nothing there is claimed to happen.

## What does not hold

- **rules_overlap**: two overlapping type requests for a port leave a rule twice;
  `ebtables -D` takes out one. `EthernetTests.cs:93` expects a type to be read back.
  `RulesMatchType` holds because it leaves out ports whose requests ever overlapped.
- **vlan_overlap**: Clear's test for an empty bridge and the deletion
  (`EthernetServices.cs:292-297`) are commands apart. Another port that joins in between,
  with a probe that saw the bridge exist, is in it when it is deleted. No command fails
  and both pages report success, but the port ends in no VLAN (`EthernetTests.cs:52-53`
  expects the VLAN). `NoUpdateLost` leaves out edits that end in an error page, such as
  the one of two edits that both probed for a bridge (`:169`) before either created it
  (`:192-195`) and that comes second at `brctl addbr`.
- **gvrp_dead**: an edit during a walk, or an edit with GVRP off of a port that never
  listened, throws in the service and GVRP is over until a restart (`Readme.MD:14`).
  `OffIsHeeded` and `OnIsHeeded` hold only *while the service lives*.

- **agent**: setting up the SNMP agent starts it while the end of its configuration is
  still in the buffers of the stream (`SNMPServices.cs:109-112`). The template has 7133
  bytes, the buffer 4096, and the line of the trap receiver (`snmpd.conf:129`, *send
  SNMPv2c traps*) is behind that: the agent runs without it until its next restart.
  `PageShowsFile` holds, so a restart repairs it.

Seen while modelling, not run as a disagreement:

- An untagged edit with two VLANs leaves the first one's bridge down
  (`EthernetServices.cs:209`; `dirty` exempts it).
- A crash between `ip link add` and `brctl addif` (`EthernetServices.cs:232-241`) leaves
  a sub-interface outside any bridge, which Clear does not list; later tagged edits of
  that port and VLAN fail on it, however often they are retried (`Orphaned`).
- A private port may end with several VLANs if it also does GVRP: `AnalyseFrame` does
  not look at the type. A GVRP port whose last VLAN frames took away is no GVRP port any
  more, though it is listened to. A restart, or an edit that was refused, leaves a
  dictionary that disagrees with the kernel until the port's next edit (`forgotten`).
- `RemoveUsers` removes all users, whichever names it is given, the administrator
  included. The next request seeds the default one, unless a registration that was under
  way has filled the table first: then there is no administrator, and none is seeded
  ever after. Two first requests seed two.
- A confirmation that runs next to a change of the same user's password brings the old
  password back, or the role, whichever is saved last. The setup page
  brings back the flags it read before the minutes an installation takes, whatever the
  settings page saved meanwhile.
- `net-snmp-config` refuses to add a user next to an agent that runs; its message is
  returned and dropped (`SNMPController.cs:111`). `BashCommand.Install` runs `yum` and
  then `apt-get` on Fedora. Two overlapping setups can leave a file with the head of one
  and the tail of the other.
- The trap receiver's first pass can keep the whole application from starting when the
  table holds a user it cannot use (`Die` with `first`); the constructor of
  `SNMPTrapUser` drops its `encryptionType`, so every trap user is served with DES.

## What is proved

TLAPS proves, for any sets of ports, requests, tasks, users, forms and configurations
and with no bound beyond the constants:

- `ForwardRulesProofs`: `TypeCorrect` (`TypeOK`), `AcceptsStayFirst` (`AcceptsFirst`),
  `RulesAreExact` (`RulesMatchType`), from `NicsAssumption`. The invariant `IInv` adds:
  no rule occurs twice for an undisturbed port (`OwnedOnce`), only a request of the port
  touches its rules (`Exclusive`), a request that is at its third command has just
  deleted both rules (`RuleStep`), and the ports it has passed have the rules of its type
  (`Progress`). Without `OwnedOnce` the deletion of *the first* copy would not be the
  deletion of the rule, which is exactly what goes wrong in `rules_overlap`.
  `TypeIsReported` (`ReportedType`) needs `NoSelfRule` besides: no rule has one port at
  both ends.
- `ForwardRulesProofs`: `RulesImplementTypes`, that is `Spec => ImplementsPrivateVlan`.
  With the grants ahead of the blocks (`AcceptsFirst`), first-match is the same as *some
  rule grants it or none blocks it* (`ForwardsIsPasses`), which does not depend on
  places. So a command rewires only pairs its port is in, the end of a request settles
  its port with `Honest` from `RulesMatchType`, and failures, crashes and hot-plugging
  are stutters. What it assumes is again `NicsAssumption`.
- `GvrpSupervisorProofs`: `TypeCorrect`, `OneListenerPerPort` (`SoleListener`),
  `ListenersAreFlagged` (`LiveIsFlagged`), `WalksSettle` (`WalkSettles`), from
  `SupervisorAssumption`. The key of the first three is `Cancelled`: while the inner loop
  runs, no port it has still to reach has a live listener. `WalksSettle` needs a
  second invariant, `SettleInv`: the ports the walk has passed and nobody has edited since agree
  with their flags, and no flagged port lost its listener except where `failed` says so.
- `TrapReceiverProofs`: `TypeCorrect`, `EngineIsActive` (`ServesActive`), `TableIsRead`
  (`NoChangeMissed`), from `TrapAssumption`. The invariant adds that keys tell users apart
  across the table and the list served (`Keyed`), that a first pass has bound nothing
  (`Engine`), and that what was read is what is there until the table changes (`Read`).

- `AdministrationProofs`, from `SettingsAssumption`, `AgentAssumption`, `CrashAssumption`:
  `TypeCorrect` (`TypeOK`; `Fitting` says of each request what it holds at each of its
  statements), `AgentReturns` (`AgentComesBack`, inductive on its own), `SettingsAreKept`
  and `RegistrationIsAsked`. These rest on `AllExclusive`: of what is not in `clash` no
  two requests in flight conflict now. With it a copy of the settings row stays current
  until it is saved (`Current`).
- `AdministrationProofs` also: `AllUsersServed` (`UsersAreServed`), `PageIsTrue`
  (`PageShowsFile`). In a calm system an agent that is on has read every user there is,
  whoever stopped it finds it stopped, and every user asked for is with the agent,
  pending or on its way (`AgentInv`); the file is the last saved configuration or there
  is a setup at work on it whose text its head is (`FileInv`).
- `AdministrationProofs`, of the table of users: `OneAdministrator` (`SoleAdmin`), `ChangesAreKept` (`AccountsKept`).
  `RowsInv`: ids are unique and not above `lastId`; a row a request holds is the row in
  the table unless its name clashed, and keeps its name and whether it is an
  administrator's even then (`HeldOK`); who is about to seed finds the table empty, who
  works on it finds it filled (`SeedOK`).

- `PortPagesProofs`, from `PagesAssumption` (the port set is finite, no VLAN is called
  `none`, forms and batches are of the types the model binder and the frame parser
  produce): `TypeCorrect` (`TypeOK`), `PortsAreAsAsked` (`PortsAsAsked`),
  `GvrpOnlyWhereWished` (`GvrpIsWished`), `PrivatePortHasOneVlan` (`PrivateHasOneVlan`)
  and `AddressesOnBridgesAlone` (`NoAddressBehindBridge`). The first four follow from
  `PortInv`. It says how far every handler has come with each port that it has not had to
  share (`Underway`): an edit at its call `k` has made of its port what its first `k - 1`
  calls make of it (`Made`, `EditAt`); a batch has still to give the port `ToJoin` and to
  take `ToLeave`, which turns the VLANs it has into those it was told to have (`Framing`).
  Where calls change no port they are not about, this carries over each call; a port that
  two handlers are on is told nothing (`Sole`), so that no other call can disturb it; and
  when the calls are used up the port is `AsTold`, and stays so while no handler is on it
  (`Rest`). `AsTold` needs one thing more than the property says: no settled port has both
  tagged VLANs and an untagged one. Without it a batch's leave could take the untagged
  membership of the port. `DueOK` says that what a port was told is what some accepted
  form may ask for. The last theorem has an invariant of its own, `Flushed`, of the ports
  outside `missed` whether or not a handler is on them. What the program of a batch
  contains (`FrameProgCalls`) is proved without induction: `ForEach` gives the place of
  each pair by division, so the pair at a place and a place for each pair are arithmetic
  (`PairOf`, `PairAt`).

- `VlanBridgesProofs`, from `VlanAssumption` (ports and VLANs are finite sets, calls are of
  the types `Forms` says, no VLAN is called `none`): `TypeCorrect` (`TypeOK`) and
  `BridgesAlwaysServe` (`BridgesServe`), for any number of threads and with `Overlap`
  either way. A bridge is taken down, made or left by one command and brought up, filled
  or tidied by another, with anything of other handlers between them, so what holds at
  each step is not about bridges alone. `BridgesInv` says of every command still to run
  what a later one of the same handler does for it (`Kept`: a `down` is followed by an
  `up` or a `delete` of the bridge, an `addbr` by an `up` and by a command that adds a port
  whose sub-interface exists or is made on the way, `unlink` and `delif` by a `tidy`), and
  of every bridge that is down or empty that some handler still has the command that
  makes up for it (`Served`). A command can then be run because what it takes is owed by
  the rest of its own handler (`RaisedPaid`, `FilledPaid`), and commands of others leave
  that debt standing (`RaisedStays`, `FilledStays`); one that pays it has changed the
  bridge. What a failure, a crash or the `master` branch of Apply leaves unpaid is in
  `dirty`. `Guarded` says that a try shared by several commands is about one VLAN and ends
  before the handler does, which is what makes skipping them harmless to other VLANs.
- `VlanRowsProofs`, from `VlanAssumption` alone: `UpdatesImplementTable`, that is
  `Spec => ImplementsVlanTable`, and `AddressOnlyOnBridge` (`AddressOnBridgeOnly`). An
  update of Edit or of a GVRP frame that runs to its end, and that no other handler on its
  ports or VLANs overlapped, leaves its port with the row it asked for; no handler, also
  one that overlaps others, fails in the middle or dies, changes the row of a settled
  port it does not update; and no settled port holds an address next to that of its
  bridge. The number of threads, what they call, how their commands interleave, on
  which ports and VLANs they meet, which commands fail and when the process dies are all
  arbitrary. That an update which *is* overlapped may miss its row is not a gap of the
  proof: `vlan_overlap` shows it.

  The invariant is `RowsInv`. A handler may have thirty commands to go and rewrites its
  list as it reads what the kernel prints, so there is no counter to say how far it has
  come. Instead, a *view* is what a handler may know of a port (its bridge, its
  sub-interfaces, VLANs that have a bridge, where addresses may be), `Does` is what one
  command makes of a view, a command that stands for a decision yet to be taken included,
  and `Leads` what a list of commands makes of it. `Due(t, n)` then says: a view of port
  `n` that is true now is taken to the row asked for by the commands `t` has still to run.
  It holds when a handler starts, because the programs of Edit and of a frame lead from
  any port without an orphan to that row (`EditLeads`, `FrameLeads`); one command takes
  the head off the list and the view along; a decision replaces a command by some that
  lead to the same place (`JoinLeads`, `ClearLeads`); a command of another handler leaves
  the view true, since its VLANs are others (`Solo`, `Own`); and with an empty list the
  view is the row. A command that fails ends its handler, which then has promised nothing,
  or is caught, and the commands after it lead to the row without it. `Due` is claimed of
  a handler that nobody overlaps only (`Solo`); of all others the rest of the invariant
  holds. Handlers that have met share all their ports and VLANs and the rest of the
  threads none of them (`Apart`), and every handler works on all the VLANs its ports are
  in (`Own`). The other conjuncts say why no decision is stale and no command has an
  effect elsewhere: what Apply saw of a VLAN still holds when it joins it (`Seen`), a
  bridge that is deleted may have ports again, but none that stands on its row or is
  promised one (`Deletes`: one of these would have been seen, and one that joined since
  met the handler; otherwise a deletion would change the rows of others), the address
  page has flushed the settled ports of a bridge, or will, before it sets the address
  (`Addresses`), and a settled port is in one bridge or has sub-interfaces, not both (`Rests`; otherwise
  Clear's two listings would not be all it is in).
- `SequenceFacts` has what the proofs need of sequences. That a program flattened out of
  pieces is sound if each piece is (`Flattened`, `FlattenedInStages`) is not by an
  induction theorem: `FlattenSeq` is a recursive function of the length of a prefix, and a
  least length at which it fails to exist, or to be of the kind, contradicts the one
  before.

TLC found the strengthened invariants to hold on the instances of the runs as well (with the
number `Guarded` speaks of bounded by the length of the list).

Only model-checked: `UpdatesSucceed` and the liveness properties. `UpdatesSucceed` says more
than the refinement: that no update of the run ever fails, so that the row is reached. For
every value of `Calls` that is false, and not because of the kernel: a form that names one
VLAN twice adds its sub-interface twice, and the second `ip link add` fails. It holds of the
calls of `vlan_serial`, and stays with TLC. Liveness under fairness and
`ENABLED` are out of the prover's reach. None of the modules with theorems, nor any module
they use, declares a RECURSIVE operator.

## Not modelled, and why

- The message store and the handlers that store a received message: each is one insert or
  delete in one transaction, and nothing reads it but a page. The SNMP client: one
  request, one reply, no state. LLDP: reads and deserialises. Index, views, wiring,
  migrations, deployment scripts.
- The bytes of GVRP frames below their attributes; the hashing of passwords; cookies;
  the backup copies of `snmpd.conf`; the choice of package manager.
- The privacy providers are ciphers adapted from a library. The background queue has no
  producer, so no behaviour of the program reaches it.
- Vendored code: jQuery, Bootstrap and their bundles under `wwwroot/lib`,
  `bower_components` and `publish`, and the published binaries. They are by far the most of
  the repository's lines and all of its JavaScript (the two `site.js` hold a
  comment only); the program of this repository is its C#, and only that is modelled.

## Plan

1. Done: `ForwardRules`, `VlanBridges`, `PortPages`, `GvrpSupervisor`, `TrapReceiver`,
   `Administration`, with their abstract specifications where one was worth stating; both
   refinements, every action property and every safety invariant but `UpdatesSucceed` are
   proved.
2. Next: the composition of `GvrpSupervisor` with `PortPages` (which capture task may
   run `AnalyseFrame` when); ports pulled out while `VlanBridges` works on them.
3. Proofs: under which forms and bridges no command of an update fails, so that
   `UpdatesSucceed` can be stated for every such call.
4. The padding and length arithmetic of the privacy providers as pure functions.
