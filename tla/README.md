# A TLA+ model of vorto

vorto forwards TCP and UDP ports. It runs in the foreground or as a daemon that
re-reads `config.yaml`, and forwards either with sockets of its own or with NAT
rules that it gives to nftables. This directory holds TLA+ modules of its parts,
TLC runs that check them on small instances, and TLAPS proofs of the properties
that matter most. Paths are relative to the repository.

## 1. The system

| Component | Code | State it keeps | Operations |
|---|---|---|---|
| tunnel manager | `src/runtime.rs` 29-207, 631-667 | a map from names to `ActiveTunnel`: a spec, a stop channel, one task handle per protocol | `reconcile`, `stop_all`; inside: retire, remove, spawn, roll back, stop, abort |
| TCP worker | `src/runtime.rs` 323-458, 631-653 | a listener, a `JoinSet` of connections | accept, reap, connect with timeout, copy, drain, abort |
| UDP worker | `src/runtime.rs` 460-576 | a socket in an `Arc`, the sessions of the crate `udpproxi` | receive, forward, respond through a `Weak` |
| foreground runner | `src/runtime.rs` 209-250 | both managers, the configuration loaded at the start | start or give up, wait, health tick, stop |
| config watcher | `src/runtime.rs` 252-321, 669-687 | both managers, `last_applied_config` | poll, reconcile, switch mode, wait, stop |
| nft manager | `src/nft.rs` 11-95, 311-354 | `active_specs`, `table_active`; the table in the kernel | `reconcile`, `stop_all`, `drop` |
| nft ruleset | `src/nft.rs` 125-309 | none | `from_tunnels`, `render_script` |
| configuration | `src/config.rs` | none | parse, validate, load, save |
| daemon control | `src/main.rs` | the pid file, the processes | daemon, stop, status, the worker's guard |
| interactive editor | `src/interactive.rs` | an edited copy of the configuration, a flag for unsaved changes | add, edit, toggle, delete, modes, save, quit |
| command line, version, build script | `src/main.rs`, `src/version.rs`, `build.rs` | none | dispatch and printing |

How they interact. The foreground runner and the watcher each own a tunnel
manager and an nft manager and await their calls, so no two calls of one manager
overlap. Worker tasks run concurrently with all of that, on several threads; a
manager talks to them through a watch channel and a join handle, and through the
port that both may want. The watcher shares `config.yaml` with the editor and
anybody else. The daemon commands share the pid file with the worker process, and
reach it by SIGTERM. The nft manager shares a table with the kernel and with
nobody else, for its name is unique.

What is hard, and what makes each part correct:

- *Tunnel manager*: sockets are bound while other workers die, hold ports or
  ignore the stop signal. It is correct when no worker escapes its owner, tunnels
  are whole or absent, everything in the way is stopped before anything is bound,
  the result of `reconcile` is the truth, and unchanged tunnels are left alone.
- *TCP and UDP worker*: timeouts inside timeouts, tasks that own tasks, an abort
  at any await, and a socket that others may still hold. They are correct when a
  stop is prompt and still graceful, no connection is left to itself, what fails
  for one client concerns no other, and the ports come free.
- *Foreground runner*: all or nothing at the start, healing afterwards, and
  nothing left behind however it returns.
- *Watcher*: reloads that fail half-way, changes of mode, a signal at any moment.
  It is correct when what is recorded as applied is served, nothing of the other
  mode is left over, a switch makes before it breaks, and it can be stopped.
- *nft manager*: each command may fail, and the record must still agree with
  the kernel; a process that ends must leave no table.
- *Ruleset and configuration*: two validators have to agree, and the rules have
  to mean what the tunnels say.
- *Interactive editor*: others read the file while it is saved, or another editor
  saves it too. It is correct when a reader finds whole files only, edits stay
  valid, and nobody loses work without being asked.
- *Daemon control*: at most one worker, reachable through the pid file, whatever
  was left behind by an earlier one.

`PROJECT.json` lists the hazards one by one, at their lines.

## 2. Modules

```
AppConfig <------+--- NftRuleset <---+--- NftManager <.... NftClient
                 |                   +--- ConfigFile <.... Foreground
                 +--- NftClient  <---+--- Foreground ---> TunnelManager <..+
                 +--- Editor         +--- ConfigWatcher        :           :
                                            :                  :           :
                                            +....> TunnelTable <           :
                                                                           :
TaskShutdown <---+--- TcpWorker <----+--- ActiveTunnel ....................+
                 +--- UdpWorker <----+
                                          DaemonControl
```

Solid arrows are EXTENDS and dotted ones INSTANCE; those of TunnelManager and of
ActiveTunnel are refinements. TunnelManager, NftManager, ConfigFile, ActiveTunnel, Foreground,
ConfigWatcher, DaemonControl and Editor each have a module of theorems, `..._proof`, that
extends them. NftClient takes NftManager, and Foreground takes ConfigFile, through its module of theorems.

Each `MC...` module (that of ConfigFile is MCNftRuleset) extends the module it is named after and gives TLC its small
instance. A definition `Action_Something` that stands before `Action` is a mutant:
the same action with a plausible bug, used to show that a property would notice.

**TunnelTable** is the abstract specification of the socket-mode manager: a table
from names to tunnels that a call drives towards a goal. It knows nothing of
sockets, tasks or signals. An entry is dropped only if it is broken or not
wanted as it is, one is added only when nothing is left that has to go, and the
call returns TRUE exactly when the table is the goal.

**TunnelManager** is the code. `active`, `spec`, `worker`, `stop_sent` are the map,
the fields of each `ActiveTunnel` and its handles; `pc`, `desired`, `todo`,
`current`, `all_started` are the locals of the call in progress, one step from
await to await. A step never spans an await. `todo` is a set, because the code
iterates over a `HashMap`. `worker` has one state per protocol: none, running,
finished. `InUse` says what makes a bind fail: a running worker, a response in
flight that holds the UDP socket, or anything else on the machine (`foreign`),
which also stands for every other error of a bind. Two endpoints clash when they
are equal; 0.0.0.0 against a specific address is left to `foreign`.

**TaskShutdown**, **TcpWorker**, **UdpWorker** and **ActiveTunnel** look into what is
one worker there. TaskShutdown is `ActiveTunnel::stop`: the watch channel, the
`JoinHandle` of each worker, and the task that waits for it for a grace period and
then aborts it. TcpWorker is the accept loop, the stages of each connection and
the drain. An abort is requested in one step (`aborted`) and takes effect in a later
one, so that an aborted task may still move. UdpWorker has the receive loop and
`holders`, the strong references to the socket: the worker's, and that of each
response in flight. ActiveTunnel puts them together with a clock. Time runs
from the stop signal on, in ticks; whatever is due at once is done before the
next tick, while noticing the signal may take for ever. That model has both
workers; a tunnel of one protocol is the part in which the other one's clients
stay away. `Manager` in ActiveTunnel is TunnelManager with one name in its map, all
of its variables being functions of the tunnel's state: the tunnel is in the map until
the signal is sent, and in the hands of `stop_all` until the last handle is joined.

**Foreground** is `run_foreground` over TunnelManager itself and NftManager, in both
modes. Manager steps interleave with the loop's awaits (`loop`), with workers
that die and with ports that are taken. `handler` says whether a signal is
caught, `outcome` how the loop came to its end. `Asked` is ConfigFile for the one
configuration that is loaded: what its tunnels should receive, and what a table does with
their packets.

**AppConfig** and **NftRuleset** are operators. A configuration file is `Missing`,
`Blank`, `Malformed` or a document, with the values of keys that the file leaves out filled in; an address is a pair of ip and port, or
`BadAddress` for text that does not parse. A rendered script is modelled by the
rules it adds to a table, which *extend* a table that is still there. **ConfigFile**
is a file that is written one tunnel at a time, with what its tunnels ask of nft mode.

**NftManager** has the record (`active_specs`, `table_active`), the kernel's table,
and one step per nft command, each of which may fail. A script is a transaction.
`killed` and `delete_failures` are history variables.

**NftClient** is what Foreground and ConfigWatcher have in common: the state of the nft
manager, and NftManager with its theorems, for the tunnels that the files may ask for.

**ConfigWatcher** is `run_config_watcher` line by line, with TunnelTable and NftManager
as its two managers. It takes the abstract table, not TunnelManager, because the
refinement is checked and proved. Signals are those of tokio: the first listener
installs a handler for good, the handler marks the signal as pending, and
the runtime wakes those who listen when it gets to it.

**Editor** is the menu as one action per entry, for several processes at once, and
`AppConfig::save` as its system calls: the temporary file is created, written and
renamed, each of which may fail, and the process may be killed between any two.
`Folded` stands for the comparison of names without regard to case. Another program
reads `file` at any time, so that what a reader may find is an action property of it.

**DaemonControl** has the pid file, the processes, and the commands as sequences of
system calls; `fs::write` is a truncation and then a write. `writers` holds those
who have the present file open, so that a write to a file that has been removed
goes nowhere. A command or a worker may be killed between any two steps. The pid of one
that is gone may be taken by a program that no command would take for the daemon, or by a
`namesake`: a worker of another directory, which `is_daemon_worker_cmdline` cannot tell apart.

## 3. Runs

| Run | Shows | Bounds |
|---|---|---|
| `tunnel_manager` | the safety and liveness of TunnelManager, its inductive invariant, and that it implements TunnelTable | 2 names, 2 endpoints, 2 targets, 5 desired maps |
| `active_tunnel` | a stop is prompt and graceful, connections are owned, failures stay local, clients are served, the UDP port is released; one tunnel is what TunnelManager takes it for | 2 TCP clients, 2 UDP clients, a grace period of 2 ticks |
| `foreground` | in nft mode packets go where the configuration says as long as it waits; however it returns it leaves nothing; dead tunnels come back | 2 names, 2 endpoints; files: missing, two in socket mode (one that can be served, one that cannot), four in nft mode (a tunnel that is not enabled, two that share an address, two that share an endpoint and are refused, none); one failed deletion |
| `nft_ruleset` | what is accepted can be built, and means what the tunnels say | all files of up to 2 tunnels: 5 listen addresses, 3 targets, 3 names, both modes |
| `nft_manager` | the record and the kernel agree | 5 lists of tunnels, 2 failed deletions, any number of failed scripts |
| `nft_revert` | *violated*: success without a table | same |
| `config_watcher` | mode switches, reloads, failures; what is recorded as applied is what is served | 6 contents of the file, one failed deletion, one SIGTERM |
| `watcher_mode` | *violated*: tunnels left over from socket mode | same |
| `watcher_stop` | *violated*: a SIGTERM is lost | same, with fairness |
| `daemon_control` | one worker, reachable, and told of correctly, though commands and workers are killed anywhere | one terminal, 3 pids |
| `daemon_file` | *violated*: a pid file that no command can read, with nobody left to write it | same |
| `editor` | saves are atomic, edits stay valid, no work is lost silently | 2 editors, 2 changes in all, 3 names of which 2 differ in case alone, 4 files |

Why the bounds are enough. Two names and two endpoints make every conflict the
manager can meet: a port exchanged, a port wanted twice, a change of target only,
a "both" tunnel that fails half-way. Names do not otherwise interact, and each
loop treats them one at a time. The theorems hold for any number. For nft, rules
interact in pairs (the first match wins), so that two tunnels show every overlap.
The six files of the watcher are a missing one, two for sockets and three for nft (one
of them without tunnels), which make every sequence of modes, with the same and with
other tunnels; polls and failures
of scripts are unbounded. Two TCP clients make a drain that is joined, one that
times out, and one in which the first connection ends and the second does not;
a connection that has ended may come again without limit. The clock may go to one
tick past the grace period, which is where a stop would be late. Two changes are
enough for two editors to save different things, or for one to do and undo.
Three pids are a worker on its way out, its successor
and one more for a second worker or a stranger, which may be the worker of another
directory.

`CHECK_DEADLOCK FALSE` in the nft manager's runs: its process really ends.

The four violations are findings, described with their lines in `PROJECT.json`:

1. After a script that failed, the record names a table that is gone; a return to
   the former tunnels is then taken as done, with no rules installed.
2. Socket tunnels of a configuration that never started as a whole survive the
   switch to nft mode.
3. A SIGTERM outside of the wait is caught and lost.
4. The pid file is written in place, by the daemon command and again by the worker's
   guard. A worker that is killed between the truncation and the write of its guard,
   when the command has written before, leaves an empty file with nobody to fill it;
   every later command fails on it.

Conditions in the properties. `delete_failures = 0`: when `nft delete table` fails
the code forgets the table and has no way back, and says so in no doc.
`~unrecorded`: a `daemon` command that is killed, or cannot write the pid file, between the
spawn of its worker and the moment the file names it leaves that worker to itself. Until
the worker's guard has written, a second command finds no file, and may spawn another
worker; a command that goes when the file already names its worker is covered. `outcome # "no_signal"` in `EndsClean`: if the handler for
signals cannot be installed the tunnels are left to the destructors, which abort the
workers without waiting for them. `CaseDistinct(loaded[e])` in `EditsStayValid`: a file written
by hand may hold names that differ in case alone, which validate accepts and the
editor cannot tell apart. `PortIsReleased` supposes that some time no response begins
any more: a session outlives the worker, and as long as its responses overlap the
socket stays open. `Compatible` in `SelfHealing`: of two tunnels that want
one port, either may be the one served. With two terminals `OneDaemon` and
`Reachable` do not hold, as two commands at once are not excluded by anything.

## 4. Fairness

- `TunnelManager`: weak fairness of the manager's steps, for its task is polled, and
  of `WorkerAborted`, for `wait_for_task_shutdown` aborts a worker after 3 seconds.
  Nothing is assumed of workers noticing the signal. That a stop really ends so,
  whatever the workers do, is `StopIsPrompt` and `PortIsReleased` of ActiveTunnel.
- `ActiveTunnel`: weak fairness of what the runtime or a timer brings about: the
  accept of what is in the backlog, the end of a connect at its timeout, an abort,
  the joining of a task, the clock, and the end of one `send_to`. Nobody has to send
  the stop signal, and neither a connection, a client, a target nor a session has to
  do anything; in particular no connection has to notice the signal.
- `Foreground`: weak fairness of the loop (a tick comes every second), of the manager,
  of `WorkerAborted` and of the end of one `send_to`. nft commands get none, for
  `SelfHealing` is about socket mode. It has as hypotheses that workers stop dying
  and that foreign sockets are eventually closed; both are left out of the fairness
  because nothing promises them. Nor does anybody have to send a signal.
- `ConfigWatcher`: weak fairness of its loop, of nft commands ending, of the managers'
  returning (`CallsReturn`) and of tokio's signal driver. Strong fairness of the
  signal's branch: `select!` picks a ready branch at random, so a branch that
  is ready again and again is eventually taken. A signal is still lost, without
  any unfairness: that is finding 3.

## 5. Proofs

Checked by `tlapm`, for all values of the constants that satisfy the named
assumptions (`NoTunnelAssumption`, `NoNameAssumption` and `DesiredAssumption` of TunnelManager;
`MaxDeleteFailuresAssumption` of NftManager; `GraceAssumption` and `PeerAssumption` of the
workers; for Foreground and ConfigWatcher those of the managers and of AppConfig, and
`SocketTunnelsAssumption`: what a file asks of the tunnel manager is among the maps that
its theorems are about; for Foreground `LoadableAssumption`, that what is loaded has the shape of
a configuration, and `NoResultAssumption`, that of ConfigFile below; `PidAssumption` and `ClientAssumption` of DaemonControl; `IpAssumption` and
`AddressAssumption` of AppConfig, and for ConfigFile `WrittenAssumption`, that what is written
has the shape of a tunnel, and `ResultAssumption`, that an error of `from_tunnels` is no
ruleset, `NoTable` no table and `NoTarget` no address;
`DocumentAssumption`, `FirstFileAssumption` and `TypedAssumption` of Editor: a file that
parses is none of the constants that stand for those that do not, and what is typed in
has the shape of a tunnel).

*TunnelManager_proof.* `Inv` is inductive (`Invariance`). The properties alone
are not: that every worker has an owner needs to know which object the manager
holds outside the map at each await (`Roles`), the result of `reconcile` needs to
know what the last loop has given up (`Loops`: `all_started` is TRUE exactly when what
is wanted is in the map or still to do), and a tunnel that enters the map whole needs
to know how far `spawn` has come (`Spawning`). From it follow `Ownership`,
`Whole`, `StopsFirst`, `Returns` and `Keeps`. `Refinement` proves that each step
maps to a step of TunnelTable or to a stutter, with one lemma for each action that
maps to a step of its own.

*NftManager_proof.* `Typing` and `Recorded` are inductive, the second on top of
the first; `UnknownRules` and `Success` follow. `NoTunnelsNoRules` is the one
fact needed of the ruleset: no tunnels make no rules.

*ActiveTunnel_proof.* `AtInv` is inductive for any sets of clients and any grace
period. `StopIsPrompt` needs the clocks to be tied together (`Timers`): while a
worker is waited for, what is left of its timeout and what has elapsed make one grace
period; when it is being aborted exactly one has gone by, and the clock cannot go on
before it is joined. The drain's own timer only has the bound that `GraceIsGiven` needs,
that it never ends before the grace period does. `OwnedConnections` rests on the
one lemma about the end of the worker's future, `DropStep`.

`Implements` proves that a tunnel implements what TunnelManager takes it for: at the start
it is in a state that satisfies the manager's `Inv`, and every step is one of its steps or
hidden from it. The end of a task, whoever ends it, is `Exit` (`ExitSeen`); the signal is `StopAll`,
and the last join is `StopAllReturns`, which needs that a worker that has been joined has ended,
a part of `AtTypeOK`; a response may take the port only under the UDP worker
(`SinkSeen`), which rests on the worker's reference living as long as its task. So
whatever is proved of TunnelManager, which knows no connections, sessions or timers, is about
tunnels that have them.

*ConfigFile_proof.* What `enabled_tunnels` and `from_tunnels` compute is proved for lists of any
length. Both are the flattening of a list of lists (`FlattenSeq`, a recursive
function), of which only the set of elements matters: `RangeOfFlattened` says it is the union of the
elements of the lists. The induction behind it is about sets: `SetInduction` says that a set that
has zero and the successors of its members has all numbers (from the well-foundedness of `<` in the
library), and is used for the set of those n for which the recursion is defined (`JoinExists`)
or has joined what it should (`JoinHolds`). Then `EnabledOnly`, `RulesOfTunnel` and `Built` say what
the operators return, `Checked` what validate has seen to, and `Buildable` and `Serve` follow. The kernel takes the first rule that matches, and any that matches will do,
for two enabled tunnels that receive the same packets are one (`OneReceiver`). `ServesDocument`
puts that together for whoever installs the table of an accepted configuration.

*Foreground_proof.* The proof is a composition. `ManagerSpec` and `NftManagerSpec` show
that the loop drives its managers by steps their specifications have, so that
every behaviour of Foreground is one of TunnelManager and one of NftManager, whose theorems
are then cited and not proved again (`RecordServesCallers` for the nft manager's). What is new is `Stopping`: how far
the shutdown has come, and that `stop_all` returns with an empty map and no worker
(`StopAllClears`), and `Installing`: how far the start has come in nft mode. `Arrives` joins three
parts of the code that know nothing of each other. The loop waits only after a reconcile that
returned true, so that the kernel has the table of the configuration (`Installing`, for which
`KernelIsRecorded` says that no script runs without rules and none is skipped with some); what was
loaded is accepted by validate (`LoadedIsAccepted`); and such a table serves its tunnels
(`ServesDocument`). `SameReading` and `SameTable` say that the configuration the loop reads and
the table it installs are those that ConfigFile is about. `PacketsArrive` needs no hypothesis on
failed deletions: at the start there is no table of ours to delete.

*ConfigWatcher_proof.* The inductive invariant is `WatcherInv`. Its first parts, `TypeOK` and
`Progress` (what each await is for, and which nft commands can run there), stand on
their own, and from them the loop is a caller of NftManager like any other. With what is
then known of the record, `Rules` is inductive: unless nft mode is the one applied, a
table is on record only between a reconcile for nft mode that has succeeded and the end of
the switch; and while it is, the manager's `active_specs` are the tunnels of `last_applied`, but for the
moment between a reconcile that has succeeded and the loop's taking note of it.
`MakeBeforeBreak`, `NoLeftoverRules`, `InstalledIsApplied` and `AppliedIsServed` follow, for any files,
any number of polls and any failures. `InstalledIsApplied` joins three records that are kept apart,
the loop's, the manager's and the kernel's, by way of `KernelIsRecorded`. Of the tunnel manager the proof uses what
TunnelTable says, which TunnelManager is proved to implement.

*DaemonControl_proof.* `DaemonInv` is inductive for a single terminal and any number of pids.
Its part `Tracked` says that a command in progress has been started on, or by, the one
worker there is, and that the file names that worker or is about to: a command that starts
while a worker is on its way out still meets its pid, so that no second one is spawned.
It holds until a command goes before the file names its worker (`~unrecorded`). `OneDaemon`, `Reachable` and
`NotRunningIsTrue` follow.

*Editor_proof.* `EditorInv` is inductive for any number of editors and any tunnels. Its part
`Tracked` says that what stands in the temporary file at the rename is what has been validated,
because the process id in its name keeps others away, and that a clean configuration is
the one that was loaded. One lemma for each kind of change (`AddGives`, `EditGives`,
`ToggleGives`, `DeleteGives`) shows that it keeps the list one that validate accepts.
`EditsStayValid`, `SavesAreAtomic` and `NoSilentLoss` follow.

Left to TLC. Liveness (`CallsReturn`, `ClientIsServed`, `PortIsReleased`, `SelfHealing`,
`PollsReturn`) and everything about fairness or ENABLED is out of the prover's reach. All other
properties that the passing runs check are proved.

## 6. Not modelled, and the plan

Done in this order: TunnelManager with TunnelTable and its proofs; configuration
and nft with proofs; the watcher over both; the foreground runner; daemon control;
the workers inside a tunnel with their proofs; the editor; the foreground runner in
both modes and the watcher with their proofs; the proofs of daemon control and of the
editor; those about the rules made of a file, and that ActiveTunnel implements TunnelManager's
tunnel; that the foreground process in nft mode serves its configuration. The same
statement about the daemon is false because of finding 1: there a reload that follows a failed script may
be taken as done with no table installed. What holds there, as long as tables can be deleted, is `InstalledIsApplied`: a table that is
present is that of the configuration on record, whose packets `ServesDocument` is about. How a
failed script heals on a later change of the file is not stated as a property of its own.

Left out for good: the sessions of `udpproxi` (an external crate, modelled from how
it is called), socket options (a call that may fail, which is a bind refused, a
connection refused or a datagram not forwarded), the command line, the version command and
the build script (no state), Windows and other Unixes (`cfg` branches), the log file,
and the wording of messages. An editor whose input ends asks again without end: a loop
that is no state of the model. Two commands given at two terminals at once are not
modelled beyond the hazard that names them. Tests are read, not modelled.
