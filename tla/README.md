# Verification of the Minecraft server manager

TLA+ specifications of `mc_manager/`, their TLC configurations, and theorems about them
checked by TLAPS. The modules are written from the source; where a document or a comment
of the repository promises something the code does not do, a run states the promise and
TLC shows the behaviour that breaks it.

    tlc -workers 2 -config AgentJobs.cfg AgentJobs        (and so on, one line per .cfg below)
    tlapm AgentJobsProofs.tla                             (and the other *Proofs.tla)

## The system

A *controller* (a Raspberry Pi) talks over HTTP to one *agent* per host. An agent runs
allow-listed commands on the Minecraft servers of its host and, through `sudo`, root tools
that install, change and delete servers. Players and administrators meet the system through
a web panel, Discord, and a desktop launcher that installs mod packs.

| Component | State | Operations | Hard about it |
|---|---|---|---|
| agent job engine (`agent.py`, `config.py`) | jobs, a lock per server, a provisioning lock, maintenance flags, the loaded configuration | accept, run, time out, reload, restart | handlers run between the awaits of tasks; locks are replaced with the configuration; jobs end before their tools do |
| root tools (`server_installer.py`) | `managed-servers.json`, server directories, systemd units, backups | install, change software, delete, each with a rollback | several effects, any of which may fail; the registry is rewritten as a whole |
| server automation (`automation.py`) | a record per server in `panel-state.json`, power flags, a task and a poll per server | observe an operation, poll, recover, restart on schedule, resume | stale answers, cancellation, controller restarts, host restarts, outages |
| agent client (`client.py`) | the observer it calls before a request | one method per agent route | a request may be refused, late or lost after it was observed |
| UPS monitor (`ups.py`) | where it is, what it has triggered | poll, confirm, stop servers, shut hosts and the controller down | anything may fail on the way; the server list changes meanwhile |
| controller (`controller.py`) | the directory of servers, made of three lists; paired agents; supervisors of the monitors | register, update and remove a server; pair and adopt an agent, refresh its inventory; install, change and delete servers; file and console routes | handlers wait for agents, some of them with `registry_lock` and some without, and act on answers when the lists have changed |
| registries (`server_registry.py`, `agent_registry.py`, `panel.py`) | JSON files and their image in memory | add, update, remove, suppress, put | a failed write must leave the image as it was |
| player monitor (`player_monitor.py`, `minecraft_query.py`) | a session per player, saved to a file | poll; start, update and finish a session's message; follow the server list | snapshots, requests to Discord and writes that fail, polls that break off, a grace period that restarts and failures must not shorten |
| health monitor (`health.py`), seasonal events (`seasonal_events.py`) | last published health; the event announced | poll, publish | little |
| discovery (`discovery.py`) | agents heard of in the last 45 s | observe, list | nothing |
| web security (`web_security.py`) | attempts per address and user | check | bounded tables |
| file manager, folder transfer (`file_manager.py`, `folder_transfer.py`) | the server's files | versioned read and write, upload, archive | writers that race |
| server console (`server_console.py`) | a pipe and a log that is rotated | send, read from a cursor | rotation between reads |
| catalog and downloads (`server_catalog.py`, `paper_download.py`) | none | list versions, download with a checksum | nothing |
| Discord bot (`discord_bot.py`) | the connection | announce, commands, session messages | errors it lets through |
| launcher (`launcher/`) | an instance directory with a receipt and a journal; a store of profiles and releases | install, recover, verify; create, publish, withdraw | crashes within a transaction, files edited meanwhile, revisions |
| web panel, deployment scripts, Minecraft plugins | | | browser code, shell glue, code inside the game |

How they interact: the panel, Discord, the automation and the UPS monitor all call the agent
client; the client calls `ServerAutomation.observe_operation` *before* it sends a request; the
UPS monitor publishes each reading to `ServerAutomation.power_reading`; the controller replaces
`config.servers`, which the UPS monitor reads, when servers are added or removed; the agent's
jobs run the root tools and reload the configuration the tools leave behind.

What makes each correct:

- *agent*: at most one job works on a server; a server is under maintenance exactly while a
  change or a deletion of it is under way; every job ends; a job that reports success did what
  it says; no tool undoes what another did.
- *automation*: an administrator's stop is never taken back; nothing is started in an outage;
  a restart that reports success was one; a server that should run does, in the end.
- *UPS monitor*: the outage is on record before the first stop; a host goes down only after
  its servers; the controller goes down in the end.
- *root tools*: a tool does all it was asked for or nothing, and no world is lost, whichever
  of its steps fail and wherever it is killed.
- *directory*: a request goes to an agent that has the server; nobody's server is replaced by
  another with its id; the directory catches up with the agents.
- *player monitor*: nobody is said to have left who did not; a session that began is told to
  its end; what fails leaves no more messages of a player wrong than there were failures.
- *registries, launcher, file manager*: a change is there as a whole or not at all, through
  failures and crashes; a change based on what is no longer there is refused.

## Modules

| Module | Models | Extended by |
|---|---|---|
| `AgentJobs` | `AgentRuntime` and the handlers of `create_agent_app`; the root tools as the agent meets them | `AgentJobsProofs`, which `AgentExclusionProofs` extends |
| `ServerAutomation` | `ServerAutomation` for one server, with the agent and the server process around it | `ServerAutomationProofs` |
| `UpsMonitor` | `UPSMonitor`, its supervisor, and the announcements it depends on | `MCUpsMonitor` (the instance TLC checks), `UpsMonitorProofs` |
| `ServerDirectory` | the controller's directory of servers, its two registries and the handlers that change it | `MCServerDirectory` (the instance TLC checks), `ServerDirectoryProofs` |
| `ManagedServer` | what the root tools promise about a server id | instantiated by `ServerTools` |
| `ServerTools` | `install_server`, `change_server_software` and `delete_managed_server` step by step | `ServerToolsProofs` |
| `PlayerMonitor` | `PlayerMonitor`, with the session messages of the bot and what Discord does to them | `PlayerMonitorProofs` |
| `PackUpdate` | what an update of a mod pack promises | instantiated by `PackInstaller` |
| `PackInstaller` | the launcher's `install_release`, `_recover_locked` and `plan_installation` | `MCPackInstaller` (the instance TLC checks), `PackInstallerProofs` |

A step of the agent, the automation, the two monitors and the directory is the code between two
awaits: they are asyncio programs on one thread. A step of the installer or of a root tool is
one effect on the disk or on systemd, or one pass of reading.

### AgentJobs

A task of the event loop is an element of `Tasks`; `task[t]` says which job it runs and how
far it is (`ready`, waiting for the provisioning lock, waiting for the server's lock, running
its command or tool, after the tool's commit, over). `ready` keeps the tasks in the order
they were created, because asyncio starts them in that order, and `waiters[l]` keeps the
queue of each `asyncio.Lock`. A released lock is *unlocked* until its first waiter is resumed;
`server_busy` then says the server is free, and `QueueFileOp` is the handler that gets in.
Lock objects have names (`gen`): a server that is deleted and installed again has another lock,
and a task may still wait for the old one.

The root tools read the registry when they begin (`base`) and rewrite the whole file when
they commit (`ToolCommit`); `ToolFails`, `ToolExits` and `JobTimeout` are the three ways the job
sees them end. `asyncio.wait_for` gives up on a tool without killing it. What the tool does
afterwards are `StrayCommits` (the phase *stray*: it has not written the registry yet) and
`StrayEnds` (*adrift*: a software change that has, and may still restore its backup and the
registry it read). A tool that exits with an error after it wrote the registry, because the file
could not be given its owner, ends its job as a timeout after the write does: the job fails and
nothing is reloaded. `Restart` is an agent restart: it forgets jobs, locks and flags.

### ServerAutomation

`rt` is the server's record in `panel-state.json` and survives the controller; `op` is the
task that restarts or resumes; `check` is a monitor poll's answer between the agent and its
handling; `wire` and `asked` are requests on their way; `work` is the job the agent runs.
Durations are flags: `hold` is `maintenance_until` not yet reached, `cooling` the cooldown,
`attempts` the recoveries of the last hour (they leave the hour together), `power.line` the
60 s of line power. The answers of `wait_job` and `wait_state` are handled in the step that
gives them; those of the first status request and of monitor polls are not.

`down` is a history variable: the process was down at some time since a scheduled restart
found it up. `SuccessMeansRestarted` needs it.

Met on the way: src/README.md:51-52 says that interrupted stop and start jobs are reconciled when the
controller returns. When it stopped between the agent's acceptance of the stop job and the record of
its id, `resume` may find the agent busy with that job; it records *reconciled* (automation.py:363)
and starts nothing, and the server stays down until the recovery monitor finds it offline.
`ServerComesBack` covers that return, with `Reconciled` as it is in the code.

### UpsMonitor

`pc` is the place in `run`, `confirm_on_battery_after_delay` and `handle_power_outage`. The
stops of `asyncio.gather` are a function `stop` over the servers, in the order `listed`. `paired` is
what `zip(config.servers, stop_results)` makes of them when they are over: the servers of the list
there is then, each with the result in its place. `ConfigChanges` puts any other list of distinct
servers there at any moment, as `sync_runtime_servers` does in one go. An announcement raises
while the network is down, and an exception outside `_stop_server` ends the monitor; five
seconds later the supervisor begins another. The record of power is the one of
`ServerAutomation`, from the side that writes it.

Met on the way: `zip(strict=True)` compares lengths. When the list is replaced during the stops by one
of the same length, in another order or with other servers, the results are taken for those of the
wrong servers, and a host may be shut down with a server up. `tests/test_ups.py:154` tests that a host
stays up when a stop of one of its servers fails. `HostsOffWhenStopped` excepts exactly this
(`Mispaired`); without the exception TLC finds the host that goes down with a server up.

### ServerDirectory

`route` is `servers` and `owner` is `dynamic_owner`; a server's URL and token are its agent. Both
are recomputed as a whole by `Sync` (`sync_runtime_servers`) from the servers of
`controller.toml` without the suppressed ones, the entries of `managed-servers.json`, and the
lists of the paired agents in the order of their dictionary (`before`). `object` holds the
`PairedAgent` objects by number, since a handler or a refresh that waited may hold one that a
new pairing has replaced; `paired[a]` is the one the dictionary has now. `task[h]` is a handler
that waits for an agent, `poll[a]` the inventory refresh that does. `Locked` is
`registry_lock`, which `register_server` and `update_registered_server` hold while they wait;
removal only tests it; pairing, adoption, refresh and the job route do without.

The agents' side is what the controller can see of it: which servers are installed, which jobs
work, which deletions are remembered. `ever` is a history variable. An answer may be lost, a
write may fail (`SaveFails` undoes the change in memory where the code does, and keeps it where
the code keeps it), the controller may restart between any two steps.

What the modelling met, and no run of the project states as a promise: `register_server` tests
the id before it waits for the agent and not again; an agent with a server that somebody else
owns is refused as a whole, so a server that was registered in the dashboard on an agent makes
a later pairing of that agent fail and freezes the inventory of one that is paired; a
`PairedAgent` that a handler held while the agent was paired again may overwrite the new
one; `PairedAgentStore.put` is not undone when its write fails; a deletion is learned only when
somebody asks for its job.

An id that two agents have may change hands in two ways, the exceptions in `NoTakeover`. One is
a restart after a failed write of the pairings. The other is a directory that lags behind the
lists: `TakeInventory` makes the directory before it puts the object, so when two agents are paired
again while a handler of `provisioning_job` holds the object of each, both old objects come back
and the directory agrees with neither; the next refresh, of any agent, makes it anew and may give
the server to the other one. It takes four pairings, more than the run allows; the proof of
`NoTakeover` showed it, and a directed run of TLC confirmed it. A write that fails after a pairing
or a deletion makes the directory lag as well. `Synchronised` says that it does not.

### ServerTools and ManagedServer

`ManagedServer` has one variable, the server an id has, and says that a tool changes it as a
whole or not at all. `ServerTools` has the directory (`dir`: which installation, how much of the
world, which software, whether it is complete), the directory a tool puts aside, those that
are left behind, the archives, the registry entry, the tombstone of a legacy server, and the
unit. `tool` is the tool that runs with its local variables (`was_active`, the backup, the old
entry) and its next step. Each step may also fail (`Raise`, to the first step of the handler
that remains), fail inside a handler (`Break`, where the handler goes on, or `Dies`, where it
does not), and `Killed` stops the tool or the host between any two steps. `_write_registry` replaces the
file and then sets its owner, which may fail (`os.chown`, server_installer.py:292): each step that
writes the registry may therefore also fail with the registry written. A software change writes the old
one back; an installation or a deletion does not, because it sets `registry_written` or
`registry_changed` only after the call (`Break` in `RecordInstall` and `RecordDelete`).

While a tool runs, the refinement mapping shows the server it found (`tool.before`); when it
ends, the one that is there (`Actual`). Only a tool that was killed, whose handler failed as well, or
whose registry write failed late in an installation or a deletion, may leave `Damaged`.

`lives` and `stake` are history variables: `stake[l]` is how far the world of the `l`th
installation had come when it last was nobody's to throw away. What players do while a changed
server is on trial (the seconds between its start and its check) is not at stake: the rollback
discards it by design. Left out: the retention of older archives, `fsync`, the ports and entries of other
ids (the registry that several tools share is in `AgentJobs`), and the `update` and `backup`
actions of managed servers.

Met on the way: a kill between a deletion's move and its registry write, or between an
installation's placing and its registry write, leaves a server that no tool accepts again; a rollback that
fails after it extracted the archive leaves the old directory with the new registry entry. The
branches on `registry_written` and `registry_changed` in the handlers are never taken: when
`_write_registry` fails after the replacement, an installation stays registered while its directory is
discarded (server_installer.py:526-547), and a deletion puts the directory back and starts the server
while the registry says it is deleted (773-785). One such failure is enough. `RunsAsRegistered`,
`RunsAgain` and `Implements` except it, and say so; without the exception TLC violates them.

### PlayerMonitor

`phase` is the place in `poll_once`: waiting for the snapshots, handling the players that were seen,
handling the sessions of those that were not. `sessions` is `self.sessions` and `saved` the state file;
`messages` is the channel. A request to Discord has three kinds of end (`SendOutcomes`,
`EditOutcomes`): done, done and yet reported as failed, not done; a fourth, an exception the
bot does not catch, ends the poll where it is (`PollBreaks`). `Asking` is what the sessions are when a
request is sent, and `Prepared` what the file then holds: a session whose last edit failed is dropped, and
the file written, before the new message is sent, and a first absence is written before the last edit.

`Restart` may fall between any two steps and inside a request (`AtStop`): what the request did stays in the
channel, the replacement of a deleted message included, and nobody learns of it. The controller is down
for any number of polls up to the grace, and comes up with the sessions of the state file, or with none when
the file cannot be read (`_load_state`).

Time is counted in polls: `missing` is the age of `missing_since`, up to the grace. Players
move, moderators delete messages and the controller's server list changes at any moment (`Goes`,
`Deleted`, `SetServers`). `absent` and `stuck` are history variables. `absent` is for how long every poll
was healthy and did not see the player, while the monitor ran. `stuck` has the players whose
`missing_since` says more than that: the code should have cleared it and did not, or it was read from the
state file.

Three things make a clock stand: `update_player_session` that returns nothing (player_monitor.py:169) and
a poll that breaks off skip the reset of `missing_since`, and a restart counts the time the controller was
down. The comment at line 216, "Only confirmed healthy snapshots count toward the leave grace", does not
hold there: `LeaveConfirmed` states it, and the run `player_restart` shows a leave told by the first healthy
poll after a restart. `NoFalseLeave`, which is proved, excepts these three by name: nothing else makes a
leave come early.

Met on the way: one tracked server that never answers stops every leave; a message that was sent right
before a stop, and every message of a state file that cannot be read, is never edited again.

### PackInstaller

The instance directory is `files`, `receipt`, `journal` and `history` (the backups of every
transaction), and only these survive a crash. `pc` is the place in `install_release` or
`_recover_locked` of the one launcher that holds the instance's lock; `plan`, `left` and
`checked` are its variables. A file's content stands for its size and SHA-256. Operations are
a function from paths to *before* and *after*; the order among the files of a manifest is
left open, removals come last, and a recovery goes the other way (`Soonest`, `Latest`).

`EditFile` lets the player, the game or an editor write any file at any time, with one
exception: a file that was checked and is about to be written (`checked`). Such an edit would be
overwritten, and the code cannot see it; the manual asks the player to close editors. Checks
and writes are separate steps, so a crash may fall between them. `Die` is a crash anywhere,
`Cancelled` an error or a cancellation once the journal is written. `own` and `late` are
history variables: the paths the player touched since a release was put there, and since the
last plan was made.

`PackUpdate` has three variables (the files, the release, the paths the player touched) and two
steps, the player's edits and a whole update. `Settled` is the refinement mapping: while a
transaction has not committed, a file it has replaced counts as what it was before. Replacing
and restoring are then stutters, and writing the receipt is the update.

## Runs

| Run | Shows |
|---|---|
| `agent_jobs` | four tasks on a legacy and a managed server in every order, a job table of two: exclusion, exact maintenance flags, truthful success, no lost registry update; every job ends and so does every maintenance |
| `agent_reprovision` (violated) | after *delete legacy server, provision the same id* the registry has an id twice and the agent cannot load it |
| `agent_lost_update` (violated) | a tool that outlived its job writes its old registry back: a deleted server returns |
| `automation` | one server, every administrator request, outages, three disturbances: the administrator's stop stands, no start in an outage, success is a restart, and the server comes back |
| `file_deletion` (violated) | a file deleted in the panel while the script waits for its stop counts as a stop: the server is not started again |
| `ups` | three servers on two hosts, three failures, one change to any other list: the outage is on record first, a host goes down after its servers unless the change mispaired the results, and the controller goes down in the end |
| `ups_offline` (violated) | with the network gone every announcement raises and the monitor begins again for ever |
| `server_directory` | two requests at a time on two agents that have a server of the same id, with pairings, registrations, installations, deletions, lost answers, failed writes and restarts: requests go where the server is, no server is taken over, the registries are what a restart reads, and the directory catches up |
| `server_tools` | three tools on one id with two failures, kills or crashes at any step, late failures of registry writes included: no world is lost; unless a tool was killed or did not undo its work, the software that runs is the registered one, a server that ran runs again, and the tools implement `ManagedServer` |
| `player_monitor` | a player who joins, moves and leaves while snapshots, requests and writes fail, the controller restarts and its state file is lost: no false leave but from a clock left standing, every join and leave told, no more orphaned messages of a player than faults |
| `player_restart` (violated) | a player who was missed once, a controller that is down for the rest of the grace: the first healthy poll after it tells the leave |
| `pack_installer` | two installations of two releases of three files, with three troubles: the installer implements `PackUpdate`, any journal can be rolled back, the receipt tells the truth, the player loses nothing and is asked before anything of his is replaced |

### Bounds and why they are enough

- `agent_jobs`: two servers cover both kinds of entry, agent.toml's and the registry's; each
  hazard needs at most three jobs and a file operation, and the fourth task lets one more
  interfere; a table of two makes eviction happen; two names for the locks of a server let a
  stale one be told from the current one.
- `automation`: one server, since the automation of different servers shares only the power
  record. A threshold and an hourly limit of one reach every branch with the fewest polls (the
  proofs are for all values). Three disturbances allow a crash within the handling of a second
  one that a third had delayed. Restarts on schedule, maintenance and file deletions come out of
  the same budget; an administrator's stop does not.
- `ups`: two hosts, one with two servers, is the least that tells *all its servers stopped*
  from *some* and from *another host's*, and the three servers are listed at first. One change puts any
  list of distinct servers in the place of this one: shorter, reordered, or both. It reaches both outcomes of `zip(strict=True)` and the pairing of results with the
  wrong servers. (About 650 000 states.)
- `server_directory`: a server of `controller.toml` and another one that both agents have are the
  least for a conflict of ids; two handlers interleave, and the third request changes what they
  wait for; two pairings leave an object that is no longer the paired one. Two faults allow a
  failed write and a restart that reads what was written before it. (About 350 000 states.)
- `server_tools`: two versions, and an id that is installed, deleted and installed again
  (`MaxLives`); two changes of the world tell a backup from an older and a newer one; with
  two faults a handler's own steps fail, and a second tool meets what the first left.
- `player_monitor`: one player suffices, as sessions of different players share only the health of
  a poll and its order; two servers allow transfers and one that fails while the other answers.
  A grace of two polls and three failures per session (the code's number) let the clock and the
  retries run out; three moves are a join, a transfer and a leave; three faults allow a failed write, a
  request lost in a restart, and one more. (About 250 000 states. The theorems have no bounds.)
- `player_restart`: one fault, the restart, and two moves, the join and the leave.
- `pack_installer`: three paths are a file that changes, one that goes and one that comes; the
  directory begins with a file of the player's where the pack has one. Two installations reach
  an update, a downgrade and a repair. Three troubles, at most two of them edits or lost
  backups, allow a crash within the recovery from a crash, and an edit besides. (The theorems
  have no bounds.)

### Fairness

- `AgentJobs`: weak fairness of each task: a command ends or meets its timeout, and the event
  loop resumes what can run. Handlers and restarts are not fair.
- `ServerAutomation`: weak fairness of the restart task, the polls, the agent's service of
  requests, UPS readings and time. Administrators and disturbances are not fair, and disturbances
  come out of a finite `Budget`: "once they stop coming" is the premise of recovery.
- `ServerDirectory`: weak fairness of each agent's refresh, since dashboards keep asking for the list,
  and of the handlers that hold `registry_lock`, since requests to agents time out. Nothing
  else has to happen.
- `PlayerMonitor`: weak fairness of the monitor's steps: the poll loop goes on for ever, and every
  snapshot and request has a timeout. Players, moderators, faults and restarts are not fair.
- `PackInstaller`, `ServerTools`: none; their properties are about safety.
- `UpsMonitor`: weak fairness of the monitor, whose queries and waits all have deadlines, and of the
  return of a network that returns (`NetworkReturns`).

`CHECK_DEADLOCK FALSE` in every configuration but the player monitor's two: budgets and the
supply of tasks and installations run out, a controller that has shut down does nothing. The player monitor polls
for ever, and its run checks that it never stops.

## Theorems

Proved for every value of the constants the modules assume.

- `AgentJobsProofs!TypeCorrect`, `MaintenanceCorrect`. `MaintenanceExact` is not inductive:
  a task that has not begun must not be confused with a fresh one when it is created, so the
  invariant adds `ReadyOK` (what is queued in `ready` is exactly the tasks in phase `ready`, each
  once). The argument: only `AcceptMaintenance` raises a flag, its guard (`server_busy` first)
  excludes a second job of the server; every step of a pending job keeps it pending except
  `EndJob`, which lowers the flag in the same step; a task lost to a `KeyError` is still
  pending, and so is its flag.
- `AgentExclusionProofs`: `WorkExclusive`, `OrphansNever`, `SuccessServes`,
  `RegistryKeepsUpdates`. `ServerExclusive` speaks of tasks that run; that they are alone depends on
  the ones that wait, because a deletion drops the Lock object of its server and the next
  installation makes another one. The invariant, `ExclusionInv`, is about order: the queues of
  `ready` and of each lock list the tasks in that phase, once each (`Queues`); a lock is held by
  the task whose phase says so (`Holders`); between two tools memory is what the disk says, and
  during one they differ by its server (`Registry`); work on a served server uses its present lock
  (`OnServer`); and a deletion, or a change, is the last of its server's tasks: whoever was accepted
  before it is ahead of it in every queue, and nobody is accepted after it (`Closes`). `asyncio`'s FIFO order of new
  tasks and of lock waiters carries the argument; what a tool read is still what is on the disk when
  it commits, because tools hold the provisioning lock (`ToolOK`). All of it is under *no tool was
  abandoned*, which a restart makes true again: systemd kills the tools with the agent, and
  `RegistriesApart`, which survives even abandoned tools, is what the new process starts from.
- `AgentExclusionProofs!DeletionKept`, `LoadableUnlessReprovisioned`: the two registry properties that
  runs show violated hold without what violates them there. A deletion is remembered in every
  behaviour in which no tool outlives its job. The registry can be loaded in every behaviour in which
  no id of `agent.toml` is provisioned, abandoned tools included: no registry, on the disk or
  in a tool's hands, then lists such an id (`LegacyApart`).
- `ServerAutomationProofs!TypeCorrect`: the counters stay within their limits.
- `ServerAutomationProofs!AdminStopCorrect`. `AdminStopStands` is inductive together with
  `TypeOK`. While a stop stands no task runs, so only polls and requests take steps: a poll
  cannot return the server from *maintenance*, since the reason is a stop; it cannot recover,
  since the stop is intentional; the UPS records `power_pending` only for a server that should
  run. A task under way never changes intent except by finishing, which clears it
  (`KeepsIntent`).
- `ServerAutomationProofs!StartsCorrect`: only two steps send a start, and each tests what is
  allowed in the same step.
- `ServerAutomationProofs!RestartCorrect`. `SuccessMeansRestarted` speaks of one step; `DownSeen`
  carries the evidence to it: from the request to start on, for the running task, for the record
  in `panel-state.json` and for the stage a resumed task was created with, the process has been down
  since a script last found it up. A start is asked for only after an offline answer; a task that
  is resumed takes *online* for success from the stage *starting* only; and a new script, which
  resets the history, carries no stage of an earlier one.
- `UpsMonitorProofs!OutageCorrect`. `OutageOnRecord` is strengthened to the steps `warn` and
  `delay`: the second reading may be neither line power nor protective, and then it is the
  first reading that put the outage on record.
- `UpsMonitorProofs!TypeCorrect`, `HostsOffCorrect`. The results of the stop phase are paired by
  position with a list of servers that may have been replaced since the stops were sent, any number
  of times and by any lists. `PairedRight` says what the host phase has: one result for each stop that
  was sent, in their order, which claims no stop that did not succeed; when the lengths differ there
  is no host phase. Pairs whose servers are those of `listed`, place by place, are then right. So
  mispaired results are the only way for a host to go down with a server up.

- `PackInstallerProofs`: all six properties of the run. The invariant `IInv` ties the parts
  together: what `pc` says of the journal (`Control`), that the plan followed is one that was
  agreed to (`Agreement`, `PlanMade`), how far the files are except where the player was
  (`FilesAsPlanned`), that backups precede the journal (`BackupsMade`), that a journal can be
  rolled back (`JournalGood`), what a recovery has left (`Restoring`), and that untouched files
  are *settled* as the receipt says (`ReleaseSettled`). `PackAsReleased` alone is not inductive: it
  is silent while an update is pending, and the commit needs to know what was true before.
  `UpdateCorrect` follows from six lemmas on `Settled`, one for each kind of step that touches
  the disk; the only steps that are not stutters are edits, the commit, and writing or dropping
  a journal, where an edit made since the plan becomes visible.

- `ServerDirectoryProofs`: `TypeCorrect`, `MemoryCorrect`, `ReservedCorrect`, `RoutesCorrect`. The
  invariant has three layers, each inductive relative to the one before: `Typed` (with
  `References`: an object that a refresh or a handler holds was created for its agent),
  `Registered` (memory is what the disk has, a registered id is not one of `controller.toml`'s, and
  the directory prefers both), and `Known`: every place a server's agent is taken from (the
  agents, the registry, objects, the disk, answers that wait in tasks and polls) names only
  servers that agent has had. `OnlyServed` alone says nothing of answers that are still on the
  way, and a directory is made of them later.
- `ServerDirectoryProofs!TakeoverCorrect`, `DirectoryCorrect`, `NothingTaken`. An owner is the first
  of the paired agents that list the id (`OwnerIsFirst`), and the order of the dictionary puts only
  new agents after the ones it has (`Ordered`), so a server moves from one listed agent to another only if the second lists what
  it did not (`Refused` excludes it), or if the first stops listing it. This needs a directory that
  was made of the present lists, `Synchronised`. It is not an invariant (see above):
  `DirectoryCorrect` proves it on two conditions, that an answer is handled with the object that is
  still paired (`Current`) and that no write after a pairing or a deletion fails (`LostWrite`). A
  restart makes a synchronised directory of whatever the disk has (`DiskOK`).
- `PlayerMonitorProofs`: `TypeCorrect`, `SavedCorrect`, `LeaveCorrect`, `OrphansCorrect`. What a
  request may do to the channel is stated once (`Fair`, `Reaches`: at most one message is new or
  edited) and every step is reduced to it. `NoFalseLeave` needs `Clock`: a session has counted no
  more polls than were healthy and missed the player, except for a player whose clock this
  very poll has still to reset (`Due`), or that was left standing or read from the file (`stuck`).
  `FewOrphans` needs `Budget`, for each player, for the session in memory and for the one in the file,
  because a restart turns one into the other: each step leaves at most one more message of a player loose,
  and only when it meets a fault; a state file that cannot be read looses one message of each player.
- `ServerToolsProofs`: all five properties of the run, in three layers. `Typed` adds to `TypeOK`
  what each step of a tool finds (`InstallShape`, `ChangeShape`, `DeleteShape`: where the
  server is down, where the directory is, that a backup exists before the first file is replaced);
  `RunsAgain` follows from it. `Guarded` carries `NoLoss`, which is not inductive: a
  directory may be removed only because the archive, or what was restored, is as good. So from
  the archive on the backup is no older than what is at stake (`Fresh(tool.backup)` in
  `ChangeStake`), what a deletion will remove is in an archive (`DeleteStake`), and an
  installation that may still be discarded has nothing at stake (`InstallStake`). `Sound` says
  how far each tool is on the directory, the entry and the unit, and what it has to go back
  to; `RunsAsRegistered` and the refinement follow. Every step shows `ManagedServer` a stutter
  except the end of a tool and the first damage (`SeenStep`).

Every safety property of a passing run is proved, both refinements included.
Only model-checked: the liveness properties `JobsEnd`, `MaintenanceEnds`, `ServerComesBack`,
`ShutsDown`, `Converges`, `LeavesTold` and `JoinsTold`, since fairness and `ENABLED` are out of
TLAPS's reach. The other three properties that runs show violated (`LeaveConfirmed`,
`ScriptStartsAgain`, `OrderlyShutdown`) have no theorem; `LeaveCorrect` says how far the first holds.

## Not modelled

Pure I/O and data: catalogs and downloads, discovery, the panel's browser code, the plugins, the
deployment scripts, Discord's commands and views, the health card and the seasonal
announcement (each a reading and one message). Counters of one request at a time: the login
throttle and the cookies of `web_security.py`. The file manager and the console, beyond the locks
they take in `AgentJobs`: what they do is a comparison of versions or a read at a cursor. The
calendar of `due_restart` (a slot may be due at any time); the users and schedules of `panel.py`;
failed writes of `panel-state.json`; the launcher's store, its login and the installation of the
game itself after the pack (`game.py`); the content of files and consoles; real durations.

## Plan

Done: the agent, the automation, the UPS monitor, the directory, the root tools, the player
monitor, the pack installer, two refinements, and the theorems above.

1. `LauncherStore` (revisions refuse stale changes), `FileManager`; `LoginThrottle` and the
   console's cursor as pure algorithms.
