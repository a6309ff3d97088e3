# Lucid Net in TLA+

Lucid Net (repository NetworkManagerPro) is a Windows tray application in Python. It changes DNS
servers and the WinINet proxy of the machine, applies profiles when the machine joins a network,
keeps a dynamic-DNS name up to date, hosts plugins, and records what it did. This directory holds
TLA+ specifications of its core, TLC runs that check them on small instances, and proofs, checked
by TLAPS, of what holds for every instance.

Contents: 1 the system, 2 the modules, 3 the runs, 4 disagreements found, 5 fairness,
6 what is proved, 7 what is only model-checked, 8 what is not modelled, 9 plan.

## 1. The system

### Threads and processes

| actor | runs | where |
|---|---|---|
| Tk thread | the window, every `after()` callback, the 3-second menu refresh, start-up before that | `gui.py`, `main.py` |
| UI workers | one thread per click on a slow action (`_run_task`) | `gui.py:1902-1939` |
| monitor | one polling loop: reload config, collect state, apply a profile, update DDNS, publish | `monitor_service.py:104-127` |
| tray | the tray icon; menu items go to the Tk thread with `after()`, Exit acts itself | `main.py:150-231` |
| plugin tasks | one thread per periodic task of a plugin | `plugin_api.py:59-80` |
| other processes | the command line, a second launch, editors of `config.json` and of the hosts file | `lucid_cli.py` |

Three locks exist: `core.config_lock()` (config file and the window's copy), the monitor's
`_state_lock` (its configuration and published state), and one for the HTTP session. The config
lock is taken before the state lock, never the other way round, so the two cannot deadlock; the
specifications make a section under a lock one step. **No lock protects the settings of the
machine**: DNS servers and registry values are read and written by workers and monitor alike, and
the only exclusion is `_running_task_keys`, one key per group of buttons.

### Components

For each: the state it keeps, its operations, what makes it correct. "Hard" names what is hard to
test in it.

* **Network settings primitives** (`core.py`). State: DNS servers per adapter, four registry values,
  the default route; all of it belongs to Windows. Operations: set and clear DNS, set proxy, SOCKS5,
  PAC, read, restore. Hard: an operation that fails half way, a read that fails and looks like an
  empty value, an adapter argument of `None` resolved anew by each call. Correct when: what a
  snapshot holds can be written back, and a reported success is true.
* **Settings tasks and dead-man rollback** (`gui.py`). State: running task keys, restore point, each
  worker's snapshot. A click captures a snapshot, changes one setting, probes the connection, writes
  the snapshot back when the probe fails. Correct when: a click is kept as a whole, or what it
  captured is written back as a whole; no change the app made leaves the machine unreachable; Restore
  brings back what was captured before the last change; a key is always freed. Hard: two tasks overlapping,
  failing calls, exceptions.
* **Automatic profiles** (`monitor_service.py`, `core.apply_network_profile_plan`). State:
  `_last_auto_profile_key`. Correct when: a network the machine stays on gets its profile, a profile
  that breaks the connection is undone. Hard: the route moves while a plan is applied; one step of
  two fails.
* **Configuration** (`core.load_config`, `save_config`, `monitor_service`, `gui`, `main`). State: the
  file, the window's copy, the monitor's copy, a modification time. Correct when: the three copies
  converge, a saved edit stays, an unreadable file is kept aside.
  Hard: a reload between the two halves of a save, crashes, other programs writing.
* **Dynamic DNS** (`monitor_service.py`, `core.get_public_ip`, `update_ddns`). State: address cache,
  backoffs, last address synced, published state. Correct when: nothing is marked as synced that the
  provider has not been told, and a new address is eventually told. Hard: a cache, two backoffs, a
  pause and a Force sync button that all interact.
* **Machine policy** (`enterprise_policy.py`): values of HKLM merged over the configuration at start.
  Correct when: each policy changes what it names and nothing else. Hard: policies of four types, some
  only a minimum; what is done with them after the merge (section 4: the start ends there).
* **Plugins** (`plugin_manager.py`, `plugin_api.py`, `plugin_host.py`): loaded plugins, their task
  threads; load, reload, stop. Correct when: every task is told to stop, an id is loaded once. Hard: tray Exit
  while plugins load.
* **Plugin bundles** (`plugin_platform.py`): staging directory, installed directory; verify, remove,
  move in. Hard: a crash between the steps.
* **Start and shutdown** (`main.py`): single-instance mutex, elevation, exit from tray or window.
  Correct when: at most one instance runs and a launch ends with one running. Hard: handing the
  mutex to the elevated process.
* **Hosts file** (`hosts_manager.py`): managed groups in a text file; preview, back up, replace, from the
  window and from command lines. Correct when: the file is never a fragment, the lines of others stay,
  what was replaced can be found in a backup. Hard: a failure or a death between the calls, other writers.
* **Broker** (`broker_contract.py`, `broker_runtime.py`): validates and dispatches privileged requests;
  audit before and after.
* **Event history** (`history_store.py`, `event_log.py`): SQLite rows; append, read, clear.
* **Traffic collector and anomalies** (`traffic_collector.py`, `anomaly_detection.py`). State: a table of
  the counters of Windows, a row for each refresh of the Traffic panel. Correct when: the trend shown is what
  went over the network, and steady traffic is no anomaly. Hard: the counters only grow, and start at zero
  again with Windows.
* **Power, metered, overlay policies** (`power_policy.py`, `core.background_work_policy`,
  `overlay_networks.py`): pure functions of one observation.
* **Command line** (`lucid_cli.py`): the same core functions from another process, without the window's
  snapshot and rollback. Correct when: exit codes tell the truth and a command changes what it names.
* **Diagnostics, forensics and frontier policy** (`deep_diagnostics.py`, `forensics_plan.py`,
  `frontier_policy.py`): verdicts from observations, plans from local facts, a gate for research
  operations. Correct when: nobody honest is accused, and a verdict rests on evidence.
* **Branding, release tools, packaging**: text and tables, no shared state.

### How they interact

    click -> UI worker --DNS/registry--> Windows <--DNS/registry-- monitor (profiles)
    window --save_config--> config.json --reload--> monitor --3 s refresh--> window
    window --update_config--> monitor
    monitor --update--> DDNS provider <--update-- Force sync worker, command line
    monitor --publish--> state --> window, Force sync, plugins

## 2. The modules

| module | models | composes |
|---|---|---|
| `NetSettings` | the settings of the machine and the calls of `core.py` that read and write them | |
| `SettingsTasks` | `_run_task` and the DNS, proxy, PAC, SOCKS5 and Restore buttons | extends `NetSettings` |
| `AutoApply` | the monitor applying a network profile | extends `NetSettings` |
| `SettingsChange` | both of them on one machine; the properties | extends `SettingsTasks`, `AutoApply` |
| `AtomicChange` | the abstract specification of a click: kept, led back to what was captured, or restored, in one step | |
| `SettingsRefinement` | the mapping under which `SettingsChange` implements `AtomicChange` | instantiates `AtomicChange` |
| `ConfigSync` | `config.json`, the window's copy, the monitor's copy, start-up, crashes | |
| `DdnsSync` | public address cache, automatic update, Force sync, command line | |
| `PluginTasks` | loading plugins, their task threads, Exit, closing, the end of the process | |
| `Startup` | `main()` of every process of a session: mutex, elevation, message boxes, crashes | |
| `HostsFile` | `apply_group` of the hosts file, call by call, from several processes | |
| `ManagedConfig` | the fields of the configuration: normal form, policy, saves, matching, pauses | |
| `FrontierPolicy` | the capabilities and the gate of `frontier_policy.py` | |
| `ActiveDiagnostics` | verdicts of `deep_diagnostics.py`, plans of `forensics_plan.py` | |
| `TrafficMetrics` | the table of traffic counters, the trend and the spikes read from it | |
| `CommandLine` | the commands of `lucid_cli.py` on the machine, their exit codes | extends `NetSettings`, `ActiveDiagnostics`, `FrontierPolicy`, `TrafficMetrics` |
| `SettingsProofs`, `ConfigProofs`, `DdnsProofs`, `PluginProofs`, `StartupProofs`, `HostsProofs`, `ManagedProofs`, `CommandProofs` | theorems | each extends its component |
| `MCSettings`, `MCConfig`, `MCDdns`, `MCPlugins`, `MCStartup`, `MCHosts`, `MCManaged`, `MCCommand` | the instances TLC runs | |

### Settings: `NetSettings`, `SettingsTasks`, `AutoApply`, `SettingsChange`

`dns[i]` is an adapter's static server list or `Automatic`; `proxy` is the record of the four WinINet
values, each of which may be absent; `active` is the adapter of the default route. Server lists and
proxies are model values; some are in `BadDns` or `BadProxies`, and `Connected` is what the probe of
`check_basic_connectivity` measures with them. IPv4 and IPv6 lists are one value.

A call that writes is one action and fixes the Boolean it returns. A failing DNS command may have
changed the adapter (a time-out kills the shell, not the change); a failing registry burst stops after
any number of its writes, or does all of them and fails to notify. `Faults` says which calls may fail.

A worker's `pc` follows `work()`: `interface`, `read_proxy`, `read_dns` (the snapshot is three calls),
`change`, `probe`, `roll_dns`, `roll_proxy`, `finish` (result on its way to the Tk thread) or `raised`.
Restore enters at `roll_dns` with the restore point as its snapshot. `Finish` is the Tk callback: it
stores the restore point and frees the key.

`AtomicChange` speaks of the settings as they are configured, where servers from DHCP are not the same as
the same servers set by hand. A click that goes on to its change is `Take`: from then on the machine counts
as what a rollback would lead to, which is `AsCaptured`, the configuration with the servers in effect made
static. The mapping lets a click lose this and nothing else.

The monitor's `mpc` follows `apply_network_profile_plan`: two reads, a DNS step, a proxy step, probe,
two rollback writes. `lastKey` is `_last_auto_profile_key`. A poll that finds a captive portal, or
nothing to do, changes nothing here and is a stuttering step.

Four constants describe an environment rather than code: `MonitorOn`, `RollbackFixed` (the user leaves
the rollback checkbox alone), `InterfaceFixed` (the route does not move), `Patient` (the user does not
click a button of one group while a task of another runs; nothing in the window prevents it).

### Configuration: `ConfigSync`

A configuration is the set of edits it contains. `disk` is the file: a configuration, `Missing` or
`Garbage`. `current` says that the modification time the monitor recorded is the file's, `mcap` that
the one it captured in `Stat` still is: two different contents never share a time. A save is `Edit`
(under the config lock), `SaveSucceeds` (the atomic replace) and `UpdateMonitor`; a reload is `Stat`,
`Load`, `Adopt`, `Record`, one step for each section under the state lock. A start ends before there is a
window when a machine policy changes something (`"policy"` in `Faults`). `Sync` is the window taking
over the monitor's copy. `Crash` loses everything but the file; between crash and start the file may
change. `Faults` names failing operations, and `"edit_before_update"`: another program writes the file
between the two halves of a save.

### Dynamic DNS: `DdnsSync`

Time is abstracted to three Booleans that may flip at any moment: the cache is fresh, its backoff
lasts, the monitor's backoff lasts. The machine's public address follows a finite `Route`; addresses
are positions on it, and two positions with the same address look the same to the program (`Same`).
`record[u]` is the address the provider behind URL `u` holds: the one the last accepted request came
from, which is not always the one the program had in mind. An answer can be lost after the provider
acted. What a cycle or a Force sync keeps in local variables is reset when it is over. The dual-stack button
and the command line appear as `OtherSync`: an update the monitor never learns of. `"move_in_force"` in `Faults` lets the address change while a Force sync is under way.

### Plugins and the end of the program: `PluginTasks`

`pc["main"]` follows `main()` from the window on: `window`, `manager` (the window exists, the manager
does not), `load` and `start` (`load_enabled`, `on_start`), `loop`, then `stop_all` (`stop`, `item`,
`signal`, `join`) and `ended`. `pc["tray"]` follows `exit_action` through the same `stop_all` to
`dispatch`, which asks the window to quit. A loaded plugin is the index of its manifest; `tracked[p]` is
the `_tasks` of its API, `thread[t]` the state of a task's thread (`tracked`: registered, not started),
`told` the stop events that are set. `PluginAPI.stop` is `Signal` (copy the list, set the events) and
`Join` (wait a second each, keep the survivors): a task registered between the two is lost, as in the
code. The second in `Join` can always pass, so it waits for nothing. That Tk raises when `after` is
called before the loop runs, and forgets a `quit` made before it, is how `Dispatch` treats Tk.
`due` is bookkeeping of the properties: the tasks of a plugin when its start failed, and of all loaded
plugins when Exit or closing first asked for the end.

### Launching: `Startup`

`pc[p]` follows `main()` of process `p` from the mutex to the end; `handles` are the processes with a
handle to the mutex, which exists while one of them does. `CreateMutexW` gives a handle even to a process
it tells that the object exists, and that process keeps it while its message box is on the screen.
`NoHandle` is the case the code takes for permission: the call failed, or a mutex made by an elevated
process is denied to an ordinary one. `Consent` is `ShellExecuteW`: the elevated process exists before the
first one has released anything. `parent` remembers that until one of the two moved on. Three constants
of the environment are in `env`: the user launches one program at a time and the elevated process begins
after its parent ended (`care`), `CreateMutexW` works (`sound`), and what ends `main()` with an exception
nobody catches (`flaw`): a `config.json` that is not UTF-8, a machine policy, a part of the program that
cannot be made, or nothing.

### Hosts file: `HostsFile`

A text is a sequence of lines; markers and entries are kinds of lines. `apply_group` is `Read`, `Backup`,
`Preview` or `Reject`, `Open` (truncates the shared `hosts.tmp`), `Write`, `Replace`; `Fail` is an
`OSError` in any of them or the death of the process, a `write` that fails leaving a part of the text.
`remove_managed_group` goes over the lines with the code's `skipping` flag; it is a recursive function, so
that it can be proved about. `Edit` is another program writing the file. A line that is not UTF-8 is of kind `raw`; `Decode` is how the code reads it, with U+FFFD
in place of what it cannot decode (`replaced`), and what is written is what was read. `disturbed` is
bookkeeping of `ReplacedIsBackedUp`: the file changed after the backup.
`Alone` says that no two appliers are at work at once: the task key ensures it inside the window, nothing
does between the window and a command line.

### The fields of the configuration: `ManagedConfig`

`ConfigSync` has the races between the copies of the configuration and treats its contents as a set of
edits; `ManagedConfig` has the contents and makes a save and a reload single steps. A configuration is a
record of settings, plugins, DNS profiles and rules. `Normalize` is `normalize_config`; `ApplyPolicy` is
`apply_policy_overrides` over `NormalPolicies`; `NormalRules` goes over the rules as the code's loop does;
`Match` is `match_network_profile`. A poll observes the connection and the battery three times: `Reduced` is
what the window shows, `Paused` whether the update of the name waits, `Sleep` how long the monitor
sleeps. A start is `Merge`, then `Uncaught` where a policy changed something and `Start` where none did. The
other actions are the end, a reload, the window taking over the monitor's copy, the save of the settings
tab from its `widgets` (`Toggled`: without an update URL the automatic update is turned off with it),
saving and clearing that URL, the DNS profile handlers, and changes of the file or the policy key from
outside.

### Commands: `CommandLine`, `ActiveDiagnostics`, `FrontierPolicy`, `TrafficMetrics`

A command is one action of `CommandLine`: it changes the settings through the operators of `NetSettings`,
each of which may fail half way, and leaves `call` (the command with its arguments) and `answer` (what it
printed that matters, its exit code). `told` are the address families the provider accepted. An
observation of a diagnostic is taken from a world (the records a name really has, here and, for the
trusted resolver, elsewhere (`far`), the path it is looked up on, the peer that answers), so that a verdict
can be compared with the truth. `FrontierPolicy` has the
catalogue of twenty capabilities and the gate over it. `TrafficMetrics` turns what really went over the
network, with restarts of Windows and counters that cannot be read, into the rows the program has, and these
into `Delta` and `Spike`; mean and deviation are multiplied out, so that the comparison is one of integers
(a float may differ where both sides are equal). The clock is taken to go forward; sent and received bytes
are one counter; the latency column is never written by the program and is left out.

## 3. The runs

| run | instance | checks | shows |
|---|---|---|---|
| `settings_serial` | 2 workers, all 11 buttons, every working registry content, no failing call, `Patient` | `OneTaskPerKey`, `AtRestConnected`, `ClickIsAtomic` | with groups not overlapping, the task key alone makes a click atomic, but that servers from DHCP come back as static ones; no button leaves the machine unreachable; Restore goes back to the settings captured before the last change |
| `settings_faults` | 1 worker, 4 buttons, every kind of failure, rollback switched on and off | `SuccessIsTrue`, `TasksEnd` | no failure makes a success toast wrong, and none keeps a key |
| `settings_auto` | monitor alone, 2 networks with profiles, a moving route, no failing call | `TypeOK`, `ProfileReached` | while calls do what they say, a network the machine stays on gets its profile |
| `config_sync` | 2 edits, another program's edit or garbage, failing saves and starts, starts that a policy ends, 1 crash | `TypeOK`, `ReloadIsDue`, `NothingDestroyed`, `Converges` | no stale copy goes unnoticed; an unreadable file is kept; the copies converge |
| `ddns_auto` | 2 update URLs; an address, an outage, another address; every user act; 1 failure or restart | `TypeOK`, `SyncedNotBehind`, `EventuallySynced` | no address is marked before a provider has it or a later one; while the user stays with a URL, its provider comes to hold an address that is not marked yet |
| `plugins_end` | 2 plugins and a duplicate, 2 tasks and 1, starts that fail, a callback registering a task, Exit at any moment, closing while it is at work | `TypeOK`, `DueTasksAreTold`, `ShutdownEnds` | no task is forgotten that ran when its plugin failed or the end was asked for, with two threads stopping the plugins at once; a callback that never returns does not keep the process |
| `startup` | 4 process slots, launches with and without rights, consent, refusal, a denied mutex, crashes, every flaw | `TypeOK`, `AtMostOne`, `LaunchIsAnswered` | never two programs at work; a careful launch that meets no flaw ends with the program really running, or with a message that says why not |
| `hosts_apply` | 2 appliers, one after the other, enabling, disabling and invalid requests, 3 texts, one with a line that is not UTF-8, every failure, 1 edit by another program, 2 seconds | `TypeOK`, `AtomicReplace`, `ReplacedIsBackedUp`, `OnlyTheGroupChanges`, `GroupIsReversible` | the file is never a fragment, what is replaced is in a backup, lines outside the group stay as they were read, and one click undoes any number |
| `managed_config` | files with every kind of defect, 4 policy keys, 6 networks, 3 edits, a change of file or policy from outside, restarts | `TypeOK`, `LoadIsStable`, `FirstUsableRule`, `PausedIsShown`, `PolicyAtStart`, `SaveChangesOneThing` | every copy is usable as it is, the first usable rule wins, the update does not wait unseen, a policy is merged where it belongs and touches nothing else, a save changes one thing |
| `command_line` | the commands of `CommandLine` (section 8 has the others), two adapters, failing writes, unusable files, every kind of name, path, peer, adapter set, traffic and approval | `TypeOK`, `ExitTellsTruth`, `NothingElseChanges`, `HonestIsNotAccused`, `InterferenceIsSeen`, `TrafficIsToldTruly`, `BackupTakesOver`, `ApprovalsOnlyHelp` | exit code 0 means done, a command changes what it names, verdicts follow the evidence |
| `settings_overlap` | a DNS and a proxy click at once | `AtRestConnected` violated | section 4 |
| `config_lost_edit` | 2 saves and a poll | `SavedEditsStay` violated | section 4 |

Why the bounds are enough. Settings: a worker talks to another only through the keys, the restore
point and the settings, so two workers show every pairwise overlap; three server lists (from DHCP, working,
not working) and two proxies (working, dead) are every case the probe tells apart; one adapter where
the route is fixed, two where it moves. Configuration: the defects possible here need one save
overtaking one reload, and two edits tell a lost one from a kept one; one crash separates the file
from memory at each step. DDNS: an outage between two addresses reaches both backoffs, and lets a
call and its retry fail beside the one failure; two URLs show every change of provider. Plugins: the race of
two `stop_all` needs two plugins, the race of registering and
stopping a plugin with two tasks; the plugins share nothing else. Launching: four slots hold two launches
and the elevated successor of each. Hosts file: two appliers, because each other applier is to the first
what the second is; `MaxEdits` = 1 puts another program's text between any two calls, `Seconds` = {1, 2}
has backups of one second and of two. Managed configuration: a file and a policy that meet every rule of
the normal form, and one change of either from outside (`MaxOutside`) between any two steps of the
program; `DisablePlugins` = 0 is left out (section 4); the registries of the instance reach every branch of the
merge, and with each but the empty one, or a minimum below the interval, the start ends. Commands: one command
that changes something
(`MaxChanges`) from every initial state, since what a command leaves is again such a state.

Deadlock is checked in every run but `plugins_end`, where the program ends.

## 4. Disagreements found

Each is what the code does and a document says otherwise; `PROJECT.json` quotes the line.

* **Overlapping groups** (`settings_overlap`, `gui.py:1171`). DNS and proxy clicks have different keys
  and each snapshots both settings. A snapshot taken while the other click's change is in place, not
  yet probed, is restored after that change was rolled back: at the end nothing is running and the
  machine is on servers that do not resolve.
* **A saved edit is lost** (`config_lost_edit`, `monitor_service.py:141`). A reload reads the file
  before a save and assigns it after the save's `update_config`; the window takes it over and the next
  save writes a file without the first edit. Loading and assigning are under different locks.

More are in the models and have no run; the property that fails, with the run it can be added to or the
constants that show it, or the definition, is named.

Settings:
* *DHCP becomes static* (`core.py:1126`). A snapshot holds the servers in effect, so that after a rollback or
  Restore an adapter that followed DHCP has the servers of DHCP as a static list, though "Audit and
  plan.md":932 speaks of the previous DNS state: `SnapshotIsPrevious` of `SettingsRefinement` fails in
  `settings_serial`. That this is all a click loses is `ClickIsAtomic`.
* *Restore point* (`gui.py:1496`). A change that failed its check and was rolled back replaces the restore
  point, though docs/QUICKSTART.md:65 says that only successful changes do: `RestorePointNeedsSuccess` of
  `SettingsChange` fails with one DNS click after another.
* *Half a profile* (`core.py:578`). One failed step ends the attempt with no probe and no rollback of the
  other: `AtRestConnected` fails with the monitor on and `dns_write` or `proxy_write` in `Faults`. Nor does it
  change `_last_auto_profile_key` (`monitor_service.py:261`): a machine that had the profile of wifi, failed
  half way on lan and is back on wifi keeps what lan left, because the key is still wifi's
  (`lastKey` in `AutoApply`; the run of `ProfileReached` has no failing call).
* An exception in a worker after its change skips probe and rollback (`Raise`); a proxy change whose refresh
  failed stays, counts as failed and is not probed (`core.py:1271`).
* A rollback writes the adapter of the snapshot and leaves the servers on the one that was changed
  (`InterfaceFixed = FALSE` with clicks).
* `proxy disable` succeeds with the PAC URL still in force (`DisableProxy` leaves `pac`, `core.py:1240`).

Configuration and policy:
* *Machine policy ends the start* (`core.py:93`). `_apply_machine_policy` logs with the level `"info"`, for which
  `Logger.log` raises TypeError, and nothing on the way from `main.py:260` catches it: a start with a policy
  that changes something ends without a message, though docs/ENTERPRISE_DEPLOYMENT.md:13 says that policy is
  applied before the window and the monitor are made. `PolicyIsApplied` of `ManagedConfig` fails in
  `managed_config`, and no policy is ever in force in a running program. The flags `policy_disable_*` are
  read by nobody anyway.
* `DisablePlugins` = 0, what the ADMX writes for "disabled" (enterprise/LucidNet.admx:16-17), is
  stored in place of the list of enabled plugins (`enterprise_policy.py:77`), where it stands for no plugin
  at all (`PolicyAtStart` fails when `Registries` holds it); the start ends before anything reads it.
* A reload that failed once is recorded as done (`"reload"` in `Faults`: `ReloadIsDue` fails). A start that
  can neither open nor copy the file writes the defaults over it (`"start"` and `"copy"`:
  `NothingDestroyed` fails). A file that is not UTF-8 ends the start without a message (`Uncaught` of `Startup`).
* A save of the settings tab writes what the tab shows, also where another program changed
  it since (`gui.py:1767`; `SaveChangesOneThing` without `widgets = ShownOf(window)`). A DNS profile
  that a rule names can be deleted (`gui.py:1348`); the rule then fails at each join.

Dynamic DNS:
* *Force sync marks what it did not send* (`monitor_service.py:97`). It reads the published address after
  the update, and docs/TROUBLESHOOTING.md:47 says nothing is marked until the update succeeds:
  `SyncedNotBehind` fails with `"move_in_force"` in `Faults`.
* The monitor marks the address it polled and not the one the provider saw, so that an address that changes
  in between and changes back is not sent again (a `Route` that returns: `EventuallySynced` fails).
* *A new provider is told nothing* (`monitor_service.py:205`). Only the address is compared with the one
  marked: after the user saves the URL of another provider, this one is sent nothing until the address
  changes or Force sync is pressed. `EventuallySynced` says so in `ToTell`; without its condition on `last`
  it fails. An update to the old URL that is under way when the new one is saved marks the address too
  (`ElsewhereUnderWay`).
* Metered, battery and saver are observed three times in a poll, and a reason that begins or ends between two
  of them lets the update wait with no reduced mode shown (`AsTight` in `PausedIsShown`).

Start, plugins:
* The elevated process may look for the mutex before its parent released it: it says "already running" and
  both end (`LaunchIsAnswered` without `env.care`, `main.py:253`). A second launch whose message is still
  open keeps a handle, and so keeps the next launch out after the first program ended (`main.py:194`). A launch
  that finds the last program still closing is told that it runs (`LaunchIsAnswered` excepts it).
* A task registered from a callback while its plugin is being stopped, and the tasks of a plugin that loads
  while Exit goes through the others, are never told to stop: this is why `due` does not name them, and
  docs/ARCHITECTURE.md:33 promises more. Exit before the loop runs stops plugins and monitor and leaves
  the window running (`Dispatch`).

Hosts file:
* A line that is not UTF-8 is written back with U+FFFD in place of what could not be decoded
  (`hosts_manager.py:104`), by any change of any group: this is `Decode`, and why `OnlyTheGroupChanges` says "as
  they were read". A second backup in one second overwrites the first (`hosts_manager.py:97`):
  `ReplacedIsBackedUp` asks for the text being replaced and for no older one.
* Two appliers share `hosts.tmp`: with `Alone = FALSE` a file can be put in place that neither rendered
  (`AtomicReplace` fails, `hosts_manager.py:108`), and the first one's change can be lost.
* A group whose END line is missing reaches to the end of the file; applying it drops what follows
  (`OnlyTheGroupChanges` without `WellFormed`, `hosts_manager.py:82`).

Commands and diagnostics:
* `diagnose transparent-dns --resolver-label` prints the resolver it was given and asks the system's
  (`lucid_cli.py:268`). Read-only commands move an unusable `config.json` aside (`lucid_cli.py:174`).
  Commands that change settings take no snapshot and roll nothing back, though
  docs/CLI_AND_POWER_MODE.md:57 asks for the same rollback as the window's.
* A name whose owner has it answered with other addresses in other places (a CDN, round robin) is reported as
  a mismatch or as possible interception (`deep_diagnostics.py:104`, `:152`): `HonestIsNotAccused` asks for one
  address in common. "Answers overlap" is also reported when the trusted resolver gave none
  (`deep_diagnostics.py:106`, though docs/DEEP_DIAGNOSTICS_FRAMEWORK.md:51 says that they do):
  `PartialMeansOverlap` fails in `command_line`. The trusted answers hold aliases and never an IPv6 address,
  so that a name with either is never "normal", and
  one with an alias and IPv6 addresses only is a "mismatch": `HonestIsNotAccused` speaks of names with an
  IPv4 address. A handshake that times out is called filtering (`deep_diagnostics.py:210`).
* Anomalies are sought in counters that only grow, as if they were levels (`anomaly_detection.py:24`): three
  refreshes after a restart of Windows, steady traffic is a spike (`TrafficIsToldTruly` without `RanOn`). A
  row of counters that could not be read holds zeros, and the trend from it counts what was there before.
* A capture of 300 seconds has a time-out of 300 (`forensics_plan.py:103`).

## 5. Fairness

* Settings: weak fairness of each worker (with the callback that finishes its task) and of the monitor.
  A started thread runs, every call it makes has a time-out, and the Tk loop serves its queue. No
  fairness for the user or the route. A captive portal that lasts for ever is outside `ProfileReached`.
* Configuration: weak fairness of the monitor's steps, of a save once begun, and of the 3-second
  timer. None for edits, crashes, or a new start.
* DDNS: weak fairness of the monitor's cycle and of each deadline. None for the user, the route, the
  failures or Force sync; `MaxFailures` makes failures finite, without which nothing could be promised.
* Plugins: weak fairness of main and of the tray thread once Exit was clicked (`on_start` and `on_stop`
  return), and of starting a thread that was created. None for callbacks, which may never return, nor
  for the user, who need not exit.

* Launching: weak fairness of each process from the mutex to the end, prompts and messages included: they
  are answered. None for launches, for ending the program, or for crashes.
* `HostsFile`, `ManagedConfig` and `CommandLine` promise nothing that must happen, and assume none.

## 6. What is proved

Every safety invariant and every action property of the passing runs is a theorem of the specification, for
every value of the constants that meets the assumptions named below. What a theorem assumes beyond them
is a definition of its module, stated next to it, and is what the run of the property has as well.

### Settings: `SettingsProofs`

* `OneTaskPerKeyAlways`. The inductive invariant `TaskInv` adds the types of `pc` and `op`: a key must belong
  to the one worker that is not idle with it, so that freeing it cannot free another's. The lemmas
  follow the life of a task: `ClickKeeps`, `GoingOnKeeps`, `FinishKeeps`. `TypesAlways` goes on from there
  to what is read, written and half written.
* `SuccessIsTrueAlways`, assuming `Serial` (the user waits for a task of another group, or there is one
  worker; no monitor; the route does not move) and nothing about failures. `OneLive` says that one worker
  at most is between its snapshot and its result; `SuccessInv` what its snapshot is and, once it has
  changed something, what is in force. Without `Serial` it is false: another task may undo what was done.
* `AtRestConnectedAlways`, assuming `Dependable`: `Serial`, no failing call, the rollback left on, settings
  that work at the start and from DHCP. `AtRestConnected` is not inductive: while a change is not
  yet probed the machine may be cut off. `RollbackInv` says that then the snapshot of the one live worker is
  a connected setting, and so is the restore point. The run `settings_overlap` is what happens without.
* `ClickIsAtomicAlways`, assuming also `SameAdapter` (each button is about the adapter in use): the step
  simulation of `AtomicChange` under the mapping of `SettingsRefinement`, over the settings as they are
  configured. `SameInv` says that the snapshot of a worker is of the active adapter. The change is a `Take`
  (`CapturedHere`: what the snapshot leads back to is `AsCaptured` of what was there); the effect of a click is
  the step at which its probe is decided; every other step is a stutter.

### Configuration: `ConfigProofs`

* `TypesAlways`. `TypeInv` adds that `Adopt` is only reached with a configuration and a save only ends
  with an edit.
* `ReloadIsDueAlways`, assuming `SoundReloads` (a reload reads every good file and no program writes
  between the two halves of a save). `SyncInv` says what a modification time vouches for at each point of a
  reload and of a save (`Vouched`); it is needed because `ReloadIsDue` itself speaks only of moments when
  neither is under way.
* `NothingDestroyedAlways`, assuming that a file can be copied or moved aside: what is replaced at a start or
  a reload is in a backup.

### Dynamic DNS: `DdnsProofs`

* `SyncedNotBehindAlways`, assuming `StillForce` (the address does not change under a Force sync, section 4),
  for every route, set of URLs and number of failures. `DdnsInv` says that no known position is ahead of the
  machine, that an accepted update has left a position at least as late as the one about to be marked, and
  that an accepted Force sync has left the machine's own. Two lemmas carry it: `UpdateMovesForward` and
  `ForwardKeepsMarks`.
* `TypesAlways`, inductive as it stands.

### Plugins and launching: `PluginProofs`, `StartupProofs`

* `TypesAlways` and `DueTasksAreToldAlways`, for any manifests and numbers of tasks. `PromiseInv` has three
  parts beside the types. `AskedFirst`: nobody is in `stop_all` before the end was asked for, and main not
  before all is loaded. `Behind`: only visited manifests are loaded, and a due task belongs to one, or to the
  plugin failing now. `OnTheirWay`: a due task that is not told is still tracked (`Join` drops none, because
  the events of all that are due were set before), and a thread in `stop_all` has told those of every
  plugin it has no longer to do; this is what survives one thread clearing the list under the other.
* `AtMostOneAlways` and `TypesAlways`, for any set of processes. `GuardInv` says that whoever is past the
  mutex with administrator rights has a handle, and that at most one process with a handle is past it; a
  process that got past without a handle has no rights, and ends at the next check.

### Hosts file: `HostsProofs`

* `ReplacedIsBackedUpAlways`, for any appliers, alone or not, and any other writers. `Kept` says that while
  somebody is past its backup with no change of the file since, the file is in *some* backup: another applier
  may overwrite the backup of that second, but with the same text.
* `TypesAlways`: `HoldsInv` adds what each applier holds at each step.
* `GroupIsReversibleAlways`, for every text, also one whose markers are out of order. What
  `remove_managed_group` returns is given a closed form: the lines that are not between a BEGIN and its END
  (`Skipping`, `KeptLines`), in their order (`LinesAt`). A lemma says that the loop of the code computes it
  (`RemoveKeepsLines`), another that what is removed once is gone (`RemoveAgain`).
* `AtomicReplaceAlways` and `OnlyTheGroupChangesAlways`, assuming `Alone` (one applier at a time). `WorkInv`
  follows the text an applier decoded through its rendering to the temporary file; `ApplyIsExact` says what the
  rendered text is, under the same condition on the markers as the property (`WellFormed`).

### The fields of the configuration: `ManagedProofs`

* `TypesAlways` and `LoadIsStableAlways`, for every file, policy key and outside program. `CopiesInv` says that
  every copy in memory is a `SettledConfig`, one that `normalize_config` leaves alone; that a policy, a save or
  an edit keeps it so is shown handler by handler, and that the loop over the rules is idempotent by its
  closed form, the usable ones among the rules.
* `FirstUsableRuleAlways`: `match_network_profile` over the normalized rules is the first match among the
  usable rules of the file. `PausedIsShownAlways`: for every interval, and for every pair of the observations
  of a poll.
* `PolicyAtStartAlways`, assuming `OnlyDisables` (no registry holds `DisablePlugins` = 0, section 4): the step of
  the merge, which is all of a policy that the program gets to.
* `SaveChangesOneThingAlways`: one lemma for each handler that saves; without a URL the automatic update goes
  off with the one change.

### Commands: `CommandProofs`

* `CommandTypesAlways`, `ExitTellsTruthAlways`, `NothingElseChangesAlways`: one lemma for each command, over what
  its writes can leave when they fail half way (`DnsCommandDoes`, `RegistryDoes` and the like).
* `HonestIsNotAccusedAlways`, `InterferenceIsSeenAlways`, `BackupTakesOverAlways`: `Verdicts`
  is their conjunction, kept because an answer is only written with its call. Behind them are facts about
  the classifiers for every set of answers, and about `Failover` for every finite set of adapters.
* `TrafficIsToldTrulyAlways`, for every history and limit. `WindowIs` says which counters `recent_metrics` takes,
  `DeltaIsTold` that their difference is the bytes of the periods between, unless Windows was started again.
  `FallingIsNoSpike` and `BurstIsSpike` are about the variance of a prefix: both are inductions in which
  mean and spread are replaced by sums that do not depend on where the counters began (`MomentAlgebra`).
* `ApprovalsOnlyHelpAlways`. `GateInv` says that what the last gate command answered is what the gate says;
  `FewerBlockers` that the gate is monotone.

### Loops

The induction theorems of the library take an operator as a parameter, which the provers here cannot
instantiate. Loops over lines, rules and rows are recursive functions of the models, and the proofs use
induction over a *set* of rounds instead: a set of numbers that holds 0 and the successor of each of its
members holds all (`Induction`, from the least number that is not in it). `Recursion` of `HostsProofs` and
`CommandProofs` and `LoopEnds` of `ManagedProofs` show from it that the function a loop defines exists, so
that its equations may be used.

### Assumptions on constants

They are the named `ASSUME`s of the modules: `SettingsAssumption`, `OpsAssumption`, `ProfileAssumption`,
`ViewAssumption` (`NoSnapshot` is neither a snapshot nor settings), `ConfigAssumption`, `DdnsAssumption`,
`PluginAssumption`, `HostsAssumption`, `ManagedAssumption` (files hold values, policies
have names, folding the case of a value twice is folding it once, the default DNS profiles are valid),
`CommandAssumption` (adapters of one machine have different names, what is forged is no answer of the
real name, histories are sequences of periods).
TLC evaluates them in every run of a module that extends theirs.

## 7. What is only model-checked

`TasksEnd`, `ProfileReached`, `Converges`, `EventuallySynced`, `ShutdownEnds` and `LaunchIsAnswered` are
liveness under fairness, which the prover does not do: they hold in the instances of section 3. The two
violations of section 4 are counterexamples TLC finds. The instances also show what the theorems do not need:
that every action and every disjunct can be taken.

## 8. What is not modelled

Formatting, logging and the layout of the window. Connection reuse in the HTTP session, which can let
a probe pass on settings no new connection gets through. The two address families of the monitor's
update. Of the command line: what lists or prints (about, vision, brand, plugins list, host-health and env-lock,
overlay-status, frontier catalog and status), previews (hosts preview) or plans (marketplace-plan,
sidecar-decision). The endpoint lists of `normalize_config`. Policies beyond the four of `ManagedConfig`: they are
flags stored in the same way.

`install_plugin_bundle`, `marketplace_operation`, `run_sidecar` and the broker have no caller in the
program: how they interleave with anything is not fixed by this code. The event history is one transaction
per call. The bundle of `diagnostics.py`, the inventory of connections, overlay and branding tables are text.
`PROJECT.json` lists each with its reason.

## 9. Plan

1. *Abstract specifications*: `ConfigSync` without failures as one register with delayed readers;
   `HostsFile` under `Alone` as an atomic update of a text; each with the proof that it is implemented.
2. *Weaker hypotheses*: `AtRestConnected` with the monitor on and no clicks, where the plan of a profile has its
   own rollback; `SuccessIsTrue` with failing probes only but with the other group at work.
3. *Marketplace plan*: which version of a plugin that exists twice is compared with the registry.
