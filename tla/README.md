# A verification development for multi-tun

This directory holds TLA+ models of the stateful parts of multi-tun, the TLC
configurations that check them on small instances, and TLAPS proofs of the most
important results for instances of every size. `PROJECT.json` lists components,
runs, the source lines behind every definition, the hazards the properties are
for, and the theorems.

## 1. Inventory

multi-tun is a set of macOS command line tools (Go, `desktop/`) around one
privileged helper, and an Android app (Kotlin, `android/`).

| Part | State it keeps | Operations | What is hard | What makes it correct |
|---|---|---|---|---|
| **vpn-core daemon** (`core/vpncore`: service, maintenance, maintenance_lease, diagnostics, typed_actions) | connection slots, request tracker, mutation lock, child registry, drain token and deadline, lease file | ping, maintenance.drain/renew/undrain, singbox.start, tcpdump.start, signal, dns and resolver commands; child exit; crash and restart | handlers interleave with each other, with child exit and with crashes; lease expiry races with renewals; pids are reused | a drain and privileged work exclude each other; leases survive restarts and never revive; a handle never reaches a foreign process |
| **install / uninstall** (`install.go`, `service.go`, `maintenance.go` guard, `rpc.go`) | held leases, launchd's job table, installed files, runtime directory | drain all, authenticate, copy, verify, renew, bootout, remove, bootstrap, wait ready, undrain, release | calls time out and are served late; two operators; daemons crash and restart in between; failure after the point of no return | bootout ends no tunnel outside the documented exceptions; a lease that stays in force is reported; the command ends |
| **socket publication** (`service.go`) | private and published socket paths, their inode identities | prepare, publish by rename, check, close | a daemon killed between two calls, a replacement of the published entry | clients only ever find a socket with its rights set; a daemon that serves serves its own; close removes only its own socket |
| **runtime removal** (`runtime_removal.go`) | runtime directory, quarantine name, descriptors | verify, rename into quarantine, re-verify, remove | the directory is substituted between check and use | only the verified directory is removed |
| **vless session** (`vless/session`, `processidentity`) | current-session record, session metadata, sing-box/Xray processes, sidecars, DNS hand-off, launchd job | Start, Stop, ResolveCurrent, liveness, orphan clean-up | crash between spawn and record; pid reuse; concurrent starts; DNS left redirected | a recorded session is the running one; stop ends only what it started; DNS is restored |
| **vless CLI, configuration, subscription, renderers** (`vless/cli`, `vless/config`, `subscription`, `singbox`, `xray`, `model`) | config.json, snapshot.json per server | setup, set-current, resolve, refresh, probe, render | rewriting the whole file, a fetch that fails half way, a cache read while it is written, a probe that races its deadline | a selection sticks; a cached snapshot is whole and its own; the chosen profile fits |
| **openconnect** (`anyconnect/openconnect`, `openconnectcli`, `openconnectcfg`, `keychain`) | session record, startup lock, openconnect process, resolver and route state, the authentication dialogue | start, stop, status, helper modes, the hooks openconnect runs | startup lock against stop; hooks that outlive their openconnect; a server that may answer anything | one session at a time; stop restores the resolver; split DNS works when start says so; the dialogue ends |
| **ciscodump** (`anyconnect/ciscodump`, `ciscodumpcli`) | capture session and metadata, tcpdump handles, snapshots, mirrored logs | start, stop, inspect, the daemon's iterations | a daemon that is signalled before it is ready; files that change while they are copied | stop ends the captures; the mirror is what its stamp says |
| **ssh-proxy** (`sshproxy`) | configuration, profile record, ssh process, SOCKS port | setup, start, stop, status | pid reuse, foreign listeners, concurrent starts | stop ends only its own process; nothing runs untracked |
| **interface audit** (`core/ifaceaudit`, `vpncorecli`) | none: reads interfaces, routes, records | parse, classify | readings spread over time while names change hands | an interface attributed to a session was its own |
| **log tail** (`core/logtail`, `vpncore/passed_log.go`) | pending bytes, the log file, the daemon's descriptor | write, flush, append, close, cut | flushes outside the mutex, a rename under a descriptor | no line is lost, repeated or out of order; the log stays bounded |
| **Android app** (`android/`) | tunnel catalog, service binding, phase, tun interface, two runtimes, default network | connect, disconnect, consent, revoke, relaunch, destroy, network change | coroutines on several threads that cross, late results, service rebinding | the shown state follows the service's; a disconnect ends the tunnel |
| **packaging, scripts, agents skill, Swift auth helper** | none of their own | build, release, prompt | | |

The tools talk to the daemon over a Unix socket (one JSON request per
connection); install and uninstall also drive launchd; sessions are recorded in
files of the user's cache directory that later invocations read.

## 2. Plan

Done, in this order:

1. `VpnCoreDaemon` over the abstract `MaintenanceLease`, with proofs: the daemon is
   the only privileged part, every other tool relies on it, and it is where
   handlers, child exits, expiry and crashes interleave.
2. `MaintenanceInstall`, which composes operators, launchd and daemons reduced to
   `MaintenanceLease`; `SocketPublication` and `RuntimeRemoval`, the two places where
   the daemon and the uninstall act on paths that others may change.
3. `VlessSession`: start, stop and reconnect of vless-tun over one record file,
   relying on the daemon's handles as `HandleNamesItsChild` proves them;
   `VlessConfig`, `Subscription` and `ProfileResolution`, what a start has decided
   before it begins; `SessionLog` over `TailLines`, the log it leaves.
4. `OpenConnectSession`: the startup lock, the record, the clean-up of a failed
   start, `Stop` and the resolver files, with two commands on one lock;
   `VpncWrapper`, the hooks in detail; `AggregateAuth`, the login.
5. `SshProxySession`; `CiscoDump`, `DumpMonitor` and `LogMirror`.
6. `InterfaceParse` and `InterfaceAudit`.
7. `AndroidTunnel`: the button, the connector, the service and its runtimes.
8. Proofs beyond the daemon: `OpenConnectSession`, `VlessSession`,
   `MaintenanceInstall` and `AndroidTunnel`, each in a module `...Proofs`, and the parts
   of the runs `files`, `clients` and `anyconnect` in one such module for each run
   (section 5).

Left, in this order:

9. Proofs about what is still only model-checked (`SessionLog`, the probe of
   `ProfileResolution`), as far as they do not rest on what a recursive definition
   computes.
10. The default network monitor of the Android app, and properties of the routes of
   `VpncWrapper`.

## 3. Modules and the code they model

`PROJECT.json` maps each definition to its lines. Definitions whose comment begins
with *Mutant* are wrong variants of the next definition, used to check that a
property can fail; nothing else refers to them.

### VpnCoreDaemon

| Model | Code (`desktop/internal/core/vpncore`) |
|---|---|
| `Conn`, `stage[c]` | the slots of the connection semaphore and how far the handler in a slot has come (`service.go`, `serveConnection`) |
| `mutation` | `serviceDaemon.mutation`, held from `Begin` to `Finish` of every request except ping |
| `Queued`, `Active` | the counters of the request tracker, computed from `stage` |
| `children`, `proc` | the child registry, and the process table it points into |
| `mem`, `pending`, `file` | the drain state in memory, a token drawn but not yet in force, the lease file |
| `Accept` ... `Finish` | one connection: accept, read, lock, dispatch, reply |
| `DrainIdle`, `RenewIdle`, `Persist`, `SetMaintenanceState` | drain and renew: idle test, write of the file, publication in memory, each a step of its own with its failure |
| `RemoveLease`, `ClearMaintenanceState` | undrain, and the failed removal that keeps the lease |
| `Spawn`, `Register`, `Watch`, `UndoSpawn` | singbox.start and tcpdump.start, and what a start does when it fails after the spawn |
| `Exit`, `RemoveBeforeReap`, `Reap`, `ReusePid` | the exit watcher, and pids given to other programs |
| `Crash`, `Restart`, `Tick` | the end of the daemon at any step, launchd's restart with the lease file restored, time |

Time is kept as the time left of each lease; `Tick` shortens them all. `UndoSpawn`
(remove, kill, wait) is one step because the mutation lock is held throughout.

`MaintenanceLease` is the abstract specification: one holder, granted only while
nothing is busy; work starts only while there is no holder; a token is used at most
once. `ImplementsLease` maps the daemon to it with `LeaseHolder` (the lease in
the file while it has time left or is being renewed), `Busy` (admitted work or running
children) and `Spent` (tokens drawn that neither hold the lease nor are about to).

### MaintenanceInstall

An operator is an install or an uninstall. `todo`, `at` and `guard` are the services
still to be treated, the one in hand and the leases held (`maintenance.go`, the
guard). A call to a daemon is a message in `inbox` and an answer in `reply`: an
abandoned call is still served, a daemon that dies drops the calls it has read
(`Hangup`). Daemons are reduced to what `MaintenanceLease` promises of them, which
`PrimaryImplementsLease` checks; `loaded`, `running` and `package` are launchd's
job table, its processes and the installed files. The `Serve*`
actions are the daemon's answer to one message; `Call`, `Bootout`,
`Bootstrap`, `Undrain`, `ReleaseNext` follow the order of `install.go` with every
error return.

### VlessSession

A command (`start`, `stop`, `reconnect`) is a process with a program counter; each
step is one call that can fail or be interrupted. `record` is
`current-session.json`, `info[s]` what is written there, `proc` the process table
with zombies and strangers, `scutil` and `servers` the two forms of the system DNS
change. `Seen` gives the answers that `ProcessAlive` and the comparison of
identities can return; `Stop` is `Load` to `Clear`, `session.Start` is `Guard` to
`SaveCurrent`, `stopStartedSession` is `UndoDNS` to `UndoClear`, and the callers in
`vless/cli` are `Run` to `Recheck`. `lost` collects the sessions that the code
itself gives up (a failed or killed start whose clean-up failed, a start over a
session of unknown liveness); `NothingLost` and `DnsRestorable` say that there are
no others.

### OpenConnectSession

| Model | Code (`desktop/internal/anyconnect/openconnect`) |
|---|---|
| `lock` | `startup.lock`, a non-blocking `flock` that a start holds throughout and a stop only for its clean-up |
| `record` | `current-session.json`; `Corrupt` when an interrupt or a failure came between the truncation and the write |
| `Match`, `SessionAlive`, `FailedStartAlive` | the answers the comparison of identities can give; `"unknown"` is an error |
| `Lock` to `Save` | `Connect`: lock, recorded session, process scan, authentication, second scan, launch, identity, stable start, convergence, record |
| `Undo`, `UndoClear`, `Preserve` | `cleanupFailedOpenConnectAttempt`: signals until openconnect is gone, else the attempt is recorded |
| `Load` to `Clean` | `Stop` of a session that is not alive: lock, second look, record, orphaned resolver files |
| `Signal`, `Poll`, `Wait`, `Clear` | `Stop` of a live session, without the lock |
| `Scanned`, `away` | `findMatchingOpenConnectPIDs` compares the host of openconnect's last argument with the selected server's; `away` are the attempts whose authentication ended on another host (redirect, fallback, `CONNECT_URL`) |
| `Hook` | the script wrapper that openconnect runs: it writes the resolver files on connect and reconnect and removes them on disconnect |
| `LateLaunch`, `Exit`, `ReusePid` | openconnect and the other programs of the machine |

`loose` collects the sessions that a command could not keep track of: killed
during the start, a record that could not be written, a pid that was never
published, a record removed by a stop of an earlier session (finding 1).
`NothingUntracked` says that there are no others. `OnePerServer` excepts only what the
process scans could not see: a launch that went on without its command (`fate[s]` is
`"adrift"`), and an openconnect that is both lost track of and given another host than
the selected server's (`loose` and `away`).

### SocketPublication, RuntimeRemoval

`SocketPublication` follows `preparePublishedSocket` and `publishedUnixSocket.close`
call by call: `pc` is the next system call, `private` and `public` what the two
paths name, `identity` what the daemon has taken down. `Kill` ends it between any two
calls, `Replace` is another program at the public path. `RuntimeRemoval` is
`runtime_removal.go` for several uninstalls at once: inspect, make the quarantine,
rename into it, compare, remove; `Create`, `MoveAway` and `MoveBack` are the others who
may write in the parent directory.

### VpncWrapper, AggregateAuth

`VpncWrapper` is the shell script that `scriptDiagnosticsWrapperScript` generates: one
step per shell function, for the events pre-init, connect, reconnect and disconnect,
over the resolver files (each with its marker and servers), the captured public name
servers and the backup of `search.tailscale`. The wrapper tests none of its `cp`, `mv`
and `rm`, and a failed `mktemp` ends only the subshell of a loop: on a machine with
`"full"` any of them may fail, a file is then left as it was or incomplete, the hook goes
on, and its log, whose line comes before the first file, says that the shim was applied.
`failed` and `unsanitized` keep account of what the last attempt on a file came to. The
start that reads the hook's log, the
stop that waits for the files and the clean-up of orphaned files (which does nothing while
Cisco's own client is connected) are the other actors.

`AggregateAuth` is `authenticateWithSAML` and the `openconnect
--authenticate` path as one process against a server and helper programs that
may give any answer: init requests at the primary and the fallbacks, host scan
with its challenge, browser login, the variants of the auth-reply. `Post` stores the
sdesktop cookie for the target and the group's host and sends a reply, `Repost` is a
redirect, which is sent the same body with whatever cookies its host has, `Answered` the
answer. `jar` is the cookie of path `/` of each host, `extra` the hosts that have a
further one of a longer path (which the browser's import keeps and nothing replaces),
`replaced` the hosts that have set their cookie anew since the reply was sent; every
server that answers may set or delete its own.

### SshProxySession

A command is a process with a program counter, as in `VlessSession`; a profile has a
record with a pid, the port has at most one listener, and ssh may fail, die, or be
followed by a stranger with its pid (`Reuse`). `Foreign` lets another program listen.

### CiscoDump, DumpMonitor, LogMirror

`CiscoDump` has the commands, the daemon with its captures (`at[s]`), the record and the
metadata file. Both are written by `saveJSON`, which truncates first: a failed write, an
interrupt or a kill may leave either torn. `snapshotCount` is the counter in the daemon's
memory, which it writes over what the file says. After `ctx.Done` the daemon looks once
more (`LastLook`), stops its captures and analyses the loopback one, whether the stops
succeeded or not. `DumpMonitor` is one iteration of `monitorState`: the
digests decide which snapshots are written. `LogMirror` is `copyRelevantCiscoFiles`:
list, stat, copy, stamp, while the files change. `failing` are the files that cannot be
looked at or copied, for a time or for ever; the first of them in the list ends the
iteration (`StatFails`, `CopyFails`), and a copy that fails may leave its target empty.

### VlessConfig, Subscription, ProfileResolution

`VlessConfig` keeps the file as a record of optional fields (`None` is absent, `{}` an
explicit empty list) and models `setup`, `set-current` and the resolution of
server, profile, selector, match and routing; the sharing of the `default` object between
a configuration and its copy is explicit. `Subscription` has a provider per server, a
snapshot file per cache directory whose write is a truncation and a write, and
commands that fetch, save, read and fall back. `ProfileResolution` is the
selection as operators over a list of profiles, and the probe as a process with a
goroutine per candidate, a channel and a deadline. `FastestReceived` is about what was
taken from the channel (`Received`), so it also binds a probe that the deadline ends with
some of its results.

### TailLines, SessionLog

`TailLines` has the two cutting functions; `MCTailLines` compares them with the
definition of the last lines on every short log. `SessionLog` composes the buffered
writer with its flush loop, `Append` in its plain and bounded form, and the daemon that
holds a descriptor of the log. A write and the flush that it finds due (`FlushFull`) are
two steps, because the mutex is free between them.

### InterfaceParse, InterfaceAudit

`InterfaceParse` folds over lines that are records of what the parsers tell apart, and
is compared with definitions by position. `InterfaceAudit` is one audit, reading by
reading, among sessions that start and end.

### AndroidTunnel

| Model | Code (`android/`) |
|---|---|
| `shown`, `synced`, `ClickConnect`, `ClickDisconnect`, `SyncRuntime` | `TunnelHomeStore`: the phase of the screen, the primary button, `syncRuntime` |
| `pending`, `consent`, `Resolve`, `Consent` | the connect request in `MainActivity`: resolve, render, ask for consent |
| `queue`, `conn`, `binder`, `Forward`, `ServiceConnected`, `Relaunch` | `TunnelServiceConnector`: the binding and the callbacks that wait for it |
| `phase`, `backend`, `StartTunnel`, `StopTunnel`, `StartEnds`, `StopEnds`, `Revoke`, `Destroy` | `TunnelVpnService`, on the main thread |
| `tun`, `tunOpened`, `server`, `boxes`, `Prepare` ... `StopClosesTun` | `RealSingboxRuntime`, on an IO thread |
| `xray`, `StopOldXray` ... `StopXrayClosesTun` | `RealXrayRuntime`, on an IO thread |

`wish` is history: the last thing the user asked for.

## 4. Runs

| Run | Instance | Distinct states | Shows |
|---|---|---|---|
| `daemon` | 2 connections, 2 tokens, 2 children, 2 pids, TTL 2 | 536,932 | all safety properties, the inductive invariant, the refinement of `MaintenanceLease` |
| `daemon_live` | 2 connections, 1 token, 1 child, 1 pid, TTL 1 | 53,842 | every request ends; an unrenewed drain expires |
| `install` | 2 operators for the primary service, or 1 as long as a legacy service is loaded, 2 tokens, TTL 2 | 1.4 million | bootout spares tunnels; a lease left in force is reported; the service implements `MaintenanceLease` |
| `vless` | 1 command at a time, 2 sessions, 3 pids, both modes, both engines | 1.4 million | nothing lost, DNS restorable, stop honest, no second sidecar |
| `vless_concurrent` | 2 commands at once, 2 sessions, 2 pids, direct mode | 1.2 million | a stop is honest and a failed start signals only its own processes without any lock |
| `openconnect` | 2 sessions, 2 pids; 2 commands at once, or 1 command at a time whose authentication may end on another host, or 1 command at a time and 1 attempt among other programs (two kinds) that take free pids | 1.7 million | one openconnect per server, none untracked, stop honest, resolver clean-up spares a live session, signals go only where the recorded identity says |
| `clients` | 6 parts, below | 1.2 million | configuration, subscription cache, choice of a profile, Android service |
| `files` | 10 parts, below | 2.0 million | socket, runtime directory, audit, parsers, logs, resolver files |
| `anyconnect` | 6 parts, below | 1.5 million | authentication, cisco-dump, ssh-proxy |
| `progress` | 7 parts, below | 274,365 | what must eventually happen outside the daemon |
| `openconnect_stop` | as `openconnect` | violation | finding 1 |
| `android_disconnect` | 2 coroutines, both engines, 2 requests | violation | finding 2 |

### Runs of several parts

`MCVlessClients`, `MCSystemFiles`, `MCAnyConnect` and `MCProgress` put together modules
that neither call each other nor share a file. Each component is an `INSTANCE` over
variables of its own. The variable `part` is chosen by `Init`; `Next` lets that
part take a step of its module and leaves the others in their initial states, so the
reachable states are the disjoint union of what separate runs would reach, and a
property guarded by `part = "x"` says of part x what the module's property says. Nothing
is lost by not interleaving the parts: no action of one reads what another writes. A
component with two interesting instances (`log`, `flush` and `unbounded`; `android`,
`engines` and `patient`) is several parts over the same variables. `audit` and `names`,
and `sshproxy` and `profiles`, are two parts over one instance each, restricted by
conditions on the next state: `FewNames` (several sessions on one interface name) and
`SingleSession` (one session among two names); `Crowd` (several commands on the shared
profiles, other programs take freed pids but do not listen) and `Alone` (one command at a
time, other programs listen but take no pids). `MCOpenConnectSession` does the same
with `around`, the kind of other programs there are: with none of them two commands
overlap, with one of them there is one command at a time and one attempt to start, and
with `"redirect"` in their place there is one command at a time, any number of attempts,
and authentications may end on another host.

| Run | Part | Instance | Shows |
|---|---|---|---|
| `clients` | `config` | 2 servers, up to 2 profiles, every scope absent, empty or filled | a selection sticks, setup is usable, no foreign profile, one criterion, bypass adds |
| | `subscription` | 2 commands, 2 servers with a cache each, 2 versions, 2 runs each | snapshots are whole, current, their own, and old only when the provider is down |
| | `profile` | up to 3 profiles, every option | the choice fits, does not depend on order where it should not, sticks, and is the fastest received, also at the deadline |
| | `android`, `engines` | 2 coroutines; sing-box and revocation, or both engines | a tun interface that stays open is published; the service is never left in Connecting or Disconnecting |
| | `patient` | 1 coroutine, a user who waits | Connected means up |
| `files` | `socket` | 6 inodes | a published socket has its rights, bind succeeds, a daemon serves its own |
| | `removal` | 2 uninstalls, 3 entries | only the inspected entry is removed; success means gone; one winner |
| | `audit`, `names` | 1 utun name and 3 sessions; 2 names and 1 session | an owned interface was live; no session is missed silently |
| | `parse` | outputs of up to 4 lines | both parsers are what the definitions say |
| | `tail` | logs of up to 9 bytes, bounds up to 3 lines and 5 bytes | both cuts are the last lines |
| | `log` | bound of 2 lines, 4 header lines, 2 events, 3 outputs | bounded, the tail kept, events visible |
| | `flush` | flush at 2 lines, 5 header lines, 1 event, 1 output | no line lost or repeated |
| | `unbounded` | no bound, 3 events, 3 outputs | output and events stay |
| | `resolver` | 1 session with a reconnect, 1 VPN domain, 2 server domains, 1 bypass suffix; beside it Tailscale, which rewrites its search file, or programs that take over other files, or a disk on which what the hooks do to files fails | a start that trusts the log has working split DNS but for the files its hook failed to write; a stop leaves no shim file, a disconnect none but those it failed to remove |
| `anyconnect` | `auth` | 2 gateways, 3 fallback entries, 2 tokens, 2 reply variants, replies redirected up to twice | challenges are answered, cookies match, the selected server is kept, directories are removed |
| | `dump` | 1 command at a time, 2 daemons, faults | one daemon, captures owned, metadata only grows unless a write is cut short, OCSC files from the loopback capture |
| | `monitor` | 1 process, 2 sockets, 2 network configurations | the last snapshot shows what was last seen |
| | `mirror` | 4 files of 3 kinds, 4 writes, files that fail | a current stamp means a current copy |
| | `sshproxy` | 2 commands at once, 1 profile, pids taken over by others | a stop that reports success has seen its ssh exit |
| | `profiles` | 1 command at a time, 2 profiles on one port, foreign listeners | nothing untracked, stop honest, records outlive their ssh |
| `progress` | `sshproxy` | 1 command, a foreign listener | commands end |
| | `install` | 1 operator, primary and one legacy service, 2 tokens, TTL 2 | every install or uninstall ends with a report |
| | `dump` | 1 command, 1 daemon, faults | a daemon that was asked to stop ends |
| | `mirror` | 4 files of 3 kinds, 4 writes, files that fail | a file gets into the mirror once no file up to it fails any more |
| | `auth` | 1 gateway, 2 tokens, 1 reply variant, replies redirected once | the dialogue ends |
| | `log` | flush at 2 lines, 3 header lines | `Close` returns |
| | `probe` | up to 3 candidates | the probe answers and leaves no goroutine |

### Bounds

Why the bounds are enough for the cases the properties are about. Two connections
give a handler that holds the lock and one that waits, with the exit watchers as
further actors. Two tokens give a lease and its successor, so that a late renew or
undrain meets a foreign lease. Two handles over two pids let a pid be freed, given
to another program, and used again. TTL 2 separates a fresh lease, an ageing one
and an expired one; TTL 1 suffices where only the expiry matters. Two operators are
an installer and its competitor; the constraint `Crowd` lets the second begin
only when no legacy service is loaded, which saves time (without it the run has 3.7
million states and passes as well). Two sessions are the one recorded and the one that
replaces it; three pids are a sing-box, a sidecar and a stranger. The bounds are the
sizes of these sets: tokens, handles and session identifiers are drawn once each,
which is what bounds a behaviour.

In the other modules: two commands, profiles or uninstalls are one and its
competitor; four lines hold a block, an address, a header that ends it and one more;
nine bytes hold three lines with blank and unfinished ones, above a bound of three lines
and of five bytes; three candidates are a fast, a slow and a failing one; six
inodes are a daemon killed twice, its successors and two replacements; two
coroutines are a start and the stop that crosses it, and once the stop has ended a
second start beside the first. The code follows four redirects of a reply (`MaxPosts`, 5
in the code): 3 lets one leave the target and come back to it or to the group's host,
and 2 suffices where only the end matters. `OneCaptures` lets one of two dump sessions have captures,
whichever; those of two sessions have nothing in common. `FewFailing` lets one file fail at
a time, which is enough to end an iteration before any later file. `OwnCookies` lets no
server set a cookie in `progress`, where no step depends on one. `OneTrouble`, in the part
`resolver`: the default route comes and goes only beside programs that take over resolver
files, where there is no `search.tailscale`; where file operations fail there is no
reconnect, and either resolver files fail or there is a `search.tailscale`. The theorem
`ResolverIsCorrect` has none of these bounds. `MaxClock`, `MaxVersion`, `MaxRuns`, `MaxReconnect`,
`MaxCount`, `MaxSessions`, `MaxPending` bound counters in guards.

Three passing properties hold for a restricted instance only: `MirrorFaithful` where the
mirrored files have different base names, `TailKept` where only `Close` flushes, and
`VpnNamesOnVpn` for one session. Others except by name what the code gives up: a
resolver file whose write or removal failed, an openconnect the scan cannot recognise, a
snapshot whose write failed (`missed`), a capture whose stop failed. The list below says
what happens in each case.

A run has as properties whole claims about a component (`AuthCorrect`, `DumpCorrect` and
so on). Each is a conjunction of properties of the component's module, and the comment on
each conjunct there says what it claims; the mutants of `PROJECT.json` break the
conjuncts one by one, several for one claim.

Symmetry is used only in runs without liveness properties and where the set's
elements are interchangeable. Every `View` leaves out values no step reads any more, and
no property of its run depends on them. In `MCVlessSession`: `cmd` and `cur` once Start
goes on without them, and the `info` of a session that neither the record nor a command
names. In `MCOpenConnectSession`: the same for `cmd`, `cur` and `mine`, how a command
ended, the wrapper and the fate of a session that has ended for good, and whether a
wrapper has applied its files once no start waits for it. `Bound` there lets one attempt
be lost track of. In the runs of several
parts: the parts that do not move; what a daemon of cisco-dump that has exited and is
named nowhere has left; the host-scan loop once the auth-replies have begun; in the
wrapper the routes of the tunnel; which of two commands of ssh-proxy does what, and with
two at once the histories that only `profiles` is about; an audit that has ended, but for its report and what that
is compared with; on Android the screen of a service that is destroyed, the phases its
button does not tell apart, the history variable, and which of two coroutines does what.
`progress` uses neither.

Deadlock is checked in every run but `clients`, `files`, `progress` and
`android_disconnect`, where some part comes to its end: a list, an output or a log that
has reached its bound, an uninstall, an audit, a probe, a wrapper whose sessions are
over, a socket after its last inode, an Android service that is destroyed.

### Fairness

`daemon_live`: strong fairness for the steps that wait for the mutation lock or the
registry's lock, because a Go mutex in starvation mode hands itself to the longest
waiter; weak fairness for reaping (`Wait` returns after an exit), for launchd's
restart (`KeepAlive`) and for time. Crashes and exits are not fair. A handler that
waits for its client is covered by the connection's deadline, which the model takes
as the end of the request (`AbandonRequest`).

`progress`, part by part. `install`: weak fairness for each operator's steps, which is
one process that runs on, and for answering or timing out the pending calls,
because every call has a deadline. `sshproxy`: weak fairness for the steps of a
command, whose waits have deadlines; ssh and interrupts are not fair. `dump`: weak
fairness for the steps of the daemon. Its stops of the captures have deadlines; the `ps`,
`lsof`, `netstat` and `scutil` of a look, the last one after `ctx.Done` included
(`ciscodump/runtime.go` 333, 829, 1410), have none. That they return is an assumption
about the host, and without it neither the daemon's end nor the mirror is certain.
`mirror`: weak fairness for the daemon's iteration, with the same assumption. `auth`: weak
fairness of the one process, whose requests, `vpn-auth`, `csd-post.sh` and openconnect
have time limits; the commands that describe the client before the first request
(`openconnect/runtime.go` 2839) have none and are assumed to return. `log`: strong
fairness for the end of the flush loop, whose select is offered the closed channel again
and again and Go chooses among ready cases at random; weak fairness for `Close` and for
appends under way. `probe`: weak fairness for the probe, for every goroutine (a dial has
a timeout) and for the deadline.

On Android `NeverStuck` takes the place of a liveness property: a coroutine is a
straight line of calls, so a service that has one in Connecting and in Disconnecting
leaves these phases when the coroutine ends.

### Findings

1. `openconnect_stop`: a stop of a live session takes no lock and, once the process
   is gone, calls `ClearCurrent` whatever is recorded by then. A start that has
   connected meanwhile loses its record, although `README.md` says of stop that it
   preserves a session that became live.
2. `android_disconnect`: a disconnect during Connecting ends before the start does,
   and the service ends Connected.

`PROJECT.json` quotes for each the line it disagrees with.

### What the code does not keep

Further statements of documents, comments or error messages are at the end of the
modules, stated as definitions that TLC refutes when they are given to it as the
property of a small instance of the module. They belong to no run of the project.

| Module | Definition | What happens |
|---|---|---|
| `MaintenanceInstall` | `BootoutSparesTunnels`, 3 operators | an uninstall with `--allow-disruption` has booted the service out; an install with it bootstraps the service again; a third operator drains and renews there; then the first removes the runtime directory, and with it the lease file of the third. The daemon restarts without the lease, a tunnel starts, and the bootout of the third ends it although its renewal has not lapsed |
| `VlessSession` | `RunningRecordKept` | `runStartCommand` uses the result of `currentSessionState` only when there was no error, so a start goes on over a session of unknown liveness and its `SaveCurrent` replaces the record of a sing-box that may be running |
| | `ExitDuringStartupSeen` | in direct and sudo mode, and for sidecars, a child that exits at once is a zombie, for which `kill(pid, 0)` succeeds, so the wait reports a successful start |
| `OpenConnectSession` | `ReusedPidSpared` | `recordProcessIdentity` does not require the process to be openconnect; a program that has got its pid passes every later comparison and is signalled. `SignalsVerified` shows that this is the only way, besides a record without identity that matches any openconnect |
| | `UntrackedRefused` | a start is killed after its launch and leaves an openconnect that no record names. Its authentication had been redirected, so the last argument is another host than the selected server's (`runtime.go` 3555, 3586); the scan compares hosts (3754-3771), does not find it, and the next start launches a second one |
| `AggregateAuth` | `OneCookieOfBody` | a redirect to a third host sends the reply there without the cookie; and an sdesktop cookie of a longer path, imported from the browser, is not replaced by the one of path `/` and is sent before it, although the test of `storeSAMLHostScanCookie` (`runtime_test.go` 1683-1716) expects that the first sdesktop cookie is the new token |
| `SshProxySession` | `ReadyMeansOurs` | the readiness probe is satisfied by any listener, and the ssh that has failed is a zombie that counts as alive |
| | `StrangersSpared` | stop signals whatever process has the recorded pid |
| | `SecondStartHarmless` | start takes no lock; the loser of the port replaces the record of the winner |
| `CiscoDump` | `StartHonest` | the daemon is spawned before the record it reads is written; when it is fast it exits, and start reports an active session |
| | `StopEndsCaptures` | a stop that comes before the daemon handles signals reports success and leaves tcpdump running |
| `DumpMonitor` | `NoIdleSnapshots` | the socket digest contains the elapsed time of processes, so a snapshot is written in every iteration |
| `LogMirror` | `EachMirrored` | an error other than a missing file ends the iteration (`runtime.go` 1459-1472), so that one file that cannot be read keeps all later ones out of the mirror for ever, although `README.md` (281) promises the mirrored Cisco logs under each session directory |
| | `MirrorFaithful`, 2 files of one base name | they overwrite each other in the mirror |
| `VpncWrapper` | `ShimsInPlace` | `mktemp` or `mv` fails for a shim file, after the log line and without an error of the hook; the start reports itself connected |
| | `StopLeavesNothing` | `rm` of a bypass file fails in the disconnect hook; the stop looks at the shim files only and reports success |
| | `BypassPublic` | without captured public name servers the bypass suffixes resolve at the VPN |
| | `VpnNamesOnVpn`, 2 sessions | the disconnect hook of a killed session removes the resolver files of the next one, because the marker names no session |
| | `SearchPreserved` | a reconnect restores an old copy of `search.tailscale` over what its owner has written since |
| | `StoppedClean`, every VPN domain under a bypass suffix | the stop looks only at the shim files, of which there are none, and reports success while the bypass files of a killed session are left. Otherwise a bypass file never stands without the shim files, which is what the proof rests on |
| | `StopIgnoresForeignFiles` | a resolver file of another program makes stop fail as if its clean-up were pending |
| `SessionLog` | `OutputVisible`, bounded | the first bounded append takes the log away from the daemon, whose output is no longer in it |
| | `TailKept`, flush at 2 lines | a flush that is overtaken puts older lines behind newer ones |
| `VlessConfig` | `ExplicitEmptyKept` | set-current drops explicit empty lists and `max_lines` 0 |
| | `DefaultKept` | set-current writes what it resolved for one profile into the `default` object of the file |
| `Subscription` | `FallbackServes` | a refresh that is saving makes a start whose fetch fails transiently fail, although the cache is there for it |
| `ProfileResolution` | `FastestSuccessful` | at the deadline the probe may drop a result that is already in its channel |
| `SocketPublication` | `RemovesItsOwn` | a replacement between the look at the published socket and its removal is removed |
| `AndroidTunnel` | `DisconnectEndsEngines` | a sing-box whose start opened no tun interface is not stopped, and survives the disconnect of an Xray session |
| | `StoppableWhenUp` | a connect request that fails late shows Error over a running tunnel, and the button no longer disconnects |
| | `DestroyClosesTun` | a start under way on an IO thread outlives the service and opens its tun interface |

## 5. Proofs

Eight modules hold proofs. `VpnCoreDaemonProofs` holds for any sets of connections,
tokens, handles and pids and any lease time. It rests on the two assumptions
named in `VpnCoreDaemon`, `NoneAssumption` (`None` is none of the others) and
`TTLAssumption` (`TTL` is a positive number), and on no other.

None of the properties is inductive alone. `DrainExcludesWork`, for example, needs to
know that a handler between its admission and its end holds the lock (`LockInv`), that
while a drain is being written there are no children (`IdleInv`), and that file and
memory agree except between two named steps (`FileInv`). The invariant is

    IInv == TypeOK, LockInv, DownInv, TokenInv, FileInv, EndedInv, ChildInv,
            IdleInv, WorkInv, LeaseHonoured, HandleNamesItsChild, NoLostChild

- `LockInv`: who holds the mutation lock, and that one handler does;
- `DownInv`: a stopped daemon has no handlers, children or memory;
- `TokenInv`: what is in force or pending was drawn;
- `FileInv`, `EndedInv`: agreement of file and memory, and that ended tokens are in
  neither with time left;
- `ChildInv`: registry, watchers and process table agree;
- `IdleInv`, `WorkInv`: a live lease meets neither children nor work.

There is one lemma per conjunct (`TypeStep`, `LockStep`, ..., `LostStep`), each with a
case per action; `Inductive` combines them, `InvariantHolds` is the temporal step.
From it follow `TypeCorrect`, `DrainExclusion`, `LeaseSurvives`, `NoRevival`,
`SignalReachesItsChild`, `ChildrenAccountedFor` and the action property
`OwnershipKept`. The last part shows with the same invariant that every
step of the daemon is a step of `MaintenanceLease` or a stutter (`MappedStep`, from
`WritingIsIdle`, `WorkBeginsAtAdmit`, `LeaseKept`, `DropPending` and
`SettledWhilePersisting`), hence `DaemonImplementsLease`.

In the other seven modules there is one lemma per conjunct of the invariant and under
it one case per action or group of actions; lemmas named `...Moves` say first what a step
does to one variable. The inductive invariants of OpenConnectSession, MaintenanceInstall,
VlessSession, VpncWrapper and InterfaceAudit, and AndroidTunnel's for a patient user, were
checked with TLC before they were proved: in every state that an instance like that of
the runs reaches, except the parts of VlessSession's that hold for one command only, which were
checked to depth 31.

### OpenConnectSessionProofs

For any number of commands, sessions, pids and kinds of other programs, from
`OpenConnectAssumption` (`None` is none of the others).

    IInv == TypeOK, LockInv, AttemptInv, RecordInv, ClearInv,
            OnePerServer, NothingUntracked, SignalsVerified

`OnePerServer` needs that a start at its launch has seen every other openconnect but
those of `Unseen`, the adrift ones and the lost ones on another host (`CommandInv`), and that the record is empty while it holds the lock (`ClearInv`);
`NothingUntracked` that whatever clears a record has seen its process gone (`ClearInv`),
which in turn needs that a recorded openconnect runs under the recorded pid or not at all
(`RecordInv`). Theorems: `TypeCorrect`, `OneOpenConnect`, `EveryOpenConnectTracked`,
`StopReportsHonestly`, `SignalsAreVerified` and the action property `CleanupIsSafe`, that
is, all properties of the run `openconnect`.

### VlessSessionProofs

For any sets of sessions and pids, any launch modes and engines, from
`SessionAssumption` (among others: `"corrupt"`, the record that cannot be read, is no
session).

    IInv    == TypeOK, ProcInv, StartInv, RecordInv, StopInv, StartupSignalsItsOwn
    SoloInv == SoloRecord, SoloUndo, SoloServers, SoloSide, NothingLost, DnsRestorable

`IInv` holds with any number of commands: a process of a session is where its metadata
says (`ProcInv`), a start owns its session (`StartInv`), what is recorded is no longer
started by anyone and names sing-box (`RecordInv`), and how far a stop has come says what
is gone (`StopInv`). From it follow `TypeCorrect`, `StopReportsHonestly` and
`FailedStartSignalsItsOwn`.

`RunningSessionIsFound`, `DnsIsRestorable` and `SidecarIsFresh` are stated under
`OneCommand` (`Client` has at most one element), as in the run `vless`: commands follow
each other, and each may fail or be killed anywhere. They are false of two commands at
once, since no lock keeps a second start from replacing the record of the first. `SoloInv`
adds that a start never finds the record of a session that is not given up, that
what a failed start leaves is undone or lost, and that the servers of the proxy are
restored before the record goes.

### MaintenanceInstallProofs

For any number of operators, legacy services and tokens and any lease time, from
`InstallAssumption`. The constraint of the run `install`, which lets only one operator
act beside a legacy service, is not needed.

    IInv == TypeOK, ExclusionInv, TokenInv, CallInv, FlowInv, MineInv, StaleInv, WarnInv

The hard part is requests that are served after their sender has given up: `CallInv`
says that a request that is still waited for is the only one of its sender, `StaleInv` that
an abandoned renewal or release with a token of an operator can only meet that operator
where it does no harm. `MineInv` says that an installer knows its token, `WarnInv` what
it will say about it. Theorems: `TypeCorrect`, `ReportsAreHonest` and `PrimaryIsALease`,
the refinement of `MaintenanceLease` with `Holder` and `Spent`.

`BootoutSparesTunnels` needs that the lease in force is the renewed one and lasts
as long (`CoverInv`), which the daemon keeps over a restart only if the runtime directory
has its file. It is proved twice: for any number of operators in behaviours in which no
uninstall removes a runtime directory (`BootoutSparesTunnelsIfKept`), and for at most
two operators without that condition (`BootoutSparesTunnelsOfTwo`, with `PairInv`: an
uninstall that removes the directory has booted the service out, and the only other
operator has either loaded it again, past its own bootout, or has ended). With three
operators it is false; see "What the code does not keep".

### SystemFilesProofs

The components of `SystemFilesProofs`, `VlessClientsProofs` and `AnyConnectProofs` state
what they need of their constants as definitions (`MaxInodesAssumption`,
`RemovalAssumption`, `WrapperAssumption`, `AndroidAssumption`, `SshProxyAssumption` and
others), which the modules of the runs assume of their instances; TLC evaluates them in
every run. The theorems are about the properties of the runs themselves, so each holds for
the part of the run at every size of its sets.

- `SocketIsCorrect`, for any number of daemon lives, kills and replacements.
  `SocketOwnInv` says what the daemon knows of the two paths between its calls; nobody
  else touches the private one.
- `RemovalIsCorrect`, for any number of uninstalls and entries. An entry is in one place
  (`PlaceInv`), what was removed is in none and was removed once (`GoneInv`), which needs
  that inodes are new (`FreshInv`); `CommandInv` says what a command has inspected, moved
  and removed.
- `ResolverIsCorrect`, for one session with any number of reconnects, any domains and
  bypass suffixes, any other programs, and any commands on files that fail. Its hypothesis `SomethingToAwait` asks for a VPN
  domain outside the bypass suffixes if there are any; without it `StoppedClean` is false
  (see "What the code does not keep"). `HookInv` and `GoInv` tie hook, openconnect and the
  command together, `WarmInv` bounds the warm-ups; `UpInv` says that what was read in the
  log still holds of the files while the session is up, but for those the hook failed to
  write, `CleanInv` that a bypass file never
  stands without the shim files unless a hook failed on a file, and what a disconnect has
  removed at each step, `SearchInv` whose `search.tailscale` it is or that it was not
  sanitized. Lemmas about domain suffixes show that the longest match
  of a VPN name is its shim file.

- `AuditIsCorrect`, for any cache directories, interface names, sessions and other
  programs. In the world around the audit a session has one name and one place, and a
  record never names an interface its session did not have (`WorldInv`, with `Faithful`):
  while the session of a stale record lives, the name is still its own. `ReadInv` says that
  the audit has seen every name with a live session and that the record in hand is still
  the one of its place, `StableInv` that a session that has run all the time has a listed
  interface, `DoneInv` that a place the audit is through with is claimed or has an issue.

### VlessClientsProofs, AndroidTunnelProofs

- `CacheIsCorrect`, for any commands, servers, caches and versions. `CommandInv` says what
  a command knows at each of its steps, `VersionInv` that nothing is newer than what the
  provider serves and nothing fetched older than what it served when the command began.
- `ConfigIsCorrect`, for any servers, profiles and settings, under `NoneIsNoRecord`
  (`None` is not one of the records of the file). The properties of this part are about
  what one command resolves or writes, so most of the proof is lemmas about the
  resolution; the invariant (`RunOk`, `SetOk`) carries them over the steps.
- `AndroidIsCorrect`, for any number of coroutines, command servers and requests in all
  three instances of the run. It is the two theorems of `AndroidTunnelProofs`:
  `ServicePublishes` (`TunPublished`, `NeverStuck`), with crossing starts, stops and
  revocations, and for a user who waits, without another VPN application, `ConnectedIsUp`,
  with `SoloInv` (one thing is under way) and `StartInv` (what a start has achieved before
  each of its calls).

### AnyConnectProofs

- `AuthIsCorrect`, for any servers, fallbacks, tokens and number of reply variants.
  `GroupInv` ties the server that was selected to the one that answered, `ChallengeInv`
  follows the challenge of the latest answer through the host-scan loop, the browser and
  the late scan, `LoopInv` bounds the loops, `DirsInv` keeps account of the directories.
  `SentInv` says that from the reply on its target and the group's host have its token as
  their cookie unless they have replaced it, which is what a redirect back to them meets.
- `DumpIsCorrect`, for any sessions, processes, sockets and log files, under
  `DistinctBases` (no two mirrored files have the same base name; otherwise the mirror is
  not faithful, see above). `RecordedInv`, `DumpCommandInv`, `CaptureInv`, `MetadataInv`,
  `KnownInv` and `DerivedInv` are about the commands and the daemon, `FollowInv` about
  the monitor, `MirrorInv` about the mirror. With writes that fail, `MetadataInv` has to
  say that the metadata, where it is not torn, never counts more than the daemon's own
  counter, and that a daemon before its first look has counted nothing; with copies that
  fail, `MirrorInv` says that the file being copied is one whose stamp is not current, so
  that an emptied copy is never vouched for.
- `SshProxyIsCorrect`, for any commands, profiles, sessions and pids. With any number of
  commands a stop is honest: a pid has one holder (`HolderInv`), a record names the pid of
  an ssh that was started (`LinkInv`), so a stop that has seen its pid free has seen its
  ssh end, and an ssh that has ended does not come back. `NothingUntracked` and
  `DropsEnded` hold of one command at a time, with `SoloInv`: the record that a command
  has loaded is still there, and a start past its check has none to overwrite. Two
  commands can break both (`SecondStartHarmless`).

### Only model-checked

- Liveness under fairness (`EveryRequestEnds`, `DrainExpires`, `EverythingEnds`), which is
  outside what the proof system does.
- `TextCorrect`: its parts `parse` and `tail` compare recursive functions and folds over
  sequences with a definition by position, and what such a function returns for every
  input needs induction over data. `SessionLog`, its other part, cuts its log with the same
  functions.
- `ChoiceCorrect`: what the selection returns for every list of profiles is induction
  over that list.

## 6. Assumptions and what is left out

- The wall clock is not set back or forward; a lease file, once written, is intact
  and readable at the next start; random tokens and handles do not repeat.
- launchd restarts a loaded daemon. Legacy daemons answer like the primary one but
  know no maintenance lease and keep their own runtime directory.
- Contents of requests (package verification, arguments, hashes, file modes) are
  reduced to whether the request is accepted.
- `VlessSession`: SIGKILL takes effect, SIGTERM may be ignored, either may be
  refused. Left out are records of launchd sessions that earlier versions wrote, the
  search for a forked sidecar, the one-second tolerance of identities, several cache
  directories, and two sessions that start in the same second and share an
  identifier.
- `OpenConnectSession`: one selected server, whose host is the last argument of the
  openconnect processes started for it, unless their authentication ended elsewhere;
  all sessions have split-DNS domains, so convergence is
  awaited and their resolver files have the same names. The identity check and the
  signal that follows it are one step. Attempt pid files are not state: only the
  command that made one reads it, and what it finds is the outcome of `Launch`.
  A clean-up script does not outlive its command. Left out are dry runs, records
  without a pid that earlier versions wrote, the routes and the search resolver that
  the wrapper changes, and platforms other than macOS, where identities are unknown.
- `VpncWrapper`: a shell function is one step; routes are
  reduced to the default route, the one to the gateway and three kinds through the
  tunnel, and the deletion of the route to the gateway succeeds; what the hook prints
  reaches its log, also on a full disk; `UseScutilState` is never set by the code, so its
  functions are left out.
- `AggregateAuth`: documents are reduced to what the client reads from them; the
  server's tokens are drawn from a small set and may repeat. Of the cookies only sdesktop
  is followed; a server sets its own host's.
- `SshProxySession`: one port; the fields of a server that no decision depends on are
  left out. `CiscoDump`: session identifiers, timestamps to the second, are unique. A
  `current-session.json` that a failed or interrupted write has torn makes every later
  start and stop fail, and no command removes it; the model has this end, and no property
  says that one gets out of it.
- `DumpMonitor`, `LogMirror`: file contents are versions; sizes and times tell
  every two versions apart.
- `SessionLog`: a line is written whole by one write; the daemon's writer is the only
  holder of its descriptor.
- `RuntimeRemoval`, `SocketPublication`: device and inode numbers are not reused within a
  behaviour; launchd runs one process of the service at a time.
- `VlessConfig`: `routes` stands for every setting that the more specific scope
  replaces; `--transport` acts like `--selector` and is left out, and so are the
  validation of single fields, paths and the legacy render options.
- `Subscription`: `os.WriteFile` is a truncation and a write, and two writes over each
  other leave a damaged file. `ProfileResolution`: text is reduced to how a selector
  fits and whether a match accepts a profile.
- `AndroidTunnel`: libbox, libXray and Android are modelled from how the code uses them
  (the header of the module says what is taken from them); `closeService` and
  `stopXray` take effect; `openTun` is one step; one instance of the service is followed.
  Left out are the network monitor, the DNS transport, `serviceReload` and
  `serviceStop`.

### Not modelled

- Records of launchd sessions, which only earlier versions of vless-tun wrote.
- Process identity: reading it is one system call and comparing it a formula; the
  session modules take its outcome, with "unknown", as given.
- The client's package verification (ownership, modes, ACLs, hashes) and the vpn-core
  command line: sequential checks without state.
- Renderers, status reports, diagnostics, argument parsing, the keychain, the screens and
  the catalog editor of the Android app: data and layout.
- The Android release tool, the setup scripts and the authentication window: a
  sequential upload script, sequential installation scripts, and a web view that
  openconnect sees as one answer.
