# VPS Panel: a TLA+ model

VPS Panel is a Go server (the *Panel*, `src/panel/cmd/panel`, SQLite through one
connection) that configures any number of VPS machines through an *Agent*
(`src/panel/cmd/agent`) on each.  These modules model the parts of it whose
correctness depends on interleavings, failures, restarts and long sequences of
requests, check them with TLC on small instances, and prove the safety properties
for every instance with TLAPS.

## 1. Inventory

| Part | State | Operations | Talks to | What is hard | What makes it correct | Module |
|---|---|---|---|---|---|---|
| Desired-state sync (`agentcontrol/config.go`, `result.go`, `cmd/agent/config_sync.go`) | `desired_state_version`, `applied_config_version`, `config_sync_status`; the Agent's `lastSuccessfulVersion` (memory) and its services | resource changes, fetch (which may itself reconcile and bump), apply, report, two-transaction result handler | HTTP polling, WebSocket notifications | stale and lost reports, a replaced Agent, restarts of either side, equal numbers taken for equal configurations | a skipped fetch is current; the acknowledged version was applied; convergence | `ConfigSync`, `SyncContract` |
| Operation ledger (`operation/operation.go`) | status per version | RecordTx, MarkSentTx, RecordReceiptTx | called inside the transactions above | receipts out of order | one open operation; final statuses are final | `ConfigSync` |
| Enrollment, registration (`agentcontrol/enrollment.go`, `registration.go`) | one enrollment and one Agent row per Server | rotate, register, expire | closes connections | token used while the Server is being removed | decommissioning keeps its Agent | `ConfigSync`, `AgentConnection` |
| Server lifecycle (`server/lifecycle.go`) | `archived_at`, `decommission_status` | PATCH, decommission, finalise, force archive, delete | sync, connections, plans, relays of other Servers | check and update in different transactions | archived only after a purge; uninstalled means archived | `ConfigSync`, `Entitlements` |
| Connections, status (`agentcontrol/connection.go`, `status.go`, `api/agent_connection.go`) | `connections` map, handler goroutines, `servers.status` | connect, track, replace, close, disconnect, restart | diagnostics, enrollment | two handlers of one Server at once | online means connected; a revoked Agent's connection ends | `AgentConnection` |
| Diagnostics (`agentcontrol/diagnostics.go`) | `pendingDiagnostics` per connection, channels of capacity 1 | register, send, resolve, fail, time out | connections | a second answer would block under a lock | one answer per request, none stranded | `AgentConnection` |
| Backup, restore (`backup`, `api/backup.go`, `cmd/panel/main.go`) | files in the data and restore directories | export, import, apply at start, commit, rollback | the whole database; indirectly every Agent | a crash or I/O error at any file operation | no content is lost; key fits database; the Panel serves again | `Restore` |
| Managed services (`cmd/agent/xray.go`, `realm.go`, `acme.go`, `china_firewall.go`, `self_uninstall.go`) | files, units, certificates on the VPS | candidate, validate, replace, roll back, disable, purge, uninstall | systemd, sync | failure or crash half way | a report is true; a failed application keeps the old service; archived means clean | `ManagedRuntime` |
| Firewalls (`cmd/agent/firewall.go`) | rules in ufw, firewalld, nftables, iptables | reconcile, purge, one command at a time | the administrator's own rules | numbers that move, a backend that changes | exactly the wanted ports, foreign rules untouched | `HostFirewall` |
| Agent upgrade (`agentcontrol/upgrade.go`, `cmd/agent/upgrade.go`) | upgrade status and target, binary on disk | request, replace, confirm, fail | connections | restart in the middle | confirmed by the target version; undone when it fails | `AgentUpgrade` |
| Proxies, clients, relays, landings, listeners (`proxy`, `relay`, `landing`, `listener`) | rows across Servers, ports | create, change, move, assign, delete | sync of other Servers | handlers of several transactions; address of a target changes | ports are unique; dependants are told; a user's relays go with the client | `Topology` |
| Subscriptions (`subscription/plan.go`, `subscriber.go`, `usage.go`, `published_node.go`) | plans, nodes, profiles, charges | grant, change, reconcile, reset, end of a Server | proxies, sync | reconciliation from many entry points | clients follow the plan; charges resolve; usage is kept | `Entitlements` |
| Personal subscriptions (`subscription/personal.go`) | groups, nodes, bindings | edit, delete sources | proxies, relays, landings | read and write in different transactions | no dead references | `PersonalSubscription` |
| Client traffic (`proxy/traffic.go`, `subscription/usage.go`, `cmd/agent/client_traffic.go`) | cumulative counters per client | report, reset, charge, quota | Xray, sync | counters restart, reports are lost or late, fractions | charged once and exactly; switched off at the quota | `ClientTraffic` |
| Cycles, renewal (`proxy/traffic.go`, `server/traffic.go`, `server/renewal.go`, `subscription/usage.go`) | calendar dates | find the cycle, renew | the clock | month ends, leap years, downtime | the cycle is the current one; renewals do not drift | `Calendar`, `ResetCycles`, `Renewal`, `RenewalCycles` |
| Accounts (`auth`, `api/auth.go`, `mail`) | users, sessions, invitations, one-time tokens, requests | sign in, invite, verify, reset, review, delete | mail | a password replaced while something made under the old one is open | old credentials are dead | `Accounts` |
| Limiters (`api/login_limiter.go`) | counts per address and name | ask, count | sign-in, mail | check, then count, without the lock in between; full tables | limits hold up to the sign-ins under way | `LoginLimiter` |
| Notifications (`notification`) | state per Server, queue, marks | sweep, deliver, retry, restart | Telegram | delivery is recorded long after the state has moved on | every notice is due, none is repeated, recoveries are announced | `Notifications` |
| Probes (`monitor`, `agentcontrol/probe.go`, `cmd/agent/probe.go`) | assignments, task list version per connection | push, result | connections | stale results | a result belongs to the current list | - |
| Schema, database health, list order, audit, web, scripts | schema; order numbers; log | migrate; reorder | | | | - |

`PROJECT.json` lists every part with its status, and every hazard at its line
with the properties that are about it.

## 2. Modules

The Panel's database pool has one connection (`database.go`), so in every module
a transaction is one action.  A handler that needs several is several actions,
with a variable that holds what it has read and still has to do.

### ConfigSync, SyncContract

`ConfigSync` is one Server: its row and the rows it owns, the handlers inside
the Panel, and one Agent process per identity that ever registered.

| Variables | Code |
|---|---|
| `srv`, `desired`, `config`, `decom` | the row in `servers`; `config` stands for all rows the desired state is computed from |
| `agentId`, `applied`, `sync`, `lastAgentId`, `token` | the rows in `agents` and `agent_enrollments` |
| `ops` | `configuration_operations`, status per version |
| `due` | a client has expired or used up its quota; `GetDesiredState` reconciles it |
| `patch`, `failing`, `reqs` | handlers between two transactions |
| `pc`, `fetched`, `outcome`, `last`, `runtime`, `req` | `configSynchronizer.sync` and the services of the VPS |
| `done` | history: versions an Agent applied |

Each action is named for the function it translates.  Two kinds of changes are
kept apart: those that record an operation (`MutateConfig`) and those that only
bump the version (`MutateUnrecorded`).  `archiveServer` may or may not clear
`due`, because the rows that become due can be other users'.  `Room` keeps a
version in reserve for a reconciliation that is due, because a fetch must be
able to bump.

`SyncContract` is what the whole promises: versions are published, the
registered Agent runs some of them, and only versions it has run are
acknowledged, never going back.  `ConfigSync` implements it under
`version <- desired`, `acked <- applied`, `ran <- done[agentId]`.

What the configuration consists of, and which requests change it, is in
`Topology`, `Entitlements` and `ClientTraffic`: each of them keeps what a Server
was last told (`shipped`, `told`, `desired`) and states that it is what the
tables say.  That is what `ConfigSync` assumes of every change: the version moves
with the content.  What happens between fetch and report is in `ManagedRuntime`.

### AgentConnection

The WebSocket handlers of one Server as processes (`hpc`), the registry
(`tracked`), the status column, the requests that rotate the enrollment or archive
the Server, each of which commits first and closes the connection afterwards
(`admin`, `closing`), and diagnostics requests (`dpc`, `pend`, `sending`, `sends`).
A critical section of `connectionsMu` and a transaction are one action each.
`SetAgentConnected` and `TrackConnection` are two, as in the code, and no lock
keeps the requests apart: any number of them may have committed and not closed
anything yet.  A new token is handed out with the answer, after the closing
(`FinishClosing`), unless another rotation has replaced it.  `adrift` is history:
it marks the two ways in which a status is left behind.

### Restore

The data directory, the restore directory, the rollback copy and its temporary
form are functions from file names to contents.  Each phase of a start is a list
of file operations (`SaveOps`, `ReplaceOps`, `RollbackOps`, ...) taken in the
order of the code; `Step` does one, `StepFails` fails one and goes where the
code's error path goes, and `Crash` stops the process before, after or inside
one (a copy may be partial, a directory half removed).  The database is a file
with a write-ahead log that only makes sense on its own base; its content is an
identity and the mail key that decrypts its password.  The `-shm` file, the ZIP
format and the checksums' arithmetic are left out: a staged file is valid when it
is the one the marker names.

### ManagedRuntime, HostFirewall

`ManagedRuntime` is what the Agent does to its VPS.  Each procedure of the code is
a program, the sequence of its operations in the order of the source (`XrayApply`,
`Exchange`, `RealmRollback`, `XrayPurge`, `Uninstall`, ...); `Step` does the next one, `StepFails` fails it and goes
where the error path goes, `Crash` ends the Agent between two operations and
`Reboot` everything on the VPS.  A service is its files, unit, process and firewall
rules; a configuration is a port, a credential and whether it needs a
certificate.  Xray and Realm have programs of their own, as in the code.  The sync
that drives the managers, its memory of what was applied, the report, the
preparation, activation and helper of the self-uninstallation are in the same
module, because the order between them is the question.

`HostFirewall` is `firewall.go` alone, in the detail `ManagedRuntime` abstracts to
"the rules of a service": the four backends, the commands each reconciliation
consists of, and a backend that the administrator changes between two of them.
ufw is external: it numbers its rules, IPv4 before IPv6, and has both unless IPv6 is
switched off in its settings (`fwV6`).  The code does not look which it is, so
both are initial states, and every property and theorem is about both.
`fwFound` is history: what the run found when it began, a port open in one family
only (`half`) and additions that will move the numbers it is to delete (`moves`).

### AgentUpgrade

One Server.  Releases are numbers.  The Panel's side is the row of `agents`
(`agentVersion`, `target`, `status`), the handlers between `PrepareAgentUpgrade` and
`NotifyAgentUpgrade` (`handler`) and the connection (`joining`, `conn`).  The VPS is
the running release, the binary on disk, the channel of requests and the upgrades
under way (`upgrade`): the stages up to the launch belong to the Agent's process and
die with it, the later ones to the helper, which goes on through restarts and
ends only with its work or a reboot.  `ServiceManager` starts a service that is
down, but not while a helper is about to restart the old binary: the unit waits
three seconds (`RestartSec=3`), the helper does not wait.  `IsActive` is taken to
tell the truth.

### Topology

Two or more Servers with proxies, clients, relays, landing nodes and published
nodes, and the handlers that create, change, assign and delete them.  `request`
holds a running handler; `Abandon` ends it between two of its transactions.
`Reservations` are the rows the triggers on `server_listener_reservations` keep,
and `ListenerAvailable` is the check that comes before them.  `shipped` is what a Server was to run when
its version was last bumped.  Protocol settings, certificates and names are left
out; a port is a number, an address a value.

### Entitlements

Plans, published nodes, subscriber profiles and the state of the Servers, with
the clients the Panel keeps for every subscriber on every proxy of the plan.
Every operation is one transaction that ends with the subscribers reconciled
(`Reconcile`) and bumps of the Servers concerned, and is rolled back as a whole when one of those
is leaving.  `TimePasses` lets a profile expire or a cycle begin; `waiting` names the subscribers for
whom it has passed since the last reconciliation.  Servers not created by an
administrator are refused as not distributable (`ErrServerNotDistributable`) and
left out, as are the order of nodes and the link of a subscription.

### ClientTraffic

Xray's counters, the reports of the Agent and the rows of the Panel for some
clients of one Server: ordinary ones, with a quota of their own, and managed ones
of a subscriber, charged by the rate of the published node with a remainder
carried over.  Reports may be lost, rejected, and handled after later ones.  Uplink
and downlink are one counter.

### PersonalSubscription

Groups, their nodes and bindings, and the sources they refer to.  A reference is
no foreign key: the deletion of a source prunes, in its own transaction.  `edit`
is a handler between its reads and its write.  Rendering is left out.

### Accounts, LoginLimiter

`Accounts` is `internal/auth` with its handlers: accounts, invitations, sessions,
sign-ins in two steps, links by mail in three, requests for a new password and
their review.  A password is a number never chosen twice; user names and roles
are left out.  `LoginLimiter` is one limiter, with the sign-ins between asking and
counting; a limiter for mails asks and counts in one step.

### Notifications

The rows of `server_notification_state`, the marks in memory, the queue and the
worker, both sweeps, settings and test messages.  The chat is what Telegram took;
an answer may be lost after it was taken.  An outage is named by the sweep that
first missed the Server, and whether the grace period is over is left open.

### Calendar, ResetCycles, Renewal, RenewalCycles

`Calendar` is the part of Go's `time` the schedules use: days and months are
numbers, an instant is a half-day, `Date` and `AddMonths` carry over as `time.Date`
and `AddDate` do.  Everything is computed in one fixed zone, so zones are left
out.  `ResetCycles` holds the functions that find the
current cycle and the next reset (`currentClientCycleStart`, `nextClientResetAt`,
`trafficCycleStart`, `currentSubscriberCycleStart`, `nextSubscriberReset`) and a
definition of what they should return that searches the calendar.  `Renewal` is one Server's
expiration, period, `auto_renew` and anchor day, changed by PATCHes of any subset of
the fields and by the hourly `ApplyAutomaticRenewals`; an expiration is the last
second of a day (`parseServerExpiration`), so a day stands for it.  A day may pass
without a renewal: the Panel may be down.  The calendar has an end, so days go on until
`LastToday`, which leaves the longest period to renew into.  `RenewalCycles` puts both on one
calendar.

### The MC modules

`MCConfigSync` instantiates `ConfigSync`.  `MCRestarts`, `MCVps`, `MCPlans` and
`MCPanel` each put components side by side that have no variable in common.  A
variable `explored` chooses one of them in the initial state; the others stay as
they began, so the states add up instead of multiplying, and a property of one
component is checked over exactly its own behaviours.  `MCRestarts` explores the
connections twice, with two requests of administrators at once and with two
diagnoses at once.  `MCTopology` chooses one of
three starting points instead, each with the operations and the bounds its
question needs.  `RenewalCycles` and `HostFirewall` are run directly for two of the violations.

## 3. Runs

| Run | Instance | Shows |
|---|---|---|
| `rebind` | `ConfigSync`: 2 identities, 3 versions, 2 requests, 1 PATCH, 1 fault | acknowledgements are true of the registered Agent, skipped fetches are current, archiving follows a purge, one open operation, settled ones stay, decommissioning keeps credentials, `SyncContract` is implemented |
| `live` | `ConfigSync`: 1 identity, 3 versions, 2 faults, no PATCH | convergence, completion of a decommission |
| `patch_race` | `ConfigSync`: 1 PATCH, no fault | **violated**: the Agent uninstalls itself and its Server is never archived |
| `restarts` | `AgentConnection`: 2 handlers, 2 identities, 1 removal, 1 database error, 1 fault, and 2 requests of administrators at once (with 1 diagnosis or the removal) or 2 diagnoses at once (with 1 request); `Restore`: 2 imports, 2 writes, 2 crashes or failures, 1 directory that stays | online means connected, one answer per diagnosis and none stranded, revoked connections end; no content lost, key fits, the Panel serves again |
| `restore_stale` | `Restore`: 2 imports, one directory that cannot be removed | **violated**: a committed restore is undone by the next import |
| `vps` | `ManagedRuntime`: 5 desired states, 1 change, 2 faults; `HostFirewall`: 3 ports, 3 runs, 2 faults, ufw with IPv6 and without; `AgentUpgrade`: 2 upgrades on the VPS, 2 handlers, 3 releases, 3 requests, 2 failures, 1 loss | reports are true, failures keep the old service, the VPS is clean when the Server is archived, the Agent stays until then, the last desired state is applied in the end; wanted ports stay open and only they, the administrator's rules stay; a confirmed upgrade stays confirmed, failed ones are undone, requests are settled |
| `ufw_numbers` | `HostFirewall`: 2 ports, 2 runs, no fault | **violated**: success is reported with the old port open and a rule of the administrator deleted |
| `topology` | 2 Servers, 2 proxies, 3 clients, 2 relays, 1 landing node, 2 users, 2 ports, 2 handlers at once | listeners never collide, relaying Servers are told, a user's relays go with the client |
| `plans` | `Entitlements`: 1 subscriber, 1 plan, 3 nodes, 2 Servers of which one leaves; `ClientTraffic`: 1 client of each kind, 3 reported counters; `RenewalCycles`: 2027 and 2028, reset days 1, 15, 28 to 31, expirations on 31 January, 28 February, 30 March, periods 1 and 6, 2 updates | subscribers have, are charged by and are served what the plan says, usage is kept; traffic is charged once and exactly, quotas reach the Server; cycles are current, renewals keep their day and catch up by just enough |
| `lapsed` | `Entitlements`: 2 nodes on 2 Servers, one leaving | **violated**: an expired subscriber is served on |
| `subscriber_early` | the same calendar, no renewals | **violated**: a Subscriber's cycle begins in the future |
| `panel` | `PersonalSubscription`: 1 group, a proxy with a relay, 2 edits at once; `Accounts`: an administrator and a user, 2 addresses, 3 passwords, 3 links; `LoginLimiter`: 3 addresses, 2 names, 2 sign-ins at once; `Notifications`: 1 Server, 3 outages, 2 cycles, a queue of 2, 2 attempts | no dead references, old credentials are dead, limits hold, notices are due and not repeated, recoveries are announced |

Bounds.  Three versions are the least with an older, a current and a newer one;
two identities the least with a replaced Agent; two requests the least with a
late report beside a current one.  One fault per identity is enough for a
report to outlive its Agent; `live` has two, for a failed cleanup and a lost answer
in one behaviour.  Two handlers are the least with one leaving and one about to be
tracked, two requests of administrators the least with one that lets an Agent in
while the other has yet to close.  Two crashes in `Restore` are the least with a crash in the rollback of a
crash.  In `ManagedRuntime` one change gives an old and a new state out of five (a
new credential on the same port, another port with a certificate, disabled, no rows,
decommission), two faults the least with a failing rollback.  Two failures in
`AgentUpgrade` are the least with a failing rollback, three releases the least with
a Panel that moves on while an upgrade is under way.  Three runs of the firewall are
the least with an interrupted one, a change of backend and a purge, three ports the
least with a rule that moves into the place of another one.  In `Topology` two
handlers at once are the least that cross; each starting point has the rows that
matter there.  Two nodes that share a proxy are the least with an ambiguous rate,
two Servers the least with one that leaves.  Three counters are the least with a
late report between two others; rates 1/2 and 3/2 leave fractions.  The calendar
spans a common and a leap February and all lengths of month; two updates in
`Renewal` are the least that take a term away and give it back.  Three links are
the least that change an address while a link to reset the password is open (verify,
reset, verify); three addresses the least that fill a limiter's table of two.  Three passwords are
the least with a request made under the first and reviewed under the second; three
outages the least with a record of the first that comes during the second.

Deadlock is not checked: the bounds end every behaviour, a deleted Server does
nothing, and a component that is not explored does not move.  That the system
does not come to a stop where it should go on is what the liveness properties say.

### Exceptions in the passing properties

Each is a sequence the code really has.  Where a document speaks against it there
is a run or a paragraph under "Disagreements found"; here is why the property
still says something.

* `live` has no PATCH, because `patch_race` is a counterexample to its second
  property; `DecommissionCompletes` is stated of Servers without a PATCH.
* `OnlineMeansConnected`, `adrift`: a status the database refused to write is shown
  until it is next written; and a request that reaches `CloseConnections` late takes the
  connection of an Agent that registered meanwhile (item 6 below).  The property
  says that there is no third way, and that a write of the status ends both.
* `NoLostDatabase` exempts a rollback directory that could not be removed
  (`restore_stale`).
* `ServicesAsReported`, `FoundTorn`: the Agent is killed after `replaceFile` and
  before the restart of the service.  At the next sync the file is the wanted one
  and the process listens on its port, so success is reported while the old
  configuration runs, until the next restart.
* `ServicesSettle`, `Orphaned`: a kill during the first download leaves a file
  without its marker, which every later sync refuses as an unmanaged installation;
  an nftables table whose owner rule was not yet added is the same in
  `HostFirewall`, where the run ends in an error every time.
* `FailureKeepsService`: a rollback without a previous configuration leaves the
  firewall rules of the failed one, so the property is about services that ran.
* `FirewallAsReported`, `WantedStaysOpen` and `ForeignRulesStay`, `moves`: a run of ufw with
  IPv6 that adds a rule and deletes one deletes by numbers that are no longer true
  (`firewall.go:252`, `ufw_numbers`).  `half`: a port found open in one family is taken for
  open (`firewall.go:393`; item 7 below).  The properties say that
  runs that only add, only delete or have no IPv6 rule to delete are right, also
  after a run that was not, and that the administrator's IPv4 rules are safe even from it.
* `ArchivedLeavesNothing` is about the moment of archiving.  After it,
  `refreshChinaPrefixes` may still write the blocking table before the helper stops
  the Agent, and a helper or an activation that fails leaves the Agent's files on
  the VPS for good.
* `FailedUpgradeUndone` and `UpgradesSettle`: `upgradeInProgress` belongs to a connection,
  so after a reconnection two helpers may run at once, and then the older rollback
  copy may come last, or the restart of one may end the other together with its
  message.  A failure is reported once, so losses are exempted too.
* `RelaysFollowTargets`, `missed`: the bump of the relaying Servers is a transaction
  after the change (`api/agent_connection.go:118`), and is lost with the handler; and
  `updateProxy` decides whether one is needed by comparing with a row read before
  (`api/proxy.go:165`), so of two updates that cross, the second may find nothing
  changed.  A target on a Server that is archived meanwhile is the same.
* `RelaysStayWithHolder`, `late`: `createMyRelay` checks the assignment in a
  transaction of its own (`api/user_relay.go:117`).
* `SubscriptionsAreWhole`, `overtaken` and `crossed`: an edit that read the group
  before another wrote it may leave a temporary name `__vps_panel_tmp_<id>`
  (`personal.go:256`), a binding to a node that is gone, or a node whose source went
  in between.
* `TrafficIsChargedOnce`, `overtaken`: a report that is handled after a later one
  looks like a restart of Xray, lowers the baseline, and the difference is counted
  again (`proxy/traffic.go:141`; the Agent sends the next report without waiting,
  `cmd/agent/main.go:606`).  `PATCH` of a client's traffic settings writes back fields it
  read earlier (`api/client.go:210`).
* `OldCredentialsAreDead`: a sign-in whose password was checked before it was
  replaced still gets its session (`api/auth.go:79`); a password changed by its holder
  leaves a request for another one pending (`auth/user.go:221`).
* `RecoveryIsAnnounced`: `sweepOnline` queues its offline notices first, and `enqueue` drops
  what finds no place (`service.go:252`), so they may take the place of a recovery.
* `NoticesAreDue`: when Telegram's answer is lost, the notice is sent again
  (`notification/service.go:178`).  An outage whose event was dropped by a full queue
  or a restart may never be announced (`watcher.go:95`, `service.go:263`; `DEV.md:268`
  promises no delivery), nor may one that ends in a short reconnection.

### Fairness

`ConfigSync`: weak fairness of each Agent's sync and each handler.  The Agent
syncs on a ticker while connected and after every failed attempt to connect
(`main.go`), all its requests have deadlines, and `net/http` runs every handler it
accepted.  Failures are bounded, so fairness claims nothing about them.
`MCRestarts`: handlers run on; a connected Agent sends heartbeats on a
ticker; an Agent without a connection dials again; an HTTP handler finishes; the
service manager starts the Panel again and a start runs on.
`MCVps`: the Agent's loop and the helper of its removal run on, also after a crash,
since the unit has `Restart=on-failure`; in an upgrade handlers finish, a running Agent
connects again, the download has a deadline of two minutes (`main.go`), the helper is
a process of its own.  `MCPlans`, for `lapsed` only: every Agent fetches again and again.

### Disagreements found

Each violation run states what a document or comment says, and `PROJECT.json`
quotes it with the line (`findings`):

1. `patch_race`: a PATCH that passed its check before a decommission request commits
   after it and bumps the version.  The Agent's success report is then of an old
   version: it is answered 204, the Agent uninstalls itself, and the Server waits for ever.
2. `restore_stale`: the rollback copy of a committed restore, if it cannot be removed,
   is reapplied by the start after the next import.
3. `lapsed`: the reconciliation of an expired subscriber is one transaction over all
   Servers and fails while one of them is being decommissioned.
4. `subscriber_early`: a month before 30 March is, for `AddDate`, in March: on the last
   days of a month after a shorter one a Subscriber's usage is reset early.  For the
   same reason the next reset shown after 31 March is 31 May; `CyclesAreCurrent`
   is therefore limited to the days every month has where Subscribers are concerned.
5. `ufw_numbers`: with IPv6, which ufw enables by default, every IPv4 rule a run adds moves
   the IPv6 rules it is about to delete by number.  With `SSH, 1` in each family, a run that
   wants 2 in place of 1 adds 2 and deletes numbers 4 and 2: by then number 4 is the IPv6
   rule for SSH.  The run reports success, that rule is gone, and 1 is open to IPv6.
   `SuccessMeansReconciled` denies three outcomes and TLC shows these two; the third needs a
   third port: with `SSH, 3`, a run that wants 1 and 2 in place of 3 adds both and deletes
   number 4, which by then is the IPv4 rule of 2.  It reports success with a wanted port
   closed to IPv4.  Runs like these two, which find a port to open and an IPv6 rule to
   delete, are the ones `moves` exempts in `FirewallAsReported`, `WantedStaysOpen` and
   `ForeignRulesStay`.

Others have no run of their own:

6. A request commits, and closes the connections afterwards (`api/agent.go:162` and `:167`; no
   lock spans both).  If another rotation has let an Agent in by then, that Agent's
   connection is taken out of the registry, and its handler, which is not current any
   more, leaves the status online (`DEV.md:119`).  Without `adrift`, that is with
   `StatusFollowsConnection`, TLC finds this in `AgentConnection` with two rotations, one
   identity and no fault.  The reverse is there too: a new connection marks its Server
   online before it is tracked, so the handler of the broken one is still current and
   marks it offline afterwards (`api/agent_connection.go:50`, `DEV.md:99`).
7. A port whose rule of one ufw family was deleted by a run that then failed counts as
   open, so the next run does not open it again (`firewall.go:393`): the exception `half`.
8. After a restore, a version number comes back with another configuration; an
   Agent that had applied the first one skips the second (`DEV.md:76`).
9. A user's relay created while its client changes hands survives the change
   (`DEV.md:185`): the exception `late` above.

## 4. Proofs

Every theorem is for all values of the constants that satisfy the assumption of
its module, so for any number of versions, identities, rows, handlers, faults and
retries.  The assumptions are `ConstantsAssumption`, `ConnectionAssumption`,
`UpgradeAssumption`, `TopologyAssumption`, `TrafficAssumption`, `PersonalAssumption`,
`AccountsAssumption`, `LimiterAssumption`, `NotificationAssumption`, `EntitlementAssumption`,
`JobsAssumption`, `FwAssumption`, `RestoreAssumption`, `CalendarAssumption`, `ResetDaysAssumption`
and `RenewalAssumption`.  They say that bounds are naturals,
that a value that stands for "no row", "no file" or a torn file is none of the others, that ids
given out, proxies and ports are finite in number, and what the schema says: a proxy has one
Server, a client one proxy, a rate is positive.  `RestoreAssumption` adds that an archive was made by a
Panel: a database whose mail password is encrypted comes with the key that
encrypted it.  The archives the model itself exports satisfy this, which is part of the
proof.  `RenewalAssumption` has the six periods of the code, expirations in the first year of
the calendar, which may be any year, and a calendar as long as one wants that has room for
one period.  None of them restricts what can happen.

| Module | Theorem | States |
|---|---|---|
| `ConfigSyncProofs` | `TypeCorrect` | `Spec => []TypeOK` |
| | `NewerSettles`, `SettledStay` | the two properties of the ledger |
| | `DecommissionCredentials` | `Spec => []DecommissionKeepsCredentials` |
| | `AppliedTruthful` | `Spec => []AppliedWasApplied` |
| | `Refinement` | `Spec => Contract!Spec` |
| | `SkippingIsSound` | `Spec => []SkippedFetchIsCurrent` |
| | `ArchivingIsSafe` | `Spec => ArchivedAfterPurge` |
| `RestartsProofs` | `DiagnosticsAnsweredOnce` | `ConnectionSpec => []AnsweredOnce` |
| | `OnlineIsConnected` | `ConnectionSpec => []OnlineMeansConnected` |
| | `DatabaseIsNeverLost` | `RestoreSpec => NoLostDatabase` |
| `ManagedRuntimeProofs` | `AgentStaysWhole` | `RuntimeSpec => []AgentOutlivesItsDuty` |
| | `ReportsAreTrue` | `RuntimeSpec => []ServicesAsReported` |
| | `ArchivedIsClean` | `RuntimeSpec => ArchivedLeavesNothing` |
| `VpsProofs` | `ConnectedIsSettled` | `UpgradeSpec => []CurrentAgentIsSettled` |
| | `UpgradeNeverDowngrades` | `UpgradeSpec => []FailedUpgradeUndone` |
| | `FirewallReportsAreTrue` | `FwSpec => []FirewallAsReported` |
| | `WantedPortsStay` | `FwSpec => WantedStaysOpen` |
| | `ForeignRulesSurvive` | `FwSpec => ForeignRulesStay` |
| `TopologyProofs` | `ListenersNeverCollide` | `TopologySpec => []ListenersDisjoint` |
| | `TargetsAreFollowed` | `TopologySpec => []RelaysFollowTargets` |
| | `RelaysGoWithHolder` | `TopologySpec => []RelaysStayWithHolder` |
| `PlansProofs` | `ChargedOnce` | `TrafficSpec => []TrafficIsChargedOnce` |
| | `ToldOfUsage` | `TrafficSpec => []ToldFollowsUsage` |
| | `PlansAreServed` | `EntSpec => []PlansReachServers` |
| | `NoUsageIsLost` | `EntSpec => UsageIsKept` |
| | `RenewalsDoNotDrift` | `RenewalSpec => []ExpiresOnAnchor` |
| | `RenewalsCatchUp` | `RenewalSpec => RenewsJustEnough` |
| | `CyclesFollowCalendar` | `RenewalSpec => []CyclesAreCurrent` |
| `PanelProofs` | `CredentialsDie` | `AccountsSpec => []OldCredentialsAreDead` |
| | `LimiterIsSound` | `LimiterSpec => []LimiterHolds` |
| | `SubscriptionsStayWhole` | `PersonalSpec => []SubscriptionsAreWhole` |
| `NotificationsProofs` | `NoticesDue` | `NotificationSpec => []NoticesAreDue` |
| | `RecoveriesAnnounced` | `NotificationSpec => RecoveryIsAnnounced` |

None of the invariants is inductive as it stands.  What each proof adds, and why:

* `ConfigSync`.  A fetch bumps the version without asking for room, so `TypeInv` adds
  `Reserve` (`desired + due <= MaxVersion`).  `LedgerInv` says that nothing is recorded
  above `desired` and that what lies below an open or applied operation is settled;
  every step changes `ops` by one of three functions, leaves it or clears it
  (`LedgerStep`).  `TruthInv` follows a version from `fetched` through `done` to the
  report in flight, per identity, and `IdentityInv` says that nobody has an identity
  not yet handed out, so a registration starts with nothing to its credit.  `ProcStep`
  and `RowStep` classify what a step may do to the processes and to the Agent's row;
  the invariants are proved against the classes.
* `SkippedFetchIsCurrent` and `ArchivedAfterPurge` need `CurrentInv`: an Agent has applied
  and remembers nothing newer than what it fetched last (`ProgressInv`); as long as the
  fetched version is the current one, its content is what the tables hold
  (`ContentInv`); and the version of a decommission is fetched by nobody but the
  registered Agent, as a decommission, and done only by a purge (`PurgeInv`).
* `AgentConnection`.  `RegistryInv` says how far the handler of a current connection
  has come, and of those being closed; `PendingInv` that a pending request is
  unanswered, alone, and belongs to a connection that is one or the other
  (`Answering`); `AnswerInv` that whoever takes it from there is the only one to answer;
  `StatusInv` that a Server is online only with a registered Agent, so that a request
  that takes a connection leaves the status behind in the recorded case only.
* `AgentUpgrade`.  `RecordInv` says that what the Panel records of a connection is what
  runs at its other end; `HelperInv` that one upgrade at a time is past its launch, and,
  for every stage, which releases the file and the copy hold.  The first attempt
  failed for a reason: with three failures, an upgrade whose rollback failed leaves
  its release on disk, a second upgrade to the same release copies that file and,
  failing, puts it back.  The property then claimed too much; it now excepts a copy
  that is the release itself.  TLC finds this only with `MaxFailures = 3`, one more
  than the run has.
* `Topology`.  `RefsInv`: what a relay leads to and uses exists, and ids are used
  once.  `HandlersInv`: a handler that is taking a client away has the relays it saw
  on its list, and the others are the new user's or came late.  For
  `RelaysFollowTargets` the steps are split by what they leave alone for a Server
  (`RelaysKept`, `TargetsKept`, `DebtsKept`): if all three hold nothing changed for it,
  otherwise it is bumped or a handler owes it a bump.
* `ClientTraffic`.  A report on its way is charged when it arrives, so "not charged for
  more than there was" has to hold for what is going to be charged too.
  `CoverInv` gives every report on the wire an amount that covers what handling it will
  count, grows with the counters of later reports, and is covered by the traffic
  there was; `SwitchInv` ties the desired state to `effective_enabled_snapshot`.
* `Accounts`.  `LinksInv`: a link goes with its account, and a link to choose a password
  was made for an address.
* `LoginLimiter`.  The count and the sign-ins under way together stay within the
  limit plus the number of sign-ins less one (`LoginInv`): that they were let in under
  the limit is not enough.
* `PersonalSubscription`.  `NodeRowsInv` (a node has an id that was given out, and a group)
  and `EditsInv`: what a running handler is to write refers to nodes it has read, and
  those are nodes of its group, or gone.
* `Notifications`.  `WatchInv`: an outage is watched or announced, never both.  `FollowInv`:
  what a row calls notified, and what a waiting recovery is about, is in the chat.
  `OfflineInv`: the outage of an eligible Server has one event at most, marked until
  it is finished, and a delivery is recorded or about to be.  For `NoticesAreNotRepeated`
  every notice gets a budget: the times it is in the chat, in hand and queued
  together (`Counted`) are at most one for an outage that has been announced, none
  for one that is still watched (`OutageCount`), and for a step of the traffic the
  beginnings of its cycle, less one while the row lets it through (`TrafficCount`).
  The first attempt at `RecoveryIsAnnounced` failed for a reason: with two Servers the
  offline notice of one takes the last place of the queue, and the recovery of the
  other is dropped.  The run has one Server and could not show it; the property now
  names that case.
* `Entitlements`.  `HeldInv`: everyone has the clients of the plan, whether time has passed or not.
  `SnapInv`: they are switched as of the last time the Panel looked, which for the
  users in `waiting` is not now.  With `PlanNodesInv` and `PlanOfInv` every operation ends in
  rows that `Reconcile` leaves alone (`ReconcileAllInv`), and the Servers whose content it
  changes are told.  `NoUsageIsLost` needs sums over clients: what the end of a client takes
  from one it adds to another, and the sum follows its terms (`SumAdds`), proved over the
  least set for which it would not.
* `ManagedRuntime`.  `RuntimeInv` describes a service by the operations its procedure still has to
  do, the tails of the sequences: while a service is brought up (`Bringing`) it is as
  its manager found it until the exchange begins, and by the end has what the
  report says; after an error (`Failing`) it is put back, unless the promise does not cover
  what was found; while it is stopped or removed (`Stopping`, `Purging`) each operation
  that is no longer in the list is done.  A service that is not ours has nothing of us
  (`OwnedInv`), and `GoneInv` carries what a decommission has removed from one part to
  the next, so that the Server is archived clean.
* `HostFirewall`.  `FwInv`: a run that goes on has a command for everything that differs from
  what is wanted, and none against it (`ReconcileInv`, `PurgeInv`).  `UfwInv`: unless they
  move, a number in a command is that of a stale rule, every stale rule has its number,
  and as long as there is something to add no number is an IPv6 rule's.  This survives
  a deletion because the numbers go down (`Ordered`), across the border of the two
  families: a rule that moves has been dealt with.  `UfwCommandsInv` is what is left when
  they do move: a number that falls among the IPv4 rules is that of a rule of ours,
  since what took its place was added by the run.  `TableInv`: nftables gets no rule before its table is marked.
* `Restore`.  `DiskInv` says which files count (`KeptFile`: the rollback copy while there is a marker and
  the copy is complete, the data directory otherwise) and that their content is
  what was served last or was accepted for the restore, with its mail key.  Each
  phase has its invariant over the operations left.  Like the property, it is
  claimed as long as no rollback directory could not be removed (`cleanups = 0`).
* `Renewal`, `RenewalCycles`.  `RenewalInv`: settings have an anchor exactly when they may renew
  (`Anchored`), and there is room in the calendar after today.  The rest is about the
  calendar: `MonthStart` counts days by recursion, so that it exists, and that months follow
  one another without gaps (`MonthOrder`, `DateFacts`), is shown over the least month
  for which it would not be so.  The loop of a renewal ends at the first day of its schedule that
  is not past (`Later`, `Earliest`), by going back from the last day of the calendar
  (`Backwards`).  For the cycles, resets of one schedule follow the months
  (`BoundaryOrder`) at most 31 days apart (`BoundaryGap`), so the one a search finds is that of
  this month or of the one before.

TLC checked each strengthened invariant before it was proved.

Only model-checked are the liveness properties (`Converges`, `DecommissionCompletes`,
`RevokedConnectionEnds`, `RestoresServe`, `ServicesSettle`, `UpgradesSettle`): the prover does not
do fairness.  Every other property of a passing run is a theorem.

## 5. Not modelled

* The content of configurations, protocols, YAML and URIs, HTTP parsing and DTOs, the
  web interface, audit rows, read-only queries, wording of notices, shell scripts.
* Probes: lists of tasks numbered per connection and their results.
* Counters and calibration of the Servers' own traffic, and the metrics; the days
  on which they start again are in `ResetCycles`.
* The move of units from an older layout (`systemd_migration.go`), and the snapshot
  the installer takes before an upgrade of the Panel.
* Mail settings, where two requests that save at once may lose one of two
  changes, the encryption of the mail password and the SMTP dialogue.
* Migrations: SQL that runs once, in order, a transaction per version.  The triggers
  that a migration creates for listeners are in `Topology`.
* List order and database health.
* Several Servers in `ConfigSync`: effects of one Server on others are in `Topology`
  and `Entitlements`, as bumps.
* Clocks: what time does (expiry, timeouts) is an action that may happen
  whenever its precondition holds; `Calendar` has days, where days are the question.

A failed report that is handled after the success of the same version leaves
`config_sync_status` failed although nothing is left to apply; `ConfigSync` does this
too and no property denies it.

## 6. Plan

1. `ProbeTasks`; the Servers' own traffic.
