# PULSE Endpoint Agent: a TLA+ model

TLA+ modules of the parts of this repository whose correctness depends on the
order of events, the TLC configurations that check them on small instances, and
machine-checked proofs of what holds on every instance. `PROJECT.json` maps each
definition to the source lines it models, and lists the runs, the mutants, the
findings, the hazards and the theorems.

## The system

An agent (`local-agent/server/telemetry-server.mjs`) on every Windows endpoint
collects telemetry, serves it to the desktop page on the same machine
(`frontend/src/app`, a Tauri shell) and talks HTTPS and MQTT to the Cloud Command
Center (`backend/`, Go, PostgreSQL behind a pool of ten connections), which
administrators use. A PowerShell watchdog (`local-agent/scripts/watchdog.ps1`) and
an Inno Setup installer (`installer/PulseEndpoint.iss`) look after the agent's
process.

| component | state it keeps | operations | talks to | hard part | correct when |
|---|---|---|---|---|---|
| Event log and hash chain (`models.go`, `event_chain.go`) | `events`, rows that reference them | insertEvent, pruning, verifyEventChain | every handler writes it | four statements without a transaction; a chain per tenant but retention per device; times that tie | edits are always found, a false alarm has a known cause, what is over the cap is owed by a call |
| Remote command dispatch (`device_commands.go`, `runPendingCommandIfAny`) | `device_commands`, the agent's cycle | enqueue, heartbeat, policy check, run, complete | heartbeat, entitlement | check-then-act in both handlers, lost reports, agent deaths | outcomes are real, reruns have a cause, every command is answered for |
| Self-update (agent, `watchdog.ps1`, `PulseEndpoint.iss`) | `.self-update-state.json`, the agent's copy of it | accept, launch, confirm, roll back | one file read and written whole by two processes | claims that race, stale writes, crashes, failed installs | no early rollback, no downgrade of trust, no unearned health |
| Device identity and approval workflow (`telemetry-server.mjs`, `handlers.go`) | credentials file and memory, `devices`, `approval_requests` | load, register, persist, request, approve, reject, check, execute | console, poll loop, backend-URL handler | stale reads across awaits, two deciders | a wipe has an approval, rows are accounted for, a destroyed identity stays destroyed |
| Poll cycle, metric snapshots, predictions (`runBackendCycle`, `metrics.go`) | entitlement and metric caches, a row per device and day | heartbeat, entitlement, hardware check, snapshot, prediction, hourly checks | backend, child processes | a long chain of awaits; midnight by two clocks, wipes and re-enrolment in the middle; calls that go on after an abort; child processes that hang | what is shown and stored can be traced to a device and a day; the loop goes on |
| Telemetry collection (`collect`) | the served readings, streak of the optional collector | merge, reasons, transition events | four kinds of sources | each source partial, each may vanish; 0 is not null | no reading lost but in named cases, gaps explained, an outage escalates once |
| MQTT link (`ensureMqttClient`) | client, one reconnect timer, back-off | connect, reconnect, replace, take and answer commands | broker | late `close` of a replaced client, wipes under way | the link comes back, commands are answered, unless an ended client strays |
| Remote support session (`ScreenSharePOC.tsx`, `remote_session.go`) | sessions, peers, timers; page state over awaits | share, join, approve, offer, answer, reconnect, end, sweep; files | WebSockets, data channel | lookups outlive locks, grace periods and timers race reconnects | requests reach the customer, sessions are reclaimed, a file is delivered whole or not |
| Alerts of the page (`useAlertEngine.ts`, `AppContext.tsx`, `useTelemetry.ts`) | latches, alerts, snoozes, thresholds in localStorage; the page's own list | poll, evaluate, dismiss, snooze, edit, pause, reset | agent | two stores of one truth, saved at different moments | one alert per crossing, a missing reading clears nothing, what is latched has its alert |
| Cards of the page (`derived.ts`, `App.tsx`, `useTrendHistory.ts`) | last snapshot, recorded trend | derive, record | agent | dozens of verdicts derived apart, each with its own nulls | nothing stale is shown as live; verdicts on one reading agree, but in named cases |
| Actions of the page (`App.tsx`, `useHighImpactAction.ts`, the agent's proxies) | button states, request states | run, request, check, reset | agent, backend | late replies, remounts, reloads; lists cut off by two limits | a late reply never speaks for another request; a reset finishes; an attempt is listed while its place is not taken |
| Offline detector (`offline_detection.go`) | in-memory set of offline devices | sweep, noteReporting | event log, live status | the query precedes the lock; lost on restart | alternating offline and online events |
| Backend alert engine (`alert_engine.go`, `alert_rules.go`) | active breaches in memory, rules | sweep, rule CRUD | event log, live status | early return with no rules; read-merge-write PATCH | one event per transition |
| Live hub (`live.go`) | subscribers' channels of 16 | subscribe, unsubscribe, publish | dashboards | full channels drop | a subscriber's frames are a subsequence |
| Notifications, incidents (`live.go`, `incidents.go`) | read/cleared marks, incident status | mark, clear, update | event log (foreign keys) | two-statement updates | no mark is lost |
| Hardware trust (`fingerprint.go`, `device_identity.go`, `warranty.go`, `duplicate_fingerprint.go`) | baseline, warranty state | check, reset, void, auto-revoke | event log | check-then-set; retention removes evidence | a baseline is set once; review is not left by itself |
| Authentication, revocation, entitlement, settings (`auth.go`, `handlers.go`, `settings.go`) | device status, plan, switches | admit, revoke, patch | every handler | requests admitted before a revocation | nothing new is admitted afterwards |
| Watchdog relaunch, launchers | miss counters | relaunch | Task Scheduler | gives up after 15 | |
| Release tooling, database set-up, migration, presentation, packaging | | | | | |

The first eleven are modelled, the others are not (see the end).

## Modules

| module | models | proofs |
|---|---|---|
| `EventChain` | event log and hash chain | `EventChainProofs` |
| `DeviceCommands` | remote command dispatch to one device | `DeviceCommandsProofs` |
| `SelfUpdate` | self-update of one device | `SelfUpdateProofs` |
| `HighImpact` | one device's identity and its approval workflow | `HighImpactProofs` |
| `BackendCycle` | the agent's minute cycle, snapshots, predictions | `BackendCycleProofs` |
| `Collector` | merging of telemetry sources, outage events | last part of `EventChainProofs` |
| `MqttLink` | MQTT client and its commands | last part of `DeviceCommandsProofs` |
| `FileDelivery` | what a file transfer promises (abstract) | in `RemoteSessionProofs` |
| `FileTransfer` | one direction of the file channel | in `RemoteSessionProofs` |
| `RemoteSession` | support session; extends `FileTransfer`, implements `FileDelivery` | `RemoteSessionProofs` |
| `AlertEngine` | the page's poll loop, alert rules and alert list | `AlertEngineProofs` |
| `Dashboard` | what the cards derive, and the trend | last part of `ConsoleProofs` |
| `Console` | actions started from the page, and the agent's proxies | `ConsoleProofs` |

`MC<module>` extends a module with the values a `.cfg` cannot write; every `.cfg`
gives constants their values and replaces no definition. In each module the
definitions headed *Mutant of* are plausible slips in the code (a dropped guard, a
missing reset, a swapped order); they are not part of the specification, and each
shows that a property would notice that slip. A property that is a conjunction of
named parts has a mutant for every part.

Every module has an `Init`, a `Next`, a `Spec` and a `TypeOK`. Where one module
extends two state machines the second has these names with a prefix: `LinkSpec` is
the specification of MqttLink, `CollectorSpec` that of Collector, `DashboardSpec` that
of Dashboard.

**EventChain.** One action per SQL statement: `ReadTip`, `Insert`, `PruneByAge`,
`PruneByCount`. `Begin` is a caller that took its `time.Now()` before: `now` is the
rank of the RFC3339 text, and several calls may share a time, as the events of one
sweep do (`alert_engine.go:135`); which of the rows that tie
`ORDER BY created_at DESC LIMIT` keeps is the database's choice (`Newest`). Any
statement may come back with an error (`FailBeforeRow`, `FailAfterRow`,
`FailPruning`), carried out or not, and the process may die (`Crash`). A hash is the
tuple of a row's fields and its previous hash, so equal hashes mean equal contents,
which is what SHA-256 is used for. `seq` is the BIGSERIAL. `Pin` stands for every
statement that makes another table reference `events(id)`; the foreign keys have no
`ON DELETE`, so `Refused` deletes fail whole. `Edit` is the direct UPDATE that
`event_chain_test.go` performs. `missed`, `overtaken` and `holed` are history: calls
that ended short of the cap's DELETE, tenants whose tip moved between a call's read
and its INSERT, tenants that lost a row from between two they kept.

**DeviceCommands.** `Request`, `CheckPending`, `InsertCommand` are the three
database steps of `handleEnqueueCommand`; `CheckCompletion` and `Complete` the two
of `handleCompleteCommand`. `Heartbeat` to `Answered` is the agent's cycle.
`reports` holds completion requests on the wire or in a handler; one the agent no
longer waits for (`AgentFault`, `Abandon`) may still be served. `planSeen`
and `outcomes` are history. The six fixed actions differ only in what
they run, so they are one kind. Left out: texts, batch ids, audit events (they go
through `insertEvent`, EventChain).

**SelfUpdate.** `file` is `.self-update-state.json`, `memory` the agent's
`pendingUpdateConfirmation`. An agent step is a stretch between awaits: the claim
and the completion of a rollback are two steps with the download between,
`FetchUpdate` and `Accept` likewise. The watchdog's pass is port check, read,
claim, download, write back. An installer stops the agent (`InstallerStops`) and
replaces the files, or fails before or after that. A release's number is its
version and its sequence; 0 is the original, which has no signed manifest, so
`prev = 0` is "no previousManifest". A claim on a pendingUpdate that is gone
leaves `{rollbackClaimed: true}` (attempt 0), as the code does. `Accept` and
`Launch` are apart so that a death between the two writes is a behaviour. Left
out: how a manifest is verified (one that does not verify is skipped).

**HighImpact.** `loader` has the two callers of `loadOrRegisterDevice`, `decider` the
approve and reject handlers, `check` the calls of `handleHighImpactCheckProxy`. A
registration's row and its answer are one step that may lose the answer; encryption
and the file write come later. `plaintext` says that the file is in the format of
older versions, which a load migrates; such a file or none is what a behaviour starts
with. `wiped`, `read` and `approvals` are history. Both high-impact actions do the
same to the agent. Left out: the token's cryptography (a signature verifies when the
request was approved), the request's text.

**BackendCycle.** `pc` is the await at which `runBackendCycle` stands, `cycle` its
locals; every stretch between two awaits is one action. `LoadOrRegister` is
HighImpact's loading with a file that reads well. `posts` are snapshots on their
way through `recordMetricSnapshot`, statement by statement (`SelectRow`,
`InsertRow`); the agent's abort leaves one running (`SnapshotDone` with a fault).
`day` has two clocks: the agent's marks go by the agent's, a row is filed by the
backend's (`metrics.go:27`), and `NextDay` moves either. `Hang` is a child process
that never calls back, at any await that has one (`HangSites`), and `WithTimeout`
what the wrapper of that name does about it at the four it covers (`Netted`); at
`load` and `command` the cycle is `Stuck`. `Checked` picks hourly checks; the eight
are of four kinds, of which the bundled ones do not keep a last result. `by`, `row`,
`claimed`, `from` and `enrolled` are history. Payloads are reduced to whose they are
and of which day; how old a cached entitlement is allowed to be is left out.

**Collector.** After the `Promise.all` of the sources nothing awaits, so a
collection is one action, and the module is mostly the pure merge:
`mergeNonNull`, `mergeRustData`, `mergeHwInfo...`, the reasons and the events. A
reading is a pair of source and field; a merged field holds the source its value
came from. `Printed` is what each source has a reading of. A reading is a value or
none, but where the code tests `!x` a 0 differs from both: the marks `boardZero` and
`gpuTempZero` (`ReadsZero`), and `parked` for a fan.

**MqttLink.** One client per identity, numbered alike. `Close` and `EndedClose` are
the `'close'` events of a dropped and of an ended client, which share a listener and
`mqttReconnectTimer`. `Strayed` says that an ended client has that timer or was opened
again by it, which a re-enrolment need not lead to. The library is external:
`end(true)`, `reconnect()` and the queueing of a QoS 1 publish as the code relies on
them.

**RemoteSession, FileTransfer, FileDelivery.** Each await of the customer's page
is a state (`start`, `waits`), each socket has two ends that learn of a cut in
their own time. The relay's map and timers are `sess`; `Leave`, `Join` and the
removal timer are separate steps because the lock is released between them. The
file channel is ordered and reliable while open; what was handed to it is
buffered. `FileDelivery` is the promise: offered, accepted, then delivered whole.
`ImplementsDelivery` is the refinement, with `offered <- 1..sending.id`,
`open <- incoming.id`, `delivered <- received`.

**AlertEngine.** React runs a task's effects before the next task, so an action is
a task with all of its effects: a reply replaces the data, the rules are
evaluated, the context merges. `erased` names the storage keys a reset removed
and nothing has written since, which is what a `Reload` then starts from.

**Dashboard.** Operators named as the functions of `derived.ts`, over a snapshot that
is a record of the readings they use; state is the last snapshot, whether the agent
answers, the thresholds and the trend. The memory in use is kept in tenths of a
percent: the alert rule compares it as it is (`AlertAbove`), the badge rounds it
(`getMemUsedPercent`). A thermal row has its label, its reading and the colour its own
danger zone gives it (`getThermalRows`). `ReadingsAssumption` says what a reading may
be: counts, amounts and percentages are natural numbers, temperatures and margins
integers, flags Booleans, and any of them may be `Null`, which is no number, flag or
risk. Other fractions of a percent or a degree are left out: of no other reading is a
badge rounded and an alert not.

**Console.** `run` is one execution of a script from any origin (`RunNow`,
`RemoteCommand`), `row` one approval request with the page's call that makes it,
`check` the last check of it, `ui` the module-level state of
`useHighImpactAction`. `panel` numbers the mounts of the Automation tab, because a
state setter of a component that is gone does nothing. `events` is the device's log as
far as the tab's list depends on it, by `created_at` (an attempt is stored last or,
when times tie or clocks differ, before the last); `Remediations` are those among the
newest `PageLimit` of every kind (50, `App.tsx:6006`), `Attempts` the first
`ShownLimit` of them (8, `App.tsx:6041`), `OtherEvents` whatever else is logged.
Retention is left to EventChain.

The modules share interfaces rather than state: the credentials of HighImpact
appear in BackendCycle, MqttLink and Console as an identity that may be wiped and
replaced at any await; the commands of DeviceCommands appear in Console as runs
asked for by the backend. Composition by state is in `RemoteSession`.

## What is checked

Every run is exhaustive within its bounds. Properties are stated and commented at
the end of each module. `TypeOK` is the type invariant of a module.

| run | bounds | shows |
|---|---|---|
| `EventChain_concurrent` | 2 writers, 2 devices of a tenant, 3 events, cap 1, 2 times, 1 fault | `TamperEvident`: an edited row is always found; `AlarmsAreExplained`: an alarm without an edit has a race or a hole behind it; `OverCapIsOwed`: what is over the cap is owed by a call |
| `EventChain_alarm` | 1 writer, 2 devices of a tenant, 3 events, cap 1, nothing fails | a counterexample to `HonestHistoryVerifies`: retention by device breaks the tenant's chain |
| `DeviceCommands_faults` | 2 administrators, 2 commands, 1 fault, 1 policy change | `StatusWasEarned`, `RunsArePaidFor`, `PlanGuardsRun`, and every command is answered for |
| `SelfUpdate_safety` | 3 releases, 3 updates, 2 faults | `RollbackIsLate`, `RollbackGoesBack`, `HealthIsEarned`, and without a fault every update with a release to return to settles |
| `HighImpact_workflow` | 2 loaders, 2 checks, 2 administrators, 2 faults | `WipedOnApproval`, `RowsExplained`, `DestroyedForGood`, and the device is always enrolled again |
| `BackendCycle_daily` | 2 identities, 2 days of either clock, 1 hang anywhere, 1 fault, 2 hourly checks of different kinds | `RecordsAreTraceable`: an entitlement, a prediction or a row that is not this device's or this day's has the one cause named; `CycleDelivers`: the cycle comes round unless a child process hangs outside the net, keeps results, ends up with the device's own entitlement and prediction |
| `Collector_merge` | 8 families of readings, every combination of answers | `ReadingsAreFaithful`: nothing lost but in four named cases, reasons beside gaps and zeros only; `OutagesAreReported`: once, and over |
| `MqttLink_link` | 2 identities, 2 commands, 6 faults | `ReconnectionIsSound`: one timer, of a client that is down, starting over at one second; `LinkRecovers`, after a re-enrolment too; both unless an ended client strayed |
| `RemoteSession_support` | 1 session, 4 sockets, 1 operator, 1 drop, 2 files of 2 chunks | `SessionRecovers`: a blip loses no request to join and reconnecting ends; `NothingLeftBehind`; `ImplementsDelivery` |
| `AlertEngine_latches` | a rule with hysteresis and one without, 2 acts of the user | `AlertsAgree`: latches, the engine's alerts and the list agree; `AlertsFollowReadings`: one alert per crossing, silence clears nothing, a snooze ends |
| `Dashboard_views` | 20 families of snapshots, 2 sets of thresholds, 3 days | `CardsAgree`: eight agreements between verdicts derived apart, each with its exceptions; `TrendIsHonest` |
| `Console_actions` | 2 calls (runs and requests), 2 other events, 2 mounts, a page of 2 of which 1 is shown, 1 fault | `ActionsAreHonest`: permitted, logged, shown as what they are; `ActionsConclude`: a full reset finishes, an attempt is listed while its place is not taken |

**Bounds.** `MaxEvents`, `MaxCmds`, `MaxRelease`, `MaxAttempts`, `MaxDevices`,
`MaxRequests`, `MaxUpdates`, `MaxFaults`, `MaxMishaps`, `MaxChanges`, `MaxDay`,
`MaxIds`, `MaxStarts`, `MaxSockets`, `MaxJoins`, `MaxFiles`, `MaxRuns`, `MaxCalls`,
`MaxMounts`, `MaxSteps`, `MaxCount`, `MaxStamp`, `MaxHangs`, `MaxOthers` and `Window`
cap what would grow for ever. Two of every actor give every pairwise race; three
events with a cap of 1 reach pruning by age, by count, a refused or failed prune, a
call that makes up for it and a hole in the chain, and two times give
both ties and an order; a page of two events of which one is shown lets either limit
of the list push an attempt off it; three releases reach an update on top of a
rolled-back one; two faults reach a failure during recovery from a failure. In
`HighImpact_workflow` `MaxDevices` exceeds `1 + wipes + faults + updates` of any
behaviour, so neither `RowsExplained` nor `Reenrols` is decided by rows running out.
Two identities and two days in BackendCycle put a wipe and a midnight of either clock
in every await of a cycle. In MqttLink six faults exceed the five doublings of the
back-off. Four sockets in RemoteSession are a customer, an operator and a reconnection
of each. Families keep Collector and Dashboard small: readings that meet in one
expression of the code vary together, the others are null; families are listed in the
MC modules. In Dashboard a trend of two entries and days 1, 2 and 11 reach a full
history, a missed week and a clock set back. `CHECK_DEADLOCK FALSE` everywhere: a
behaviour that has used its bounds stops.

**Fairness and time.** `backendPollLoop` never ends and swallows a cycle's errors:
weak fairness of the agent's step (DeviceCommands, HighImpact, BackendCycle). A child
process may hang for good (`Hang`, up to `MaxHangs` times, at any await that has one);
the timer put around it fires, where there is one. HTTP handlers run to completion
(`Serve`, `Backend`). The watchdog's schedule, the tasks that start the agent, a
launched installer and the clock are fair in `SelfUpdate`. In the page every fetch has
a timeout and every timer fires (Console, AlertEngine); that a poll succeeds again and
again is an assumption on the agent, stated as strong fairness of `Succeed`, without
which no snooze can be seen to end. In MqttLink certificates that cannot be read are
put right, and refusals are bounded by `MaxMishaps`. Nothing makes a fault, an
administrator, a customer's click, an operator or a release happen. Three assumptions
about time are written as guards: a call of `insertEvent` is shorter than the
retention of 90 days (`Age`); the watchdog's port check, read and claim are not
interrupted by a download's end (`WatchdogIsQuick`); the ten-minute window does not
close while an installer runs or while Task Scheduler starts an agent nothing has
failed (`WindowCloses`).

## Where the code and its comments part

Behaviours of the code that the models have, and that a sentence of the source rules
out or a reader would not expect. The properties that are checked hold in their
presence. `HonestHistoryVerifies` is the subject of a run of its own, whose
counterexample is a finding. The sentences below are written as definitions at the end
of their modules; none is among a run's properties, and TLC finds a counterexample
when one is added to the run of its module.

| definition | module | the sentence |
|---|---|---|
| `OnePending` | DeviceCommands | "only one pending command per device at a time" (`schema.sql:174`) |
| `RollbackOnce` | SelfUpdate | "whichever gets here first claims it; the other ... skips" |
| `NeverReregistered` | HighImpact | "a device already enrolled is never re-registered" |
| `OneRowPerDay` | BackendCycle | "a single real day only ever produces one row" (`metrics.go:19`) |
| `NetCoversTheCycle` | BackendCycle | "this same net now covers every child-process-adjacent call" (`telemetry-server.mjs:3746`) |
| `NothingStale` | BackendCycle | a failure "leaves entitlementState null" (`:3777`) |
| `ReasonMeansNoReading` | Collector | a reason "only when all three genuinely came up empty" (`:4522`) |
| `ReplacementStaysConnected` | MqttLink | the link is up again and again, whatever became of ended clients |
| `AnswerArrives` | RemoteSession | an offer the customer made is answered |
| `DismissedStaysAway` | AlertEngine | "you won't see a new alert until it clears" (`AppContext.tsx:318`, `App.tsx:4953`) |
| `MemoryBadgeNeverDisagrees` | Dashboard | badge and alert "can never disagree" (`derived.ts:184`, `:214`) |
| `WithinRangeIsNoRowsAlarm` | Dashboard | "no separate established danger zone" (`derived.ts:569`) |
| `EmptyListMeansNoAttempt` | Console | "No automation attempts recorded yet." (`App.tsx:6146`) |

*Event log.* Retention is per device and the chain per tenant, so with two devices on
a tenant pruning leaves holes that verify-chain reports as broken (`models.go:120`),
which `event_chain.go:97` says retention cannot do. Two `insertEvent` calls of one
tenant can chain from the same tip (`models.go:93`), which verify-chain reports too;
`event_chain.go:57` and `models.go:91` speak of a single-connection pool, and
`db.go:56` opens ten. A row referenced by a notification makes the pruning `DELETE`
fail whole; a statement that fails, or a death after the INSERT, leaves the row stored
and the device over its cap until a later call prunes it.

*Commands.* Two enqueues pass one check (`device_commands.go:264`, `OnePending`). One
lost report and a command runs again; of two completions the second overwrites the
outcome (`device_commands.go:399`). The agent's last gate looks at the plan, not at
the tenant's switch (`telemetry-server.mjs:1314`).

*Self-update.* Watchdog and agent both claim and both launch a rollback
(`watchdog.ps1:141`, `RollbackOnce`). A rollback whose download fails keeps its claim
and is never tried again (`telemetry-server.mjs:2723` against `:2905`). A rollback
ends with nothing pending and the same cycle may launch an update beside its
installer (`:3845`); `lastAcceptedManifest` is then the release rolled back from
(`:2760`). The watchdog writes back a state it read a download ago
(`watchdog.ps1:158`). An installer that fails after it stopped the agent leaves the
old release to confirm the update (`:2784`); a missed heartbeat does not reset the
count (`:2779`).

*Identity.* Two loaders in flight register twice (`telemetry-server.mjs:1016`,
`NeverReregistered`). A load that read the credentials before a wipe brings the
identity back in memory, a migration even on disk (`:2438`, `:825`). A check in
flight while the device is registered anew executes the old identity's approval
(`:2565`); of two administrators who read a pending request the second overturns the
first (`models.go:406`).

*Poll cycle.* The net of `:3746` does not cover `runPendingCommandIfAny` and
`loadOrRegisterDevice`, and a child process that hangs there stops the cycle for good
(`NetCoversTheCycle`). A failed call leaves the cached entitlement on display
(`NothingStale`, `:3059`), and a reply that crosses a re-enrolment caches the old
device's entitlement under the new one. The day's marks of snapshots and predictions
are not keyed by device, so that a device enrolled today may be shown a prediction
without a snapshot of its own. The agent's day and the backend's are read from two
clocks, and a row is filed by the second. `metrics.go:19` calls its check
authoritative, without a unique index: a post the agent gave up on makes a second row
(`OneRowPerDay`).

*Collection.* Windows' cycle count is dropped when rust described the battery without
one, the TPM's version whenever rust read the TPM, the script's network adapters when
rust listed any, and an On or Off of BitLocker's when rust said "unknown"
(`:4199`, `:4598`). A temperature of 0 gets a reason for being missing
(`ReasonMeansNoReading`). `unavailable`, `invalid-json`, `ok` never
raises the event that the source is back. An agent restarted more often than every
five minutes never escalates.

*MQTT.* The ended client's late `close` takes the shared timer, and the close of the
client in use is then not acted on (`Strayed`, `ReplacementStaysConnected`). Commands
are taken under a wiped identity; a failed subscribe leaves a deaf client.

*Remote session.* Past the offer a dropped socket of the customer's is not reopened,
though the answer has still to come (`AnswerArrives`, `ScreenSharePOC.tsx:1062`). A
replayed `join-denied` turns away the next operator, a replayed offer reaches a
second one without approval; a second click on Approve makes a second offer. The
agent's `session-ended` is ignored by the share page. The sweep can remove a session
within the grace period of a reconnecting peer. A sender whose channel closes while it
waits for the buffer to drain never finishes.

*Alerts.* A dismissed alert is back on the list, with its notification and its tone,
as soon as any rule fires or a notification setting changes (`DismissedStaysAway`),
and the toast and the banner say that it is not. Marks of reading are lost on reload.
A latched warning does not escalate. The engine's copy of an alert never becomes read,
so the restart of "Avg response" (`useAlertEngine.ts:779`) does not happen. One outage
can be logged as two reconnections (`useTelemetry.ts:574` against `:445`); this one is
not in the model, which has one poll loop per page.

*Cards.* At less than half a percent above the critical line the memory alert is
critical and the badge a warning, since only the badge rounds (`derived.ts:95`,
`useAlertEngine.ts:302`). The thermal card's rows have danger zones of their own, and
one may be red under a badge that says "Normal" and a footer that says "All sensors
within range" (`WithinRangeIsNoRowsAlarm`). A gap of more than seven days shows "+0 vs
0 days ago". An unchanged day is not recorded after midnight until something changes.
A battery at 60-79 % is "All Systems Healthy" and "Battery Replacement: High" at once.
An empty firmware string is counted and not shown (`derived.ts:666`). The memory gauge
computes its percentage from rounded gigabytes and can differ from the badge's by one.
A battery that holds more than its design capacity gets a health of more than 100 %
(`derived.ts:27` divides and does not clamp).

*Actions.* The late answer to a check of an earlier request replaces the state of a
newer one, which the page can then no longer ask about (`useHighImpactAction.ts:59`).
An answer lost after an execution leaves a full reset half done: the agent is wiped,
the page's storage is not. The tab asks for 50 events of every kind and shows 8
remediations, so an attempt that others overtook is not listed, and under 50 alerts
the list says that there is none (`EmptyListMeansNoAttempt`). "Every attempt is
logged" (`telemetry-server.mjs:2136`), but `logEvent` drops what happens without
credentials and what fails. The same script may run from the page, the heartbeat and
the broker at once.

## What is proved

All with `tlapm`, for every value of the constants that satisfies the named
assumptions of the modules. An assumption says what the constants stand for: bounds
are natural numbers, `Keep` and `Window` and the limits of a list are positive, the
markers `Idle`, `NoCmd` and `Null` are not data, no operator is called `"customer"`
(`OperatorsAssumption`), readings and thresholds are on one scale and the defaults are
ordered (`ScaleAssumption`, `DefaultAssumption`), a source prints the readings it has
code for (`FamiliesAssumption`). TLC evaluates each of them in the run of its module.
Every safety invariant the runs check is stated by a theorem.

Type invariants: `TypeCorrect`, `CommandTypes`, `LinkTypes`, `UpdateTypes`,
`IdentityTypes`, `CycleTypes`, `CollectorTypes`, `RemoteSessionTypes`, `AlertTypes`,
`ConsoleTypes`. Few are inductive alone. `CommandTypes` needs that a busy agent has a
command that exists, that a number waiting for its INSERT is unused and nobody
else's, that a report carries an outcome of its command. `CycleTypes` bounds the rows
of a day by the faults, which is `RowsHold` below. `RemoteSessionTypes` bounds the
timers `scheduleRemoval` leaves by the sockets gone from the session
(`TimersBounded`). `ConsoleTypes` bounds the registrations by the executed requests
(`DeviceHolds`).

*Event log.*

- `TamperingIsEvident`: `TamperEvident`. The invariant is `HashedAsInserted`: a row's
  hash is the hash of the row as inserted, whoever edited it since. `StepsOfTheTable`
  says once for all proofs what a step may do to the rows: store one, take some, edit
  one or leave them.
- `AlarmsHaveACause`: `AlarmsAreExplained`, with any number of devices on a tenant and
  of calls at once, ties of `created_at`, failed statements and deaths. The invariant
  `ChainInv`: `seq` is a row's own; a call past its read holds the tip's hash or the
  tenant is in `overtaken` (`Stale`); and a tenant in neither history is linked, row
  to surviving row. Storing keeps this because the new row chains from the tip
  (`StoresKeepsChain`), taking because a chain that is not punctured keeps its
  neighbours (`TakesKeepsChain`).
- `RetentionHolds`: `OverCapIsOwed`, a counting argument on top of finiteness
  (`CapHolds`): a stored row adds a call that is still to prune (`StoringKeepsCap`), a
  call that ends short passes its debt to `missed` (`PassingTheDebt`), and the cap's
  DELETE leaves no more than the cap and so may forget what was missed (`CapIsKept`).

*Commands.*

- `StatusIsEarned`: `StatusWasEarned`, from `ReportsHold`.
- `RunsHaveACause`: `RunsArePaidFor`. The invariant `Paid` says when one more run is
  already owed to a fault: a command that is not settled and not being reported has at
  most as many runs as there were faults.
- `PlanIsAsked`: `PlanGuardsRun`, from `PlanSeen`: the history variable covers every
  plan since the heartbeat.
- `LinkReconnectsSoundly`: `ReconnectionIsSound` of MqttLink, inductive with the types
  and the order of identities: a client that is replaced holds the timer no more, so
  that only a late `close` while no timer is set lets an ended client stray.
  `LinkStrandsNoResult`: a result waits only at a client that is connecting or that
  the timer is set for, unless a client strayed (`ResultsAreWithOpen`), which
  `TakenIsAnswered` rests on.

*Self-update.* `RollbacksAreLate`, `RollbacksGoBack`, `ConfirmationsAreEarned`. Both
processes hold copies of the state file and write them back at will, so the invariant
`Holds` is about every copy: one in `GoodStates` returns to an older release and has
no heartbeats before the first start after it; what a process remembers counts no
heartbeat it did not make; a party that is about to claim or to launch a rollback
holds an overdue update. `RollbackOnce`, and that a rollback completes, are not among
them: TLC has counterexamples.

*Identity.*

- `WipesAreApproved`: `WipedOnApproval`. What a check was told of its request was true
  when it was told (`ChecksHold`), and approvals are only added to.
- `DestructionIsFinal`: `DestroyedForGood`. The invariant `WipesHold` says that an
  identity a load has in its hands and that is wiped by now is in `read`, and that a
  registration's identity is new to everybody.
- `RowsAreExplained`: `RowsExplained` counts rows against wipes, faults and updates,
  and is not inductive while a registration is on its way. `RowsOwed` counts what is
  owed as well: a loader past its decision to register owes a row to the wipe or fault
  that emptied the credentials (`CycleOwes`), or to its own race with the poll loop
  (`UpdateOwes`).

*Poll cycle.* `CycleRecordsAreTraceable`: the three parts of `RecordsAreTraceable`.
`IdentitiesGrow` orders what an await may have kept: what was asked, cached or shown
is of an identity no younger than the one in memory, so that an entitlement of another
identity is of an earlier one. `PostsHold`: a post is about a registered device, one
that is through has left its row, and the posts cut off are numbered by the faults.
`SnapshotsHold`: the day's mark is set for a row that is there, of the backend's day,
and the prediction follows the mark. `RowsHold` counts: every row but one was inserted
by a post the agent gave up. `CycleKeepsResults`: `ResultsAreKept`, the safety part of
`CycleDelivers`.

*Collection.* `ReadingsStayFaithful` and `OutagesEscalateOnce`. What is served is the
merge of some possible set of readings or nothing (`Served`); that such a merge loses
nothing but in the four cases and explains away nothing but a zero is then a lemma
about the operators (`FoundFields`, `LostFields`, `LiveOf`, `ReasonsOf`), with a
least-index argument for `First`. `StreakHolds` ties the flag `rustDegradedEscalated`
to the length of the streak.

*Remote session.* `SessionsDeliver`: `RemoteSession` implements `FileDelivery`. The
abstract variables are functions of the sender's number, the receiver's file and what
was received, so what has to be shown is that a delivery is of the file that is open,
with every chunk: `FilesHold` says how the content of the channel adds up. Offers
ascend; while the accepted file is sent only its chunks are under way, their number
and those received make those sent; when it was sent, the rest of its chunks, its end,
then offers (`RestUnderWay`); an accepted file neither being sent nor sent has no
chunk anywhere. `NothingIsLeftBehind`: `SessionsAreReclaimed`, where
`Leave` and `Join` overtake timers (the invariant `SessionHolds`: timers, sockets and
calls belong to a session that was asked for), and `SentIsNotLost`, from `FilesHold`.

*Alerts.* `AlertsAgreeAlways`: `AlertsAgree`, together with `LinesOrdered` (an edit
moves the other threshold out of the way), `LiveIsLatched`, `AnnouncedIsLatched` and
`ErasedWhole` (between a reset and the reload the storage is empty, or a poll has torn
the reset). `CrossingsAlertOnce` and `LatchesSurviveSilence` are two of the three
parts of `AlertsFollowReadings`, action properties from the same invariant: that a
missing reading never ends a latch needs the two lines of a rule to be in order.

*Actions.* `ConsoleIsHonest`: `ActionsAreHonest`. `CheckHolds`: a check is of a request
the page knows, and what it carries is what became of that request; answers cross, so
`ToldStays` says that what the page was told is stable but for the one decision.
`RunHolds` ties each execution to its permission, its event and its mount, `OneRunOut`
lets one mount have one run out.

*Cards.* `TrendStaysHonest`: `TrendIsHonest`. The invariant, `DashboardTypeOK`, has at
most one point per day and no more than the cap; `RecordedHistory` shows that
`recordIfNeeded` keeps it and adds nothing but the point of today. That the change
shown is one between two recorded days needs the newest of the recorded days to exist,
which is `HaveExtremes`: induction on the size of a finite set, as a well-founded
descent. `CardsStayConsistent`: `CardsAgree`. The cards hold no state between two
renders, so the work is about the operators: one lemma for each part of it
(`NothingIsStale`, `SecurityFits`, `RiskFits`, `BadgesCover`, `AdviceFits`,
`ThermalFits`, `DriversFit`, `PagesFit`), over any state with the types, not only
those of the run's families. That the memory badge falls behind its alert only at the
critical line itself is arithmetic of `Round`; the lines below it agree because
thresholds are whole percents.

**Only model-checked.** Liveness, which the prover does not do:
`EventuallyCompleted`, `EveryUpdateSettles`, `Reenrols`, `LinkRecovers`,
`SessionRecovers`, `ActionsConclude`, `CycleAlive`, `EntitlementIsOwn` and
`PredictionIsOwn` of `CycleDelivers`, the end of a snooze in `AlertsFollowReadings`.

## Plan

1. Action properties that the invariants already give: what a cycle or a check may
   never do in a step.
2. Of the parts not modelled, the offline detector and the alert sweep of the backend,
   which share the event log with the rest.

## Not modelled

- The backend's offline detector and alert engine: two sweeps over live status. What
  they risk: the offline sweep reads last-seen times before it takes the lock
  (`offline_detection.go:95`) and forgets who was offline on restart (`:38`); the
  alert sweep returns early with no enabled rule and keeps active breaches
  (`alert_engine.go:107`); two edits of a rule lose one (`alert_rules.go:224`).
- The live hub, notifications and incidents, beyond the rows that pin events: full
  channels drop frames by design (`live.go:608`).
- Hardware trust, admission and revocation at the backend: two checks of a device
  without a baseline both set one (`handlers.go:686`); a device may report between the
  staleness check and its revocation (`duplicate_fingerprint.go:92`).
- The watchdog's relaunch counter, launchers, release tooling, set-up, migration,
  packaging: sequential scripts.
- In the modelled parts: texts and layout, the audit events of each handler (they go
  through `insertEvent`), cryptography (a signature verifies when what it signs is
  genuine), the regression in `ai-service`, the readers of the hardware themselves;
  chat, microphone, pausing of the video and TURN credentials of a support session;
  torn writes of the state files.
