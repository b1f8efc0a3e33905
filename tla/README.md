# VPNautodeploy in TLA+

VPNautodeploy runs a VPN service that is sold and supported through a Telegram
bot: `src/bot` is the bot with its scheduler, its dashboard, the endpoint that
serves profiles, and the cluster of exit nodes; `src/scripts` are the jobs on
the hosts.  This directory models the parts of it that keep state and are
changed by several threads, processes or people, checks them with TLC on small
instances, and proves what matters most of the core with TLAPS for every
instance.  `PROJECT.json` lists the components, the runs, the hazards they are
aimed at, the findings and, per definition, the lines of code it stands for.

## The system

One process holds three kinds of threads that share a SQLite database (tables
`users`, `app_settings`, `admin_actions`, ...) and a 3x-ui panel behind HTTP:

* the **polling thread** takes updates from Telegram and runs every user button
  and every admin command, one after another (coroutine handlers get an event
  loop of their own);
* the **scheduler** runs the periodic jobs: the DPI monitor, the support repair,
  quota resets, reminders, alerts, mail;
* the **web server** runs the dashboard, the profile endpoint and the public
  API, with its database calls in worker threads.

Beside it run host jobs with state of their own (rotation of the Reality name,
the RU exit, the guard of the agent's models, the health check) and, between
exit nodes, the election and the sync client.  No lock spans a read of the
database and the write that follows it, most writes are whole rows, and nearly
every step waits for a server that may refuse, answer late, or have obeyed a
call that is reported as failed.  That is where the hard behaviour is.

| Part | State | Hard about it | What makes it correct |
|---|---|---|---|
| DPI monitor (`services/dpi_monitor.py`) | `cascade_auto`, `dpi_monitor_state`, on/off | two settings written one after the other; reset in the middle of a run; rules that take over from one another; collectors that fail | evidence before demotion, silence before restore, at most two changes per run, the log agrees with the cascade, what is silent returns |
| Lockdown (`services/lockdown.py`, `handlers/admin/ops.py`) | `lockdown_mode` | read-modify-write from two threads; a failed read looks like the default | pins hold, flips need streaks, the answer is true |
| Cascade order (`handlers/callbacks/user.py`, `core/web_server.py`) | `cascade_config`, overrides | five layers | nothing lost or doubled, the monitor's verdict survives |
| Profiles (`services/subscription.py`) | what a client loaded, what its providers fed it since | profile and providers are of different days | calls are carried, one country, a demotion leaves servers |
| Profile endpoint (`core/web_server.py`) | row, fetch log, token map, Hysteria's quota cache | row read once and saved whole; background tasks; stale cache | networks recorded are the user's, one heartbeat per window, spent keys denied |
| User lifecycle (`core/state_machine.py`, `services/billing.py`, `services/user_lifecycle.py`, handlers) | a `users` row, a client on the panel | whole-row saves of old objects, refused transitions, panel failures | bans stick, payments add up, keys need approval |
| Support desk (`handlers/messages.py`, `handlers/forum.py`) | topics, ticket log | calls done though reported failed; topics that stop working | a message is read by an admin once, the archive is whole |
| Polling (`core/polling.py`), calls (`core/telegram_client.py`) | offset; proxy pool, outage record | offset moved before the batch is handled; streak and record written without the lock | no update skipped; what works is tried; an outage ends |
| Panel service (`services/xui_service.py`), quota job (`services/notifications.py`, `services/demo_tiers.py`) | the client per inbound, month marks | partial failure over inbounds, re-issued keys, lost entries | updates keep the rest, only the lost are revived, a cut key returns |
| SOS, kits, reverse SOS, mail (`services/sos.py`, `reverse_sos.py`, `mail_intake.py`) | cooldowns, claims, UID watermark | crash between claim and send; letters that fail; two admins on one card | one report, one kit, one notice, one decision |
| Alerts (`services/alert_manager.py`, `health_checker.py`) | tracker per key, agent slots, probe rows | acknowledgement from another thread; a heal by prefix; a run cut short | streaks are streaks, slots come back, a dark protocol is paged |
| Reminders and sweeps (`services/notifications.py`) | `notification_log`, marks | rows read, then sent one by one while users move | not more than allowed, every request shown, the exhausted told |
| Rule lists (`services/rule_lists.py`) | lists, complaint queue, copies | a lock for one of two steps, a failed read | clients keep their rules, the automatic rule obeys the admin |
| Election, membership, sync (`core/cluster/*`, `services/node_cluster.py`) | term, vote, role, circuit | votes not kept, timers that cancel themselves, late answers | one vote per term, a timer is always armed, an open circuit closes |
| Routing, trackers, failover desk (`core/cluster/smart_routing.py`, `node_tracker.py`, `services/failover_notifications.py`) | routes, windows of loads, batches | fallbacks frozen at assignment; tasks out of order; batches named by the second | moves help, nobody flaps, batches are whole |
| Reserve node, RU exit (`services/fallback_node.py`, `ru_exit.py`, `scripts/setup_ru_exit.sh`) | caches, pool, config and container | a deletion overtaken by an addition; a run killed between swap and start | payers get in, holders stay, nobody is emptied by a failed read |
| Agents (`handlers/ai_handler.py`, `services/agent_client.py`, `hermes_client.py`, `scripts/hermes_model_guard.py`) | sessions, in-flight conversations; config, prices | timed-out turns that go on; a run that may die before it saves | one turn per chat, a paid model is cut |
| Health check and rotation (`scripts/protocol_healthcheck.py`, `rotate_reality_dest.py`) | rows of probes; five layers and a snapshot | layers that cannot be seen; edits by others between plan and step | no outage passes, old values are kept |
| Others | | texts, SQL, geography, scoring | see "Not modelled" |

How they meet: the polling thread, the scheduler and the web server call the
same services on the same rows; the monitor writes what the cascade order and
the profiles read; the lockdown detector runs at the end of a monitor run, if
the monitor is on and its own save succeeded; the support repair undoes what
handlers left; the alert manager reads the probes' rows and the record of the
calls.  `UserLifecycle` models several threads on one user's row,
`CascadeMonitor` and `Lockdown` the monitor's tick against the operator,
`ProtocolProbes`, `TelegramCalls` and `ProtocolCheck` a writer with its reader,
`MonthlyQuota` the job, the purchase and the app on one allowance.

## The modules

Each component is a module of its own, with its own `Init`, `Next` and fairness
under names of its own (`AlertInit`, `TickStep`, ...).  In the tables "↔" is
between a variable and the code's state; what is not named there is history that
only the properties read.

### The monitor, the lockdown, the users

| Module | Models | Variables ↔ code |
|---|---|---|
| `CascadeMonitor` | one run as six steps (`pc`), `/cascade reset` as three (`opc`), the tick | `auto` ↔ `cascade_auto`, `rows` ↔ `dpi_monitor_state.targets`, `run` ↔ the locals of `run_once`, `audit` ↔ what `admin_actions` adds up to |
| `CascadeContract` | what the monitor promises, without its rules | `demoted`, `since` |
| `Lockdown` | detector tick (read, write), command (read, write, fallback, verify) | `store` ↔ `lockdown_mode`, `draft` and `edit` ↔ the copies about to be written |
| `LockdownContract` | who may change what in the row | `mode`, `active`, `owner` |
| `UserLifecycle` | one user: each handler is the chain of its database and panel calls (`Program`), any of which another thread may fall between | `row` ↔ `users`, `panel` ↔ the 3x-ui client, `at[th]` ↔ a thread's handler with the `User` objects it holds |

### What comes in (host `MCInbound`)

| Module | Models | Variables ↔ code |
|---|---|---|
| `Polling` | the loop, and Telegram's queue (external) | `offset`, `batch`, `running` ↔ `PollingService`; `confirmed`, `arrived` ↔ Telegram |
| `Sos` (reports) | `handle_sos` and `handle_app_sos` with the diagnosis behind its gate | `reportAge` ↔ the newest `user_failure_reports` rows, `asker` ↔ the threads, `turn` ↔ the one turn and its gate |
| `Sos` (kit) | the claim, the worker, `_forget` | `kitClaim`, `kitAge` ↔ `_kit_sent_at`, `kitWorkers` ↔ the threads |
| `Sos` (reverse SOS) | the notices of a demotion | `claimed` ↔ `reverse_sos_sent`, `outbox` ↔ the sender threads |
| `MailIntake` | poll, letters, cards, two admins' buttons, SOS letters | `watermark` ↔ `mail_intake_last_uid`, `letters`, `batchEnd` ↔ the running poll, `request` ↔ `email_requests`, `press` ↔ the handlers |
| `SupportTopics` | a user's messages, an admin's answers, closing, the repair; every call of Telegram's done, refused, done twice, or done and reported failed | `users`, `logged` ↔ rows of `users` and `ticket_messages`, `owner`, `forum`, `shown`, `archive` ↔ the group, `desk` ↔ the running handler, `repairing` ↔ the repair's rows |
| `ProbeBeats` | `/probe` and its background task, the token map | `map`, `mapAge` ↔ `_probe_tokens`, `claimedAt` ↔ `_probe_last`, `waiting` ↔ tasks, `rows` ↔ `client_probe` |

### What watches and switches (host `MCWatch`)

| Module | Models | Variables ↔ code |
|---|---|---|
| `AlertManager` | the tick over the checks, acknowledgement, heal by prefix, agent turns | `fails`, `quiet`, `tracked` ↔ `_Tracker`s, `checks`, `todo`, `firing` ↔ the tick's locals, `inflight`, `slots`, `late` ↔ agent turns |
| `ProtocolProbes` | the probe run, row by row, and the verdict over the last runs | `window`, `age` ↔ `outbound_health`, `cursor` ↔ the run |
| `TelegramCalls` | calls of several threads through the pool, the streak, the outage record, the alert's check | `cooling`, `active` ↔ `_proxy_dead_until`, `_active_proxy`; `connFails`, `outage` ↔ `_conn_fail_streak`, `TG_API_OUTAGE`; `sending` ↔ the calls |
| `Election` | terms, votes, timers, heartbeats and health checks as `NodeClusterManager` wires them | `node[n]` ↔ `ClusterState` and `LeaderElection` of node n |
| `SyncClient` | requests with retries under one circuit breaker | `peerFails`, `openLeft` ↔ the peer's entries in the client's tables, `call` ↔ the tasks |
| `RealityRotation` | `--apply`, revert, `--rollback` over five layers, others' edits, kills | `layers` ↔ the files and rows, `snapshot` ↔ the snapshot file, `op` ↔ the run |

### What a user is served (host `MCServed`)

| Module | Models | Variables ↔ code |
|---|---|---|
| `Cascade` | `get_cascade_order` and its layers, over settings that the operator and the monitor change; `Sublists` has the list comprehensions it and `SubProfile` use | the stored settings |
| `SubProfile` | sing-box and Clash profiles: servers, groups, providers, rules and where they send a packet; refreshes of profile and providers | `offer` ↔ what the server answers now, `held`, `fed` ↔ the client's copies |
| `ExitRouting` (routing) | the table of users and exits, assignment, decision and move | `profiles`, `statuses`, `routes` ↔ `SmartRoutingTable` |
| `ExitRouting` (trackers) | windows of load reports, throttling, the listener's tasks, two recommendations | `trackers` ↔ `NodePerformanceTracker`s, `telling` ↔ the tasks |
| `FailoverDesk` | events, batches, the admin's buttons, each awaiting Telegram | `recent`, `pending` ↔ `_recent_failovers`, `_pending_batches`; `run`, `sending` ↔ the coroutines |
| `HermesGuard` | a run of the model guard: read, rewrite, restart, tell, save | `yaml` ↔ `config.yaml`, `saved` ↔ `state.json`, `price` ↔ the catalogue (external), `guard` ↔ the run |

### The jobs that write to people (host `MCAdmin`)

| Module | Models | Variables ↔ code |
|---|---|---|
| `Reminders` | reminders of the job and the dashboard, the sweep, the digest, the traffic warnings | `standing` ↔ `users.status`, `logged`, `warned` ↔ `notification_log`, `sig` ↔ `pending_digest_sig`, `sender`, `sweep`, `digest`, `alerts` ↔ the rows each job has read |

### Threads that save what they read (host `MCWriters`)

| Module | Models | Variables ↔ code |
|---|---|---|
| `SubFetch` | fetches of a profile that end in a save of the row | `srow` ↔ `users`, `request` ↔ the requests, `fetchLog` ↔ `sub_fetches` |
| `RuleLists` | the operator's lists, the complaint queue, the automatic rule, the clients' copies | `lists`, `pendingAge`, `ignoredAge` ↔ the two settings, `copy` ↔ clients, `deciding` ↔ the complaint in hand |
| `ProtocolCheck` | the check run by hand over three layers that may fail, beside the probe that writes | `rows` ↔ `outbound_health`, `turbo` ↔ the sidecar's config, `faults` ↔ the world |

### Who is let in, and the turns of the agent (host `MCAccess`)

| Module | Models | Variables ↔ code |
|---|---|---|
| `PanelClients` | add, update, renew, revive, replace, delete of one client, HTTP call by HTTP call | `client` ↔ the panel's record, `call` ↔ a thread's call with the record it read |
| `MonthlyQuota` | the job of the 1st, the app's raise, the purchase, `/quota` | `userRow` ↔ `users`, `panelKey` ↔ the client, `job`, `grant` ↔ the threads |
| `Hy2Auth` | the daemon's question, the quota cache, its refreshes | `hyRow` ↔ rows, `hyCache`, `refreshing` ↔ `_hy2_quota_cache`, `_hy2_quota_refreshing`, `hySpent` ↔ the panel |
| `ReserveNode` | putting a payer on the reserve panel in the background, taking a revoked one off | `ensureCache`, `skipUntil` ↔ the service's caches, `inflight`, `queue`, `ensuring` ↔ the pool |
| `RuZone` | the timer's sync, the setup and the removal by hand | `confFile`, `confPrev` ↔ `config.json`, `.prev`, `container` ↔ docker, `zoneRun` ↔ the holder of the lock |
| `AgentTurns` | the admin's prompts as turns on workers, with either agent below | `kept` ↔ `ai_sessions`, `answering` ↔ `_inflight`, `turns` ↔ workers, `photos`, `closing` ↔ `TG_MEDIA_DIR`; `sessions`, `primed`, `busy` ↔ the agent's server (external) |

`MC*` are the instances for TLC, `*Proofs` the theorems.

An operator whose name is a longer form of another's (`InPlaceKeepsBad`) is
that operator with a plausible bug in it; `PROJECT.json` ("mutants") pairs each
with the property that catches it.  No specification uses one.

**Hosts.** `MCInbound`, `MCWatch`, `MCServed`, `MCAdmin`, `MCWriters` and
`MCAccess` put components side by side in one run.  They share no state: a
variable `part` says which of them moves, the others stand still, and each keeps
the fairness of its own specification while it moves.  So the run of a host is
the sum of the runs of its components, not a product, and it shows of each what
a run by itself would.  Components that do meet in the code are modelled
together inside one module.  A property whose name ends in `Hold` or `Holds` is
the conjunction of what its component promises: the type invariant, safety
invariants, action and liveness properties, each stated and commented by itself
at the end of its module.  In `MCWatch` and `MCInbound` what comes about in the
end is one property of the host (`WatchProgress`, `InboundProgress`), and the
others are safety properties.

What the modules abstract: a streak is kept up to the threshold it is compared
with; times are ticks of a job or months of a subscription, and an age counts up
to the gap it is compared with; signals, prices, loads and faults are what the
world may say or do.  In `UserLifecycle` a date is the number of months left,
uuid and e-mail are one flag since the code sets and clears them together, and
one "web" thread stands for the web server.  The dashboard's `revoke`, the
Telegram revoke button and the ban button of a ticket make the same calls as
`ban` and are not repeated.  Variables called faults, flips, edits, moves,
events, lapses, prompts and the like count what the constants `Max...` bound.

## The runs

The longest, `lifecycle_support`, takes a little over three minutes on two cores.

| Run | Shows | Bounds, and why they are enough |
|---|---|---|
| `cascade_monitor` | changes are earned, the log adds up, complaints are capped, the contract is implemented | three protocols for two changes per run (one candidate always waits), one network (networks share no row), the global and the per-network rules together, streaks of 2 and 3, a gap of 3 ticks, one protocol per network for complaints; failed reads (networks without a head among them), collectors that fail, failed writes of `cascade_auto`, one change at a time whose log row is refused. The source's longer streak of 6 and cap of 2 give four million states and the same answer |
| `cascade_recovers` | what is silent for good returns for good | two protocols and one change per run, so that restores must queue behind demotions; crashes, failed writes of either setting, resets in the middle of a run |
| `lockdown_race` | the row agrees with its mode; the detector responds | commands inside ticks, failed reads and writes; thresholds 2 and 2, since only their being reached matters |
| `lockdown` | see below | host `MCWatch` |
| `cascade_order` | see below | host `MCServed` |
| `lifecycle` | see below | host `MCAdmin` |
| `lifecycle_race` | see below | host `MCWriters` |
| `lifecycle_support` | see below | host `MCAccess` |
| `polling` | see below | host `MCInbound` |
| `cascade_reset_race`, `lockdown_pin_race`, `lifecycle_lost_ban` | see Findings: these must fail | |

`lockdown` (`PinHolds FlipNeedsProof KeepsContract AnswersHold AlarmsHold
WatchProgress ElectionHolds SyncHolds RotationHolds`):

| Part | Shows | Bounds |
|---|---|---|
| lockdown | flips need streaks, pins hold, contract, true answers | two direct protocols (the minimum measured) and one fronted, thresholds 2 and 12 as in the source; failed writes |
| alerts | failures counted are in a row, slots add up, a lasting storm pages or is quiet for a reason | one single key and two under a prefix, so that one may heal while the other fails; one agent slot |
| calls | before a dead entry is tried again every other was; once an entry works for good the streak, the record and the alert end | a pool of a proxy and the direct way, two threads, three tries, a streak of 2, two changes of what is reachable, one error that is no connection error |
| probes | one incident is one alert; a dark protocol is paged | two tags, verdicts over three runs, one run lost |
| election | one vote per term, followers keep a timer and leaders their heartbeat, only a node without peers leads, and such a node does | two nodes, one of which asks itself, three terms, one crash |
| sync | a circuit opens at the threshold and on failures in a row, a peer is reached again | two callers, threshold 3, five tries |
| rotation | the status is honest, old values are kept, others' work stands, runs end | two names and somebody else's, two runs, two faults, one edit |

`cascade_order` (`OrdersHold ProfilesHold FailoverHolds GuardHolds
ServedProgress`; the last is what desk and guard do in the end):

| Part | Shows | Bounds |
|---|---|---|
| order | nothing lost, sorted by verdict | four protocols, lists with repeated, unknown and missing names, four sets of demotions |
| profile | calls are carried, one country, Clash decides as sing-box does what no list of the operator names, the lists prevail and QUIC follows them, a demotion leaves servers, each is watched | four stored orders, four sets of demotions, every kind of user; packets that both, one or none of the lists name, by name or by address; the client's profile and providers of different days |
| routing | a move helps, nobody flaps, a bad exit can be left while a good one is at hand: the decision is a move | three exits, one user (users share no entry), one move an assignment; assigned anew, he has another while the last is fresh |
| trackers | the listener knows, the two recommendations agree | two nodes, one limited, loads below, at and above the two limits, a window of two |
| desk | every event is accounted for, batches are whole, what a run took is batched | two targets, two buttons, two events |
| guard | a rewrite leaves no paid model, a model needs two misses, paid ones are cut, restarts are made | three models, three price moves, one fault |

`lifecycle` (`PromisesKept BanSticks RemindersHold RemindersProgress`):

| Part | Shows | Bounds |
|---|---|---|
| accounts | statuses reported hold, keys need approval, bans stick, payments add up | every handler of the three threads but `/unban`, `/approve_payment` and the date editor (with either of the first two it fails, see below), one at a time, the panel failing, two months on sale, two rejections |
| reminders, warnings | never more than the setting, each warning once a month, every request shown, the exhausted told | two persons, two clients (one reached by mail only), three moves, one forced send, one lost entry, two months |

`lifecycle_race` (`NeverUnearned FetchHolds ChecksHold ListsHold`):

| Part | Shows | Bounds |
|---|---|---|
| payments | nobody gets more than was sold | two threads and crashes, two months on sale: two sales may overlap |
| fetch | a recorded network is one the user came from | two requests at once, two networks and one that is nobody's, two fetches, one move of the status |
| rules | the automatic rule obeys the admin and has its voices; clients keep what was not taken out | a site and one under it, two complainers, threshold 2, one fault |
| check | no outage passes, "down" is dead, causes that were read are named, a pass needs eyes, the alarm ends | three probed tags and Turbo, three rows per run, two runs, two turns of the world; every reading: which layers, rules, users and certificate answered, and which of the wipes the cut output shows |

`lifecycle_support` (`AccessProgress PanelHolds ReserveHolds ZoneHolds
AgentHolds`; the first is what comes about in the end, in every part, and all of
support, quota and hysteria):

| Part | Shows | Bounds |
|---|---|---|
| support | nobody stays in support without a ticket | tickets and the repair in two threads, crashes |
| panel | an update keeps the rest, only the lost are revived and they come back | two threads, two failures of the panel |
| quota | the cut key of a demo user or of a payer in good standing, and of any whom the job finds again and again, returns with the month; the app's key is raised | quotas of 1, 2 and 3, one fault; tickets opened and closed and payments that lapse at any time |
| hysteria | the spent are denied, the paid are let in | one user (entries are apart), fresh 1, stale 3, four events |
| reserve | one timeout per window, holders stay, payers get in | three keys, two of them of one e-mail; one revocation, one fault |
| zone | a sync never empties, the withdrawn is gone, a list arrives | two users, two events, two faults, one run by hand |
| agent | one turn per chat, no session is answered without the preamble, a conversation goes on, turns end | two chats, two workers, three prompts, one fault, either agent |

`polling` (`InTurn InboundProgress HelpHolds ClaimsHold MailHolds BeatsHold`):

| Part | Shows | Bounds |
|---|---|---|
| polling | nothing skipped, repeats are restarts, order, everyone is handled | five updates, batches of three (two batches and a rest), three restarts; lost requests and answers |
| sos | a diagnosis asked within the gate's time follows its report, the one turn comes back | two users, the polling thread and a web thread, three reports; posts that are slower than the gate or hang |
| kit, reverse | another kit only after a failure or a day; one notice a day | two users and four claims; three readers, one unreachable, four notices |
| mail | letters are accounted for, one open request per address, decisions stick, every letter is read | a stranger and a key holder, whose letters may be requests too, two admins, two letters, one fault |
| tickets | a topic is its user's and comes back only by an old row, every message is read once unless an error or a prompt excuses it, every text is in the archive, who is not heard has left the topic, nobody stays in support without a topic | two writers, three messages (one too long, one an attachment), two topics, one lapse: of Telegram's, a crash, a pending prompt, or a row that a web thread read before and writes back |
| beats | one row per window, a living client is seen, a key taken away is forgotten | two tokens, one fault, two changes of keys |

Fairness.  A job of the scheduler or of a timer keeps coming, and a thread or
task that is in a handler goes on (weak: the interval triggers, and threads the
operating system runs).  Strong fairness is asked only of a read, write, send or
restart that is tried again and again, on the step that succeeds: it does not
fail every time.  The host modules list every fairness condition; buttons,
letters, crashes, faults and the world's changes have none.  Nor has anything
that nothing in the program starts: the table of routes, whose promises are
safety only, and the beginning of a run of the failover desk (once begun, the
coroutine goes on).  Of an SOS only the worker is fair, whose wait at the gate
and whose call have time limits; the thread that posts the report may hang.
Nothing makes the web thread that holds an old row of a ticket write it back.
SQLite, Telegram
and the panel give no stronger promise, and no weaker one would let anything be
concluded.

## Findings

Three runs have a counterexample that is the program's own behaviour; their
texts and lines are in `PROJECT.json`.

* `cascade_reset_race`: a monitor run writes back what `/cascade reset` cleared.
* `lockdown_pin_race`: a tick overwrites a command, and the pin is gone.
* `lifecycle_lost_ban`: a dashboard quota change that overlaps a ban lifts it.

More statements of the source are not true of it.  These are written out in the
modules with the mark "NOT TRUE of the code" or beside the property that holds
instead; put in a cfg in place of the combined property, each has a
counterexample.

| Definition | What the source says | What happens |
|---|---|---|
| `CascadeMonitor!EveryChangeLogged` | `dpi_monitor.py` `apply_changes`: audit each change | `log_admin_action` swallows a refused insert and its answer is not read: live, and not in the log |
| `SubProfile!VpnListBeatsDirect` | `subscription.py` 1220-1221: a VPN list beats a DIRECT one | the QUIC rules of the DIRECT list stand before both |
| `ProtocolCheck!WipesNamed` | `protocol_healthcheck.py` 852-853: the audit speaks for all clients | its output is cut after forty problems, which one inbound can fill |
| `MonthlyQuota!EveryCutKeyReturns` | `notifications.py` 835: a monthly allowance forever | the job's query passes over a user who is in support on the 1st, until the next |
| `SupportTopics!AttachmentsArchived` | `forum.py` 302-303: the attachments survive the closure | a user's is logged under its number in his own chat, and the copy is asked for of the group's; what has that number there, if anything, is archived in its place |
| `Sos!ReportAlwaysFirst` | `sos.py` 803: the diagnosis can never land above its report | the worker waits for 30 s and asks anyway |
| `RealityRotation!RevertedIsOld` | `rotate_reality_dest.py` 41-42: a failed step reverts what was changed | the revert stops at the first layer it cannot write or that somebody edited, the status says reverted |
| `PanelClients!PasswordKept` | `xui_service.py` near 757: the password is carried over | a read merged from the inbounds that answered may lack it |
| `MonthlyQuota!PaidStays` | `demo_tiers.py` 92-93: demo keys only | the raise saves the row it read before a purchase |
| `Hy2Auth!SpentStaysKnown` | `web_server.py` 564-565: a failed refresh keeps the reading | a record that cannot be found reads as "not spent" |
| `ReserveNode!RevokedStaysOff` | `fallback_node.py` 292-294: asked again after a revocation | a call that read the list before the deletion stores its answer after it |
| `RuZone!LapsedDropOut` | `ru_exit.py` 31-33: a lapsed user drops out | a run cut short between the swap and the start leaves a config that every later sync finds unchanged (`setup_ru_exit.sh` 237-241) |
| `SubProfile!AlwaysTunnels` | `subscription.py` 1334-1336: proxied "even if geo-resolved" | goes out directly when it is QUIC |
| `SubProfile!NeverStranded` | `subscription.py` 1050-1053: a demotion never empties the group | the profile's exclude-filter outlives the demotion |
| `SubProfile!ClashAgreesForAll` | `subscription.py` 1069: same rules as sing-box | no exit in Russia for lang `en` |
| `SubFetch!FetchKeepsStatus` | `web_server.py` 1226-1237 saves the network | and the status read before it, so a ban meanwhile is undone |

Others are plain from the lines, met while reading for the models, and have no
definition:

* `forum.py` 104-105 wants an undelivered answer surfaced, but a topic that was
  replaced after a transient failure is bound to nobody, and answers in it are
  dropped; a ticket whose opening message is too long with its heading, or only
  an attachment, is reported to the user as created and read by nobody; a
  process that dies between the archive and the save leaves the topic bound and
  later messages out of the archive; the guard against closing twice (`forum.py`
  253) cannot be reached since the ticket is looked up by its topic.
* `telegram_client.py` 24 says the record of an outage is written under the
  lock, but the streak and the record are not; the streak counts over all
  threads and proxies, so the log of line 133 ("all connection attempts
  failing") may be wrong while an entry works; a second short outage overwrites
  the duration of a long one, whose end is then not told.  `TelegramCalls` shows
  that none of it lasts.
* `rule_lists.py` 497-499: what the operator takes out is held off the automatic
  rule, but a failure to write that is not looked at.
* `hermes_client.py` 13-16: a turn that runs over `/ai_reset` remembers the old
  session at its end; `ai_handler.py` 545-547: a first turn that times out is
  told its context is kept, but no session is remembered for it; `ai_handler.py`
  179-182 promises to delete photos, but an early return leaves one.
* `notifications.py`: the sweep goes by the age of the account, not by the time
  stuck, and its update does not look at the status again; two sends of a
  reminder from the job and the dashboard may both go out; the digest names the
  twenty oldest accounts; an expiry warning is marked although the send failed.
* `models/performance.py` 24 and 129 and `failover_notifications.py` 50: a node
  is throttled on the average of what the window holds, be it one sample, the
  score may leave 0-100, an event that comes during a batch run may be answered "batched" and dropped.
  `failover_api.py` calls a coroutine without awaiting it.
* `protocol_healthcheck.py` 954 and 1030: a degraded tag may stay without a
  suspect, and Turbo is passed over when its inbound cannot be seen.
* Nodes of the cluster ask themselves for a vote, the vote cancels the election
  it was asked for, `/health` hands the callee its own health so that a leader
  steps down at each check, and users to sync are selected by a status that does
  not exist.  `Election` models this wiring: a leader with peers never stays.
  Nothing outside the tests starts `NodeClusterManager`, the routing table, the
  trackers or the failover desk.
* Two read-modify-writes on the panel may lose one of them, and a deletion
  followed by an addition that fails leaves the user without a client.
* A paying user's first key is created with `DEMO_DAYS` whatever was paid
  (`callbacks/user.py` 520), and a second tap on support makes support its own
  previous status, so that a paying user comes back as demo (`state_machine.py`
  67, 109).

The passing runs say what holds within their constants. Their limits are real
too; each of these changes makes the named property fail, for the reason given:

| Change | Fails | Because |
|---|---|---|
| `MCCascadeMonitor.cfg`: `"rows"` in `Faults` | `ChangesAreEarned` | a failed write keeps the old streaks rather than losing them (`dpi_monitor.py` 592-600) |
| `MCLockdown.cfg`: `"read"` in `Faults` | `AnswersHold`, `KeepsContract` | an unreadable row looks like "auto, not active", is written back and verified against (`lockdown.py` 221-232, 280) |
| `MCLifecycle.cfg`: `Interleaved = TRUE` | `PromisesKept` | the dashboard's grant overwrites a payment (`web_server.py` 4155-4171) |
| `MCLifecycle.cfg`: `"unban"` in `BotOps` | `PromisesKept` | unbanning somebody who is not banned forgets a key that the panel still serves (`handlers/admin/users.py` 174-180) |
| `MCLifecycle.cfg`: `"approvePayment"` in `BotOps` | `PromisesKept` | 30 days from now, whatever is left (`handlers/admin/users.py` 327) |
| `"rejectButton"`, `"resetApproval"` or `"closeTicket"` in `Checked` | `PromisesKept` | the handler's last save writes back the status it read at first (`callbacks/admin.py` 213, 551; `forum.py` 359) |
| `"ban"` or `"pay"` in `Checked` | `PromisesKept` | a refused transition is logged, ignored and reported as done (`handlers/admin/users.py` 155, `billing.py` 230) |

## The theorems

All from the constants' assumptions of the modules they are about
(`ConstantsOK`, `MailConstants`, `CascadeConstants`, ...), which TLC evaluates in
the runs.  A theorem with a further hypothesis says so here, and why it is
needed; the runs use constants that satisfy it, and "Findings" has what happens
without it.

* `WatchProofs`.
  * Lockdown.  `TypeCorrect` and `PinsAgree` hold in every interleaving and with
    every fault: the invariant says that the row *and* both copies about to be
    written agree with their own mode, because a copy becomes the row.
    `PinsAreConfirmed` likewise: a pin is only reported as held over a row that
    was read back and shows it; `AnswersAreTrue` says the rest about the answers
    while reads succeed.  `PinsHoldApart`, `FlipsAreProved` and `ContractKept`
    are for the detector and the commands apart: then the draft is what the
    detector makes of the present row, and the row's streaks are the history's
    (`proof`).  So the races found by TLC are the only way to break them.
  * Election, for any finite set of nodes and any wiring of peers.
    `ElectionIsSound`: a follower keeps a timer, a leader its heartbeat, and a
    leader has nobody to ask.  `VotesAreKept`: every move changes one node, and
    a node changes its vote only with its term.
  * `CircuitIsEarned` (the sync client): the count that opens a circuit is the
    length of the latest streak of failures, for any callers and threshold.
  * `AlertsAddUp`: failures counted are in a row, since what a tick still has to
    count was counted in the history already; and each slot of the agent is
    free, held by a worker, or about to be given back by one that is late.
    `HostedAlarmsHold` adds that one incident of the probes is one alert.
  * `NoWorkingEntryMissed` (the calls to Telegram): take an entry that worked
    ever since a call began and that no other thread marked meanwhile.  As long
    as there is one, each failed try of the call marks an entry it had not
    marked, and none of its marks comes back before that entry's; so the call
    has as many marks as tries, and there are too few other entries for it to
    give up.  For any nonempty pool no longer than the number of tries.
  * `RotationIsHonest`: a layer that a run has no step left for is on its
    target, or was edited by somebody else since the snapshot; each step looks
    at the layer first.
* `CascadeMonitorProofs`. `TypeCorrect`, and `ReportsStayCapped` with every
  fault: the cap holds of the row and of the copy a run is about to write; the
  step needs that at most one target per network, the head, fires for complaints.
  `AuditKept` (no crash, no reset inside a run): at each step of a run, what the
  log says of a target, unless its row was refused, or what the run still has to
  log of it, is what the row of the cascade says; a refused row stays excused
  until the next row of its target.  `EveryChangeIsEarned` and `ContractKept`
  (only reads and the write of `cascade_auto` fail): the streaks in the row, in
  the run's copy and in the history agree at each `pc`, so a change has its
  streak behind it, and a run is a step of `CascadeContract` or changes nothing
  it speaks of.
* `AccessProofs`, first of `UserLifecycle`, for every interleaving, crash and
  failure of the panel.
  `NobodyIsOverpaid`: every `User` object that a thread holds is covered by the
  months sold, counting those its own handler is about to sell; so no old
  object, whenever it is saved, overpays.  `TypeCorrect`: a thread only ever has
  calls left that the code makes.
  The rest is for handlers one at a time (`~Interleaved`), any plans and
  limits, any panel failures.  A handler is a list of calls, so the argument has
  three layers: which calls may follow which (`Runs`, true of every `Program`);
  what holds of row, panel and the objects held when the handler is at a given
  call, with one lemma per call; the same of the thread that is busy.
  `AnswersAreKept` (what a checked handler reports is so) and `BansStick` need
  nothing else.  `PurchasesAddUp` leaves out the two handlers that set the date
  by hand, `KeysNeedApproval` leaves out `/unban` and a crash in the middle;
  `PromisesHold` is all of them, with exactly the constants of `lifecycle`.
  The other components need no hypothesis beyond their constants' assumptions.
  * `NobodyIsPestered` (`Reminders`): the bound is read from the log before a
    message goes out and the log is written after it, so the invariant says that
    what the job has sent is in the log, lost, or the row it is about to enter
    (`Counted`), and that the row it is about to send is below the bound
    (`Bounded`); the dashboard's reminders only add to the log.  `Told` is the
    same of the warnings.
  * `ThePanelKeeps` (`PanelClients`): the body a thread is about to write has the
    record's flow and password, and a client to be added is on no inbound, as
    long as nobody changed the record (`FoundOut`); each change makes what all
    others know old, which keeps the invariant inductive.
  * `TheReserveStays` (`ReserveNode`): who waits for the pool waits once and is in
    the set in flight (`QueueIs`); the pool's thread only asks in a window in
    which it met no timeout (`WindowIs`).  An addition that finds the address
    taken adds nothing, so a holder stays.
  * `ServedWhoMay` (`RuZone`): the container runs the config of the file, or while
    a run is between the swap and the start the one before (`ConfServed`), unless
    a run was torn there; a run of the timer has an empty list in hand only where
    the config was empty already, and a removal has withdrawn the offer before it
    drops anything (`RunIsSound`).
  * `TurnsAreKept` (`AgentTurns`): conversations in `answering` and working threads
    are in bijection (`OneEach`); a session that is remembered or in use got the
    preamble, and a turn runs in the remembered session unless the conversation
    was cut off from it (`InSession`).
  * `HostedAccessHolds` is these four of the host's specification, with the types
    of `MonthlyQuota` and `Hy2Auth`.
* `InboundProofs`. Polling: the batch is an interval without gaps; what is below
  the offset was handled or is in the batch; an update at or beyond the offset
  was handled at most once per restart.  It gives `NeverSkips`,
  `RepeatsNeedRestarts` and `OrderKept`, together `InTurnKept`, the property of
  the run, for any number of updates and any batch size.  `ClaimsKept` is about
  emergency kits and warnings: the stamp a worker will forget is its own claim's.
  `ReportsComeFirst`: reports are numbered in the order they are inserted and only
  a report's own post opens its gate; a worker that stopped waiting is `late`, and
  of it nothing is said.  `OneRow`: a heartbeat's claim and its row are of
  one window.  `MailSafe`: every letter below the watermark or the end of the
  batch is accounted for, and a request is only decided while it is open.
  `TicketsSafe` (`SupportTopics`): a message is in one of a few stages of its way
  from the reader's chat to the topic and the log, and `TopicInv` says at each
  stage what is already in the topic, in the rows and in the archive; who may
  still be writing (`ReadAreLogged`, `ReadAreOwned`) is what makes it inductive.
  What an outcome of Telegram adds to a topic (nothing, one message or two) is
  told once, by `CopiesGrow`.  A row that a web thread holds is of the user's own
  topic, and what it brings back is in `restored` (`web_server.py` 1231).  With `ReportsComeFirst` it is `HostedHelpHolds`.
* `WritersProofs`. `NetworksStayHis`: the network in the row, in the copies and
  in the log is one the user fetched from.  `RuleTypesHold` and
  `TheOperatorPrevails` (the automatic rule obeys the operator's noes and no
  client loses a rule he left in) with any number of faults; `ListsKept` adds the
  votes behind an automatic rule when at most one call fails: a second failure
  may lose a settlement and the no after it.  `ChecksKept`: what the check run by
  hand concludes from the rows and from whatever it could read of the hosts
  (`Readings`), for all protocols, windows and runs; the rows of
  the latest run are a prefix of the window, an interval of positions
  (`DataLemmas!PrefixIsInterval`, `BlocksCount`).
* `ServedProofs`. `OrdersAreSound`: what a user is handed is the enabled
  protocols of the tier, each once, sorted by verdict, lockdown order, override
  and list, for all lists the operator may save, with repeats and unknown names.
  A list is known by its members and by which pairs of them stand in which
  order; `Keep`, `Drop`, `Once` and `\o` are each told by what they do to both
  (`KeepIs`, `DropIs`, `OnceIs`, `ConcatIs`), a layer of the cascade by
  `LayerIs`, and four layers make the lexicographic order.  `ProfilesKept`: what
  `SubProfile` promises, with and without the operator's lists, for all orders without repeats, which is what
  `OrdersAreSound` gives, and all demotions; the rules are solved once into a
  decision per packet (`SingBoxDecides`, `ClashDecides`) and the promises are
  read off it.  `MovesAreSound`: the exit a user is on and the fallbacks frozen
  with it are the table's, a decision looks at the statuses once, and it finds an
  exit that is ready if there is one (`BadExitLeft`).
  `AdviceIsSound`: the listener has a node's last status unless a callback about
  it is still out, the last one of which carries that status (`WordIsTrue`).
  `EventsAreKept`: every event is in the list, in the running batch, in a batch
  made, decided or late (`EventsAccounted`), and a run makes whole batches.
  `GuardIsSound`: what the run holds of the config and of the state is what it
  read (`GuardData`), a miss it counts was seen by the run before
  (`MissesKnown`), and an old process is known between runs, and about to be at
  the end of one (`OldIsKnown`).
* `DataLemmas`. Induction over a set of numbers, from the well-foundedness of
  strict inclusion between finite sets, and what follows about least elements,
  intervals and blocks of positions; the list lemmas of `Sublists`; and what
  appending, taking the head off and having no repeats mean for the members of
  a list and their number (`AppendIs`, `TailIs`, `MembersCount`).

The theorems about components that a host runs are also stated of the host's
specification (`Hosted...`), the one TLC checks: a step of the host is a step of
the component or leaves its variables alone (`HostSteps`).

For these proofs some data is told by positions rather than by recursion:
`Sublists` gives the code's list comprehensions as picks of positions, and
`ProtocolCheck` takes the latest rows as a prefix.  These assumptions on
constants are there because of the proofs, each true of the code: the tables of
protocols name each once and `DEFAULT_CASCADE_ORDER` names all
(`CascadeConstants`), an order that reaches a profile has no repeats
(`ProfileConstants`), something is probed, the audited tags among them, without
`hy2` (`CheckConstants`), nodes and exits are finitely many
(`ElectionConstants`, `RoutingConstants`), the curated models are some
(`GuardConstants`), the pool of entries and the list of probed tags are nonempty
lists (`CallConstants`, `ProbeConstants`), persons come in a list by age
(`ReminderConstants`), and no key is "no key" (`ReserveConstants`).

Only model-checked: the liveness properties (out of the prover's reach, like
`ENABLED`), which are `Recovers`, `Responds`, `WatchProgress`,
`InboundProgress`, `ServedProgress`, `RemindersProgress` and `AccessProgress`.
Every other property of a passing run is stated by a theorem.  What the monthly
quota and Hysteria's authentication promise is liveness, so only their types are
proved.  What a fold or a recursive function returns for every list is out of
reach where it cannot be told by positions or sets.

## Not modelled, and the plan

Not modelled, because nothing of it is kept or raced for: texts and markup, SQL
and migrations, geography, metrics and their summaries, the fields of an
outbound in a profile, parsing of letters and of domains, prompts and the
agent's conversation, read-only views of the dashboard, host scripts that run
once by hand.  Modelled by what may come out of them: the collectors' SQL
(`Signals`), the other checks of the alert manager, the panel and Telegram.

Left out of modelled components: the guard against a second `GetKey` (handlers
are serial on the polling thread, so that a second tap never meets the first),
the rate limiter and the clean-ups of in-memory tables, the traffic collector
and the limits by address, the CIDR list, the entry detector, the mirror tables
of the panel, the scoring of accounts, `performance_monitor`'s local metrics
(read and dropped).

Smaller simplifications, so that nobody reads more into a property than is there:

* `ProtocolProbes!Verdict`: the three-hour cutoff of the rows (`alert_manager.py`
  1026, 1034-1043), and a failed read of them (1046-1051), which in that cycle is
  "nothing is down" and so ends what was firing; `ProbeProtocol` writes the rows of
  a protocol at once, the code row by row (`health_checker.py` 174-176).
* `ExitRouting!LoadReported`: a listener that raises, or is told where no event loop
  runs (`node_tracker.py` 52-57, 84-92), is not told.
* `HermesGuard!RunBegins`: an unreadable `state.json` (`hermes_model_guard.py`
  826-828), with which a restart still owed is forgotten, and a task's own
  `fallback_chain` (689-700), from which a dead model is dropped like the others.
* `UserLifecycle!Transition`: who pays while paid passes through the state machine
  like everybody; `billing.py` 228-230 skips it.  The state is the same, with more
  steps between which another thread may fall.
* `AgentTurns`: a worker thread that cannot be started, which leaves its chat in
  `_inflight` until the bot restarts.
* `MailIntake`: letters that leave no row (`mail_intake.py` 174-179); the two admins
  may press at the same time, the polling thread serves them one after the other.
* `SupportTopics`: whatever group message has an attachment's number is copied into
  the archive in its place (`forum.py` 307-320); no more than one old row is out at
  a time, and `/sub` stands for every other whole-row save of a web thread.
* `MonthlyQuota`: the path that writes the panel's database file where the panel is
  on the bot's host (`notifications.py` 1098-1176).

Left to do: what a raise and the job may leave a paid key with (`PaidStays` with
the race of the raise set apart), and the other handlers of the dashboard and of
`/unban` beside interleaved ones.

## Running it

`tlc -workers 2 -config <cfg> <module>` for a run of `PROJECT.json`;
`tlapm <module>Proofs.tla` for the proofs.  Runs marked "violation" must fail.
