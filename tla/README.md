# A TLA+ model of the IoT platform

This directory holds TLA+ specifications of the platform in `src/`, the TLC
configurations that check them on small instances, and TLAPS proofs of the
results that hold for every value of the constants.  `PROJECT.json` maps each
definition to the lines it translates and lists the runs, the mutants that each
property must reject, the hazards and the theorems.

1. [The system and its components](#1-the-system-and-its-components)
2. [The modules](#2-the-modules)
3. [The runs](#3-the-runs)
4. [Where code and documents disagree](#4-where-code-and-documents-disagree)
5. [Fairness](#5-fairness)
6. [The proofs](#6-the-proofs)
7. [What is not modelled](#7-what-is-not-modelled)
8. [Plan](#8-plan)

To repeat the results, in this directory:

    tlc -workers 2 -config MeterCommandsMC.cfg MeterCommandsMC     # any run of section 3
    tlapm MeterCommandsProofs.tla                                  # any module of section 6

## 1. The system and its components

Devices speak LoRaWAN (through ChirpStack), MQTT or LwM2M.  ChirpStack publishes
on Mosquitto; `mqtt-ingestion` turns each frame into a row, an archive object
and a NATS event; the consumers of the NATS events evaluate rules, feed
connectors and interpret the water meters; `platform-api` is the HTTP front end
that owns tenants, quotas, gateways, applications and billing; the console is
its browser client, whose pages keep lists, forms and timers of their own.

| Component | State it keeps | Operations | Talks to |
|---|---|---|---|
| shengda-water (`apps/shengda-water`) | meters, readings, leak events, downlink commands (PostgreSQL) | uplink handler, ack handler, send_command, resolve_leak, sync_meters | NATS, ChirpStack REST, PostgreSQL |
| mqtt-ingestion (`services/mqtt-ingestion`) | uplink_frames, payload_archives, objects in MinIO, gateway stats | connect, handleUplink, handleDownlinkAck, handleGatewayStats | Mosquitto, PostgreSQL, MinIO, NATS |
| rule-engine (`services/rule-engine`) | alert_events | ProcessUplink | NATS, PostgreSQL |
| connector-worker (`services/connector-worker`) | connector_deliveries | dispatch (HTTP, MQTT) | NATS, PostgreSQL, outside endpoints |
| connector-mcp-worker | deliveries of MCP connectors | dispatch | NATS, PostgreSQL |
| device-connectivity (`services/device-connectivity`), platform-api: other devices | device_endpoints, telemetry_messages, MQTT sessions, LwM2M locations | create, delete, provision; authenticate, register, report, ingest | devices, PostgreSQL, NATS |
| anomaly-worker (`services/anomaly-worker`) | anomalies | periodic detection | PostgreSQL |
| vpn-pki (`services/vpn-pki`) | the easy-rsa CA directory, client profiles, the CRL | EnsureCA, IssueClient, RevokeClient | platform-api, the OpenVPN server |
| platform-api: RF scan | rf_scan_requests, rf_scan_results | request, pending, results | gateway agents |
| platform-api: devices | devices in ChirpStack, quotas | create, update, delete | ChirpStack |
| platform-api: rules and connectors | rules, connectors | create, update, delete | PostgreSQL |
| platform-api: gateways and applications | tenant_gateways, tenant_applications | create, reassign, update, delete | ChirpStack |
| platform-api: tenants, licensing, billing | tenants, plans, subscriptions | createTenant, deleteTenant, quotas, Stripe webhooks | ChirpStack, Stripe |
| platform-api: members | tenant_members; accounts and roles in Keycloak | createTenantMember, and the end of createTenant | Keycloak |
| platform-api: firmware, API keys, access control | fuota deployments, api_keys | create and start a deployment, authenticate a request | ChirpStack, Keycloak |
| platform-api: decoders | payload_decoders, ChirpStack's codecs | list, create, update, delete, apply | ChirpStack |
| console (`apps/console`) | what a page lists, its forms and timers; session and tenant in localStorage | loads, clicks, polls | platform-api |
| ai-agent | the tenant's tools and texts (platform-api keeps them) | chat and MCP tools over the API | platform-api |
| infra | SQL schema, Compose, OpenVPN configuration | start order, restarts | all |

What is hard in it:

* **Two stores, no transaction.**  Every saga (uplink row then object then
  event; ChirpStack tenant then database row; certificate then database flag;
  command row then device queue then status) commits step by step and can stop
  between two steps.
* **At-most-once buses.**  Core NATS and a clean MQTT session lose what arrives
  while nobody listens; nothing replays a stored uplink.
* **Check then act.**  Quotas, RF scan requests and gateway ownership are read,
  checked in Go and written by a later statement.
* **Matching by content.**  Acknowledgements carry no row id: the ack handler
  guesses the row, newest first, while the device queue is first in first out.
* **Answers to a browser.**  A page asks for several things, by clicks and by
  timers, and shows each answer when it comes: also after the user typed,
  chose another record or opened another page.
* **Order.**  Meter readings are compared with "the previous reading" by event
  time although uplinks can be late or repeated; Stripe events are applied in
  the order of arrival.

What makes each part correct, in short: an operator's command is acknowledged
only by its own meter, and none is forgotten; a frame is stored once, under its
device's tenant, before it is told, and in order; rules and connectors run for
their own tenant and only while they are on; a flow is the difference of two
readings of one meter, and a leak is filed once while it lasts; a slug has one
tenant and every network in ChirpStack is somebody's; ChirpStack and the
database agree on who owns a gateway; a VPN profile is served exactly while its
certificate is valid; a gateway has one open scan; plan, limits and
subscription agree; telemetry is filed under the endpoint that is meant; a
member's row describes an account that has its role; an application is filed
under a tenant of its own network; an anomaly is told once and in time; and
what the console shows, keeps and sends is what is stored, typed and chosen.
Section 3 names the properties that say so, and what each excuses.

## 2. The modules

A module `X` holds a component, `XMC` what its small instances for TLC need
beside it (where that is a symmetry alone, it stands at the end of `X`), `XProofs`
its theorems (those about `TenantProvisioning` are in `PlansProofs`).  Where one module
holds several components, the names of `Init`, `Next` and `Spec` carry the component's.  In each module the sections are: the state, the actions (a handler's
name in CamelCase, one action per transaction or outside call), the
specification, the properties.  A `TypeOK` states the shape of a module's state;
where the module has proofs it is their first theorem.  An operator introduced
by "Mutant:" is what a plausible mistake would make of the definition that
follows it; nothing uses it in the specification.

Three conventions hold everywhere:

* **A step is what the outside world can see at once**: one SQL statement or
  transaction, one HTTP call, one file written.  Between two steps of a handler
  any other handler may run, unless the code excludes it (the asyncio loop of
  shengda-water, paho's ordered callback, one NATS callback per subscription).
* **Faults are counted.**  A failing query, a lost answer, a crash costs one of
  `MaxFaults`; a property that only holds without faults says so, and what a
  fault excuses is noted in a history variable rather than by switching the
  property off altogether.
* **History variables** never guard an action.  They name the cause that excuses a
  state: `accepted`, `offSince` (what was done before), `unsure`, `strays`,
  `tangled`, `crowded`, `free`, `mixed`, `raced`, `muddled`, `loose`, `crossed`
  (which requests overlapped or failed).  Each is as narrow as the code allows:
  a gateway is `tangled` only when two requests for *it* overlapped or one failed.

### 2.1 CommandLedger, MeterCommands — downlink commands

`CommandLedger` is what the history of commands promises to an operator: an entry
is opened once, moves `pending -> sent -> acknowledged` or to `failed`, becomes
acknowledged only against a receipt of its device, and a receipt settles one
entry.  `MeterCommands` is the code:

| Model | Code |
|---|---|
| `row`, `clock` | `shengda_downlink_commands`, `NOW()` |
| `worker` | the asyncio loop: idle, or between two statements of `send_command` (they never await, so handlers exclude each other) |
| `SendCommand`, `EnqueueDownlink` / `EnqueueRefused` / `EnqueueReplyLost`, `MarkSent(Fails)`, `MarkFailed(Fails)` | `worker.py` send_command: insert, enqueue, update, and the `except` branch |
| `AcknowledgeCommand`, `HandleDownlinkAck` | `store.acknowledge_command` and the NATS handler; a negative ack is only logged |
| `Crash` | restart between two statements; nothing at start looks at old rows |
| `queue`, `DeviceAnswers`, `GenericDownlink`, `FlushQueue`, `LoseAck` | external: ChirpStack's device queue, the generic downlink routes, the buses |

### 2.2 UplinkIngestion — mqtt-ingestion

`process`, `session`, `subscribed` follow `main`, `Connect` and paho: the
subscription is made by `Connected` only, a `ConnectTimeout` returns nil without
it, `PahoReconnects` brings the clean session back empty.  `handler.pc` walks
through `Handle`, `InsertUplink`, `StoreObject`, `InsertArchive`, `Publish` (or
`InsertStats`), each with its own failure.  `Resolve` translates
`resolveTenant`: the identifiers are tried in order and a failing query counts
as "not found".

### 2.3 UplinkConsumers, UplinkPipeline — rules and connectors

`UplinkConsumers` has the three services (`Take`, `Call`, `InsertExecution`), the
NATS subscriptions with their pending limit (`Publish`, `Disconnect`,
`Reconnect`, `GiveUp`, `Crash`), and the administrators' side of the same rows
(`CreateRow`, `DeleteRow`, the list of the console as `ShowConnector`, and an
update as `ReadForUpdate` and `UpdateConnector`: the console's toggle, which sends
back what it was shown, or a request with a new password).  `late` marks a request
that read the row before another wrote it: of two such updates one is lost, and
`PasswordKept` says so.  It is the abstract specification of the
consumers: events arrive at any time from anywhere.  `UplinkPipeline` composes it
with `UplinkIngestion` (`EXTENDS` one, `INSTANCE` the other): an event is what
`Publish` put on the bus, and `ConsumersSpec` shows that the composition
implements `UplinkConsumers` under the mapping `events <- Events`.  `uplinks` is what
the bus carries under `platform.events.uplink`, in order: `Deliver` adds a published
uplink to it and hands it to the subscriptions, while acks have a subject of their
own.

### 2.4 MeterReadings — readings and leaks

One handler at a time (`job`): `Take`, `WriteMeter`, `WriteReading`, `WriteLeak`
for an uplink event, `StartSync`, `SyncMeter`, `SyncReading` for an import, and
`ResolveLeakEvent`; `Fail` and `Crash` end it between any two.  `ComputeFlow` with its
`Rounded`, `IsNightHour`, `FromRow`, `DetectLeaks` translate `leak_detector.py`, including
Python's `or DEFAULT`, which reads a stored 0 as absent.  A flow is kept as a
quotient (litres over hours) and as what it is rounded to, ten-thousandths of a cubic
metre per hour, which is what the detection compares; a frame is its number, and its time the sum
of the `Gap`s.

### 2.5 TenantProvisioning — creating and deleting tenants

Concurrent `createTenant` requests (`CheckSlug`, `MakeNetwork` or `SkipNetwork`,
`Insert`, `Rollback`) and `deleteTenant` (`DropNetwork`, `DropRow`) over the two
stores, with `Traffic` giving a row the foreign keys that make it undeletable.
Every call may fail before or after its effect.

### 2.6 GatewayRegistry — who owns a gateway

`lns` is ChirpStack's `tenantId`, `mapping` the row of `tenant_gateways`.  A
request walks through `Quota`, `Create`, `Existing`, `Leave`
(`canReassignGateway`), `Read` and `Write` (`Client.UpdateGateway`, which writes
back what it read), `Tags`, `TagWrite`, `Register`, `AssertOwner`,
`AssertMapping`, `Remove`; `UpdateStatus` suspends tenants.

### 2.7 VpnProfiles, RfScan — the fleet's side services

`VpnProfiles` follows easy-rsa file by file: `Boot`, `Make` (`EnsureCA`),
`LookUp`, `Build`, `Sign`, `Render`, `WriteProfile`, `Revoke`, `GenCrl`,
`RemoveProfile`, then `Mark`, the columns platform-api writes.  A certificate is its
serial number, a gateway here the common name of its
certificates.  `RfScan` has the request table, `AskScan` and `InsertRequest`
(check, then insert), and the agent's loop `Poll`, `MarkRunning`, `Scan`,
`SaveResult`, `Complete`; the script ends at its first failing command.

### 2.8 TenantBilling, DeviceRegistry — plans and what they limit

`TenantBilling` is one tenant between Stripe (external: `Subscribe`, `Renew`,
`Cancel`, with events in any order and repeated until answered) and the webhook
(`Receive`, then `ApplyChange`, `ApplyDeletion` or `ApplyCompleted` on the row,
`UpdateLimits` in ChirpStack, `Answer`, always 200).  `DeviceRegistry` is what
the plan is for: registrations (`ReadPlan`, `CountDevices`, `CreateDevice`,
`CreateKeys`), updates (`ReadDevice`, `WriteDevice`) and deletions while plan
and limits change under them (`Bill`).  The count that a registration is checked
against is of the tenant's first hundred applications: devices in later ones
(`Far`) are registered beyond the quota, up to the limit in ChirpStack.

### 2.9 DeviceEndpoints — devices that speak MQTT or LwM2M

The registry's side (`CreateEndpoint`, `DeleteEndpoint`, `Provision`) and that of
device-connectivity: `Connect`, `Register` and `RegisterSecond` (the two queries
of `ResolveLwM2M`), `Report` and `ReportSecond`, then `TouchLastSeen`,
`InsertTelemetry`, `PublishTelemetry`.  A name is looked up without its tenant
(`Named`), anew for every message.  The map of registrations in `server.go` is
left out: the path it would translate carries the same name, also after a
restart.  `Due` is a history operator: the endpoint the registry means by a name.

### 2.10 TenantMembers — the people of a tenant

One action per call of `createTenantMember`: `FindUser`, `CreateUser`,
`AssignRealmRole`, `SendInvitationEmail` in Keycloak, `InsertMember` in the
database, `CutShort` for a process that ends in between; `RemoveTenant` is what
the deletion of a tenant does to its members.  The end of `createTenant` makes
the first member by the same calls.  Keycloak is used as the repository uses
it: an email has one account at most, and accounts are never deleted.  So an
account left half made by a failure bars its email for good; the invariant
names every such account's cause.

### 2.11 ApplicationRegistry — whose an application is

An application has an owner in each of two stores: its tenant in ChirpStack
(`app`) and the tenant of its row (`filed`).  A request, `listApplications`,
`createApplication` or `onboardingBootstrap`, walks through `Scope`
(`effectiveTenantID`), the call to ChirpStack, `Owner` (`platformTenantID`,
which begins with a second `effectiveTenantID`) and `SyncApplications`, one row
after another.  `CreateTenant` enters the same walk with the network it adopts
(`syncTenantResources`), and
`DeleteTenant` takes tenant, network and rows away.  `sound` in a request and
`doubted` on an application record the three causes that may let the stores
disagree: a call or a look-up that failed, a tenant made between the two
look-ups, and an administrator's choice of a tenant without a network.

### 2.12 AnomalyDetection — what nobody would notice

A run of the worker is `Run`, then one action per statement: `DetectDevices`
(silent devices, weak signal, low SNR), `DetectSpikes` and an `InsertSpike` per
tenant; `RunFails` ends it at any of them, and the next tick begins anew.  The
windows are the code's hours.  Frames come in bursts, averages are compared as
sums.  An anomaly hides its like by device alone, so that a device that sent for
two tenants may be told to one of them only; and a resolved one that still holds
is told again by the next run.

### 2.13 The console

Thirteen modules, each a page or a few pages that share their behaviour, and
the codecs.  In all of them the platform's part is reduced to what the page can
tell of it.  A *load* is served, then delivered, so that answers overtake each
other and are stale when they come; a request that changes something takes
effect when it is answered, or takes effect and loses its answer, or fails.
Only the buttons that the code disables are disabled.

| Module | Code | What it keeps |
|---|---|---|
| `ShengdaCodec` | the three copies of the Shengda codec (platform-api, ChirpStack, `shengdaDecode.ts`), the rows of DataMessagesPage | frames as sequences of bytes, with and without header; `PlatformDecode`, `ChirpStackDecode`, `ConsoleDecode`, and `Normalize`, which takes base64 that looks like hexadecimal for it |
| `WaterConsole` | WaterMetersPage | list, selected or typed meter, `LoadDetails`, `Poll` every 30 s, `SendCommand` |
| `MeterTwin` | WaterMeterDigitalTwin and the interval form | live and simulated valve, `SimulationEnds` 400 ms after the click, `InSeconds`, `ApplyPreset` |
| `DecoderEditor` | DecodersManager, `handler/decoders.go` | one form for all decoders, the chosen profile, `ImportShengda`, `ApplyToChirpStack` to the profile on show or to one that ChirpStack makes |
| `LiveLists` | LeakDetectionPage, DataMessagesPage, AnomaliesPage, NocDashboard, AnalyticsDashboard, CustomDashboardView, DeviceLinkMetricsPanel | a filter, a list, a timer or none (`polled`); a page is a record of what it does |
| `CreateForms` | DevicesPage, DeviceProfilesPage, ApplicationsPage, IoTDevicesPage, RulesPage, GatewaysPage, SettingsPage, CreateCustomDashboardPage | a form and a list; a page is a record of whether it closes, empties, holds its button |
| `FirmwareUpdates` | FuotaPage, `handler/fuota.go`, `store/fuota.go` | upload, deployment row, multicast group and its members, start |
| `DevicePage` | DeviceDetailPage, DeviceDownlinkQueuePanel, `handler/shengda.go` | the key's field, the downlink queue |
| `GatewayPage` | GatewayDetailPage, GatewayConnectivityPanel, GatewayRfScanPanel | three panels over one gateway |
| `AgentConsole` | AgentChatPage, AgentSettingsPage, `store/agent_config.go`, `builtin_allowed` | conversation, configuration, the tenant's tools |
| `OnboardingWizard` | TenantOnboardingWizard, ClientDashboard, `handler/onboarding.go` | the steps done, as the wizard, the dashboard and the platform know them |
| `TenantsAdmin` | TenantsAdmin and its TenantUsersPanel | list, unfolded tenant, its users, the password shown |
| `BillingPage` | BillingPage | plans, subscription, interval and plan chosen, checkout |
| `ConsoleSession` | `auth.ts`, `api.ts`, `tenantScope.ts`, TenantScopeSelector, AppShell | session and scope in localStorage, two tabs with what each shows |

Facts of the code that the properties have to except, each by a history variable:

* a list of meters asked for before one was chosen takes the choice away
  (`stolen`); the simulated valve follows to another meter when the meter changes
  within the 400 ms (`strayed`);
* a template, a codec or a creation's answer fills whatever form is open by then
  (`late`); DecodersManager keeps the profile chosen for the decoder before when
  the next has none, which `DecodersKeptApart` allows because the list of profiles
  shows it; and an import, a creation or a later list can bring the decoder on show a profile
  that the form does not follow (`kept`);
* lists without a timer stay as an overtaken or failed answer left them;
* a model saved before the page of a gateway has loaded is not the one on show
  (`early`);
* the wizard's buttons are free before the load they cause has come, and
  overlapping loads can undo steps already shown, with no poll to correct it; its
  fifth step is never the current one;
* a suspension clicked twice can undo the activation clicked in between
  (`doubled`); the password of a new user is lost when its panel was folded;
* the subscription's answer overwrites the interval chosen before it came, and if
  the plans come first, the first plan stays chosen;
* the settings of the agent saved before they have come are blank (`early`), and a
  list of tools that is empty allows them all;
* the tenant an administrator chose is one for all tabs, but only the tab that
  chose it reloads (`moved`, `mixed`); a session expires for good, since the refresh
  token is never used; who has no role may write.

`ConsoleMC` puts the fourteen side by side, as in 2.14.

### 2.14 Composition

Components that interact are composed: ingestion and consumers in
`UplinkPipeline`.  Components that share nothing are put *side by side* in one
run (`FleetMC` and with ingestion `GatewaysMC`, `PlansMC`, `UplinkPipelineMC`,
`ConsoleMC`): a variable (`part`, or `side` in `GatewaysMC`), chosen by `Init`, says
which one runs, so that their state spaces add up.

## 3. The runs

Every passing run reaches its bound on requests, messages and faults; the
liveness runs use no symmetry.

| Run | Instance | Shows |
|---|---|---|
| `commands` | one instance, used in two ways: 2 meters of 2 tenants, 2 commands with equal payloads, 2 acks, 1 generic downlink, 1 fault, in any order; or 1 meter, 3 commands of 2 payloads, 3 acks, one command at a time | `AckOneToOne`: an acknowledged row rests on its own positive ack of its own device. `SentReachedQueue`: "sent" was accepted by ChirpStack. `NoForgottenCommand`: without a fault only the command in progress is "pending". `AttributedInTurn`: one at a time, the matching by content is exact. `AcksDrain` (liveness). `LedgerSpec` (refinement) |
| `uplink_deaf`, `uplink_scope` | 1 message, 1 fault | violated on purpose: section 4 |
| `console_gateway` | the page of one gateway as in `console` | violated on purpose: section 4 |
| `consumers` | a rule and an MQTT connector, 2 events, 1 fault; two browser sessions and two passwords until the first event or service, then one of each | `CallsAndLogAgree` (`TenantsKeptApart`, `LogOfRealRuns`), `PasswordKept`, `NoCallAfterOff`, `DueIsCalled` (liveness) |
| `pipeline` | 1 device of `t1` heard by a gateway of `t2`, 2 messages, 1 fault on each side. Endpoints: 2 tenants with a device of one name, over LwM2M or MQTT, 3 rows, 1 message, 1 fault. Members: 2 requests, 2 emails, 2 tenants, 2 faults. Applications: 2 requests, 2 applications, 2 networks, 1 fault. Anomalies: 1 device of 2 tenants, 2 bursts, 27 h, 1 failed run | `CallsFollowFrames` (`CallsRestOnFrames`, `EndToEndOrder`), `ConsumersSpec` (refinement), `RecordsInPlace` (`TelemetryInPlace`, `MembersMatchAccounts`, `ApplicationsInPlace`, `AnomaliesTold`) |
| `readings` | 1 meter, 2 tenants with different settings, 3 uplinks out of 5 payloads and 2 gaps, 1 import, 1 fault | `MeterIsTrue` (`FlowIsMeasured`, `MeterShowsNewest`, `LeakIsFiled`), `OneActiveEvent`, `VerdictIsFinal` |
| `provisioning` | 3 requests over 2 slugs, 1 fault, 1 restart | `OneRowPerSlug`, `NoNetworkForgotten`, `RowKeepsNetwork`, `AnswerIsTrue` |
| `gateways` | 2 gateways, 2 tenants, 3 requests, quota 1, 1 fault, 1 suspension | `OwnersAgree`, `QuotaHeld`, `TakenWithLeave` |
| `fleet` | VPN: 2 gateways, 3 calls, 1 fault, 1 restart. RF scan: 2 gateways, 3 users, 2 faults, 1 return. mqtt-ingestion: 3 messages of any kind from 2 devices, 2 faults | `GatewayRecordsAgree` (`ProfileInForce`, `OneOpenRequest`), `ScansSettle` (liveness). `EventBacked`, `OneRow`, `InOrder`, `StoredThenPublished` (liveness) |
| `plans` | billing: 2 subscriptions, 2 plans, 2 webhooks at once, 3 occasions, 1 fault. Devices: 2 devices that are counted and one that is not, 2 registrations, 2 updates (none while there is the third device), limits 1 and 2, 1 fault | `SubscriptionInForce` (`RowShowsSubscription`, `LimitsFollowPlan`), `QuotaKept`, `DisabledByRequest` |
| `console` | frames of up to 3 of 10 items; each page with 2 records, 3 clicks (2 on the busiest), 1 failed request, 1 change by others; 2 tabs, 3 users, 2 tenants | `FramesReadBack`; `FormsKeptApart`; `CommandsAsMeant`; `ListsAsTold`; `DevicesAsShown`; `TenantsAsSet`; `TabsInPlace`; `ConsoleSettles` (liveness). Each is the conjunction of the pages' own properties, named in `ConsoleMC` |

A property in parentheses is a part of the one before it: an invariant of the
module it is defined in, conjoined in the MC module.

Why the bounds are enough to see the interesting cases:

* Attribution and uniqueness go wrong with two commands, two acks or two rows; a
  third command or message shows one that comes *after* the confusion.
* `commands` uses one payload while commands interleave, the hard case for matching;
  one at a time it uses two, so that a wrong row can be told from the right one.
  The two meters share the loop, the ack stream and nothing else.
* `readings` has the smallest payloads that make each leak type occur, be
  interrupted and occur again: an index that rises by 600 litres in half a day or in a
  day, by 2 litres (which only rounding makes a flow), after 50 h, falls,
  is missing, a valve closed or unknown, an alarm.  The second tenant's settings
  start the night at midnight, the 0 that Python reads as absent.
* `gateways` and `provisioning` need three requests: two that overlap and one
  that profits from what they left.
* One fault at any step, with concurrency unrestricted, is what each property
  excuses by name; two faults of mqtt-ingestion in `fleet` show a store that fails after a
  restart, and of RF scans a second failure during the agent's recovery.
* Endpoints: three rows let a name be deleted and made again beside its other form;
  messages do not meet each other, and what a message meets are rows.
* Members: the race is between two requests for one email; a second fault spoils
  the request that the first one left room for.
* Applications: two requests make every disagreement between a look-up and a
  look-up, and a race of two bootstraps; two applications show one of them moved.
* `plans`: three occasions let a subscription start, renew and end, or two
  subscriptions meet; both orders of every pair of events are reached.
* Anomalies: gaps of 6, 7 and 20 h step over and onto the six hours and the day.
* `console`: two records are what an answer can be wrong about; with three clicks the
  user asks, changes the record and acts on what came.  Three items let one
  that is misread shift the next, and a second one of a type replace the first.

Each property has a mutant in `PROJECT.json` that TLC must reject under the
run's own configuration: a dropped status in a `WHERE`, a password restored only
when absent, an upsert without its conflict target, a plan written after the
limits, an off-by-one in a quota, a form that empties itself although the request was
refused.  A conjoined property has one for each of its parts.

## 4. Where code and documents disagree

* **`uplink_deaf`, `KeepsListening`** — `README.md:149` says mqtt-ingestion listens
  to the uplink topic.  The subscription is made once, inside `Connect`
  (`services/mqtt-ingestion/internal/mqttclient/client.go:53`), the session is
  clean and no `OnConnect` handler exists.  The run shows a service that is
  subscribed and loses its connection once: after paho's automatic reconnection
  it runs and receives nothing until it is restarted.  (A `Connect` that times out
  with a nil error, or a SUBSCRIBE that is not granted, never subscribes; the
  model has both, and the property says nothing of them.)
* **`uplink_scope`, `TelemetryScoped`** — `004_tenant_isolation.sql:20` says
  telemetry is scoped by tenant.  `resolveTenant` (`ingest/handler.go:72`) treats a
  failing query as "not found" and tries the next identifier, so that one
  database error can file a frame under the tenant of the *gateway* that heard it.
* **`console_gateway`, `NotCompatible`** — `GatewayDetailPage.tsx:13` offers "Non
  compatible", and its line 116 says to enable scans only for gateways with the
  radio.  Saving that choice sends `rfScanSupported: false` and no model;
  `updateGateway` (`handler/lorawan_write.go:403-413`) writes the tag 'false' and
  leaves the tag of the model, and `gatewayRfScanSupported`
  (`rf_scan_util.go:39-48`) takes a known model for support whatever the tag
  says.  So the gateway can still be scanned, and the page goes on showing it as
  compatible.

What the history variables excuse is worth reading as a list of the code's known
weak points: overlapping requests for one gateway, a stale `UpdateDevice` or
`UpdateGateway`, quotas counted before the creation, opposite VPN requests at
once, a name borne in two tenants, two subscriptions at once, a webhook error hidden behind the 200.  No
document of the repository promises otherwise, so they are hazards and not
findings.

## 5. Fairness

Only what the code schedules is assumed; users, devices, brokers and the network
owe nothing.

* `MeterCommands.Fairness`: the asyncio loop runs its ready callbacks in order
  and every call inside `send_command` returns or times out, hence weak fairness
  of its steps and strong fairness of the ack handler, which must get its turn
  between requests.
* `UplinkIngestion.Fairness`: weak fairness of the handler's steps (each Go call
  returns) and of start, connection and reconnection (Docker's
  `restart: unless-stopped`, paho's retry loop).
* `UplinkConsumers.Fairness`: weak fairness of the handlers of the Go services,
  whose HTTP and MQTT calls have timeouts, and of their restarts.  None for
  connector-mcp-worker: its MCP call has no timeout, and `DueIsCalled` does not
  speak of it.
* `RfScan`: weak fairness of the agent's own loop while it runs; nothing starts it
  again once it has ended, which `ScansSettle` therefore excuses.

* `ConsoleFairness`: a browser's interval timers fire (the polls of WaterMetersPage,
  of LiveLists' pages with a timer, of the queue and the scan panels), and a request they
  made is served and delivered, since `apiFetch` turns every failure into an answer
  too.  No click is fair.  The run does not check for deadlock: a user has a number of clicks
  and pages without a timer then rest.

## 6. The proofs

The proofs assume the `ASSUME`s of each module and nothing else; TLC evaluates
them in every run whose module extends it.  They hold for any number of devices,
tenants, rows, services, requests, messages and faults.

| Module | Theorems | Argument |
|---|---|---|
| `MeterCommandsProofs` | `TypeCorrect`, `StatusTerminal`, `SentMeansAccepted`, `NothingForgotten`, `AckJustified`, `ImplementsLedger`, `AttributionIsExact`, `AcksAreAttributed` | `Core` adds to the types what `send_command` knows of its own row at each step (`WorkerRow`: still 'pending' while it works), which holds because no other handler runs meanwhile. `update_command_status` writes by id without looking at the status, so this is what keeps a final status final. `AckJustified` carries the set of used acks below `consumed`. `ImplementsLedger` maps a receipt to a positive ack no row has used, and each action to one ledger step or a stutter. `AttributionIsExact` is about `SerialSpec`, where commands are sent one at a time, without faults and generic downlinks, each in the name of its device's tenant: at most one frame of a device is on its way, there or back (`OneOnTheWay`), it is the last command of its device, sent after all others (`OnTheWayIsLast`), so the newest candidate is the one the device answered. `AcksAreAttributed` is the same of `CommandsSpec`, which the run `commands` checks |
| `UplinkConsumersProofs` | `TypeCorrect`, `CallsAndLogCorrect`, `PasswordSurvives`, `OffIsOff` | `JobsFit`: the rows a handler has still to serve were selected for its event, and each is on or went off after the event was published; what it has to log was called. Every step only appends to events and calls and remembers when a row went off (`Remembers`), which keeps that true of handlers that do nothing. `SecretsHeld`: a session shows a mask, and saves the stored password, a new one, or an old one that another update overtook |
| `UplinkPipelineProofs` | `TypeCorrect`, `EventsAreBacked`, `StoredOnce`, `PublishedInOrder` | `Frontier`: the message in hand is newer than everything stored or published, what waits is newer still; `Progress`: what the handler has done at each step. A crash empties the handler and the inbox, which keeps both |
| | `CallsFromEndToEnd`, `PipelineRefines` | about `TrafficSpec`: `Fed`, the events the consumers see are stored frames in the order of the bus, makes each step of the pipeline one of `UplinkConsumers` or a stutter. So `Served!Inv`, what `UplinkConsumersProofs` proves, holds of the pipeline too; and the consumers take their events in order (its section "The order of the calls": what a service has called for is older than what it has in hand, and that older than what waits), which gives the order from end to end |
| | `RecordsStayInPlace` | about `TrafficSpec`, one invariant for each of the four components beside the pipeline. Endpoints (`EndpointInv`): what a message in hand is due to is the row it was found by as long as that row is there (`InHand`). Members (`MembersInv`): what the account looks like at each step of its request, and that a row was inserted by a request that is over. Applications (`AppsInv`): while a request has no excuse, its network is that of the tenant it acts for, or gone with its applications (`Fits`), and whatever has no row of a tenant that is there is in some request's list (`Pending`). Anomalies (`AnomaliesInv`): while nothing happens, what a run has behind it is told (`SoFar`) |
| `MeterReadingsProofs` | `TypeCorrect`, `LeaksRestOnReadings`, `ActiveEventIsUnique`, `VerdictsAreFinal`, `FlowsAreMeasured`, `MeterPageIsTrue` | `JobRestsOnReading`: the handler that files leaks has stored the reading they were found in; the conflict target of the upsert gives uniqueness. Frames and readings are append-only, so a flow stays measured once it is. `MeterPageIsTrue` needs the order of the work: `InTurn` (frames are handled in the order they came, each once), `NothingLost` (until something fails, what is behind a waiting frame waits as well), `Filing` (what a stored reading shows is on file, or still in the hands of its handler), `Shown` (a row shows the last value of each field unless that frame is pending) and `SyncIsNew` (what arrived after the archive an import is about to write is on its way, so an import cannot have the last word) |
| `PlansProofs` | `TypeCorrect`, `SlugIsUnique`, `NetworksAreAccounted`, `RowsKeepNetworks`, `AnswersAreTrue` | about `TenantProvisioning`. `IInv` says for each row which request made it (`RowOrigin`), for each network who names or still holds it (`NamedWasMade`, `Accounted`), and that a deletion under way works on the network of its row |
| | `RowsFollowSubscriptions`, `PlansBoundDevices`, `RequestsDisable` | about `PlansSpec`, with more steps than the run's `PlansBounded`. `SubscriptionInForce` speaks of the moment when every event is answered; `BillingInv` says of every state that is not muddled that the newest waiting event tells the truth or the row shows it (`SubscriptionTold`, `CustomerTold`, `LimitsTold`), that a call past its write has shown its event (`WorkShows`) and that the one at work is the oldest (`InTurn`). `RegistryInv`: a registration nothing came in between knows the plan and has room in it, an update knows whether its device is disabled. `SizeAssumption`: a plan is a number of devices |
| `FleetProofs` | `TypeCorrect`, `RecordsAgree`, `GatewaysAreTakenWithLeave`, `QuotaIsHeld` | about the gateways: on a gateway that is not `tangled` at most one request is at work (`Lone`) and it knows the owner it read (`Knows`); without these two the agreement is not inductive, because a stale write would break it. `QuotaIsHeld` counts: a request that may still give its tenant a gateway has room for it (`Room`), since a tenant that is not `crowded` has one such request at work; it is for finite sets of gateways, a hypothesis of the theorem |
| | `FleetRecordsAgree` | `Records`: which of key, certificate, profile and row agree at each step of a request, and `Alone`: on a gateway that is not `mixed` the requests at work are of one kind and at most one is past its first look, so that the step which breaks the agreement is known to mend it; `AuthorityWhole`: EnsureCA leaves nothing or a whole authority unless it was cut short; `OneAsked`: one scan request of a gateway is open or about to be inserted |
| `ConsoleProofs` | `FormsStayApart`, `CommandsGoAsMeant`, `ListsAreAsTold`, `DevicesAreAsShown`, `TenantsAreAsSet`, `TabsStayInPlace`, `FramesAreReadBack` | about `ConsoleSpec`, without its fairness (`ConsoleSafety`). Each page has an inductive invariant of its own, which says what its form and its list show, what each request on its way was asked for and what its answer will bring: for the decoders, that a form's script is the selected one's or was typed (`OwnScripts`) and that the profile on show is the selected one's, was chosen for it or was kept (`ProfileFits`); for a gateway's panels, that at most one request at a time can change what a panel shows (`ConnCalm`, `RfCalm`); for the agent, that an answer follows its question (`AnswersFollow`) and each tool's draft is its own (`ToolsKept`); for the wizard, that unless loads overlapped what is shown or about to be shown is what the tenant has (`WizardCalm`); for the tenants, that a status still on its way is the one last asked for (`StatusSettled`). The pages share nothing, so the other pages' actions leave an invariant alone. For the codecs, `CodecInv`: wherever the frame stands in any bytes, reading gives what was written and then what follows it, or stops there if an item is of unknown length (`FrameIsRead`), so that an item written behind it is read too; the loop of `readTvItems` unfolds (`ReadingUnfolds`, a well-founded induction on the bytes left) and reads an item of each form and goes on behind it (`ItemIsRead`) |

The properties are inductive only with these strengthenings: `OneRow`, for
instance, says nothing of a handler that is about to insert, and `RecordsAgree`
nothing of the tenantId a request holds.

The theorems about `TrafficSpec` are about the specification that the run `pipeline` checks,
with all its components side by side.  `UplinkConsumersProofs` is instantiated there
with the pipeline's events for the consumers', so that its lemmas are used and not
repeated; this is why its assumptions are stated again, of the pipeline's constants,
in `ConsumersAssumption`.  Of the other components the proofs need: that `None` is
no account (`NoneIsNoAccount`), that devices are identities and `None` is no row
(`GadgetsAssumption`), that the words for "no network", "to be made" and "gone" are
no network's name and a user's tenant is one that is there or `None`
(`NetworksAssumption`), and that the clock does not go back (`TimesAssumption`).
Those about the console need that `None`, the answer not yet there, is no decoder's
script, button, answer, plan or set (`NoneIsNoScript` and the assumptions after it), and
that a meter writes bytes (`ItemsAreBytes`): types of at most 14 bits, lengths of at most
255, and without a length only a value of the length its type has, or a type the codecs
do not know; that frames are finite is `FramesAreFinite`.  A longer value would not fit the
byte of its length; a shorter one without a length is what a meter of another version might
write, and there the codecs read it wrongly.

The attempt to prove `DecodersKeptApart` showed that it was too strong: a list can bring the
decoder on show a profile while the form goes on showing another one.  That takes more
clicks than the run has.  The history variable `chosenFor` now says so (`kept`, by
`BringsProfile`), and TLC has checked the page alone with five clicks.

Only model-checked:

* all liveness (`AcksDrain`, `StoredThenPublished`, `DueIsCalled`, `ScansSettle`,
  `ConsoleSettles`): the prover has no rule for ENABLED.

## 7. What is not modelled

Left out of the modules above, each because no property of theirs tells it apart:

* malformed payloads and messages, which every handler drops at its first line;
* the millisecond in the key of an archive object: two frames of one device in one
  millisecond would share an object;
* in which direction a tie is rounded when a flow has more than four decimals, and the
  layout of every text;
* device profiles, tags and the daily usage figures;
* passwords, the admin token, and accounts an administrator deletes in Keycloak;
* plan changes made in Stripe's own portal, which keep the metadata's old plan;
* the move of a gateway to another tenant, which leaves its VPN columns as they are;
* revocation as OpenVPN sees it: `server.conf.tpl` has no `crl-verify`, so that the
  CRL that `VpnProfiles` keeps whole is read by nobody;
* the key of an LwM2M device's DTLS session, since the other port asks for none;
* `last_seen_at` beyond its being set, and the event of telemetry beyond its being
  told: nothing in `src/` subscribes to `platform.events.telemetry`;
* one meter row per device although two tenants may use the same identifiers.

* of the console: layout, charts and maps, the diagrams, the public pages, and of
  IntegrationsPage all but the toggle of a connector; the wording of messages;
* the queries behind dashboards, analytics and NOC: each is one SELECT over tables
  that other modules write.

Out of reach: the ai-agent's choices, which are a language model's or a list of
patterns'; Keycloak, a directory used through its REST interface; the decoders'
JavaScript but for the Shengda codec; the infrastructure's files, which the modules
read as facts.

## 8. Plan

Built, in this order: the commands and their ledger, ingestion, its consumers
and their composition, readings and leaks, tenants, gateways, VPN and RF scan,
billing and devices, endpoints, members, applications, the console's pages with
decoders, firmware and agent, anomalies; proofs of commands, ingestion, readings,
tenants, gateways, the consumers, the fleet, plans and devices, the pipeline from device
to call, and endpoints, members, applications and anomalies beside it; then the
console's pages.

Next, most important first:

1. *TenantScope*: the refusals (suspended tenants, roles, API keys) and the scope of
   the data that the dashboards read, as pure operators over the tables, checked
   against a reference definition and used as the guard of the existing modules'
   requests.
2. *Compositions with the console*: `WaterConsole` over `MeterCommands`, whose
   acks its polls show; `TenantsAdmin` over `TenantProvisioning`.
3. *Payload rows*: the choice of the decoder for an archived payload.

New components join one of the runs that hold several side by side, as long as
it stays under five minutes.

Proofs: what is left is liveness, for which the prover has no rule; next would
be the refinements that the compositions above call for.
