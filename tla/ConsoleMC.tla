----------------------------- MODULE ConsoleMC ------------------------------
(***************************************************************************)
(* Small instances for TLC of the parts of the console, one page or one    *)
(* tab each.  The initial state picks the part that runs; the others stay  *)
(* in one of their initial states, so that the states of the parts add up  *)
(* instead of multiplying.                                                 *)
(***************************************************************************)
EXTENDS Integers, Sequences, TLC

CONSTANTS
    None, Waiting, MaxItems, MaxClicks, MaxPolledClicks, MaxFaults, MaxOthers, MaxChanges,
    MaxExpiries,
    CodecItem, Decoder, Profile, Meter, Typed, DataOf, Entry, ListItem, MatchOf, Name, File,
    DevEui, Key, Builtin, Custom, Model, Mode, Tenant, User, Plan, First,
    Tab, Account, Feature, Admin, Writer, Home, Bought,
    KeyAtStart,  \* what may be stored when the device's page is opened, and
    ModeAtStart  \* how the gateway may be connected then

\* A missing value is no script, no button, nothing the platform answers, no plan and
\* no set of tools or of things.
ASSUME NoneIsNoScript == None \notin Decoder \cup {"typed", "shengda", "template"}
ASSUME NoneIsNoButton == None \notin {"rf", "mode", "vpn", "scan"}
ASSUME NoneIsNoAnswer ==
    /\ None \notin [mode : Mode, vpn : BOOLEAN]
    /\ None \notin [supported : BOOLEAN, model : Model \cup {None}]
ASSUME NoneIsNoPlan == None \notin Plan
ASSUME NoneIsNoSet ==
    /\ \A tools \in SUBSET Builtin : tools # None
    /\ \A steps \in SUBSET {"application", "profile", "gateway", "device", "traffic"} : steps # None

VARIABLES
    part,       \* the part that runs
    header, frame, codecWritten, codecItems, legible,
    editorStored, editorCreated, codec, decoders, editorSelected, isNew, editorForm, profile,
    editBusy, editorPending, chosenFor, late, editorClicks,
    meters, waterSelected, readings, network, waterBusy, waterPending, waterChosen, stolen,
    order, waterClicks,
    twinOf, twinMode, simBusy, simValve, liveBusy, twinInterval, strayed, twinSent,
    twinClicks,
    listPage, key, chip, listStatus, listVersion, listRows, listQueue, resolving, resolved,
    overtaken, listFailed, listClicks,
    formPage, open, formForm, formRows, formPanel, saving, formStored, formVersion,
    formPending, refused, formAsked, formCrossed, formFailed, formClicks,
    picked, firmware, deployments, fuotaRows, fuotaPending, astray, told, unmarked,
    fuotaFailed, fuotaClicks,
    deviceStored, deviceQueue, keyText, deviceItems, deviceBusy, devicePending, entered,
    hasty, kept, others, deviceFailed, deviceClicks,
    agentPage, messages, loading, agentSent, replaced, config, customs, text, all, enabled,
    draft, editing, agentShown, loaded, agentEarly, unsaved, agentPending, agentFailed,
    agentClicks,
    rf, gatewayMode, vpn, scan, gw, rfModel, conn, pick, gatewayPanel, hidden, held,
    gatewayPending, gatewayEarly, both, gatewayFailed, gatewayClicks,
    have, wizardStatus, openStep, wizardBusy, wizardChosen, counts, wizardPending, overlapped,
    wizardFailed, wizardClicks,
    tenantStored, spare, tenantRows, expanded, users, tenantCreated, mount, success,
    tenantPending, wanted, doubled, tenantCrossed, tenantFailed, tenantClicks,
    subscribed, sub, plans, billInterval, billSelected, billPending, billChosen, clicked,
    bought, changes, billFailed, billClicks,
    session, expired, scope, at, tabShown, features, tabAsked, listing, moved, mixed,
    tabWritten, expiries, tabClicks

codecPart == <<header, frame, codecWritten, codecItems, legible>>
editorPart == <<editorStored, editorCreated, codec, decoders, editorSelected, isNew,
    editorForm, profile, editBusy, editorPending, chosenFor, late, editorClicks>>
waterPart == <<meters, waterSelected, readings, network, waterBusy, waterPending,
    waterChosen, stolen, order, waterClicks>>
twinPart == <<twinOf, twinMode, simBusy, simValve, liveBusy, twinInterval, strayed, twinSent,
    twinClicks>>
listPart == <<listPage, key, chip, listStatus, listVersion, listRows, listQueue, resolving,
    resolved, overtaken, listFailed, listClicks>>
formPart == <<formPage, open, formForm, formRows, formPanel, saving, formStored, formVersion,
    formPending, refused, formAsked, formCrossed, formFailed, formClicks>>
fuotaPart == <<picked, firmware, deployments, fuotaRows, fuotaPending, astray, told,
    unmarked, fuotaFailed, fuotaClicks>>
devicePart == <<deviceStored, deviceQueue, keyText, deviceItems, deviceBusy, devicePending,
    entered, hasty, kept, others, deviceFailed, deviceClicks>>
agentPart == <<agentPage, messages, loading, agentSent, replaced, config, customs, text, all,
    enabled, draft, editing, agentShown, loaded, agentEarly, unsaved, agentPending,
    agentFailed, agentClicks>>
gatewayPart == <<rf, gatewayMode, vpn, scan, gw, rfModel, conn, pick, gatewayPanel, hidden,
    held, gatewayPending, gatewayEarly, both, gatewayFailed, gatewayClicks>>
wizardPart == <<have, wizardStatus, openStep, wizardBusy, wizardChosen, counts,
    wizardPending, overlapped, wizardFailed, wizardClicks>>
tenantPart == <<tenantStored, spare, tenantRows, expanded, users, tenantCreated, mount,
    success, tenantPending, wanted, doubled, tenantCrossed, tenantFailed, tenantClicks>>
billPart == <<subscribed, sub, plans, billInterval, billSelected, billPending, billChosen,
    clicked, bought, changes, billFailed, billClicks>>
tabPart == <<session, expired, scope, at, tabShown, features, tabAsked, listing, moved,
    mixed, tabWritten, expiries, tabClicks>>

parts == <<codecPart, editorPart, waterPart, twinPart, listPart, formPart, fuotaPart, devicePart,
           agentPart, gatewayPart, wizardPart, tenantPart, billPart, tabPart>>

\* Items of the frames: a flow, meter readings (one with a byte too many), a
\* valve, a voltage, and types that one decoder, two or none know.
SomeItems ==
    {[type |-> \h1a, value |-> <<0, 60>>, form |-> "plain"],
     [type |-> \h0b, value |-> <<0, 0, 1, 5>>, form |-> "plain"],
     [type |-> \h0b, value |-> <<9, 0, 0, 1, 6>>, form |-> "long"],
     [type |-> \h14, value |-> <<3>>, form |-> "plain"],
     [type |-> \h33, value |-> <<132, 9>>, form |-> "plain"],
     [type |-> \h24, value |-> <<7>>, form |-> "plain"],
     [type |-> \h08, value |-> <<1, 0, 0>>, form |-> "plain"],
     [type |-> \h10, value |-> <<1>>, form |-> "plain"],
     [type |-> \h30, value |-> <<1>>, form |-> "plain"],
     [type |-> 300, value |-> <<1, 2>>, form |-> "wide"]}

SomeEntries ==
    {[value |-> 999, unit |-> "min"], [value |-> 59950, unit |-> "s"], [value |-> 2401, unit |-> "h"]}

SomeData ==
    "m1" :> [valve |-> "open", attack |-> FALSE, batteryLow |-> TRUE, leaks |-> {"warning"},
             device |-> "online", gateway |-> "OFFLINE",
             readings |-> <<[time |-> 100, index |-> 50], [time |-> 90, index |-> None],
                            [time |-> 40, index |-> 20]>>] @@
    "m2" :> [valve |-> "closed", attack |-> FALSE, batteryLow |-> FALSE, leaks |-> {},
             device |-> "offline", gateway |-> "ONLINE", readings |-> << >>]

SomeFilters == "all" :> {1, 2} @@ "active" :> {1, 2} @@ "one" :> {1}

SomeHomes == "admin" :> "x" @@ "operator" :> "x" @@ "viewer" :> "y"
SomePlans == "x" :> {"agent"} @@ "y" :> {"fuota"}

Codec == INSTANCE ShengdaCodec WITH
    Item <- CodecItem, written <- codecWritten, items <- codecItems

\* A meter writes bytes: a type of one byte or, in the wide form, of two, a length
\* that fits a byte, and without a length only the value its type stands for.
ASSUME FramesAreFinite == MaxItems \in Nat
ASSUME ItemsAreBytes ==
    \A item \in CodecItem :
        /\ item.value \in Seq(0..255)
        /\ \/ /\ item.form = "plain" /\ item.type \in 0..63
              /\ Codec!TypeLength(item.type) \in {-1, Len(item.value)}
           \/ item.form = "long" /\ item.type \in 0..63 /\ Len(item.value) <= 255
           \/ item.form = "wide" /\ item.type \in Nat /\ item.type \div 256 <= 63
              /\ Len(item.value) <= 255

Editor == INSTANCE DecoderEditor WITH
    stored <- editorStored, created <- editorCreated, selected <- editorSelected, form <- editorForm,
    pending <- editorPending, clicks <- editorClicks

Water == INSTANCE WaterConsole WITH
    selected <- waterSelected, busy <- waterBusy,
    pending <- waterPending, chosen <- waterChosen, clicks <- waterClicks

Twin == INSTANCE MeterTwin WITH
    mode <- twinMode, interval <- twinInterval, sent <- twinSent, clicks <- twinClicks

List == INSTANCE LiveLists WITH
    Item <- ListItem, MaxClicks <- MaxPolledClicks, page <- listPage, status <- listStatus,
    version <- listVersion, rows <- listRows, queue <- listQueue, failed <- listFailed,
    clicks <- listClicks

Form == INSTANCE CreateForms WITH
    page <- formPage, form <- formForm, rows <- formRows, panel <- formPanel, stored <- formStored,
    version <- formVersion, pending <- formPending, asked <- formAsked, crossed <- formCrossed,
    failed <- formFailed, clicks <- formClicks

Fuota == INSTANCE FirmwareUpdates WITH
    rows <- fuotaRows, pending <- fuotaPending, failed <- fuotaFailed, clicks <- fuotaClicks

Device == INSTANCE DevicePage WITH
    MaxClicks <- MaxPolledClicks, stored <- deviceStored,
    queue <- deviceQueue, items <- deviceItems, busy <- deviceBusy, pending <- devicePending,
    failed <- deviceFailed, clicks <- deviceClicks

Agent == INSTANCE AgentConsole WITH
    page <- agentPage, sent <- agentSent,
    shown <- agentShown, early <- agentEarly, pending <- agentPending, failed <- agentFailed,
    clicks <- agentClicks

Gateway == INSTANCE GatewayPage WITH
    MaxClicks <- MaxPolledClicks, mode <- gatewayMode, panel <- gatewayPanel,
    pending <- gatewayPending, early <- gatewayEarly, failed <- gatewayFailed,
    clicks <- gatewayClicks

Wizard == INSTANCE OnboardingWizard WITH
    MaxClicks <- MaxPolledClicks, status <- wizardStatus, busy <- wizardBusy,
    chosen <- wizardChosen, pending <- wizardPending, failed <- wizardFailed,
    clicks <- wizardClicks

Tenants == INSTANCE TenantsAdmin WITH
    stored <- tenantStored, rows <- tenantRows, created <- tenantCreated,
    pending <- tenantPending, crossed <- tenantCrossed, failed <- tenantFailed,
    clicks <- tenantClicks

Bill == INSTANCE BillingPage WITH
    interval <- billInterval, selected <- billSelected, pending <- billPending,
    chosen <- billChosen, failed <- billFailed, clicks <- billClicks

Tabs == INSTANCE ConsoleSession WITH
    User <- Account, shown <- tabShown, asked <- tabAsked, written <- tabWritten,
    clicks <- tabClicks

AnyOf(S) == CHOOSE x \in S : TRUE

ConsoleInit ==
    /\ part \in {"codec", "editor", "water", "twin", "list", "form", "fuota", "device", "agent",
                 "gateway", "wizard", "tenant", "bill", "tab"}
    /\ Codec!CodecInit /\ (part # "codec" => header = 0)
    /\ Editor!DecodersInit /\ (part # "editor" => \A d \in DOMAIN editorStored : editorStored[d] = None)
    /\ Water!WaterInit
    /\ Twin!TwinInit /\ (part # "twin" => twinOf = AnyOf(Meter))
    /\ List!ListsInit /\ (part # "list" => listPage = List!LeakDetection /\ key = "active")
    /\ Form!FormsInit /\ (part # "form" => formPage = Form!Devices /\ formStored = Form!Nothing)
    /\ Fuota!FuotaInit
    /\ Device!DeviceInit /\ deviceStored \in KeyAtStart
    /\ part # "device" => deviceStored = None
    /\ Agent!AgentInit
    /\ part # "agent" =>
          agentPage = "chat" /\ config.tools = None /\ \A c \in DOMAIN customs : customs[c] = None
    /\ Gateway!GatewayInit /\ gatewayMode \in ModeAtStart
    /\ part # "gateway" => ~vpn /\ rf.model = None
    /\ Wizard!WizardInit /\ (part # "wizard" => have = {})
    /\ Tenants!TenantsInit
    /\ part # "tenant" =>
          \E t \in Tenant : t = AnyOf(Tenant) /\ t \notin spare /\ tenantStored[t].name = AnyOf(Name)
    /\ Bill!BillingInit /\ (part # "bill" => subscribed = [plan |-> First, interval |-> "month"])
    /\ Tabs!SessionInit /\ (part # "tab" => session = None /\ scope = None)

ConsoleNext ==
    /\ UNCHANGED part
    /\ IF part = "codec" THEN Codec!CodecNext ELSE UNCHANGED codecPart
    /\ IF part = "editor" THEN Editor!DecodersNext ELSE UNCHANGED editorPart
    /\ IF part = "water" THEN Water!WaterNext ELSE UNCHANGED waterPart
    /\ IF part = "twin" THEN Twin!TwinNext ELSE UNCHANGED twinPart
    /\ IF part = "list" THEN List!ListsNext ELSE UNCHANGED listPart
    /\ IF part = "form" THEN Form!FormsNext ELSE UNCHANGED formPart
    /\ IF part = "fuota" THEN Fuota!FuotaNext ELSE UNCHANGED fuotaPart
    /\ IF part = "device" THEN Device!DeviceNext ELSE UNCHANGED devicePart
    /\ IF part = "agent" THEN Agent!AgentNext ELSE UNCHANGED agentPart
    /\ IF part = "gateway" THEN Gateway!GatewayNext ELSE UNCHANGED gatewayPart
    /\ IF part = "wizard" THEN Wizard!WizardNext ELSE UNCHANGED wizardPart
    /\ IF part = "tenant" THEN Tenants!TenantsNext ELSE UNCHANGED tenantPart
    /\ IF part = "bill" THEN Bill!BillingNext ELSE UNCHANGED billPart
    /\ IF part = "tab" THEN Tabs!SessionNext ELSE UNCHANGED tabPart

\* Timers fire; what they ask for is served and delivered.
ConsoleFairness ==
    /\ WF_waterPart(part = "water" /\ Water!Poll)
    /\ WF_waterPart(part = "water" /\ Water!AnswerActive("details"))
    /\ WF_waterPart(part = "water" /\ Water!AnswerActive("gateway"))
    /\ WF_listPart(part = "list" /\ List!Tick) /\ WF_listPart(part = "list" /\ List!ServeKey)
    /\ \A v \in 0..2 : WF_listPart(part = "list" /\ List!DeliverAt(v))
    /\ WF_devicePart(part = "device" /\ Device!Reload)
    /\ WF_devicePart(part = "device" /\ Device!ServeList)
    /\ \A fresh \in BOOLEAN : WF_devicePart(part = "device" /\ Device!AnswerList(fresh))
    /\ WF_gatewayPart(part = "gateway" /\ Gateway!PollScan)
    /\ WF_gatewayPart(part = "gateway" /\ Gateway!ServeScan)
    /\ \A fresh \in BOOLEAN : WF_gatewayPart(part = "gateway" /\ Gateway!ShowScan(fresh))

GatewaySpec == ConsoleInit /\ part = "gateway" /\ [][ConsoleNext]_<<part, parts>>

ConsoleSpec == ConsoleInit /\ [][ConsoleNext]_<<part, parts>> /\ ConsoleFairness

-----------------------------------------------------------------------------
(* Properties *)

\* A frame of a water meter reads as it was written, in the three codecs.
FramesReadBack == Codec!FramesReadBack

\* What the user types stays with the record it was typed for: a decoder keeps
\* its own script and profile, and a form that was refused what it holds, and a
\* page that rests lists what the platform has (DecodersManager and the pages
\* that create things).
FormsKeptApart == Editor!DecodersKeptApart /\ Form!PageAgrees

\* A command goes to the meter the user chose, and a simulated one nowhere
\* (WaterMetersPage, WaterMeterDigitalTwin).
CommandsAsMeant == Water!CommandToChosen /\ Twin!SimulationStaysApart

\* What was resolved is not offered again, and a deployment carries the file
\* that was picked and runs when it is said to (LeakDetectionPage, FuotaPage).
ListsAsTold == List!ResolvedStaysResolved /\ Fuota!DeploymentsAsTold

\* A command that is said to be queued waits, a key that was typed is not lost,
\* and the gateway's page shows what is stored (DeviceDetailPage, GatewayDetailPage).
DevicesAsShown == Device!DeviceAsTold /\ Gateway!GatewayAsShown

\* A gateway that was saved as "Non compatible" has no scans (GatewayDetailPage).
NotCompatible == Gateway!NotCompatible

\* The agent has the tools that are ticked, and steps, tenants and checkouts
\* are what the user asked for (AgentChatPage, AgentSettingsPage, TenantOnboardingWizard,
\* TenantsAdmin, BillingPage).
TenantsAsSet ==
    /\ Agent!AgentAsSet /\ Wizard!StepsAsDone
    /\ Tenants!TenantsAsShown /\ Bill!CheckoutAsChosen

\* A change lands in the tenant the tab shows (TenantScopeSelector, auth.ts).
TabsInPlace == Tabs!TabsInPlace

\* In the end a page with a timer shows what the platform has.  A list without
\* a timer does so unless a request failed or an answer was overtaken.
ConsoleSettles ==
    \/ <>(part = "list" /\ List!NeverAgain)
    \/ <>[](/\ part = "water" => Water!DetailsShown
            /\ part = "list" => List!ListShown
            /\ part = "device" => Device!QueueShown
            /\ part = "gateway" => Gateway!ScanShown)
=============================================================================
