---------------------------- MODULE CreateForms -----------------------------
(***************************************************************************)
(* The console's pages that list what a tenant has and create more of it   *)
(* with a form: LoRaWAN devices, device profiles, applications, gateways,  *)
(* rules, IoT devices, API keys and dashboards.  A request is served, then *)
(* its answer is delivered; only one page holds its button meanwhile.  A   *)
(* form stands for the name typed in it.                                   *)
(***************************************************************************)
EXTENDS Naturals

CONSTANTS
    Name,
    None,
    MaxClicks, MaxFaults

VARIABLES
    page,       \* what the open page does
    open, form, \* the form is shown; the name it holds
    rows,       \* the list shown: name -> how many, and the version served
    panel,      \* the IoT device whose credentials are shown, or the API key
    saving,     \* the creation that holds the button
    stored,     \* what the platform has: name -> how many
    version,    \* how often that changed
    pending,    \* requests and answers on their way
    refused,    \* the name in the form when its creation was refused
    asked,      \* what credentials were last asked for or made for
    crossed,    \* an answer came to a form, a list or a panel that was newer
    failed, clicks

formVars == <<page, open, form, rows, panel, saving, stored, version, pending, refused, asked,
              crossed, failed, clicks>>

\* What tells the pages apart: the platform refuses a second record of a name;
\* a success empties the form; records can be removed; the credentials of one
\* can be shown again, or only once; the form is a page of its own.
Devices == {"unique", "resets"}
Gateways == {"unique", "resets"}
DeviceProfiles == {"resets"}
Applications == {"resets"}
Rules == {"removes"}
IoTDevices == {"unique", "resets", "credentials"}
ApiKeys == {"resets", "removes", "once"}
Dashboards == {"resets", "removes", "apart"}

FormPages == {Devices, Gateways, DeviceProfiles, Applications, Rules, IoTDevices, ApiKeys, Dashboards}

Nothing == [n \in Name |-> 0]
Load(at) == [kind |-> "list", of |-> None, at |-> at]

FormsInit ==
    /\ page \in FormPages /\ open = ("once" \in page) /\ form = None /\ panel = None /\ saving = None
    /\ stored \in [Name -> {0, 1}] /\ version = 0
    /\ rows = [of |-> Nothing, version |-> 0] /\ pending = {Load(0)}
    /\ refused = None /\ asked = None /\ crossed = FALSE /\ failed = 0 /\ clicks = 0

Click == clicks < MaxClicks /\ clicks' = clicks + 1

\* "+ Ajouter" and "Annuler": the form keeps what it holds, unless it is a page
\* of its own, where coming and going loads the list of dashboards again.
ToggleForm ==
    /\ Click /\ "once" \notin page /\ open' = ~open
    /\ IF "apart" \in page
       THEN form' = None /\ saving' = None /\ refused' = None /\ pending' = pending \cup {Load(clicks)}
       ELSE UNCHANGED <<form, saving, refused, pending>>
    /\ UNCHANGED <<page, rows, panel, stored, version, asked, crossed, failed>>

Type(n) ==
    /\ Click /\ open /\ n # form /\ form' = n /\ refused' = None
    /\ UNCHANGED <<page, open, rows, panel, saving, stored, version, pending, asked, crossed, failed>>

Request(kind, n) ==
    /\ Click /\ pending' = pending \cup {[kind |-> kind, of |-> n, at |-> clicks]}
    /\ UNCHANGED <<page, open, form, rows, stored, version, refused, crossed, failed>>

\* The name is required; but for the dashboards, the button stays enabled while a
\* creation is on its way.
Create ==
    /\ open /\ form # None /\ saving = None /\ Request("create", form)
    /\ saving' = IF "apart" \in page THEN clicks ELSE None
    /\ panel' = IF "once" \in page THEN None ELSE panel
    /\ UNCHANGED asked

Remove(n) ==
    /\ "removes" \in page /\ rows.of[n] > 0 /\ ("apart" \in page => ~open) /\ Request("remove", n)
    /\ UNCHANGED <<panel, saving, asked>>

ShowProvision(n) ==
    /\ "credentials" \in page /\ rows.of[n] > 0 /\ Request("provision", n) /\ asked' = n
    /\ UNCHANGED <<panel, saving>>

Serve(p) ==
    /\ p \in pending /\ p.kind \in {"list", "create", "remove", "provision"}
    /\ \E ok \in BOOLEAN :
          LET taken == p.kind = "create" /\ "unique" \in page /\ stored[p.of] > 0
              gone == p.kind = "remove" /\ stored[p.of] = 0
              done == ok /\ ~taken /\ ~gone
          IN  /\ ok \/ (failed < MaxFaults /\ ~taken /\ ~gone)
              /\ failed' = IF ok THEN failed ELSE failed + 1
              /\ stored' = IF ~done THEN stored
                           ELSE CASE p.kind = "create" -> [stored EXCEPT ![p.of] = @ + 1]
                                  [] p.kind = "remove" -> [stored EXCEPT ![p.of] = @ - 1]
                                  [] OTHER -> stored
              /\ version' = IF stored' = stored THEN version ELSE version + 1
              /\ pending' = (pending \ {p}) \cup
                    {[kind |-> "answer", to |-> p.kind, of |-> p.of, at |-> p.at, ok |-> done,
                      rows |-> [of |-> IF p.kind = "list" /\ ok THEN stored ELSE Nothing,
                                version |-> version]]}
    /\ UNCHANGED <<page, open, form, rows, panel, saving, refused, asked, crossed, clicks>>

\* A list that failed shows as empty.
DeliverList(p) ==
    /\ rows' = p.rows /\ pending' = pending \ {p}
    /\ crossed' = (crossed \/ p.rows.version < rows.version)
    /\ UNCHANGED <<open, form, panel, saving, refused, asked>>

\* A success closes the form, whatever it holds by then, and lists again.
DeliverCreated(p) ==
    /\ open' = ("once" \in page) /\ form' = IF "resets" \in page THEN None ELSE form
    /\ pending' = (pending \ {p}) \cup {Load(p.at)}
    /\ IF page \cap {"credentials", "once"} # {}
       THEN panel' = p.of /\ asked' = p.of
       ELSE UNCHANGED <<panel, asked>>
    /\ saving' = IF "apart" \in page THEN None ELSE saving
    /\ refused' = IF form = p.of THEN None ELSE refused
    /\ crossed' = (crossed \/ form # p.of)
    /\ UNCHANGED rows

\* Mutant: a refusal empties the form.
DeliverRefusedEmptying(p) ==
    /\ pending' = pending \ {p} /\ form' = None
    /\ saving' = IF saving = p.at THEN None ELSE saving
    /\ refused' = IF form = p.of THEN form ELSE refused
    /\ UNCHANGED <<open, rows, panel, asked, crossed>>

\* A refusal leaves the form as it is.
DeliverRefused(p) ==
    /\ pending' = pending \ {p}
    /\ saving' = IF saving = p.at THEN None ELSE saving
    /\ refused' = IF form = p.of THEN form ELSE refused
    /\ UNCHANGED <<open, form, rows, panel, asked, crossed>>

\* The list is loaded again whether the removal succeeded or not.
DeliverRemoved(p) ==
    /\ pending' = (pending \ {p}) \cup {Load(p.at)}
    /\ UNCHANGED <<open, form, rows, panel, saving, refused, asked, crossed>>

\* The panel does not name its device.
DeliverProvision(p) ==
    /\ panel' = IF p.ok THEN p.of ELSE None
    /\ pending' = pending \ {p}
    /\ crossed' = (crossed \/ p.of # asked)
    /\ UNCHANGED <<open, form, rows, saving, refused, asked>>

Deliver(p) ==
    /\ p \in pending /\ p.kind = "answer"
    /\ \/ p.to = "list" /\ DeliverList(p)
       \/ p.to = "create" /\ p.ok /\ DeliverCreated(p)
       \/ p.to = "create" /\ ~p.ok /\ DeliverRefused(p)
       \/ p.to = "remove" /\ DeliverRemoved(p)
       \/ p.to = "provision" /\ DeliverProvision(p)
    /\ UNCHANGED <<page, stored, version, failed, clicks>>

FormsNext ==
    \/ ToggleForm \/ Create
    \/ \E n \in Name : Type(n) \/ Remove(n) \/ ShowProvision(n)
    \/ \E p \in pending : Serve(p) \/ Deliver(p)

-----------------------------------------------------------------------------
(* Property *)

\* A creation that was refused can be corrected in the form, and once nothing
\* is on its way any more the page lists what the platform has and shows no
\* credentials but those last asked for or made: unless a request failed or an
\* answer came to a form, a list or a panel that was newer.
PageAgrees ==
    \/ crossed
    \/ /\ refused # None => form = refused
       /\ pending = {} => /\ failed > 0 \/ rows.of = stored
                          /\ panel \in {None, asked}
=============================================================================
