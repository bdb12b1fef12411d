---------------------------- MODULE GatewayPage -----------------------------
(***************************************************************************)
(* The console's page of a gateway (GatewayDetailPage) with its panels of  *)
(* connectivity (GatewayConnectivityPanel) and of spectral scans           *)
(* (GatewayRfScanPanel), and what the platform keeps of them.  A load is   *)
(* served, then delivered; other requests take effect when answered.       *)
(***************************************************************************)
EXTENDS Naturals

CONSTANTS
    Model,      \* the hardware that can scan
    Mode,       \* how a gateway may be connected
    None,
    MaxClicks, MaxFaults

VARIABLES
    rf,         \* its tags: [flag, model]
    mode, vpn,  \* its row: the preferred mode; a certificate is in force
    scan,       \* a request for a scan is open
    gw, rfModel, \* the page: whether it knows the gateway's state and shows it can scan;
                \* the model selected
    conn, pick, \* the connectivity panel: what it shows, or None; the mode selected
    panel,      \* the scan panel: what it shows, or None
    hidden,     \* the panels hidden while they load
    held,       \* the buttons held by a request
    pending,    \* requests and answers on their way
    early,      \* a model was saved before the page had loaded
    both,       \* a mode was saved while a VPN request was on its way, or the reverse
    failed, clicks

gatewayVars == <<rf, mode, vpn, scan, gw, rfModel, conn, pick, panel, hidden, held, pending,
                 early, both, failed, clicks>>

stored == <<rf, mode, vpn, scan>>
page == <<gw, rfModel>>

\* A known model is enough, whatever the flag says.
Supported == rf.flag \/ rf.model # None

Unknown == [known |-> FALSE, supported |-> FALSE]

\* A load of a part, and the button held until it is answered, if any.
Load(part, button) == [kind |-> "load", of |-> part, button |-> button]

GatewayInit ==
    /\ mode \in Mode /\ vpn \in BOOLEAN /\ scan = FALSE
    /\ \E m \in Model \cup {None} : rf = [flag |-> m # None, model |-> m]
    /\ gw = Unknown /\ rfModel = None /\ conn = None /\ pick = mode /\ panel = None
    /\ hidden = {"conn", "scan"} /\ held = {}
    /\ pending = {Load("gateway", None), Load("conn", None), Load("scan", None)}
    /\ early = FALSE /\ both = FALSE /\ failed = 0 /\ clicks = 0

Fault == failed < MaxFaults /\ failed' = failed + 1
Well == UNCHANGED failed

-----------------------------------------------------------------------------
(* The user *)

SelectModel(m) ==
    /\ clicks < MaxClicks /\ clicks' = clicks + 1 /\ rfModel' = m /\ m # rfModel
    /\ UNCHANGED <<stored, gw, conn, pick, panel, hidden, held, pending, early, both, failed>>

Shown == "conn" \notin hidden /\ conn # None

SelectMode(m) ==
    /\ clicks < MaxClicks /\ clicks' = clicks + 1 /\ Shown /\ pick' = m /\ m # pick
    /\ UNCHANGED <<stored, page, conn, panel, hidden, held, pending, early, both, failed>>

Request(button, p) ==
    /\ clicks < MaxClicks /\ clicks' = clicks + 1
    /\ button \notin held /\ held' = held \cup {button} /\ pending' = pending \cup {p}
    /\ both' = (both \/ {"mode", "vpn"} \subseteq held')
    /\ UNCHANGED <<stored, page, conn, pick, panel, hidden, failed>>

SaveRfSupport ==
    /\ Request("rf", [kind |-> "rf", model |-> rfModel])
    /\ early' = (early \/ Load("gateway", None) \in pending \/ \E p \in pending :
                    p.kind = "answer" /\ p.of = "gateway" /\ p.button = None)

SaveMode == Shown /\ Request("mode", [kind |-> "mode", mode |-> pick]) /\ UNCHANGED early

\* "Télécharger profil" issues a certificate; "Révoquer" is offered for one in force.
DownloadVpn == Shown /\ Request("vpn", [kind |-> "vpn", to |-> TRUE]) /\ UNCHANGED early
RevokeVpn == Shown /\ conn.vpn /\ Request("vpn", [kind |-> "vpn", to |-> FALSE]) /\ UNCHANGED early

RequestScan ==
    /\ "scan" \notin hidden /\ panel # None /\ panel.supported /\ ~panel.open
    /\ Request("scan", [kind |-> "scan"]) /\ UNCHANGED early

-----------------------------------------------------------------------------
(* Answers *)

Served(part) ==
    CASE part = "gateway" -> [supported |-> Supported, model |-> IF Supported THEN rf.model ELSE None]
      [] part = "conn" -> [mode |-> mode, vpn |-> vpn]
      [] part = "scan" -> [supported |-> Supported, open |-> Supported /\ scan]

ServeLoad(p) ==
    /\ p.kind = "load"
    /\ \E ok \in BOOLEAN :
          /\ IF ok THEN Well ELSE Fault
          /\ pending' = (pending \ {p}) \cup
                {[kind |-> "answer", of |-> p.of, button |-> p.button,
                  data |-> IF ok THEN Served(p.of) ELSE None]}
    /\ UNCHANGED <<stored, page, conn, pick, panel, hidden, held, early, both, clicks>>

\* What is loaded after saving a model lacks the gateway's state, which stands
\* beside it in the answer, and a gateway of unknown state shows as unreachable.
DeliverGateway(p) ==
    /\ gw' = IF p.data = None THEN Unknown
             ELSE [known |-> p.button = None, supported |-> p.data.supported]
    /\ rfModel' = IF p.button # None THEN rfModel
                  ELSE IF p.data = None THEN None ELSE p.data.model
    /\ UNCHANGED <<conn, pick, panel, hidden>>

\* The connectivity that could not be loaded is not replaced.
DeliverConnectivity(p) ==
    /\ conn' = IF p.data = None THEN conn ELSE p.data
    /\ pick' = IF p.data = None THEN pick ELSE p.data.mode
    /\ hidden' = hidden \ {"conn"} /\ UNCHANGED <<page, panel>>

DeliverScan(p) ==
    panel' = p.data /\ hidden' = hidden \ {"scan"} /\ UNCHANGED <<page, conn, pick>>

Deliver(p) ==
    /\ p.kind = "answer"
    /\ \/ p.of = "gateway" /\ DeliverGateway(p)
       \/ p.of = "conn" /\ DeliverConnectivity(p)
       \/ p.of = "scan" /\ DeliverScan(p)
    /\ held' = held \ {p.button} /\ pending' = pending \ {p}
    /\ UNCHANGED <<stored, early, both, failed, clicks>>

\* Mutant: the page is not loaded again after saving.
AnswerRfUnloaded(p) ==
    /\ \/ Well /\ rf' = [flag |-> p.model # None, model |-> IF p.model = None THEN rf.model ELSE p.model]
       \/ Fault /\ UNCHANGED rf
    /\ pending' = pending \ {p} /\ held' = held \ {"rf"}
    /\ UNCHANGED <<mode, vpn, scan, hidden>>

\* The page loads the gateway again, saved or not; without a model, the tag of
\* the model is left as it is.
AnswerRf(p) ==
    /\ \/ Well /\ rf' = [flag |-> p.model # None, model |-> IF p.model = None THEN rf.model ELSE p.model]
       \/ Fault /\ UNCHANGED rf
    /\ pending' = (pending \ {p}) \cup {Load("gateway", "rf")}
    /\ UNCHANGED <<mode, vpn, scan, hidden, held>>

Change(p) ==
    /\ mode' = IF p.kind = "mode" THEN p.mode ELSE mode
    /\ vpn' = IF p.kind = "vpn" THEN p.to ELSE vpn
    /\ scan' = (scan \/ p.kind = "scan")

\* The panel that asked is loaded again, and hidden meanwhile; the scan's button
\* does not wait for that.  A gateway that could be scanned still can.
Reload(p) ==
    IF p.kind = "scan"
    THEN /\ pending' = (pending \ {p}) \cup {Load("scan", None)}
         /\ hidden' = hidden \cup {"scan"} /\ held' = held \ {"scan"}
    ELSE /\ pending' = (pending \ {p}) \cup {Load("conn", p.kind)}
         /\ hidden' = hidden \cup {"conn"} /\ UNCHANGED held

\* After an error, nothing is loaded; the request may have taken effect.  A
\* profile is handed out even when its row could not be marked.
AnswerPanel(p) ==
    /\ UNCHANGED rf
    /\ \/ Well /\ Change(p) /\ Reload(p)
       \/ /\ Fault /\ (Change(p) \/ UNCHANGED <<mode, vpn, scan>>)
          /\ pending' = pending \ {p} /\ held' = held \ {p.kind} /\ UNCHANGED hidden
       \/ Fault /\ p.kind = "vpn" /\ UNCHANGED <<mode, vpn, scan>> /\ Reload(p)

Answer(p) ==
    /\ \/ p.kind = "rf" /\ AnswerRf(p)
       \/ p.kind \in {"mode", "vpn", "scan"} /\ AnswerPanel(p)
    /\ UNCHANGED <<page, conn, pick, panel, early, both, clicks>>

\* The scan panel is loaded every 15 s, and hidden meanwhile.
PollScan ==
    /\ pending' = pending \cup {Load("scan", None)} /\ hidden' = hidden \cup {"scan"}
    /\ UNCHANGED <<stored, page, conn, pick, panel, held, early, both, failed, clicks>>

ScanDone ==
    /\ scan /\ scan' = FALSE
    /\ UNCHANGED <<rf, mode, vpn, page, conn, pick, panel, hidden, held, pending, early, both,
                   failed, clicks>>

GatewayNext ==
    \/ \E m \in Model \cup {None} : SelectModel(m)
    \/ \E m \in Mode : SelectMode(m)
    \/ SaveRfSupport \/ SaveMode \/ DownloadVpn \/ RevokeVpn \/ RequestScan
    \/ \E p \in pending : ServeLoad(p) \/ Deliver(p) \/ Answer(p)
    \/ PollScan \/ ScanDone

\* The timer fires; a load of the scans is served and delivered.
ServeScan == Load("scan", None) \in pending /\ ServeLoad(Load("scan", None))
ShowScan(fresh) ==
    \E p \in pending :
        p.kind = "answer" /\ p.of = "scan" /\ (p.data = Served("scan")) = fresh /\ Deliver(p)

-----------------------------------------------------------------------------
(* Properties *)

Coming(part) == \E p \in pending :
    \/ p.kind \in {"load", "answer"} /\ p.of = part
    \/ p.kind \in (CASE part = "gateway" -> {"rf"} [] part = "conn" -> {"mode", "vpn"})

\* With nothing on its way, the connectivity shown is the stored one, unless a
\* mode was saved while a VPN request was on its way; the compatibility shown is
\* the stored one, unless a model was saved before the page had loaded; and a
\* button is held only by a request.
GatewayAsShown ==
    /\ failed > 0 \/ both \/ Coming("conn") \/ conn = Served("conn")
    /\ failed > 0 \/ early \/ Coming("gateway") \/ gw.supported = Supported
    /\ pending = {} => held = {}

\* The page offers "Non compatible" for a gateway whose hardware cannot scan:
\* once that is chosen and saved (not by a page that had not loaded, or not in
\* full), the gateway has no scans.
NotCompatible == failed > 0 \/ early \/ rf.flag \/ ~Supported

\* The scan panel shows whether a scan is open.
ScanShown == panel = Served("scan")
=============================================================================
