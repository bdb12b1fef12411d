-------------------------- MODULE FirmwareUpdates ---------------------------
(***************************************************************************)
(* Firmware updates over the air: the console's page (FuotaPage), which    *)
(* uploads a file, creates deployments and starts them, and the platform's *)
(* handlers (handler/fuota.go) with the table behind them.  A request      *)
(* takes effect when it is answered; nothing holds the buttons meanwhile.  *)
(***************************************************************************)
EXTENDS Naturals, Sequences, SequencesExt

CONSTANTS
    File,
    DevEui,
    None,
    MaxClicks, MaxFaults

VARIABLES
    picked,       \* the file picked last
    firmware,     \* firmwareKey: the file the page would deploy
    deployments,  \* the platform's, by creation
    rows,         \* those the page lists: their statuses
    pending,      \* requests on their way
    astray,       \* an upload failed, or was answered after that of a later file
    told,         \* the deployments the page said were started
    unmarked,     \* those whose status could not be written
    failed, clicks

fuotaVars == <<picked, firmware, deployments, rows, pending, astray, told, unmarked, failed, clicks>>

FuotaInit ==
    /\ picked = None /\ firmware = None /\ deployments = <<>> /\ rows = <<>>
    /\ pending = {[kind |-> "list", at |-> 0]} /\ astray = FALSE
    /\ told = {} /\ unmarked = {} /\ failed = 0 /\ clicks = 0

Fault == failed < MaxFaults /\ failed' = failed + 1
Well == UNCHANGED failed

Send(request) ==
    /\ clicks < MaxClicks /\ clicks' = clicks + 1 /\ pending' = pending \cup {request}
    /\ UNCHANGED <<firmware, deployments, rows, astray, told, unmarked, failed>>

Uploads == {p \in pending : p.kind = "upload"}

PickFile(f) == picked' = f /\ Send([kind |-> "upload", of |-> f, at |-> clicks])

CreateDeployment(devs) ==
    /\ Send([kind |-> "create", firmware |-> firmware, devs |-> devs, at |-> clicks,
             meant |-> picked, calm |-> Uploads = {} /\ ~astray])
    /\ UNCHANGED picked

Start(i) ==
    /\ i \in DOMAIN rows /\ rows[i] # "running"
    /\ Send([kind |-> "start", of |-> i, at |-> clicks]) /\ UNCHANGED picked

Answered(p, next) == pending' = (pending \ {p}) \cup next /\ UNCHANGED <<picked, clicks>>

List(p) == [kind |-> "list", at |-> p.at]

AnswerList(p) ==
    /\ \/ rows' = [i \in DOMAIN deployments |-> deployments[i].status] /\ Well
       \/ rows' = <<>> /\ Fault
    /\ Answered(p, {}) /\ UNCHANGED <<firmware, deployments, astray, told, unmarked>>

AnswerUpload(p) ==
    /\ \/ firmware' = p.of /\ Well
          /\ astray' = (astray \/ (picked # p.of /\ \A q \in Uploads : q.of # picked))
       \/ UNCHANGED firmware /\ Fault /\ astray' = TRUE
    /\ Answered(p, {}) /\ UNCHANGED <<deployments, rows, told, unmarked>>

\* The multicast group comes first, and stays when the row fails; its id may be
\* missing.  A device that could not be added to it is passed over.
AnswerCreate(p) ==
    /\ UNCHANGED <<firmware, rows, astray, told, unmarked>>
    /\ \/ \E group \in BOOLEAN, missed \in SUBSET p.devs :
             /\ IF missed = {} THEN Well ELSE Fault
             /\ deployments' = Append(deployments,
                   [firmware |-> p.firmware, meant |-> p.meant, calm |-> p.calm, group |-> group,
                    status |-> IF group THEN "multicast_created" ELSE "pending",
                    devs |-> p.devs, members |-> IF group THEN p.devs \ missed ELSE {},
                    missed |-> missed])
             /\ Answered(p, {List(p)})
       \/ Fault /\ UNCHANGED deployments /\ Answered(p, {})

\* Mutant: no deployment is marked as running.
AnswerStartUnmarked(p) ==
    /\ \/ told' = told \cup {p.of} /\ Well
       \/ Fault /\ UNCHANGED told
    /\ Answered(p, {List(p)}) /\ UNCHANGED <<firmware, rows, astray, deployments, unmarked>>

\* A deployment without a group or a firmware is not marked as running, nor is
\* one whose row cannot be written: the answer is the same.
AnswerStart(p) ==
    LET d == deployments[p.of]
        ready == d.group /\ d.firmware # None
    IN  /\ \/ told' = told \cup {p.of}
              /\ \/ ready /\ deployments' = [deployments EXCEPT ![p.of].status = "running"]
                    /\ Well /\ UNCHANGED unmarked
                 \/ ready /\ Fault /\ unmarked' = unmarked \cup {p.of} /\ UNCHANGED deployments
                 \/ ~ready /\ Well /\ UNCHANGED <<deployments, unmarked>>
           \/ Fault /\ UNCHANGED <<told, deployments, unmarked>>
        /\ Answered(p, {List(p)}) /\ UNCHANGED <<firmware, rows, astray>>

FuotaNext ==
    \/ \E f \in File : PickFile(f)
    \/ \E devs \in SUBSET DevEui : CreateDeployment(devs)
    \/ \E i \in DOMAIN rows : Start(i)
    \/ \E p \in pending :
          \/ p.kind = "list" /\ AnswerList(p)
          \/ p.kind = "upload" /\ AnswerUpload(p)
          \/ p.kind = "create" /\ AnswerCreate(p)
          \/ p.kind = "start" /\ AnswerStart(p)

-----------------------------------------------------------------------------
(* Property *)

\* A deployment carries the file picked last before it was created, unless an
\* upload was on its way or had gone astray; and one the page said was started
\* is running, unless it has no firmware or no group, or its row could not be
\* written.
DeploymentsAsTold ==
    /\ \A d \in ToSet(deployments) :
          d.calm => d.firmware = d.meant /\ (d.group => d.members = d.devs \ d.missed)
    /\ \A i \in told : LET d == deployments[i]
                       IN  d.status = "running" \/ d.firmware = None \/ ~d.group \/ i \in unmarked
=============================================================================
