--------------------------- MODULE CommandLedger ---------------------------
(***************************************************************************)
(* What the downlink command history of a meter promises its operator,     *)
(* whatever the queueing, the acknowledgement matching and the failures    *)
(* behind it: a command is issued once, is either sent or failed, and is   *)
(* acknowledged at most once, on the strength of a receipt that no other   *)
(* command has used.  MeterCommands is shown to implement it.              *)
(***************************************************************************)
CONSTANTS Command, Receipt

VARIABLES ledger,    \* the status an operator reads for each command
          receipts   \* positive device receipts that no command has used yet

ledgerVars == <<ledger, receipts>>

LedgerStatus == {"none", "pending", "sent", "failed", "acknowledged"}

LedgerTypeOK ==
    /\ ledger \in [Command -> LedgerStatus]
    /\ receipts \subseteq Receipt

Init ==
    /\ ledger = [c \in Command |-> "none"]
    /\ receipts = {}

Move(c, from, to) ==
    /\ ledger[c] \in from
    /\ ledger' = [ledger EXCEPT ![c] = to]

Issue(c) == Move(c, {"none"}, "pending") /\ UNCHANGED receipts

Send(c) == Move(c, {"pending"}, "sent") /\ UNCHANGED receipts

\* A request whose outcome is unknown is reported as failed, even when the
\* row had already been marked as sent.
Fail(c) == Move(c, {"pending", "sent"}, "failed") /\ UNCHANGED receipts

Receive(r) ==
    /\ r \notin receipts
    /\ receipts' = receipts \cup {r}
    /\ UNCHANGED ledger

Acknowledge(c, r) ==
    /\ Move(c, {"sent"}, "acknowledged")
    /\ r \in receipts
    /\ receipts' = receipts \ {r}

Next ==
    \/ \E c \in Command : Issue(c) \/ Send(c) \/ Fail(c)
    \/ \E r \in Receipt : Receive(r)
    \/ \E c \in Command : \E r \in receipts : Acknowledge(c, r)

Spec == Init /\ [][Next]_ledgerVars
=============================================================================
