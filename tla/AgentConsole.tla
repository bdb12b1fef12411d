---------------------------- MODULE AgentConsole ----------------------------
(***************************************************************************)
(* The console's pages of the AI agent: the conversation (AgentChatPage)   *)
(* and its settings (AgentSettingsPage), with the configuration the        *)
(* platform stores (store/agent_config.go) and what the agent makes of it. *)
(* A text is "old", "blank" or "typed"; a tenant's own tool stands for its *)
(* row and for what it first held.  A request takes effect when answered.  *)
(***************************************************************************)
EXTENDS Naturals, Sequences

CONSTANTS
    Builtin,    \* the agent's own tools
    Custom,     \* the tenant's
    None,
    MaxClicks, MaxFaults

VARIABLES
    page,       \* "chat" or "settings"
    messages,   \* [by, turn, form]: an open form or FALSE
    loading,
    sent,       \* forms whose command was sent, as often
    replaced,   \* the welcome replaced a conversation that had begun
    config,     \* stored: [text, tools], where None stands for no list of tools
    customs,    \* stored: tool -> what it holds, or None
    text, all, enabled, draft, editing, shown, \* the settings page
    loaded,     \* a configuration has come
    early,      \* the form was saved before one had
    unsaved,    \* the tools ticked are not those saved
    pending, failed, clicks

agentVars == <<page, messages, loading, sent, replaced, config, customs, text, all, enabled, draft,
               editing, shown, loaded, early, unsaved, pending, failed, clicks>>

chatPart == <<messages, loading, sent, replaced>>
toolForm == <<draft, editing>>
settingsPart == <<config, customs, text, all, enabled, toolForm, shown, loaded, early, unsaved>>

Welcome == [by |-> "welcome", turn |-> 0, form |-> FALSE]
ToLoad == [kind |-> "load", at |-> 0]

AgentInit ==
    /\ page \in {"chat", "settings"}
    /\ messages = <<Welcome>> /\ loading = FALSE /\ sent = <<>> /\ replaced = FALSE
    /\ config \in [text : {"old"}, tools : {None} \cup SUBSET Builtin]
    /\ customs \in [Custom -> {None} \cup Custom] /\ \A c \in Custom : customs[c] \in {None, c}
    /\ text = "blank" /\ all = TRUE /\ enabled = {} /\ draft = None /\ editing = None /\ shown = {}
    /\ loaded = FALSE /\ early = FALSE /\ unsaved = FALSE
    /\ pending = {IF page = "chat" THEN [kind |-> "tools"] ELSE ToLoad}
    /\ failed = 0 /\ clicks = 0

Click(on) == page = on /\ clicks < MaxClicks /\ clicks' = clicks + 1
Fault == failed < MaxFaults /\ failed' = failed + 1
Well == UNCHANGED failed
Only(p, next) == pending' = (pending \ {p}) \cup next

-----------------------------------------------------------------------------
(* The conversation *)

\* Mutant: the form stays open.
SendFormOpen(form) ==
    /\ Click("chat") /\ ~loading /\ loading' = TRUE
    /\ form # 0 => form \in DOMAIN messages /\ messages[form].form
    /\ messages' = Append(messages, [by |-> "user", turn |-> clicks, form |-> FALSE])
    /\ sent' = IF form = 0 THEN sent ELSE Append(sent, messages[form].turn)
    /\ pending' = pending \cup {[kind |-> "chat", turn |-> clicks]}
    /\ UNCHANGED <<replaced, settingsPart, failed>>

\* A message, or the command of an open form: the form is closed first.
Send(form) ==
    /\ Click("chat") /\ ~loading /\ loading' = TRUE
    /\ form # 0 => form \in DOMAIN messages /\ messages[form].form
    /\ messages' = Append(IF form = 0 THEN messages ELSE [messages EXCEPT ![form].form = FALSE],
                          [by |-> "user", turn |-> clicks, form |-> FALSE])
    /\ sent' = IF form = 0 THEN sent ELSE Append(sent, messages[form].turn)
    /\ pending' = pending \cup {[kind |-> "chat", turn |-> clicks]}
    /\ UNCHANGED <<replaced, settingsPart, failed>>

\* The agent may answer with a form; an error is an answer too.
AnswerChat(p) ==
    /\ loading' = FALSE
    /\ \E form \in BOOLEAN : messages' = Append(messages, [by |-> "agent", turn |-> p.turn, form |-> form])
    /\ Only(p, {}) /\ UNCHANGED <<sent, replaced, settingsPart, failed>>

\* The page's first request, answered or failed, starts the conversation anew.
AnswerTools(p) ==
    /\ messages' = <<Welcome>> /\ replaced' = (Len(messages) > 1)
    /\ Only(p, {}) /\ UNCHANGED <<loading, sent, settingsPart, failed>>

-----------------------------------------------------------------------------
(* The settings *)

SettingsClick == Click("settings") /\ UNCHANGED chatPart

EditText ==
    /\ SettingsClick /\ text' = "typed"
    /\ UNCHANGED <<config, customs, all, enabled, toolForm, shown, loaded, early, unsaved, pending, failed>>

ToggleAll ==
    /\ SettingsClick /\ all' = ~all /\ unsaved' = TRUE
    /\ enabled' = IF all THEN enabled ELSE {}
    /\ UNCHANGED <<config, customs, text, toolForm, shown, loaded, early, pending, failed>>

ToggleBuiltin(b) ==
    /\ SettingsClick /\ ~all /\ loaded /\ unsaved' = TRUE
    /\ enabled' = IF b \in enabled THEN enabled \ {b} ELSE enabled \cup {b}
    /\ UNCHANGED <<config, customs, text, all, toolForm, shown, loaded, early, pending, failed>>

Ticked == IF all THEN None ELSE enabled

\* "Enregistrer la configuration", which loads afterwards, and "Enregistrer la
\* sélection MCP", which does not: both send the whole form.
Save(reload) ==
    /\ SettingsClick
    /\ pending' = pending \cup {[kind |-> "save", reload |-> reload, at |-> clicks,
                                 body |-> [text |-> text, tools |-> Ticked]]}
    /\ early' = (early \/ ~loaded)
    /\ unsaved' = \E p \in pending : p.kind = "save"
    /\ UNCHANGED <<config, customs, text, all, enabled, toolForm, shown, loaded, failed>>

EditTool(c) ==
    /\ SettingsClick /\ c \in shown /\ editing' = c /\ draft' = c
    /\ UNCHANGED <<config, customs, text, all, enabled, shown, loaded, early, unsaved, pending, failed>>

TypeTool ==
    /\ SettingsClick /\ draft' = "typed"
    /\ UNCHANGED <<config, customs, text, all, enabled, editing, shown, loaded, early, unsaved, pending, failed>>

Cancel ==
    /\ SettingsClick /\ editing # None /\ editing' = None /\ draft' = None
    /\ UNCHANGED <<config, customs, text, all, enabled, shown, loaded, early, unsaved, pending, failed>>

Ask(p) ==
    SettingsClick /\ pending' = pending \cup {p} /\ UNCHANGED <<settingsPart, failed>>

\* A new tool takes any free row: the name typed has to be new.
SaveTool == draft # None /\ Ask([kind |-> "tool", of |-> editing, draft |-> draft])

RemoveTool(c) == c \in shown /\ Ask([kind |-> "remove", of |-> c])

\* Nothing changes when loading fails.
AnswerLoad(p) ==
    /\ \/ /\ text' = config.text /\ all' = (config.tools \in {None, {}})
          /\ enabled' = IF config.tools = None THEN {} ELSE config.tools
          /\ shown' = {c \in Custom : customs[c] # None}
          /\ loaded' = TRUE /\ Well
          /\ unsaved' = \E q \in pending : q.kind = "save"
       \/ UNCHANGED <<text, all, enabled, shown, loaded, unsaved>> /\ Fault
    /\ Only(p, {}) /\ UNCHANGED <<config, customs, toolForm, early>>

\* The selection is said to be saved even when it was not.
AnswerSave(p) ==
    /\ \/ config' = p.body /\ Well /\ UNCHANGED unsaved
          /\ Only(p, IF p.reload THEN {[ToLoad EXCEPT !.at = p.at]} ELSE {})
       \/ Fault /\ unsaved' = TRUE /\ Only(p, {}) /\ UNCHANGED config
    /\ UNCHANGED <<customs, text, all, enabled, toolForm, shown, loaded, early>>

AnswerTool(p) ==
    /\ \/ /\ \E c \in Custom :
                /\ IF p.of = None THEN customs[c] = None ELSE c = p.of /\ customs[c] # None
                /\ customs' = [customs EXCEPT ![c] = p.draft]
          /\ draft' = None /\ editing' = None /\ Only(p, {ToLoad}) /\ Well
       \/ Fault /\ Only(p, {}) /\ UNCHANGED <<customs, toolForm>>
       \/ p.of # None /\ customs[p.of] = None /\ Well /\ Only(p, {}) /\ UNCHANGED <<customs, toolForm>>
    /\ UNCHANGED <<config, text, all, enabled, shown, loaded, early, unsaved>>

\* The form goes on editing a tool that was removed.
AnswerRemove(p) ==
    /\ \/ customs' = [customs EXCEPT ![p.of] = None] /\ Well
       \/ Fault /\ UNCHANGED customs
    /\ Only(p, {ToLoad})
    /\ UNCHANGED <<config, text, all, enabled, toolForm, shown, loaded, early, unsaved>>

Answer(p) ==
    /\ UNCHANGED <<page, clicks>>
    /\ \/ p.kind = "chat" /\ AnswerChat(p)
       \/ p.kind = "tools" /\ AnswerTools(p)
       \/ /\ UNCHANGED chatPart
          /\ \/ p.kind = "load" /\ AnswerLoad(p)
             \/ p.kind = "save" /\ AnswerSave(p)
             \/ p.kind = "tool" /\ AnswerTool(p)
             \/ p.kind = "remove" /\ AnswerRemove(p)

AgentNext ==
    \/ /\ UNCHANGED page
       /\ \/ \E form \in 0..Len(messages) : Send(form)
          \/ EditText \/ ToggleAll \/ TypeTool \/ Cancel \/ SaveTool
          \/ \E b \in Builtin : ToggleBuiltin(b)
          \/ \E reload \in BOOLEAN : Save(reload)
          \/ \E c \in Custom : EditTool(c) \/ RemoveTool(c)
    \/ \E p \in pending : Answer(p)

-----------------------------------------------------------------------------
(* Property *)

\* builtin_allowed: no list, and an empty one, allow every tool.
Allowed == IF config.tools \in {None, {}} THEN Builtin ELSE config.tools

\* A form of the conversation is sent once, and what the agent answers follows
\* its question, unless the welcome came late; the stored texts are not replaced
\* by blanks, unless they were saved before they had come; the agent has the
\* tools that are ticked, unless they are not saved or none is; and no tool gets
\* what another held.
AgentAsSet ==
    /\ replaced \/ \A i \in 2..Len(messages) :
          messages[i].by = "agent" => messages[i - 1].by = "user" /\ messages[i - 1].turn = messages[i].turn
    /\ \A i, j \in DOMAIN sent : sent[i] = sent[j] => i = j
    /\ early \/ config.text # "blank"
    /\ \/ ~loaded \/ unsaved \/ Ticked = {} \/ \E p \in pending : p.kind = "save"
       \/ Allowed = (IF all THEN Builtin ELSE enabled)
    /\ \A c \in Custom : customs[c] \in {None, c, "typed"}
=============================================================================
