--------------------------- MODULE DecoderEditor ---------------------------
(***************************************************************************)
(* The console's page of payload decoders (DecodersManager) and the        *)
(* platform's table behind it: one form shows the selected decoder, a new  *)
(* one or an imported codec, while the list, the template and the answers  *)
(* to the form's own requests come in.  A decoder stands for its name; a   *)
(* script is the decoder it first came from, "template", "shengda" or      *)
(* "typed".  A request takes effect when it is answered.                   *)
(***************************************************************************)
EXTENDS Naturals

CONSTANTS
    Decoder,    \* the names decoders may have
    Profile,    \* the ChirpStack device profiles
    None,
    MaxClicks

VARIABLES
    stored,     \* the platform's decoders: None or [script, profile]
    created,    \* those the page created
    codec,      \* what each profile was last given: [chosen, own] or None
    decoders,   \* the list the page shows
    selected, isNew, form, profile, editBusy,
    pending,    \* requests on their way
    chosenFor,  \* the decoder the profile was chosen for; "kept" when an import kept the
                \* one that was there, or a list brought the decoder shown another
    late,       \* an answer changed the form, or the selection, of another decoder
    clicks

decoderVars == <<stored, created, codec, decoders, selected, isNew, form, profile, editBusy,
                 pending, chosenFor, late, clicks>>

serverPart == <<stored, created, codec>>
formPart == <<selected, isNew, form, profile, chosenFor>>

Empty == [name |-> None, script |-> None]

DecodersInit ==
    /\ \E rows \in SUBSET Decoder : stored \in
          [Decoder -> {None} \cup [script : Decoder, profile : Profile \cup {None}]]
       /\ \A d \in Decoder : IF d \in rows THEN stored[d] # None /\ stored[d].script = d
                            ELSE stored[d] = None
    /\ created = {} /\ codec = [p \in Profile |-> None]
    /\ decoders = [d \in Decoder |-> None] /\ selected = None /\ isNew = FALSE
    /\ form = Empty /\ profile = None /\ editBusy = FALSE
    /\ pending = {[kind |-> "list", next |-> "first", of |-> None]}
    /\ chosenFor = None /\ late = FALSE /\ clicks = 0

Click == clicks < MaxClicks /\ clicks' = clicks + 1

\* At most one request of a kind is on its way, to keep the instance small.
Send(request, others) ==
    /\ \A other \in others : other.kind # request.kind
    /\ pending' = others \cup {request}

Loading(next, d) == [kind |-> "list", next |-> next, of |-> d]

\* Mutant: the profile stays whichever decoder is selected.
SelectKeepingProfile(d, entry) ==
    /\ isNew' = FALSE /\ selected' = d
    /\ form' = [name |-> d, script |-> entry.script]
    /\ UNCHANGED <<profile, chosenFor>>

\* selectDecoder: the profile stays when the decoder has none of its own.
Select(d, entry) ==
    /\ isNew' = FALSE /\ selected' = d
    /\ form' = [name |-> d, script |-> entry.script]
    /\ profile' = IF entry.profile = None THEN profile ELSE entry.profile
    /\ chosenFor' = IF entry.profile = None THEN chosenFor ELSE d

\* The names cannot be clicked while a list loads.
ClickDecoder(d) ==
    /\ Click /\ decoders[d] # None /\ \A p \in pending : p.kind # "list"
    /\ Select(d, decoders[d])
    /\ UNCHANGED <<serverPart, decoders, editBusy, pending, late>>

StartNew ==
    /\ Click /\ isNew' = TRUE /\ selected' = None /\ Send([kind |-> "template"], pending)
    /\ UNCHANGED <<serverPart, decoders, form, profile, editBusy, chosenFor, late>>

ImportShengda ==
    /\ Click /\ Send(Loading("import", None), pending)
    /\ UNCHANGED <<serverPart, decoders, editBusy, late, formPart>>

\* The form is there while a decoder is selected or new.
Editing == isNew \/ selected # None

Edit(new) ==
    /\ Click /\ Editing /\ form' = new
    /\ UNCHANGED <<serverPart, decoders, selected, isNew, profile, editBusy, pending,
                   chosenFor, late>>

ChooseProfile(p) ==
    /\ Click /\ Editing /\ profile' = p /\ chosenFor' = selected
    /\ UNCHANGED <<serverPart, decoders, selected, isNew, form, editBusy, pending, late>>

Request(request) ==
    /\ Click /\ ~editBusy /\ editBusy' = TRUE /\ Send(request, pending)
    /\ UNCHANGED <<serverPart, decoders, late, formPart>>

SaveDecoder ==
    Editing /\ form.name # None
    /\ Request([kind |-> IF isNew THEN "create" ELSE "update", of |-> selected, body |-> form])

RemoveDecoder == selected # None /\ Request([kind |-> "remove", of |-> selected])

\* To the profile the page shows, or to one that ChirpStack is to make.
ApplyToChirpStack ==
    /\ selected # None
    /\ \/ /\ profile # None
          /\ Request([kind |-> "apply", of |-> selected, to |-> profile,
                      chosen |-> chosenFor = selected,
                      own |-> IF decoders[selected] = None \/ chosenFor = "kept"
                                   \/ selected \in created
                              THEN None ELSE decoders[selected].profile])
       \/ Request([kind |-> "apply", of |-> selected, to |-> None, chosen |-> TRUE,
                   own |-> None])

\* The decoders a list selects when it arrives: `list[0]` may be any of them.
Follow(p, rows) ==
    CASE p.next \in {"first", "removed"} -> rows
      [] p.next = "created" -> IF p.of \in rows THEN {p.of} ELSE rows
      [] p.next = "updated" -> rows \cap {p.of}
      [] OTHER -> {}

\* The list has a profile for the decoder shown that the list before had not.
BringsProfile(list) ==
    /\ selected # None /\ list[selected] # None /\ list[selected].profile # None
    /\ decoders[selected] # None => decoders[selected].profile # list[selected].profile

\* load, or the empty list if it fails, and what its caller does then.
AnswerList(p, list) ==
    LET follow == Follow(p, {d \in Decoder : list[d] # None})
    IN  /\ decoders' = list
        /\ pending' = (pending \ {p})
              \cup IF p.next = "import" THEN {[kind |-> "codec", list |-> list]} ELSE {}
        /\ \/ \E d \in follow : Select(d, list[d])
           \/ /\ follow = {} /\ UNCHANGED <<selected, isNew, form, profile>>
              /\ chosenFor' = IF chosenFor # selected /\ BringsProfile(list) THEN "kept" ELSE chosenFor
        /\ UNCHANGED <<serverPart, editBusy, late>>

AnswerTemplate(p, script) ==
    /\ form' = [name |-> None, script |-> script]
    /\ late' = (late \/ ~isNew) /\ pending' = pending \ {p}
    /\ UNCHANGED <<serverPart, decoders, selected, isNew, profile, editBusy, chosenFor>>

\* importShengda goes on with a decoder of the list it loaded, or with a new
\* one: which ones count as Shengda's is left open.  The profile stays.
AnswerCodec(p) ==
    LET known == {d \in Decoder : p.list[d] # None}
    IN  /\ pending' = pending \ {p}
        /\ \E d \in Decoder :
              /\ form' = [name |-> d, script |-> "shengda"] /\ isNew' = (d \notin known)
              /\ selected' = IF d \in known THEN d ELSE None
        /\ chosenFor' = "kept"
        /\ UNCHANGED <<serverPart, decoders, profile, editBusy, late>>

Answered(p, next) ==
    editBusy' = FALSE /\ Send(next, pending \ {p}) /\ UNCHANGED decoders

Script(body, other) == IF body.script = None THEN other ELSE body.script

\* createDecoder: a decoder of that name is overwritten.
AnswerCreate(p) ==
    LET d == p.body.name
        same == form.name = d /\ form.script \in {p.body.script, "typed"}
    IN  /\ stored' = [stored EXCEPT ![d] =
              [script |-> Script(p.body, "template"),
               profile |-> IF stored[d] = None THEN None ELSE stored[d].profile]]
        /\ created' = created \cup {d}
        /\ isNew' = FALSE /\ selected' = d
        /\ late' = (late \/ ~same)
        /\ Answered(p, Loading("created", d))
        /\ UNCHANGED <<codec, form, profile, chosenFor>>

AnswerUpdate(p) ==
    /\ stored[p.of] # None /\ p.body.name \in Decoder /\ (p.body.name = p.of \/ stored[p.body.name] = None)
    /\ stored' = [stored EXCEPT ![p.of].script = Script(p.body, @)]
    /\ Answered(p, Loading("updated", p.of))
    /\ UNCHANGED <<created, codec, late, formPart>>

AnswerRemove(p) ==
    /\ stored[p.of] # None
    /\ stored' = [stored EXCEPT ![p.of] = None]
    /\ selected' = None /\ isNew' = FALSE /\ form' = Empty
    /\ Answered(p, Loading("removed", None))
    /\ UNCHANGED <<created, codec, profile, chosenFor, late>>

\* A profile nobody knows stands for one that ChirpStack makes.
Unknown(q) ==
    /\ codec[q] = None /\ profile # q
    /\ \A d \in Decoder : /\ stored[d] # None => stored[d].profile # q
                          /\ decoders[d] # None => decoders[d].profile # q

\* applyDecoder puts the stored script, not the form's, in the profile, and
\* drops the error if the row does not take it.
AnswerApply(p) ==
    /\ stored[p.of] # None
    /\ \E q \in Profile :
          /\ IF p.to = None THEN Unknown(q) ELSE q = p.to
          /\ codec' = [codec EXCEPT ![q] = [chosen |-> p.chosen, own |-> p.own]]
          /\ stored' \in {stored, [stored EXCEPT ![p.of].profile = q]}
    /\ Answered(p, Loading("none", None))
    /\ UNCHANGED <<created, late, formPart>>

Refused(p) ==
    /\ editBusy' = FALSE /\ pending' = pending \ {p}
    /\ UNCHANGED <<serverPart, decoders, late, formPart>>

Answer(p) ==
    /\ UNCHANGED clicks
    /\ \/ p.kind = "list" /\ \E list \in {stored, [d \in Decoder |-> None]} : AnswerList(p, list)
       \/ p.kind = "template" /\ \E script \in {"template", None} : AnswerTemplate(p, script)
       \/ p.kind = "codec" /\ AnswerCodec(p)
       \/ p.kind = "codec" /\ Refused(p)
       \/ p.kind = "create" /\ AnswerCreate(p)
       \/ p.kind = "update" /\ AnswerUpdate(p)
       \/ p.kind = "remove" /\ AnswerRemove(p)
       \/ p.kind = "apply" /\ AnswerApply(p)
       \/ p.kind \in {"create", "update", "remove", "apply"} /\ Refused(p)

DecodersNext ==
    \/ \E d \in Decoder : ClickDecoder(d)
    \/ StartNew \/ ImportShengda \/ SaveDecoder \/ RemoveDecoder \/ ApplyToChirpStack
    \/ \E d \in Decoder : isNew /\ Edit([form EXCEPT !.name = d])
    \/ Edit([form EXCEPT !.script = "typed"])
    \/ \E p \in Profile : ChooseProfile(p)
    \/ \E p \in pending : Answer(p)

-----------------------------------------------------------------------------
(* Property *)

\* A decoder keeps its own script until one is typed or imported for it, or it
\* is created anew, unless an answer came to a form that showed another one;
\* and one that has a profile is applied to that one or to one chosen for it,
\* unless an import or its creation selected it, or it got the profile while the
\* page showed it without.
DecodersKeptApart ==
    /\ late \/ \A d \in Decoder : stored[d] # None =>
          stored[d].script \in {d, "typed", "shengda"} \/ d \in created
    /\ \A p \in Profile : codec[p] # None => codec[p].chosen \/ codec[p].own \in {None, p}
=============================================================================
